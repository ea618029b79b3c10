-------------------------------- MODULE Search --------------------------------
(***************************************************************************)
(* The search for aerodromes: what search.service.ts finds, in which order *)
(* and on which page, and the page that asks it (search/page.tsx), with    *)
(* its filters, the member's position, and the searches it saves, applies  *)
(* and replays from an address.                                            *)
(*                                                                         *)
(* A place is a point of the plane, one unit of length to a degree; an     *)
(* aerodrome has a name, a town and what it offers, and several may share  *)
(* a name or a town.  A request that a later one has replaced is answered  *)
(* to nobody: answers are kept by request (TanStack Query).                *)
(***************************************************************************)
EXTENDS Integers, Sequences, FiniteSets

CONSTANTS
    Aerodrome,
    Point,     \* places of aerodromes and members
    Amenity,   \* what a search may ask for
    Titles,    \* Titles[a]: the name's place in the alphabet
    Town,      \* Town[a]: the town's
    Radius,    \* radiusKm, of which the page asks for 200
    Limit,     \* limit, of which it asks for 20
    MaxLocating \* bound on calls of getCurrentPosition under way

ASSUME LimitAssumption == Limit \in Nat \ {0} /\ MaxLocating \in Nat
ASSUME AerodromeAssumption == IsFiniteSet(Aerodrome)
ASSUME PlaceAssumption == Point \subseteq Int \X Int
ASSUME AlphabetAssumption == {Titles, Town} \subseteq [Aerodrome -> Int]

VARIABLES
    located,  \* latitude and longitude of each aerodrome
    offers,   \* what each aerodrome offers
    ask,      \* the page: filters, where the member is, sort, page
    locating, \* calls of getCurrentPosition that have not called back
    shown,    \* the pages of this search that were answered
    saved     \* a saved search, or an address that holds one

searchVars == <<located, offers, ask, locating, shown, saved>>

Sort == {"name", "city", "distance"}
Here == {<<>>} \cup {<<p>> : p \in Point} \* userLat and userLng, or null
Pages == 1..Cardinality(Aerodrome) + 1

\* What a request asks for; the page keeps the same in its state.
Params == [wants : SUBSET Amenity, near : Here, sort : Sort, page : Pages]

Fresh == [wants |-> {}, near |-> <<>>, sort |-> "name", page |-> 1]

SearchTypeOK ==
    /\ located \in [Aerodrome -> Point]
    /\ offers \in [Aerodrome -> SUBSET Amenity]
    /\ ask \in Params
    /\ locating \in 0..MaxLocating
    /\ DOMAIN shown \subseteq Pages
    /\ \A p \in DOMAIN shown : shown[p] \in Seq(Aerodrome)
    /\ saved \subseteq Params

SearchInit ==
    /\ located \in [Aerodrome -> Point]
    /\ offers \in [Aerodrome -> SUBSET Amenity]
    /\ ask = Fresh
    /\ locating = 0
    /\ shown = <<>>
    /\ saved = {}

-----------------------------------------------------------------------------
(* search.service.ts *)

Gap(x, y) == IF x > y THEN x - y ELSE y - x
Square(p, q) == Gap(p[1], q[1]) * Gap(p[1], q[1]) + Gap(p[2], q[2]) * Gap(p[2], q[2])

\* A range of latitudes and one of longitudes; no distance is compared with the
\* radius afterwards.
InBox(p, a) == Gap(p[1], located[a][1]) <= Radius /\ Gap(p[2], located[a][2]) <= Radius

\* where
Matches(q) ==
    {a \in Aerodrome : /\ q.wants \subseteq offers[a]
                       /\ q.near # <<>> => InBox(q.near[1], a)}

\* orderBy: a distance sort without a position is one by name.
Rank(q, a) ==
    CASE q.sort = "city" -> Town[a]
      [] q.sort = "distance" /\ q.near # <<>> -> Square(q.near[1], located[a])
      [] OTHER -> Titles[a]

\* Those that tie come in any order, and in another one each time.
Orders(q) ==
    {s \in [1..Cardinality(Matches(q)) -> Matches(q)] :
        /\ \A i, j \in DOMAIN s : i # j => s[i] # s[j]
        /\ \A i, j \in DOMAIN s : i < j => Rank(q, s[i]) <= Rank(q, s[j])}

\* skip and take
PageOf(s, page) == SubSeq(s, (page - 1) * Limit + 1, IF page * Limit < Len(s) THEN page * Limit ELSE Len(s))

TotalPages(q) == (Cardinality(Matches(q)) + Limit - 1) \div Limit

-----------------------------------------------------------------------------
(* search/page.tsx *)

\* searchParams: with a position the page asks for distances.
SearchRequest == IF ask.near = <<>> THEN ask ELSE [ask EXCEPT !.sort = "distance"]

\* The answers of another search are not shown.
Becomes(s) ==
    /\ ask' = s
    /\ shown' = IF [s EXCEPT !.page = ask.page] = ask THEN shown ELSE <<>>

Answer ==
    /\ \E s \in Orders(SearchRequest) :
          shown' = [p \in DOMAIN shown \cup {ask.page} |->
                        IF p = ask.page THEN PageOf(s, p) ELSE shown[p]]
    /\ UNCHANGED <<located, offers, ask, locating, saved>>

\* PaginationNumbers, under the answer of the page.
GoToPage(p) ==
    /\ ask.page \in DOMAIN shown
    /\ p \in 1..TotalPages(SearchRequest)
    /\ Becomes([ask EXCEPT !.page = p])
    /\ UNCHANGED <<located, offers, locating, saved>>

Toggle(a) == IF a \in ask.wants THEN ask.wants \ {a} ELSE ask.wants \cup {a}

\* Mutant: the page number stays.
ToggleOnThisPage(a) ==
    /\ Becomes([ask EXCEPT !.wants = Toggle(a)])
    /\ UNCHANGED <<located, offers, locating, saved>>

ToggleFilter(a) ==
    /\ Becomes([ask EXCEPT !.wants = Toggle(a), !.page = 1])
    /\ UNCHANGED <<located, offers, locating, saved>>

SetSortBy(s) ==
    /\ Becomes([ask EXCEPT !.sort = s, !.page = 1])
    /\ UNCHANGED <<located, offers, locating, saved>>

\* The same page of more aerodromes.
LeaveNearby ==
    /\ ask.near # <<>>
    /\ Becomes([ask EXCEPT !.near = <<>>])
    /\ UNCHANGED <<located, offers, locating, saved>>

HandleNearby ==
    /\ ask.near = <<>> /\ locating < MaxLocating
    /\ locating' = locating + 1
    /\ UNCHANGED <<located, offers, ask, shown, saved>>

\* The browser calls back, whatever became of the page meanwhile.
Located(p) ==
    /\ locating > 0
    /\ locating' = locating - 1
    /\ Becomes([ask EXCEPT !.near = <<p>>, !.page = 1])
    /\ UNCHANGED <<located, offers, saved>>

NotLocated ==
    /\ locating > 0
    /\ locating' = locating - 1
    /\ UNCHANGED <<located, offers, ask, shown, saved>>

ResetAll ==
    /\ Becomes(Fresh)
    /\ UNCHANGED <<located, offers, locating, saved>>

\* confirmSaveSearch: the request, page number included.
SaveSearch ==
    /\ saved' = {SearchRequest}
    /\ UNCHANGED <<located, offers, ask, locating, shown>>

\* applySavedSearch: each part of the state is set, or reset when the search says
\* nothing of it.
Applied(q) == [q EXCEPT !.page = 1]

ApplySavedSearch(q) ==
    /\ Becomes(Applied(q))
    /\ UNCHANGED <<located, offers, locating, saved>>

\* The page is opened at an address that holds a search, page number included.
Replay(q) ==
    /\ ask' = q /\ shown' = <<>> /\ locating' = 0
    /\ UNCHANGED <<located, offers, saved>>

SearchNext ==
    \/ Answer \/ HandleNearby \/ NotLocated \/ LeaveNearby \/ ResetAll \/ SaveSearch
    \/ \E p \in Pages : GoToPage(p)
    \/ \E a \in Amenity : ToggleFilter(a)
    \/ \E s \in Sort \ {"distance"} : SetSortBy(s)
    \/ \E p \in Point : Located(p)
    \/ \E q \in saved : (ApplySavedSearch(q) \/ Replay(q))

SearchSpec == SearchInit /\ [][SearchNext]_searchVars

-----------------------------------------------------------------------------
(* Properties *)

Rows(p) == {shown[p][i] : i \in DOMAIN shown[p]}

Ties(q) == \E a, b \in Matches(q) : a # b /\ Rank(q, a) = Rank(q, b)

\* Each page is a request of its own, which orders all matches again: they are on
\* one page each, and all of them, unless two of them tie.
EveryMatchIsOnOnePage ==
    ~Ties(SearchRequest) =>
        /\ \A p, q \in DOMAIN shown : p # q => Rows(p) \cap Rows(q) = {}
        /\ DOMAIN shown = 1..TotalPages(SearchRequest)
              => UNION {Rows(p) : p \in DOMAIN shown} = Matches(SearchRequest)

\* Filters, positions that arrive late and saved searches come in any order: the
\* page never asks for one past the last, where it would show nothing.
ThePageExists == ask.page = 1 \/ ask.page <= TotalPages(SearchRequest)

\* What a member leafs through is his search, whole and once.
SearchesAreWhole == EveryMatchIsOnOnePage /\ ThePageExists

=============================================================================

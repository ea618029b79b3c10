------------------------------- MODULE Queries -------------------------------
(***************************************************************************)
(* What one tab keeps of the answers of the API (TanStack Query, as        *)
(* providers.tsx sets it up) and what the pages ask for again after a      *)
(* member has written: comments, corrections, events, local information,   *)
(* visits, lists, follows, notifications, aircraft and saved searches.     *)
(*                                                                         *)
(* A page shows the copy the tab has, asks for it when it has none or one  *)
(* that is a minute old, and after a write invalidates keys, one by one in *)
(* the handler of each button.  Requests and answers travel and overlap.   *)
(* An answer is the number of writes it counts.                            *)
(***************************************************************************)
EXTENDS Naturals, FiniteSets

CONSTANT MaxEdition     \* bound on writes

VARIABLES
    topic,    \* what is written
    edition,  \* writes the server has taken
    front,    \* the page in front, "" for one that shows nothing of all this
    copies,   \* the cached answers
    asking,   \* the requests for them
    posting,  \* the write under way
    excused   \* history: keys that no answer has reached since a write that the page
              \* had no reason to know of

queryVars == <<topic, edition, front, copies, asking, posting, excused>>

-----------------------------------------------------------------------------
(* What the pages show, by the name of the query *)

SheetShows == {"aerodrome", "events", "comments", "community-info", "visits", "user-lists"}
CommunityShows == {"community-profile", "community-followers", "community-follow-status"}
PlannerShows == {"profiles", "saved-searches-planner"}
SearchShows == {"saved-searches"}
BriefingShows == {"profiles", "aerodrome", "community-info"}
ListsShows == {"member-lists"}
MemberShows == {"aerodex-stats", "visits"}
AerodexShows == {"aerodex-stats", "visits"}
MapShows == {"visits"}
HeaderShows == {"notifications"}

PageShows == [sheet |-> SheetShows, community |-> CommunityShows, planner |-> PlannerShows,
              search |-> SearchShows, briefing |-> BriefingShows, listes |-> ListsShows,
              membre |-> MemberShows, aerodex |-> AerodexShows, map |-> MapShows,
              notifications |-> {"notifications"}]

\* The header is on every page.
Shows(p) == HeaderShows \cup IF p = "" THEN {} ELSE PageShows[p]

\* The answers that a write changes.
Tells == [correction |-> {"aerodrome"}, event |-> {"events"}, comment |-> {"comments"},
          info |-> {"community-info"}, visit |-> {"visits", "aerodex-stats"},
          list |-> {"user-lists", "member-lists"},
          follow |-> {"community-profile", "community-followers", "community-follow-status"},
          notification |-> {"notifications"}, aircraft |-> {"profiles"},
          search |-> {"saved-searches"}, planning |-> {"saved-searches-planner"}]

-----------------------------------------------------------------------------
(* The writes: where the button is, what it writes, which keys its handler     *)
(* invalidates and which queries it fetches again at once                      *)

Writing(p, t, invalidates, refetches) ==
    [page |-> p, topic |-> t, invalidates |-> invalidates, refetches |-> refetches]

SubmitCorrection == Writing("sheet", "correction", {"aerodrome"}, {})
ReportCorrection == Writing("sheet", "correction", {"aerodrome"}, {})
PostComment == Writing("sheet", "comment", {}, {"comments"})
PostReply == Writing("sheet", "comment", {}, {"comments"})
ReportComment == Writing("sheet", "comment", {}, {"comments"})
RemoveComment == Writing("sheet", "comment", {}, {"comments"})
SubmitEvent == Writing("sheet", "event", {}, {"events"})
RemoveEvent == Writing("sheet", "event", {}, {"events"})
SetVisit == Writing("sheet", "visit", {"visits", "aerodex-stats"}, {"visits"})
AddToList == Writing("sheet", "list", {"user-lists"}, {})
CreateListOnSheet == Writing("sheet", "list", {"user-lists"}, {})
\* Mutant: the lists of the member's own page.
CreateListElsewhere == Writing("listes", "list", {"user-lists"}, {})
CreateListOnPage == Writing("listes", "list", {"member-lists"}, {})
DropList == Writing("listes", "list", {"member-lists"}, {})
ConfirmInfo == Writing("sheet", "info", {"community-info"}, {})
ProposeInfo == Writing("sheet", "info", {"community-info"}, {})
ToggleFollow == Writing("community", "follow", CommunityShows, {})
MarkAllRead == Writing("", "notification", {"notifications"}, {})
MarkAllReadOnPage == Writing("notifications", "notification", {"notifications"}, {})
SaveAircraft == Writing("planner", "aircraft", {"profiles"}, {})
SavePlanning == Writing("planner", "planning", {"saved-searches-planner"}, {})
KeepSearch == Writing("search", "search", {"saved-searches"}, {})

Writings == {SubmitCorrection, ReportCorrection, PostComment, PostReply, ReportComment,
             RemoveComment, SubmitEvent, RemoveEvent, SetVisit, AddToList, CreateListOnSheet,
             CreateListOnPage, DropList, ConfirmInfo, ProposeInfo, ToggleFollow, MarkAllRead,
             MarkAllReadOnPage, SaveAircraft, SavePlanning, KeepSearch}

-----------------------------------------------------------------------------

NoCopy == [held |-> FALSE, of |-> 0, stale |-> FALSE]
NotAsking == [step |-> "idle", of |-> 0]
Sent == [step |-> "sent", of |-> 0]
NoPost == [step |-> "idle", by |-> MarkAllRead, taken |-> FALSE]

\* Only the queries that tell of the topic move.
About == Tells[topic]

QueriesInit ==
    /\ topic \in DOMAIN Tells
    /\ edition = 0
    /\ front = ""
    /\ copies = [k \in About |-> NoCopy]
    /\ asking = [k \in About |-> NotAsking]
    /\ posting = NoPost
    /\ excused = {}

\* A copy is fetched when there is none, or it is stale, and nothing is under way.
Wanted(k) == asking[k].step = "idle" /\ (~copies[k].held \/ copies[k].stale)

\* Another page, or the tab comes back to the front; all pages that show nothing of
\* the topic are alike.
OpenPage(p) ==
    /\ p # "" => PageShows[p] \cap About # {}
    /\ front' = p
    /\ asking' = [k \in About |-> IF k \in Shows(p) /\ Wanted(k) THEN Sent ELSE asking[k]]
    /\ UNCHANGED <<topic, edition, copies, posting, excused>>

\* staleTime
GrowStale(k) ==
    /\ copies[k].held /\ ~copies[k].stale
    /\ copies' = [copies EXCEPT ![k].stale = TRUE]
    /\ UNCHANGED <<topic, edition, front, asking, posting, excused>>

Press(w) ==
    /\ posting.step = "idle" /\ w.topic = topic /\ edition < MaxEdition
    /\ w.page \in {"", front}
    /\ posting' = [step |-> "sent", by |-> w, taken |-> FALSE]
    /\ UNCHANGED <<topic, edition, front, copies, asking, excused>>

\* What is told elsewhere than on the page of the button and is not invalidated may
\* lag; so may a page whose first answer left before the write.
Unaware(w) == {k \in About : \/ k \notin Shows(w.page) \cup w.invalidates
                             \/ asking[k].step # "idle" /\ ~copies[k].held}

ServePost ==
    /\ posting.step = "sent"
    /\ \/ /\ edition' = edition + 1
          /\ posting' = [posting EXCEPT !.step = "answered", !.taken = TRUE]
          /\ excused' = excused \cup Unaware(posting.by)
       \/ /\ posting' = [posting EXCEPT !.step = "answered"]
          /\ UNCHANGED <<edition, excused>>
    /\ UNCHANGED <<topic, front, copies, asking>>

\* Mutant: a request under way is good enough.
AskUnlessAsking(k) == IF asking[k].step = "idle" THEN Sent ELSE asking[k]

\* cancelRefetch: a request under way is given up for a new one, unless the tab
\* waits for its first answer.
AskAgain(k) == IF asking[k].step # "idle" /\ ~copies[k].held THEN asking[k] ELSE Sent

\* Keys the page in front shows are fetched at once, the others when a page needs
\* them; a refetch asks at once either way.  A late answer, to a page that was left
\* meanwhile, will pass for one to the invalidation.
PostArrives ==
    /\ posting.step = "answered"
    /\ LET w == posting.by
           again == w.refetches \cup (w.invalidates \cap Shows(front))
           late == {k \in (w.invalidates \cap About) \ again : asking[k].step = "answered"}
       IN IF posting.taken
          THEN /\ asking' = [k \in About |-> IF k \in again THEN AskAgain(k) ELSE asking[k]]
               /\ copies' = [k \in About |-> [copies[k] EXCEPT
                                 !.stale = copies[k].held /\ (@ \/ k \in w.invalidates)]]
               /\ excused' = excused \cup late
          ELSE UNCHANGED <<asking, copies, excused>>
    /\ posting' = NoPost
    /\ UNCHANGED <<topic, edition, front>>

ServeQuery(k) ==
    /\ asking[k].step = "sent"
    /\ asking' = [asking EXCEPT ![k] = [step |-> "answered", of |-> edition]]
    /\ excused' = excused \ {k}
    /\ UNCHANGED <<topic, edition, front, copies, posting>>

QueryArrives(k) ==
    /\ asking[k].step = "answered"
    /\ copies' = [copies EXCEPT ![k] = [held |-> TRUE, of |-> asking[k].of, stale |-> FALSE]]
    /\ asking' = [asking EXCEPT ![k] = NotAsking]
    /\ UNCHANGED <<topic, edition, front, posting, excused>>

\* retry: 1, so twice; an answer to a write is lost once.
Lose ==
    /\ \/ /\ posting.step # "idle"
          /\ posting' = NoPost
          /\ excused' = IF posting.taken THEN excused \cup About ELSE excused
          /\ UNCHANGED asking
       \/ \E k \in About :
          /\ asking[k].step # "idle"
          /\ asking' = [asking EXCEPT ![k] = NotAsking]
          /\ excused' = excused \cup {k}
          /\ UNCHANGED posting
    /\ UNCHANGED <<topic, edition, front, copies>>

\* Another device, or another member.
WrittenElsewhere ==
    /\ edition < MaxEdition
    /\ edition' = edition + 1
    /\ excused' = excused \cup About
    /\ UNCHANGED <<topic, front, copies, asking, posting>>

QueriesNext ==
    \/ \E p \in DOMAIN PageShows \cup {""} : OpenPage(p)
    \/ \E w \in Writings : Press(w)
    \/ ServePost \/ PostArrives
    \/ \E k \in Tells[topic] : GrowStale(k) \/ ServeQuery(k) \/ QueryArrives(k)
    \/ Lose \/ WrittenElsewhere

QueriesSpec == QueriesInit /\ [][QueriesNext]_queryVars

-----------------------------------------------------------------------------
(* Properties *)

\* Each button names by itself what must be asked for again, and an answer may have
\* left before the write: once nothing is under way, a page shows every write its
\* member made on it, and what an answer has brought since.
OwnWritesShow ==
    posting.step = "idle" =>
        \A k \in (About \cap Shows(front)) \ excused :
            copies[k].held /\ asking[k].step = "idle" => copies[k].of = edition

=============================================================================

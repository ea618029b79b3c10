------------------------------- MODULE MCMembers -------------------------------
(* A member's account, second factor, log and searches, and what the public   *)
(* sees of members: seven parts that share nothing, checked in one run, where   *)
(* each behaviour is a behaviour of one of them, the others standing still.   *)
(* Two requests run at once.                                                  *)
(* Accounts: three addresses, three spellings of one name and three links, so *)
(* that one more than the bound would be seen: the three links with the first *)
(* account and the first name, the three accounts and names without a link.   *)
(* SecondFactor: two secrets, the default tolerance of one step, the three    *)
(* steps in which one code is good; three codes are used.  Visits: one tab,   *)
(* and other devices.  Visibility: two members, of whom either looks like the *)
(* other, one request and three changes.  Search: three aerodromes, pages of  *)
(* one, four places a member may be at, two calls for the position, any offer.*)
(* PlannerPage: two departures, two profiles, a home or none; calculations    *)
(* where no search was saved and there is no home, for both only change what  *)
(* the member changes himself.  Queries: two writes, one where several keys    *)
(* tell of it; of the three that tell of a follow, two get answers.           *)
EXTENDS SecondFactor, Accounts, Visits, Visibility, Search, PlannerPage, Queries, TLC

CONSTANTS r1, r2, t1, d1, d2, f1, f2, f3

VARIABLE part

mcVars == <<part, vars, accountVars, visitVars, visibilityVars, searchVars, plannerPageVars, queryVars>>

Spread == f1 :> <<0, 0>> @@ f2 :> <<2, 2>> @@ f3 :> <<3, 0>>

(* Only the part that moves starts anywhere; the others start in one state. *)
MCInit ==
  /\ part \in {"factor", "accounts", "visits", "visibility", "search", "planner", "queries"}
  /\ part # "visits" => stored = NoStatus
  /\ located = Spread
  /\ part # "search" => offers = [f \in Aerodrome |-> {}]
  /\ part # "queries" => topic = "comment"
  /\ Init /\ AccountsInit /\ VisitsInit /\ VisibilityInit /\ SearchInit /\ PlannerPageInit
  /\ QueriesInit
  /\ home.is \in IF part = "planner" THEN {Unset, d1} ELSE {Unset}

Others(p) == /\ p # "factor" => UNCHANGED vars
             /\ p # "accounts" => UNCHANGED accountVars
             /\ p # "visits" => UNCHANGED visitVars
             /\ p # "visibility" => UNCHANGED visibilityVars
             /\ p # "search" => UNCHANGED searchVars
             /\ p # "planner" => UNCHANGED plannerPageVars
             /\ p # "queries" => UNCHANGED queryVars

MCNext ==
  /\ UNCHANGED part
  /\ \/ part = "factor" /\ Next /\ Others("factor")
     \/ part = "accounts" /\ AccountsNext /\ Others("accounts")
     \/ part = "visits" /\ VisitsNext /\ Others("visits")
     \/ part = "visibility" /\ VisibilityNext /\ Others("visibility")
     \/ part = "search" /\ SearchNext /\ Others("search")
     \/ part = "planner" /\ PlannerPageNext /\ Others("planner")
     \/ part = "queries" /\ QueriesNext /\ Others("queries")

MCSpec == MCInit /\ [][MCNext]_mcVars

Requests == {r1, r2}
Tabs == {t1}
Names == 1..3
OneName == [n \in Names |-> "bob"]
Addresses == 1..3
Links == 1..3
Secrets == 1..2
Fields == {f1, f2, f3}
Corners == {<<0, 0>>, <<0, 2>>, <<2, 2>>, <<3, 0>>}
Alphabet == f1 :> 1 @@ f2 :> 2 @@ f3 :> 2
Towns == f1 :> 3 @@ f2 :> 1 @@ f3 :> 2
Profiles == 1..2
Departures == {d1, d2}

Requested == Permutations(Requests)

(* What is drawn at random is drawn in the order of its numbers. *)
InOrder(S) == \A i \in S : \A j \in 1..i : j \in S

LinksDrawn == {l \in Link : link[l].state # "none"}
Registered == {a \in Account : account[a] # "none"}
FirstNameOnly == /\ \A a \in Account : name[a] \in {1, Nobody}
                 /\ \A r \in Caller : doing[r].name \in {1, Nobody}

Few ==
  /\ Cardinality({c \in Code : accepted[c] > 0}) <= 3
  /\ LinksDrawn = {} \/ (Registered \subseteq {1} /\ FirstNameOnly)
  /\ InOrder(LinksDrawn) /\ InOrder(drawn)
  /\ last # Unset => kept = Unset /\ home.is = Unset
  /\ Cardinality(Tells[topic]) > 1 => edition <= 1
  /\ topic = "follow" => ~copies["community-followers"].held

================================================================================

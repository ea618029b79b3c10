-------------------------- MODULE MembersProofs ------------------------------
(***************************************************************************)
(* Proofs about a member's account and pages: the second factor, for any   *)
(* number of handlers and secrets, any tolerance and any length of time    *)
(* (SecondFactor); accounts and their links by e-mail (Accounts); what the *)
(* public sees of members (Visibility); the log of visits, for any number  *)
(* of tabs (Visits); the planner's page (PlannerPage); the queries the     *)
(* pages keep (Queries); and the search, whose pages are cut from orders   *)
(* that agree only where nothing ties (Search). Each part has its types,   *)
(* an inductive invariant in named conjuncts, lemmas with one step per     *)
(* action, and the theorems at its end.                                    *)
(***************************************************************************)
EXTENDS SecondFactor, Accounts, Visibility, Visits, PlannerPage, Queries, Search, FiniteSetTheorems,
        SequenceTheorems, WellFoundedInduction, TLAPS

-----------------------------------------------------------------------------
(* The second factor *)

\* A code that was accepted keeps a mark for longer than anyone may present it:
\* Window steps after its own, and the one a handler may lose before its claim.
MarksInv ==
    /\ \A c \in Code :
        \/ accepted[c] = 0
        \/ accepted[c] = 1 /\ marks[c] > c[2] + Window + 1
    /\ \A r \in Request : At(r, "checked") =>
        /\ req[r].code[2] - Window <= req[r].since
        /\ req[r].since <= req[r].code[2] + Window
        /\ req[r].since <= now
        /\ now <= req[r].since + MaxStall

\* As long as no handler has written to a row it no longer knew.
ProvenInv == stale \/ (enabled => (secret # None /\ secret = proven))

\* A handler about to write has read a row on which its request made sense.
CopiesInv ==
    \A r \in Request :
        /\ req[r].step # "idle" /\ req[r].op = "setup" => ~req[r].enabled
        /\ req[r].step # "idle" /\ req[r].op # "setup" => req[r].secret # None

SecondFactorInv == TypeOK /\ MarksInv

\* The types are kept.
LEMMA TypesKept == TypeOK /\ [Next]_vars => TypeOK'
<1> SUFFICES ASSUME TypeOK, [Next]_vars PROVE TypeOK'
  OBVIOUS
<1> USE DEF TypeOK, row
<1>1. Idle \in Handler
  BY WindowAssumption DEF Idle, Handler
<1>2. ASSUME NEW r \in Request, NEW op \in {"setup", "enable", "login", "disable"}, Begin(r, op)
      PROVE TypeOK'
  <2>1. [Idle EXCEPT !.step = "read", !.op = op, !.secret = secret, !.enabled = enabled] \in Handler
    BY <1>1 DEF Idle, Handler
  <2>2. req' \in [Request -> Handler]
    BY <1>2, <2>1 DEF Begin, Become
  <2>3. \A q \in Request : req'[q].step \in {"checked", "claimed"} => req'[q].code \in Code
    BY <1>2 DEF Begin, Become, Idle
  <2> QED
    BY <1>2, <2>2, <2>3 DEF Begin
<1>3. ASSUME NEW r \in Request, Finish(r) PROVE
        /\ req' \in [Request -> Handler]
        /\ \A q \in Request : req'[q].step \in {"checked", "claimed"} => req'[q].code \in Code
  BY <1>1, <1>3 DEF Finish, Become, Idle
<1>4. ASSUME NEW r \in Request, NEW s \in Secret, DrawSecret(r, s) PROVE TypeOK'
  BY <1>3, <1>4 DEF DrawSecret
<1>5. ASSUME NEW r \in Request, NEW c \in Code, Check(r, c) PROVE TypeOK'
  <2>1. [req[r] EXCEPT !.step = "checked", !.code = c, !.since = now] \in Handler
    BY DEF Handler
  <2>2. req' \in [Request -> Handler]
    BY <1>5, <2>1 DEF Check, Become
  <2>3. \A q \in Request : req'[q].step \in {"checked", "claimed"} => req'[q].code \in Code
    BY <1>5 DEF Check, Become, Handler
  <2> QED
    BY <1>5, <2>2, <2>3 DEF Check
<1>6. ASSUME NEW r \in Request, Claim(r) PROVE TypeOK'
  <2> DEFINE c == req[r].code
  <2>1. c \in Code
    BY <1>6 DEF Claim, ClaimFor, At
  <2>2. CASE marks[c] > now
    BY <1>3, <1>6, <2>2 DEF Claim, ClaimFor
  <2>3. CASE ~(marks[c] > now)
    <3>1. [req[r] EXCEPT !.step = "claimed"] \in Handler
      BY DEF Handler
    <3>2. req' = [req EXCEPT ![r] = [req[r] EXCEPT !.step = "claimed"]]
      BY <1>6, <2>3 DEF Claim, ClaimFor, Become
    <3>3. req' \in [Request -> Handler]
      BY <3>1, <3>2
    <3>4. \A q \in Request : req'[q].step \in {"checked", "claimed"} => req'[q].code \in Code
      BY <2>1, <3>2 DEF Handler
    <3>5. marks' = [marks EXCEPT ![c] = now + (2 * Window + 2)]
          /\ accepted' = [accepted EXCEPT ![c] = @ + 1]
      BY <1>6, <2>3 DEF Claim, ClaimFor
    <3>6. now + (2 * Window + 2) \in Nat /\ accepted[c] + 1 \in Nat
      BY <2>1, WindowAssumption
    <3>7. marks' \in [Code -> Nat] /\ accepted' \in [Code -> Nat]
      BY <2>1, <3>5, <3>6
    <3> QED
      BY <1>6, <3>3, <3>4, <3>7 DEF Claim, ClaimFor
  <2> QED
    BY <2>2, <2>3
<1>7. ASSUME NEW r \in Request, Reject(r) \/ WriteEnabled(r) \/ WriteDisabled(r) \/ SignIn(r) \/ Fail(r)
      PROVE TypeOK'
  <2>1. Finish(r)
    BY <1>7 DEF Reject, WriteEnabled, WriteDisabled, SignIn, Fail
  <2>2. req[r].secret \in Secret \cup {None}
    BY DEF Handler
  <2> QED
    BY <1>3, <1>7, <2>1, <2>2 DEF Reject, WriteEnabled, WriteDisabled, SignIn, Fail
<1>8. CASE Tick
  <2>1. now' \in 0..MaxTime
    BY <1>8, WindowAssumption DEF Tick
  <2> QED
    BY <1>8, <2>1 DEF Tick
<1>9. CASE UNCHANGED vars
  BY <1>9 DEF vars
<1> QED
  BY <1>2, <1>4, <1>5, <1>6, <1>7, <1>8, <1>9 DEF Next, Setup, Enable, VerifyLogin, Disable

\* Nothing has been accepted.
LEMMA TypesInit == Init => TypeOK
<1> SUFFICES ASSUME Init PROVE TypeOK
  OBVIOUS
<1>1. Idle \in Handler
  BY WindowAssumption DEF Idle, Handler
<1>2. /\ marks \in [Code -> Nat] /\ accepted \in [Code -> Nat]
      /\ now \in 0..MaxTime
  BY WindowAssumption DEF Init
<1>3. /\ req \in [Request -> Handler]
      /\ \A r \in Request : req[r].step \in {"checked", "claimed"} => req[r].code \in Code
  BY <1>1 DEF Init, Idle
<1>4. /\ secret \in (drawn \cup {None}) /\ secret \in Secret \cup {None}
      /\ proven \in Secret \cup {None} /\ drawn \subseteq Secret
      /\ enabled \in BOOLEAN /\ stale \in BOOLEAN
  BY DEF Init
<1> QED
  BY <1>2, <1>3, <1>4 DEF TypeOK

\* Type correctness.
THEOREM TypesHold == Spec => []TypeOK
<1> QED
  BY TypesInit, TypesKept, PTL DEF Spec

-----------------------------------------------------------------------------
(* A code serves once. *)

\* A code whose mark has expired can no longer be claimed: whoever holds it
\* has checked it at most MaxStall steps ago.
LEMMA MarksAreKept == SecondFactorInv /\ [Next]_vars => MarksInv'
<1> SUFFICES ASSUME TypeOK, MarksInv, [Next]_vars PROVE MarksInv'
  BY DEF SecondFactorInv
<1> USE DEF MarksInv
<1>1. ASSUME NEW c \in Code PROVE c[2] \in Int
  BY <1>1, WindowAssumption DEF Code
<1>2. ASSUME UNCHANGED <<marks, accepted, now>>,
             \A q \in Request : req'[q] = req[q] \/ req'[q].step # "checked"
      PROVE MarksInv'
  BY <1>2 DEF At
<1>3. ASSUME NEW r \in Request, Finish(r)
      PROVE \A q \in Request : req'[q] = req[q] \/ req'[q].step # "checked"
  BY <1>3 DEF Finish, Become, Idle, TypeOK
<1>4. ASSUME NEW r \in Request, NEW op \in {"setup", "enable", "login", "disable"}, Begin(r, op)
      PROVE MarksInv'
  BY <1>2, <1>4 DEF Begin, Become, Idle, TypeOK
<1>5. ASSUME NEW r \in Request, NEW s \in Secret, DrawSecret(r, s) PROVE MarksInv'
  BY <1>2, <1>3, <1>5 DEF DrawSecret
<1>6. ASSUME NEW r \in Request, NEW c \in Code, Check(r, c) PROVE MarksInv'
  <2>1. now \in Int /\ now <= now + MaxStall
    BY StallAssumption, WindowAssumption DEF TypeOK
  <2>2. req' = [req EXCEPT ![r] = [req[r] EXCEPT !.step = "checked", !.code = c, !.since = now]]
    BY <1>6 DEF Check, Become
  <2>3. req'[r].code = c /\ req'[r].since = now /\ \A q \in Request \ {r} : req'[q] = req[q]
    BY <2>2 DEF TypeOK, Handler
  <2>4. c[2] - Window <= now /\ now <= c[2] + Window /\ UNCHANGED <<marks, accepted, now>>
    BY <1>6 DEF Check
  <2> QED
    BY <2>1, <2>3, <2>4 DEF At
<1>7. ASSUME NEW r \in Request, Claim(r) PROVE MarksInv'
  <2> DEFINE c == req[r].code
  <2>1. c \in Code /\ At(r, "checked")
    BY <1>7 DEF Claim, ClaimFor, At, TypeOK
  <2>2. CASE marks[c] > now
    BY <1>2, <1>3, <1>7, <2>2 DEF Claim, ClaimFor
  <2>3. CASE ~(marks[c] > now)
    <3>1. /\ req' = [req EXCEPT ![r] = [req[r] EXCEPT !.step = "claimed"]]
          /\ marks' = [marks EXCEPT ![c] = now + (2 * Window + 2)]
          /\ accepted' = [accepted EXCEPT ![c] = @ + 1]
          /\ now' = now
      BY <1>7, <2>3 DEF Claim, ClaimFor, Become
    <3>2. req[r].code[2] - Window <= req[r].since /\ req[r].since <= c[2] + Window
          /\ req[r].since <= now /\ now <= req[r].since + MaxStall
      BY <2>1
    <3>3. req[r].since \in Int /\ now \in Int /\ marks[c] \in Int /\ c[2] \in Int /\ Window \in Int
      BY <1>1, <2>1, WindowAssumption DEF TypeOK, Handler
    <3>4. accepted[c] = 0
      <4>1. now <= c[2] + Window + 1
        BY <3>2, <3>3, StallAssumption
      <4> QED
        BY <2>1, <2>3, <3>3, <4>1
    <3>5. now + (2 * Window + 2) > c[2] + Window + 1
      BY <3>2, <3>3
    <3>6. accepted'[c] = 1 /\ marks'[c] > c[2] + Window + 1
      BY <2>1, <3>1, <3>4, <3>5 DEF TypeOK
    <3>7. \A d \in Code \ {c} : accepted'[d] = accepted[d] /\ marks'[d] = marks[d]
      BY <3>1 DEF TypeOK
    <3>8. \A q \in Request : req'[q] = req[q] \/ req'[q].step # "checked"
      BY <3>1 DEF TypeOK, Handler
    <3> QED
      BY <3>1, <3>6, <3>7, <3>8 DEF At
  <2> QED
    BY <2>2, <2>3
<1>8. ASSUME NEW r \in Request, Reject(r) \/ WriteEnabled(r) \/ WriteDisabled(r) \/ SignIn(r) \/ Fail(r)
      PROVE MarksInv'
  <2>1. Finish(r) /\ UNCHANGED <<marks, accepted, now>>
    BY <1>8 DEF Reject, WriteEnabled, WriteDisabled, SignIn, Fail
  <2> QED
    BY <1>2, <1>3, <2>1
<1>9. CASE Tick
  <2>1. now' = now + 1 /\ UNCHANGED <<req, marks, accepted>> /\ now \in Int
    BY <1>9, WindowAssumption DEF Tick, TypeOK
  <2>2. \A r \in Request : At(r, "checked") => now < req[r].since + MaxStall
    BY <1>9 DEF Tick
  <2>3. \A r \in Request : req[r].since \in Int
    BY WindowAssumption DEF TypeOK, Handler
  <2>4. \A r \in Request : At(r, "checked") => now' <= req[r].since + MaxStall /\ req[r].since <= now'
    BY <2>1, <2>2, <2>3, StallAssumption
  <2> QED
    BY <2>1, <2>4 DEF At
<1>10. CASE UNCHANGED vars
  BY <1>10 DEF vars, At
<1> QED
  BY <1>4, <1>5, <1>6, <1>7, <1>8, <1>9, <1>10 DEF Next, Setup, Enable, VerifyLogin, Disable

\* No code is accepted twice, for any tolerance, as long as a handler claims a
\* code at most one step after it has checked it.
THEOREM CodesStaySingleUse == Spec => []CodesAreSingleUse
<1>1. Init => MarksInv
  BY DEF Init, MarksInv, At, Idle
<1>2. SecondFactorInv /\ [Next]_vars => SecondFactorInv'
  BY TypesKept, MarksAreKept DEF SecondFactorInv
<1>3. SecondFactorInv => CodesAreSingleUse
  BY DEF SecondFactorInv, MarksInv, CodesAreSingleUse
<1> QED
  BY <1>1, <1>2, <1>3, TypesInit, PTL DEF Spec, SecondFactorInv

-----------------------------------------------------------------------------
(* A second factor that is on has been shown. *)

\* What a handler carries has passed the tests of its first lines.
LEMMA CopiesAreKept == TypeOK /\ CopiesInv /\ [Next]_vars => CopiesInv'
<1> SUFFICES ASSUME TypeOK, CopiesInv, [Next]_vars PROVE CopiesInv'
  OBVIOUS
<1> USE DEF CopiesInv
<1>1. ASSUME \A q \in Request :
               \/ req'[q].step = "idle"
               \/ /\ req[q].step # "idle"
                  /\ req'[q].op = req[q].op
                  /\ req'[q].secret = req[q].secret
                  /\ req'[q].enabled = req[q].enabled
      PROVE CopiesInv'
  BY <1>1
<1>2. ASSUME NEW r \in Request, Finish(r) PROVE CopiesInv'
  <2>1. \A q \in Request : req'[q] = req[q] \/ req'[q].step = "idle"
    BY <1>2 DEF Finish, Become, Idle, TypeOK
  <2> QED
    BY <1>1, <2>1
<1>3. ASSUME NEW r \in Request, NEW op \in {"setup", "enable", "login", "disable"}, Begin(r, op),
             op = "setup" => ~enabled, op # "setup" => secret # None
      PROVE CopiesInv'
  <2>1. req' = [req EXCEPT ![r] = [Idle EXCEPT !.step = "read", !.op = op,
                                   !.secret = secret, !.enabled = enabled]]
    BY <1>3 DEF Begin, Become
  <2>2. req'[r].op = op /\ req'[r].secret = secret /\ req'[r].enabled = enabled
        /\ \A q \in Request \ {r} : req'[q] = req[q]
    BY <2>1 DEF TypeOK, Idle
  <2> QED
    BY <1>3, <2>2
<1>4. ASSUME NEW r \in Request, NEW c \in Code, Check(r, c) PROVE CopiesInv'
  <2>1. req' = [req EXCEPT ![r] = [req[r] EXCEPT !.step = "checked", !.code = c, !.since = now]]
    BY <1>4 DEF Check, Become
  <2> QED
    BY <1>1, <1>4, <2>1 DEF TypeOK, Handler, Check, At
<1>5. ASSUME NEW r \in Request, Claim(r) PROVE CopiesInv'
  <2>1. CASE Finish(r)
    BY <1>2, <2>1
  <2>2. CASE Become(r, [req[r] EXCEPT !.step = "claimed"])
    BY <1>1, <1>5, <2>2 DEF TypeOK, Handler, Claim, ClaimFor, At, Become
  <2> QED
    BY <1>5, <2>1, <2>2 DEF Claim, ClaimFor
<1>6. CASE UNCHANGED vars
  BY <1>6 DEF vars
<1>7. CASE Tick
  BY <1>7 DEF Tick
<1>8. ASSUME NEW r \in Request,
             Reject(r) \/ WriteEnabled(r) \/ WriteDisabled(r) \/ SignIn(r) \/ Fail(r)
             \/ \E s \in Secret : DrawSecret(r, s)
      PROVE CopiesInv'
  BY <1>2, <1>8 DEF Reject, WriteEnabled, WriteDisabled, SignIn, Fail, DrawSecret
<1> QED
  BY <1>3, <1>4, <1>5, <1>6, <1>7, <1>8 DEF Next, Setup, Enable, VerifyLogin, Disable

\* The row that is enabled is the row whose code was checked, unless a handler
\* wrote to a row it no longer knew.
LEMMA ProvenIsKept == TypeOK /\ CopiesInv /\ ProvenInv /\ [Next]_vars => ProvenInv'
<1> SUFFICES ASSUME TypeOK, CopiesInv, ProvenInv, [Next]_vars PROVE ProvenInv'
  OBVIOUS
<1> USE DEF ProvenInv
<1>1. ASSUME UNCHANGED <<secret, enabled, proven, stale>> PROVE ProvenInv'
  BY <1>1
<1>2. ASSUME NEW r \in Request, NEW s \in Secret, DrawSecret(r, s) PROVE ProvenInv'
  <2>1. ~req[r].enabled
    BY <1>2 DEF DrawSecret, At, CopiesInv
  <2> QED
    BY <1>2, <2>1 DEF DrawSecret, Outdated, TypeOK
<1>3. ASSUME NEW r \in Request, WriteEnabled(r) PROVE ProvenInv'
  <2>1. req[r].secret # None
    BY <1>3 DEF WriteEnabled, At, CopiesInv
  <2> QED
    BY <1>3, <2>1 DEF WriteEnabled, Outdated
<1>4. ASSUME NEW r \in Request, WriteDisabled(r) PROVE ProvenInv'
  BY <1>4 DEF WriteDisabled
<1>5. CASE \E r \in Request : \/ (\E op \in {"setup", "enable", "login", "disable"} : Begin(r, op))
                               \/ (\E c \in Code : Check(r, c))
                               \/ Claim(r) \/ Reject(r) \/ SignIn(r) \/ Fail(r)
  BY <1>1, <1>5 DEF Begin, Check, Claim, ClaimFor, Reject, SignIn, Fail, row
<1>6. CASE (Tick \/ UNCHANGED vars)
  BY <1>1, <1>6 DEF Tick, vars, row
<1> QED
  BY <1>2, <1>3, <1>4, <1>5, <1>6 DEF Next, Setup, Enable, VerifyLogin, Disable

\* A second factor that is on has been shown, or a lost update has happened.
THEOREM EnabledSecretStaysProven == Spec => []EnabledSecretWasProven
<1>1. Init => CopiesInv /\ ProvenInv
  BY DEF Init, CopiesInv, ProvenInv, Idle
<1>2. ProvenInv => EnabledSecretWasProven
  BY DEF ProvenInv, EnabledSecretWasProven
<1> QED
  BY <1>1, <1>2, TypesInit, TypesKept, CopiesAreKept, ProvenIsKept, PTL DEF Spec

\* Both promises of the second factor, for every number of handlers and secrets.
THEOREM SecondFactorStaysSound == Spec => []SecondFactorIsSound
<1>1. EnabledSecretWasProven /\ CodesAreSingleUse => SecondFactorIsSound
  BY DEF SecondFactorIsSound
<1> QED
  BY <1>1, EnabledSecretStaysProven, CodesStaySingleUse, PTL

-----------------------------------------------------------------------------
(* Accounts *)

\* What a handler carries on is about an account, a name or a link there is.
ErrandsInv ==
    \A r \in Caller :
        /\ ~OnErrand(r, "idle") => doing[r].of \in Account
        /\ doing[r].step \in {"name", "create", "rename"} => doing[r].name \in Name
        /\ OnErrand(r, "open") => doing[r].link \in Link /\ link[doing[r].link].state # "none"

\* Who is about to create a link of this kind for this account.
Linking(a, t) == {r \in Caller : OnErrand(r, "link") /\ doing[r].of = a /\ doing[r].type = t}

FewLinksInv ==
    \A a \in Account, t \in Type :
        /\ IsFiniteSet(Live(a, t))
        /\ Cardinality(Live(a, t)) + Cardinality(Linking(a, t)) <= Cardinality(Caller)

\* Who has opened this link and not yet spent it.
Opening(l) == {r \in Caller : OnErrand(r, "open") /\ doing[r].link = l}

FewUsesInv ==
    \A l \in Link :
        /\ link[l].state \in {"none", "live"} => uses[l] = 0
        /\ uses[l] + Cardinality(Opening(l)) <= Cardinality(Caller)

\* The accounts that are to be given this name, its look-up having succeeded.
Choosing(n) ==
    {r \in Caller : doing[r].step \in {"create", "rename"} /\ Fold[doing[r].name] = Fold[n]}
Candidates(n) == {a \in Account : \E r \in Choosing(n) : doing[r].of = a}

FewNamesakesInv ==
    \A n \in Name :
        /\ IsFiniteSet(Namesakes(n) \cup Candidates(n))
        /\ Cardinality(Namesakes(n) \cup Candidates(n)) <= Cardinality(Caller)

AccountsInv == AccountsTypeOK /\ ErrandsInv /\ FewLinksInv /\ FewUsesInv /\ FewNamesakesInv

-----------------------------------------------------------------------------
LEMMA CallersAreFinite ==
    ASSUME NEW D, D \subseteq Caller
    PROVE  IsFiniteSet(D) /\ Cardinality(D) \in Nat /\ Cardinality(D) <= Cardinality(Caller)
        /\ Cardinality(Caller) \in Nat
BY CallerAssumption, FS_Subset, FS_CardinalityType

LEMMA NoErrandTyped == NoErrand \in Errand /\ NoErrand.step = "idle"
BY DEF NoErrand, Errand, Type

\* The types are kept, and so is the sense of what handlers carry on.
LEMMA AccountTypesKept ==
    AccountsTypeOK /\ ErrandsInv /\ [AccountsNext]_accountVars => AccountsTypeOK' /\ ErrandsInv'
<1> SUFFICES ASSUME AccountsTypeOK, ErrandsInv, [AccountsNext]_accountVars
             PROVE  AccountsTypeOK' /\ ErrandsInv'
  OBVIOUS
<1> USE DEF AccountsTypeOK, ErrandsInv, OnErrand, Exists
<1>0. NoErrand \in Errand /\ NoErrand.step = "idle" /\ Nobody \notin Account
  BY NoErrandTyped, NobodyAssumption
<1>done. ASSUME NEW r \in Caller, Done(r)
         PROVE  /\ doing' \in [Caller -> Errand]
                /\ doing'[r].step = "idle" /\ \A q \in Caller \ {r} : doing'[q] = doing[q]
  BY <1>0, <1>done DEF Done, Turn
<1>step. ASSUME NEW r \in Caller, NEW s \in {"create", "link"}, Goto(r, s)
         PROVE  /\ doing' \in [Caller -> Errand]
                /\ doing'[r].step = s /\ doing'[r].of = doing[r].of
                /\ doing'[r].name = doing[r].name /\ doing'[r].link = doing[r].link
                /\ \A q \in Caller \ {r} : doing'[q] = doing[q]
  BY <1>step DEF Goto, Errand
<1>turn. ASSUME NEW r \in Caller, NEW h \in Errand, Turn(r, h)
         PROVE  /\ doing' \in [Caller -> Errand] /\ doing'[r] = h
                /\ \A q \in Caller \ {r} : doing'[q] = doing[q]
  BY <1>turn DEF Turn
<1>1. ASSUME NEW r \in Caller, NEW a \in Account, NEW n \in Name, RegisterFindEmail(r, a, n)
      PROVE  AccountsTypeOK' /\ ErrandsInv'
  <2> DEFINE h == [NoErrand EXCEPT !.step = "name", !.of = a, !.name = n]
  <2>1. h \in Errand /\ h.step = "name" /\ h.of = a /\ h.name = n
    BY DEF NoErrand, Errand, Type
  <2> HIDE DEF h
  <2>2. Turn(r, h) /\ UNCHANGED <<account, name, verified, link, uses>>
    BY <1>1 DEF RegisterFindEmail, h
  <2> QED
    BY <1>turn, <2>1, <2>2
<1>2. ASSUME NEW r \in Caller, RegisterFindName(r) PROVE AccountsTypeOK' /\ ErrandsInv'
  <2>1. CASE Goto(r, "create")
    BY <1>2, <1>step, <2>1 DEF RegisterFindName
  <2>2. CASE Done(r)
    BY <1>2, <1>done, <2>2 DEF RegisterFindName
  <2> QED
    BY <1>2, <2>1, <2>2 DEF RegisterFindName
<1>3. ASSUME NEW r \in Caller, RegisterCreate(r) PROVE AccountsTypeOK' /\ ErrandsInv'
  <2>0. doing[r].of \in Account /\ doing[r].name \in Name
        /\ UNCHANGED <<verified, link, uses>>
    BY <1>3 DEF RegisterCreate
  <2>1. CASE /\ account' = [account EXCEPT ![doing[r].of] = "live"]
             /\ name' = [name EXCEPT ![doing[r].of] = doing[r].name]
             /\ Goto(r, "link")
    <3>1. /\ account' \in [Account -> {"none", "live", "deleted"}]
          /\ name' \in [Account -> Name \cup {Nobody}]
          /\ \A a \in Account : account[a] = "live" => account'[a] = "live"
      BY <2>0, <2>1
    <3> QED
      BY <1>step, <2>0, <2>1, <3>1
  <2>2. CASE Done(r) /\ UNCHANGED <<account, name>>
    BY <1>done, <2>0, <2>2
  <2> QED
    BY <1>3, <2>1, <2>2 DEF RegisterCreate
<1>4. ASSUME NEW r \in Caller, NEW a \in Account, NEW n \in Name, RenameFindName(r, a, n)
      PROVE  AccountsTypeOK' /\ ErrandsInv'
  <2> DEFINE h == [NoErrand EXCEPT !.step = "rename", !.of = a, !.name = n]
  <2>1. h \in Errand /\ h.step = "rename" /\ h.of = a /\ h.name = n
    BY DEF NoErrand, Errand, Type
  <2> HIDE DEF h
  <2>2. Turn(r, h) /\ UNCHANGED <<account, name, verified, link, uses>>
    BY <1>4 DEF RenameFindName, h
  <2> QED
    BY <1>turn, <2>1, <2>2
<1>5. ASSUME NEW r \in Caller, Rename(r) PROVE AccountsTypeOK' /\ ErrandsInv'
  <2>1. name' \in [Account -> Name \cup {Nobody}] /\ Done(r)
        /\ UNCHANGED <<account, verified, link, uses>>
    BY <1>5 DEF Rename
  <2> QED
    BY <1>done, <2>1
<1>6. ASSUME NEW r \in Caller, NEW a \in Account, ResendFindUser(r, a)
      PROVE  AccountsTypeOK' /\ ErrandsInv'
  <2> DEFINE h == [NoErrand EXCEPT !.step = "invalidate", !.of = a]
  <2>1. h \in Errand /\ h.step = "invalidate" /\ h.of = a
    BY DEF NoErrand, Errand, Type
  <2> HIDE DEF h
  <2>2. Turn(r, h) /\ UNCHANGED <<account, name, verified, link, uses>>
    BY <1>6 DEF ResendFindUser, h
  <2> QED
    BY <1>turn, <2>1, <2>2
<1>7. ASSUME NEW r \in Caller, NEW a \in Account, ForgotFindUser(r, a)
      PROVE  AccountsTypeOK' /\ ErrandsInv'
  <2> DEFINE h == [NoErrand EXCEPT !.step = "invalidate", !.of = a, !.type = "reset"]
  <2>1. h \in Errand /\ h.step = "invalidate" /\ h.of = a
    BY DEF NoErrand, Errand, Type
  <2> HIDE DEF h
  <2>2. Turn(r, h) /\ UNCHANGED <<account, name, verified, link, uses>>
    BY <1>7 DEF ForgotFindUser, h
  <2> QED
    BY <1>turn, <2>1, <2>2
<1>8. ASSUME NEW r \in Caller, Invalidate(r) PROVE AccountsTypeOK' /\ ErrandsInv'
  <2>1. /\ link' \in [Link -> Row]
        /\ \A l \in Link : /\ link'[l].state = "live" => link'[l] = link[l]
                           /\ link[l].state # "none" => link'[l].state # "none"
    BY <1>8 DEF Invalidate, Live, Row
  <2>2. Goto(r, "link") /\ UNCHANGED <<account, name, verified, uses>> /\ OnErrand(r, "invalidate")
    BY <1>8 DEF Invalidate
  <2> QED
    BY <1>step, <2>1, <2>2
<1>9. ASSUME NEW r \in Caller, NEW l \in Link, CreateLink(r, l)
      PROVE  AccountsTypeOK' /\ ErrandsInv'
  <2>0. doing[r].of \in Account /\ doing[r].type \in Type /\ account[doing[r].of] = "live"
        /\ Done(r) /\ UNCHANGED <<account, name, verified, uses>>
    BY <1>9 DEF CreateLink, Errand
  <2>1. PICK sent \in BOOLEAN :
           link' = [link EXCEPT ![l] = [state |-> "live", of |-> doing[r].of,
                                        type |-> doing[r].type, mailed |-> sent]]
    BY <1>9 DEF CreateLink
  <2>2. /\ link' \in [Link -> Row] /\ link'[l].state = "live" /\ link'[l].of = doing[r].of
        /\ \A k \in Link \ {l} : link'[k] = link[k]
    BY <2>0, <2>1 DEF Row
  <2> QED
    BY <1>done, <2>0, <2>2
<1>10. ASSUME NEW r \in Caller, NEW l \in Link, FindLink(r, l)
       PROVE  AccountsTypeOK' /\ ErrandsInv'
  <2> DEFINE h == [NoErrand EXCEPT !.step = "open", !.of = link[l].of,
                                   !.type = link[l].type, !.link = l]
  <2>1. h \in Errand /\ h.step = "open" /\ h.of = link[l].of /\ h.link = l
    BY DEF NoErrand, Errand, Row
  <2>0. link[l].of \in Account /\ link[l].state = "live"
    BY <1>10 DEF FindLink
  <2> HIDE DEF h
  <2>2. Turn(r, h) /\ UNCHANGED <<account, name, verified, link, uses>>
    BY <1>10 DEF FindLink, h
  <2> QED
    BY <1>turn, <2>0, <2>1, <2>2
<1>11. ASSUME NEW r \in Caller, UseLink(r) PROVE AccountsTypeOK' /\ ErrandsInv'
  <2>0. doing[r].link \in Link /\ doing[r].of \in Account /\ Done(r) /\ UNCHANGED <<account, name>>
    BY <1>11 DEF UseLink
  <2>1. CASE UNCHANGED <<verified, link, uses>>
    BY <1>done, <2>0, <2>1
  <2>2. CASE /\ verified' = [verified EXCEPT ![doing[r].of] = @ \/ doing[r].type = "verify"]
             /\ link' = [link EXCEPT ![doing[r].link].state = "used"]
             /\ uses' = [uses EXCEPT ![doing[r].link] = @ + 1]
    <3>1. /\ link' \in [Link -> Row]
          /\ \A l \in Link : /\ link'[l].state = "live" => link'[l] = link[l]
                             /\ link[l].state # "none" => link'[l].state # "none"
      BY <2>0, <2>2 DEF Row
    <3>2. uses' \in [Link -> Nat] /\ verified' \in [Account -> BOOLEAN]
      BY <2>0, <2>2
    <3> QED
      BY <1>done, <2>0, <3>1, <3>2
  <2> QED
    BY <1>11, <2>1, <2>2 DEF UseLink
<1>12. ASSUME NEW l \in Link, Expire(l) PROVE AccountsTypeOK' /\ ErrandsInv'
  <2>1. /\ link' \in [Link -> Row]
        /\ \A k \in Link : /\ link'[k].state = "live" => link'[k] = link[k]
                           /\ link[k].state # "none" => link'[k].state # "none"
    BY <1>12 DEF Expire, Row
  <2> QED
    BY <1>12, <2>1 DEF Expire
<1>13. ASSUME NEW a \in Account, EraseAccount(a) PROVE AccountsTypeOK' /\ ErrandsInv'
  <2>1. /\ link' \in [Link -> Row]
        /\ \A k \in Link : /\ link'[k].state = "live" => link'[k] = link[k] /\ link[k].of # a
                           /\ link[k].state # "none" => link'[k].state # "none"
    BY <1>13 DEF EraseAccount, Row
  <2>2. account' \in [Account -> {"none", "live", "deleted"}]
        /\ \A b \in Account \ {a} : account'[b] = account[b]
    BY <1>13 DEF EraseAccount
  <2> QED
    BY <1>13, <2>1, <2>2 DEF EraseAccount
<1>14. ASSUME NEW r \in Caller, GiveUpErrand(r) PROVE AccountsTypeOK' /\ ErrandsInv'
  BY <1>14, <1>done DEF GiveUpErrand
<1>15. CASE UNCHANGED accountVars
  BY <1>15 DEF accountVars
<1> QED
  BY <1>1, <1>2, <1>3, <1>4, <1>5, <1>6, <1>7, <1>8, <1>9, <1>10, <1>11, <1>12, <1>13, <1>14, <1>15
     DEF AccountsNext, ErrandStep

\* What is fewer stays few.
LEMMA FewRemain ==
    ASSUME NEW D, NEW L, NEW V, NEW D2, NEW L2, IsFiniteSet(D), IsFiniteSet(L), IsFiniteSet(V),
           Cardinality(D) + Cardinality(L) <= Cardinality(V), D2 \subseteq D, L2 \subseteq L
    PROVE  IsFiniteSet(D2) /\ Cardinality(D2) + Cardinality(L2) <= Cardinality(V)
<1>1. /\ IsFiniteSet(D2) /\ Cardinality(D2) <= Cardinality(D)
      /\ IsFiniteSet(L2) /\ Cardinality(L2) <= Cardinality(L)
  BY FS_Subset
<1>2. {Cardinality(D), Cardinality(L), Cardinality(V), Cardinality(D2), Cardinality(L2)} \subseteq Nat
  BY <1>1, FS_CardinalityType
<1> QED
  BY <1>1, <1>2

\* A handler that has created a link is no longer about to.
LEMMA OneForOne ==
    ASSUME NEW D, NEW L, NEW V, NEW D2, NEW L2, NEW d, NEW l, l \in L, IsFiniteSet(D),
           IsFiniteSet(L), IsFiniteSet(V), Cardinality(D) + Cardinality(L) <= Cardinality(V),
           D2 \subseteq D \cup {d}, L2 \subseteq L \ {l}
    PROVE  IsFiniteSet(D2) /\ Cardinality(D2) + Cardinality(L2) <= Cardinality(V)
<1>1. /\ IsFiniteSet(D \cup {d})
      /\ Cardinality(D \cup {d}) \in {Cardinality(D), Cardinality(D) + 1}
  BY FS_AddElement
<1>2. /\ IsFiniteSet(L \ {l})
      /\ Cardinality(L \ {l}) = Cardinality(L) - 1
  BY FS_RemoveElement
<1>3. {Cardinality(D), Cardinality(L), Cardinality(V), Cardinality(D \cup {d}), Cardinality(L \ {l})} \subseteq Nat
  BY <1>1, <1>2, FS_CardinalityType
<1>4. Cardinality(D \cup {d}) + Cardinality(L \ {l}) <= Cardinality(V)
  BY <1>1, <1>2, <1>3
<1> QED
  BY <1>1, <1>2, <1>4, FewRemain

\* Every link created has been waited for by a handler of its own.
LEMMA FewLinksKept ==
    AccountsTypeOK /\ ErrandsInv /\ FewLinksInv /\ [AccountsNext]_accountVars => FewLinksInv'
<1> SUFFICES ASSUME AccountsTypeOK, ErrandsInv, FewLinksInv, [AccountsNext]_accountVars,
                    NEW a \in Account, NEW t \in Type
             PROVE  /\ IsFiniteSet(Live(a, t)')
                    /\ Cardinality(Live(a, t)') + Cardinality(Linking(a, t)') <= Cardinality(Caller)
  BY DEF FewLinksInv
<1> DEFINE Few == /\ IsFiniteSet(Live(a, t)')
                  /\ Cardinality(Live(a, t)') + Cardinality(Linking(a, t)') <= Cardinality(Caller)
<1>0. /\ IsFiniteSet(Live(a, t)) /\ IsFiniteSet(Linking(a, t)) /\ IsFiniteSet(Caller)
      /\ Cardinality(Live(a, t)) + Cardinality(Linking(a, t)) <= Cardinality(Caller)
  BY CallersAreFinite, CallerAssumption DEF FewLinksInv, Linking
<1>a. ASSUME Live(a, t)' \subseteq Live(a, t), Linking(a, t)' \subseteq Linking(a, t) PROVE Few
  BY <1>0, <1>a, FewRemain
<1>b. ASSUME Live(a, t)' = {} PROVE Few
  <2>1. /\ Cardinality(Linking(a, t)') \in Nat
        /\ Cardinality(Linking(a, t)') <= Cardinality(Caller)
    BY CallersAreFinite DEF Linking
  <2>2. IsFiniteSet(Live(a, t)') /\ Cardinality(Live(a, t)') = 0
    BY <1>b, FS_EmptySet
  <2> QED
    BY <2>1, <2>2
<1>c. ASSUME NEW l, NEW r \in Linking(a, t), Live(a, t)' \subseteq Live(a, t) \cup {l},
             Linking(a, t)' \subseteq Linking(a, t) \ {r}
      PROVE  Few
  <2>1. /\ IsFiniteSet(Live(a, t)')
        /\ Cardinality(Live(a, t)') + Cardinality(Linking(a, t)') <= Cardinality(Caller)
    <3> DEFINE D == Live(a, t)
               L == Linking(a, t)
               D2 == Live(a, t)'
               L2 == Linking(a, t)'
    <3>1. /\ IsFiniteSet(D) /\ IsFiniteSet(L) /\ IsFiniteSet(Caller) /\ r \in L
          /\ Cardinality(D) + Cardinality(L) <= Cardinality(Caller)
          /\ D2 \subseteq D \cup {l} /\ L2 \subseteq L \ {r}
      BY <1>0, <1>c
    <3> HIDE DEF D, L, D2, L2
    <3>2. IsFiniteSet(D2) /\ Cardinality(D2) + Cardinality(L2) <= Cardinality(Caller)
      BY <3>1, OneForOne
    <3> QED
      BY <3>2 DEF D2, L2
  <2> QED
    BY <2>1
<1> HIDE DEF Few
<1> USE DEF AccountsTypeOK, OnErrand, Exists
<1>d. ASSUME UNCHANGED link PROVE Live(a, t)' = Live(a, t)
  BY <1>d DEF Live
<1>e. ASSUME NEW r \in Caller, doing'[r].step # "link",
             \A q \in Caller \ {r} : doing'[q] = doing[q]
      PROVE  Linking(a, t)' \subseteq Linking(a, t)
  BY <1>e DEF Linking
<1>f. ASSUME NEW r \in Caller, Done(r)
      PROVE  doing'[r].step # "link" /\ \A q \in Caller \ {r} : doing'[q] = doing[q]
  BY <1>f DEF Done, Turn, NoErrand
<1>1. ASSUME NEW r \in Caller, NEW b \in Account, NEW n \in Name, RegisterFindEmail(r, b, n)
      PROVE  Few
  BY <1>1, <1>a, <1>d, <1>e DEF RegisterFindEmail, Turn, NoErrand
<1>2. ASSUME NEW r \in Caller, RegisterFindName(r) PROVE Few
  <2>1. doing'[r].step # "link" /\ \A q \in Caller \ {r} : doing'[q] = doing[q]
    BY <1>2, <1>f DEF RegisterFindName, Goto, Errand
  <2> QED
    BY <1>2, <1>a, <1>d, <1>e, <2>1 DEF RegisterFindName
<1>3. ASSUME NEW r \in Caller, RegisterCreate(r) PROVE Few
  <2>0. Live(a, t)' = Live(a, t)
    BY <1>3, <1>d DEF RegisterCreate
  <2>1. CASE Done(r)
    BY <1>a, <1>e, <1>f, <2>0, <2>1
  <2>2. CASE account[doing[r].of] = "none" /\ Goto(r, "link") /\ doing[r].of = a
    <3>1. Live(a, t) = {}
      BY <2>2 DEF Live
    <3> QED
      BY <1>b, <2>0, <3>1
  <2>3. CASE Goto(r, "link") /\ doing[r].of # a
    <3>1. Linking(a, t)' \subseteq Linking(a, t)
      BY <2>3 DEF Linking, Goto, Errand
    <3> QED
      BY <1>a, <2>0, <3>1
  <2> QED
    BY <1>3, <2>1, <2>2, <2>3 DEF RegisterCreate
<1>4. ASSUME NEW r \in Caller, NEW b \in Account, NEW n \in Name, RenameFindName(r, b, n)
      PROVE  Few
  BY <1>4, <1>a, <1>d, <1>e DEF RenameFindName, Turn, NoErrand
<1>5. ASSUME NEW r \in Caller, Rename(r) PROVE Few
  BY <1>5, <1>a, <1>d, <1>e, <1>f DEF Rename
<1>6. ASSUME NEW r \in Caller, NEW b \in Account, ResendFindUser(r, b) PROVE Few
  BY <1>6, <1>a, <1>d, <1>e DEF ResendFindUser, Turn, NoErrand
<1>7. ASSUME NEW r \in Caller, NEW b \in Account, ForgotFindUser(r, b) PROVE Few
  BY <1>7, <1>a, <1>d, <1>e DEF ForgotFindUser, Turn, NoErrand
<1>8. ASSUME NEW r \in Caller, Invalidate(r) PROVE Few
  <2>1. Live(a, t)' \subseteq Live(a, t)
    BY <1>8 DEF Invalidate, Live, Row
  <2>2. CASE doing[r].of = a /\ doing[r].type = t
    <3>1. Live(a, t)' = {}
      BY <1>8, <2>2 DEF Invalidate, Live, Row
    <3> QED
      BY <1>b, <3>1
  <2>3. CASE doing[r].of # a \/ doing[r].type # t
    <3>1. Linking(a, t)' \subseteq Linking(a, t)
      BY <1>8, <2>3 DEF Invalidate, Linking, Goto, Errand
    <3> QED
      BY <1>a, <2>1, <3>1
  <2> QED
    BY <2>2, <2>3
<1>9. ASSUME NEW r \in Caller, NEW l \in Link, CreateLink(r, l) PROVE Few
  <2>0. doing'[r].step # "link" /\ \A q \in Caller \ {r} : doing'[q] = doing[q]
    BY <1>9, <1>f DEF CreateLink
  <2>1. PICK sent \in BOOLEAN :
           link' = [link EXCEPT ![l] = [state |-> "live", of |-> doing[r].of,
                                        type |-> doing[r].type, mailed |-> sent]]
    BY <1>9 DEF CreateLink
  <2>2. CASE r \in Linking(a, t)
    <3>1. Live(a, t)' \subseteq Live(a, t) \cup {l}
      BY <2>1 DEF Live
    <3>2. Linking(a, t)' \subseteq Linking(a, t) \ {r}
      BY <2>0 DEF Linking
    <3> QED
      BY <1>c, <2>2, <3>1, <3>2
  <2>3. CASE r \notin Linking(a, t)
    <3>1. Live(a, t)' \subseteq Live(a, t)
      BY <1>9, <2>1, <2>3 DEF Live, Linking, CreateLink
    <3> QED
      BY <1>a, <1>e, <2>0, <3>1
  <2> QED
    BY <2>2, <2>3
<1>10. ASSUME NEW r \in Caller, NEW l \in Link, FindLink(r, l) PROVE Few
  BY <1>10, <1>a, <1>d, <1>e DEF FindLink, Turn, NoErrand
<1>11. ASSUME NEW r \in Caller, UseLink(r) PROVE Few
  <2>1. Live(a, t)' \subseteq Live(a, t)
    BY <1>11 DEF UseLink, Live, Row, ErrandsInv
  <2> QED
    BY <1>11, <1>a, <1>e, <1>f, <2>1 DEF UseLink
<1>12. ASSUME NEW l \in Link, Expire(l) PROVE Few
  BY <1>12, <1>a DEF Expire, Live, Linking, Row
<1>13. ASSUME NEW b \in Account, EraseAccount(b) PROVE Few
  BY <1>13, <1>a DEF EraseAccount, Live, Linking, Row
<1>14. ASSUME NEW r \in Caller, GiveUpErrand(r) PROVE Few
  BY <1>14, <1>a, <1>d, <1>e, <1>f DEF GiveUpErrand
<1>15. ASSUME UNCHANGED accountVars PROVE Few
  <2>1. Live(a, t)' \subseteq Live(a, t) /\ Linking(a, t)' \subseteq Linking(a, t)
    BY <1>15 DEF accountVars, Live, Linking
  <2> QED
    BY <1>a, <2>1
<1> QED
  BY <1>1, <1>2, <1>3, <1>4, <1>5, <1>6, <1>7, <1>8, <1>9, <1>10, <1>11, <1>12, <1>13, <1>14, <1>15
     DEF AccountsNext, ErrandStep, Few

\* A link that can be found has not been used, so what it may still be used for is
\* in the hands of those who have found it.
LEMMA FewUsesKept ==
    AccountsTypeOK /\ ErrandsInv /\ FewUsesInv /\ [AccountsNext]_accountVars => FewUsesInv'
<1> SUFFICES ASSUME AccountsTypeOK, ErrandsInv, FewUsesInv, [AccountsNext]_accountVars,
                    NEW l \in Link
             PROVE  /\ link'[l].state \in {"none", "live"} => uses'[l] = 0
                    /\ uses'[l] + Cardinality(Opening(l)') <= Cardinality(Caller)
  BY DEF FewUsesInv
<1> DEFINE Bounded == /\ link'[l].state \in {"none", "live"} => uses'[l] = 0
                      /\ uses'[l] + Cardinality(Opening(l)') <= Cardinality(Caller)
<1>0. /\ link[l].state \in {"none", "live"} => uses[l] = 0
      /\ uses[l] + Cardinality(Opening(l)) <= Cardinality(Caller)
      /\ uses[l] \in Nat
  BY DEF FewUsesInv, AccountsTypeOK
<1>1. /\ Cardinality(Opening(l)) \in Nat /\ IsFiniteSet(Opening(l)) /\ Cardinality(Caller) \in Nat
      /\ Cardinality(Opening(l)') \in Nat /\ Cardinality(Opening(l)') <= Cardinality(Caller)
  BY CallersAreFinite DEF Opening
<1>a. ASSUME Opening(l)' \subseteq Opening(l), uses'[l] = uses[l],
             link'[l].state \in {"none", "live"} => link[l].state \in {"none", "live"}
      PROVE  Bounded
  <2>1. Cardinality(Opening(l)') <= Cardinality(Opening(l))
    BY <1>1, <1>a, FS_Subset
  <2> QED
    BY <1>0, <1>1, <1>a, <2>1
<1>b. ASSUME uses'[l] = 0 PROVE Bounded
  BY <1>1, <1>b
<1>c. ASSUME NEW r \in Opening(l), Opening(l)' \subseteq Opening(l) \ {r}, uses'[l] = uses[l] + 1,
             link'[l].state \notin {"none", "live"}
      PROVE  Bounded
  <2>1. /\ Cardinality(Opening(l) \ {r}) = Cardinality(Opening(l)) - 1
        /\ IsFiniteSet(Opening(l) \ {r})
    BY <1>1, FS_RemoveElement
  <2>2. Cardinality(Opening(l)') <= Cardinality(Opening(l) \ {r})
    BY <1>c, <2>1, FS_Subset
  <2> QED
    BY <1>0, <1>1, <1>c, <2>1, <2>2
<1> HIDE DEF Bounded
<1> USE DEF AccountsTypeOK, OnErrand, Exists
<1>e. ASSUME NEW r \in Caller, doing'[r].step # "open",
             \A q \in Caller \ {r} : doing'[q] = doing[q]
      PROVE  Opening(l)' \subseteq Opening(l)
  BY <1>e DEF Opening
<1>f. ASSUME NEW r \in Caller, Done(r)
      PROVE  doing'[r].step # "open" /\ \A q \in Caller \ {r} : doing'[q] = doing[q]
  BY <1>f DEF Done, Turn, NoErrand
<1>g. ASSUME NEW r \in Caller, Goto(r, "create") \/ Goto(r, "link")
      PROVE  doing'[r].step # "open" /\ \A q \in Caller \ {r} : doing'[q] = doing[q]
  BY <1>g DEF Goto, Errand
<1>2. ASSUME NEW r \in Caller, NEW b \in Account, NEW n \in Name, RegisterFindEmail(r, b, n)
      PROVE  Bounded
  BY <1>2, <1>a, <1>e DEF RegisterFindEmail, Turn, NoErrand
<1>3. ASSUME NEW r \in Caller, RegisterFindName(r) PROVE Bounded
  BY <1>3, <1>a, <1>e, <1>f, <1>g DEF RegisterFindName
<1>4. ASSUME NEW r \in Caller, RegisterCreate(r) PROVE Bounded
  BY <1>4, <1>a, <1>e, <1>f, <1>g DEF RegisterCreate
<1>5. ASSUME NEW r \in Caller, NEW b \in Account, NEW n \in Name, RenameFindName(r, b, n)
      PROVE  Bounded
  BY <1>5, <1>a, <1>e DEF RenameFindName, Turn, NoErrand
<1>6. ASSUME NEW r \in Caller, Rename(r) PROVE Bounded
  BY <1>6, <1>a, <1>e, <1>f DEF Rename
<1>7. ASSUME NEW r \in Caller, NEW b \in Account, ResendFindUser(r, b) PROVE Bounded
  BY <1>7, <1>a, <1>e DEF ResendFindUser, Turn, NoErrand
<1>8. ASSUME NEW r \in Caller, NEW b \in Account, ForgotFindUser(r, b) PROVE Bounded
  BY <1>8, <1>a, <1>e DEF ForgotFindUser, Turn, NoErrand
<1>9. ASSUME NEW r \in Caller, Invalidate(r) PROVE Bounded
  <2>1. link'[l].state \in {"none", "live"} => link[l].state \in {"none", "live"}
    BY <1>9 DEF Invalidate, Live, Row
  <2> QED
    BY <1>9, <1>a, <1>e, <1>g, <2>1 DEF Invalidate
<1>10. ASSUME NEW r \in Caller, NEW k \in Link, CreateLink(r, k) PROVE Bounded
  <2>1. PICK sent \in BOOLEAN :
           link' = [link EXCEPT ![k] = [state |-> "live", of |-> doing[r].of,
                                        type |-> doing[r].type, mailed |-> sent]]
    BY <1>10 DEF CreateLink
  <2>2. link'[l].state \in {"none", "live"} => link[l].state \in {"none", "live"}
    BY <1>10, <2>1 DEF CreateLink
  <2> QED
    BY <1>10, <1>a, <1>e, <1>f, <2>2 DEF CreateLink
<1>11. ASSUME NEW r \in Caller, NEW k \in Link, FindLink(r, k) PROVE Bounded
  <2>1. CASE k = l
    BY <1>0, <1>11, <1>b, <2>1 DEF FindLink
  <2>2. CASE k # l
    <3>1. Opening(l)' \subseteq Opening(l)
      BY <1>11, <2>2 DEF FindLink, Turn, NoErrand, Opening
    <3> QED
      BY <1>11, <1>a, <3>1 DEF FindLink
  <2> QED
    BY <2>1, <2>2
<1>12. ASSUME NEW r \in Caller, UseLink(r) PROVE Bounded
  <2>0. doing[r].link \in Link /\ link[doing[r].link].state # "none"
        /\ doing'[r].step # "open" /\ \A q \in Caller \ {r} : doing'[q] = doing[q]
    BY <1>12, <1>f DEF UseLink, ErrandsInv
  <2>1. CASE UNCHANGED <<link, uses>>
    BY <1>a, <1>e, <2>0, <2>1
  <2>2. CASE /\ link' = [link EXCEPT ![doing[r].link].state = "used"]
             /\ uses' = [uses EXCEPT ![doing[r].link] = @ + 1]
             /\ doing[r].link = l
    <3>1. r \in Opening(l) /\ Opening(l)' \subseteq Opening(l) \ {r}
      BY <1>12, <2>0, <2>2 DEF Opening, UseLink
    <3>2. link'[l].state = "used" /\ uses'[l] = uses[l] + 1
      BY <2>2 DEF Row
    <3> QED
      BY <1>c, <3>1, <3>2
  <2>3. CASE /\ link' = [link EXCEPT ![doing[r].link].state = "used"]
             /\ uses' = [uses EXCEPT ![doing[r].link] = @ + 1]
             /\ doing[r].link # l
    <3>1. Opening(l)' \subseteq Opening(l)
      BY <1>e, <2>0
    <3>2. link'[l] = link[l] /\ uses'[l] = uses[l]
      BY <2>3
    <3> QED
      BY <1>a, <3>1, <3>2
  <2> QED
    BY <1>12, <2>1, <2>2, <2>3 DEF UseLink
<1>13. ASSUME NEW k \in Link, Expire(k) PROVE Bounded
  BY <1>13, <1>a DEF Expire, Opening, Row
<1>14. ASSUME NEW b \in Account, EraseAccount(b) PROVE Bounded
  BY <1>14, <1>a DEF EraseAccount, Opening, Row
<1>15. ASSUME NEW r \in Caller, GiveUpErrand(r) PROVE Bounded
  BY <1>15, <1>a, <1>e, <1>f DEF GiveUpErrand
<1>16. ASSUME UNCHANGED accountVars PROVE Bounded
  <2>1. Opening(l)' \subseteq Opening(l)
    BY <1>16 DEF accountVars, Opening
  <2> QED
    BY <1>16, <1>a, <2>1 DEF accountVars
<1> QED
  BY <1>2, <1>3, <1>4, <1>5, <1>6, <1>7, <1>8, <1>9, <1>10, <1>11, <1>12, <1>13, <1>14, <1>15, <1>16
     DEF AccountsNext, ErrandStep, Bounded

\* Handlers act for no more accounts than they are.
LEMMA FewAccountsOfFew ==
    ASSUME NEW who, NEW d, NEW A, who \subseteq Caller, A = {a \in Account : \E r \in who : d[r].of = a}
    PROVE  IsFiniteSet(A) /\ Cardinality(A) <= Cardinality(Caller)
<1> DEFINE some == {r \in who : d[r].of \in Account}
           of == [r \in some |-> d[r].of]
<1>1. IsFiniteSet(some) /\ Cardinality(some) <= Cardinality(Caller) /\ Cardinality(some) \in Nat
      /\ Cardinality(Caller) \in Nat
  BY CallersAreFinite
<1>2. of \in Surjection(some, A)
  BY DEF Surjection
<1>3. IsFiniteSet(A) /\ Cardinality(A) <= Cardinality(some)
  BY <1>1, <1>2, FS_Surjection
<1>4. Cardinality(A) \in Nat
  BY <1>3, FS_CardinalityType
<1> QED
  BY <1>1, <1>3, <1>4

\* A name in use is looked up before it is given again: the accounts that carry it
\* or are to are those of handlers that found it free together.
LEMMA FewNamesakesKept ==
    AccountsTypeOK /\ ErrandsInv /\ FewNamesakesInv /\ [AccountsNext]_accountVars => FewNamesakesInv'
<1> SUFFICES ASSUME AccountsTypeOK, ErrandsInv, FewNamesakesInv, [AccountsNext]_accountVars,
                    NEW n \in Name
             PROVE  /\ IsFiniteSet((Namesakes(n) \cup Candidates(n))')
                    /\ Cardinality((Namesakes(n) \cup Candidates(n))') <= Cardinality(Caller)
  BY DEF FewNamesakesInv
<1> DEFINE D == Namesakes(n) \cup Candidates(n)
           D2 == (Namesakes(n) \cup Candidates(n))'
           Few == IsFiniteSet(D2) /\ Cardinality(D2) <= Cardinality(Caller)
<1>0. IsFiniteSet(D) /\ Cardinality(D) <= Cardinality(Caller)
  BY DEF FewNamesakesInv
<1>c. IsFiniteSet(Candidates(n)') /\ Cardinality(Candidates(n)') <= Cardinality(Caller)
  <2>1. /\ Choosing(n)' \subseteq Caller
        /\ Candidates(n)' = {a \in Account : \E r \in Choosing(n)' : doing'[r].of = a}
    BY DEF Choosing, Candidates
  <2> DEFINE W == Choosing(n)'
             A == Candidates(n)'
  <2>2. W \subseteq Caller /\ A = {a \in Account : \E r \in W : doing'[r].of = a}
    BY <2>1
  <2> HIDE DEF W, A
  <2>3. IsFiniteSet(A) /\ Cardinality(A) <= Cardinality(Caller)
    BY <2>2, FewAccountsOfFew
  <2> QED
    BY <2>3 DEF A
<1>a. ASSUME D2 \subseteq D PROVE Few
  <2>1. IsFiniteSet(D2) /\ Cardinality(D2) <= Cardinality(D)
    BY <1>0, <1>a, FS_Subset
  <2>2. Cardinality(D2) \in Nat /\ Cardinality(D) \in Nat /\ Cardinality(Caller) \in Nat
    BY <1>0, <2>1, FS_CardinalityType, CallerAssumption
  <2> QED
    BY <1>0, <2>1, <2>2
<1>b. ASSUME D2 \subseteq Candidates(n)' PROVE Few
  <2>1. IsFiniteSet(D2) /\ Cardinality(D2) <= Cardinality(Candidates(n)')
    BY <1>b, <1>c, FS_Subset
  <2>2. Cardinality(D2) \in Nat /\ Cardinality(Candidates(n)') \in Nat /\ Cardinality(Caller) \in Nat
    BY <1>c, <2>1, FS_CardinalityType, CallerAssumption
  <2> QED
    BY <1>c, <2>1, <2>2
<1> HIDE DEF Few
<1> USE DEF AccountsTypeOK, OnErrand, Exists
<1>e. ASSUME NEW r \in Caller, doing'[r].step \notin {"create", "rename"},
             \A q \in Caller \ {r} : doing'[q] = doing[q]
      PROVE  Candidates(n)' \subseteq Candidates(n)
  BY <1>e DEF Candidates, Choosing
<1>f. ASSUME NEW r \in Caller, Done(r)
      PROVE  /\ doing'[r].step \notin {"create", "rename"}
             /\ \A q \in Caller \ {r} : doing'[q] = doing[q]
  BY <1>f DEF Done, Turn, NoErrand
<1>g. ASSUME NEW r \in Caller, Goto(r, "link")
      PROVE  /\ doing'[r].step \notin {"create", "rename"}
             /\ \A q \in Caller \ {r} : doing'[q] = doing[q]
  BY <1>g DEF Goto, Errand
<1>h. ASSUME UNCHANGED <<account, name>>, Candidates(n)' \subseteq Candidates(n) PROVE Few
  BY <1>a, <1>h DEF Namesakes
<1>2. ASSUME NEW r \in Caller, NEW b \in Account, NEW m \in Name, RegisterFindEmail(r, b, m)
      PROVE  Few
  BY <1>2, <1>e, <1>h DEF RegisterFindEmail, Turn, NoErrand
<1>3. ASSUME NEW r \in Caller, RegisterFindName(r) PROVE Few
  <2>1. CASE Done(r)
    BY <1>3, <1>e, <1>f, <1>h, <2>1 DEF RegisterFindName
  <2>2. CASE Goto(r, "create") /\ Namesakes(doing[r].name) = {}
    <3>0. /\ doing'[r].name = doing[r].name /\ \A q \in Caller \ {r} : doing'[q] = doing[q]
          /\ UNCHANGED <<account, name>>
      BY <1>3, <2>2 DEF RegisterFindName, Goto, Errand
    <3>1. CASE Fold[doing[r].name] = Fold[n]
      <4>1. Namesakes(n)' = {}
        BY <2>2, <3>0, <3>1 DEF Namesakes
      <4> QED
        BY <1>b, <4>1
    <3>2. CASE Fold[doing[r].name] # Fold[n]
      <4>1. Candidates(n)' \subseteq Candidates(n)
        BY <3>0, <3>2 DEF Candidates, Choosing
      <4> QED
        BY <1>h, <3>0, <4>1
    <3> QED
      BY <3>1, <3>2
  <2> QED
    BY <1>3, <2>1, <2>2 DEF RegisterFindName
<1>4. ASSUME NEW r \in Caller, RegisterCreate(r) PROVE Few
  <2>1. CASE Done(r) /\ UNCHANGED <<account, name>>
    BY <1>e, <1>f, <1>h, <2>1
  <2>2. CASE /\ account' = [account EXCEPT ![doing[r].of] = "live"]
             /\ name' = [name EXCEPT ![doing[r].of] = doing[r].name]
             /\ Goto(r, "link")
    <3>0. doing[r].of \in Account /\ doing[r].step = "create"
      BY <1>4 DEF RegisterCreate, ErrandsInv
    <3>1. Candidates(n)' \subseteq Candidates(n)
      BY <1>e, <1>g, <2>2
    <3>2. Namesakes(n)' \subseteq D
      <4> SUFFICES ASSUME NEW a \in Namesakes(n)' PROVE a \in D
        OBVIOUS
      <4>1. CASE a # doing[r].of
        BY <2>2, <4>1 DEF Namesakes
      <4>2. CASE a = doing[r].of
        <5>1. Fold[doing[r].name] = Fold[n]
          BY <2>2, <3>0, <4>2 DEF Namesakes
        <5> QED
          BY <3>0, <4>2, <5>1 DEF Candidates, Choosing
      <4> QED
        BY <4>1, <4>2
    <3> QED
      BY <1>a, <3>1, <3>2
  <2> QED
    BY <1>4, <2>1, <2>2 DEF RegisterCreate
<1>5. ASSUME NEW r \in Caller, NEW b \in Account, NEW m \in Name, RenameFindName(r, b, m)
      PROVE  Few
  <2>0. /\ doing'[r].step = "rename" /\ doing'[r].of = b /\ doing'[r].name = m
        /\ \A q \in Caller \ {r} : doing'[q] = doing[q]
        /\ UNCHANGED <<account, name>> /\ Namesakes(m) \subseteq {b}
    BY <1>5 DEF RenameFindName, Turn, NoErrand
  <2>1. CASE Fold[m] = Fold[n]
    <3>1. Namesakes(n)' \subseteq {b}
      BY <2>0, <2>1 DEF Namesakes
    <3>2. b \in Candidates(n)'
      BY <2>0, <2>1 DEF Candidates, Choosing
    <3> QED
      BY <1>b, <3>1, <3>2
  <2>2. CASE Fold[m] # Fold[n]
    <3>1. Candidates(n)' \subseteq Candidates(n)
      BY <2>0, <2>2 DEF Candidates, Choosing
    <3> QED
      BY <1>h, <2>0, <3>1
  <2> QED
    BY <2>1, <2>2
<1>6. ASSUME NEW r \in Caller, Rename(r) PROVE Few
  <2>0. doing[r].of \in Account /\ doing[r].step = "rename" /\ Done(r) /\ UNCHANGED account
    BY <1>6 DEF Rename, ErrandsInv
  <2>1. Candidates(n)' \subseteq Candidates(n)
    BY <1>e, <1>f, <2>0
  <2>2. Namesakes(n)' \subseteq D
    <3> SUFFICES ASSUME NEW a \in Namesakes(n)' PROVE a \in D
      OBVIOUS
    <3>1. CASE name'[a] = name[a]
      BY <2>0, <3>1 DEF Namesakes
    <3>2. CASE name'[a] # name[a]
      <4>1. a = doing[r].of /\ name'[a] = doing[r].name
        BY <1>6, <2>0, <3>2 DEF Rename, Namesakes
      <4>2. Fold[doing[r].name] = Fold[n]
        BY <4>1 DEF Namesakes
      <4> QED
        BY <2>0, <4>1, <4>2 DEF Candidates, Choosing
    <3> QED
      BY <3>1, <3>2
  <2> QED
    BY <1>a, <2>1, <2>2
<1>7. ASSUME NEW r \in Caller, NEW b \in Account, ResendFindUser(r, b) PROVE Few
  BY <1>7, <1>e, <1>h DEF ResendFindUser, Turn, NoErrand
<1>8. ASSUME NEW r \in Caller, NEW b \in Account, ForgotFindUser(r, b) PROVE Few
  BY <1>8, <1>e, <1>h DEF ForgotFindUser, Turn, NoErrand
<1>9. ASSUME NEW r \in Caller, Invalidate(r) PROVE Few
  BY <1>9, <1>e, <1>g, <1>h DEF Invalidate
<1>10. ASSUME NEW r \in Caller, NEW k \in Link, CreateLink(r, k) PROVE Few
  BY <1>10, <1>e, <1>f, <1>h DEF CreateLink
<1>11. ASSUME NEW r \in Caller, NEW k \in Link, FindLink(r, k) PROVE Few
  BY <1>11, <1>e, <1>h DEF FindLink, Turn, NoErrand
<1>12. ASSUME NEW r \in Caller, UseLink(r) PROVE Few
  BY <1>12, <1>e, <1>f, <1>h DEF UseLink
<1>13. ASSUME NEW k \in Link, Expire(k) PROVE Few
  BY <1>13, <1>h DEF Expire, Candidates, Choosing
<1>14. ASSUME NEW b \in Account, EraseAccount(b) PROVE Few
  <2>1. Namesakes(n)' \subseteq Namesakes(n)
    BY <1>14 DEF EraseAccount, Namesakes
  <2>2. Candidates(n)' \subseteq Candidates(n)
    BY <1>14 DEF EraseAccount, Candidates, Choosing
  <2> QED
    BY <1>a, <2>1, <2>2
<1>15. ASSUME NEW r \in Caller, GiveUpErrand(r) PROVE Few
  BY <1>15, <1>e, <1>f, <1>h DEF GiveUpErrand
<1>16. ASSUME UNCHANGED accountVars PROVE Few
  BY <1>16, <1>h DEF accountVars, Candidates, Choosing
<1> QED
  BY <1>2, <1>3, <1>4, <1>5, <1>6, <1>7, <1>8, <1>9, <1>10, <1>11, <1>12, <1>13, <1>14, <1>15, <1>16
     DEF AccountsNext, ErrandStep, Few

LEMMA AccountsBegin == AccountsInit => AccountsInv
<1> SUFFICES ASSUME AccountsInit PROVE AccountsInv
  OBVIOUS
<1>1. Cardinality(Caller) \in Nat
  BY CallersAreFinite
<1>2. AccountsTypeOK /\ ErrandsInv
  BY NoErrandTyped DEF AccountsInit, AccountsTypeOK, ErrandsInv, OnErrand, NoErrand, Row, Type
<1>3. /\ \A a \in Account, t \in Type : Live(a, t) = {} /\ Linking(a, t) = {}
      /\ \A l \in Link : Opening(l) = {} /\ uses[l] = 0
      /\ \A n \in Name : Namesakes(n) \cup Candidates(n) = {}
  BY DEF AccountsInit, Live, Linking, Opening, Namesakes, Candidates, Choosing, OnErrand, Exists, NoErrand
<1>4. IsFiniteSet({}) /\ Cardinality({}) = 0
  BY FS_EmptySet
<1>5. FewLinksInv
  BY <1>1, <1>3, <1>4 DEF FewLinksInv
<1>7. FewNamesakesInv
  <2> SUFFICES ASSUME NEW n \in Name
               PROVE  /\ IsFiniteSet(Namesakes(n) \cup Candidates(n))
                      /\ Cardinality(Namesakes(n) \cup Candidates(n)) <= Cardinality(Caller)
    BY DEF FewNamesakesInv
  <2>1. Namesakes(n) \cup Candidates(n) = {}
    BY <1>3
  <2> QED
    BY <1>1, <1>4, <2>1
<1>6. FewUsesInv
  BY <1>1, <1>3, <1>4 DEF FewUsesInv
<1> QED
  BY <1>2, <1>5, <1>6, <1>7 DEF AccountsInv

\* The strengthened invariant of the accounts.
THEOREM AccountsAreInvariant == AccountsSpec => []AccountsInv
<1>1. AccountsInv /\ [AccountsNext]_accountVars => AccountsInv'
  BY AccountTypesKept, FewLinksKept, FewUsesKept, FewNamesakesKept DEF AccountsInv
<1> QED
  BY <1>1, AccountsBegin, PTL DEF AccountsSpec

\* Requests that overlap may leave several links alive, use one several times and
\* share a name among several accounts, but never more than there are requests.
THEOREM EscapesAreBounded == AccountsSpec => []OnlyOverlapsEscape
<1>1. AccountsInv => OnlyOverlapsEscape
  <2> SUFFICES ASSUME AccountsInv PROVE OnlyOverlapsEscape
    OBVIOUS
  <2>1. LinksAreFew
    <3> SUFFICES ASSUME NEW a \in Account, NEW t \in Type
                 PROVE  Cardinality(Live(a, t)) <= Cardinality(Caller)
      BY DEF LinksAreFew
    <3>1. /\ Cardinality(Linking(a, t)) \in Nat /\ Cardinality(Caller) \in Nat
      BY CallersAreFinite DEF Linking
    <3>2. /\ Cardinality(Live(a, t)) \in Nat
          /\ Cardinality(Live(a, t)) + Cardinality(Linking(a, t)) <= Cardinality(Caller)
      BY FS_CardinalityType DEF AccountsInv, FewLinksInv
    <3> QED
      BY <3>1, <3>2
  <2>2. LinkUsesAreBounded
    <3> SUFFICES ASSUME NEW l \in Link PROVE uses[l] <= Cardinality(Caller)
      BY DEF LinkUsesAreBounded
    <3>1. Cardinality(Opening(l)) \in Nat /\ Cardinality(Caller) \in Nat
      BY CallersAreFinite DEF Opening
    <3>2. uses[l] \in Nat /\ uses[l] + Cardinality(Opening(l)) <= Cardinality(Caller)
      BY DEF AccountsInv, FewUsesInv, AccountsTypeOK
    <3> QED
      BY <3>1, <3>2
  <2>3. NamesakesAreFew
    <3> SUFFICES ASSUME NEW n \in Name PROVE Cardinality(Namesakes(n)) <= Cardinality(Caller)
      BY DEF NamesakesAreFew
    <3>1. /\ IsFiniteSet(Namesakes(n) \cup Candidates(n))
          /\ Cardinality(Namesakes(n) \cup Candidates(n)) <= Cardinality(Caller)
      BY DEF AccountsInv, FewNamesakesInv
    <3>2. /\ IsFiniteSet(Namesakes(n))
          /\ Cardinality(Namesakes(n)) <= Cardinality(Namesakes(n) \cup Candidates(n))
      BY <3>1, FS_Subset
    <3>3. {Cardinality(Namesakes(n)), Cardinality(Namesakes(n) \cup Candidates(n)), Cardinality(Caller)}
             \subseteq Nat
      BY <3>1, <3>2, FS_CardinalityType, CallerAssumption
    <3> QED
      BY <3>1, <3>2, <3>3
  <2> QED
    BY <2>1, <2>2, <2>3 DEF OnlyOverlapsEscape, LinksAreBounded
<1> QED
  BY <1>1, AccountsAreInvariant, PTL

-----------------------------------------------------------------------------
(* What the public is shown *)

PublicRequest == [route : Route \cup {"none"}, whose : SUBSET Author,
            named : SUBSET Author, searched : SUBSET Author]
PublicAnswer == [route : Route \cup {"none"}, facts : SUBSET Fact]

\* What a request has found in the rows it has read.
Found(v) ==
    ({"name"} \X v.named)
    \cup (IF v.route = "profile" THEN ({"visits"} \X v.named) \cup ({"search"} \X v.searched) ELSE {})
    \cup (IF v.route = "searches" THEN {"search"} \X v.named ELSE {})

\* A request could find what the members allow now, and what it has found it could find.
RequestsInv ==
    \A r \in Reading : ~On(r, "none") => Allowed \cup Found(visit[r]) \subseteq allowed[r]

VisibilityInv == VisibilityTypeOK /\ RequestsInv /\ PublicSeesWhatMembersAllow

LEMMA NothingAskedTyped == Nowhere \in PublicRequest /\ NoAnswer \in PublicAnswer
BY DEF Nowhere, NoAnswer, PublicRequest, PublicAnswer

\* What is given is about members, and what is not given about others may be shown.
LEMMA GivingKeeps ==
    ASSUME VisibilityInv, NEW r \in Reading, NEW facts \in SUBSET Fact, Give(r, facts),
           ~On(r, "none"), On(r, "corrections") \/ facts \subseteq allowed[r]
    PROVE  VisibilityInv'
<1> USE DEF VisibilityInv
<1>0. visit \in [Reading -> PublicRequest] /\ answer \in [Reading -> PublicAnswer]
  BY DEF VisibilityTypeOK, PublicRequest, PublicAnswer
<1>1. /\ visit' = [visit EXCEPT ![r] = Nowhere]
      /\ answer' = [answer EXCEPT ![r] = [route |-> visit[r].route, facts |-> facts]]
      /\ UNCHANGED <<wish, there, follows, allowed, turns>>
  BY DEF Give, Step
<1>2. visit[r].route \in Route \cup {"none"}
  BY <1>0 DEF PublicRequest
<1> DEFINE a == [route |-> visit[r].route, facts |-> facts]
<1>3. a \in PublicAnswer /\ a.facts = facts /\ a.route = visit[r].route
  BY <1>2 DEF PublicAnswer
<1>4. answer' = [answer EXCEPT ![r] = a]
  BY <1>1
<1> HIDE DEF a
<1>5. VisibilityTypeOK'
  <2>1. visit' \in [Reading -> PublicRequest] /\ answer' \in [Reading -> PublicAnswer]
    BY <1>0, <1>1, <1>3, <1>4, NothingAskedTyped
  <2> QED
    BY <2>1, <1>1 DEF VisibilityTypeOK, PublicRequest, PublicAnswer
<1>6. RequestsInv'
  <2> SUFFICES ASSUME NEW q \in Reading, ~On(q, "none")'
               PROVE  (Allowed \cup Found(visit[q]))' \subseteq allowed'[q]
    BY DEF RequestsInv
  <2>1. q # r /\ visit'[q] = visit[q]
    BY <1>0, <1>1 DEF On, Nowhere
  <2>2. Allowed' = Allowed /\ allowed' = allowed
    BY <1>1 DEF Allowed, Visible, Who
  <2>3. Found(visit[q])' = Found(visit[q]) /\ ~On(q, "none")
    BY <2>1 DEF Found, On
  <2> QED
    BY <2>2, <2>3 DEF RequestsInv
<1>7. PublicSeesWhatMembersAllow'
  <2> SUFFICES ASSUME NEW q \in Reading, answer'[q].route # "corrections"
               PROVE  answer'[q].facts \subseteq allowed'[q]
    BY DEF PublicSeesWhatMembersAllow
  <2>1. CASE q = r
    BY <2>1, <1>0, <1>1, <1>3, <1>4 DEF On
  <2>2. CASE q # r
    BY <2>2, <1>0, <1>1 DEF PublicSeesWhatMembersAllow
  <2> QED
    BY <2>1, <2>2
<1> QED
  BY <1>5, <1>6, <1>7

\* A request that goes on has read rows, and keeps what it found there.
LEMMA ReadingKeeps ==
    ASSUME VisibilityInv, NEW r \in Reading, NEW v \in PublicRequest, Step(r, v), ~On(r, "none"),
           UNCHANGED <<wish, there, follows, answer, allowed, turns>>,
           Found(v) \subseteq allowed[r]
    PROVE  VisibilityInv'
<1> USE DEF VisibilityInv
<1>0. visit \in [Reading -> PublicRequest] /\ visit' = [visit EXCEPT ![r] = v]
  BY DEF VisibilityTypeOK, PublicRequest, Step
<1>1. VisibilityTypeOK'
  <2>1. visit' \in [Reading -> PublicRequest]
    BY <1>0
  <2> QED
    BY <2>1 DEF VisibilityTypeOK, PublicRequest
<1>2. Allowed' = Allowed
  BY DEF Allowed, Visible, Who
<1>3. RequestsInv'
  <2> SUFFICES ASSUME NEW q \in Reading, ~On(q, "none")'
               PROVE  (Allowed \cup Found(visit[q]))' \subseteq allowed'[q]
    BY DEF RequestsInv
  <2>1. CASE q = r
    <3>1. visit'[q] = v
      BY <2>1, <1>0
    <3>2. Found(visit[q])' = Found(v)
      BY <3>1 DEF Found
    <3> QED
      BY <2>1, <3>2, <1>2 DEF RequestsInv
  <2>2. CASE q # r
    <3>1. visit'[q] = visit[q]
      BY <2>2, <1>0
    <3>2. Found(visit[q])' = Found(visit[q]) /\ ~On(q, "none")
      BY <3>1 DEF Found, On
    <3> QED
      BY <3>2, <1>2 DEF RequestsInv
  <2> QED
    BY <2>1, <2>2
<1> QED
  BY <1>1, <1>3 DEF PublicSeesWhatMembersAllow

\* What members change, requests under way may find either way.
LEMMA ChangesKeep ==
    ASSUME VisibilityInv, NEW wishes \in [Author -> SUBSET Switch], NEW members \in SUBSET Author,
           Change(wishes, members), follows' \subseteq Author \X Author, UNCHANGED <<visit, answer>>
    PROVE  VisibilityInv'
<1> USE DEF VisibilityInv
<1>1. /\ wish' = wishes /\ there' = members
      /\ allowed' = [r \in Reading |-> IF On(r, "none") THEN allowed[r] ELSE allowed[r] \cup Allowed']
  BY DEF Change
<1>2. Allowed' \subseteq Fact
  BY <1>1 DEF Allowed, Visible, Who, Fact, What
<1>3. VisibilityTypeOK'
  <2>1. allowed' \in [Reading -> SUBSET Fact]
    BY <1>1, <1>2 DEF VisibilityTypeOK
  <2> QED
    BY <2>1, <1>1 DEF VisibilityTypeOK
<1> DEFINE A == Allowed'
<1>4. \A r \in Reading : /\ allowed[r] \subseteq allowed'[r]
                         /\ ~On(r, "none") => A \subseteq allowed'[r]
  BY <1>1
<1>5. RequestsInv'
  <2> SUFFICES ASSUME NEW q \in Reading, ~On(q, "none")'
               PROVE  A \cup Found(visit[q])' \subseteq allowed'[q]
    BY DEF RequestsInv
  <2>1. Found(visit[q])' = Found(visit[q]) /\ ~On(q, "none")
    BY DEF Found, On
  <2> HIDE DEF A
  <2> QED
    BY <2>1, <1>4 DEF RequestsInv
<1>6. PublicSeesWhatMembersAllow'
  BY <1>4 DEF PublicSeesWhatMembersAllow
<1> QED
  BY <1>3, <1>5, <1>6

LEMMA VisibilityKept == VisibilityInv /\ [VisibilityNext]_visibilityVars => VisibilityInv'
<1> SUFFICES ASSUME VisibilityInv, [VisibilityNext]_visibilityVars PROVE VisibilityInv'
  OBVIOUS
<1>0. /\ visit \in [Reading -> PublicRequest] /\ answer \in [Reading -> PublicAnswer]
      /\ there \subseteq Author /\ follows \subseteq Author \X Author
      /\ wish \in [Author -> SUBSET Switch] /\ allowed \in [Reading -> SUBSET Fact]
  BY DEF VisibilityInv, VisibilityTypeOK, PublicRequest, PublicAnswer
<1>a. /\ \A r \in Reading : ~On(r, "none") => Allowed \cup Found(visit[r]) \subseteq allowed[r]
      /\ \A r \in Reading : visit[r].named \subseteq Author
      /\ \A r \in Reading : visit[r].whose \subseteq Author
  BY <1>0 DEF VisibilityInv, RequestsInv, PublicRequest
<1>b. \A s : Who(s) \subseteq Author /\ Who(s) \subseteq there
  BY <1>0 DEF Who
<1>1. ASSUME NEW r \in Reading, NEW route \in Route, NEW m \in there, Ask(r, route, m)
      PROVE  VisibilityInv'
  <2> DEFINE v == [Nowhere EXCEPT !.route = route, !.whose = {m}]
  <2>1. v \in PublicRequest /\ v.route = route /\ v.named = {} /\ v.searched = {}
    BY <1>0 DEF PublicRequest, Nowhere
  <2>2. /\ visit' = [visit EXCEPT ![r] = v]
        /\ allowed' = [allowed EXCEPT ![r] = Allowed]
        /\ answer' = [answer EXCEPT ![r] = NoAnswer]
        /\ UNCHANGED <<wish, there, follows, turns>>
    BY <1>1 DEF Ask, Step
  <2> HIDE DEF v
  <2>3. Allowed' = Allowed /\ Allowed \subseteq Fact
    BY <2>2, <1>0 DEF Allowed, Visible, Who, Fact, What
  <2>4. VisibilityTypeOK'
    <3>1. visit' \in [Reading -> PublicRequest] /\ answer' \in [Reading -> PublicAnswer]
          /\ allowed' \in [Reading -> SUBSET Fact]
      BY <2>1, <2>2, <2>3, <1>0, NothingAskedTyped
    <3> QED
      BY <3>1, <2>2 DEF VisibilityInv, VisibilityTypeOK, PublicRequest, PublicAnswer
  <2>5. RequestsInv'
    <3> SUFFICES ASSUME NEW q \in Reading, ~On(q, "none")'
                 PROVE  (Allowed \cup Found(visit[q]))' \subseteq allowed'[q]
      BY DEF RequestsInv
    <3>1. CASE q = r
      <4>1. visit'[q] = v /\ allowed'[q] = Allowed
        BY <3>1, <2>2, <1>0
      <4>2. Found(visit[q])' = {}
        BY <4>1, <2>1 DEF Found
      <4> QED
        BY <4>1, <4>2, <2>3
    <3>2. CASE q # r
      <4>1. visit'[q] = visit[q] /\ allowed'[q] = allowed[q]
        BY <3>2, <2>2, <1>0
      <4>2. Found(visit[q])' = Found(visit[q]) /\ ~On(q, "none")
        BY <4>1 DEF Found, On
      <4> QED
        BY <4>1, <4>2, <2>3, <1>a
    <3> QED
      BY <3>1, <3>2
  <2>6. PublicSeesWhatMembersAllow'
    BY <2>2, <1>0 DEF VisibilityInv, PublicSeesWhatMembersAllow, NoAnswer
  <2> QED
    BY <2>4, <2>5, <2>6 DEF VisibilityInv
<1>2. ASSUME NEW r \in Reading, GetComments(r) PROVE VisibilityInv'
  <2> DEFINE facts == ({"comment"} \X Who({"contributions"})) \cup Signed(Who({"contributions"}))
  <2>1. Give(r, facts) /\ ~On(r, "none") /\ facts \subseteq Allowed
    BY <1>2 DEF GetComments, On, Signed, Allowed
  <2>2. facts \subseteq allowed[r] /\ facts \in SUBSET Fact
    BY <2>1, <1>0, <1>a
  <2> HIDE DEF facts
  <2> QED
    BY <2>1, <2>2, GivingKeeps
<1>3. ASSUME NEW r \in Reading, FindById(r) PROVE VisibilityInv'
  <2> DEFINE facts == ({"correction"} \X Who({"contributions"})) \cup Signed(Who({"contributions"}))
  <2>1. Give(r, facts) /\ ~On(r, "none") /\ facts \subseteq Allowed
    BY <1>3 DEF FindById, On, Signed, Allowed
  <2>2. facts \subseteq allowed[r] /\ facts \in SUBSET Fact
    BY <2>1, <1>0, <1>a
  <2> HIDE DEF facts
  <2> QED
    BY <2>1, <2>2, GivingKeeps
<1>4. ASSUME NEW r \in Reading, GetApprovedCorrections(r) PROVE VisibilityInv'
  <2> DEFINE facts == {"correction", "name"} \X there
  <2>1. Give(r, facts) /\ ~On(r, "none") /\ On(r, "corrections") /\ facts \in SUBSET Fact
    BY <1>4, <1>0 DEF GetApprovedCorrections, On, Fact, What
  <2> HIDE DEF facts
  <2> QED
    BY <2>1, GivingKeeps
<1>5. ASSUME NEW r \in Reading, ListForAerodrome(r) PROVE VisibilityInv'
  <2> DEFINE facts == ({"photo"} \X Who({"photos"})) \cup Signed(Who({"photos"}))
  <2>1. Give(r, facts) /\ ~On(r, "none") /\ facts \subseteq Allowed
    BY <1>5 DEF ListForAerodrome, On, Signed, Allowed
  <2>2. facts \subseteq allowed[r] /\ facts \in SUBSET Fact
    BY <2>1, <1>0, <1>a
  <2> HIDE DEF facts
  <2> QED
    BY <2>1, <2>2, GivingKeeps
<1>6. ASSUME NEW r \in Reading, Serve(r) PROVE VisibilityInv'
  <2> DEFINE facts == {"photo"} \X (visit[r].whose \cap Who({"photos"}))
  <2>1. Give(r, facts) /\ ~On(r, "none") /\ facts \subseteq Allowed
    BY <1>6 DEF Serve, On, Allowed
  <2>2. facts \subseteq allowed[r] /\ facts \in SUBSET Fact
    BY <2>1, <1>0, <1>a
  <2> HIDE DEF facts
  <2> QED
    BY <2>1, <2>2, GivingKeeps
<1>7. ASSUME NEW r \in Reading, GetForAerodrome(r) PROVE VisibilityInv'
  <2> DEFINE facts == Signed(there)
  <2>1. Give(r, facts) /\ ~On(r, "none") /\ facts \subseteq Allowed
    BY <1>7 DEF GetForAerodrome, On, Signed, Allowed
  <2>2. facts \subseteq allowed[r] /\ facts \in SUBSET Fact
    BY <2>1, <1>0, <1>a
  <2> HIDE DEF facts
  <2> QED
    BY <2>1, <2>2, GivingKeeps
<1>8. ASSUME NEW r \in Reading, Give(r, {}), ~On(r, "none") PROVE VisibilityInv'
  BY <1>8, GivingKeeps
<1>9. ASSUME NEW r \in Reading, ReadProfile(r) PROVE VisibilityInv'
  <2>0. ~On(r, "none")
    BY <1>9 DEF ReadProfile, On
  <2>1. CASE visit[r].whose \subseteq Visible
    <3> DEFINE v == [visit[r] EXCEPT !.named = visit[r].whose,
                                     !.searched = visit[r].whose \cap Who({"searches"})]
    <3>1. Step(r, v) /\ UNCHANGED <<wish, there, follows, answer, allowed, turns>>
      BY <1>9, <2>1 DEF ReadProfile
    <3>2. visit[r] \in PublicRequest
      BY <1>0
    <3>3. /\ v \in PublicRequest /\ v.route = "profile" /\ v.named = visit[r].whose
          /\ v.searched = visit[r].whose \cap Who({"searches"})
      BY <3>2, <1>a, <1>9 DEF PublicRequest, ReadProfile, On
    <3> HIDE DEF v
    <3>4. Found(v) \subseteq Allowed
      BY <3>3, <2>1 DEF Found, Allowed, Visible, Who
    <3> QED
      BY <3>1, <3>3, <3>4, <2>0, <1>a, ReadingKeeps
  <2>2. CASE ~(visit[r].whose \subseteq Visible)
    BY <1>9, <2>2, <2>0, <1>8 DEF ReadProfile
  <2> QED
    BY <2>1, <2>2
<1>10. ASSUME NEW r \in Reading, ReadVisitsAndSearches(r) PROVE VisibilityInv'
  <2> DEFINE facts == ({"name"} \X visit[r].named) \cup ({"visits"} \X (visit[r].named \cap there))
                      \cup ({"search"} \X (visit[r].searched \cap there))
  <2>1. Give(r, facts) /\ ~On(r, "none") /\ facts \subseteq Found(visit[r])
    BY <1>10 DEF ReadVisitsAndSearches, On, Found
  <2>2. facts \subseteq allowed[r] /\ facts \in SUBSET Fact
    BY <2>1, <1>0, <1>a
  <2> HIDE DEF facts
  <2> QED
    BY <2>1, <2>2, GivingKeeps
<1>11. ASSUME NEW r \in Reading, ReadSearcher(r) PROVE VisibilityInv'
  <2>0. ~On(r, "none")
    BY <1>11 DEF ReadSearcher, On
  <2>1. CASE visit[r].whose \subseteq Who({"profile", "name", "searches"})
    <3> DEFINE v == [visit[r] EXCEPT !.named = visit[r].whose]
    <3>1. Step(r, v) /\ UNCHANGED <<wish, there, follows, answer, allowed, turns>>
      BY <1>11, <2>1 DEF ReadSearcher
    <3>2. visit[r] \in PublicRequest
      BY <1>0
    <3>3. v \in PublicRequest /\ v.route = "searches" /\ v.named = visit[r].whose
      BY <3>2, <1>a, <1>11 DEF PublicRequest, ReadSearcher, On
    <3> HIDE DEF v
    <3>4. Found(v) \subseteq Allowed
      BY <3>3, <2>1 DEF Found, Allowed, Visible, Who
    <3> QED
      BY <3>1, <3>3, <3>4, <2>0, <1>a, ReadingKeeps
  <2>2. CASE ~(visit[r].whose \subseteq Who({"profile", "name", "searches"}))
    BY <1>11, <2>2, <2>0, <1>8 DEF ReadSearcher
  <2> QED
    BY <2>1, <2>2
<1>12. ASSUME NEW r \in Reading, ReadSearches(r) PROVE VisibilityInv'
  <2> DEFINE facts == {"name", "search"} \X (visit[r].named \cap there)
  <2>1. Give(r, facts) /\ ~On(r, "none") /\ facts \subseteq Found(visit[r])
    BY <1>12 DEF ReadSearches, On, Found
  <2>2. facts \subseteq allowed[r] /\ facts \in SUBSET Fact
    BY <2>1, <1>0, <1>a
  <2> HIDE DEF facts
  <2> QED
    BY <2>1, <2>2, GivingKeeps
<1>13. ASSUME NEW r \in Reading, ListSimilar(r) PROVE VisibilityInv'
  <2> DEFINE facts == {"name", "search"} \X (Who({"profile", "name", "searches"}) \ visit[r].whose)
  <2>1. Give(r, facts) /\ ~On(r, "none") /\ facts \subseteq Allowed
    BY <1>13 DEF ListSimilar, On, Allowed, Who
  <2>2. facts \subseteq allowed[r] /\ facts \in SUBSET Fact
    BY <2>1, <1>0, <1>a
  <2> HIDE DEF facts
  <2> QED
    BY <2>1, <2>2, GivingKeeps
<1>14. ASSUME NEW r \in Reading, EnsureVisible(r) PROVE VisibilityInv'
  <2>0. ~On(r, "none")
    BY <1>14 DEF EnsureVisible, On
  <2>1. CASE visit[r].whose \subseteq Visible
    <3> DEFINE v == [visit[r] EXCEPT !.named = visit[r].whose]
    <3>1. Step(r, v) /\ UNCHANGED <<wish, there, follows, answer, allowed, turns>>
      BY <1>14, <2>1 DEF EnsureVisible
    <3>2. visit[r] \in PublicRequest
      BY <1>0
    <3>3. v \in PublicRequest /\ v.route \in {"followers", "following"} /\ v.named = visit[r].whose
      BY <3>2, <1>a, <1>14 DEF PublicRequest, EnsureVisible
    <3> HIDE DEF v
    <3>4. Found(v) \subseteq Allowed
      BY <3>3, <2>1 DEF Found, Allowed, Visible, Who
    <3> QED
      BY <3>1, <3>3, <3>4, <2>0, <1>a, ReadingKeeps
  <2>2. CASE ~(visit[r].whose \subseteq Visible)
    BY <1>14, <2>2, <2>0, <1>8 DEF EnsureVisible
  <2> QED
    BY <2>1, <2>2
<1>15. ASSUME NEW r \in Reading, ListFollows(r) PROVE VisibilityInv'
  <2>1. PICK m \in visit[r].named :
           \/ On(r, "followers") /\ Give(r, {"name"} \X (Followers(m) \cap Visible))
           \/ On(r, "following") /\ Give(r, {"name"} \X (Followed(m) \cap Visible))
    BY <1>15 DEF ListFollows
  <2>2. PICK S : Give(r, {"name"} \X (S \cap Visible)) /\ ~On(r, "none")
    BY <2>1 DEF On
  <2> DEFINE facts == {"name"} \X (S \cap Visible)
  <2>3. Give(r, facts) /\ facts \subseteq Allowed
    BY <2>2 DEF Allowed, Visible, Who
  <2>4. facts \subseteq allowed[r] /\ facts \in SUBSET Fact
    BY <2>2, <2>3, <1>0, <1>a
  <2> HIDE DEF facts
  <2> QED
    BY <2>2, <2>3, <2>4, GivingKeeps
<1>16. ASSUME NEW m \in Author, Leave(m) PROVE VisibilityInv'
  BY <1>16, <1>0, ChangesKeep DEF Leave
<1>17. ASSUME NEW m \in Author, NEW s \in Switch, UpdateProfile(m, s) PROVE VisibilityInv'
  <2> DEFINE w == [wish EXCEPT ![m] = IF s \in @ THEN @ \ {s} ELSE @ \cup {s}]
  <2>1. w \in [Author -> SUBSET Switch]
    BY <1>0
  <2>2. Change(w, there) /\ UNCHANGED <<follows, visit, answer>>
    BY <1>17 DEF UpdateProfile
  <2> HIDE DEF w
  <2> QED
    BY <2>1, <2>2, <1>0, ChangesKeep
<1>18. ASSUME NEW m \in Author, NEW n \in Author, FollowUser(m, n) \/ UnfollowUser(m, n)
       PROVE  VisibilityInv'
  <2>1. /\ UNCHANGED <<wish, there, visit, answer, allowed, turns>>
        /\ follows' \subseteq Author \X Author
    BY <1>18, <1>0 DEF FollowUser, UnfollowUser
  <2>2. Allowed' = Allowed /\ \A r \in Reading : Found(visit[r])' = Found(visit[r])
    BY <2>1 DEF Allowed, Visible, Who, Found
  <2> QED
    BY <2>1, <2>2 DEF VisibilityInv, VisibilityTypeOK, RequestsInv, PublicSeesWhatMembersAllow, On
<1>19. ASSUME UNCHANGED visibilityVars PROVE VisibilityInv'
  <2>1. Allowed' = Allowed /\ \A r \in Reading : Found(visit[r])' = Found(visit[r])
    BY <1>19 DEF visibilityVars, Allowed, Visible, Who, Found
  <2> QED
    BY <1>19, <2>1 DEF visibilityVars, VisibilityInv, VisibilityTypeOK, RequestsInv,
                       PublicSeesWhatMembersAllow, On
<1> QED
  BY <1>1, <1>2, <1>3, <1>4, <1>5, <1>6, <1>7, <1>9, <1>10, <1>11, <1>12, <1>13, <1>14, <1>15,
     <1>16, <1>17, <1>18, <1>19 DEF VisibilityNext

LEMMA VisibilityBegins == VisibilityInit => VisibilityInv
<1> SUFFICES ASSUME VisibilityInit PROVE VisibilityInv
  OBVIOUS
<1>1. VisibilityTypeOK
  BY DEF VisibilityInit, VisibilityTypeOK, Switch, Nowhere, NoAnswer, Fact, What
<1>2. RequestsInv /\ PublicSeesWhatMembersAllow
  BY DEF VisibilityInit, RequestsInv, PublicSeesWhatMembersAllow, On, Nowhere, NoAnswer
<1> QED
  BY <1>1, <1>2 DEF VisibilityInv

\* Whatever a route of one query or several shows of a member, he allowed at some
\* moment of the request, however switches are turned and accounts deleted between
\* its queries; the route of the corrections alone apart (getCommunityProfile,
\* listPublicSavedSearches, toPublicAuthor).
THEOREM TheAnswersAreAllowed == VisibilitySpec => []PublicSeesWhatMembersAllow
<1>1. VisibilityInv => PublicSeesWhatMembersAllow
  BY DEF VisibilityInv
<1> QED
  BY <1>1, VisibilityBegins, VisibilityKept, PTL DEF VisibilitySpec

-----------------------------------------------------------------------------
(* The log of visits *)

\* A click is one at a time and is shown until an answer takes its place; what a tab
\* holds before its first answer is nothing.
Clicks(t) ==
    /\ click[t].ok => click[t].step = "answered"
    /\ click[t].step # "idle" => /\ pages[t].open /\ pages[t].updating
                                 /\ pages[t].asked \in {NoStatus, click[t].status}
                                 /\ click[t].status # NoStatus
    /\ ~pages[t].loaded => /\ pages[t].cached = NoStatus /\ pages[t].before = NoStatus
                           /\ click[t].step # "idle" => pages[t].asked = click[t].status

\* What a tab that is not behind holds may be old where its click was taken and the
\* answer to it has yet to come, or the visits are asked for.
UpToDate(t) ==
    ~behind[t] =>
        /\ fetch[t].step = "answered" /\ ~click[t].ok => fetch[t].status = Listed(stored)
        /\ ~pages[t].loaded => ~click[t].ok /\ (pages[t].asked # NoStatus => click[t].step # "idle")
        /\ pages[t].loaded =>
            /\ click[t].ok \/ fetch[t].step # "idle" \/ pages[t].cached = Listed(stored)
            /\ click[t].ok /\ pages[t].asked # NoStatus => click[t].status = stored
            /\ pages[t].asked # NoStatus /\ click[t].step = "idle" =>
                 \/ Listed(pages[t].asked) = Listed(stored)
                 \/ pages[t].asked = pages[t].cached /\ fetch[t].step # "idle"

VisitsInv == VisitsTypeOK /\ \A t \in Page : Clicks(t) /\ UpToDate(t)

LEMMA StatusesListed ==
    ASSUME NEW status \in VisitStatus \cup {NoStatus}
    PROVE  Listed(status) \in Kept \cup {NoStatus} /\ Listed(Listed(status)) = Listed(status)
BY DEF Listed, Kept

LEMMA CallsTyped ==
    /\ NoCall \in VisitCall
    /\ \A status \in VisitStatus \cup {NoStatus} : Calling(status) \in VisitCall
    /\ NoCall.step = "idle" /\ NoCall.ok = FALSE
    /\ \A status : Calling(status).step = "sent" /\ Calling(status).status = status /\ Calling(status).ok = FALSE
BY DEF NoCall, Calling, VisitCall

\* A tab that does nothing keeps what it has; if anybody wrote, it is behind.
LEMMA StillTabsKeep ==
    ASSUME NEW q \in Page, Clicks(q), UpToDate(q),
           pages'[q] = pages[q], click'[q] = click[q], fetch'[q] = fetch[q],
           behind'[q] \/ (stored' = stored /\ behind'[q] = behind[q])
    PROVE  Clicks(q)' /\ UpToDate(q)'
BY DEF Clicks, UpToDate, Listed

LEMMA VisitTypesKept == VisitsTypeOK /\ [VisitsNext]_visitVars => VisitsTypeOK'
<1> SUFFICES ASSUME VisitsTypeOK, [VisitsNext]_visitVars PROVE VisitsTypeOK'
  OBVIOUS
<1> USE DEF VisitsTypeOK
<1>0. NoStatus \in VisitStatus \cup {NoStatus} /\ \A s \in Kept : s \in VisitStatus
  BY DEF Kept, VisitStatus
<1>1. \A v \in VisitCall : /\ [v EXCEPT !.step = "answered"] \in VisitCall
                          /\ [v EXCEPT !.step = "answered", !.ok = TRUE] \in VisitCall
  BY DEF VisitCall
<1>3. ASSUME NEW t \in Page PROVE pages[t] \in PageState /\ fetch[t] \in VisitCall /\ click[t] \in VisitCall
  OBVIOUS
<1>4. ASSUME NEW t \in Page, OpenSheet(t) PROVE VisitsTypeOK'
  <2> DEFINE s == [pages[t] EXCEPT !.open = TRUE, !.asked = NoStatus, !.started = FALSE, !.updating = FALSE]
  <2>1. s \in PageState
    BY <1>3 DEF PageState
  <2>2. /\ pages' = [pages EXCEPT ![t] = s]
        /\ opening' \in {opening, [opening EXCEPT ![t] = Calling("SEEN")]}
        /\ fetch' \in {fetch, [fetch EXCEPT ![t] = Calling(NoStatus)]}
        /\ UNCHANGED <<stored, click, behind>>
    BY <1>4 DEF OpenSheet, MarkSeen
  <2> HIDE DEF s
  <2> QED
    BY <2>1, <2>2, CallsTyped DEF VisitStatus
<1>5. ASSUME NEW t \in Page, LeaveSheet(t) PROVE VisitsTypeOK'
  <2> DEFINE s == [pages[t] EXCEPT !.open = FALSE]
  <2>1. s \in PageState
    BY <1>3 DEF PageState
  <2>2. pages' = [pages EXCEPT ![t] = s] /\ UNCHANGED <<stored, opening, click, fetch, behind>>
    BY <1>5 DEF LeaveSheet
  <2> HIDE DEF s
  <2> QED
    BY <2>1, <2>2
<1>6. ASSUME NEW t \in Page, NEW status \in Kept, HandleVisit(t, status) PROVE VisitsTypeOK'
  <2> DEFINE next == AskedFor(t, status)
             s == [pages[t] EXCEPT !.started = TRUE, !.updating = TRUE, !.asked = next, !.before = pages[t].cached]
  <2>1. next \in VisitStatus
    BY DEF AskedFor, Kept, VisitStatus
  <2>2. s \in PageState
    BY <2>1, <1>3 DEF PageState
  <2>3. /\ pages' = [pages EXCEPT ![t] = s] /\ click' = [click EXCEPT ![t] = Calling(next)]
        /\ UNCHANGED <<stored, opening, fetch, behind>>
    BY <1>6 DEF HandleVisit
  <2> HIDE DEF s, next
  <2> QED
    BY <2>1, <2>2, <2>3, CallsTyped
<1>7. ASSUME NEW t \in Page, ServeOpening(t) PROVE VisitsTypeOK'
  <2> DEFINE a == [opening[t] EXCEPT !.step = "answered"]
             b == [opening[t] EXCEPT !.step = "answered", !.ok = TRUE]
  <2>0. a \in VisitCall /\ b \in VisitCall
    BY <1>1
  <2>1. opening' \in {[opening EXCEPT ![t] = a], [opening EXCEPT ![t] = b]}
    BY <1>7 DEF ServeOpening
  <2> HIDE DEF a, b
  <2>2. opening' \in [Page -> VisitCall]
    BY <2>0, <2>1
  <2> QED
    BY <2>2, <1>7 DEF ServeOpening, Upsert, VisitStatus
<1>8. ASSUME NEW t \in Page, ServeClick(t) PROVE VisitsTypeOK'
  <2> DEFINE a == [click[t] EXCEPT !.step = "answered"]
             b == [click[t] EXCEPT !.step = "answered", !.ok = TRUE]
  <2>0. a \in VisitCall /\ b \in VisitCall /\ click[t].status \in VisitStatus \cup {NoStatus}
    BY <1>1, <1>3 DEF VisitCall
  <2>3. click' \in {[click EXCEPT ![t] = a], [click EXCEPT ![t] = b]}
    BY <1>8 DEF ServeClick
  <2> HIDE DEF a, b
  <2>1. click' \in [Page -> VisitCall]
    BY <2>0, <2>3
  <2>2. behind' \in [Page -> BOOLEAN]
    BY <1>8, <1>3 DEF ServeClick, BehindAfterClick, PageState
  <2> QED
    BY <2>0, <2>1, <2>2, <1>8 DEF ServeClick, Upsert
<1>9. ASSUME NEW t \in Page, ServeFetch(t) PROVE VisitsTypeOK'
  <2> DEFINE a == [step |-> "answered", status |-> Listed(stored), ok |-> TRUE]
  <2>1. a \in VisitCall /\ a.status \in Kept \cup {NoStatus}
    BY StatusesListed, <1>0 DEF VisitCall
  <2>2. fetch' = [fetch EXCEPT ![t] = a] /\ UNCHANGED <<stored, pages, opening, click>>
        /\ behind' = [behind EXCEPT ![t] = @ /\ pages[t].asked # NoStatus]
    BY <1>9 DEF ServeFetch
  <2> HIDE DEF a
  <2> QED
    BY <2>1, <2>2
<1>10. \A t \in Page : Refetch(t) =>
          /\ fetch' \in [Page -> VisitCall]
          /\ \A q \in Page : fetch'[q].status \in Kept \cup {NoStatus}
  BY <1>0, CallsTyped DEF Refetch
<1>11. ASSUME NEW t \in Page, OpeningArrives(t) PROVE VisitsTypeOK'
  <2>1. fetch' \in [Page -> VisitCall] /\ \A q \in Page : fetch'[q].status \in Kept \cup {NoStatus}
    BY <1>10, <1>11 DEF OpeningArrives
  <2> QED
    BY <2>1, <1>11, CallsTyped DEF OpeningArrives
<1>12. ASSUME NEW t \in Page,
              pages' = [pages EXCEPT ![t].asked = pages[t].before, ![t].updating = FALSE]
       PROVE  pages' \in [Page -> PageState]
  <2> DEFINE s == [pages[t] EXCEPT !.asked = pages[t].before, !.updating = FALSE]
  <2>1. s \in PageState
    BY <1>3 DEF PageState, Kept, VisitStatus
  <2>2. pages' = [pages EXCEPT ![t] = s]
    BY <1>12
  <2> HIDE DEF s
  <2> QED
    BY <2>1, <2>2
<1>13. ASSUME NEW t \in Page, ClickArrives(t) PROVE VisitsTypeOK'
  <2>1. CASE click[t].ok
    BY <2>1, <1>10, <1>13, CallsTyped DEF ClickArrives
  <2>2. CASE ~click[t].ok
    <3>1. pages' \in [Page -> PageState]
      BY <2>2, <1>12, <1>13 DEF ClickArrives
    <3> QED
      BY <3>1, <2>2, <1>13, CallsTyped DEF ClickArrives
  <2> QED
    BY <2>1, <2>2
<1>14. ASSUME NEW t \in Page, FetchArrives(t) PROVE VisitsTypeOK'
  <2> DEFINE changed == fetch[t].status # pages[t].cached
             s == [pages[t] EXCEPT !.loaded = TRUE, !.cached = fetch[t].status,
                                  !.asked = IF changed THEN NoStatus ELSE @,
                                  !.updating = @ /\ click[t].step # "idle"]
  <2>1. pages' = [pages EXCEPT ![t] = s] /\ fetch' = [fetch EXCEPT ![t] = NoCall]
        /\ opening' \in {opening, [opening EXCEPT ![t] = Calling("SEEN")]}
        /\ UNCHANGED <<stored, click, behind>>
    BY <1>14 DEF FetchArrives, MarkSeen
  <2>2. s \in PageState
    BY <1>3 DEF PageState
  <2> HIDE DEF s
  <2>3. pages' \in [Page -> PageState]
    BY <2>1, <2>2
  <2>4. fetch' \in [Page -> VisitCall] /\ \A q \in Page : fetch'[q].status \in Kept \cup {NoStatus}
    BY <2>1, CallsTyped DEF NoCall
  <2>5. opening' \in [Page -> VisitCall]
    BY <2>1, CallsTyped DEF VisitStatus
  <2> QED
    BY <2>1, <2>3, <2>4, <2>5
<1>15. ASSUME NEW t \in Page, LoseCall(t) PROVE VisitsTypeOK'
  <2>1. CASE opening[t].step # "idle" /\ opening' = [opening EXCEPT ![t] = NoCall]
             /\ UNCHANGED <<pages, click, fetch, behind, stored>>
    BY <2>1, CallsTyped
  <2>2. CASE /\ click' = [click EXCEPT ![t] = NoCall]
             /\ pages' = [pages EXCEPT ![t].asked = pages[t].before, ![t].updating = FALSE]
             /\ behind' = [behind EXCEPT ![t] = @ \/ click[t].ok \/ pages[t].before # pages[t].cached]
             /\ UNCHANGED <<opening, fetch, stored>>
    <3>1. pages' \in [Page -> PageState]
      BY <2>2, <1>12
    <3>2. click' \in [Page -> VisitCall] /\ behind' \in [Page -> BOOLEAN]
      BY <2>2, <1>3, CallsTyped DEF VisitCall
    <3> QED
      BY <3>1, <3>2, <2>2
  <2>3. CASE /\ fetch' = [fetch EXCEPT ![t] = NoCall]
             /\ pages' = [pages EXCEPT ![t].updating = @ /\ click[t].step # "idle"]
             /\ behind' = [behind EXCEPT ![t] = TRUE]
             /\ UNCHANGED <<opening, click, stored>>
    <3> DEFINE s == [pages[t] EXCEPT !.updating = @ /\ click[t].step # "idle"]
    <3>1. s \in PageState
      BY <1>3 DEF PageState
    <3>2. pages' = [pages EXCEPT ![t] = s]
      BY <2>3
    <3> HIDE DEF s
    <3>3. pages' \in [Page -> PageState]
      BY <3>1, <3>2
    <3>4. fetch' \in [Page -> VisitCall] /\ \A q \in Page : fetch'[q].status \in Kept \cup {NoStatus}
      BY <2>3, CallsTyped DEF NoCall
    <3> QED
      BY <3>3, <3>4, <2>3
  <2> QED
    BY <1>15, <2>1, <2>2, <2>3 DEF LoseCall
<1>16. ASSUME NEW t \in Page, Refresh(t) PROVE VisitsTypeOK'
  BY <1>10, <1>16 DEF Refresh
<1>17. ASSUME NEW status \in VisitStatus \cup {NoStatus}, WriteElsewhere(status) PROVE VisitsTypeOK'
  BY <1>17 DEF WriteElsewhere, Upsert
<1>18. CASE UNCHANGED visitVars
  BY <1>18 DEF visitVars
<1> QED
  BY <1>4, <1>5, <1>6, <1>7, <1>8, <1>9, <1>11, <1>13, <1>14, <1>15, <1>16, <1>17, <1>18 DEF VisitsNext

\* What the steps of a tab do to the tab itself.
LEMMA ServingKeeps ==
    ASSUME VisitsInv, NEW t \in Page, ServeOpening(t) \/ ServeClick(t) \/ ServeFetch(t)
    PROVE  Clicks(t)' /\ UpToDate(t)'
<1>0. /\ pages[t] \in PageState /\ fetch[t] \in VisitCall /\ click[t] \in VisitCall
      /\ click \in [Page -> VisitCall] /\ fetch \in [Page -> VisitCall]
      /\ Clicks(t) /\ UpToDate(t) /\ behind \in [Page -> BOOLEAN]
  BY DEF VisitsInv, VisitsTypeOK
<1>1. CASE ServeOpening(t)
  BY <1>0, <1>1, StillTabsKeep DEF ServeOpening
<1>2. CASE ServeClick(t)
  <2>1. CASE click' = [click EXCEPT ![t].step = "answered"] /\ UNCHANGED <<stored, behind, pages, fetch>>
    BY <1>0, <1>2, <2>1 DEF ServeClick, Clicks, UpToDate, VisitCall, Listed
  <2>2. CASE /\ Upsert(click[t].status) /\ BehindAfterClick(t)
             /\ click' = [click EXCEPT ![t].step = "answered", ![t].ok = TRUE]
             /\ UNCHANGED <<pages, fetch>>
    <3>1. /\ click'[t].step = "answered" /\ click'[t].ok /\ click'[t].status = click[t].status
          /\ pages'[t] = pages[t] /\ fetch'[t] = fetch[t] /\ stored' = click[t].status
          /\ behind'[t] \/ pages[t].loaded
          /\ click[t].step # "idle"
      BY <1>0, <1>2, <2>2 DEF ServeClick, Upsert, BehindAfterClick, VisitCall
    <3> QED
      BY <1>0, <3>1 DEF Clicks, UpToDate
  <2> QED
    BY <1>2, <2>1, <2>2 DEF ServeClick
<1>3. CASE ServeFetch(t)
  <2>1. /\ fetch'[t].step = "answered" /\ fetch'[t].status = Listed(stored)
        /\ pages'[t] = pages[t] /\ click'[t] = click[t] /\ stored' = stored
        /\ behind'[t] = (behind[t] /\ pages[t].asked # NoStatus)
    BY <1>0, <1>3 DEF ServeFetch
  <2> QED
    BY <1>0, <2>1 DEF Clicks, UpToDate, Listed
<1> QED
  BY <1>1, <1>2, <1>3

LEMMA AskingKeeps ==
    ASSUME VisitsInv, NEW t \in Page, OpeningArrives(t) \/ Refresh(t)
    PROVE  Clicks(t)' /\ UpToDate(t)'
<1>0. /\ fetch \in [Page -> VisitCall] /\ Clicks(t) /\ UpToDate(t)
  BY DEF VisitsInv, VisitsTypeOK
<1>1. /\ UNCHANGED <<stored, pages, click, behind>>
      /\ Refetch(t) \/ fetch' = fetch
  BY DEF OpeningArrives, Refresh
<1>2. \/ fetch'[t] = fetch[t]
      \/ fetch'[t].step = "sent"
  BY <1>0, <1>1, CallsTyped DEF Refetch
<1> QED
  BY <1>0, <1>1, <1>2 DEF Clicks, UpToDate, Listed

LEMMA TurningKeeps ==
    ASSUME VisitsInv, NEW t \in Page, OpenSheet(t) \/ LeaveSheet(t)
    PROVE  Clicks(t)' /\ UpToDate(t)'
<1>0. /\ pages \in [Page -> PageState] /\ fetch \in [Page -> VisitCall]
      /\ pages[t] \in PageState /\ Clicks(t) /\ UpToDate(t)
  BY DEF VisitsInv, VisitsTypeOK
<1>1. CASE OpenSheet(t)
  <2> DEFINE s == [pages[t] EXCEPT !.open = TRUE, !.asked = NoStatus, !.started = FALSE, !.updating = FALSE]
  <2>1. /\ s.open /\ s.asked = NoStatus /\ s.cached = pages[t].cached
        /\ s.before = pages[t].before /\ s.loaded = pages[t].loaded
    BY <1>0 DEF PageState
  <2>2. /\ pages'[t] = s /\ UNCHANGED <<stored, click, behind>> /\ ~pages[t].open
        /\ fetch' = IF s.loaded THEN fetch ELSE [fetch EXCEPT ![t] = Calling(NoStatus)]
    BY <1>0, <1>1 DEF OpenSheet
  <2>3. fetch'[t] = fetch[t] \/ (~pages[t].loaded /\ fetch'[t].step = "sent")
    BY <1>0, <2>1, <2>2, CallsTyped
  <2>4. click[t].step = "idle"
    BY <1>0, <2>2 DEF Clicks
  <2> HIDE DEF s
  <2> QED
    BY <1>0, <2>1, <2>2, <2>3, <2>4 DEF Clicks, UpToDate, Listed
<1>2. CASE LeaveSheet(t)
  <2> DEFINE s == [pages[t] EXCEPT !.open = FALSE]
  <2>1. /\ s.asked = pages[t].asked /\ s.cached = pages[t].cached /\ s.updating = pages[t].updating
        /\ s.before = pages[t].before /\ s.loaded = pages[t].loaded
    BY <1>0 DEF PageState
  <2>2. /\ pages'[t] = s /\ UNCHANGED <<stored, click, fetch, behind>> /\ click[t].step = "idle"
    BY <1>0, <1>2 DEF LeaveSheet
  <2> HIDE DEF s
  <2> QED
    BY <1>0, <2>1, <2>2 DEF Clicks, UpToDate, Listed
<1> QED
  BY <1>1, <1>2

LEMMA ClickingKeeps ==
    ASSUME VisitsInv, NEW t \in Page, NEW status \in Kept, HandleVisit(t, status)
    PROVE  Clicks(t)' /\ UpToDate(t)'
<1>0. /\ pages \in [Page -> PageState] /\ click \in [Page -> VisitCall]
      /\ pages[t] \in PageState /\ Clicks(t) /\ UpToDate(t)
  BY DEF VisitsInv, VisitsTypeOK
<1> DEFINE next == AskedFor(t, status)
           s == [pages[t] EXCEPT !.started = TRUE, !.updating = TRUE, !.asked = next, !.before = pages[t].cached]
<1>1. next # NoStatus
  BY NoStatusAssumption DEF AskedFor, Kept, VisitStatus
<1>2. /\ s.open = pages[t].open /\ s.asked = next /\ s.cached = pages[t].cached /\ s.updating
      /\ s.before = pages[t].cached /\ s.loaded = pages[t].loaded
  BY <1>0 DEF PageState
<1>3. /\ pages'[t] = s /\ click'[t] = Calling(next) /\ UNCHANGED <<stored, fetch, behind>>
      /\ pages[t].open /\ ~pages[t].updating
  BY <1>0 DEF HandleVisit
<1>4. ~click[t].ok
  BY <1>0, <1>3 DEF Clicks
<1> HIDE DEF next, s
<1> QED
  BY <1>0, <1>1, <1>2, <1>3, <1>4, CallsTyped DEF Clicks, UpToDate, Listed

\* A click that comes back refused, or is lost: the tab shows what it held before.
LEMMA GivingUpKeeps ==
    ASSUME VisitsInv, NEW t \in Page, click[t].step # "idle",
           click' = [click EXCEPT ![t] = NoCall],
           pages' = [pages EXCEPT ![t].asked = pages[t].before, ![t].updating = FALSE],
           behind'[t] = (behind[t] \/ click[t].ok \/ pages[t].before # pages[t].cached),
           UNCHANGED <<stored, fetch>>
    PROVE  Clicks(t)' /\ UpToDate(t)'
<1>0. /\ pages \in [Page -> PageState] /\ click \in [Page -> VisitCall]
      /\ pages[t] \in PageState /\ Clicks(t) /\ UpToDate(t)
      /\ stored \in VisitStatus \cup {NoStatus}
  BY DEF VisitsInv, VisitsTypeOK
<1> DEFINE s == [pages[t] EXCEPT !.asked = pages[t].before, !.updating = FALSE]
<1>1. /\ s.open = pages[t].open /\ s.asked = pages[t].before /\ s.cached = pages[t].cached
      /\ s.before = pages[t].before /\ s.loaded = pages[t].loaded
  BY <1>0 DEF PageState
<1>2. pages'[t] = s /\ click'[t] = NoCall
  BY <1>0
<1>3. Listed(Listed(stored)) = Listed(stored)
  BY <1>0, StatusesListed
<1> HIDE DEF s
<1>4. Clicks(t)'
  BY <1>0, <1>1, <1>2, CallsTyped DEF Clicks
<1>5. UpToDate(t)'
  BY <1>0, <1>1, <1>2, <1>3, CallsTyped DEF Clicks, UpToDate
<1> QED
  BY <1>4, <1>5

LEMMA ClicksComeBack ==
    ASSUME VisitsInv, NEW t \in Page, ClickArrives(t)
    PROVE  Clicks(t)' /\ UpToDate(t)'
<1>0. /\ click \in [Page -> VisitCall] /\ fetch \in [Page -> VisitCall] /\ behind \in [Page -> BOOLEAN]
      /\ Clicks(t) /\ UpToDate(t)
  BY DEF VisitsInv, VisitsTypeOK
<1>1. CASE click[t].ok
  <2>1. /\ click'[t] = NoCall /\ UNCHANGED <<stored, pages, behind>> /\ Refetch(t)
        /\ click[t].step # "idle"
    BY <1>0, <1>1 DEF ClickArrives
  <2>2. pages[t].loaded => fetch'[t].step = "sent"
    BY <1>0, <2>1, CallsTyped DEF Refetch
  <2> QED
    BY <1>0, <1>1, <2>1, <2>2, CallsTyped DEF Clicks, UpToDate, Listed
<1>2. CASE ~click[t].ok
  <2>1. behind'[t] = (behind[t] \/ click[t].ok \/ pages[t].before # pages[t].cached)
    BY <1>0, <1>2 DEF ClickArrives
  <2> QED
    BY <1>2, <2>1, GivingUpKeeps DEF ClickArrives
<1> QED
  BY <1>1, <1>2

LEMMA AnswersCome ==
    ASSUME VisitsInv, NEW t \in Page, FetchArrives(t)
    PROVE  Clicks(t)' /\ UpToDate(t)'
<1>0. /\ pages \in [Page -> PageState] /\ fetch \in [Page -> VisitCall]
      /\ pages[t] \in PageState /\ Clicks(t) /\ UpToDate(t)
      /\ stored \in VisitStatus \cup {NoStatus}
  BY DEF VisitsInv, VisitsTypeOK
<1> DEFINE changed == fetch[t].status # pages[t].cached
           s == [pages[t] EXCEPT !.loaded = TRUE, !.cached = fetch[t].status,
                                !.asked = IF changed THEN NoStatus ELSE @,
                                !.updating = @ /\ click[t].step # "idle"]
<1>1. /\ s.open = pages[t].open /\ s.asked = (IF changed THEN NoStatus ELSE pages[t].asked)
      /\ s.cached = fetch[t].status /\ s.before = pages[t].before /\ s.loaded
      /\ s.updating = (pages[t].updating /\ click[t].step # "idle")
  BY <1>0 DEF PageState
<1>2. /\ pages'[t] = s /\ fetch'[t] = NoCall /\ UNCHANGED <<stored, click, behind>>
      /\ fetch[t].step = "answered"
  BY <1>0 DEF FetchArrives
<1>3. Listed(Listed(stored)) = Listed(stored)
  BY <1>0, StatusesListed
<1> HIDE DEF s
<1>4. Clicks(t)'
  BY <1>0, <1>1, <1>2 DEF Clicks
<1>5. UpToDate(t)'
  BY <1>0, <1>1, <1>2, <1>3, CallsTyped DEF Clicks, UpToDate
<1> QED
  BY <1>4, <1>5

LEMMA LossesKeep ==
    ASSUME VisitsInv, NEW t \in Page, LoseCall(t)
    PROVE  Clicks(t)' /\ UpToDate(t)'
<1>0. /\ pages \in [Page -> PageState] /\ behind \in [Page -> BOOLEAN]
      /\ pages[t] \in PageState /\ Clicks(t) /\ UpToDate(t)
  BY DEF VisitsInv, VisitsTypeOK
<1>1. CASE UNCHANGED <<pages, click, fetch, behind, stored>>
  BY <1>0, <1>1, StillTabsKeep
<1>2. CASE /\ click[t].step # "idle"
           /\ click' = [click EXCEPT ![t] = NoCall]
           /\ pages' = [pages EXCEPT ![t].asked = pages[t].before, ![t].updating = FALSE]
           /\ behind' = [behind EXCEPT ![t] = @ \/ click[t].ok \/ pages[t].before # pages[t].cached]
           /\ UNCHANGED <<opening, fetch, stored>>
  <2>1. behind'[t] = (behind[t] \/ click[t].ok \/ pages[t].before # pages[t].cached)
    BY <1>0, <1>2
  <2> QED
    BY <1>2, <2>1, GivingUpKeeps
<1>3. CASE /\ pages' = [pages EXCEPT ![t].updating = @ /\ click[t].step # "idle"]
           /\ behind' = [behind EXCEPT ![t] = TRUE]
           /\ UNCHANGED <<opening, click>>
  <2>1. /\ pages'[t].open = pages[t].open /\ pages'[t].asked = pages[t].asked
        /\ pages'[t].cached = pages[t].cached /\ pages'[t].before = pages[t].before
        /\ pages'[t].loaded = pages[t].loaded
        /\ pages'[t].updating = (pages[t].updating /\ click[t].step # "idle")
        /\ behind'[t] /\ click' = click
    BY <1>0, <1>3 DEF PageState
  <2> QED
    BY <1>0, <2>1 DEF Clicks, UpToDate
<1> QED
  BY <1>1, <1>2, <1>3 DEF LoseCall

\* What a tab does, the others do not notice, unless the server has taken a write.
LEMMA OtherTabsKeep ==
    ASSUME VisitsInv, NEW t \in Page, NEW q \in Page \ {t},
           \/ OpenSheet(t) \/ LeaveSheet(t) \/ Refresh(t)
           \/ \E status \in Kept : HandleVisit(t, status)
           \/ ServeOpening(t) \/ ServeClick(t) \/ ServeFetch(t)
           \/ OpeningArrives(t) \/ ClickArrives(t) \/ FetchArrives(t) \/ LoseCall(t)
    PROVE  Clicks(q)' /\ UpToDate(q)'
<1>0. /\ pages \in [Page -> PageState] /\ fetch \in [Page -> VisitCall]
      /\ click \in [Page -> VisitCall] /\ behind \in [Page -> BOOLEAN]
      /\ Clicks(q) /\ UpToDate(q)
  BY DEF VisitsInv, VisitsTypeOK
<1>1. Refetch(t) => fetch'[q] = fetch[q]
  BY <1>0 DEF Refetch
<1>2. /\ pages'[q] = pages[q] /\ click'[q] = click[q] /\ fetch'[q] = fetch[q]
      /\ behind'[q] \/ (stored' = stored /\ behind'[q] = behind[q])
  <2>1. CASE OpenSheet(t) \/ LeaveSheet(t) \/ \E status \in Kept : HandleVisit(t, status)
    BY <1>0, <2>1 DEF OpenSheet, LeaveSheet, HandleVisit
  <2>2. CASE ServeOpening(t) \/ ServeClick(t) \/ ServeFetch(t)
    BY <1>0, <2>2 DEF ServeOpening, ServeClick, ServeFetch, BehindAfterClick
  <2>3. CASE OpeningArrives(t) \/ Refresh(t) \/ ClickArrives(t)
    BY <1>0, <1>1, <2>3 DEF OpeningArrives, Refresh, ClickArrives
  <2>4. CASE FetchArrives(t) \/ LoseCall(t)
    BY <1>0, <2>4 DEF FetchArrives, LoseCall
  <2> QED
    BY <2>1, <2>2, <2>3, <2>4
<1> QED
  BY <1>0, <1>2, StillTabsKeep

LEMMA VisitsKept == VisitsInv /\ [VisitsNext]_visitVars => VisitsInv'
<1> SUFFICES ASSUME VisitsInv, [VisitsNext]_visitVars PROVE VisitsInv'
  OBVIOUS
<1>1. VisitsTypeOK'
  BY VisitTypesKept DEF VisitsInv
<1>2. \A q \in Page : Clicks(q)' /\ UpToDate(q)'
  <2> SUFFICES ASSUME NEW q \in Page PROVE Clicks(q)' /\ UpToDate(q)'
    OBVIOUS
  <2>0. Clicks(q) /\ UpToDate(q)
    BY DEF VisitsInv
  <2>1. ASSUME NEW status \in VisitStatus \cup {NoStatus}, WriteElsewhere(status)
        PROVE  Clicks(q)' /\ UpToDate(q)'
    BY <2>0, <2>1, StillTabsKeep DEF WriteElsewhere
  <2>2. CASE UNCHANGED visitVars
    BY <2>0, <2>2, StillTabsKeep DEF visitVars
  <2>3. ASSUME NEW t \in Page,
               \/ OpenSheet(t) \/ LeaveSheet(t) \/ Refresh(t)
               \/ \E status \in Kept : HandleVisit(t, status)
               \/ ServeOpening(t) \/ ServeClick(t) \/ ServeFetch(t)
               \/ OpeningArrives(t) \/ ClickArrives(t) \/ FetchArrives(t) \/ LoseCall(t)
        PROVE  Clicks(q)' /\ UpToDate(q)'
    <3>1. CASE q = t
      BY <2>3, <3>1, ServingKeeps, AskingKeeps, TurningKeeps, ClickingKeeps, ClicksComeBack,
         AnswersCome, LossesKeep
    <3>2. CASE q # t
      BY <2>3, <3>2, OtherTabsKeep
    <3> QED
      BY <3>1, <3>2
  <2> QED
    BY <2>1, <2>2, <2>3 DEF VisitsNext
<1> QED
  BY <1>1, <1>2 DEF VisitsInv

LEMMA VisitsBegin == VisitsInit => VisitsInv
<1> SUFFICES ASSUME VisitsInit PROVE VisitsInv
  OBVIOUS
<1>1. Closed \in PageState /\ ~Closed.loaded /\ Closed.cached = NoStatus /\ Closed.before = NoStatus
      /\ Closed.asked = NoStatus
  BY DEF Closed, PageState
<1>2. VisitsTypeOK
  BY <1>1, CallsTyped DEF VisitsInit, VisitsTypeOK, NoCall
<1>3. \A t \in Page : Clicks(t) /\ UpToDate(t)
  BY <1>1, CallsTyped DEF VisitsInit, Clicks, UpToDate
<1> QED
  BY <1>2, <1>3 DEF VisitsInv

\* Whatever is lost, refused or late, and however many tabs write: a loaded tab with
\* nothing under way shows what is stored, unless somebody else wrote since its last
\* answer (handleVisit, optimisticVisitStatus, upsert).
THEOREM TabsShowWhatIsStored == VisitsSpec => []WhatIsShownIsStored
<1>1. VisitsInv => WhatIsShownIsStored
  <2> SUFFICES ASSUME VisitsInv, NEW t \in Page, pages[t].loaded, Settled(t), ~behind[t]
               PROVE  Listed(Shown(t)) = Listed(stored)
    BY DEF WhatIsShownIsStored
  <2>1. Clicks(t) /\ UpToDate(t) /\ stored \in VisitStatus \cup {NoStatus}
    BY DEF VisitsInv, VisitsTypeOK
  <2>2. click[t].step = "idle" /\ fetch[t].step = "idle" /\ ~click[t].ok
    BY <2>1 DEF Settled, Clicks
  <2>3. pages[t].cached = Listed(stored)
        /\ (pages[t].asked # NoStatus => Listed(pages[t].asked) = Listed(stored))
    BY <2>1, <2>2 DEF UpToDate
  <2> QED
    BY <2>1, <2>3, StatusesListed DEF Shown
<1> QED
  BY <1>1, VisitsBegin, VisitsKept, PTL DEF VisitsSpec

-----------------------------------------------------------------------------
(* What a tab keeps *)

Copy == [held : BOOLEAN, of : Nat, stale : BOOLEAN]
Query == [step : {"idle", "sent", "answered"}, of : Nat]
Post == [step : {"idle", "sent", "answered"}, by : Writings, taken : BOOLEAN]

QueriesTypeOK ==
    /\ topic \in DOMAIN Tells
    /\ edition \in Nat
    /\ copies \in [About -> Copy]
    /\ asking \in [About -> Query]
    /\ posting \in Post
    /\ posting.step # "idle" => posting.by.topic = topic
    /\ posting.taken => posting.step = "answered"

Told(w) == w.invalidates \cup w.refetches

\* The server has taken a write whose button will ask for this again.
ToBeAsked(k) == posting.taken /\ k \in Told(posting.by)

\* An answer that the write of the tab is to make old is one the button still has to
\* hear of; an old copy is out of sight, and marked.
KeyInv(k) ==
    k \notin excused =>
        /\ asking[k].step = "answered" =>
             asking[k].of = edition \/ (copies[k].held /\ ToBeAsked(k))
        /\ copies[k].held /\ asking[k].step = "idle" =>
             \/ copies[k].of = edition
             \/ ToBeAsked(k)
             \/ copies[k].stale /\ k \notin Shows(front)

QueriesInv == QueriesTypeOK /\ \A k \in About : KeyInv(k)

\* Each button names all that its page shows of what it writes.
LEMMA ButtonsTell == \A w \in Writings : Tells[w.topic] \cap Shows(w.page) \subseteq Told(w)
<1> SUFFICES ASSUME NEW w \in Writings PROVE Tells[w.topic] \cap Shows(w.page) \subseteq Told(w)
  OBVIOUS
<1>1. Shows("sheet") = HeaderShows \cup SheetShows /\ Shows("listes") = HeaderShows \cup ListsShows
  BY DEF Shows, PageShows
<1>2. Tells["list"] = {"user-lists", "member-lists"} /\ Tells["follow"] = CommunityShows
  BY DEF Tells, CommunityShows
<1>3. /\ Tells["correction"] = {"aerodrome"}
      /\ Tells["comment"] = {"comments"}
      /\ Tells["event"] = {"events"}
      /\ Tells["visit"] = {"visits", "aerodex-stats"}
      /\ Tells["info"] = {"community-info"}
      /\ Tells["notification"] = {"notifications"}
      /\ Tells["aircraft"] = {"profiles"}
      /\ Tells["planning"] = {"saved-searches-planner"}
      /\ Tells["search"] = {"saved-searches"}
  BY DEF Tells
<1>4. CASE w \in {SubmitCorrection, ReportCorrection}
  <2>1. w.page = "sheet" /\ w.topic = "correction" /\ Told(w) = {"aerodrome"}
    BY <1>4 DEF Writing, Told, SubmitCorrection, ReportCorrection
  <2> QED
    BY <2>1, <1>3
<1>5. CASE w \in {PostComment, PostReply, ReportComment, RemoveComment}
  <2>1. w.page = "sheet" /\ w.topic = "comment" /\ Told(w) = {"comments"}
    BY <1>5 DEF Writing, Told, PostComment, PostReply, ReportComment, RemoveComment
  <2> QED
    BY <2>1, <1>3
<1>6. CASE w \in {SubmitEvent, RemoveEvent}
  <2>1. w.page = "sheet" /\ w.topic = "event" /\ Told(w) = {"events"}
    BY <1>6 DEF Writing, Told, SubmitEvent, RemoveEvent
  <2> QED
    BY <2>1, <1>3
<1>7. CASE w \in {SetVisit}
  <2>1. w.page = "sheet" /\ w.topic = "visit" /\ Told(w) = {"visits", "aerodex-stats"}
    BY <1>7 DEF Writing, Told, SetVisit
  <2> QED
    BY <2>1, <1>3
<1>8. CASE w \in {AddToList, CreateListOnSheet}
  <2>1. w.page = "sheet" /\ w.topic = "list" /\ Told(w) = {"user-lists"}
    BY <1>8 DEF Writing, Told, AddToList, CreateListOnSheet
  <2> QED
    BY <2>1, <1>1, <1>2 DEF HeaderShows, SheetShows, ListsShows
<1>9. CASE w \in {ConfirmInfo, ProposeInfo}
  <2>1. w.page = "sheet" /\ w.topic = "info" /\ Told(w) = {"community-info"}
    BY <1>9 DEF Writing, Told, ConfirmInfo, ProposeInfo
  <2> QED
    BY <2>1, <1>3
<1>10. CASE w \in {CreateListOnPage, DropList}
  <2>1. w.page = "listes" /\ w.topic = "list" /\ Told(w) = {"member-lists"}
    BY <1>10 DEF Writing, Told, CreateListOnPage, DropList
  <2> QED
    BY <2>1, <1>1, <1>2 DEF HeaderShows, SheetShows, ListsShows
<1>11. CASE w \in {ToggleFollow}
  <2>1. w.page = "community" /\ w.topic = "follow" /\ Told(w) = CommunityShows
    BY <1>11 DEF Writing, Told, ToggleFollow
  <2> QED
    BY <2>1, <1>2
<1>12. CASE w \in {MarkAllRead}
  <2>1. PICK p : w = Writing(p, "notification", {"notifications"}, {})
    BY <1>12, Zenon DEF MarkAllRead
  <2>2. w.topic = "notification" /\ Told(w) = {"notifications"}
    BY <2>1 DEF Writing, Told
  <2> QED
    BY <2>2, <1>3
<1>13. CASE w \in {MarkAllReadOnPage}
  <2>1. w.page = "notifications" /\ w.topic = "notification" /\ Told(w) = {"notifications"}
    BY <1>13 DEF Writing, Told, MarkAllReadOnPage
  <2> QED
    BY <2>1, <1>3
<1>14. CASE w \in {SaveAircraft}
  <2>1. w.page = "planner" /\ w.topic = "aircraft" /\ Told(w) = {"profiles"}
    BY <1>14 DEF Writing, Told, SaveAircraft
  <2> QED
    BY <2>1, <1>3
<1>15. CASE w \in {SavePlanning}
  <2>1. w.page = "planner" /\ w.topic = "planning" /\ Told(w) = {"saved-searches-planner"}
    BY <1>15 DEF Writing, Told, SavePlanning
  <2> QED
    BY <2>1, <1>3
<1>16. CASE w \in {KeepSearch}
  <2>1. w.page = "search" /\ w.topic = "search" /\ Told(w) = {"saved-searches"}
    BY <1>16 DEF Writing, Told, KeepSearch
  <2> QED
    BY <2>1, <1>3
<1> QED
  BY <1>4, <1>5, <1>6, <1>7, <1>8, <1>9, <1>10, <1>11, <1>12, <1>13, <1>14, <1>15, <1>16 DEF Writings

LEMMA StepsTyped ==
    /\ NoCopy \in Copy /\ NotAsking \in Query /\ Sent \in Query /\ NoPost \in Post
    /\ ~NoCopy.held /\ NotAsking.step = "idle" /\ Sent.step = "sent"
    /\ NoPost.step = "idle" /\ ~NoPost.taken
BY DEF NoCopy, NotAsking, Sent, NoPost, Copy, Query, Post, Writings

LEMMA QueryTypesKept == QueriesTypeOK /\ [QueriesNext]_queryVars => QueriesTypeOK'
<1> SUFFICES ASSUME QueriesTypeOK, [QueriesNext]_queryVars PROVE QueriesTypeOK'
  OBVIOUS
<1> USE DEF QueriesTypeOK
<1>0. topic' = topic /\ About' = About
  BY DEF QueriesNext, queryVars, OpenPage, GrowStale, Press, ServePost, PostArrives, ServeQuery,
         QueryArrives, Lose, WrittenElsewhere, About
<1>1. ASSUME NEW p, OpenPage(p) PROVE QueriesTypeOK'
  BY <1>0, <1>1, StepsTyped DEF OpenPage
<1>2. ASSUME NEW k \in About, GrowStale(k) PROVE QueriesTypeOK'
  <2> DEFINE c == [copies[k] EXCEPT !.stale = TRUE]
  <2>1. c \in Copy
    BY <1>2 DEF Copy
  <2>2. copies' = [copies EXCEPT ![k] = c] /\ UNCHANGED <<edition, asking, posting>>
    BY <1>2 DEF GrowStale
  <2> HIDE DEF c
  <2> QED
    BY <1>0, <2>1, <2>2
<1>3. ASSUME NEW w \in Writings, Press(w) PROVE QueriesTypeOK'
  BY <1>0, <1>3 DEF Press, Post
<1>4. CASE ServePost
  <2>1. posting' \in {[posting EXCEPT !.step = "answered", !.taken = TRUE], [posting EXCEPT !.step = "answered"]}
        /\ edition' \in Nat /\ UNCHANGED <<copies, asking>> /\ posting.step = "sent"
    BY <1>4 DEF ServePost
  <2>2. posting' \in Post /\ posting'.by = posting.by /\ posting'.step = "answered"
    BY <2>1 DEF Post
  <2> QED
    BY <1>0, <2>1, <2>2
<1>5. CASE PostArrives
  <2>1. NoPost \in Post /\ UNCHANGED edition /\ posting' = NoPost
    BY <1>5, StepsTyped DEF PostArrives
  <2>2. asking' \in [About -> Query]
    BY <1>5, StepsTyped DEF PostArrives, AskAgain
  <2>3. copies' \in [About -> Copy]
    <3> DEFINE w == posting.by
              after(k) == [copies[k] EXCEPT !.stale = copies[k].held /\ (@ \/ k \in w.invalidates)]
    <3>1. ASSUME NEW k \in About PROVE after(k) \in Copy
      <4>1. copies[k] \in Copy
        OBVIOUS
      <4> QED
        BY <4>1 DEF Copy
    <3>2. UNCHANGED copies \/ copies' = [k \in About |-> after(k)]
      BY <1>5 DEF PostArrives
    <3> HIDE DEF after
    <3> QED
      BY <3>1, <3>2
  <2> QED
    BY <1>0, <2>1, <2>2, <2>3, StepsTyped
<1>6. ASSUME NEW k \in About, ServeQuery(k) PROVE QueriesTypeOK'
  <2>1. [step |-> "answered", of |-> edition] \in Query
    BY DEF Query
  <2> QED
    BY <1>0, <1>6, <2>1 DEF ServeQuery
<1>7. ASSUME NEW k \in About, QueryArrives(k) PROVE QueriesTypeOK'
  <2>1. [held |-> TRUE, of |-> asking[k].of, stale |-> FALSE] \in Copy
    BY <1>7 DEF Copy, Query
  <2> QED
    BY <1>0, <1>7, <2>1, StepsTyped DEF QueryArrives
<1>8. CASE Lose
  BY <1>0, <1>8, StepsTyped DEF Lose
<1>9. CASE WrittenElsewhere
  BY <1>0, <1>9 DEF WrittenElsewhere
<1>10. CASE UNCHANGED queryVars
  BY <1>10 DEF queryVars, About
<1> QED
  BY <1>1, <1>2, <1>3, <1>4, <1>5, <1>6, <1>7, <1>8, <1>9, <1>10 DEF QueriesNext, About

LEMMA KeysKeptUpToDate == QueriesInv /\ [QueriesNext]_queryVars => \A k \in About' : KeyInv(k)'
<1> SUFFICES ASSUME QueriesInv, [QueriesNext]_queryVars PROVE \A k \in About' : KeyInv(k)'
  OBVIOUS
<1>a. topic' = topic
  BY DEF QueriesNext, queryVars, OpenPage, GrowStale, Press, ServePost, PostArrives, ServeQuery,
         QueryArrives, Lose, WrittenElsewhere
<1> SUFFICES ASSUME NEW k \in About PROVE KeyInv(k)'
  BY <1>a DEF About
<1>0. /\ copies \in [About -> Copy] /\ asking \in [About -> Query] /\ posting \in Post
      /\ copies[k] \in Copy /\ asking[k] \in Query /\ edition \in Nat
      /\ posting.taken => posting.step = "answered"
      /\ posting.step # "idle" => posting.by.topic = topic
      /\ KeyInv(k)
  BY DEF QueriesInv, QueriesTypeOK
<1>1. ASSUME NEW p, OpenPage(p) PROVE KeyInv(k)'
  <2>1. /\ asking'[k] = (IF k \in Shows(p) /\ Wanted(k) THEN Sent ELSE asking[k])
        /\ front' = p /\ UNCHANGED <<copies, edition, posting, excused>>
    BY <1>1 DEF OpenPage
  <2> QED
    BY <1>0, <2>1, StepsTyped DEF KeyInv, ToBeAsked, Wanted, Shows
<1>2. ASSUME NEW j \in About, GrowStale(j) PROVE KeyInv(k)'
  <2>1. copies'[k].held = copies[k].held /\ copies'[k].of = copies[k].of
        /\ (copies[k].stale => copies'[k].stale)
    BY <1>0, <1>2 DEF GrowStale, Copy
  <2>2. UNCHANGED <<asking, edition, posting, excused, front>>
    BY <1>2 DEF GrowStale
  <2> QED
    BY <1>0, <2>1, <2>2 DEF KeyInv, ToBeAsked, Shows
<1>3. ASSUME NEW w \in Writings, Press(w) PROVE KeyInv(k)'
  <2>1. ~posting.taken /\ UNCHANGED <<copies, asking, edition, excused, front>>
    BY <1>0, <1>3 DEF Press
  <2> QED
    BY <1>0, <2>1 DEF KeyInv, ToBeAsked, Shows
<1>4. CASE ServePost
  <2>1. CASE /\ edition' = edition + 1 /\ posting' = [posting EXCEPT !.step = "answered", !.taken = TRUE]
             /\ excused' = excused \cup Unaware(posting.by)
    <3>1. SUFFICES ASSUME k \notin excused' PROVE KeyInv(k)'
      BY DEF KeyInv
    <3>2. k \in Shows(posting.by.page) \cup posting.by.invalidates /\ ~(asking[k].step # "idle" /\ ~copies[k].held)
      BY <2>1, <3>1 DEF Unaware
    <3>3. k \in Told(posting.by)
      <4>1. posting.by \in Writings /\ posting.by.topic = topic
        BY <1>0, <1>4 DEF ServePost, Post
      <4>2. k \in Tells[posting.by.topic]
        BY <4>1 DEF About
      <4> QED
        BY <3>2, <4>1, <4>2, ButtonsTell DEF Told
    <3>4. posting'.taken /\ posting'.by = posting.by /\ UNCHANGED <<copies, asking, front>>
      BY <1>0, <1>4, <2>1 DEF ServePost, Post
    <3> QED
      BY <3>2, <3>3, <3>4 DEF KeyInv, ToBeAsked, Told
  <2>2. CASE posting' = [posting EXCEPT !.step = "answered"] /\ UNCHANGED <<edition, excused>>
    <3>1. posting'.taken = posting.taken /\ posting'.by = posting.by /\ UNCHANGED <<copies, asking, front>>
      BY <1>0, <1>4, <2>2 DEF ServePost, Post
    <3> QED
      BY <1>0, <2>2, <3>1 DEF KeyInv, ToBeAsked, Told, Shows
  <2> QED
    BY <1>4, <2>1, <2>2 DEF ServePost
<1>5. CASE PostArrives
  <2> DEFINE w == posting.by
             again == w.refetches \cup (w.invalidates \cap Shows(front))
             late == {j \in (w.invalidates \cap About) \ again : asking[j].step = "answered"}
  <2>1. UNCHANGED <<edition, front>> /\ posting' = NoPost
    BY <1>5 DEF PostArrives
  <2>2. CASE ~posting.taken
    <3>1. UNCHANGED <<asking, copies, excused>>
      BY <1>5, <2>2 DEF PostArrives
    <3> QED
      BY <1>0, <2>1, <2>2, <3>1 DEF KeyInv, ToBeAsked, Shows
  <2>3. CASE posting.taken
    <3>1. /\ asking'[k] = (IF k \in again THEN AskAgain(k) ELSE asking[k])
          /\ copies'[k] = [copies[k] EXCEPT !.stale = copies[k].held /\ (@ \/ k \in w.invalidates)]
          /\ excused' = excused \cup late
      BY <1>5, <2>3 DEF PostArrives
    <3>2. /\ copies'[k].held = copies[k].held /\ copies'[k].of = copies[k].of
          /\ copies'[k].stale = (copies[k].held /\ (copies[k].stale \/ k \in w.invalidates))
      BY <1>0, <3>1 DEF Copy
    <3>3. ToBeAsked(k) = (k \in w.invalidates \cup w.refetches)
      BY <2>3 DEF ToBeAsked, Told
    <3>4. CASE k \in again
      <4>1. asking'[k] = (IF asking[k].step # "idle" /\ ~copies[k].held THEN asking[k] ELSE Sent)
        BY <3>1, <3>4 DEF AskAgain
      <4> QED
        BY <1>0, <2>1, <3>1, <3>2, <4>1, StepsTyped DEF KeyInv
    <3>5. CASE k \notin again /\ k \in w.invalidates
      <4>1. k \notin excused' => asking[k].step # "answered" /\ k \notin excused
        BY <3>1, <3>5
      <4>2. k \notin Shows(front)'
        BY <2>1, <3>5 DEF Shows
      <4> HIDE DEF again, late
      <4> QED
        BY <1>0, <2>1, <3>1, <3>2, <3>5, <4>1, <4>2 DEF KeyInv
    <3>6. CASE k \notin again /\ k \notin w.invalidates
      <4>1. ~ToBeAsked(k) /\ (k \notin excused' => k \notin excused)
        BY <3>1, <3>3, <3>6
      <4>2. asking'[k] = asking[k] /\ Shows(front)' = Shows(front)
        BY <2>1, <3>1, <3>6 DEF Shows
      <4> HIDE DEF again, late
      <4> QED
        BY <1>0, <2>1, <3>2, <3>6, <4>1, <4>2 DEF KeyInv
    <3> QED
      BY <3>4, <3>5, <3>6
  <2> QED
    BY <2>2, <2>3
<1>6. ASSUME NEW j \in About, ServeQuery(j) PROVE KeyInv(k)'
  <2>1. UNCHANGED <<edition, front, copies, posting>> /\ excused' = excused \ {j}
        /\ asking' = [asking EXCEPT ![j] = [step |-> "answered", of |-> edition]]
    BY <1>6 DEF ServeQuery
  <2>2. CASE j = k
    BY <1>0, <2>1, <2>2 DEF KeyInv
  <2>3. CASE j # k
    BY <1>0, <2>1, <2>3 DEF KeyInv, ToBeAsked, Shows
  <2> QED
    BY <2>2, <2>3
<1>7. ASSUME NEW j \in About, QueryArrives(j) PROVE KeyInv(k)'
  <2>1. UNCHANGED <<edition, front, excused, posting>> /\ asking[j].step = "answered"
        /\ copies' = [copies EXCEPT ![j] = [held |-> TRUE, of |-> asking[j].of, stale |-> FALSE]]
        /\ asking' = [asking EXCEPT ![j] = NotAsking]
    BY <1>7 DEF QueryArrives
  <2>2. CASE j = k
    BY <1>0, <2>1, <2>2, StepsTyped DEF KeyInv, ToBeAsked
  <2>3. CASE j # k
    BY <1>0, <2>1, <2>3 DEF KeyInv, ToBeAsked, Shows
  <2> QED
    BY <2>2, <2>3
<1>8. CASE Lose
  <2>1. UNCHANGED <<edition, front, copies>>
    BY <1>8 DEF Lose
  <2>2. CASE /\ posting' = NoPost /\ UNCHANGED asking
             /\ excused' = IF posting.taken THEN excused \cup About ELSE excused
    BY <1>0, <2>1, <2>2 DEF KeyInv, ToBeAsked, Shows
  <2>3. CASE \E j \in About : /\ asking' = [asking EXCEPT ![j] = NotAsking]
                              /\ excused' = excused \cup {j} /\ UNCHANGED posting
    BY <1>0, <2>1, <2>3 DEF KeyInv, ToBeAsked, Shows
  <2> QED
    BY <1>8, <2>2, <2>3 DEF Lose
<1>9. CASE WrittenElsewhere
  BY <1>9 DEF WrittenElsewhere, KeyInv
<1>10. CASE UNCHANGED queryVars
  BY <1>0, <1>10 DEF queryVars, KeyInv, ToBeAsked, Shows
<1> QED
  BY <1>1, <1>2, <1>3, <1>4, <1>5, <1>6, <1>7, <1>8, <1>9, <1>10 DEF QueriesNext, About

LEMMA QueriesBegin == QueriesInit => QueriesInv
<1> SUFFICES ASSUME QueriesInit PROVE QueriesInv
  OBVIOUS
<1>1. QueriesTypeOK
  BY StepsTyped DEF QueriesInit, QueriesTypeOK
<1>2. \A k \in About : KeyInv(k)
  BY StepsTyped DEF QueriesInit, KeyInv
<1> QED
  BY <1>1, <1>2 DEF QueriesInv

\* Each button asks again for what its page shows of the write, and no answer that left
\* before the write stays: once nothing is under way a page shows what the member has
\* written on it, as far as an answer has come since (the handlers of the pages,
\* providers.tsx).
THEOREM OwnWritesAreShown == QueriesSpec => []OwnWritesShow
<1>1. QueriesInv /\ [QueriesNext]_queryVars => QueriesInv'
  BY QueryTypesKept, KeysKeptUpToDate DEF QueriesInv
<1>2. QueriesInv => OwnWritesShow
  BY DEF QueriesInv, QueriesTypeOK, KeyInv, ToBeAsked, OwnWritesShow
<1> QED
  BY <1>1, <1>2, QueriesBegin, PTL DEF QueriesSpec

-----------------------------------------------------------------------------
(* The planner's page *)

\* One calculation is under way at most, and it is the one asked for last.
CalculationInv ==
    /\ \A c \in Calculation : calculation[c] # Unset => calculating /\ calculation[c] = last
    /\ \A c, e \in Calculation : calculation[c] # Unset /\ calculation[e] # Unset => c = e
    /\ ResultsAreOfTheLastCalculation

\* Whoever waits for a departure waits for that of the search applied last, and what
\* arrives meanwhile leaves alone what the search has set.
AppliedInv ==
    applied # Unset /\ ~crossed =>
        /\ \A a \in Applying : apply[a] \in {Unset, applied.departure}
        /\ inputs.setting = applied.setting
        /\ applied.profile # Unset => inputs.profile = applied.profile
        /\ applied.departure # Unset /\ ~Waiting => inputs.departure = applied.departure

PlannerPageInv == PlannerPageTypeOK /\ CalculationInv /\ AppliedInv

LEMMA FirstIsOne ==
    ASSUME NEW S \in SUBSET Aircraft, S # {}
    PROVE  First(S) \in S
<1> DEFINE R == {p \in Nat \X Nat : p[1] < p[2]}
<1>0. S \in SUBSET Nat
  BY AircraftAssumption
<1>1. IsWellFoundedOn(R, Nat)
  BY NatLessThanWellFounded DEF OpToRel
<1>2. PICK m \in S : \A n \in S : <<n, m>> \notin R
  BY <1>0, <1>1, WFMin
<1>3. ASSUME NEW n \in S PROVE m <= n
  <2>1. n \in Nat /\ m \in Nat /\ ~(n < m)
    BY <1>0, <1>2
  <2> QED
    BY <2>1
<1> QED
  BY <1>3 DEF First

LEMMA SelectTyped ==
    ASSUME NEW p \in Aircraft \cup {Unset}, NEW S \in SUBSET Aircraft
    PROVE  Select(p, S) \in Aircraft \cup {Unset}
<1>1. CASE p = Unset /\ S # {}
  <2>1. First(S) \in S
    BY <1>1, FirstIsOne
  <2> QED
    BY <1>1, <2>1 DEF Select
<1>2. CASE ~(p = Unset /\ S # {})
  BY <1>2 DEF Select
<1> QED
  BY <1>1, <1>2

\* What one member or one answer changes of the inputs leaves the rest.
LEMMA FieldsChange ==
    ASSUME PlannerPageTypeOK
    PROVE  /\ \A s \in Setting : [inputs EXCEPT !.setting = s] \in Inputs
           /\ \A d \in Departure \cup {Unset} :
                 /\ [inputs EXCEPT !.departure = d] \in Inputs
                 /\ [inputs EXCEPT !.departure = d].departure = d
                 /\ [inputs EXCEPT !.departure = d].setting = inputs.setting
                 /\ [inputs EXCEPT !.departure = d].profile = inputs.profile
           /\ \A p \in Aircraft \cup {Unset} :
                 /\ [inputs EXCEPT !.profile = p] \in Inputs
                 /\ [inputs EXCEPT !.profile = p].profile = p
                 /\ [inputs EXCEPT !.profile = p].setting = inputs.setting
                 /\ [inputs EXCEPT !.profile = p].departure = inputs.departure
<1>1. inputs \in Inputs
  BY DEF PlannerPageTypeOK
<1> QED
  BY <1>1 DEF Inputs

LEMMA RestoredTyped ==
    ASSUME PlannerPageTypeOK, NEW q \in Inputs
    PROVE  /\ Restored(q) \in Inputs
           /\ Restored(q).setting = q.setting
           /\ q.profile # Unset => Restored(q).profile = q.profile
           /\ \A d \in Departure \cup {Unset} :
                 /\ [Restored(q) EXCEPT !.departure = d] \in Inputs
                 /\ [Restored(q) EXCEPT !.departure = d].setting = q.setting
                 /\ q.profile # Unset => [Restored(q) EXCEPT !.departure = d].profile = q.profile
<1> DEFINE p == IF q.profile # Unset THEN q.profile ELSE inputs.profile
<1>1. /\ inputs \in Inputs /\ q.setting \in Setting /\ q.profile \in Aircraft \cup {Unset}
      /\ inputs.profile \in Aircraft \cup {Unset}
  BY DEF PlannerPageTypeOK, Inputs
<1>2. p \in Aircraft \cup {Unset} /\ (q.profile # Unset => p = q.profile)
  BY <1>1
<1>3. Restored(q) = [inputs EXCEPT !.setting = q.setting, !.profile = p]
  BY DEF Restored, RestoredWith
<1> HIDE DEF p
<1>4. /\ Restored(q) \in Inputs /\ Restored(q).setting = q.setting /\ Restored(q).profile = p
  BY <1>1, <1>2, <1>3 DEF Inputs
<1>5. \A d \in Departure \cup {Unset} :
         /\ [Restored(q) EXCEPT !.departure = d] \in Inputs
         /\ [Restored(q) EXCEPT !.departure = d].setting = q.setting
         /\ [Restored(q) EXCEPT !.departure = d].profile = p
  BY <1>4 DEF Inputs
<1> QED
  BY <1>2, <1>4, <1>5

LEMMA PlannerTypesKept ==
    ASSUME PlannerPageTypeOK, [PlannerPageNext]_plannerPageVars
    PROVE  PlannerPageTypeOK'
<1> USE DEF PlannerPageTypeOK
<1>1. CASE ProfilesArrive
  <2>1. Select(inputs.profile, hangar.stored) \in Aircraft \cup {Unset}
    BY SelectTyped DEF Inputs
  <2>2. inputs' \in Inputs
    BY <1>1, <2>1, FieldsChange DEF ProfilesArrive
  <2> QED
    BY <1>1, <2>2 DEF ProfilesArrive
<1>2. CASE HomeArrives
  <2>1. (IF inputs.departure = Unset THEN home.is ELSE inputs.departure) \in Departure \cup {Unset}
    BY DEF Inputs
  <2>2. inputs' \in Inputs
    BY <1>2, <2>1, FieldsChange DEF HomeArrives
  <2> QED
    BY <1>2, <2>2 DEF HomeArrives
<1>3. CASE HandleClearDeparture
  BY <1>3, FieldsChange DEF HandleClearDeparture
<1>4. CASE SavePlannerSearch
  BY <1>4 DEF SavePlannerSearch
<1>5. ASSUME NEW p \in Aircraft, DeleteProfile(p) \/ SelectProfile(p) \/ CreateProfile(p)
      PROVE  PlannerPageTypeOK'
  <2>1. CASE DeleteProfile(p)
    <3>1. (IF inputs.profile = p THEN Select(Unset, hangar.listed) ELSE inputs.profile)
             \in Aircraft \cup {Unset}
      BY SelectTyped DEF Inputs
    <3>2. inputs' \in Inputs
      BY <2>1, <3>1, FieldsChange DEF DeleteProfile
    <3> QED
      BY <2>1, <3>2 DEF DeleteProfile
  <2>2. CASE SelectProfile(p)
    BY <2>2, FieldsChange DEF SelectProfile
  <2>3. CASE CreateProfile(p)
    BY <2>3, FieldsChange DEF CreateProfile
  <2> QED
    BY <1>5, <2>1, <2>2, <2>3
<1>6. ASSUME NEW s \in Setting, ChangeSetting(s) PROVE PlannerPageTypeOK'
  BY <1>6, FieldsChange DEF ChangeSetting
<1>7. ASSUME NEW d \in Departure \cup {Unset}, HandleSelectDeparture(d) PROVE PlannerPageTypeOK'
  BY <1>7, FieldsChange DEF HandleSelectDeparture
<1>8. ASSUME NEW a \in Applying, DepartureArrives(a) \/ DepartureFails(a) PROVE PlannerPageTypeOK'
  BY <1>8, FieldsChange DEF DepartureArrives, DepartureFails
<1>9. ASSUME NEW a \in Applying, kept # Unset, ApplySaved(a, kept) PROVE PlannerPageTypeOK'
  <2>1. kept \in Inputs /\ kept.departure \in Departure \cup {Unset}
    BY <1>9 DEF Inputs
  <2> QED
    BY <1>9, <2>1, RestoredTyped DEF ApplySaved, Waiting
<1>10. ASSUME NEW a \in Applying, kept # Unset, OpenAt(a, kept) PROVE PlannerPageTypeOK'
  <2>1. kept \in Inputs /\ kept.departure \in Departure \cup {Unset}
    BY <1>10 DEF Inputs
  <2>2. inputs' \in Inputs
    BY <1>10, <2>1, RestoredTyped DEF OpenAt
  <2> QED
    BY <1>10, <2>1, <2>2 DEF OpenAt
<1>11. ASSUME NEW c \in Calculation, HandleCalculate(c) \/ CalculationEnds(c) PROVE PlannerPageTypeOK'
  <2>1. CASE HandleCalculate(c)
    BY <2>1 DEF HandleCalculate, Calculate
  <2>2. CASE CalculationEnds(c)
    BY <2>2 DEF CalculationEnds
  <2> QED
    BY <1>11, <2>1, <2>2
<1>12. CASE UNCHANGED plannerPageVars
  BY <1>12 DEF plannerPageVars
<1> QED
  BY <1>1, <1>2, <1>3, <1>4, <1>5, <1>6, <1>7, <1>8, <1>9, <1>10, <1>11, <1>12 DEF PlannerPageNext

LEMMA CalculationsKept ==
    ASSUME PlannerPageTypeOK, CalculationInv, [PlannerPageNext]_plannerPageVars
    PROVE  CalculationInv'
<1> USE DEF CalculationInv, ResultsAreOfTheLastCalculation
<1>1. CASE UNCHANGED <<calculation, calculating, results, last>>
  BY <1>1
<1>2. CASE HandleClearDeparture
  BY <1>2 DEF HandleClearDeparture
<1>3. ASSUME NEW a \in Applying, OpenAt(a, kept) PROVE CalculationInv'
  BY <1>3 DEF OpenAt
<1>4. ASSUME NEW c \in Calculation, HandleCalculate(c) PROVE CalculationInv'
  BY <1>4 DEF HandleCalculate, Calculate, PlannerPageTypeOK
<1>5. ASSUME NEW c \in Calculation, CalculationEnds(c) PROVE CalculationInv'
  BY <1>5 DEF CalculationEnds, PlannerPageTypeOK
<1> QED
  BY <1>1, <1>2, <1>3, <1>4, <1>5 DEF PlannerPageNext, plannerPageVars, ProfilesArrive, HomeArrives,
     SavePlannerSearch, DeleteProfile, SelectProfile, CreateProfile, ChangeSetting,
     HandleSelectDeparture, DepartureArrives, DepartureFails, ApplySaved

LEMMA AppliedKept ==
    ASSUME PlannerPageTypeOK, AppliedInv, [PlannerPageNext]_plannerPageVars
    PROVE  AppliedInv'
<1> USE DEF AppliedInv
<1>0. /\ inputs.profile \in Aircraft \cup {Unset} /\ inputs.departure \in Departure \cup {Unset}
      /\ apply \in [Applying -> Departure \cup {Unset}]
  BY DEF PlannerPageTypeOK, Inputs
<1>1. CASE UNCHANGED <<inputs, apply, applied, crossed>>
  BY <1>1 DEF Waiting
<1>2. CASE applied' = Unset
  BY <1>2
<1>3. CASE ProfilesArrive
  <2>1. inputs.profile # Unset => Select(inputs.profile, hangar.stored) = inputs.profile
    BY DEF Select
  <2>2. Select(inputs.profile, hangar.stored) \in Aircraft \cup {Unset}
    BY <1>0, SelectTyped DEF PlannerPageTypeOK
  <2>3. /\ inputs'.setting = inputs.setting /\ inputs'.departure = inputs.departure
        /\ inputs.profile # Unset => inputs'.profile = inputs.profile
    BY <1>3, <2>1, <2>2, FieldsChange DEF ProfilesArrive
  <2> QED
    BY <1>3, <2>3 DEF ProfilesArrive, Waiting
<1>4. CASE HomeArrives
  <2>1. (IF inputs.departure = Unset THEN home.is ELSE inputs.departure) \in Departure \cup {Unset}
    BY <1>0 DEF PlannerPageTypeOK
  <2>2. /\ inputs'.setting = inputs.setting /\ inputs'.profile = inputs.profile
        /\ inputs.departure # Unset => inputs'.departure = inputs.departure
    BY <1>4, <2>1, FieldsChange DEF HomeArrives
  <2> QED
    BY <1>4, <2>2 DEF HomeArrives, Waiting
<1>5. CASE HandleClearDeparture
  BY <1>2, <1>5 DEF HandleClearDeparture
<1>6. ASSUME NEW a \in Applying, DepartureArrives(a) PROVE AppliedInv'
  <2>1. /\ inputs'.setting = inputs.setting /\ inputs'.profile = inputs.profile
        /\ inputs'.departure = apply[a]
    BY <1>0, <1>6, FieldsChange DEF DepartureArrives
  <2> QED
    BY <1>0, <1>6, <2>1 DEF DepartureArrives, Waiting
<1>7. ASSUME NEW a \in Applying, kept # Unset, ApplySaved(a, kept) PROVE AppliedInv'
  <2>1. kept \in Inputs
    BY <1>7 DEF PlannerPageTypeOK
  <2>2. /\ inputs'.setting = kept.setting
        /\ kept.profile # Unset => inputs'.profile = kept.profile
    BY <1>7, <2>1, RestoredTyped DEF ApplySaved
  <2>3. crossed' = Waiting /\ applied' = kept /\ apply' = [apply EXCEPT ![a] = kept.departure]
    BY <1>7 DEF ApplySaved
  <2>4. ASSUME ~crossed' PROVE \A b \in Applying : b # a => apply[b] = Unset
    BY <2>3, <2>4 DEF Waiting
  <2>5. kept.departure # Unset => Waiting'
    BY <1>0, <2>3 DEF Waiting
  <2> QED
    BY <1>0, <2>2, <2>3, <2>4, <2>5
<1>8. ASSUME NEW a \in Applying, kept # Unset, OpenAt(a, kept) PROVE AppliedInv'
  <2>1. kept \in Inputs
    BY <1>8 DEF PlannerPageTypeOK
  <2>2. (IF home.here THEN home.is ELSE Unset) \in Departure \cup {Unset}
    BY DEF PlannerPageTypeOK
  <2>3. /\ inputs'.setting = kept.setting
        /\ kept.profile # Unset => inputs'.profile = kept.profile
    BY <1>8, <2>1, <2>2, RestoredTyped DEF OpenAt
  <2>4. /\ applied' = kept /\ kept.departure # Unset
        /\ apply' = [b \in Applying |-> IF b = a THEN kept.departure ELSE Unset]
    BY <1>8 DEF OpenAt
  <2>5. Waiting'
    BY <2>4 DEF Waiting
  <2> QED
    BY <2>3, <2>4, <2>5
<1> QED
  BY <1>1, <1>2, <1>3, <1>4, <1>6, <1>7, <1>8 DEF PlannerPageNext, plannerPageVars,
     HandleClearDeparture, SavePlannerSearch, DeleteProfile, SelectProfile, CreateProfile, ChangeSetting,
     HandleSelectDeparture, DepartureFails, HandleCalculate, Calculate, CalculationEnds

LEMMA PlannerPageBegins == PlannerPageInit => PlannerPageInv
<1> SUFFICES ASSUME PlannerPageInit PROVE PlannerPageInv
  OBVIOUS
<1>1. NoInputs \in Inputs
  BY SettingAssumption DEF NoInputs, Inputs
<1>2. First(Aircraft) \in Aircraft
  BY AircraftAssumption, FirstIsOne
<1>3. PlannerPageTypeOK
  BY <1>1, <1>2 DEF PlannerPageInit, PlannerPageTypeOK
<1> QED
  BY <1>3 DEF PlannerPageInit, PlannerPageInv, CalculationInv, AppliedInv, ResultsAreOfTheLastCalculation

\* Calculations are disabled while one is under way, and an applied search sets its
\* departure last: however profiles, the home aerodrome and departures arrive, the
\* results are those of the calculation asked for last and the page holds the search
\* applied last (handleCalculate and applySavedPlannerSearch of planner/page.tsx).
THEOREM ThePageShowsTheLast == PlannerPageSpec => []PlannerShowsTheLast
<1>1. PlannerPageInv /\ [PlannerPageNext]_plannerPageVars => PlannerPageInv'
  BY PlannerTypesKept, CalculationsKept, AppliedKept DEF PlannerPageInv
<1>2. PlannerPageInv => PlannerShowsTheLast
  BY DEF PlannerPageInv, CalculationInv, AppliedInv, PlannerShowsTheLast, AppliedSearchIsWhole
<1> QED
  BY <1>1, <1>2, PlannerPageBegins, PTL DEF PlannerPageSpec

-----------------------------------------------------------------------------
(* The search *)

\* A page that is shown was cut from one of the orders the request allows.
PagesAreCut ==
    \A p \in DOMAIN shown : \E s \in Orders(SearchRequest) : shown[p] = PageOf(s, p)

\* A search that is saved or linked to names a page it has.
SavedPagesExist == \A q \in saved : q.page = 1 \/ q.page <= TotalPages(q)

SearchInv ==
    /\ SearchTypeOK
    /\ PagesAreCut
    /\ SavedPagesExist
    /\ ThePageExists

LEMMA Quotient ==
  ASSUME NEW a \in Nat, NEW b \in Nat \ {0}
  PROVE  a \div b \in Nat /\ (a \div b) * b <= a /\ a < (a \div b) * b + b
OBVIOUS

LEMMA Scaled ==
  ASSUME NEW x \in Int, NEW y \in Int, NEW b \in Nat, x <= y
  PROVE  x * b <= y * b
OBVIOUS

LEMMA QuotientsGrow ==
  ASSUME NEW x \in Nat, NEW y \in Nat, NEW b \in Nat \ {0}, x <= y
  PROVE  x \div b <= y \div b
<1> DEFINE p == x \div b
           q == y \div b
<1>1. p \in Nat /\ p * b <= x
  BY Quotient
<1>2. q \in Nat /\ y < q * b + b
  BY Quotient
<1> HIDE DEF p, q
<1>3. SUFFICES ASSUME q + 1 <= p PROVE FALSE
  BY <1>1, <1>2 DEF p, q
<1>4. (q + 1) * b <= p * b
  BY <1>1, <1>2, <1>3, Scaled
<1>5. (q + 1) * b = q * b + b
  BY <1>2
<1>6. q * b \in Nat /\ p * b \in Nat
  BY <1>1, <1>2
<1> DEFINE u == q * b
           v == p * b
<1>7. u \in Nat /\ v \in Nat /\ u + b <= v /\ v <= x /\ y < u + b
  BY <1>1, <1>2, <1>4, <1>5, <1>6
<1> HIDE DEF u, v
<1> QED
  BY <1>7

-----------------------------------------------------------------------------
(* What a request finds *)

LEMMA MatchesAreFinite ==
  ASSUME NEW q
  PROVE  Matches(q) \subseteq Aerodrome /\ IsFiniteSet(Matches(q)) /\ Cardinality(Matches(q)) \in Nat
<1>1. Matches(q) \subseteq Aerodrome
  BY DEF Matches
<1> QED
  BY <1>1, FS_Subset, FS_CardinalityType, AerodromeAssumption

LEMMA PagesAreNumbers ==
  ASSUME NEW q
  PROVE  TotalPages(q) \in Nat /\ 1..TotalPages(q) \subseteq Pages
<1> DEFINE n == Cardinality(Matches(q))
           m == Cardinality(Aerodrome)
           t == (n + Limit - 1) \div Limit
<1>1. n \in Nat /\ m \in Nat /\ n <= m
  BY MatchesAreFinite, FS_Subset, FS_CardinalityType, AerodromeAssumption
<1> HIDE DEF n, m
<1>2. n + Limit - 1 \in Nat
  BY <1>1, LimitAssumption
<1>3. t \in Nat /\ t * Limit <= n + Limit - 1
  BY <1>2, Quotient, LimitAssumption
<1> HIDE DEF t
<1>4. t <= n
  <2>1. SUFFICES ASSUME n + 1 <= t PROVE FALSE
    BY <1>1, <1>3
  <2>2. (n + 1) * Limit <= t * Limit
    BY <1>1, <1>3, <2>1, Scaled, LimitAssumption
  <2>3. (n + 1) * Limit = n * Limit + Limit
    BY <1>1, LimitAssumption
  <2>4. n * 1 <= n * Limit
    BY <1>1, LimitAssumption
  <2> DEFINE u == n * Limit
             v == t * Limit
  <2>5. u \in Int /\ v \in Int /\ u + Limit <= v /\ v <= n + Limit - 1 /\ n <= u
    BY <1>1, <1>3, <2>2, <2>3, <2>4, LimitAssumption
  <2> HIDE DEF u, v
  <2> QED
    BY <2>5, <1>1, LimitAssumption
<1>5. TotalPages(q) = t
  BY DEF TotalPages, t, n
<1>6. 1..t \subseteq 1..m + 1
  BY <1>1, <1>3, <1>4
<1> QED
  BY <1>3, <1>5, <1>6 DEF Pages, m

LEMMA RankIsANumber ==
  ASSUME NEW q \in Params, located \in [Aerodrome -> Point], NEW a \in Aerodrome
  PROVE  Rank(q, a) \in Int
<1>1. Titles[a] \in Int /\ Town[a] \in Int
  BY AlphabetAssumption
<1>2. ASSUME NEW x \in Point, NEW y \in Point PROVE Square(x, y) \in Int
  <2>1. x[1] \in Int /\ x[2] \in Int /\ y[1] \in Int /\ y[2] \in Int
    BY PlaceAssumption
  <2>2. Gap(x[1], y[1]) \in Int /\ Gap(x[2], y[2]) \in Int
    BY <2>1 DEF Gap
  <2> QED
    BY <2>2 DEF Square
<1>3. q.near # <<>> => q.near[1] \in Point
  BY DEF Params, Here
<1>4. located[a] \in Point
  OBVIOUS
<1> QED
  BY <1>1, <1>2, <1>3, <1>4 DEF Rank

\* An order holds every match.
LEMMA OrdersAreWhole ==
  ASSUME NEW q, NEW s \in Orders(q)
  PROVE  /\ s \in [1..Cardinality(Matches(q)) -> Matches(q)]
         /\ s \in Seq(Matches(q)) /\ Len(s) = Cardinality(Matches(q))
         /\ \A i, j \in DOMAIN s : s[i] = s[j] => i = j
         /\ \A a \in Matches(q) : \E i \in 1..Cardinality(Matches(q)) : s[i] = a
<1> DEFINE M == Matches(q)
           n == Cardinality(M)
<1>1. IsFiniteSet(M) /\ n \in Nat
  BY MatchesAreFinite
<1>2. s \in [1..n -> M] /\ \A i, j \in DOMAIN s : i # j => s[i] # s[j]
  BY DEF Orders
<1> HIDE DEF M
<1>3. IsFiniteSet(1..n) /\ Cardinality(1..n) = n
  BY <1>1, FS_Interval
<1>4. s \in Injection(1..n, M)
  BY <1>2 DEF Injection, IsInjective
<1>5. s \in Surjection(1..n, M)
  BY <1>1, <1>3, <1>4, FS_Injection
<1>6. \A a \in M : \E i \in 1..n : s[i] = a
  BY <1>5 DEF Surjection
<1>7. s \in Seq(M) /\ Len(s) = n
  BY <1>1, <1>2
<1> QED
  BY <1>2, <1>6, <1>7 DEF M

\* Where no two matches tie, the place of a match is the number of those before it.
LEMMA PlaceIsRank ==
  ASSUME NEW q \in Params, located \in [Aerodrome -> Point], ~Ties(q),
         NEW s \in Orders(q), NEW i \in 1..Cardinality(Matches(q))
  PROVE  i - 1 = Cardinality({b \in Matches(q) : Rank(q, b) < Rank(q, s[i])})
<1> DEFINE M == Matches(q)
           n == Cardinality(M)
           B == {b \in M : Rank(q, b) < Rank(q, s[i])}
<1>1. /\ s \in [1..n -> M] /\ n \in Nat
      /\ \A j, k \in 1..n : s[j] = s[k] => j = k
      /\ \A a \in M : \E j \in 1..n : s[j] = a
      /\ \A j, k \in 1..n : j < k => Rank(q, s[j]) <= Rank(q, s[k])
  BY OrdersAreWhole, MatchesAreFinite DEF Orders
<1>2. \A a \in M : Rank(q, a) \in Int
  BY RankIsANumber, MatchesAreFinite
<1>3. \A j, k \in 1..n : j < k => Rank(q, s[j]) < Rank(q, s[k])
  <2> SUFFICES ASSUME NEW j \in 1..n, NEW k \in 1..n, j < k
               PROVE  Rank(q, s[j]) < Rank(q, s[k])
    OBVIOUS
  <2>1. s[j] \in M /\ s[k] \in M /\ s[j] # s[k]
    BY <1>1
  <2>2. Rank(q, s[j]) # Rank(q, s[k])
    BY <2>1 DEF Ties
  <2> QED
    BY <1>1, <1>2, <2>1, <2>2
<1> HIDE DEF M
<1>4. \A j \in 1..n : s[j] \in B <=> j \in 1..i - 1
  <2> SUFFICES ASSUME NEW j \in 1..n PROVE s[j] \in B <=> j \in 1..i - 1
    OBVIOUS
  <2>1. i \in 1..n
    BY DEF M
  <2>2. s[j] \in M /\ s[i] \in M /\ Rank(q, s[j]) \in Int /\ Rank(q, s[i]) \in Int
    BY <1>1, <1>2, <2>1
  <2>3. j < i => Rank(q, s[j]) < Rank(q, s[i])
    BY <1>3, <2>1
  <2>4. i < j => Rank(q, s[i]) < Rank(q, s[j])
    BY <1>3, <2>1
  <2>5. j = i => Rank(q, s[j]) = Rank(q, s[i])
    OBVIOUS
  <2>6. j < i <=> j \in 1..i - 1
    BY <2>1, <1>1
  <2> HIDE DEF n
  <2>7. Rank(q, s[j]) < Rank(q, s[i]) <=> j < i
    <3> DEFINE u == Rank(q, s[j])
               v == Rank(q, s[i])
    <3>1. u \in Int /\ v \in Int /\ (j < i => u < v) /\ (i < j => v < u) /\ (j = i => u = v)
      BY <2>2, <2>3, <2>4, <2>5
    <3>2. j \in Int /\ i \in Int
      BY <2>1, <1>1
    <3> HIDE DEF u, v
    <3>3. u < v <=> j < i
      BY <3>1, <3>2
    <3> QED
      BY <3>3 DEF u, v
  <2> QED
    BY <2>2, <2>6, <2>7
<1> DEFINE f == [j \in 1..i - 1 |-> s[j]]
<1>5. i \in 1..n /\ 1..i - 1 \subseteq 1..n
  BY <1>1 DEF M
<1>6. B \subseteq M
  OBVIOUS
<1> HIDE DEF B, n
<1>7. f \in Bijection(1..i - 1, B)
  <2>1. f \in [1..i - 1 -> B]
    BY <1>4, <1>5
  <2>2. f \in Injection(1..i - 1, B)
    BY <1>1, <1>5, <2>1 DEF Injection, IsInjective
  <2>3. \A b \in B : \E j \in 1..i - 1 : f[j] = b
    BY <1>1, <1>4, <1>6
  <2> QED
    BY <2>1, <2>2, <2>3 DEF Bijection, Surjection
<1>8. IsFiniteSet(1..i - 1) /\ Cardinality(1..i - 1) = i - 1
  <2>1. i \in Nat /\ i - 1 \in Nat /\ 1 \in Int
    BY <1>1, <1>5
  <2> QED
    BY <2>1, FS_Interval
<1>9. Cardinality(B) = i - 1
  BY <1>7, <1>8, FS_Bijection DEF ExistsBijection
<1> QED
  BY <1>9 DEF B, M

LEMMA OnePlace ==
  ASSUME NEW q \in Params, located \in [Aerodrome -> Point], ~Ties(q),
         NEW s \in Orders(q), NEW t \in Orders(q),
         NEW i \in 1..Cardinality(Matches(q)), NEW j \in 1..Cardinality(Matches(q)),
         s[i] = t[j]
  PROVE  i = j
<1> DEFINE u == s[i]
           v == t[j]
           B(a) == {b \in Matches(q) : Rank(q, b) < Rank(q, a)}
<1>a. i - 1 = Cardinality(B(u))
  BY PlaceIsRank
<1>b. j - 1 = Cardinality(B(v))
  BY PlaceIsRank
<1>1. i - 1 = j - 1
  <2>1. u = v
    OBVIOUS
  <2> HIDE DEF B, u, v
  <2> QED
    BY <1>a, <1>b, <2>1
<1>2. i \in Int /\ j \in Int
  BY MatchesAreFinite
<1> QED
  BY <1>1, <1>2

Holds(page, a) == \E k \in DOMAIN page : page[k] = a

\* An aerodrome whose place in an order is on a page.
Placed(s, n, p, a) == \E i \in 1..n : s[i] = a /\ (p - 1) * Limit < i /\ i <= p * Limit

\* A page holds the rows from its first to the next one's first.
LEMMA PageHolds ==
  ASSUME NEW q, NEW s \in Orders(q), NEW p \in Nat \ {0}
  PROVE  /\ PageOf(s, p) \in Seq(Matches(q))
         /\ \A a : Holds(PageOf(s, p), a) <=> Placed(s, Cardinality(Matches(q)), p, a)
<1> DEFINE n == Cardinality(Matches(q))
           lo == (p - 1) * Limit
           hi == p * Limit
           end == IF hi < Len(s) THEN hi ELSE Len(s)
<1>1. s \in Seq(Matches(q)) /\ Len(s) = n /\ n \in Nat
  BY OrdersAreWhole, MatchesAreFinite
<1>2. lo \in Nat /\ hi \in Nat /\ lo <= hi
  BY LimitAssumption, Scaled
<1>3. PageOf(s, p) = SubSeq(s, lo + 1, end)
  BY DEF PageOf
<1> HIDE DEF lo, hi, n
<1>4. end \in Nat /\ end <= n /\ end <= hi
  BY <1>1, <1>2
<1>5. \A i \in lo + 1..end : s[i] \in Matches(q)
  BY <1>1, <1>2, <1>4
<1>6. /\ SubSeq(s, lo + 1, end) \in Seq(Matches(q))
      /\ Len(SubSeq(s, lo + 1, end)) = IF lo + 1 <= end THEN end - lo ELSE 0
      /\ \A k \in 1..end - lo : SubSeq(s, lo + 1, end)[k] = s[lo + k]
  <2>1. lo + 1 \in Int /\ end \in Int
    BY <1>2, <1>4
  <2> DEFINE b == lo + 1
             e == end
  <2>2. \A k \in b..e : s[k] \in Matches(q)
    BY <1>5
  <2>3. b \in Int /\ e \in Int
    BY <2>1
  <2> HIDE DEF b, e, end
  <2>4. /\ SubSeq(s, b, e) \in Seq(Matches(q))
        /\ Len(SubSeq(s, b, e)) = IF b <= e THEN e - b + 1 ELSE 0
        /\ \A k \in 1..e - b + 1 : SubSeq(s, b, e)[k] = s[b + k - 1]
    BY <2>2, <2>3, SubSeqProperties
  <2> QED
    BY <2>4, <1>2, <1>4 DEF b, e
<1> HIDE DEF end
<1>7. ASSUME NEW a, NEW k \in DOMAIN PageOf(s, p), PageOf(s, p)[k] = a
      PROVE  \E i \in 1..n : s[i] = a /\ lo < i /\ i <= hi
  <2>1. k \in 1..end - lo /\ lo + 1 <= end
    BY <1>2, <1>3, <1>4, <1>6, <1>7
  <2>2. s[lo + k] = a /\ lo + k \in 1..n /\ lo < lo + k /\ lo + k <= hi
    BY <1>1, <1>2, <1>3, <1>4, <1>6, <1>7, <2>1
  <2> QED
    BY <2>2
<1>8. ASSUME NEW a, NEW i \in 1..n, s[i] = a, lo < i, i <= hi
      PROVE  \E k \in DOMAIN PageOf(s, p) : PageOf(s, p)[k] = a
  <2>1. i <= end
    BY <1>1, <1>2, <1>8 DEF end
  <2>2. i - lo \in 1..end - lo /\ lo + (i - lo) = i /\ lo + 1 <= end
    BY <1>1, <1>2, <1>4, <1>8, <2>1
  <2>3. SubSeq(s, lo + 1, end)[i - lo] = s[i]
    BY <1>6, <2>2
  <2>4. i - lo \in DOMAIN SubSeq(s, lo + 1, end)
    BY <1>6, <2>2
  <2> QED
    BY <1>3, <1>8, <2>3, <2>4
<1> QED
  BY <1>3, <1>6, <1>7, <1>8 DEF n, lo, hi, Holds, Placed

-----------------------------------------------------------------------------
(* What is shown *)

LEMMA TheRequestIsOne ==
  ASSUME SearchTypeOK
  PROVE  SearchRequest \in Params
BY DEF SearchTypeOK, SearchRequest, Params, Sort

LEMMA PagesAreNatural == Pages \subseteq Nat \ {0}
BY FS_CardinalityType, AerodromeAssumption DEF Pages

LEMMA OrdersAreOne ==
  ASSUME NEW q \in Params, located \in [Aerodrome -> Point], ~Ties(q),
         NEW s \in Orders(q), NEW t \in Orders(q)
  PROVE  \A i \in 1..Cardinality(Matches(q)) : s[i] = t[i]
<1> SUFFICES ASSUME NEW i \in 1..Cardinality(Matches(q)) PROVE s[i] = t[i]
  OBVIOUS
<1>1. s[i] \in Matches(q)
  BY OrdersAreWhole
<1>a. \A a \in Matches(q) : \E j \in 1..Cardinality(Matches(q)) : t[j] = a
  BY OrdersAreWhole
<1>2. PICK j \in 1..Cardinality(Matches(q)) : t[j] = s[i]
  BY <1>1, <1>a
<1>3. i = j
  BY <1>2, OnePlace
<1> QED
  BY <1>2, <1>3

LEMMA RowsOfAnOrder ==
  ASSUME NEW q \in Params, located \in [Aerodrome -> Point], ~Ties(q),
         NEW s \in Orders(q), NEW t \in Orders(q), NEW p \in Nat \ {0}, NEW a
  PROVE  Holds(PageOf(s, p), a) <=> Placed(t, Cardinality(Matches(q)), p, a)
<1>1. Holds(PageOf(s, p), a) <=> Placed(s, Cardinality(Matches(q)), p, a)
  BY PageHolds
<1>2. \A i \in 1..Cardinality(Matches(q)) : s[i] = t[i]
  BY OrdersAreOne
<1> QED
  BY <1>1, <1>2 DEF Placed

\* The rows of a page that is shown, by their places in any order.
LEMMA RowsHavePlaces ==
  ASSUME SearchTypeOK, PagesAreCut, ~Ties(SearchRequest),
         NEW t \in Orders(SearchRequest), NEW p \in DOMAIN shown, NEW a
  PROVE  a \in Rows(p) <=> Placed(t, Cardinality(Matches(SearchRequest)), p, a)
<1>1. PICK s \in Orders(SearchRequest) : shown[p] = PageOf(s, p)
  BY DEF PagesAreCut
<1>2. p \in Nat \ {0} /\ SearchRequest \in Params /\ located \in [Aerodrome -> Point]
  BY TheRequestIsOne, PagesAreNatural DEF SearchTypeOK
<1>3. a \in Rows(p) <=> Holds(PageOf(s, p), a)
  BY <1>1 DEF Rows, Holds
<1>4. Holds(PageOf(s, p), a) <=> Placed(t, Cardinality(Matches(SearchRequest)), p, a)
  BY <1>2, RowsOfAnOrder
<1> QED
  BY <1>3, <1>4

LEMMA ShownIsWholeAndOnce ==
  ASSUME SearchTypeOK, PagesAreCut
  PROVE  EveryMatchIsOnOnePage
<1> SUFFICES ASSUME ~Ties(SearchRequest)
             PROVE  /\ \A p, r \in DOMAIN shown : p # r => Rows(p) \cap Rows(r) = {}
                    /\ DOMAIN shown = 1..TotalPages(SearchRequest)
                          => UNION {Rows(p) : p \in DOMAIN shown} = Matches(SearchRequest)
  BY DEF EveryMatchIsOnOnePage
<1> DEFINE q == SearchRequest
           M == Matches(q)
           n == Cardinality(M)
<1>0. q \in Params /\ n \in Nat /\ located \in [Aerodrome -> Point]
  BY TheRequestIsOne, MatchesAreFinite DEF SearchTypeOK
<1>a. DOMAIN shown \subseteq Nat \ {0}
  BY PagesAreNatural DEF SearchTypeOK
<1> HIDE DEF q
<1>b. \A i, j \in 1..n : \A t \in Orders(q) : t[i] = t[j] => i = j
  BY OrdersAreWhole
<1>1. ASSUME NEW p \in DOMAIN shown, NEW r \in DOMAIN shown, p < r, NEW a \in Rows(p), a \in Rows(r)
      PROVE  FALSE
  <2>1. PICK t \in Orders(q) : shown[p] = PageOf(t, p)
    BY DEF PagesAreCut, q
  <2>2. PICK i \in 1..n : t[i] = a /\ i <= p * Limit
    BY <1>1, <2>1, RowsHavePlaces DEF q, Placed
  <2>3. PICK j \in 1..n : t[j] = a /\ (r - 1) * Limit < j
    BY <1>1, <2>1, RowsHavePlaces DEF q, Placed
  <2>4. i = j
    BY <1>b, <2>1, <2>2, <2>3
  <2>5. p \in Nat /\ r \in Nat /\ p <= r - 1
    BY <1>a, <1>1
  <2>6. p * Limit <= (r - 1) * Limit
    BY <2>5, Scaled, LimitAssumption
  <2> DEFINE u == p * Limit
             v == (r - 1) * Limit
  <2>7. u \in Int /\ v \in Int /\ u <= v /\ v < i /\ i <= u /\ i \in Int
    BY <1>0, <2>2, <2>3, <2>4, <2>5, <2>6, LimitAssumption
  <2> HIDE DEF u, v
  <2> QED
    BY <2>7
<1>2. \A p, r \in DOMAIN shown : p # r => Rows(p) \cap Rows(r) = {}
  <2> SUFFICES ASSUME NEW p \in DOMAIN shown, NEW r \in DOMAIN shown, p # r,
                      NEW a \in Rows(p), a \in Rows(r)
               PROVE  FALSE
    OBVIOUS
  <2>1. p < r \/ r < p
    BY <1>a
  <2> QED
    BY <1>1, <2>1
<1>3. ASSUME DOMAIN shown = 1..TotalPages(q)
      PROVE  UNION {Rows(p) : p \in DOMAIN shown} = M
  <2>1. ASSUME NEW p \in DOMAIN shown, NEW a \in Rows(p) PROVE a \in M
    <3>1. PICK t \in Orders(q) : shown[p] = PageOf(t, p)
      BY DEF PagesAreCut, q
    <3>2. PICK i \in 1..n : t[i] = a
      BY <2>1, <3>1, RowsHavePlaces DEF q, Placed
    <3> QED
      BY <3>1, <3>2, OrdersAreWhole
  <2>2. ASSUME NEW a \in M PROVE \E p \in DOMAIN shown : a \in Rows(p)
    <3>1. n >= 1
      <4>1. n # 0
        BY <2>2, MatchesAreFinite, FS_EmptySet
      <4> QED
        BY <1>0, <4>1
    <3> DEFINE m == n + Limit - 1
               T == m \div Limit
    <3>2. m \in Nat /\ T \in Nat /\ m < T * Limit + Limit /\ T = TotalPages(q)
      BY <1>0, <3>1, Quotient, LimitAssumption DEF TotalPages
    <3> HIDE DEF T
    <3>3. T >= 1
      <4>1. SUFFICES ASSUME T = 0 PROVE FALSE
        BY <3>2
      <4>2. T * Limit = 0
        BY <4>1, LimitAssumption
      <4> QED
        BY <1>0, <3>1, <3>2, <4>2, LimitAssumption
    <3>4. PICK t \in Orders(q) : shown[1] = PageOf(t, 1)
      BY <1>3, <3>2, <3>3 DEF PagesAreCut, q
    <3>5. PICK i \in 1..n : t[i] = a
      BY <2>2, <3>4, OrdersAreWhole
    <3> DEFINE d == (i - 1) \div Limit
               p == d + 1
    <3>6. i - 1 \in Nat /\ i \in Nat
      BY <1>0, <3>5
    <3>7. d \in Nat /\ d * Limit <= i - 1 /\ i - 1 < d * Limit + Limit
      BY <3>6, Quotient, LimitAssumption
    <3> HIDE DEF d
    <3>8. (p - 1) * Limit = d * Limit /\ p * Limit = d * Limit + Limit
      BY <3>7, LimitAssumption
    <3>9. (p - 1) * Limit < i /\ i <= p * Limit
      <4> DEFINE u == d * Limit
      <4>1. u \in Nat /\ u <= i - 1 /\ i - 1 < u + Limit
        BY <3>7, LimitAssumption
      <4> HIDE DEF u
      <4>2. u < i /\ i <= u + Limit
        BY <4>1, <3>6, LimitAssumption
      <4> QED
        BY <3>8, <4>2 DEF u
    <3>10. p <= T
      <4>1. SUFFICES ASSUME T <= d PROVE FALSE
        BY <3>2, <3>7
      <4>2. T * Limit <= d * Limit
        BY <3>2, <3>7, <4>1, Scaled, LimitAssumption
      <4> DEFINE u == d * Limit
                 v == T * Limit
      <4>3. u \in Int /\ v \in Int /\ v <= u /\ u <= i - 1 /\ n + Limit - 1 < v + Limit /\ i <= n
        BY <1>0, <3>2, <3>5, <3>7, <4>2, LimitAssumption
      <4> HIDE DEF u, v
      <4> QED
        BY <4>3, <1>0, <3>6, LimitAssumption
    <3>11. p \in DOMAIN shown
      BY <1>3, <3>2, <3>7, <3>10
    <3> HIDE DEF p
    <3>12. a \in Rows(p)
      BY <3>4, <3>5, <3>9, <3>11, RowsHavePlaces DEF q, Placed
    <3> QED
      BY <3>11, <3>12
  <2> QED
    BY <2>1, <2>2
<1> QED
  BY <1>2, <1>3 DEF q

-----------------------------------------------------------------------------
(* The page *)

\* Requests that differ in the page or the sort have as many pages.
LEMMA PagesOfTheSame ==
  ASSUME NEW q, NEW r, q.wants = r.wants, q.near = r.near
  PROVE  Matches(q) = Matches(r) /\ TotalPages(q) = TotalPages(r)
BY DEF Matches, TotalPages

\* Aerodromes stand still and offer what they did.
LEMMA TheDirectoryStands ==
  ASSUME UNCHANGED <<located, offers>>, NEW q
  PROVE  /\ Matches(q)' = Matches(q) /\ TotalPages(q)' = TotalPages(q)
         /\ \A a : Rank(q, a)' = Rank(q, a)
BY DEF Matches, TotalPages, Rank, InBox

\* Another search is shown nothing of this one; another page of it is.
LEMMA BecomesKeepsSearch ==
  ASSUME SearchInv, NEW s \in Params, Becomes(s), UNCHANGED <<located, offers, saved>>,
         locating' \in 0..MaxLocating,
         s.page = 1 \/ s.page <= TotalPages(IF s.near = <<>> THEN s ELSE [s EXCEPT !.sort = "distance"])
  PROVE  SearchInv'
<1>0. ask \in Params /\ ask' = s
  BY DEF SearchInv, SearchTypeOK, Becomes
<1>1. shown' = <<>> \/ (shown' = shown /\ [s EXCEPT !.page = ask.page] = ask)
  BY DEF Becomes
<1>2. SearchTypeOK'
  <2>1. CASE shown' = shown
    BY <1>0, <2>1 DEF SearchInv, SearchTypeOK
  <2>2. CASE shown' = <<>>
    <3>1. DOMAIN shown' = {}
      BY <2>2
    <3> QED
      BY <1>0, <3>1 DEF SearchInv, SearchTypeOK
  <2> QED
    BY <1>1, <2>1, <2>2
<1>3. PagesAreCut'
  <2>1. CASE shown' = <<>>
    <3>1. DOMAIN shown' = {}
      BY <2>1
    <3> QED
      BY <3>1 DEF PagesAreCut
  <2>2. CASE shown' = shown /\ [s EXCEPT !.page = ask.page] = ask
    <3> DEFINE q == SearchRequest
               r == IF s.near = <<>> THEN s ELSE [s EXCEPT !.sort = "distance"]
    <3>1. SearchRequest' = r
      BY <1>0 DEF SearchRequest
    <3>2. s.wants = ask.wants /\ s.near = ask.near /\ s.sort = ask.sort
      BY <2>2 DEF Params
    <3>3. r.wants = q.wants /\ r.near = q.near /\ r.sort = q.sort
      BY <1>0, <3>2 DEF SearchRequest, Params
    <3> HIDE DEF q, r
    <3>4. Matches(r) = Matches(q) /\ \A a : Rank(r, a) = Rank(q, a)
      BY <3>3, PagesOfTheSame DEF Rank
    <3>5. Orders(r) = Orders(q)
      BY <3>4 DEF Orders
    <3>6. Orders(r)' = Orders(r)
      BY TheDirectoryStands DEF Orders
    <3>7. \A p \in DOMAIN shown : \E o \in Orders(q) : shown[p] = PageOf(o, p)
      BY DEF SearchInv, PagesAreCut, q
    <3>8. Orders(SearchRequest)' = Orders(q)
      <4>1. Orders(SearchRequest)' = Orders(r)'
        BY <3>1, TheDirectoryStands DEF Orders, Matches, Rank, InBox
      <4> QED
        BY <4>1, <3>5, <3>6
    <3> QED
      BY <2>2, <3>7, <3>8 DEF PagesAreCut, PageOf
  <2> QED
    BY <1>1, <2>1, <2>2
<1>4. SavedPagesExist'
  BY TheDirectoryStands DEF SearchInv, SavedPagesExist
<1>5. ThePageExists'
  <2> DEFINE r == IF s.near = <<>> THEN s ELSE [s EXCEPT !.sort = "distance"]
  <2>1. SearchRequest' = r
    BY <1>0 DEF SearchRequest
  <2> HIDE DEF r
  <2>2. TotalPages(SearchRequest)' = TotalPages(r)
    BY <2>1 DEF TotalPages, Matches, InBox
  <2> QED
    BY <1>0, <2>2 DEF ThePageExists, r
<1> QED
  BY <1>2, <1>3, <1>4, <1>5 DEF SearchInv

\* Steps that leave the page alone.
LEMMA ThePageStands ==
  ASSUME SearchInv, UNCHANGED <<located, offers, ask, shown>>, locating' \in 0..MaxLocating,
         saved' \subseteq Params, \A q \in saved' : q.page = 1 \/ q.page <= TotalPages(q)
  PROVE  SearchInv'
<1>1. SearchTypeOK'
  BY DEF SearchInv, SearchTypeOK
<1>2. PagesAreCut'
  <2>1. Orders(SearchRequest)' = Orders(SearchRequest)
    BY DEF Orders, Matches, Rank, InBox, SearchRequest
  <2> QED
    BY <2>1 DEF SearchInv, PagesAreCut, PageOf
<1>3. SavedPagesExist'
  BY TheDirectoryStands DEF SavedPagesExist
<1>4. ThePageExists'
  BY DEF SearchInv, ThePageExists, TotalPages, Matches, InBox, SearchRequest
<1> QED
  BY <1>1, <1>2, <1>3, <1>4 DEF SearchInv

LEMMA NothingHappens ==
  ASSUME SearchInv, UNCHANGED <<located, offers, ask, locating, shown, saved>>
  PROVE  SearchInv'
<1>1. locating' \in 0..MaxLocating /\ saved' \subseteq Params
      /\ \A q \in saved' : q.page = 1 \/ q.page <= TotalPages(q)
  BY DEF SearchInv, SearchTypeOK, SavedPagesExist
<1> QED
  BY <1>1, ThePageStands

LEMMA SearchStepKeepsSearch ==
  ASSUME SearchInv, SearchNext
  PROVE  SearchInv'
<1>0. /\ SearchTypeOK /\ ask \in Params /\ saved \subseteq Params
      /\ locating \in 0..MaxLocating
      /\ \A q \in saved : q.page = 1 \/ q.page <= TotalPages(q)
  BY DEF SearchInv, SearchTypeOK, SavedPagesExist
<1>a. 1 \in Pages
  BY FS_CardinalityType, AerodromeAssumption DEF Pages
\* Another search begins on its first page.
<1>1. ASSUME NEW s \in Params, s.page = 1, Becomes(s), UNCHANGED <<located, offers, saved>>,
             locating' \in 0..MaxLocating
      PROVE  SearchInv'
  BY <1>1, BecomesKeepsSearch DEF SearchInv
<1>2. CASE Answer
  <2>1. UNCHANGED <<located, offers, ask, locating, saved>>
    BY <1>2 DEF Answer
  <2>2. PICK s \in Orders(SearchRequest) :
           shown' = [p \in DOMAIN shown \cup {ask.page} |->
                        IF p = ask.page THEN PageOf(s, p) ELSE shown[p]]
    BY <1>2 DEF Answer
  <2>3. ask.page \in Pages /\ ask.page \in Nat \ {0}
    BY <1>0, PagesAreNatural DEF Params
  <2>4. PageOf(s, ask.page) \in Seq(Aerodrome)
    <3>1. PageOf(s, ask.page) \in Seq(Matches(SearchRequest))
      BY <2>3, PageHolds
    <3> QED
      BY <3>1, MatchesAreFinite, SeqMonotonic
  <2>5. SearchTypeOK'
    BY <1>0, <2>1, <2>2, <2>3, <2>4 DEF SearchTypeOK
  <2>6. Orders(SearchRequest)' = Orders(SearchRequest)
    BY <2>1 DEF Orders, Matches, Rank, InBox, SearchRequest
  <2>7. PagesAreCut'
    <3> SUFFICES ASSUME NEW p \in DOMAIN shown'
                 PROVE  \E o \in Orders(SearchRequest) : shown'[p] = PageOf(o, p)
      BY <2>6 DEF PagesAreCut, PageOf
    <3>1. CASE p = ask.page
      BY <2>2, <3>1
    <3>2. CASE p # ask.page
      <4>1. p \in DOMAIN shown /\ shown'[p] = shown[p]
        BY <2>2, <3>2
      <4> QED
        BY <4>1 DEF SearchInv, PagesAreCut
    <3> QED
      BY <3>1, <3>2
  <2>8. SavedPagesExist'
    BY <1>0, <2>1, TheDirectoryStands DEF SavedPagesExist
  <2>9. ThePageExists'
    BY <2>1 DEF SearchInv, ThePageExists, TotalPages, Matches, InBox, SearchRequest
  <2> QED
    BY <2>5, <2>7, <2>8, <2>9 DEF SearchInv
<1>4. CASE HandleNearby \/ NotLocated
  <2>1. locating' \in 0..MaxLocating
    BY <1>0, <1>4, LimitAssumption DEF HandleNearby, NotLocated
  <2> QED
    BY <1>0, ThePageStands, <1>4, <2>1 DEF HandleNearby, NotLocated
<1>5. CASE SaveSearch
  <2>1. SearchRequest \in Params
    BY <1>0, TheRequestIsOne
  <2>2. SearchRequest.page = ask.page
    BY <1>0 DEF SearchRequest, Params
  <2>3. SearchRequest.page = 1 \/ SearchRequest.page <= TotalPages(SearchRequest)
    BY <2>2 DEF SearchInv, ThePageExists
  <2>4. saved' = {SearchRequest} /\ UNCHANGED <<located, offers, ask, locating, shown>>
    BY <1>5 DEF SaveSearch
  <2> QED
    BY <1>0, ThePageStands, <2>1, <2>3, <2>4
<1>6. CASE LeaveNearby
  <2> DEFINE s == [ask EXCEPT !.near = <<>>]
  <2>1. /\ s \in Params /\ s.page = ask.page /\ s.near = <<>> /\ s.wants = ask.wants
        /\ Becomes(s) /\ UNCHANGED <<located, offers, locating, saved>>
    BY <1>0, <1>6 DEF LeaveNearby, Params, Here
  <2>2. SearchRequest.wants = ask.wants
    BY <1>0 DEF SearchRequest, Params
  <2> HIDE DEF s
  <2>3. Matches(SearchRequest) \subseteq Matches(s)
    BY <2>1, <2>2 DEF Matches
  <2>4. TotalPages(SearchRequest) <= TotalPages(s)
    <3> DEFINE n == Cardinality(Matches(SearchRequest))
               m == Cardinality(Matches(s))
    <3>1. n \in Nat /\ m \in Nat /\ n <= m
      BY <2>3, MatchesAreFinite, FS_Subset
    <3> HIDE DEF n, m
    <3>2. n + Limit - 1 \in Nat /\ m + Limit - 1 \in Nat /\ n + Limit - 1 <= m + Limit - 1
      BY <3>1, LimitAssumption
    <3>3. (n + Limit - 1) \div Limit <= (m + Limit - 1) \div Limit
      BY <3>2, QuotientsGrow, LimitAssumption
    <3> QED
      BY <3>3 DEF TotalPages, n, m
  <2>5. s.page = 1 \/ s.page <= TotalPages(s)
    <3>1. ask.page = 1 \/ ask.page <= TotalPages(SearchRequest)
      BY DEF SearchInv, ThePageExists
    <3>2. TotalPages(SearchRequest) \in Nat /\ TotalPages(s) \in Nat /\ ask.page \in Nat
      BY <1>0, PagesAreNumbers, PagesAreNatural DEF Params
    <3> QED
      BY <2>1, <2>4, <3>1, <3>2
  <2>6. s.page = 1 \/ s.page <= TotalPages(IF s.near = <<>> THEN s ELSE [s EXCEPT !.sort = "distance"])
    BY <2>1, <2>5
  <2> QED
    BY <1>0, <2>1, <2>6, BecomesKeepsSearch
<1>7. CASE ResetAll
  <2>1. Fresh \in Params /\ Fresh.page = 1
    BY <1>a DEF Fresh, Params, Here, Sort
  <2> QED
    BY <1>0, <1>1, <1>7, <2>1 DEF ResetAll
<1>8. ASSUME NEW p \in Pages, GoToPage(p) PROVE SearchInv'
  <2> DEFINE s == [ask EXCEPT !.page = p]
             r == IF s.near = <<>> THEN s ELSE [s EXCEPT !.sort = "distance"]
  <2>1. /\ s \in Params /\ s.page = p /\ s.near = ask.near /\ s.wants = ask.wants
        /\ Becomes(s) /\ UNCHANGED <<located, offers, locating, saved>>
        /\ p \in 1..TotalPages(SearchRequest)
    BY <1>0, <1>8 DEF GoToPage, Params
  <2>2. SearchRequest.wants = ask.wants /\ SearchRequest.near = ask.near
    BY <1>0 DEF SearchRequest, Params
  <2>3. r.wants = s.wants /\ r.near = s.near
    BY <2>1 DEF Params
  <2> HIDE DEF s, r
  <2>4. TotalPages(r) = TotalPages(SearchRequest)
    BY <2>1, <2>2, <2>3, PagesOfTheSame
  <2>5. s.page <= TotalPages(r)
    BY <2>1, <2>4, PagesAreNumbers
  <2> QED
    BY <1>0, <2>1, <2>5, BecomesKeepsSearch DEF r
<1>9. ASSUME NEW a \in Amenity, ToggleFilter(a) PROVE SearchInv'
  <2> DEFINE s == [ask EXCEPT !.wants = Toggle(a), !.page = 1]
  <2>1. s \in Params /\ s.page = 1
    BY <1>0, <1>a DEF Params, Toggle
  <2> HIDE DEF s
  <2>2. Becomes(s) /\ UNCHANGED <<located, offers, locating, saved>>
    BY <1>9 DEF ToggleFilter, s
  <2> QED
    BY <1>0, <1>1, <2>1, <2>2
<1>10. ASSUME NEW o \in Sort, SetSortBy(o) PROVE SearchInv'
  <2> DEFINE s == [ask EXCEPT !.sort = o, !.page = 1]
  <2>1. s \in Params /\ s.page = 1
    BY <1>0, <1>a DEF Params
  <2> HIDE DEF s
  <2>2. Becomes(s) /\ UNCHANGED <<located, offers, locating, saved>>
    BY <1>10 DEF SetSortBy, s
  <2> QED
    BY <1>0, <1>1, <2>1, <2>2
<1>11. ASSUME NEW p \in Point, Located(p) PROVE SearchInv'
  <2> DEFINE s == [ask EXCEPT !.near = <<p>>, !.page = 1]
  <2>1. s \in Params /\ s.page = 1
    BY <1>0, <1>a DEF Params, Here
  <2> HIDE DEF s
  <2>2. Becomes(s) /\ UNCHANGED <<located, offers, saved>> /\ locating' \in 0..MaxLocating
    BY <1>0, <1>11, LimitAssumption DEF Located, s
  <2> QED
    BY <1>1, <2>1, <2>2
<1>12. ASSUME NEW q \in saved, ApplySavedSearch(q) PROVE SearchInv'
  <2> DEFINE s == Applied(q)
  <2>1. s \in Params /\ s.page = 1
    BY <1>0, <1>a DEF Params, Applied
  <2> HIDE DEF s
  <2>2. Becomes(s) /\ UNCHANGED <<located, offers, locating, saved>>
    BY <1>12 DEF ApplySavedSearch, s
  <2> QED
    BY <1>0, <1>1, <2>1, <2>2
<1>13. ASSUME NEW q \in saved, Replay(q) PROVE SearchInv'
  <2>1. /\ ask' = q /\ shown' = <<>> /\ locating' = 0
        /\ UNCHANGED <<located, offers, saved>> /\ q \in Params
    BY <1>0, <1>13 DEF Replay
  <2>2. DOMAIN shown' = {}
    BY <2>1
  <2>3. SearchTypeOK'
    BY <1>0, <2>1, <2>2, LimitAssumption DEF SearchTypeOK
  <2>4. PagesAreCut'
    BY <2>2 DEF PagesAreCut
  <2>5. SavedPagesExist'
    BY <1>0, <2>1, TheDirectoryStands DEF SavedPagesExist
  <2>6. ThePageExists'
    <3> DEFINE r == IF q.near = <<>> THEN q ELSE [q EXCEPT !.sort = "distance"]
    <3>1. SearchRequest' = r
      BY <2>1 DEF SearchRequest
    <3>2. r.wants = q.wants /\ r.near = q.near
      BY <2>1 DEF Params
    <3> HIDE DEF r
    <3>3. TotalPages(r) = TotalPages(q)
      BY <3>2, PagesOfTheSame
    <3>4. TotalPages(SearchRequest)' = TotalPages(r)
      BY <2>1, <3>1 DEF TotalPages, Matches, InBox
    <3> QED
      BY <1>0, <2>1, <3>3, <3>4 DEF ThePageExists
  <2> QED
    BY <2>3, <2>4, <2>5, <2>6 DEF SearchInv
<1> QED
  BY <1>2, <1>4, <1>5, <1>6, <1>7, <1>8, <1>9, <1>10, <1>11, <1>12, <1>13 DEF SearchNext

LEMMA InitSearch == SearchInit => SearchInv
<1> SUFFICES ASSUME SearchInit PROVE SearchInv
  OBVIOUS
<1>1. DOMAIN shown = {} /\ saved = {} /\ ask = Fresh /\ Fresh.page = 1
  BY DEF SearchInit, Fresh
<1>2. Fresh \in Params
  BY FS_CardinalityType, AerodromeAssumption DEF Fresh, Params, Here, Sort, Pages
<1>3. SearchTypeOK
  BY <1>1, <1>2, LimitAssumption DEF SearchInit, SearchTypeOK
<1> QED
  BY <1>1, <1>3 DEF SearchInv, PagesAreCut, SavedPagesExist, ThePageExists

\* Every page shown is cut from an order the request allows, and every search
\* saved names a page it has (search.service.ts, search/page.tsx).
THEOREM SearchInvHolds == SearchSpec => []SearchInv
<1>1. SearchInv /\ [SearchNext]_searchVars => SearchInv'
  <2>1. SearchInv /\ UNCHANGED searchVars => SearchInv'
    BY NothingHappens DEF searchVars
  <2> QED
    BY <2>1, SearchStepKeepsSearch
<1> QED
  BY <1>1, InitSearch, PTL DEF SearchSpec

\* For any aerodromes, names, places and filters and any size of a page: the
\* pages of a search without ties hold every match once, and the page asked for
\* is one there is, whatever order filters, positions and saved searches come in.
THEOREM LeafingIsWhole == SearchSpec => []SearchesAreWhole
<1>1. SearchInv => SearchesAreWhole
  BY ShownIsWholeAndOnce DEF SearchInv, SearchesAreWhole
<1> QED
  BY <1>1, SearchInvHolds, PTL

=============================================================================

-------------------------- MODULE SyncQueueProofs --------------------------
(***************************************************************************)
(* The queue of synchronisation runs, for every set of sources and         *)
(* aerodromes, every number of attempts, rows, crashes and refused         *)
(* statements: a source never has two active runs, no run is stranded but  *)
(* one whose failure could not be written, a run that ended is never       *)
(* executed again, and the ids handed to a run stay with it until it has   *)
(* dealt with them.                                                        *)
(*                                                                         *)
(* And what a run brings: the sheets made of openAIP's aerodromes, for any *)
(* number of imports at once (Catalogue), and its airspaces with those of  *)
(* OpenAir files, for any files (Airspaces): what the reader of a file     *)
(* holds after each line is what the lines of the block under way say.     *)
(***************************************************************************)
EXTENDS SyncQueue, Catalogue, FiniteSetTheorems, WellFoundedInduction, TLAPS

Waiting == {"QUEUED", "RETRY_SCHEDULED"}

\* What the worker knows of the run it holds, wherever it stands.
WorkerKnowsItsRun ==
    /\ pc \in {"reading", "locking", "starting"}
         => cur \in Run /\ runs[cur].status \in Waiting
    /\ pc \in Executing
         => cur \in Run /\ (\/ runs[cur].status = "IN_PROGRESS"
                            \/ pc = "failing" /\ runs[cur].status \in Waiting)
    /\ pc \in {"down", "recovering"} => ~ready
    /\ pc = "recovering"
         => \A r \in Run : runs[r].status = "IN_PROGRESS" => r \in interrupted
    /\ pc = "recovering"
         => \A r \in interrupted : runs[r].status = "IN_PROGRESS"
    /\ call["openaip"].at # "no" => pc = "reporting"

\* Rows are created in order.
FreshRowsAreEmpty ==
    \A r \in Run : created < r => runs[r].status = "none"

QueueInv ==
    /\ TypeOK
    /\ WorkerKnowsItsRun
    /\ FreshRowsAreEmpty
    /\ OneActiveRunPerSource
    /\ NoRunIsStranded

LEMMA FirstIsFirst ==
  ASSUME NEW S, S \subseteq Nat, S # {}
  PROVE  First(S) \in S
<1> DEFINE R == {ss \in Nat \X Nat : ss[1] < ss[2]}
<1>1. IsWellFoundedOn(R, Nat)
  BY NatLessThanWellFounded DEF OpToRel
<1>2. \E x \in S : \A y \in S : <<y, x>> \notin R
  <2> HIDE DEF R
  <2> QED
    BY <1>1, WFMin, Zenon
<1>3. PICK x \in S : \A y \in S : <<y, x>> \notin R
  BY <1>2
<1>4. ASSUME NEW y \in S, y < x PROVE FALSE
  <2>1. y \in Nat /\ x \in Nat
    OBVIOUS
  <2>2. <<y, x>> \in R
    BY <2>1, <1>4
  <2> QED
    BY <2>2, <1>3
<1>5. \A y \in S : x <= y
  <2>1. x \in Nat /\ \A y \in S : y \in Nat
    OBVIOUS
  <2> QED
    BY <1>4, <2>1
<1> QED
  BY <1>5, Zenon DEF First

LEMMA RunsAreNatural == Run \subseteq Nat
BY BoundsAssumption DEF Run

LEMMA InRange == ASSUME NEW n \in Nat, NEW a \in Nat, a <= n PROVE a \in 0..n
OBVIOUS

LEMMA NoRowIsRow == NoRow \in Row
BY SourceAssumption, MaxAttemptsAssumption DEF NoRow, Row

LEMMA NoCallIsCall == NoCall \in Call
BY SourceAssumption, BoundsAssumption DEF NoCall, Call

-----------------------------------------------------------------------------
(* Types *)

LEMMA InitTypeOK == Init => TypeOK
<1> SUFFICES ASSUME Init PROVE TypeOK
  OBVIOUS
<1>1. runs \in [Run -> Row] /\ copy \in Row /\ work \in Row
  BY NoRowIsRow DEF Init
<1>2. call \in [Caller -> Call]
  BY NoCallIsCall DEF Init
<1>3. /\ created \in 0..MaxRuns /\ cur \in 0..MaxRuns
      /\ crashes \in 0..MaxCrashes /\ refusals \in 0..MaxRefusals
  BY BoundsAssumption, InRange DEF Init
<1> QED
  BY <1>1, <1>2, <1>3 DEF Init, TypeOK, Pc

\* The callers' steps.
LEMMA CallStepTypeOK ==
  ASSUME TypeOK,
         \/ \E s \in Source : (TriggerManual(s) \/ Schedule(s))
         \/ ReportChanges
         \/ \E c \in Caller : Enqueue(c)
  PROVE  TypeOK'
<1> USE DEF worker, faults
<1>1. ASSUME NEW s \in Source, TriggerManual(s) \/ Schedule(s) PROVE TypeOK'
  <2>1. call' \in [Caller -> Call]
    <3>1. [NoCall EXCEPT !.at = "find", !.source = s, !.full = (s = "REGIONS")] \in Call
      BY NoCallIsCall DEF Call
    <3> QED
      BY <1>1, <3>1 DEF TriggerManual, Schedule, TypeOK
  <2> QED
    BY <1>1, <2>1 DEF TriggerManual, Schedule, TypeOK
<1>2. ASSUME ReportChanges PROVE TypeOK'
  <2>1. [NoCall EXCEPT !.at = "find", !.source = "REGIONS", !.ids = found] \in Call
    BY NoCallIsCall, SourceAssumption DEF Call, TypeOK
  <2> QED
    BY <1>2, <2>1 DEF ReportChanges, TypeOK
<1>3. ASSUME NEW c \in Caller, NEW l \in {"saving", "failing"}, Return(c, l),
             runs' \in [Run -> Row], created' \in 0..MaxRuns
      PROVE  TypeOK'
  BY <1>3, NoCallIsCall DEF Return, Continue, TypeOK, Pc, Executing
<1>4. ASSUME NEW c \in Caller, EnqueueFind(c) PROVE TypeOK'
  <2> DEFINE A == ActiveOf(call[c].source)
  <2>1. CASE Return(c, "saving")
    BY <2>1, <1>3, <1>4 DEF EnqueueFind, TypeOK
  <2>2. CASE ~Return(c, "saving")
    <3>1. A # {} => First(A) \in Run
      BY FirstIsFirst, RunsAreNatural DEF ActiveOf
    <3>2. (IF A = {} THEN 0 ELSE First(A)) \in 0..MaxRuns
      BY <3>1, BoundsAssumption DEF Run
    <3>3. (IF A = {} THEN {} ELSE runs[First(A)].ids) \subseteq Aerodrome
      BY <3>1 DEF TypeOK, Row
    <3>4. call' = [call EXCEPT
                   ![c].at = "write",
                   ![c].existing = IF A = {} THEN 0 ELSE First(A),
                   ![c].known = IF A = {} THEN {} ELSE runs[First(A)].ids]
      BY <1>4, <2>2 DEF EnqueueFind
    <3> HIDE DEF A
    <3>5. call' \in [Caller -> Call]
      <4> DEFINE e == IF A = {} THEN 0 ELSE First(A)
                 k == IF A = {} THEN {} ELSE runs[First(A)].ids
      <4>1. e \in 0..MaxRuns /\ k \subseteq Aerodrome
        BY <3>2, <3>3
      <4>2. call' = [call EXCEPT ![c].at = "write", ![c].existing = e, ![c].known = k]
        BY <3>4
      <4> HIDE DEF e, k
      <4>3. call \in [Caller -> Call]
        BY DEF TypeOK
      <4>4. [call[c] EXCEPT !.at = "write", !.existing = e, !.known = k] \in Call
        BY <4>1, <4>3 DEF Call
      <4>5. call' = [call EXCEPT ![c] =
                       [call[c] EXCEPT !.at = "write", !.existing = e, !.known = k]]
        BY <4>2, <4>3
      <4> QED
        BY <4>3, <4>4, <4>5
    <3>6. UNCHANGED <<lock, worker, changed, faults, runs, created>>
      BY <1>4, <2>2 DEF EnqueueFind
    <3> QED
      BY <3>5, <3>6 DEF TypeOK
  <2> QED
    BY <2>1, <2>2
<1>5. ASSUME NEW c \in Caller, EnqueueMerge(c) PROVE TypeOK'
  <2>1. runs' \in [Run -> Row]
    <3>1. call[c].known \cup call[c].ids \subseteq Aerodrome
      BY DEF TypeOK, Call
    <3> QED
      BY <3>1, <1>5 DEF EnqueueMerge, TypeOK, Row
  <2> QED
    BY <2>1, <1>3, <1>5 DEF EnqueueMerge, TypeOK
<1>6. ASSUME NEW c \in Caller, EnqueueCreate(c) PROVE TypeOK'
  <2>1. NewRow(c) \in Row
    BY MaxAttemptsAssumption DEF NewRow, TypeOK, Call, Row, ActiveStatus
  <2>2. created \in Nat /\ created \in 0..MaxRuns /\ runs \in [Run -> Row]
    BY BoundsAssumption DEF TypeOK
  <2>3. created < MaxRuns => created + 1 \in 0..MaxRuns
    BY <2>2, BoundsAssumption
  <2>4. runs' \in [Run -> Row] /\ created' \in 0..MaxRuns
    BY <1>6, <2>1, <2>2, <2>3 DEF EnqueueCreate
  <2> QED
    BY <2>4, <1>3, <1>6 DEF EnqueueCreate
<1> QED
  BY <1>1, <1>2, <1>4, <1>5, <1>6 DEF Enqueue

\* The worker's other steps, and what happens to it.
LEMMA WorkerStepTypeOK ==
  ASSUME TypeOK,
         \/ Boot \/ (\E r \in Run : Recover(r)) \/ Recovered \/ Dispatch \/ Pick
         \/ ReadRun \/ TryLock \/ Start \/ ReadAgain \/ ImportOpenAip
         \/ (\E a \in Aerodrome : Geocode(a)) \/ TaskReturns \/ TaskThrows
         \/ Finish \/ Fail \/ Unlock,
         pc \in {"reading", "starting", "started", "saving", "failing"}
           => cur \in Run
  PROVE  TypeOK'
<1> USE DEF Pc, Executing, faults
<1>0. NoRow \in Row /\ 0 \in 0..MaxRuns
  BY NoRowIsRow, BoundsAssumption
<1>1. CASE Boot \/ Recovered \/ Dispatch \/ TaskReturns \/ TaskThrows
  BY <1>1 DEF Boot, Recovered, Dispatch, TaskReturns, TaskThrows, TypeOK
<1>2. ASSUME NEW r \in Run, Recover(r) PROVE TypeOK'
  <2>1. runs' \in [Run -> Row]
    BY <1>2 DEF Recover, TypeOK, Row, ActiveStatus
  <2> QED
    BY <1>2, <2>1 DEF Recover, TypeOK
<1>3. CASE Pick
  <2> DEFINE D == {r \in Run : Due(r)}
  <2>1. D # {} => First(D) \in Run
    BY FirstIsFirst, RunsAreNatural
  <2>2. cur' = cur \/ cur' \in Run
    BY <1>3, <2>1 DEF Pick
  <2>3. cur' \in 0..MaxRuns
    BY <2>2, BoundsAssumption DEF Run, TypeOK
  <2> QED
    BY <1>3, <2>3 DEF Pick, TypeOK
<1>4. CASE ReadRun \/ ReadAgain
  BY <1>4 DEF ReadRun, ReadAgain, TypeOK
<1>5. CASE TryLock \/ Unlock
  BY <1>0, <1>5 DEF TryLock, Unlock, Forget, TypeOK, Row
<1>6. CASE Start
  <2>1. runs' \in [Run -> Row]
    BY <1>6 DEF Start, TypeOK, Row, ActiveStatus
  <2> QED
    BY <1>6, <2>1 DEF Start, TypeOK
<1>7. CASE ImportOpenAip \/ \E a \in Aerodrome : Geocode(a)
  BY <1>7 DEF ImportOpenAip, Geocode, TypeOK
<1>8. CASE Finish
  <2>1. runs' \in [Run -> Row]
    BY <1>8 DEF Finish, TypeOK, Row, FinalStatus
  <2> QED
    BY <1>8, <2>1 DEF Finish, TypeOK
<1>9. CASE Fail
  <2>1. copy \in Row /\ copy.attempt \in 1..MaxAttempts
    BY DEF TypeOK, Row
  <2>2. copy.attempt < MaxAttempts => copy.attempt + 1 \in 1..MaxAttempts
    BY <2>1, MaxAttemptsAssumption
  <2>3. cur \in Run /\ runs[cur] \in Row /\ copy.ids \subseteq Aerodrome
    BY <1>9 DEF Fail, TypeOK, Row
  <2>4. [runs[cur] EXCEPT !.status = "FAILED", !.ids = copy.ids] \in Row
    BY <2>3 DEF Row, FinalStatus
  <2>5. copy.attempt < MaxAttempts
          => [runs[cur] EXCEPT !.status = "RETRY_SCHEDULED", !.due = FALSE,
                !.attempt = copy.attempt + 1, !.ids = copy.ids] \in Row
    <3> DEFINE n == copy.attempt + 1
    <3> SUFFICES ASSUME copy.attempt < MaxAttempts
                 PROVE  [runs[cur] EXCEPT !.status = "RETRY_SCHEDULED", !.due = FALSE,
                           !.attempt = n, !.ids = copy.ids] \in Row
      OBVIOUS
    <3>1. n \in 1..MaxAttempts
      BY <2>2
    <3> HIDE DEF n
    <3> QED
      BY <2>3, <3>1 DEF Row, ActiveStatus
  <2>6. runs' \in [Run -> Row]
    <3>1. \E row \in Row : runs' = [runs EXCEPT ![cur] = row]
      BY <1>9, <2>4, <2>5, Zenon DEF Fail
    <3> QED
      BY <3>1 DEF TypeOK
  <2> QED
    BY <1>9, <2>6 DEF Fail, TypeOK
<1> QED
  BY <1>1, <1>2, <1>3, <1>4, <1>5, <1>6, <1>7, <1>8, <1>9

LEMMA OutsideStepTypeOK ==
  ASSUME TypeOK,
         \/ Crash
         \/ \E s \in Source : SessionDies(s)
         \/ \E r \in Run : RetryTimeComes(r)
         \/ \E a \in Aerodrome : UpstreamChanges(a)
  PROVE  TypeOK'
<1> USE DEF worker, faults
<1>0. NoRow \in Row /\ 0 \in 0..MaxRuns
  BY NoRowIsRow, BoundsAssumption
<1>1. CASE Crash
  <2>1. crashes' \in 0..MaxCrashes
    BY <1>1, BoundsAssumption DEF Crash, TypeOK
  <2>2. call' \in [Caller -> Call]
    BY <1>1, NoCallIsCall DEF Crash, TypeOK
  <2>3. lock' \in [Source -> {"free", "worker", "dead"}]
    BY <1>1 DEF Crash, TypeOK
  <2> QED
    BY <1>0, <1>1, <2>1, <2>2, <2>3 DEF Crash, Forget, TypeOK, Pc
<1>2. ASSUME NEW s \in Source, SessionDies(s) PROVE TypeOK'
  BY <1>2 DEF SessionDies, TypeOK
<1>3. ASSUME NEW r \in Run, RetryTimeComes(r) PROVE TypeOK'
  <2>1. runs' \in [Run -> Row]
    BY <1>3 DEF RetryTimeComes, TypeOK, Row
  <2> QED
    BY <1>3, <2>1 DEF RetryTimeComes, TypeOK
<1>4. ASSUME NEW a \in Aerodrome, UpstreamChanges(a) PROVE TypeOK'
  BY <1>4 DEF UpstreamChanges, TypeOK
<1> QED
  BY <1>1, <1>2, <1>3, <1>4

\* Refused statements, and the exception that leaves.
LEMMA RefusalTypeOK ==
  ASSUME TypeOK, Refusal \/ UnlockThrowing, pc = "failing" => cur \in Run
  PROVE  TypeOK'
<1> USE DEF worker, faults, Pc, Executing, Leave
<1>0. NoRow \in Row /\ 0 \in 0..MaxRuns
  BY NoRowIsRow, BoundsAssumption
<1>1. Refused => refusals' \in 0..MaxRefusals
  BY BoundsAssumption DEF Refused, TypeOK
<1>2. CASE RefuseDispatch
  BY <1>0, <1>1, <1>2 DEF RefuseDispatch, Forget, TypeOK
<1>3. CASE RefuseExecution
  <2>1. call' \in [Caller -> Call]
    BY <1>3, NoCallIsCall DEF RefuseExecution, TypeOK
  <2> QED
    BY <1>1, <1>3, <2>1 DEF RefuseExecution, TypeOK
<1>4. CASE RefuseFail
  BY <1>1, <1>4 DEF RefuseFail, TypeOK
<1>5. CASE RefuseUnlock \/ UnlockThrowing
  BY <1>0, <1>1, <1>5 DEF RefuseUnlock, UnlockThrowing, Forget, TypeOK, Row
<1>6. ASSUME NEW c \in {"admin", "cron"}, RefuseCall(c) PROVE TypeOK'
  <2>1. call' \in [Caller -> Call]
    BY <1>6, NoCallIsCall DEF RefuseCall, TypeOK
  <2> QED
    BY <1>1, <1>6, <2>1 DEF RefuseCall, TypeOK
<1> QED
  BY <1>2, <1>3, <1>4, <1>5, <1>6 DEF Refusal

-----------------------------------------------------------------------------
(* The rows *)

\* Steps that leave every row's status alone.
LEMMA QuietStepKeepsQueue ==
  ASSUME QueueInv, TypeOK',
         \A r \in Run : /\ runs'[r].status = runs[r].status
                       /\ runs'[r].source = runs[r].source,
         created' = created, abandoned' = abandoned,
         pc' = "recovering" => interrupted' = interrupted,
         pc' \in {"down", "recovering"} => ~ready',
         \/ cur' = cur /\ \/ pc' = pc
                          \/ pc \in Executing \ {"failing"} /\ pc' \in Executing
                          \/ pc = "starting" /\ pc' = "failing"
                          \/ pc = "reading" /\ pc' = "locking"
                          \/ pc = "locking" /\ pc' = "starting"
         \/ /\ pc \in {"idle", "picking", "reading", "locking", "unlocking", "throwing"}
            /\ pc' \in {"idle", "picking"}
         \/ pc' = "down",
         call'["openaip"].at # "no" => pc' = "reporting"
  PROVE  QueueInv'
<1>0. interrupted \subseteq Run
  BY DEF QueueInv, TypeOK
<1>1. WorkerKnowsItsRun'
  BY <1>0 DEF QueueInv, WorkerKnowsItsRun, Executing, Waiting
<1>2. FreshRowsAreEmpty'
  BY DEF QueueInv, FreshRowsAreEmpty
<1>3. OneActiveRunPerSource'
  BY DEF QueueInv, OneActiveRunPerSource, Active
<1>4. NoRunIsStranded'
  BY DEF QueueInv, NoRunIsStranded, Executing
<1> QED
  BY <1>1, <1>2, <1>3, <1>4 DEF QueueInv

\* A step that changes the status of the single row r, from active.
LEMMA OneRowStepKeepsSingles ==
  ASSUME QueueInv, NEW r \in Run, Active(r), created' = created,
         \A q \in Run : /\ q # r => runs'[q].status = runs[q].status
                       /\ runs'[q].source = runs[q].source
  PROVE  OneActiveRunPerSource' /\ FreshRowsAreEmpty'
<1>1. runs[r].status # "none"
  BY DEF Active, ActiveStatus
<1>2. FreshRowsAreEmpty'
  BY <1>1 DEF QueueInv, FreshRowsAreEmpty
<1>3. \A q \in Run : Active(q)' => Active(q)
  BY DEF Active
<1>4. OneActiveRunPerSource'
  BY <1>3 DEF QueueInv, OneActiveRunPerSource
<1> QED
  BY <1>2, <1>4

-----------------------------------------------------------------------------
(* The steps of enqueueRun *)

\* What one step may do to the rows that are in the table.
FinishedStayFinished ==
    \A r \in Run : runs[r].status \in FinalStatus => runs'[r].status = runs[r].status

LEMMA CallStepKeepsQueue ==
  ASSUME QueueInv,
         \/ \E s \in Source : (TriggerManual(s) \/ Schedule(s))
         \/ ReportChanges
         \/ \E c \in Caller : Enqueue(c)
  PROVE  QueueInv' /\ FinishedStayFinished
<1>0. TypeOK /\ TypeOK'
  BY CallStepTypeOK DEF QueueInv
<1>a. /\ call["openaip"].at # "no" => pc = "reporting"
      /\ pc \in {"down", "recovering"} => ~ready
  BY DEF QueueInv, WorkerKnowsItsRun
<1>b. call \in [Caller -> Call]
  BY <1>0 DEF TypeOK
<1>1. ASSUME NEW s \in Source, TriggerManual(s) \/ Schedule(s)
      PROVE  QueueInv' /\ FinishedStayFinished
  <2>1. runs' = runs /\ UNCHANGED <<created, cur, interrupted, pc, ready, abandoned>>
    BY <1>1 DEF TriggerManual, Schedule, worker, faults
  <2>2. call'["openaip"] = call["openaip"]
    BY <1>1, <1>b DEF TriggerManual, Schedule, Caller
  <2> QED
    BY <2>1, <2>2, <1>0, <1>a, QuietStepKeepsQueue DEF FinishedStayFinished
<1>2. ASSUME ReportChanges
      PROVE  QueueInv' /\ FinishedStayFinished
  <2>1. /\ runs' = runs /\ pc = "reporting"
        /\ UNCHANGED <<created, cur, interrupted, pc, ready, abandoned>>
    BY <1>2 DEF ReportChanges, worker, faults
  <2> QED
    BY <2>1, <1>0, QuietStepKeepsQueue DEF FinishedStayFinished
<1>3. ASSUME NEW c \in Caller, call[c].at # "no", NEW l \in {"saving", "failing"},
             Return(c, l)
      PROVE  /\ UNCHANGED <<cur, interrupted, ready, abandoned>>
             /\ (call'["openaip"].at = "no" \/ (c # "openaip" /\ call'["openaip"] = call["openaip"]))
             /\ \/ pc' = pc
                \/ c = "openaip" /\ pc \in Executing \ {"failing"} /\ pc' \in Executing
             /\ pc' \in {"down", "recovering"} => ~ready'
  <2>1. /\ UNCHANGED <<cur, interrupted, ready, abandoned>>
        /\ call' = [call EXCEPT ![c] = NoCall]
    BY <1>3 DEF Return, faults
  <2>2. (call'["openaip"].at = "no" \/ (c # "openaip" /\ call'["openaip"] = call["openaip"]))
    BY <2>1, <1>b DEF NoCall, Caller
  <2>3. \/ pc' = pc
        \/ c = "openaip" /\ pc = "reporting" /\ pc' = l
    BY <1>3, <1>a DEF Return, Continue
  <2> QED
    BY <1>a, <2>1, <2>2, <2>3 DEF Executing
<1>4. ASSUME NEW c \in Caller, EnqueueFind(c)
      PROVE  QueueInv' /\ FinishedStayFinished
  <2>0. runs' = runs /\ created' = created /\ call[c].at # "no"
    BY <1>4 DEF EnqueueFind
  <2>1. CASE Return(c, "saving")
    BY <2>0, <2>1, <1>0, <1>a, <1>3, QuietStepKeepsQueue DEF FinishedStayFinished
  <2>2. CASE ~Return(c, "saving")
    <3>1. UNCHANGED <<cur, interrupted, pc, ready, abandoned>>
      BY <1>4, <2>2 DEF EnqueueFind, worker, faults
    <3>2. \E k \in {call'[c]} : call' = [call EXCEPT ![c] = k]
      BY <1>4, <2>2, <1>b DEF EnqueueFind
    <3>3. call'["openaip"].at # "no" => pc = "reporting"
      BY <3>2, <1>a, <1>b, <2>0 DEF Caller
    <3> QED
      BY <2>0, <3>1, <3>3, <1>0, <1>a, QuietStepKeepsQueue DEF FinishedStayFinished
  <2> QED
    BY <2>1, <2>2
<1>5. ASSUME NEW c \in Caller, EnqueueMerge(c)
      PROVE  QueueInv' /\ FinishedStayFinished
  <2>1. created' = created /\ call[c].at # "no" /\ Return(c, "saving")
    BY <1>5 DEF EnqueueMerge
  <2>2. \A r \in Run : /\ runs'[r].status = runs[r].status
                     /\ runs'[r].source = runs[r].source
    BY <1>5, <1>0 DEF EnqueueMerge, TypeOK, Row
  <2> QED
    BY <2>1, <2>2, <1>0, <1>a, <1>3, QuietStepKeepsQueue DEF FinishedStayFinished
<1>6. ASSUME NEW c \in Caller, EnqueueCreate(c)
      PROVE  QueueInv' /\ FinishedStayFinished
  <2>0. call[c].at # "no" /\ (Return(c, "saving") \/ Return(c, "failing"))
    BY <1>6 DEF EnqueueCreate
  <2>1. CASE UNCHANGED <<runs, created>>
    BY <2>0, <2>1, <1>0, <1>a, <1>3, QuietStepKeepsQueue DEF FinishedStayFinished
  <2>2. CASE ~UNCHANGED <<runs, created>>
    <3> DEFINE n == created + 1
               s == call[c].source
    <3>1. created \in Nat /\ n \in Run /\ created < n
      BY <1>0, <1>6, <2>2, BoundsAssumption DEF EnqueueCreate, TypeOK, Run
    <3>2. /\ created' = n
          /\ runs' = [runs EXCEPT ![n] = NewRow(c)]
          /\ ActiveOf(s) = {}
      BY <1>6, <2>2 DEF EnqueueCreate
    <3>3. runs[n].status = "none"
      BY <3>1 DEF QueueInv, FreshRowsAreEmpty
    <3>4. runs'[n].status = "QUEUED" /\ runs'[n].source = s
      BY <3>1, <3>2, <1>0 DEF NewRow, TypeOK
    <3>5. \A r \in Run : r # n => runs'[r] = runs[r]
      BY <3>1, <3>2, <1>0 DEF TypeOK
    <3>6. FreshRowsAreEmpty'
      <4> SUFFICES ASSUME NEW r \in Run, n < r PROVE runs'[r].status = "none"
        BY <3>2 DEF FreshRowsAreEmpty
      <4>1. created < r /\ r # n
        BY <3>1, RunsAreNatural
      <4> QED
        BY <4>1, <3>5 DEF QueueInv, FreshRowsAreEmpty
    <3>7. OneActiveRunPerSource'
      <4>1. \A r \in Run : r # n => (Active(r)' => Active(r) /\ runs[r].source # s)
        BY <3>2, <3>5 DEF Active, ActiveOf
      <4>2. \A q, r \in Run : Active(q) /\ Active(r) /\ runs[q].source = runs[r].source => q = r
        BY DEF QueueInv, OneActiveRunPerSource
      <4> SUFFICES ASSUME NEW q \in Run, NEW r \in Run, Active(q)', Active(r)',
                          runs'[q].source = runs'[r].source
                   PROVE  q = r
        BY DEF OneActiveRunPerSource
      <4> QED
        BY <4>1, <4>2, <3>4, <3>5
    <3>8. /\ UNCHANGED <<cur, interrupted, ready, abandoned>>
          /\ call'["openaip"].at # "no" => pc' = "reporting"
          /\ pc' = pc \/ (pc \in Executing \ {"failing"} /\ pc' \in Executing)
      BY <2>0, <1>3, <1>a
    <3>9. WorkerKnowsItsRun'
      <4>1. interrupted \subseteq Run
        BY <1>0 DEF TypeOK
      <4> QED
        BY <4>1, <3>3, <3>4, <3>5, <3>8 DEF QueueInv, WorkerKnowsItsRun, Waiting, Executing
    <3>10. NoRunIsStranded'
      BY <3>4, <3>5, <3>8 DEF QueueInv, NoRunIsStranded, Executing
    <3>11. FinishedStayFinished
      BY <3>3, <3>5 DEF FinishedStayFinished, FinalStatus
    <3> QED
      BY <1>0, <3>6, <3>7, <3>9, <3>10, <3>11 DEF QueueInv
  <2> QED
    BY <2>1, <2>2
<1> QED
  BY <1>1, <1>2, <1>4, <1>5, <1>6 DEF Enqueue

-----------------------------------------------------------------------------
(* The steps of the worker *)

\* The steps that leave the rows, or at least their status, alone.
LEMMA QuietWorkerStepKeepsQueue ==
  ASSUME QueueInv,
         \/ Dispatch \/ ReadRun \/ TryLock \/ ReadAgain \/ ImportOpenAip
         \/ (\E a \in Aerodrome : Geocode(a)) \/ TaskReturns \/ TaskThrows \/ Unlock
  PROVE  QueueInv' /\ FinishedStayFinished
<1>1. runs' = runs /\ UNCHANGED <<created, interrupted, ready, call, abandoned>>
  BY DEF Dispatch, ReadRun, TryLock, ReadAgain, ImportOpenAip, Geocode, TaskReturns,
         TaskThrows, Unlock, faults
<1>2. /\ pc # "reporting" /\ pc' \notin {"down", "recovering"}
      /\ \/ cur' = cur /\ \/ pc' = pc
                          \/ pc \in Executing \ {"failing"} /\ pc' \in Executing
                          \/ pc = "reading" /\ pc' = "locking"
                          \/ pc = "locking" /\ pc' = "starting"
         \/ pc \in {"idle", "locking", "unlocking"} /\ pc' = "picking"
  <2>1. CASE Dispatch \/ ReadRun \/ TryLock \/ Unlock
    BY <2>1 DEF Dispatch, ReadRun, TryLock, Unlock, Executing
  <2>2. CASE ReadAgain \/ ImportOpenAip
    BY <2>2 DEF ReadAgain, ImportOpenAip, Executing
  <2>3. CASE (\E a \in Aerodrome : Geocode(a)) \/ TaskReturns \/ TaskThrows
    BY <2>3 DEF Geocode, TaskReturns, TaskThrows, Executing
  <2> QED
    BY <2>1, <2>2, <2>3
<1>3. call["openaip"].at = "no"
  BY <1>2 DEF QueueInv, WorkerKnowsItsRun
<1>4. pc \in {"reading", "starting", "started", "saving", "failing"} => cur \in Run
  BY DEF QueueInv, WorkerKnowsItsRun, Executing
<1>5. TypeOK'
  BY <1>4, WorkerStepTypeOK DEF QueueInv
<1> QED
  BY <1>1, <1>2, <1>3, <1>5, QuietStepKeepsQueue DEF FinishedStayFinished

LEMMA WorkerStepKeepsQueue ==
  ASSUME QueueInv,
         \/ Boot \/ (\E r \in Run : Recover(r)) \/ Recovered \/ Pick
         \/ Start \/ Finish \/ Fail
  PROVE  QueueInv' /\ FinishedStayFinished
<1>0. TypeOK /\ TypeOK' /\ runs \in [Run -> Row] /\ interrupted \subseteq Run
  <2>1. pc \in {"reading", "starting", "started", "saving", "failing"} => cur \in Run
    BY DEF QueueInv, WorkerKnowsItsRun, Executing
  <2> QED
    BY <2>1, WorkerStepTypeOK DEF QueueInv, TypeOK
<1>c. pc # "reporting" => call["openaip"].at = "no"
  BY DEF QueueInv, WorkerKnowsItsRun
<1>1. CASE Boot \/ Recovered \/ Pick
  <2>1. /\ UNCHANGED <<runs, created, call>>
        /\ pc # "reporting"
        /\ pc' \in {"recovering", "picking", "reading", "idle"}
        /\ pc' = "recovering" => ~ready'
        /\ pc # "down" => abandoned' = abandoned
    BY <1>1 DEF Boot, Recovered, Pick, faults, QueueInv, WorkerKnowsItsRun
  <2>2. FreshRowsAreEmpty' /\ OneActiveRunPerSource'
    BY <2>1 DEF QueueInv, FreshRowsAreEmpty, OneActiveRunPerSource, Active
  <2>3. CASE Boot
    <3>1. WorkerKnowsItsRun' /\ NoRunIsStranded'
      BY <2>1, <2>3, <1>c DEF Boot, WorkerKnowsItsRun, NoRunIsStranded, Executing
    <3> QED
      BY <2>1, <2>2, <3>1, <1>0 DEF QueueInv, FinishedStayFinished
  <2>4. CASE Recovered
    <3>1. \A r \in Run : runs[r].status = "IN_PROGRESS" => r \in abandoned
      BY <2>4 DEF Recovered, QueueInv, NoRunIsStranded, Executing
    <3>2. WorkerKnowsItsRun' /\ NoRunIsStranded'
      BY <2>1, <2>4, <3>1, <1>c DEF Recovered, faults, WorkerKnowsItsRun, NoRunIsStranded, Executing
    <3> QED
      BY <2>1, <2>2, <3>2, <1>0 DEF QueueInv, FinishedStayFinished
  <2>5. CASE Pick
    <3> DEFINE D == {r \in Run : Due(r)}
    <3>1. \A r \in Run : runs[r].status = "IN_PROGRESS" => r \in abandoned
      BY <2>5 DEF Pick, QueueInv, NoRunIsStranded, Executing
    <3>2. D # {} => First(D) \in D
      BY FirstIsFirst, RunsAreNatural
    <3>3. pc' = "idle" \/ (pc' = "reading" /\ cur' \in D)
      BY <2>5, <3>2 DEF Pick
    <3>4. pc' = "idle" \/ (pc' = "reading" /\ cur' \in Run /\ runs[cur'].status \in Waiting)
      BY <3>3 DEF Due, Waiting
    <3>5. WorkerKnowsItsRun' /\ NoRunIsStranded'
      BY <2>1, <2>5, <3>1, <3>4, <1>c DEF Pick, faults, WorkerKnowsItsRun, NoRunIsStranded, Executing
    <3> QED
      BY <2>1, <2>2, <3>5, <1>0 DEF QueueInv, FinishedStayFinished
  <2> QED
    BY <1>1, <2>3, <2>4, <2>5
<1>2. ASSUME NEW r \in Run, Recover(r)
      PROVE  QueueInv' /\ FinishedStayFinished
  <2>1. /\ pc = "recovering" /\ r \in interrupted
        /\ interrupted' = interrupted \ {r}
        /\ UNCHANGED <<created, pc, ready, cur, call, abandoned>>
    BY <1>2 DEF Recover, faults
  <2>2. /\ runs'[r].status = "RETRY_SCHEDULED"
        /\ \A q \in Run : /\ q # r => runs'[q].status = runs[q].status
                        /\ runs'[q].source = runs[q].source
    BY <1>0, <1>2 DEF Recover, Row
  <2>3. runs[r].status = "IN_PROGRESS" /\ Active(r)
    BY <2>1 DEF QueueInv, WorkerKnowsItsRun, Active, ActiveStatus
  <2>4. OneActiveRunPerSource' /\ FreshRowsAreEmpty'
    BY <2>1, <2>2, <2>3, OneRowStepKeepsSingles
  <2>5. WorkerKnowsItsRun' /\ NoRunIsStranded'
    BY <2>1, <2>2, <1>c, <1>0 DEF QueueInv, WorkerKnowsItsRun, NoRunIsStranded, Executing
  <2>6. FinishedStayFinished
    BY <2>2, <2>3 DEF FinishedStayFinished, FinalStatus
  <2> QED
    BY <2>4, <2>5, <2>6, <1>0 DEF QueueInv
<1>3. CASE Start
  <2>1. /\ pc = "starting" /\ pc' = "started"
        /\ UNCHANGED <<created, cur, interrupted, call, abandoned>>
    BY <1>3 DEF Start, faults
  <2>2. cur \in Run /\ runs[cur].status \in Waiting
    BY <2>1 DEF QueueInv, WorkerKnowsItsRun
  <2>3. /\ runs'[cur].status = "IN_PROGRESS"
        /\ \A q \in Run : /\ q # cur => runs'[q].status = runs[q].status
                        /\ runs'[q].source = runs[q].source
    BY <1>0, <1>3, <2>2 DEF Start, Row
  <2>4. OneActiveRunPerSource' /\ FreshRowsAreEmpty'
    BY <2>1, <2>2, <2>3, OneRowStepKeepsSingles DEF Active, ActiveStatus, Waiting
  <2>5. \A q \in Run : runs[q].status = "IN_PROGRESS" => q \in abandoned
    BY <2>1 DEF QueueInv, NoRunIsStranded, Executing
  <2>6. WorkerKnowsItsRun'
    BY <2>1, <2>2, <2>3, <1>c DEF WorkerKnowsItsRun, Executing
  <2>7. NoRunIsStranded'
    BY <2>1, <2>3, <2>5 DEF NoRunIsStranded, Executing
  <2>8. FinishedStayFinished
    BY <2>2, <2>3 DEF FinishedStayFinished, FinalStatus, Waiting
  <2> QED
    BY <2>4, <2>6, <2>7, <2>8, <1>0 DEF QueueInv
<1>4. CASE Finish \/ Fail
  <2>1. /\ pc \in {"saving", "failing"} /\ pc' = "unlocking"
        /\ UNCHANGED <<created, cur, interrupted, call, abandoned>>
    BY <1>4 DEF Finish, Fail, faults
  <2>2. cur \in Run /\ runs[cur].status \in Waiting \cup {"IN_PROGRESS"}
    BY <2>1 DEF QueueInv, WorkerKnowsItsRun, Executing
  <2>3. /\ runs'[cur].status \in {"SUCCESS", "RETRY_SCHEDULED", "FAILED"}
        /\ \A q \in Run : /\ q # cur => runs'[q].status = runs[q].status
                        /\ runs'[q].source = runs[q].source
    <3>1. CASE Finish
      BY <1>0, <2>2, <3>1 DEF Finish, Row
    <3>2. CASE Fail
      <4>1. runs[cur] \in Row
        BY <1>0, <2>2
      <4> DEFINE again == [runs[cur] EXCEPT !.status = "RETRY_SCHEDULED", !.due = FALSE,
                              !.attempt = copy.attempt + 1, !.ids = copy.ids]
                 over == [runs[cur] EXCEPT !.status = "FAILED", !.ids = copy.ids]
      <4>2. \/ runs' = [runs EXCEPT ![cur] = again]
            \/ runs' = [runs EXCEPT ![cur] = over]
        BY <3>2, Zenon DEF Fail
      <4>3. /\ again.status = "RETRY_SCHEDULED" /\ again.source = runs[cur].source
            /\ over.status = "FAILED" /\ over.source = runs[cur].source
        <5>1. \A n, i : LET row == [runs[cur] EXCEPT !.status = "RETRY_SCHEDULED",
                                   !.due = FALSE, !.attempt = n, !.ids = i]
                       IN  row.status = "RETRY_SCHEDULED" /\ row.source = runs[cur].source
          BY <4>1 DEF Row
        <5>2. again.status = "RETRY_SCHEDULED" /\ again.source = runs[cur].source
          <6> DEFINE n == copy.attempt + 1
                     i == copy.ids
          <6> HIDE DEF n, i
          <6>1. LET row == [runs[cur] EXCEPT !.status = "RETRY_SCHEDULED",
                                   !.due = FALSE, !.attempt = n, !.ids = i]
                IN  row.status = "RETRY_SCHEDULED" /\ row.source = runs[cur].source
            BY <5>1
          <6> QED
            BY <6>1, Zenon DEF n, i
        <5>3. over.status = "FAILED" /\ over.source = runs[cur].source
          BY <4>1 DEF Row
        <5> QED
          BY <5>2, <5>3
      <4> HIDE DEF again, over
      <4> QED
        BY <1>0, <2>2, <4>2, <4>3
    <3> QED
      BY <1>4, <3>1, <3>2
  <2>4. OneActiveRunPerSource' /\ FreshRowsAreEmpty'
    BY <2>1, <2>2, <2>3, OneRowStepKeepsSingles DEF Active, ActiveStatus, Waiting
  <2>5. \A q \in Run : runs[q].status = "IN_PROGRESS" => q = cur \/ q \in abandoned
    BY <2>1 DEF QueueInv, NoRunIsStranded, Executing
  <2>6. WorkerKnowsItsRun'
    BY <2>1, <2>2, <2>3, <1>c DEF WorkerKnowsItsRun, Executing
  <2>7. NoRunIsStranded'
    BY <2>1, <2>3, <2>5 DEF NoRunIsStranded, Executing
  <2>8. FinishedStayFinished
    BY <2>2, <2>3 DEF FinishedStayFinished, FinalStatus, Waiting
  <2> QED
    BY <2>4, <2>6, <2>7, <2>8, <1>0 DEF QueueInv
<1> QED
  BY <1>1, <1>2, <1>3, <1>4

\* A refused statement changes no row; the one of handleRunFailure leaves the run
\* behind, and is remembered.
LEMMA RefusalKeepsQueue ==
  ASSUME QueueInv, Refusal \/ UnlockThrowing
  PROVE  QueueInv' /\ FinishedStayFinished
<1> USE DEF faults, worker, Leave
<1>0. /\ TypeOK /\ TypeOK' /\ call \in [Caller -> Call]
      /\ pc \in {"down", "recovering"} => ~ready
      /\ call["openaip"].at # "no" => pc = "reporting"
  <2>1. pc = "failing" => cur \in Run
    BY DEF QueueInv, WorkerKnowsItsRun, Executing
  <2> QED
    BY <2>1, RefusalTypeOK DEF QueueInv, TypeOK, WorkerKnowsItsRun
<1>1. runs' = runs /\ created' = created /\ ready' = ready
  BY DEF Refusal, RefuseDispatch, RefuseExecution, RefuseCall, RefuseFail, RefuseUnlock,
     UnlockThrowing
<1>2. FinishedStayFinished
  BY <1>1 DEF FinishedStayFinished
<1>3. CASE RefuseDispatch \/ RefuseUnlock \/ UnlockThrowing
  <2>1. /\ pc \in {"recovering", "picking", "reading", "locking", "unlocking", "throwing"}
        /\ pc' = IF ready THEN "idle" ELSE "down"
        /\ call' = call /\ abandoned' = abandoned
    BY <1>3 DEF RefuseDispatch, RefuseUnlock, UnlockThrowing
  <2> QED
    BY <1>0, <1>1, <1>2, <2>1, QuietStepKeepsQueue
<1>4. CASE RefuseExecution
  <2>1. /\ pc \in {"starting", "started", "reporting", "saving"} /\ pc' = "failing"
        /\ cur' = cur /\ abandoned' = abandoned
        /\ call'["openaip"].at = "no"
    BY <1>0, <1>4 DEF RefuseExecution, NoCall, Caller
  <2> QED
    BY <1>0, <1>1, <1>2, <2>1, QuietStepKeepsQueue DEF Executing
<1>5. ASSUME NEW c \in {"admin", "cron"}, RefuseCall(c) PROVE QueueInv'
  <2>1. /\ pc' = pc /\ cur' = cur /\ abandoned' = abandoned /\ interrupted' = interrupted
        /\ call'["openaip"] = call["openaip"]
    BY <1>0, <1>5 DEF RefuseCall, Caller
  <2> QED
    BY <1>0, <1>1, <2>1, QuietStepKeepsQueue
<1>6. CASE RefuseFail
  <2>1. /\ pc = "failing" /\ pc' = "throwing" /\ cur' = cur
        /\ call' = call
        /\ abandoned' = abandoned \cup {r \in {cur} : runs[r].status = "IN_PROGRESS"}
    BY <1>6 DEF RefuseFail
  <2>2. FreshRowsAreEmpty' /\ OneActiveRunPerSource'
    BY <1>1 DEF QueueInv, FreshRowsAreEmpty, OneActiveRunPerSource, Active
  <2>3. WorkerKnowsItsRun'
    BY <1>0, <2>1 DEF WorkerKnowsItsRun, Executing
  <2>4. NoRunIsStranded'
    BY <1>1, <2>1 DEF QueueInv, NoRunIsStranded, Executing
  <2> QED
    BY <1>0, <1>2, <2>2, <2>3, <2>4 DEF QueueInv
<1> QED
  BY <1>2, <1>3, <1>4, <1>5, <1>6 DEF Refusal

LEMMA OutsideStepKeepsQueue ==
  ASSUME QueueInv,
         \/ Crash
         \/ \E s \in Source : SessionDies(s)
         \/ \E r \in Run : RetryTimeComes(r)
         \/ \E a \in Aerodrome : UpstreamChanges(a)
  PROVE  QueueInv' /\ FinishedStayFinished
<1>0. TypeOK /\ TypeOK' /\ runs \in [Run -> Row] /\ call \in [Caller -> Call]
  BY OutsideStepTypeOK DEF QueueInv, TypeOK
<1>1. CASE Crash
  <2>1. /\ UNCHANGED <<runs, created>>
        /\ pc' = "down" /\ ~ready'
        /\ call'["openaip"].at = "no"
    BY <1>0, <1>1 DEF Crash, Caller, NoCall
  <2>2. FreshRowsAreEmpty' /\ OneActiveRunPerSource'
    BY <2>1 DEF QueueInv, FreshRowsAreEmpty, OneActiveRunPerSource, Active
  <2>3. WorkerKnowsItsRun' /\ NoRunIsStranded'
    BY <2>1 DEF WorkerKnowsItsRun, NoRunIsStranded, Executing
  <2> QED
    BY <2>1, <2>2, <2>3, <1>0 DEF QueueInv, FinishedStayFinished
<1>2. CASE ~Crash
  <2>1. /\ \A r \in Run : /\ runs'[r].status = runs[r].status
                        /\ runs'[r].source = runs[r].source
        /\ UNCHANGED <<created, cur, interrupted, pc, ready, call, abandoned>>
    BY <1>0, <1>2 DEF SessionDies, RetryTimeComes, UpstreamChanges, worker, faults, Row
  <2>2. /\ call["openaip"].at # "no" => pc = "reporting"
        /\ pc \in {"down", "recovering"} => ~ready
    BY DEF QueueInv, WorkerKnowsItsRun
  <2> QED
    BY <2>1, <2>2, <1>0, QuietStepKeepsQueue DEF FinishedStayFinished
<1> QED
  BY <1>1, <1>2

-----------------------------------------------------------------------------

LEMMA InitHolds == Init => QueueInv
<1> SUFFICES ASSUME Init PROVE QueueInv
  OBVIOUS
<1>1. TypeOK
  BY InitTypeOK
<1>2. /\ \A r \in Run : runs[r].status = "none"
      /\ pc = "down" /\ ~ready
      /\ call["openaip"].at = "no"
  BY DEF Init, NoRow, NoCall, Caller
<1> QED
  BY <1>1, <1>2 DEF QueueInv, WorkerKnowsItsRun, FreshRowsAreEmpty, Executing,
     OneActiveRunPerSource, NoRunIsStranded, Active, ActiveStatus

LEMMA StepKeepsQueue ==
  ASSUME QueueInv, [Next]_vars
  PROVE  QueueInv' /\ FinishedStayFinished
<1>1. CASE Next
  BY <1>1, CallStepKeepsQueue, QuietWorkerStepKeepsQueue, WorkerStepKeepsQueue,
     RefusalKeepsQueue, OutsideStepKeepsQueue
     DEF Next, WorkerStep, Execute, Task, Caller
<1>2. CASE UNCHANGED vars
  BY <1>2 DEF vars, worker, faults, QueueInv, TypeOK, WorkerKnowsItsRun, FreshRowsAreEmpty,
     OneActiveRunPerSource, NoRunIsStranded, Active, ActiveOf, FinishedStayFinished
<1> QED
  BY <1>1, <1>2

\* The invariant that carries the results below, of executeRun, enqueueRun and
\* recoverInterruptedRuns together.
THEOREM QueueInvHolds == Spec => []QueueInv
<1>1. QueueInv /\ [Next]_vars => QueueInv'
  BY StepKeepsQueue
<1> QED
  BY <1>1, InitHolds, PTL DEF Spec

\* Every value has its type, for every value of the constants.
THEOREM TypesHold == Spec => []TypeOK
<1>1. QueueInv => TypeOK
  BY DEF QueueInv
<1> QED
  BY <1>1, QueueInvHolds, PTL

\* The unique index, and the statuses a run goes through, keep enqueueRun from
\* queueing a source twice.
THEOREM OneActiveRun == Spec => []OneActiveRunPerSource
<1>1. QueueInv => OneActiveRunPerSource
  BY DEF QueueInv
<1> QED
  BY <1>1, QueueInvHolds, PTL

\* No run stays in the one status nobody picks up, but for those whose failure the
\* database refused to write, until the recovery at boot finds them.
THEOREM NoRunIsEverStranded == Spec => []NoRunIsStranded
<1>1. QueueInv => NoRunIsStranded
  BY DEF QueueInv
<1> QED
  BY <1>1, QueueInvHolds, PTL

\* enqueueRun, executeRun and the recovery at boot keep the queue in order.
THEOREM RunsStayAccountedFor == Spec => []RunsAreAccountedFor
<1>1. OneActiveRunPerSource /\ NoRunIsStranded => RunsAreAccountedFor
  BY DEF RunsAreAccountedFor
<1> QED
  BY OneActiveRun, NoRunIsEverStranded, <1>1, PTL

\* No step of any actor takes a run out of a final status.
THEOREM FinishedRunsStay == Spec => FinishedRunsStayFinished
<1>1. QueueInv /\ [Next]_vars
        => [\A r \in Run : runs[r].status \in FinalStatus
                             => runs'[r].status = runs[r].status]_vars
  BY StepKeepsQueue DEF FinishedStayFinished
<1> QED
  BY <1>1, QueueInvHolds, PTL DEF Spec, FinishedRunsStayFinished

-----------------------------------------------------------------------------
(* The ids of a REGIONS run *)

\* Only the openAIP import brings ids, and what it merges them with is what the
\* row it found still holds.
MergesKnowTheRow ==
    /\ \A c \in {"admin", "cron"} : call[c].ids = {} /\ call[c].existing = 0
    /\ call["openaip"].at # "no" => call["openaip"].source = "REGIONS"
    /\ LET k == call["openaip"]
       IN k.at = "write" /\ k.existing # 0 =>
             /\ k.existing \in Run
             /\ runs[k.existing].status # "none"
             /\ runs[k.existing].source = "REGIONS"
             /\ runs[k.existing].ids \subseteq k.known

\* The worker's copies of the row it executes hold its ids, and a REGIONS run is
\* about to succeed only when each was dealt with.
WorkerKnowsTheIds ==
    /\ pc \in {"locking", "starting"} \cup Executing => runs[cur].ids \subseteq copy.ids
    /\ pc = "working" => work.source = runs[cur].source /\ runs[cur].ids \subseteq work.ids
    /\ pc = "reporting" => runs[cur].source = "OPENAIP"
    /\ pc = "saving" /\ runs[cur].source = "REGIONS" => runs[cur].ids \subseteq geocoded

DeltaInv == QueueInv /\ MergesKnowTheRow /\ WorkerKnowsTheIds

\* What one step may do to the ids of an active run.
IdsStay ==
    \A r \in Run : Active(r) =>
        \/ runs[r].ids \subseteq runs'[r].ids
        \/ /\ runs'[r].status = "SUCCESS"
           /\ runs[r].source = "REGIONS" => runs[r].ids \subseteq geocoded

\* A step keeps the rows there are: what they are about, and their ids.
RowsKept ==
    \A r \in Run : runs[r].status # "none" =>
        /\ runs'[r].status # "none"
        /\ runs'[r].source = runs[r].source
        /\ runs'[r].ids = runs[r].ids

LEMMA KeptRowsKeepIds == ASSUME RowsKept PROVE IdsStay
BY DEF RowsKept, IdsStay, Active, ActiveStatus

LEMMA KeptRowsKeepMerges ==
  ASSUME DeltaInv, RowsKept, call' = call
  PROVE  MergesKnowTheRow'
BY DEF DeltaInv, MergesKnowTheRow, RowsKept

\* The row the worker holds is in the table.
LEMMA TheRunIsARow ==
  ASSUME QueueInv, pc \in {"reading", "locking", "starting"} \cup Executing
  PROVE  cur \in Run /\ runs[cur].status # "none"
BY DEF QueueInv, WorkerKnowsItsRun, Waiting, Executing

-----------------------------------------------------------------------------
LEMMA CallsKeepDelta ==
  ASSUME DeltaInv,
         \/ \E s \in Source : (TriggerManual(s) \/ Schedule(s))
         \/ ReportChanges
         \/ \E c \in Caller : EnqueueFind(c)
  PROVE  MergesKnowTheRow' /\ WorkerKnowsTheIds' /\ IdsStay
<1>0. /\ TypeOK /\ call \in [Caller -> Call] /\ runs \in [Run -> Row]
      /\ QueueInv /\ MergesKnowTheRow /\ WorkerKnowsTheIds
      /\ call["openaip"].at # "no" => pc = "reporting"
  BY DEF DeltaInv, QueueInv, TypeOK, WorkerKnowsItsRun
<1>1. runs' = runs
  BY DEF TriggerManual, Schedule, ReportChanges, EnqueueFind
<1>2. IdsStay
  BY <1>1 DEF IdsStay
<1>3. ASSUME UNCHANGED worker PROVE WorkerKnowsTheIds'
  BY <1>0, <1>1, <1>3 DEF worker, WorkerKnowsTheIds
<1>4. ASSUME NEW s \in Source, TriggerManual(s) \/ Schedule(s) PROVE MergesKnowTheRow'
  <2>1. PICK c \in {"admin", "cron"} :
           call' = [call EXCEPT ![c] = [NoCall EXCEPT !.at = "find", !.source = s,
                                                      !.full = (s = "REGIONS")]]
    BY <1>4 DEF TriggerManual, Schedule
  <2>2. call'[c].ids = {} /\ call'[c].existing = 0
    BY <1>0, <2>1 DEF NoCall, Caller
  <2>3. \A d \in Caller : d # c => call'[d] = call[d]
    BY <1>0, <2>1
  <2> QED
    BY <1>0, <1>1, <2>2, <2>3 DEF MergesKnowTheRow, Caller
<1>5. CASE ReportChanges
  <2>1. /\ call'["openaip"].at = "find" /\ call'["openaip"].source = "REGIONS"
        /\ \A c \in {"admin", "cron"} : call'[c] = call[c]
    BY <1>0, <1>5 DEF ReportChanges, NoCall, Caller
  <2>2. MergesKnowTheRow'
    BY <1>0, <1>1, <2>1 DEF MergesKnowTheRow
  <2> QED
    BY <1>2, <1>3, <1>5, <2>2 DEF ReportChanges
<1>6. ASSUME NEW c \in Caller, EnqueueFind(c) PROVE MergesKnowTheRow' /\ WorkerKnowsTheIds'
  <2> DEFINE A == ActiveOf(call[c].source)
             merge == call[c].source = "REGIONS" /\ call[c].ids # {}
  <2>1. CASE Return(c, "saving")
    <3>1. /\ call'[c] = NoCall /\ \A d \in Caller : d # c => call'[d] = call[d]
          /\ UNCHANGED <<cur, copy, work, geocoded>>
          /\ \/ c # "openaip" /\ pc' = pc
             \/ c = "openaip" /\ pc' = "saving"
      BY <1>0, <2>1 DEF Return, Continue
    <3>2. MergesKnowTheRow'
      BY <1>0, <1>1, <3>1 DEF MergesKnowTheRow, NoCall, Caller
    <3>3. c = "openaip" => pc = "reporting"
      BY <1>0, <1>6 DEF EnqueueFind
    <3>4. WorkerKnowsTheIds'
      BY <1>0, <1>1, <3>1, <3>3 DEF WorkerKnowsTheIds, Executing
    <3> QED
      BY <3>2, <3>4
  <2>2. CASE ~Return(c, "saving")
    <3>1. /\ A = {} \/ merge
          /\ call' = [call EXCEPT
                   ![c].at = "write",
                   ![c].existing = IF A = {} THEN 0 ELSE First(A),
                   ![c].known = IF A = {} THEN {} ELSE runs[First(A)].ids]
          /\ UNCHANGED worker
          /\ call[c].at = "find"
      BY <1>6, <2>2 DEF EnqueueFind
    <3>2. A # {} => First(A) \in A
      BY FirstIsFirst, RunsAreNatural DEF ActiveOf
    <3> DEFINE e == IF A = {} THEN 0 ELSE First(A)
               n == IF A = {} THEN {} ELSE runs[First(A)].ids
    <3>3. call' = [call EXCEPT ![c].at = "write", ![c].existing = e, ![c].known = n]
      BY <3>1
    <3>4. e # 0 => e \in A /\ n = runs[e].ids /\ A # {}
      BY <3>2
    <3>5. A = {} => e = 0
      OBVIOUS
    <3>6. e # 0 => /\ e \in Run /\ runs[e].status # "none"
                   /\ runs[e].source = call[c].source
      BY <3>4 DEF ActiveOf, Active, ActiveStatus
    <3>7. e # 0 => c = "openaip"
      BY <1>0, <3>1, <3>4 DEF MergesKnowTheRow, Caller
    <3> HIDE DEF e, n, A, merge
    <3>8. /\ call'[c].existing = e /\ call'[c].known = n
          /\ call'[c].ids = call[c].ids /\ call'[c].source = call[c].source
          /\ \A d \in Caller : d # c => call'[d] = call[d]
      <4>1. call[c] \in Call
        BY <1>0
      <4> QED
        BY <1>0, <3>3, <4>1 DEF Call
    <3>9. MergesKnowTheRow'
      <4>1. CASE c = "openaip"
        <5>1. call[c].source = "REGIONS"
          BY <1>0, <3>1, <4>1 DEF MergesKnowTheRow
        <5> QED
          BY <1>0, <1>1, <3>4, <3>6, <3>8, <4>1, <5>1 DEF MergesKnowTheRow, Caller
      <4>2. CASE c # "openaip"
        <5>1. e = 0
          BY <3>7, <4>2
        <5> QED
          BY <1>0, <1>1, <3>8, <4>2, <5>1 DEF MergesKnowTheRow, Caller
      <4> QED
        BY <4>1, <4>2
    <3> QED
      BY <1>3, <3>1, <3>9
  <2> QED
    BY <2>1, <2>2
<1> QED
  BY <1>2, <1>3, <1>4, <1>5, <1>6 DEF TriggerManual, Schedule

LEMMA WritesKeepDelta ==
  ASSUME DeltaInv, NEW c \in Caller, EnqueueMerge(c) \/ EnqueueCreate(c)
  PROVE  MergesKnowTheRow' /\ WorkerKnowsTheIds' /\ IdsStay
<1>0. /\ TypeOK /\ call \in [Caller -> Call] /\ runs \in [Run -> Row]
      /\ QueueInv /\ MergesKnowTheRow /\ WorkerKnowsTheIds
      /\ call["openaip"].at # "no" => pc = "reporting"
      /\ call[c].at = "write"
  BY DEF DeltaInv, QueueInv, TypeOK, WorkerKnowsItsRun, EnqueueMerge, EnqueueCreate
<1>1. PICK l \in {"saving", "failing"} : Return(c, l)
  BY DEF EnqueueMerge, EnqueueCreate
<1>2. /\ call'[c] = NoCall /\ \A d \in Caller : d # c => call'[d] = call[d]
      /\ UNCHANGED <<cur, copy, work, geocoded>>
      /\ \/ c # "openaip" /\ pc' = pc
         \/ c = "openaip" /\ pc = "reporting" /\ pc' = l
  BY <1>0, <1>1 DEF Return, Continue
<1>3. pc \in {"reading", "locking", "starting"} \cup Executing
        => cur \in Run /\ runs[cur].status # "none"
  BY <1>0, TheRunIsARow
\* The row of the worker is as before.
<1>4. ASSUME pc \in {"reading", "locking", "starting"} \cup Executing => runs'[cur] = runs[cur]
      PROVE  WorkerKnowsTheIds'
  BY <1>0, <1>2, <1>4 DEF WorkerKnowsTheIds, Executing
<1>5. CASE EnqueueMerge(c)
  <2> DEFINE e == call[c].existing
  <2>1. e # 0 /\ runs' = [runs EXCEPT ![e].ids = call[c].known \cup call[c].ids]
    BY <1>5 DEF EnqueueMerge
  <2>2. c = "openaip"
    BY <1>0, <2>1 DEF MergesKnowTheRow, Caller
  <2>3. /\ e \in Run /\ runs[e].source = "REGIONS" /\ runs[e].ids \subseteq call[c].known
    BY <1>0, <2>1, <2>2 DEF MergesKnowTheRow
  <2> HIDE DEF e
  <2>4. /\ runs[e].ids \subseteq runs'[e].ids
        /\ \A r \in Run : r # e => runs'[r] = runs[r]
    BY <1>0, <2>1, <2>3 DEF Row
  <2>5. IdsStay
    BY <2>4 DEF IdsStay
  <2>6. pc = "reporting" /\ cur # e
    BY <1>0, <1>2, <2>2, <2>3 DEF WorkerKnowsTheIds
  <2>7. WorkerKnowsTheIds'
    BY <1>3, <1>4, <2>4, <2>6
  <2>8. MergesKnowTheRow'
    BY <1>0, <1>2, <2>2 DEF MergesKnowTheRow, NoCall, Caller
  <2> QED
    BY <2>5, <2>7, <2>8
<1>6. CASE EnqueueCreate(c)
  <2>1. \A r \in Run : runs[r].status # "none" => runs'[r] = runs[r]
    <3>1. CASE runs' = runs
      BY <3>1
    <3>2. CASE runs' # runs
      <4> DEFINE n == created + 1
      <4>1. n \in Run /\ created < n
        BY <1>0, <1>6, <3>2, BoundsAssumption DEF EnqueueCreate, TypeOK, Run
      <4>2. runs' = [runs EXCEPT ![n] = NewRow(c)]
        BY <1>6, <3>2 DEF EnqueueCreate
      <4>3. runs[n].status = "none"
        BY <1>0, <4>1 DEF QueueInv, FreshRowsAreEmpty
      <4> HIDE DEF n
      <4> QED
        BY <1>0, <4>2, <4>3
    <3> QED
      BY <3>1, <3>2
  <2>2. RowsKept
    BY <2>1 DEF RowsKept
  <2>3. MergesKnowTheRow'
    BY <1>0, <1>2, <2>1 DEF MergesKnowTheRow, NoCall, Caller
  <2>4. WorkerKnowsTheIds'
    BY <1>3, <1>4, <2>1
  <2> QED
    BY <2>2, <2>3, <2>4, KeptRowsKeepIds
<1> QED
  BY <1>5, <1>6

-----------------------------------------------------------------------------
\* The worker's steps that leave the rows alone, or only their status.
LEMMA WorkerKeepsDelta ==
  ASSUME DeltaInv,
         \/ Boot \/ (\E r \in Run : Recover(r)) \/ Recovered \/ Dispatch \/ Pick
         \/ ReadRun \/ TryLock \/ Start \/ ReadAgain \/ ImportOpenAip
         \/ (\E a \in Aerodrome : Geocode(a)) \/ TaskReturns \/ TaskThrows \/ Unlock
  PROVE  MergesKnowTheRow' /\ WorkerKnowsTheIds' /\ IdsStay
<1>0. /\ TypeOK /\ runs \in [Run -> Row] /\ QueueInv /\ WorkerKnowsTheIds
      /\ pc \in {"reading", "locking", "starting"} \cup Executing
           => cur \in Run /\ runs[cur].status # "none"
  BY TheRunIsARow DEF DeltaInv, QueueInv, TypeOK
<1>1. RowsKept /\ call' = call /\ \A r \in Run : runs'[r].ids = runs[r].ids
  <2>1. CASE runs' = runs
    BY <2>1 DEF RowsKept, Boot, Recover, Recovered, Dispatch, Pick, ReadRun, TryLock, Start,
       ReadAgain, ImportOpenAip, Geocode, TaskReturns, TaskThrows, Unlock
  <2>2. ASSUME NEW r \in Run, Recover(r)
        PROVE  RowsKept /\ call' = call /\ \A q \in Run : runs'[q].ids = runs[q].ids
    BY <1>0, <2>2 DEF Recover, RowsKept, Row
  <2>3. CASE Start
    BY <1>0, <2>3 DEF Start, RowsKept, Row
  <2> QED
    BY <2>1, <2>2, <2>3 DEF Boot, Recovered, Dispatch, Pick, ReadRun, TryLock, ReadAgain,
       ImportOpenAip, Geocode, TaskReturns, TaskThrows, Unlock
<1>2. MergesKnowTheRow' /\ IdsStay
  BY <1>1, KeptRowsKeepIds, KeptRowsKeepMerges
<1>3. WorkerKnowsTheIds'
  <2>1. CASE Boot \/ (\E r \in Run : Recover(r)) \/ Recovered \/ Dispatch \/ Pick \/ Unlock
    <3>1. pc' \in {"recovering", "picking", "reading", "idle"}
      BY <2>1 DEF Boot, Recover, Recovered, Dispatch, Pick, Unlock
    <3> QED
      BY <3>1 DEF WorkerKnowsTheIds, Executing
  <2>2. CASE ReadRun
    BY <1>0, <2>2 DEF ReadRun, WorkerKnowsTheIds, Executing
  <2>3. CASE TryLock
    BY <1>0, <2>3 DEF TryLock, WorkerKnowsTheIds, Executing
  <2>4. CASE Start
    <3>1. pc = "starting" /\ pc' = "started" /\ cur' = cur /\ copy' = copy
      BY <2>4 DEF Start
    <3>2. runs'[cur].ids = runs[cur].ids
      BY <1>0, <1>1, <3>1
    <3> QED
      BY <1>0, <3>1, <3>2 DEF WorkerKnowsTheIds
  <2>5. CASE ReadAgain
    BY <1>0, <2>5 DEF ReadAgain, WorkerKnowsTheIds, Executing
  <2>6. CASE ImportOpenAip \/ TaskThrows \/ \E a \in Aerodrome : Geocode(a)
    BY <1>0, <2>6 DEF ImportOpenAip, TaskThrows, Geocode, WorkerKnowsTheIds, Executing
  <2>7. CASE TaskReturns
    <3>1. work.source = runs[cur].source /\ runs[cur].ids \subseteq work.ids
      BY <1>0, <2>7 DEF TaskReturns, WorkerKnowsTheIds
    <3>2. work.source = "REGIONS" => work.ids \subseteq geocoded
      BY <2>7 DEF TaskReturns, Target
    <3> QED
      BY <1>0, <2>7, <3>1, <3>2 DEF TaskReturns, WorkerKnowsTheIds, Executing
  <2> QED
    BY <2>1, <2>2, <2>3, <2>4, <2>5, <2>6, <2>7
<1> QED
  BY <1>2, <1>3

\* The run ends, or is to be tried again.
LEMMA EndsKeepDelta ==
  ASSUME DeltaInv, Finish \/ Fail
  PROVE  MergesKnowTheRow' /\ WorkerKnowsTheIds' /\ IdsStay
<1>0. /\ TypeOK /\ runs \in [Run -> Row] /\ QueueInv
      /\ MergesKnowTheRow /\ WorkerKnowsTheIds
      /\ pc \in {"saving", "failing"} /\ pc' = "unlocking" /\ call' = call
      /\ call["openaip"].at = "no"
  BY DEF DeltaInv, QueueInv, TypeOK, Finish, Fail, WorkerKnowsItsRun
<1>1. cur \in Run /\ runs[cur] \in Row /\ runs[cur].status # "none"
  BY <1>0, TheRunIsARow DEF Executing
<1>2. MergesKnowTheRow' /\ WorkerKnowsTheIds'
  BY <1>0 DEF MergesKnowTheRow, WorkerKnowsTheIds, Executing
<1>3. CASE Finish
  <2>1. /\ runs'[cur].status = "SUCCESS"
        /\ \A r \in Run : r # cur => runs'[r] = runs[r]
    BY <1>0, <1>1, <1>3 DEF Finish, Row
  <2>2. runs[cur].source = "REGIONS" => runs[cur].ids \subseteq geocoded
    BY <1>0, <1>3 DEF Finish, WorkerKnowsTheIds
  <2> QED
    BY <1>2, <2>1, <2>2 DEF IdsStay
<1>4. CASE Fail
  <2>1. runs[cur].ids \subseteq copy.ids
    BY <1>0, <1>4 DEF Fail, WorkerKnowsTheIds, Executing
  <2> DEFINE again == [runs[cur] EXCEPT !.status = "RETRY_SCHEDULED", !.due = FALSE,
                          !.attempt = copy.attempt + 1, !.ids = copy.ids]
             over == [runs[cur] EXCEPT !.status = "FAILED", !.ids = copy.ids]
  <2>2. \/ runs' = [runs EXCEPT ![cur] = again]
        \/ runs' = [runs EXCEPT ![cur] = over]
    BY <1>4, Zenon DEF Fail
  <2>3. again.ids = copy.ids /\ over.ids = copy.ids
    <3>1. \A n, i : [runs[cur] EXCEPT !.status = "RETRY_SCHEDULED", !.due = FALSE,
                                      !.attempt = n, !.ids = i].ids = i
      BY <1>1 DEF Row
    <3>2. again.ids = copy.ids
      <4> DEFINE n == copy.attempt + 1
                 i == copy.ids
      <4> HIDE DEF n, i
      <4>1. [runs[cur] EXCEPT !.status = "RETRY_SCHEDULED", !.due = FALSE,
                              !.attempt = n, !.ids = i].ids = i
        BY <3>1
      <4> QED
        BY <4>1, Zenon DEF n, i
    <3>3. over.ids = copy.ids
      BY <1>1 DEF Row
    <3> QED
      BY <3>2, <3>3
  <2> HIDE DEF again, over
  <2>4. /\ runs'[cur].ids = copy.ids
        /\ \A r \in Run : r # cur => runs'[r] = runs[r]
    BY <1>0, <1>1, <2>2, <2>3
  <2> QED
    BY <1>2, <2>1, <2>4 DEF IdsStay
<1> QED
  BY <1>3, <1>4

LEMMA RefusalKeepsDelta ==
  ASSUME DeltaInv, Refusal \/ UnlockThrowing
  PROVE  MergesKnowTheRow' /\ WorkerKnowsTheIds' /\ IdsStay
<1> USE DEF worker, Leave
<1>0. /\ call \in [Caller -> Call] /\ MergesKnowTheRow /\ WorkerKnowsTheIds
      /\ runs' = runs
  BY DEF DeltaInv, QueueInv, TypeOK, Refusal, RefuseDispatch, RefuseExecution, RefuseCall,
     RefuseFail, RefuseUnlock, UnlockThrowing
<1>1. IdsStay
  BY <1>0 DEF IdsStay
<1>2. \/ call' = call
      \/ \E c \in Caller : call' = [call EXCEPT ![c] = NoCall]
  BY DEF Refusal, RefuseDispatch, RefuseExecution, RefuseCall, RefuseFail, RefuseUnlock,
     UnlockThrowing, Caller
<1>3. MergesKnowTheRow'
  BY <1>0, <1>2 DEF MergesKnowTheRow, NoCall, Caller
<1>4. CASE RefuseDispatch \/ RefuseUnlock \/ UnlockThrowing \/ RefuseFail
  <2>1. pc' \in {"idle", "down", "throwing"}
    BY <1>4 DEF RefuseDispatch, RefuseUnlock, UnlockThrowing, RefuseFail
  <2> QED
    BY <1>1, <1>3, <2>1 DEF WorkerKnowsTheIds, Executing
<1>5. CASE RefuseExecution
  BY <1>0, <1>1, <1>3, <1>5 DEF RefuseExecution, WorkerKnowsTheIds, Executing
<1>6. ASSUME NEW c \in {"admin", "cron"}, RefuseCall(c) PROVE WorkerKnowsTheIds'
  BY <1>0, <1>6 DEF RefuseCall, WorkerKnowsTheIds, Executing
<1> QED
  BY <1>1, <1>3, <1>4, <1>5, <1>6 DEF Refusal

LEMMA OutsideKeepsDelta ==
  ASSUME DeltaInv,
         \/ Crash
         \/ \E s \in Source : SessionDies(s)
         \/ \E r \in Run : RetryTimeComes(r)
         \/ \E a \in Aerodrome : UpstreamChanges(a)
  PROVE  MergesKnowTheRow' /\ WorkerKnowsTheIds' /\ IdsStay
<1>0. /\ TypeOK /\ runs \in [Run -> Row] /\ call \in [Caller -> Call]
      /\ QueueInv /\ MergesKnowTheRow /\ WorkerKnowsTheIds
      /\ pc \in {"reading", "locking", "starting"} \cup Executing
           => cur \in Run /\ runs[cur].status # "none"
  BY TheRunIsARow DEF DeltaInv, QueueInv, TypeOK
<1>1. RowsKept /\ \A r \in Run : /\ runs'[r].ids = runs[r].ids
                                /\ runs'[r].source = runs[r].source
  BY <1>0 DEF Crash, SessionDies, RetryTimeComes, UpstreamChanges, RowsKept, Row
<1>2. IdsStay
  BY <1>1, KeptRowsKeepIds
<1>3. CASE Crash
  <2>1. /\ call'["openaip"] = NoCall /\ call'["cron"] = NoCall
        /\ call'["admin"] = call["admin"] /\ pc' = "down"
    BY <1>0, <1>3 DEF Crash, Caller
  <2> QED
    BY <1>0, <1>2, <2>1 DEF MergesKnowTheRow, WorkerKnowsTheIds, NoCall, Executing
<1>4. CASE ~Crash
  <2>1. call' = call /\ UNCHANGED worker
    BY <1>4 DEF SessionDies, RetryTimeComes, UpstreamChanges
  <2>2. MergesKnowTheRow'
    BY <1>1, <2>1, KeptRowsKeepMerges
  <2>3. WorkerKnowsTheIds'
    BY <1>0, <1>1, <2>1 DEF worker, WorkerKnowsTheIds, Executing
  <2> QED
    BY <1>2, <2>2, <2>3
<1> QED
  BY <1>3, <1>4

LEMMA InitDelta == Init => DeltaInv
BY InitHolds DEF Init, DeltaInv, MergesKnowTheRow, WorkerKnowsTheIds, NoCall, Caller, Executing

LEMMA StepKeepsDelta ==
  ASSUME DeltaInv, [Next]_vars
  PROVE  DeltaInv' /\ IdsStay
<1>1. QueueInv'
  BY StepKeepsQueue DEF DeltaInv
<1>2. CASE Next
  BY <1>1, <1>2, CallsKeepDelta, WritesKeepDelta, WorkerKeepsDelta, EndsKeepDelta,
     RefusalKeepsDelta, OutsideKeepsDelta
     DEF DeltaInv, Next, WorkerStep, Execute, Task, Caller, Enqueue
<1>3. CASE UNCHANGED vars
  BY <1>1, <1>3 DEF vars, worker, faults, DeltaInv, MergesKnowTheRow, WorkerKnowsTheIds, IdsStay
<1> QED
  BY <1>2, <1>3

\* What carries the theorem below: nobody but the import merges ids, and it
\* never does so while a REGIONS run is under way.
THEOREM DeltaInvHolds == Spec => []DeltaInv
<1>1. DeltaInv /\ [Next]_vars => DeltaInv'
  BY StepKeepsDelta
<1> QED
  BY <1>1, InitDelta, PTL DEF Spec

\* The ids that executeOpenAip hands to a REGIONS run survive the merges of
\* enqueueRun, handleRunFailure and recoverInterruptedRuns until that run has
\* geocoded each, or has failed with them still in its row.
THEOREM NoIdIsLost == Spec => DeltaIdsAreKept
<1>1. DeltaInv /\ [Next]_vars
        => [\A r \in Run : Active(r) =>
              \/ runs[r].ids \subseteq runs'[r].ids
              \/ /\ runs'[r].status = "SUCCESS"
                 /\ runs[r].source = "REGIONS" => runs[r].ids \subseteq geocoded]_vars
  BY StepKeepsDelta DEF IdsStay
<1> QED
  BY <1>1, DeltaInvHolds, PTL DEF Spec, DeltaIdsAreKept

-----------------------------------------------------------------------------
\* The least of some numbers.
Min(T) == CHOOSE m \in T : \A n \in T : m <= n

LEMMA LeastOfSome ==
    ASSUME NEW T \in SUBSET Nat, T # {}
    PROVE  Min(T) \in T /\ \A n \in T : Min(T) <= n
<1> DEFINE R == {p \in Nat \X Nat : p[1] < p[2]}
<1>1. IsWellFoundedOn(R, Nat)
  BY NatLessThanWellFounded DEF OpToRel
<1>2. PICK m \in T : \A n \in T : <<n, m>> \notin R
  BY <1>1, WFMin
<1>3. ASSUME NEW n \in T PROVE m <= n
  <2>1. n \in Nat /\ m \in Nat /\ ~(n < m)
    BY <1>2
  <2> QED
    BY <2>1
<1> QED
  BY <1>3 DEF Min

-----------------------------------------------------------------------------
(* Catalogue *)

Said == [icao : Icao \cup {NoCode}, text : Nat]

Sheet == [exists : BOOLEAN, icao : Icao \cup {NoCode}, hash : Said, children : Nat]

AnyField == CHOOSE f \in Airfield : TRUE

Import == [pc : {"idle", "next", "resolve", "write"}, list : [Airfield -> Said],
           todo : SUBSET Airfield, field : Airfield \cup {AnyField}, found : BOOLEAN,
           code : Icao \cup {NoCode}, clean : BOOLEAN]

CatalogueTypeOK ==
  /\ airports \in [Airfield -> Said]
  /\ sheet \in [Airfield \cup Handmade -> Sheet]
  /\ reader \in [Reader -> Import]
  /\ revisions \in Nat
  /\ caughtUp \in BOOLEAN

Busy(p, f) == reader[p].pc \in {"resolve", "write"} /\ reader[p].field = f

\* A reader works on a field of openAIP, and gives up its code only to another sheet.
ReadersInv ==
  \A p \in Reader :
    /\ reader[p].pc \in {"resolve", "write"} => reader[p].field \in Airfield
    /\ reader[p].pc = "write" =>
         \/ reader[p].code = reader[p].list[reader[p].field].icao
         \/ /\ reader[p].code = NoCode
            /\ <<reader[p].field, reader[p].list[reader[p].field].icao>> \in contested

\* An import that nothing has disturbed is alone, and has brought up to date all it
\* has done with; while the sheets are up to date, every import has the last list.
CleanInv ==
  \A p \in Reader : reader[p].pc # "idle" =>
    /\ reader[p].clean =>
         /\ \A o \in Reader \ {p} : reader[o].pc = "idle"
         /\ \A f \in Airfield \ reader[p].todo :
              Busy(p, f) \/ (sheet[f].exists /\ sheet[f].hash = reader[p].list[f])
    /\ caughtUp => reader[p].list = airports

CatalogueInv == CatalogueTypeOK /\ ReadersInv /\ CleanInv /\ SheetsMatchTheirHash

LEMMA RestingTyped == NoSheet \in Sheet /\ Resting \in Import /\ Resting.pc = "idle"
<1>1. NoSheet \in Sheet /\ NoSheet.hash \in Said
  BY DEF NoSheet, Sheet, Said
<1> QED
  BY <1>1 DEF Resting, Import, AnyField

\* The types are kept, and what an import holds on to.
LEMMA CatalogueTypesKept ==
    CatalogueTypeOK /\ ReadersInv /\ [CatalogueNext]_catalogueVars => CatalogueTypeOK' /\ ReadersInv'
<1> SUFFICES ASSUME CatalogueTypeOK, ReadersInv, [CatalogueNext]_catalogueVars
             PROVE  CatalogueTypeOK' /\ ReadersInv'
  OBVIOUS
<1> USE DEF CatalogueTypeOK, ReadersInv
<1>0. NoSheet \in Sheet /\ Resting \in Import /\ Resting.pc = "idle" /\ NoCode \in Icao \cup {NoCode}
  BY RestingTyped
<1>into. ASSUME NEW p \in Reader, NEW r \in Import, Into(p, r)
         PROVE  /\ reader' \in [Reader -> Import] /\ reader'[p] = r
                /\ \A q \in Reader \ {p} : reader'[q] = reader[q]
  BY <1>into DEF Into
<1>1. ASSUME NEW f \in Airfield, NEW c \in Icao \cup {NoCode}, OpenAipRevises(f, c)
      PROVE  CatalogueTypeOK' /\ ReadersInv'
  <2>1. [icao |-> c, text |-> revisions'] \in Said /\ revisions' \in Nat
    BY <1>1 DEF OpenAipRevises, Said
  <2> QED
    BY <1>1, <2>1 DEF OpenAipRevises
<1>2. ASSUME NEW p \in Reader, Fetch(p) PROVE CatalogueTypeOK' /\ ReadersInv'
  <2> DEFINE r == [Resting EXCEPT !.pc = "next", !.list = airports, !.todo = Airfield,
                                  !.clean = \A o \in Reader \ {p} : reader[o].pc = "idle"]
  <2>1. r \in Import /\ r.pc = "next"
    BY <1>0 DEF Import
  <2> HIDE DEF r
  <2>2. reader' = [q \in Reader |-> IF q = p THEN r
                                    ELSE [reader[q] EXCEPT !.clean = @ /\ reader[q].pc = "idle"]]
    BY <1>2 DEF Fetch, r
  <2>3. ASSUME NEW q \in Reader, q # p
        PROVE  /\ reader'[q] \in Import
               /\ reader'[q].pc = reader[q].pc /\ reader'[q].list = reader[q].list
               /\ reader'[q].field = reader[q].field /\ reader'[q].code = reader[q].code
    BY <2>2, <2>3 DEF Import
  <2>4. reader' \in [Reader -> Import] /\ reader'[p] = r
    BY <2>1, <2>2, <2>3
  <2>5. UNCHANGED <<airports, sheet, revisions, contested, caughtUp>>
    BY <1>2 DEF Fetch
  <2>6. CatalogueTypeOK'
    BY <2>4, <2>5
  <2>7. ASSUME NEW q \in Reader
        PROVE  /\ reader'[q].pc \in {"resolve", "write"} =>
                    reader[q].pc = reader'[q].pc /\ reader'[q].field = reader[q].field
               /\ reader'[q].pc = "write" =>
                    reader'[q].list = reader[q].list /\ reader'[q].code = reader[q].code
    BY <2>1, <2>3, <2>4
  <2> QED
    BY <2>5, <2>6, <2>7
<1>3. ASSUME NEW p \in Reader, NEW f \in Airfield, LookUp(p, f)
      PROVE  CatalogueTypeOK' /\ ReadersInv'
  <2> DEFINE same == sheet[f].exists /\ sheet[f].hash = reader[p].list[f]
             r == [reader[p] EXCEPT !.pc = IF same THEN "next" ELSE "resolve", !.todo = @ \ {f},
                                    !.field = f, !.found = sheet[f].exists]
  <2>1. r \in Import /\ r.field = f /\ r.pc \in {"next", "resolve"}
    BY <1>3 DEF Import, Sheet
  <2>2. Into(p, r)
    BY <1>3 DEF LookUp
  <2> HIDE DEF r
  <2>3. /\ reader' \in [Reader -> Import] /\ reader'[p] = r
        /\ \A q \in Reader \ {p} : reader'[q] = reader[q]
    BY <1>into, <2>1, <2>2
  <2> QED
    BY <1>3, <2>1, <2>3 DEF LookUp
<1>4. ASSUME NEW p \in Reader, ResolveIcaoConflict(p) PROVE CatalogueTypeOK' /\ ReadersInv'
  <2> DEFINE f == reader[p].field
             c == reader[p].list[f].icao
             code == IF Held(f, c) THEN NoCode ELSE c
             r == [reader[p] EXCEPT !.pc = "write", !.code = code]
  <2>1. f \in Airfield /\ c \in Icao \cup {NoCode} /\ code \in Icao \cup {NoCode}
    BY <1>4 DEF ResolveIcaoConflict, Import, Said
  <2>2. /\ Into(p, r) /\ contested' = IF Held(f, c) THEN contested \cup {<<f, c>>} ELSE contested
        /\ UNCHANGED <<airports, sheet, revisions, caughtUp>>
    BY <1>4 DEF ResolveIcaoConflict
  <2>3. r \in Import /\ r.pc = "write" /\ r.code = code /\ r.field = f /\ r.list = reader[p].list
    BY <2>1 DEF Import
  <2>4. code = c \/ (code = NoCode /\ <<f, c>> \in contested')
    BY <2>2
  <2> HIDE DEF r, code
  <2>5. /\ reader' \in [Reader -> Import] /\ reader'[p] = r
        /\ \A q \in Reader \ {p} : reader'[q] = reader[q]
    BY <1>into, <2>2, <2>3
  <2>6. contested \subseteq contested'
    BY <2>2
  <2> QED
    BY <2>1, <2>2, <2>3, <2>4, <2>5, <2>6
<1>5. ASSUME NEW p \in Reader, Write(p) PROVE CatalogueTypeOK' /\ ReadersInv'
  <2>0. reader[p].field \in Airfield
    BY <1>5 DEF Write
  <2>a. reader[p].code \in Icao \cup {NoCode} /\ reader[p].list[reader[p].field] \in Said
    BY <2>0 DEF Import
  <2>1. Described(p) \in Sheet
    BY <2>a DEF Described, Sheet, Said
  <2>2. sheet' \in [Airfield \cup Handmade -> Sheet]
    BY <1>5, <2>0, <2>1 DEF Write
  <2> DEFINE r == [reader[p] EXCEPT !.pc = "next"]
  <2>3. r \in Import /\ r.pc = "next"
    BY DEF Import
  <2>4. Into(p, r) /\ UNCHANGED <<airports, revisions, contested, caughtUp>>
    BY <1>5 DEF Write
  <2> HIDE DEF r
  <2>5. /\ reader' \in [Reader -> Import] /\ reader'[p] = r
        /\ \A q \in Reader \ {p} : reader'[q] = reader[q]
    BY <1>into, <2>3, <2>4
  <2> QED
    BY <2>2, <2>3, <2>4, <2>5
<1>6. ASSUME NEW p \in Reader, SkipField(p) PROVE CatalogueTypeOK' /\ ReadersInv'
  <2> DEFINE r == [reader[p] EXCEPT !.pc = "next", !.clean = FALSE]
  <2>1. r \in Import /\ r.pc = "next"
    BY DEF Import
  <2>2. Into(p, r) /\ UNCHANGED <<airports, sheet, revisions, contested, caughtUp>>
    BY <1>6 DEF SkipField
  <2> HIDE DEF r
  <2>3. /\ reader' \in [Reader -> Import] /\ reader'[p] = r
        /\ \A q \in Reader \ {p} : reader'[q] = reader[q]
    BY <1>into, <2>1, <2>2
  <2> QED
    BY <2>1, <2>2, <2>3
<1>7. ASSUME NEW p \in Reader, Summarise(p) PROVE CatalogueTypeOK' /\ ReadersInv'
  <2>1. caughtUp' \in BOOLEAN
    BY <1>7 DEF Summarise
  <2> QED
    BY <1>0, <1>7, <1>into, <2>1 DEF Summarise
<1>8. ASSUME NEW p \in Reader, ImportDies(p) PROVE CatalogueTypeOK' /\ ReadersInv'
  BY <1>0, <1>8, <1>into DEF ImportDies
<1>9. ASSUME NEW m \in Handmade, NEW c \in Icao \cup {NoCode}, WriteByHand(m, c)
      PROVE  CatalogueTypeOK' /\ ReadersInv'
  <2>1. [NoSheet EXCEPT !.exists = TRUE, !.icao = c] \in Sheet
    BY <1>0 DEF Sheet
  <2> QED
    BY <1>9, <2>1 DEF WriteByHand
<1>10. ASSUME NEW m \in Handmade, DeleteByHand(m) PROVE CatalogueTypeOK' /\ ReadersInv'
  BY <1>0, <1>10 DEF DeleteByHand
<1>11. CASE UNCHANGED catalogueVars
  BY <1>11 DEF catalogueVars
<1> QED
  BY <1>1, <1>2, <1>3, <1>4, <1>5, <1>6, <1>7, <1>8, <1>9, <1>10, <1>11 DEF CatalogueNext

\* An undisturbed import stays alone and leaves nothing behind it undone.
LEMMA CleanKept == CatalogueInv /\ [CatalogueNext]_catalogueVars => CleanInv'
<1> SUFFICES ASSUME CatalogueTypeOK, ReadersInv, CleanInv, [CatalogueNext]_catalogueVars
             PROVE  CleanInv'
  BY DEF CatalogueInv
<1> DEFINE Alone(q) == /\ \A o \in Reader \ {q} : reader[o].pc = "idle"
                       /\ \A f \in Airfield \ reader[q].todo :
                            Busy(q, f) \/ (sheet[f].exists /\ sheet[f].hash = reader[q].list[f])
           Good(q) == reader[q].pc # "idle" =>
                        (reader[q].clean => Alone(q)) /\ (caughtUp => reader[q].list = airports)
<1> SUFFICES ASSUME NEW q \in Reader PROVE Good(q)'
  BY DEF CleanInv
<1>0. \A p \in Reader : Good(p)
  BY DEF CleanInv
<1>other. ASSUME NEW p \in Reader, p # q, reader[p].pc # "idle", reader'[q] = reader[q],
                 UNCHANGED airports, caughtUp' => caughtUp
          PROVE  Good(q)'
  BY <1>0, <1>other
<1> USE DEF CatalogueTypeOK
<1>1. ASSUME NEW f \in Airfield, NEW c \in Icao \cup {NoCode}, OpenAipRevises(f, c) PROVE Good(q)'
  BY <1>0, <1>1 DEF OpenAipRevises, Busy
<1>2. ASSUME NEW p \in Reader, Fetch(p) PROVE Good(q)'
  <2> DEFINE r == [Resting EXCEPT !.pc = "next", !.list = airports, !.todo = Airfield,
                                  !.clean = \A o \in Reader \ {p} : reader[o].pc = "idle"]
  <2>1. /\ r.pc = "next" /\ r.list = airports /\ r.todo = Airfield
        /\ r.clean => \A o \in Reader \ {p} : reader[o].pc = "idle"
    BY DEF Resting
  <2> HIDE DEF r
  <2>2. /\ reader' = [o \in Reader |-> IF o = p THEN r
                                       ELSE [reader[o] EXCEPT !.clean = @ /\ reader[o].pc = "idle"]]
        /\ UNCHANGED <<airports, sheet, revisions, contested, caughtUp>>
    BY <1>2 DEF Fetch, r
  <2>3. ASSUME NEW o \in Reader, o # p
        PROVE  /\ reader'[o].pc = reader[o].pc /\ reader'[o].list = reader[o].list
               /\ reader'[o].clean => reader[o].pc = "idle"
    BY <2>2, <2>3 DEF Import
  <2>4. reader'[p] = r
    BY <2>2
  <2>5. CASE q = p
    BY <2>1, <2>2, <2>3, <2>4, <2>5
  <2>6. CASE q # p
    BY <1>0, <2>2, <2>3, <2>6
  <2> QED
    BY <2>5, <2>6
<1>3. ASSUME NEW p \in Reader, NEW f \in Airfield, LookUp(p, f) PROVE Good(q)'
  <2>0. UNCHANGED <<airports, sheet, revisions, contested, caughtUp>> /\ reader[p].pc = "next"
    BY <1>3 DEF LookUp
  <2>1. CASE q # p
    <3>1. reader'[q] = reader[q]
      BY <1>3, <2>1 DEF LookUp, Into
    <3> QED
      BY <1>other, <2>0, <2>1, <3>1
  <2>2. CASE q = p
    <3> DEFINE same == sheet[f].exists /\ sheet[f].hash = reader[p].list[f]
    <3>1. /\ reader'[q].pc = (IF same THEN "next" ELSE "resolve") /\ reader'[q].field = f
          /\ reader'[q].todo = reader[q].todo \ {f} /\ reader'[q].list = reader[q].list
          /\ reader'[q].clean = reader[q].clean
          /\ \A o \in Reader \ {q} : reader'[o] = reader[o]
      BY <1>3, <2>2 DEF LookUp, Into, Import
    <3>2. ~Busy(q, f)' => sheet[f].exists /\ sheet[f].hash = reader[q].list[f]
      BY <2>2, <3>1 DEF Busy
    <3>3. \A g \in Airfield : ~Busy(q, g)
      BY <2>0, <2>2 DEF Busy
    <3>4. reader[q].clean => Alone(q)'
      <4> SUFFICES ASSUME reader[q].clean PROVE Alone(q)'
        OBVIOUS
      <4>1. \A o \in Reader \ {q} : reader'[o].pc = "idle"
        BY <1>0, <2>0, <2>2, <3>1
      <4>2. ASSUME NEW g \in Airfield \ reader'[q].todo
            PROVE  Busy(q, g)' \/ (sheet'[g].exists /\ sheet'[g].hash = reader'[q].list[g])
        <5>1. CASE g = f
          BY <2>0, <3>1, <3>2, <5>1
        <5>2. CASE g # f
          BY <1>0, <2>0, <2>2, <3>1, <3>3, <5>2
        <5> QED
          BY <5>1, <5>2
      <4> QED
        BY <4>1, <4>2
    <3> QED
      BY <1>0, <2>0, <2>2, <3>1, <3>4
  <2> QED
    BY <2>1, <2>2
<1>4. ASSUME NEW p \in Reader, ResolveIcaoConflict(p) PROVE Good(q)'
  <2>0. UNCHANGED <<airports, sheet, revisions, caughtUp>> /\ reader[p].pc = "resolve"
    BY <1>4 DEF ResolveIcaoConflict
  <2>1. /\ p # q => reader'[q] = reader[q]
        /\ p = q => /\ reader'[q].pc = "write" /\ reader'[q].field = reader[q].field
                    /\ reader'[q].todo = reader[q].todo /\ reader'[q].list = reader[q].list
                    /\ reader'[q].clean = reader[q].clean
                    /\ \A o \in Reader \ {q} : reader'[o] = reader[o]
    BY <1>4 DEF ResolveIcaoConflict, Into, Import
  <2>2. CASE q = p
    BY <1>0, <2>0, <2>1, <2>2 DEF Busy
  <2> QED
    BY <1>other, <2>0, <2>1, <2>2
<1>5. ASSUME NEW p \in Reader, Write(p) PROVE Good(q)'
  <2>0. /\ UNCHANGED <<airports, revisions, contested, caughtUp>> /\ reader[p].pc = "write"
        /\ sheet' = [sheet EXCEPT ![reader[p].field] = Described(p)] /\ reader[p].field \in Airfield
    BY <1>5 DEF Write, ReadersInv
  <2>1. /\ p # q => reader'[q] = reader[q]
        /\ p = q => /\ reader'[q].pc = "next"
                    /\ reader'[q].todo = reader[q].todo /\ reader'[q].list = reader[q].list
                    /\ reader'[q].clean = reader[q].clean
                    /\ \A o \in Reader \ {q} : reader'[o] = reader[o]
    BY <1>5 DEF Write, Into, Import
  <2>2. CASE q = p
    <3>1. Described(q).exists /\ Described(q).hash = reader[q].list[reader[q].field]
      BY DEF Described
    <3>2. ASSUME reader[q].clean, NEW g \in Airfield \ reader[q].todo
          PROVE  sheet'[g].exists /\ sheet'[g].hash = reader[q].list[g]
      <4>1. CASE g = reader[q].field
        BY <2>0, <2>2, <3>1, <4>1
      <4>2. CASE g # reader[q].field
        BY <1>0, <2>0, <2>2, <3>2, <4>2 DEF Busy
      <4> QED
        BY <4>1, <4>2
    <3> QED
      BY <1>0, <2>0, <2>1, <2>2, <3>2
  <2> QED
    BY <1>other, <2>0, <2>1, <2>2
<1>6. ASSUME NEW p \in Reader, SkipField(p) PROVE Good(q)'
  <2>0. UNCHANGED <<airports, sheet, revisions, contested, caughtUp>> /\ reader[p].pc # "idle"
    BY <1>6 DEF SkipField
  <2>1. /\ p # q => reader'[q] = reader[q]
        /\ p = q => ~reader'[q].clean /\ reader'[q].list = reader[q].list
    BY <1>6 DEF SkipField, Into, Import
  <2>2. CASE q = p
    BY <1>0, <2>0, <2>1, <2>2
  <2> QED
    BY <1>other, <2>0, <2>1, <2>2
<1>7. ASSUME NEW p \in Reader, Summarise(p) PROVE Good(q)'
  <2>0. /\ UNCHANGED <<airports, sheet, revisions, contested>> /\ reader[p].pc = "next"
        /\ caughtUp' = (caughtUp \/ (reader[p].clean /\ reader[p].list = airports))
        /\ reader'[p] = Resting /\ \A o \in Reader \ {p} : reader'[o] = reader[o]
    BY <1>7 DEF Summarise, Into
  <2>1. CASE q = p
    BY <2>0, <2>1, RestingTyped
  <2>2. CASE q # p /\ reader[p].clean
    BY <1>0, <2>0, <2>2
  <2>3. CASE q # p /\ ~reader[p].clean
    BY <1>other, <2>0, <2>3
  <2> QED
    BY <2>1, <2>2, <2>3
<1>8. ASSUME NEW p \in Reader, ImportDies(p) PROVE Good(q)'
  <2>0. /\ UNCHANGED <<airports, sheet, revisions, contested, caughtUp>> /\ reader[p].pc # "idle"
        /\ reader'[p] = Resting /\ \A o \in Reader \ {p} : reader'[o] = reader[o]
    BY <1>8 DEF ImportDies, Into
  <2>1. CASE q = p
    BY <2>0, <2>1, RestingTyped
  <2>2. CASE q # p
    BY <1>other, <2>0, <2>2
  <2> QED
    BY <2>1, <2>2
<1>9. ASSUME NEW m \in Handmade, DeleteByHand(m) \/ \E c \in Icao \cup {NoCode} : WriteByHand(m, c)
      PROVE  Good(q)'
  <2>1. \A f \in Airfield : sheet'[f] = sheet[f]
    BY <1>9, SourcesAssumption DEF DeleteByHand, WriteByHand
  <2>2. UNCHANGED <<airports, reader, revisions, contested, caughtUp>>
    BY <1>9 DEF DeleteByHand, WriteByHand
  <2> QED
    BY <1>0, <2>1, <2>2 DEF Busy
<1>10. CASE UNCHANGED catalogueVars
  BY <1>0, <1>10 DEF catalogueVars, Busy
<1> QED
  BY <1>1, <1>2, <1>3, <1>4, <1>5, <1>6, <1>7, <1>8, <1>9, <1>10 DEF CatalogueNext

\* What the hash of a sheet says is what the sheet has.
LEMMA SheetsKept == CatalogueInv /\ [CatalogueNext]_catalogueVars => SheetsMatchTheirHash'
<1> SUFFICES ASSUME CatalogueTypeOK, ReadersInv, CleanInv, SheetsMatchTheirHash,
                    [CatalogueNext]_catalogueVars
             PROVE  SheetsMatchTheirHash'
  BY DEF CatalogueInv
<1> DEFINE Complete(f) == sheet[f].exists =>
              /\ sheet[f].children = sheet[f].hash.text
              /\ \/ sheet[f].icao = sheet[f].hash.icao
                 \/ sheet[f].icao = NoCode /\ <<f, sheet[f].hash.icao>> \in contested
           Unique(s) == sheet[s].exists => ~Held(s, sheet[s].icao)
           Current(f) == sheet[f].exists /\ sheet[f].hash = airports[f]
<1>0. /\ \A f \in Airfield : Complete(f)
      /\ \A s \in Airfield \cup Handmade : Unique(s)
      /\ caughtUp => \A f \in Airfield : Current(f)
  BY DEF SheetsMatchTheirHash
<1>q. ASSUME \A f \in Airfield : Complete(f)', \A s \in Airfield \cup Handmade : Unique(s)',
             caughtUp' => \A f \in Airfield : Current(f)'
      PROVE  SheetsMatchTheirHash'
  BY <1>q DEF SheetsMatchTheirHash
<1> USE DEF CatalogueTypeOK
<1>a. ASSUME UNCHANGED sheet, contested \subseteq contested',
             caughtUp' => \A f \in Airfield : sheet[f].exists /\ sheet[f].hash = airports'[f]
      PROVE  SheetsMatchTheirHash'
  <2>1. \A f \in Airfield : Complete(f)'
    BY <1>0, <1>a
  <2>2. \A s \in Airfield \cup Handmade : Unique(s)'
    BY <1>0, <1>a DEF Held
  <2> QED
    BY <1>a, <1>q, <2>1, <2>2
<1>b. ASSUME UNCHANGED <<sheet, contested, airports, caughtUp>> PROVE SheetsMatchTheirHash'
  BY <1>0, <1>a, <1>b
<1>u. ASSUME NEW s \in Airfield \cup Handmade, NEW d \in Sheet, ~Held(s, d.icao),
             sheet' = [sheet EXCEPT ![s] = d]
      PROVE  \A t \in Airfield \cup Handmade : Unique(t)'
  <2> SUFFICES ASSUME NEW t \in Airfield \cup Handmade, NEW x \in (Airfield \cup Handmade) \ {t},
                      sheet'[t].exists, sheet'[x].exists, sheet'[x].icao = sheet'[t].icao
               PROVE  sheet'[t].icao = NoCode
    BY DEF Held
  <2>1. CASE t = s
    BY <1>u, <2>1 DEF Held
  <2>2. CASE x = s
    BY <1>u, <2>2 DEF Held
  <2>3. CASE t # s /\ x # s
    BY <1>0, <1>u, <2>3 DEF Held
  <2> QED
    BY <2>1, <2>2, <2>3
<1>1. ASSUME NEW f \in Airfield, NEW c \in Icao \cup {NoCode}, OpenAipRevises(f, c)
      PROVE  SheetsMatchTheirHash'
  BY <1>1, <1>a DEF OpenAipRevises
<1>2. ASSUME NEW p \in Reader, Fetch(p) PROVE SheetsMatchTheirHash'
  BY <1>2, <1>b DEF Fetch
<1>3. ASSUME NEW p \in Reader, NEW f \in Airfield, LookUp(p, f) PROVE SheetsMatchTheirHash'
  BY <1>3, <1>b DEF LookUp
<1>4. ASSUME NEW p \in Reader, ResolveIcaoConflict(p) PROVE SheetsMatchTheirHash'
  <2>1. contested \subseteq contested' /\ UNCHANGED <<sheet, airports, caughtUp>>
    BY <1>4 DEF ResolveIcaoConflict
  <2> QED
    BY <1>0, <1>a, <2>1
<1>5. ASSUME NEW p \in Reader, Write(p) PROVE SheetsMatchTheirHash'
  <2> DEFINE f == reader[p].field
             d == Described(p)
  <2>0. /\ UNCHANGED <<airports, revisions, contested, caughtUp>> /\ reader[p].pc = "write"
        /\ sheet' = [sheet EXCEPT ![f] = d] /\ f \in Airfield /\ ~Held(f, d.icao)
    BY <1>5 DEF Write, ReadersInv, Accepted, Described
  <2>1. reader[p].list[f] \in Said /\ reader[p].code \in Icao \cup {NoCode}
    BY <2>0 DEF Import
  <2>2. /\ d \in Sheet /\ d.exists /\ d.hash = reader[p].list[f] /\ d.children = d.hash.text
        /\ d.icao = reader[p].code
    BY <2>1 DEF Described, Sheet, Said
  <2>3. d.icao = d.hash.icao \/ (d.icao = NoCode /\ <<f, d.hash.icao>> \in contested)
    BY <2>0, <2>2 DEF ReadersInv
  <2>4. caughtUp => d.hash = airports[f]
    BY <2>0, <2>2 DEF CleanInv
  <2> HIDE DEF f, d
  <2>5. \A g \in Airfield : Complete(g)'
    BY <1>0, <2>0, <2>2, <2>3
  <2>6. caughtUp' => \A g \in Airfield : Current(g)'
    BY <1>0, <2>0, <2>2, <2>4
  <2>7. \A t \in Airfield \cup Handmade : Unique(t)'
    BY <1>u, <2>0, <2>2
  <2> QED
    BY <1>q, <2>5, <2>6, <2>7
<1>6. ASSUME NEW p \in Reader, SkipField(p) PROVE SheetsMatchTheirHash'
  BY <1>6, <1>b DEF SkipField
<1>7. ASSUME NEW p \in Reader, Summarise(p) PROVE SheetsMatchTheirHash'
  <2>0. /\ UNCHANGED <<airports, sheet, revisions, contested>> /\ reader[p].pc = "next"
        /\ caughtUp' = (caughtUp \/ (reader[p].clean /\ reader[p].list = airports))
        /\ reader[p].todo = {}
    BY <1>7 DEF Summarise
  <2>1. reader[p].clean /\ reader[p].list = airports => \A f \in Airfield : Current(f)
    BY <2>0 DEF CleanInv, Busy
  <2> QED
    BY <1>0, <1>a, <2>0, <2>1
<1>8. ASSUME NEW p \in Reader, ImportDies(p) PROVE SheetsMatchTheirHash'
  BY <1>8, <1>b DEF ImportDies
<1>9. ASSUME NEW m \in Handmade, NEW d \in Sheet, ~Held(m, d.icao), sheet' = [sheet EXCEPT ![m] = d],
             UNCHANGED <<airports, reader, revisions, contested, caughtUp>>
      PROVE  SheetsMatchTheirHash'
  <2>1. \A f \in Airfield : sheet'[f] = sheet[f]
    BY <1>9, SourcesAssumption
  <2>2. \A f \in Airfield : Complete(f)'
    BY <1>0, <1>9, <2>1
  <2>3. caughtUp' => \A f \in Airfield : Current(f)'
    BY <1>0, <1>9, <2>1
  <2>4. \A t \in Airfield \cup Handmade : Unique(t)'
    BY <1>9, <1>u
  <2> QED
    BY <1>q, <2>2, <2>3, <2>4
<1>10. ASSUME NEW m \in Handmade, DeleteByHand(m) PROVE SheetsMatchTheirHash'
  <2>1. NoSheet \in Sheet /\ ~Held(m, NoSheet.icao)
    BY RestingTyped DEF NoSheet, Held
  <2> QED
    BY <1>9, <1>10, <2>1 DEF DeleteByHand
<1>11. ASSUME NEW m \in Handmade, NEW c \in Icao \cup {NoCode}, WriteByHand(m, c)
       PROVE  SheetsMatchTheirHash'
  <2> DEFINE d == [NoSheet EXCEPT !.exists = TRUE, !.icao = c]
  <2>1. d \in Sheet /\ d.icao = c
    BY RestingTyped DEF Sheet
  <2> HIDE DEF d
  <2>2. ~Held(m, d.icao) /\ sheet' = [sheet EXCEPT ![m] = d]
        /\ UNCHANGED <<airports, reader, revisions, contested, caughtUp>>
    BY <1>11, <2>1 DEF WriteByHand, d
  <2> QED
    BY <1>9, <2>1, <2>2
<1>12. CASE UNCHANGED catalogueVars
  BY <1>12, <1>b DEF catalogueVars
<1> QED
  BY <1>1, <1>2, <1>3, <1>4, <1>5, <1>6, <1>7, <1>8, <1>10, <1>11, <1>12 DEF CatalogueNext

LEMMA CatalogueBegins == CatalogueInit => CatalogueInv
<1> SUFFICES ASSUME CatalogueInit PROVE CatalogueInv
  OBVIOUS
<1>1. CatalogueTypeOK
  <2>1. airports \in [Airfield -> Said]
    BY DEF CatalogueInit, Said
  <2>2. sheet \in [Airfield \cup Handmade -> Sheet] /\ reader \in [Reader -> Import]
    BY RestingTyped DEF CatalogueInit
  <2> QED
    BY <2>1, <2>2 DEF CatalogueInit, CatalogueTypeOK
<1>2. ReadersInv /\ CleanInv
  BY RestingTyped DEF CatalogueInit, ReadersInv, CleanInv
<1>3. SheetsMatchTheirHash
  BY DEF CatalogueInit, SheetsMatchTheirHash, NoSheet
<1> QED
  BY <1>1, <1>2, <1>3 DEF CatalogueInv

\* Whatever imports overlap, fail or die and whatever is written by hand between them,
\* a sheet has all that its hash says it has, no code is on two sheets, and an import
\* that ended alone and without error has brought every sheet up to date.
THEOREM SheetsAreWhatTheirHashSays == CatalogueSpec => []SheetsMatchTheirHash
<1>1. CatalogueInv /\ [CatalogueNext]_catalogueVars => CatalogueInv'
  BY CatalogueTypesKept, CleanKept, SheetsKept DEF CatalogueInv
<1>2. CatalogueInv => SheetsMatchTheirHash
  BY DEF CatalogueInv
<1> QED
  BY <1>1, <1>2, CatalogueBegins, PTL DEF CatalogueSpec

-----------------------------------------------------------------------------
(* Airspaces: the rows of openAIP *)

ZoneTypeOK ==
  /\ issued \in [Airspace -> Nat] /\ fetched \in [Airspace -> Nat]
  /\ zone \in [Airspace -> [hash : Nat, content : Nat]]
  /\ importing = Off \/ importing \in SUBSET Airspace

\* What an import has been through, and was not refused, is as it was fetched.
ZonesAreUpToDate ==
  \A x \in Airspace \ missed :
    (importing = Off \/ x \notin importing) /\ fetched[x] > 0 => zone[x].content = fetched[x]

ZoneInv ==
  /\ ZoneTypeOK
  /\ \A x \in Airspace : zone[x].hash = zone[x].content
  /\ ZonesAreUpToDate

THEOREM ZoneInvHolds == AirspacesSpec => []ZoneInv
<1>1. AirspacesInit => ZoneInv
  BY DEF AirspacesInit, ZoneInv, ZoneTypeOK, ZonesAreUpToDate, NoZone
<1>2. ZoneInv /\ [AirspacesNext]_airspaceVars => ZoneInv'
  <2> SUFFICES ASSUME ZoneInv, [AirspacesNext]_airspaceVars PROVE ZoneInv'
    OBVIOUS
  <2> USE DEF ZoneInv, ZoneTypeOK, ZonesAreUpToDate
  <2>0. \A s \in SUBSET Airspace : s # Off
    BY AirspacesAssumption
  <2>1. ASSUME NEW s \in Origin, NEW file \in Files, NEW replace \in BOOLEAN, ReceiveOpenAir(s, file, replace)
        PROVE  ZoneInv'
    BY <2>1 DEF ReceiveOpenAir
  <2>2. CASE UpsertDrawn \/ AnswerOpenAir \/ FailOpenAir
    BY <2>2 DEF UpsertDrawn, AnswerOpenAir, FailOpenAir
  <2>3. ASSUME NEW x \in Airspace, OpenAipReissues(x) PROVE ZoneInv'
    BY <2>3 DEF OpenAipReissues
  <2>4. ASSUME NEW x \in Airspace, UpsertAirspace(x) PROVE ZoneInv'
    <3>1. /\ importing \in SUBSET Airspace /\ x \in importing /\ importing' = importing \ {x}
          /\ zone' = IF zone[x].hash = fetched[x] THEN zone ELSE [zone EXCEPT ![x] = Fetched(x)]
          /\ UNCHANGED <<issued, fetched, missed>>
      BY <2>4 DEF UpsertAirspace
    <3>2. Fetched(x) = [hash |-> fetched[x], content |-> fetched[x]] /\ fetched[x] \in Nat
      BY DEF Fetched
    <3>3. zone'[x].content = fetched[x] /\ \A y \in Airspace : y # x => zone'[y] = zone[y]
      BY <3>1, <3>2
    <3>4. ZoneTypeOK' /\ \A y \in Airspace : zone'[y].hash = zone'[y].content
      BY <3>1, <3>2
    <3> QED
      BY <2>0, <3>1, <3>3, <3>4
  <2>5. ASSUME NEW x \in Airspace, SkipAirspace(x) PROVE ZoneInv'
    BY <2>0, <2>5 DEF SkipAirspace
  <2>6. CASE FetchAirspaces
    BY <2>0, <2>6 DEF FetchAirspaces
  <2>7. CASE EndAirspaces
    BY <2>7 DEF EndAirspaces
  <2>8. CASE UNCHANGED airspaceVars
    BY <2>8 DEF airspaceVars
  <2> QED
    BY <2>1, <2>2, <2>3, <2>4, <2>5, <2>6, <2>7, <2>8 DEF AirspacesNext
<1> QED
  BY <1>1, <1>2, PTL DEF AirspacesSpec

-----------------------------------------------------------------------------
(* Airspaces: the reader of OpenAir files *)

\* The provers do not know that a literal is a string.
Word == STRING \cup {"", "UNKNOWN", "Unnamed", "SFC"}
Outline == [class : Word, name : Word, limits : Word, points : Seq(Word)]
Space == [class : Word, name : Word, limits : Word, ring : Seq(Word)]
ReaderState == [open : BOOLEAN, current : Outline, spaces : Seq(Space), errors : Nat]

LEMMA FilesAreTyped ==
  ASSUME NEW file \in Files
  PROVE  /\ Len(file) \in Nat /\ DOMAIN file = 1..Len(file)
         /\ \A n \in 1..Len(file) : /\ file[n].d \in {"AC", "AN", "AL", "DP", "DC"}
                                   /\ file[n].v \in STRING
<1>1. file \in Seq(OpenAirLine)
  BY FilesAssumption
<1>2. Len(file) \in Nat /\ DOMAIN file = 1..Len(file) /\ \A n \in 1..Len(file) : file[n] \in OpenAirLine
  BY <1>1
<1> QED
  BY <1>2 DEF OpenAirLine

\* The recursion of Reading has a solution, hence Reading obeys it.
LEMMA ReadingLaw ==
  ASSUME NEW file \in Files
  PROVE  \A n \in 0..Len(file) :
           Reading(file)[n] = IF n = 0 THEN Unread ELSE ReadLine(Reading(file)[n - 1], file[n])
<1> DEFINE L == Len(file)
           After(r, n) == IF n = 0 THEN Unread ELSE ReadLine(r[n - 1], file[n])
           Law(r) == r = [n \in 0..L |-> After(r, n)]
           Upto(m) == \E r : r = [n \in 0..L |-> r[n]] /\ \A n \in 0..m : r[n] = After(r, n)
           T == {m \in 0..L : ~Upto(m)}
<1>1. L \in Nat
  BY FilesAreTyped
<1>2. T = {}
  <2> SUFFICES ASSUME T # {} PROVE FALSE
    OBVIOUS
  <2>1. T \in SUBSET Nat
    BY <1>1
  <2> DEFINE m == Min(T)
  <2>2. m \in T /\ \A k \in T : m <= k
    BY <2>1, LeastOfSome
  <2> HIDE DEF m
  <2>3. m \in 0..L /\ ~Upto(m) /\ m \in Nat
    BY <1>1, <2>2
  <2>4. CASE m = 0
    <3> DEFINE r == [n \in 0..L |-> Unread]
    <3>1. r = [n \in 0..L |-> r[n]] /\ \A n \in 0..0 : r[n] = After(r, n)
      BY <1>1
    <3> QED
      BY <2>3, <2>4, <3>1
  <2>5. CASE m # 0
    <3>1. m - 1 \in 0..L /\ ~(m <= m - 1)
      BY <1>1, <2>3, <2>5
    <3>2. Upto(m - 1)
      BY <2>2, <3>1
    <3>3. PICK r : r = [n \in 0..L |-> r[n]] /\ \A n \in 0..m - 1 : r[n] = After(r, n)
      BY <3>2
    <3> DEFINE q == [n \in 0..L |-> IF n = m THEN ReadLine(r[m - 1], file[m]) ELSE r[n]]
    <3>4. \A n \in 0..L : n # m => q[n] = r[n]
      OBVIOUS
    <3>5. q[m] = ReadLine(r[m - 1], file[m])
      BY <2>3
    <3>6. q = [n \in 0..L |-> q[n]]
      OBVIOUS
    <3> HIDE DEF q
    <3>7. ASSUME NEW n \in 0..m PROVE q[n] = After(q, n)
      <4>1. n \in 0..L /\ (n # 0 => n - 1 \in 0..L /\ n - 1 # m)
        BY <1>1, <2>3
      <4>2. n # 0 => q[n - 1] = r[n - 1]
        BY <3>4, <4>1
      <4>3. CASE n = m
        BY <2>5, <3>5, <4>2, <4>3
      <4>4. CASE n # m
        <5>1. n \in 0..m - 1
          BY <2>3, <4>4
        <5>2. r[n] = After(r, n) /\ q[n] = r[n]
          BY <3>3, <3>4, <4>1, <4>4, <5>1
        <5> QED
          BY <4>2, <5>2
      <4> QED
        BY <4>3, <4>4
    <3>8. Upto(m)
      BY <3>6, <3>7
    <3> QED
      BY <2>3, <3>8
  <2> QED
    BY <2>4, <2>5
<1>3. \E r : Law(r)
  <2>1. Upto(L)
    BY <1>1, <1>2
  <2>2. PICK r : r = [n \in 0..L |-> r[n]] /\ \A n \in 0..L : r[n] = After(r, n)
    BY <2>1
  <2>3. [n \in 0..L |-> r[n]] = [n \in 0..L |-> After(r, n)]
    BY <2>2
  <2> QED
    BY <2>2, <2>3
<1>4. Reading(file) = CHOOSE r : Law(r)
  BY DEF Reading
<1> HIDE DEF Law
<1>5. Law(Reading(file))
  BY <1>3, <1>4
<1> DEFINE r == Reading(file)
<1>6. r = [n \in 0..L |-> After(r, n)]
  BY <1>5 DEF Law
<1> HIDE DEF r
<1>7. \A n \in 0..L : r[n] = After(r, n)
  BY <1>6
<1> QED
  BY <1>7 DEF r

\* Some lines of a file: a finite set of numbers, with a place for each.
LEMMA LinesAreFinite ==
  ASSUME NEW n \in Nat, NEW lines \in SUBSET (1..n)
  PROVE  /\ IsFiniteSet(lines) /\ Cardinality(lines) \in Nat
         /\ \A j \in lines : PlaceIn(j, lines) \in 1..Cardinality(lines)
<1>1. IsFiniteSet(1..n)
  BY FS_Interval
<1>2. IsFiniteSet(lines) /\ Cardinality(lines) \in Nat
  BY <1>1, FS_Subset, FS_CardinalityType
<1>3. ASSUME NEW j \in lines PROVE PlaceIn(j, lines) \in 1..Cardinality(lines)
  <2> DEFINE before == {k \in lines : k <= j}
  <2>1. before \subseteq lines /\ j \in before
    OBVIOUS
  <2>2. IsFiniteSet(before) /\ Cardinality(before) <= Cardinality(lines) /\ Cardinality(before) \in Nat
    BY <1>2, <2>1, FS_Subset, FS_CardinalityType
  <2>3. Cardinality(before) # 0
    BY <2>1, <2>2, FS_EmptySet
  <2>4. PlaceIn(j, lines) = Cardinality(before)
    BY DEF PlaceIn
  <2> HIDE DEF before
  <2> QED
    BY <1>2, <2>2, <2>3, <2>4
<1> QED
  BY <1>2, <1>3

LEMMA WordsAreGiven ==
  ASSUME NEW v \in Word
  PROVE  OrElse(v, "UNKNOWN") \in Word /\ OrElse(v, "Unnamed") \in Word /\ OrElse(v, "SFC") \in Word
BY DEF OrElse, Word

\* One more line, the last: the places of the others stay, and it has the last word.
LEMMA OneMoreLine ==
  ASSUME NEW n \in Nat, NEW lines \in SUBSET (1..n)
  PROVE  /\ Cardinality(lines \cup {n + 1}) = Cardinality(lines) + 1
         /\ PlaceIn(n + 1, lines \cup {n + 1}) = Cardinality(lines) + 1
         /\ \A j \in lines : PlaceIn(j, lines \cup {n + 1}) = PlaceIn(j, lines)
<1> DEFINE more == lines \cup {n + 1}
           upTo == {k \in more : k <= n + 1}
<1>1. n + 1 \notin lines
  OBVIOUS
<1>2. Cardinality(more) = Cardinality(lines) + 1
  BY <1>1, LinesAreFinite, FS_AddElement
<1>3. upTo = more
  <2>1. \A k \in more : k <= n + 1
    OBVIOUS
  <2> QED
    BY <2>1
<1>4. \A j \in lines : {k \in more : k <= j} = {k \in lines : k <= j}
  OBVIOUS
<1> QED
  BY <1>2, <1>3, <1>4 DEF PlaceIn

LEMMA LastWord ==
  ASSUME NEW file, NEW n \in Nat, NEW lines \in SUBSET (1..n), NEW default
  PROVE  LastSaid(file, lines \cup {n + 1}, default) = OrElse(file[n + 1].v, default)
<1> DEFINE more == lines \cup {n + 1}
<1>1. n + 1 \in more /\ \A k \in more : k <= n + 1
  OBVIOUS
<1>2. \A j \in more : (\A k \in more : k <= j) => j = n + 1
  OBVIOUS
<1>3. (CHOOSE j \in more : \A k \in more : k <= j) = n + 1
  BY <1>1, <1>2
<1> QED
  BY <1>3 DEF LastSaid

\* The block that is open after some lines, and what has been read of it.
Latest(file, n) == {i \in Starts(file) : i <= n /\ \A k \in Starts(file) : k <= i \/ k > n}

ReadSoFar(c, file, i, n) ==
  LET lines == LinesTo(file, i, n)
      points == Telling(file, lines, "DP")
  IN /\ c.class = OrElse(file[i].v, "UNKNOWN")
     /\ c.name = LastSaid(file, Telling(file, lines, "AN"), "Unnamed")
     /\ c.limits = LastSaid(file, Telling(file, lines, "AL"), "SFC")
     /\ Len(c.points) = Cardinality(points)
     /\ \A j \in points : c.points[PlaceIn(j, points)] = file[j].v

Drawing(c) == [class |-> c.class, name |-> c.name, limits |-> c.limits, ring |-> Closed(c.points)]

LEMMA LinesAreSome ==
  ASSUME NEW file \in Files, NEW i \in Nat, NEW n \in Nat, NEW d
  PROVE  Telling(file, LinesTo(file, i, n), d) \in SUBSET (1..n)
BY DEF Telling, LinesTo

LEMMA StartsAreLines ==
  ASSUME NEW file \in Files
  PROVE  Starts(file) \subseteq 1..Len(file) /\ Len(file) \in Nat
BY FilesAreTyped DEF Starts

\* The lines of a block are all read where the next begins.
LEMMA BlockEnds ==
  ASSUME NEW file \in Files, NEW n \in 0..Len(file), NEW i \in Latest(file, n),
         n = Len(file) \/ n + 1 \in Starts(file)
  PROVE  LinesTo(file, i, n) = BlockFrom(file, i)
<1>1. i \in Nat /\ n \in Nat /\ Len(file) \in Nat /\ i <= n /\ n <= Len(file)
  BY StartsAreLines DEF Latest
<1>2. ASSUME NEW j \in BlockFrom(file, i) PROVE j \in i + 1 .. n
  <2>1. j \in i + 1 .. Len(file) /\ \A k \in i + 1 .. j : k \notin Starts(file)
    BY DEF BlockFrom, LinesTo
  <2>2. j > n => n + 1 \in i + 1 .. j /\ n + 1 \in Starts(file)
    BY <1>1, <2>1
  <2> QED
    BY <1>1, <2>1, <2>2
<1> QED
  BY <1>1, <1>2 DEF BlockFrom, LinesTo

LEMMA LinesGrow ==
  ASSUME NEW file \in Files, NEW n \in Nat, n + 1 \in 1..Len(file), NEW i \in Latest(file, n),
         n + 1 \notin Starts(file)
  PROVE  /\ LinesTo(file, i, n + 1) = LinesTo(file, i, n) \cup {n + 1}
         /\ i \in Latest(file, n + 1)
<1>1. i \in Nat /\ i <= n /\ \A k \in Starts(file) : k \in Nat /\ (k <= i \/ k > n) /\ k # n + 1
  BY StartsAreLines DEF Latest
<1>2. i \in Latest(file, n + 1)
  BY <1>1 DEF Latest
<1>3. \A k \in i + 1 .. n + 1 : k \notin Starts(file)
  BY <1>1
<1>4. LinesTo(file, i, n + 1) = i + 1 .. n + 1 /\ LinesTo(file, i, n) = i + 1 .. n
  BY <1>1, <1>3 DEF LinesTo
<1> QED
  BY <1>1, <1>2, <1>4

LEMMA FlushedIsDrawn ==
  ASSUME NEW file \in Files, NEW c \in Outline, NEW i \in Starts(file), ReadSoFar(c, file, i, Len(file))
  PROVE  /\ Len(c.points) < 3 => i \notin Blocks(file)
         /\ Len(c.points) >= 3 => i \in Blocks(file) /\ Drawing(c) \in Space /\ Draws(Drawing(c), file, i)
<1> DEFINE n == Len(file)
           points == Telling(file, BlockFrom(file, i), "DP")
           p == c.points
           ring == Closed(p)
<1>1. n \in Nat /\ i \in Nat /\ points \in SUBSET (1..n)
  BY StartsAreLines, LinesAreSome DEF BlockFrom
<1>2. Cardinality(points) \in Nat /\ \A j \in points : PlaceIn(j, points) \in 1..Cardinality(points)
  BY <1>1, LinesAreFinite
<1>3. p \in Seq(Word) /\ Len(p) = Cardinality(points) /\ \A j \in points : p[PlaceIn(j, points)] = file[j].v
  BY DEF ReadSoFar, Outline, BlockFrom
<1>4. Len(p) < 3 => i \notin Blocks(file)
  BY <1>2, <1>3 DEF Blocks
<1>5. ASSUME Len(p) >= 3
      PROVE  i \in Blocks(file) /\ Drawing(c) \in Space /\ Draws(Drawing(c), file, i)
  <2>1. i \in Blocks(file)
    BY <1>2, <1>3, <1>5 DEF Blocks
  <2>2. /\ ring \in Seq(Word) /\ Len(ring) \in {Len(p), Len(p) + 1}
        /\ \A x \in 1..Len(p) : ring[x] = p[x]
        /\ ring[Len(ring)] = ring[1]
    <3>1. CASE p[Len(p)] = p[1]
      BY <1>3, <3>1 DEF Closed
    <3>2. CASE p[Len(p)] # p[1]
      <4>1. ring = Append(p, p[1])
        BY <3>2 DEF Closed
      <4>2. p[1] \in Word /\ Len(p) \in Nat
        BY <1>3, <1>5
      <4> QED
        BY <1>3, <1>5, <4>1, <4>2
    <3> QED
      BY <3>1, <3>2
  <2> DEFINE a == Drawing(c)
  <2>3. a.class = c.class /\ a.name = c.name /\ a.limits = c.limits /\ a.ring = ring
    BY DEF Drawing
  <2>4. a \in Space
    BY <2>2 DEF Drawing, Space, Outline
  <2>5. \A j \in points : a.ring[PlaceIn(j, points)] = file[j].v
    BY <1>2, <1>3, <2>2, <2>3
  <2> HIDE DEF a
  <2>6. Draws(a, file, i)
    BY <1>3, <2>2, <2>3, <2>5 DEF Draws, ReadSoFar, BlockFrom
  <2> QED
    BY <2>1, <2>4, <2>6 DEF a
<1> QED
  BY <1>4, <1>5

\* A line that begins no block: the open one holds what it says.
LEMMA HeldGrows ==
  ASSUME NEW file \in Files, NEW n \in Nat, n + 1 \in 1..Len(file), NEW i \in Latest(file, n),
         n + 1 \notin Starts(file), NEW s \in ReaderState, s.open, ReadSoFar(s.current, file, i, n)
  PROVE  LET t == ReadLine(s, file[n + 1])
         IN /\ t \in ReaderState /\ t.open /\ t.spaces = s.spaces
            /\ ReadSoFar(t.current, file, i, n + 1)
<1> DEFINE l == file[n + 1]
           t == ReadLine(s, l)
           c == s.current
           lines == LinesTo(file, i, n)
           more == LinesTo(file, i, n + 1)
<1>1. l.d \in {"AN", "AL", "DP", "DC"} /\ l.v \in Word
  BY FilesAreTyped DEF Starts, Word
<1>2. i \in Nat /\ more = lines \cup {n + 1}
  BY LinesGrow, StartsAreLines DEF Latest
<1>3. \A d : /\ Telling(file, lines, d) \in SUBSET (1..n)
             /\ Telling(file, more, d) =
                  Telling(file, lines, d) \cup
                    (IF l.d = d /\ ~(d = "DP" /\ l.v = "unreadable") THEN {n + 1} ELSE {})
  <2> SUFFICES ASSUME NEW d
               PROVE  /\ Telling(file, lines, d) \in SUBSET (1..n)
                      /\ Telling(file, more, d) =
                           Telling(file, lines, d) \cup
                             (IF l.d = d /\ ~(d = "DP" /\ l.v = "unreadable") THEN {n + 1} ELSE {})
    OBVIOUS
  <2>1. Telling(file, lines, d) \in SUBSET (1..n)
    BY <1>2, LinesAreSome
  <2> HIDE DEF lines, more
  <2>2. Telling(file, lines \cup {n + 1}, d) =
          Telling(file, lines, d) \cup
            (IF l.d = d /\ ~(d = "DP" /\ l.v = "unreadable") THEN {n + 1} ELSE {})
    BY DEF Telling
  <2> QED
    BY <1>2, <2>1, <2>2
<1> DEFINE points == Telling(file, lines, "DP")
<1>4. /\ c \in Outline /\ s.errors \in Nat /\ s.spaces \in Seq(Space)
      /\ c.class \in Word /\ c.name \in Word /\ c.limits \in Word /\ c.points \in Seq(Word)
  BY DEF ReaderState, Outline
<1>5. /\ c.class = OrElse(file[i].v, "UNKNOWN")
      /\ c.name = LastSaid(file, Telling(file, lines, "AN"), "Unnamed")
      /\ c.limits = LastSaid(file, Telling(file, lines, "AL"), "SFC")
      /\ Len(c.points) = Cardinality(points)
      /\ \A j \in points : c.points[PlaceIn(j, points)] = file[j].v
  BY DEF ReadSoFar
<1> HIDE DEF l, lines, more
<1>6. OrElse(l.v, "Unnamed") \in Word /\ OrElse(l.v, "SFC") \in Word
  BY <1>1, WordsAreGiven
<1>7. CASE l.d = "AN"
  <2>1. t = [s EXCEPT !.current.name = OrElse(l.v, "Unnamed")]
    BY <1>7 DEF ReadLine
  <2>2. t \in ReaderState /\ t.open /\ t.spaces = s.spaces
    BY <1>4, <1>6, <2>1 DEF ReaderState, Outline
  <2>3. /\ t.current.class = c.class /\ t.current.limits = c.limits /\ t.current.points = c.points
        /\ t.current.name = OrElse(l.v, "Unnamed")
    BY <2>1, <1>4 DEF ReaderState, Outline
  <2>4. /\ Telling(file, more, "AN") = Telling(file, lines, "AN") \cup {n + 1}
        /\ Telling(file, more, "AL") = Telling(file, lines, "AL")
        /\ Telling(file, more, "DP") = points
    BY <1>3, <1>7
  <2>5. LastSaid(file, Telling(file, more, "AN"), "Unnamed") = OrElse(l.v, "Unnamed")
    <3> DEFINE told == Telling(file, lines, "AN")
    <3>1. told \in SUBSET (1..n)
      BY <1>3
    <3> HIDE DEF told
    <3>2. LastSaid(file, told \cup {n + 1}, "Unnamed") = OrElse(file[n + 1].v, "Unnamed")
      BY <3>1, LastWord
    <3> QED
      BY <2>4, <3>2 DEF told, l
  <2> QED
    BY <1>5, <2>2, <2>3, <2>4, <2>5 DEF ReadSoFar, l, more
<1>8. CASE l.d = "AL"
  <2>1. t = [s EXCEPT !.current.limits = OrElse(l.v, "SFC")]
    BY <1>8 DEF ReadLine
  <2>2. t \in ReaderState /\ t.open /\ t.spaces = s.spaces
    BY <1>4, <1>6, <2>1 DEF ReaderState, Outline
  <2>3. /\ t.current.class = c.class /\ t.current.name = c.name /\ t.current.points = c.points
        /\ t.current.limits = OrElse(l.v, "SFC")
    BY <2>1, <1>4 DEF ReaderState, Outline
  <2>4. /\ Telling(file, more, "AL") = Telling(file, lines, "AL") \cup {n + 1}
        /\ Telling(file, more, "AN") = Telling(file, lines, "AN")
        /\ Telling(file, more, "DP") = points
    BY <1>3, <1>8
  <2>5. LastSaid(file, Telling(file, more, "AL"), "SFC") = OrElse(l.v, "SFC")
    <3> DEFINE told == Telling(file, lines, "AL")
    <3>1. told \in SUBSET (1..n)
      BY <1>3
    <3> HIDE DEF told
    <3>2. LastSaid(file, told \cup {n + 1}, "SFC") = OrElse(file[n + 1].v, "SFC")
      BY <3>1, LastWord
    <3> QED
      BY <2>4, <3>2 DEF told, l
  <2> QED
    BY <1>5, <2>2, <2>3, <2>4, <2>5 DEF ReadSoFar, l, more
<1>9. CASE l.d = "DP" /\ l.v # "unreadable"
  <2>1. t = [s EXCEPT !.current.points = Append(@, l.v)]
    BY <1>9 DEF ReadLine
  <2> DEFINE p == Append(c.points, l.v)
  <2>2. /\ p \in Seq(Word) /\ Len(p) = Len(c.points) + 1 /\ p[Len(c.points) + 1] = l.v
        /\ \A x \in 1..Len(c.points) : p[x] = c.points[x]
    BY <1>1, <1>4
  <2> HIDE DEF p
  <2>3. t = [s EXCEPT !.current.points = p]
    BY <2>1, <1>4 DEF p, ReaderState, Outline
  <2>4. t \in ReaderState /\ t.open /\ t.spaces = s.spaces
    BY <1>4, <2>2, <2>3 DEF ReaderState, Outline
  <2>5. /\ t.current.class = c.class /\ t.current.name = c.name /\ t.current.limits = c.limits
        /\ t.current.points = p
    BY <2>3, <1>4 DEF ReaderState, Outline
  <2>6. /\ Telling(file, more, "AN") = Telling(file, lines, "AN")
        /\ Telling(file, more, "AL") = Telling(file, lines, "AL")
        /\ Telling(file, more, "DP") = points \cup {n + 1}
    BY <1>3, <1>9
  <2> DEFINE all == points \cup {n + 1}
  <2>7. points \in SUBSET (1..n)
    BY <1>3
  <2>8. /\ Cardinality(all) = Cardinality(points) + 1 /\ PlaceIn(n + 1, all) = Cardinality(points) + 1
        /\ \A j \in points : PlaceIn(j, all) = PlaceIn(j, points)
    BY <2>7, OneMoreLine
  <2>9. \A j \in points : PlaceIn(j, points) \in 1..Cardinality(points)
    BY <2>7, LinesAreFinite
  <2>10. file[n + 1].v = l.v
    BY DEF l
  <2> HIDE DEF points
  <2>11. \A j \in all : p[PlaceIn(j, all)] = file[j].v
    BY <1>5, <2>2, <2>8, <2>9, <2>10
  <2>12. Len(p) = Cardinality(all)
    BY <1>5, <2>2, <2>8
  <2> HIDE DEF all
  <2>13. Telling(file, more, "DP") = all
    BY <2>6 DEF all
  <2> QED
    BY <1>5, <2>4, <2>5, <2>6, <2>11, <2>12, <2>13 DEF ReadSoFar, l, more
<1>10. CASE l.d = "DC" \/ (l.d = "DP" /\ l.v = "unreadable")
  <2>1. t = [s EXCEPT !.errors = @ + 1]
    BY <1>10 DEF ReadLine
  <2>2. t \in ReaderState /\ t.open /\ t.spaces = s.spaces /\ t.current = c
    BY <1>4, <2>1 DEF ReaderState
  <2>3. /\ Telling(file, more, "AN") = Telling(file, lines, "AN")
        /\ Telling(file, more, "AL") = Telling(file, lines, "AL")
        /\ Telling(file, more, "DP") = points
    BY <1>3, <1>10
  <2> QED
    BY <1>5, <2>2, <2>3 DEF ReadSoFar, l, more
<1>11. \/ l.d = "AN"
       \/ l.d = "AL"
       \/ l.d = "DP" /\ l.v # "unreadable"
       \/ l.d = "DC" \/ (l.d = "DP" /\ l.v = "unreadable")
  BY <1>1
<1> QED
  BY <1>7, <1>8, <1>9, <1>10, <1>11

\* The blocks drawn so far.
DrawnIn(spaces, file, i) == \E x \in DOMAIN spaces : Draws(spaces[x], file, i)
OfBlocks(spaces, file) == \A x \in DOMAIN spaces : \E i \in Blocks(file) : Draws(spaces[x], file, i)

\* What the reader has after the first n lines.
ReadTo(file, n, s) ==
  /\ s \in ReaderState
  /\ s.open => \E i \in Latest(file, n) : ReadSoFar(s.current, file, i, n)
  /\ ~s.open => \A i \in Starts(file) : i > n
  /\ \A i \in Blocks(file) : i <= n /\ i \notin Latest(file, n) => DrawnIn(s.spaces, file, i)
  /\ OfBlocks(s.spaces, file)

LEMMA OneMoreDrawing ==
  ASSUME NEW file, NEW spaces \in Seq(Space), NEW a \in Space, NEW i \in Blocks(file),
         Draws(a, file, i), OfBlocks(spaces, file)
  PROVE  LET more == Append(spaces, a)
         IN /\ more \in Seq(Space) /\ OfBlocks(more, file) /\ DrawnIn(more, file, i)
            /\ \A k : DrawnIn(spaces, file, k) => DrawnIn(more, file, k)
<1> DEFINE more == Append(spaces, a)
           m == Len(spaces)
<1>1. /\ more \in Seq(Space) /\ m \in Nat /\ DOMAIN spaces = 1..m /\ DOMAIN more = 1..m + 1
      /\ more[m + 1] = a /\ \A x \in 1..m : more[x] = spaces[x]
  OBVIOUS
<1> HIDE DEF more, m
<1>2. DrawnIn(more, file, i)
  BY <1>1 DEF DrawnIn
<1>3. ASSUME NEW k, DrawnIn(spaces, file, k) PROVE DrawnIn(more, file, k)
  BY <1>1, <1>3 DEF DrawnIn
<1>4. ASSUME NEW x \in DOMAIN more PROVE \E k \in Blocks(file) : Draws(more[x], file, k)
  <2>1. x = m + 1 \/ x \in 1..m
    BY <1>1
  <2> QED
    BY <1>1, <2>1 DEF OfBlocks
<1> QED
  BY <1>1, <1>2, <1>3, <1>4 DEF OfBlocks, more

LEMMA FlushedIsWhole ==
  ASSUME NEW file \in Files, NEW n \in 0..Len(file), n = Len(file) \/ n + 1 \in Starts(file),
         NEW s, ReadTo(file, n, s)
  PROVE  LET f == Flushed(s)
         IN /\ f \in ReaderState
            /\ \A i \in Blocks(file) : i <= n => DrawnIn(f.spaces, file, i)
            /\ OfBlocks(f.spaces, file)
<1> DEFINE f == Flushed(s)
           c == s.current
<1>1. /\ s \in ReaderState /\ s.open \in BOOLEAN /\ c \in Outline /\ s.errors \in Nat /\ s.spaces \in Seq(Space)
      /\ OfBlocks(s.spaces, file)
      /\ \A i \in Blocks(file) : i <= n /\ i \notin Latest(file, n) => DrawnIn(s.spaces, file, i)
  BY DEF ReadTo, ReaderState
<1>2. n \in Nat /\ \A i \in Blocks(file) : i \in Starts(file) /\ i \in Nat
  BY StartsAreLines DEF Blocks
<1>3. CASE ~s.open
  <2>1. f = s /\ \A i \in Starts(file) : i > n
    BY <1>3 DEF Flushed, ReadTo
  <2>2. \A i \in Blocks(file) : ~(i <= n)
    BY <1>2, <2>1
  <2> QED
    BY <1>1, <2>1, <2>2
<1>4. CASE s.open
  <2>1. PICK i \in Latest(file, n) : ReadSoFar(c, file, i, n)
    BY <1>4 DEF ReadTo
  <2>2. \A k \in Latest(file, n) : k = i
    <3> SUFFICES ASSUME NEW k \in Latest(file, n) PROVE k = i
      OBVIOUS
    <3>1. i \in Starts(file) /\ k \in Starts(file) /\ i \in Nat /\ k \in Nat
      BY StartsAreLines DEF Latest
    <3>2. i <= k /\ k <= i
      BY <1>2, <3>1 DEF Latest
    <3> QED
      BY <3>1, <3>2
  <2>3. ReadSoFar(c, file, i, Len(file)) /\ i \in Starts(file)
    BY <2>1, BlockEnds DEF ReadSoFar, BlockFrom, Latest
  <2>4. /\ Len(c.points) < 3 => i \notin Blocks(file)
        /\ Len(c.points) >= 3 => i \in Blocks(file) /\ Drawing(c) \in Space /\ Draws(Drawing(c), file, i)
    BY <1>1, <2>3, FlushedIsDrawn
  <2>5. CASE Len(c.points) < 3
    <3>1. f = [s EXCEPT !.open = FALSE, !.errors = @ + 1]
      BY <1>4, <2>5 DEF Flushed
    <3> HIDE DEF f, c
    <3>2. f = [open |-> FALSE, current |-> c, spaces |-> s.spaces, errors |-> s.errors + 1]
      BY <1>1, <3>1 DEF ReaderState, c
    <3>2a. f \in ReaderState /\ f.spaces = s.spaces
      BY <1>1, <3>2 DEF ReaderState
    <3>3. ASSUME NEW k \in Blocks(file), k <= n PROVE DrawnIn(s.spaces, file, k)
      BY <1>1, <2>2, <2>4, <2>5, <3>3
    <3> QED
      BY <1>1, <3>2a, <3>3 DEF f
  <2>6. CASE ~(Len(c.points) < 3)
    <3>1. Len(c.points) \in Nat /\ Len(c.points) >= 3
      BY <1>1, <2>6 DEF Outline
    <3> DEFINE more == Append(s.spaces, Drawing(c))
    <3>2. f = [s EXCEPT !.open = FALSE, !.spaces = more]
      BY <1>4, <2>6 DEF Flushed, Drawing
    <3>3. /\ more \in Seq(Space) /\ OfBlocks(more, file) /\ DrawnIn(more, file, i)
          /\ \A k : DrawnIn(s.spaces, file, k) => DrawnIn(more, file, k)
      BY <1>1, <2>4, <3>1, OneMoreDrawing
    <3> HIDE DEF more
    <3>4. f \in ReaderState /\ f.spaces = more
      BY <1>1, <3>2, <3>3 DEF ReaderState
    <3>5. ASSUME NEW k \in Blocks(file), k <= n PROVE DrawnIn(more, file, k)
      BY <1>1, <2>2, <3>3, <3>5
    <3> HIDE DEF f
    <3> QED
      BY <3>3, <3>4, <3>5 DEF f
  <2> QED
    BY <2>5, <2>6
<1> QED
  BY <1>3, <1>4

LEMMA ReadingGoesOn ==
  ASSUME NEW file \in Files, NEW n \in Nat, n + 1 \in 1..Len(file), NEW s, ReadTo(file, n, s)
  PROVE  ReadTo(file, n + 1, ReadLine(s, file[n + 1]))
<1> DEFINE l == file[n + 1]
           t == ReadLine(s, l)
<1>1. /\ s \in ReaderState /\ s.open \in BOOLEAN /\ OfBlocks(s.spaces, file)
      /\ \A i \in Blocks(file) : i <= n /\ i \notin Latest(file, n) => DrawnIn(s.spaces, file, i)
  BY DEF ReadTo, ReaderState
<1>2. /\ Len(file) \in Nat /\ n + 1 \in DOMAIN file /\ n \in 0..Len(file)
      /\ \A i \in Starts(file) : i \in Nat
      /\ Blocks(file) \subseteq Starts(file)
  BY FilesAreTyped, StartsAreLines DEF Blocks
<1>3. CASE l.d = "AC"
  <2>1. n + 1 \in Starts(file)
    BY <1>2, <1>3 DEF Starts
  <2> DEFINE f == Flushed(s)
             c == [class |-> OrElse(l.v, "UNKNOWN"), name |-> "Unnamed", limits |-> "SFC", points |-> <<>>]
  <2>2. /\ f \in ReaderState /\ OfBlocks(f.spaces, file)
        /\ \A i \in Blocks(file) : i <= n => DrawnIn(f.spaces, file, i)
    BY <1>2, <2>1, FlushedIsWhole
  <2>3. t = [f EXCEPT !.open = TRUE, !.current = c]
    BY <1>3 DEF ReadLine
  <2>4. c \in Outline
    <3>1. l.v \in Word
      BY <1>2, FilesAreTyped DEF Word
    <3>2. OrElse(l.v, "UNKNOWN") \in Word /\ "Unnamed" \in Word /\ "SFC" \in Word
      BY <3>1, WordsAreGiven DEF Word
    <3>3. <<>> \in Seq(Word)
      OBVIOUS
    <3> HIDE DEF l
    <3> QED
      BY <3>2, <3>3 DEF Outline
  <2>5. ReadSoFar(c, file, n + 1, n + 1)
    <3>1. LinesTo(file, n + 1, n + 1) = {}
      BY DEF LinesTo
    <3>2. \A d : Telling(file, {}, d) = {}
      BY DEF Telling
    <3>3. \A default : LastSaid(file, {}, default) = default
      BY DEF LastSaid
    <3>4. Len(c.points) = 0 /\ Cardinality({}) = 0
      BY FS_EmptySet
    <3> QED
      BY <3>1, <3>2, <3>3, <3>4 DEF ReadSoFar
  <2>6. n + 1 \in Latest(file, n + 1)
    BY <1>2, <2>1 DEF Latest
  <2> HIDE DEF f, c
  <2>7. t \in ReaderState /\ t.open /\ t.current = c /\ t.spaces = f.spaces
    BY <2>2, <2>3, <2>4 DEF ReaderState
  <2>8. ASSUME NEW i \in Blocks(file), i <= n + 1, i \notin Latest(file, n + 1)
        PROVE  DrawnIn(f.spaces, file, i)
    <3>1. i # n + 1 /\ i \in Nat
      BY <1>2, <2>6, <2>8
    <3>2. i <= n
      BY <2>8, <3>1
    <3> QED
      BY <2>2, <3>2
  <2> HIDE DEF t
  <2>9. ReadTo(file, n + 1, t)
    BY <2>2, <2>5, <2>6, <2>7, <2>8 DEF ReadTo
  <2> QED
    BY <2>9 DEF t
<1>4. CASE l.d # "AC" /\ ~s.open
  <2>1. t = s
    BY <1>4 DEF ReadLine
  <2>2. n + 1 \notin Starts(file)
    BY <1>4 DEF Starts
  <2>3. ASSUME NEW i \in Starts(file) PROVE i > n + 1
    <3>1. i > n /\ i \in Nat /\ i # n + 1
      BY <1>2, <1>4, <2>2 DEF ReadTo
    <3> QED
      BY <3>1
  <2>4. \A i \in Blocks(file) : ~(i <= n + 1)
    BY <1>2, <2>3
  <2>5. ReadTo(file, n + 1, s)
    BY <1>1, <1>4, <2>3, <2>4 DEF ReadTo
  <2> QED
    BY <2>1, <2>5
<1>5. CASE l.d # "AC" /\ s.open
  <2>1. n + 1 \notin Starts(file)
    BY <1>5 DEF Starts
  <2>2. PICK i \in Latest(file, n) : ReadSoFar(s.current, file, i, n)
    BY <1>5 DEF ReadTo
  <2>3. t \in ReaderState /\ t.open /\ t.spaces = s.spaces /\ ReadSoFar(t.current, file, i, n + 1)
    BY <1>1, <1>5, <2>1, <2>2, HeldGrows
  <2>4. i \in Latest(file, n + 1)
    BY <2>1, <2>2, LinesGrow
  <2>5. ASSUME NEW k \in Blocks(file), k <= n + 1, k \notin Latest(file, n + 1)
        PROVE  DrawnIn(s.spaces, file, k)
    <3>1. k \in Nat /\ k \in Starts(file) /\ k # n + 1
      BY <1>2, <2>1
    <3>2. k <= n
      BY <2>5, <3>1
    <3>3. k \notin Latest(file, n)
      BY <2>1, <2>5, LinesGrow
    <3> QED
      BY <1>1, <3>2, <3>3
  <2> HIDE DEF t
  <2>6. ReadTo(file, n + 1, t)
    BY <1>1, <2>3, <2>4, <2>5 DEF ReadTo
  <2> QED
    BY <2>6 DEF t
<1> QED
  BY <1>1, <1>3, <1>4, <1>5

\* Every block of a file is read into an airspace, and each airspace from a block.
THEOREM FilesAreReadWhole ==
  ASSUME NEW file \in Files
  PROVE  LET spaces == ParseOpenAirFile(file)
         IN /\ spaces \in Seq(Space)
            /\ \A i \in Blocks(file) : \E x \in DOMAIN spaces : Draws(spaces[x], file, i)
            /\ \A x \in DOMAIN spaces : \E i \in Blocks(file) : Draws(spaces[x], file, i)
<1> DEFINE L == Len(file)
           r == Reading(file)
           T == {n \in 0..L : ~ReadTo(file, n, r[n])}
<1>1. L \in Nat /\ \A i \in Starts(file) : i \in Nat /\ i > 0 /\ i <= L
  BY StartsAreLines
<1>2. \A n \in 0..L : r[n] = IF n = 0 THEN Unread ELSE ReadLine(r[n - 1], file[n])
  BY ReadingLaw
<1> HIDE DEF r
<1>3. T = {}
  <2> SUFFICES ASSUME T # {} PROVE FALSE
    OBVIOUS
  <2>1. T \in SUBSET Nat
    BY <1>1
  <2> DEFINE m == Min(T)
  <2>2. m \in T /\ \A k \in T : m <= k
    BY <2>1, LeastOfSome
  <2> HIDE DEF m
  <2>3. m \in 0..L /\ ~ReadTo(file, m, r[m])
    BY <2>2
  <2>4. CASE m = 0
    <3>1. r[0] = Unread
      BY <1>1, <1>2
    <3>2. Unread \in ReaderState /\ ~Unread.open /\ Unread.spaces = <<>>
      BY DEF Unread, ReaderState, Nothing, Outline, Word
    <3>3. \A i \in Blocks(file) : ~(i <= 0)
      BY <1>1 DEF Blocks
    <3>4. OfBlocks(<<>>, file)
      BY DEF OfBlocks
    <3>5. ReadTo(file, 0, Unread)
      BY <1>1, <3>2, <3>3, <3>4 DEF ReadTo
    <3> QED
      BY <2>3, <2>4, <3>1, <3>5
  <2>5. CASE m # 0
    <3> DEFINE n == m - 1
    <3>1. n \in Nat /\ n \in 0..L /\ m = n + 1 /\ ~(m <= n) /\ m \in 1..L
      BY <1>1, <2>3, <2>5
    <3> HIDE DEF n
    <3>2. ReadTo(file, n, r[n])
      BY <2>2, <3>1
    <3>3. ReadTo(file, n + 1, ReadLine(r[n], file[n + 1]))
      BY <3>1, <3>2, ReadingGoesOn
    <3>4. r[m] = ReadLine(r[n], file[n + 1])
      BY <1>2, <2>5, <3>1 DEF n
    <3> QED
      BY <2>3, <3>1, <3>3, <3>4
  <2> QED
    BY <2>4, <2>5
<1>4. L \in 0..L /\ ReadTo(file, L, r[L])
  BY <1>1, <1>3
<1> DEFINE f == Flushed(r[L])
<1>5. /\ f \in ReaderState /\ OfBlocks(f.spaces, file)
      /\ \A i \in Blocks(file) : i <= L => DrawnIn(f.spaces, file, i)
  BY <1>4, FlushedIsWhole
<1>6. \A i \in Blocks(file) : i <= L
  BY <1>1 DEF Blocks
<1>7. ParseOpenAirFile(file) = f.spaces
  BY DEF ParseOpenAirFile, r
<1> HIDE DEF f
<1>8. f.spaces \in Seq(Space)
  BY <1>5 DEF ReaderState
<1> QED
  BY <1>5, <1>6, <1>7, <1>8 DEF OfBlocks, DrawnIn

(* Airspaces: the rows of OpenAir files *)

\* The airspaces written so far have their rows, and every row is that of a block.
HasItsRow(k) == \E row \in drawn : row.sid = SourceId(desk.spaces[k], k) /\ row.shown = desk.spaces[k]

DeskInv ==
  /\ desk = [step |-> desk.step, from |-> desk.from, replace |-> desk.replace, file |-> desk.file,
             spaces |-> desk.spaces, next |-> desk.next]
  /\ desk.step # "none" =>
       /\ desk.file \in Files /\ desk.spaces = ParseOpenAirFile(desk.file)
       /\ desk.next \in Nat \ {0}
       /\ \A k \in DOMAIN desk.spaces : k < desk.next => HasItsRow(k)
  /\ desk.step = "done" => \A k \in DOMAIN desk.spaces : k < desk.next

RowsAreBlocks == \A r \in drawn : \E file \in Files : \E i \in Blocks(file) : Draws(r.shown, file, i)

FilesInv == DeskInv /\ RowsAreBlocks

THEOREM FilesInvHolds == AirspacesSpec => []FilesInv
<1>1. AirspacesInit => FilesInv
  BY DEF AirspacesInit, FilesInv, DeskInv, RowsAreBlocks, NoRequest
<1>2. FilesInv /\ [AirspacesNext]_airspaceVars => FilesInv'
  <2> SUFFICES ASSUME FilesInv, [AirspacesNext]_airspaceVars PROVE FilesInv'
    OBVIOUS
  <2>1. ASSUME NEW s \in Origin, NEW file \in Files, NEW replace \in BOOLEAN, ReceiveOpenAir(s, file, replace)
        PROVE  FilesInv'
    <3>1. /\ drawn' \subseteq drawn
          /\ desk' = [step |-> "writing", from |-> s, replace |-> replace, file |-> file,
                      spaces |-> ParseOpenAirFile(file), next |-> 1]
      BY <2>1 DEF ReceiveOpenAir
    <3> DEFINE spaces == ParseOpenAirFile(file)
    <3>2. \A k \in DOMAIN spaces : ~(k < 1)
      <4>1. spaces \in Seq(Space)
        BY FilesAreReadWhole
      <4> QED
        BY <4>1
    <3> HIDE DEF spaces
    <3>3. /\ desk'.step = "writing" /\ desk'.file = file /\ desk'.spaces = spaces /\ desk'.next = 1
          /\ desk' = [step |-> desk'.step, from |-> desk'.from, replace |-> desk'.replace,
                      file |-> desk'.file, spaces |-> desk'.spaces, next |-> desk'.next]
      BY <3>1 DEF spaces
    <3>4. DeskInv'
      BY <3>2, <3>3 DEF DeskInv, spaces
    <3> QED
      BY <3>1, <3>4 DEF FilesInv, RowsAreBlocks
  <2>2. CASE UpsertDrawn
    <3> DEFINE n == desk.next
               spaces == desk.spaces
               a == spaces[n]
               sid == SourceId(a, n)
               row == [sid |-> sid, shown |-> a, of |-> desk.from]
    <3>1. /\ desk.step = "writing" /\ n <= Len(spaces)
          /\ drawn' = {r \in drawn : r.sid # sid} \cup {row}
          /\ desk' = [desk EXCEPT !.next = @ + 1]
      BY <2>2 DEF UpsertDrawn
    <3>2. /\ desk.file \in Files /\ spaces = ParseOpenAirFile(desk.file) /\ n \in Nat
          /\ \A k \in DOMAIN spaces : k < n => HasItsRow(k)
      BY <3>1 DEF FilesInv, DeskInv
    <3>3. /\ spaces \in Seq(Space)
          /\ \A x \in DOMAIN spaces : \E i \in Blocks(desk.file) : Draws(spaces[x], desk.file, i)
      BY <3>2, FilesAreReadWhole
    <3>4. /\ desk'.step = "writing" /\ desk'.file = desk.file /\ desk'.spaces = spaces
          /\ desk'.next = n + 1
          /\ desk' = [step |-> desk'.step, from |-> desk'.from, replace |-> desk'.replace,
                      file |-> desk'.file, spaces |-> desk'.spaces, next |-> desk'.next]
      BY <3>1 DEF FilesInv, DeskInv
    <3>5. ASSUME NEW k \in DOMAIN spaces, k < n + 1
          PROVE  \E r \in drawn' : r.sid = SourceId(spaces[k], k) /\ r.shown = spaces[k]
      <4>1. CASE k = n
        <5>1. row \in drawn' /\ row.sid = sid /\ row.shown = a
          BY <3>1
        <5> QED
          BY <4>1, <5>1
      <4>2. CASE k # n
        <5>1. k \in Nat
          BY <3>3
        <5>2. k < n
          BY <3>2, <3>5, <4>2, <5>1
        <5>3. PICK r \in drawn : r.sid = SourceId(spaces[k], k) /\ r.shown = spaces[k]
          BY <3>2, <5>2 DEF HasItsRow
        <5>4. SourceId(spaces[k], k) # sid
          BY <4>2 DEF SourceId
        <5> HIDE DEF sid
        <5> QED
          BY <3>1, <5>3, <5>4
      <4> QED
        BY <4>1, <4>2
    <3>6. n \in DOMAIN spaces
      <4>1. n # 0
        BY <3>1, <3>2 DEF FilesInv, DeskInv
      <4> QED
        BY <3>1, <3>2, <3>3, <4>1
    <3>7. RowsAreBlocks'
      <4>1. \E i \in Blocks(desk.file) : Draws(a, desk.file, i)
        BY <3>3, <3>6
      <4> HIDE DEF a, sid
      <4>2. row.shown = a
        OBVIOUS
      <4>3. \A r \in drawn' : r \in drawn \/ r = row
        BY <3>1
      <4> HIDE DEF row
      <4>4. ASSUME NEW r \in drawn' PROVE \E file \in Files : \E i \in Blocks(file) : Draws(r.shown, file, i)
        BY <3>2, <4>1, <4>2, <4>3 DEF FilesInv, RowsAreBlocks
      <4> QED
        BY <4>4 DEF RowsAreBlocks
    <3>8. DeskInv'
      <4> HIDE DEF spaces, n, a, sid, row
      <4>1. \A k \in DOMAIN desk'.spaces : k < desk'.next => HasItsRow(k)'
        BY <3>4, <3>5 DEF HasItsRow
      <4>2. desk'.next \in Nat \ {0} /\ desk'.spaces = ParseOpenAirFile(desk'.file) /\ desk'.file \in Files
        BY <3>2, <3>4
      <4> QED
        BY <3>4, <4>1, <4>2 DEF DeskInv
    <3> QED
      BY <3>7, <3>8 DEF FilesInv
  <2>3. CASE AnswerOpenAir
    <3>1. /\ desk.step = "writing" /\ desk.next > Len(desk.spaces)
          /\ desk' = [desk EXCEPT !.step = "done"] /\ drawn' = drawn
      BY <2>3 DEF AnswerOpenAir
    <3>2. /\ desk.file \in Files /\ desk.spaces = ParseOpenAirFile(desk.file) /\ desk.next \in Nat \ {0}
          /\ \A k \in DOMAIN desk.spaces : k < desk.next => HasItsRow(k)
      BY <3>1 DEF FilesInv, DeskInv
    <3>3. /\ desk'.step = "done" /\ desk'.file = desk.file /\ desk'.spaces = desk.spaces
          /\ desk'.next = desk.next
          /\ desk' = [step |-> desk'.step, from |-> desk'.from, replace |-> desk'.replace,
                      file |-> desk'.file, spaces |-> desk'.spaces, next |-> desk'.next]
      BY <3>1 DEF FilesInv, DeskInv
    <3>4. desk.spaces \in Seq(Space)
      BY <3>2, FilesAreReadWhole
    <3>5. \A k \in DOMAIN desk.spaces : k < desk.next
      BY <3>1, <3>2, <3>4
    <3>6. \A k \in DOMAIN desk'.spaces : HasItsRow(k)'
      BY <3>1, <3>2, <3>3, <3>5 DEF HasItsRow
    <3>7. DeskInv'
      BY <3>2, <3>3, <3>5, <3>6 DEF DeskInv
    <3> QED
      BY <3>1, <3>7 DEF FilesInv, RowsAreBlocks
  <2>4. CASE FailOpenAir
    BY <2>4 DEF FailOpenAir, FilesInv, DeskInv, RowsAreBlocks, NoRequest
  <2>5. CASE UNCHANGED <<drawn, desk>>
    BY <2>5 DEF FilesInv, DeskInv, RowsAreBlocks, HasItsRow
  <2>6. ASSUME NEW x \in Airspace, OpenAipReissues(x) \/ UpsertAirspace(x) \/ SkipAirspace(x)
        PROVE  UNCHANGED <<drawn, desk>>
    BY <2>6 DEF OpenAipReissues, UpsertAirspace, SkipAirspace
  <2>7. FetchAirspaces \/ EndAirspaces \/ UNCHANGED airspaceVars => UNCHANGED <<drawn, desk>>
    BY DEF FetchAirspaces, EndAirspaces, airspaceVars
  <2> QED
    BY <2>1, <2>2, <2>3, <2>4, <2>5, <2>6, <2>7 DEF AirspacesNext
<1> QED
  BY <1>1, <1>2, PTL DEF AirspacesSpec

\* What a file says is drawn, and only that.
THEOREM BlocksStayDrawn == AirspacesSpec => []BlocksAreDrawn
<1>1. FilesInv => BlocksAreDrawn
  <2> SUFFICES ASSUME FilesInv PROVE BlocksAreDrawn
    OBVIOUS
  <2>1. ASSUME desk.step = "done", NEW i \in Blocks(desk.file)
        PROVE  \E r \in drawn : Draws(r.shown, desk.file, i)
    <3> DEFINE spaces == desk.spaces
    <3>1. /\ desk.file \in Files /\ spaces = ParseOpenAirFile(desk.file)
          /\ \A k \in DOMAIN spaces : HasItsRow(k)
      BY <2>1 DEF FilesInv, DeskInv
    <3>2. PICK x \in DOMAIN spaces : Draws(spaces[x], desk.file, i)
      BY <3>1, FilesAreReadWhole
    <3>3. PICK r \in drawn : r.shown = spaces[x]
      BY <3>1 DEF HasItsRow
    <3> QED
      BY <3>2, <3>3
  <2> QED
    BY <2>1 DEF FilesInv, RowsAreBlocks, BlocksAreDrawn
<1> QED
  BY <1>1, FilesInvHolds, PTL

\* Every table that an import fills is what its source said.
THEOREM AirspacesStayWhole == AirspacesSpec => []AirspacesAreWhole
<1>1. ZoneInv => ZonesMatchTheirHash
  BY DEF ZoneInv, ZoneTypeOK, ZonesAreUpToDate, ZonesMatchTheirHash
<1>2. BlocksAreDrawn /\ ZonesMatchTheirHash <=> AirspacesAreWhole
  BY DEF AirspacesAreWhole
<1> QED
  BY <1>1, <1>2, BlocksStayDrawn, ZoneInvHolds, PTL

-----------------------------------------------------------------------------
(* Both tables of openAIP *)

\* Sheets and airspaces are what was said, whatever imports are refused half-way,
\* repeated or under way at once, and whatever files are sent.
THEOREM ImportsStayWhole == CatalogueSpec /\ AirspacesSpec => []ImportsAreWhole
<1>1. SheetsMatchTheirHash /\ AirspacesAreWhole <=> ImportsAreWhole
  BY DEF ImportsAreWhole
<1> QED
  BY <1>1, SheetsAreWhatTheirHashSays, AirspacesStayWhole, PTL

=============================================================================

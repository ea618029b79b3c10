----------------------------- MODULE SyncQueue -----------------------------
(***************************************************************************)
(* The queue of synchronisation runs (sync.service.ts, its lock) and the   *)
(* two tasks that talk to each other through it: the openAIP import finds  *)
(* the aerodromes that changed and hands their ids to a REGIONS run, which *)
(* geocodes them.  One worker process executes the runs, as deployed; its  *)
(* cron callbacks and the admin's API process add runs to the same table.  *)
(*                                                                         *)
(* An action is what happens between two awaits, one database statement at *)
(* most.  The worker may crash between any two; PostgreSQL notices later   *)
(* that the session holding the advisory lock is gone.  Any statement may  *)
(* be refused, and then changes nothing: what its caller makes of the      *)
(* exception, up to the cron job, which logs it, or to onModuleInit, which *)
(* ends the process, is an action of its own.                              *)
(***************************************************************************)
EXTENDS Naturals, FiniteSets

CONSTANTS
    Source,       \* SyncSource; only OPENAIP and REGIONS have a task of their own
    Aerodrome,
    MaxAttempts,  \* SYNC_RETRY_ATTEMPTS
    MaxRuns,      \* bound: rows of sync_runs
    MaxCrashes,   \* bound: crashes of the worker
    MaxRefusals   \* bound: statements the database refuses

ASSUME SourceAssumption == {"OPENAIP", "REGIONS"} \subseteq Source
ASSUME MaxAttemptsAssumption == MaxAttempts \in Nat \ {0}
ASSUME BoundsAssumption == MaxRuns \in Nat /\ MaxCrashes \in Nat /\ MaxRefusals \in Nat
ASSUME AerodromeAssumption == IsFiniteSet(Aerodrome)

VARIABLES
    runs,         \* table sync_runs; a row not created yet has status "none"
    created,      \* rows created so far
    lock,         \* advisory lock of each source: who holds it
    pc,           \* where the worker stands
    ready,        \* onModuleInit has returned: the cron jobs are mounted
    interrupted,  \* recoverInterruptedRuns: the runs found, still to update
    cur,          \* executeRun: runId
    copy,         \* executeRun: the row as it was read before the lock
    work,         \* executeRunBySource: the row read again
    geocoded,     \* runRegionsSyncTask: the aerodromes dealt with so far
    found,        \* executeOpenAip: changedAerodromeIds, in memory only
    changed,      \* aerodromes whose openAIP data differs from the database's
    call,         \* the calls of enqueueRun under way, one per caller
    crashes,      \* bound counters
    refusals,
    abandoned     \* history: runs whose failure could not be written since the boot

worker == <<pc, ready, interrupted, cur, copy, work, geocoded, found>>
faults == <<crashes, refusals, abandoned>>
vars == <<runs, created, lock, worker, changed, call, faults>>

-----------------------------------------------------------------------------
(* The table *)

Run == 1..MaxRuns

ActiveStatus == {"QUEUED", "RETRY_SCHEDULED", "IN_PROGRESS"}

\* SUCCESS stands for PARTIAL too: both end the run the same way.
FinalStatus == {"SUCCESS", "FAILED"}

\* scope = "full" is full; ids is summary.aerodromeIds; due says that the
\* scheduledFor or the nextRetryAt of the row is not in the future.
Row == [source : Source,
        status : {"none"} \cup ActiveStatus \cup FinalStatus,
        attempt : 1..MaxAttempts,
        full : BOOLEAN,
        ids : SUBSET Aerodrome,
        due : BOOLEAN]

NoRow == [source |-> "OPENAIP", status |-> "none", attempt |-> 1,
          full |-> FALSE, ids |-> {}, due |-> FALSE]

Active(r) == runs[r].status \in ActiveStatus
ActiveOf(s) == {r \in Run : Active(r) /\ runs[r].source = s}

Due(r) == runs[r].status \in {"QUEUED", "RETRY_SCHEDULED"} /\ runs[r].due

\* orderBy scheduledFor, createdAt; rows are numbered in that order.
First(S) == CHOOSE r \in S : \A q \in S : r <= q

Caller == {"admin", "cron", "openaip"}

NoCall == [at |-> "no", source |-> "OPENAIP", full |-> FALSE, ids |-> {},
           existing |-> 0, known |-> {}]

Call == [at : {"no", "find", "write"}, source : Source, full : BOOLEAN,
         ids : SUBSET Aerodrome, existing : 0..MaxRuns,
         known : SUBSET Aerodrome]

\* The worker executes a run from the moment it marks it until it has saved
\* how it ended.
Executing == {"started", "working", "reporting", "saving", "failing"}

Pc == {"down", "recovering", "idle", "picking", "reading", "locking",
       "starting", "unlocking", "throwing"} \cup Executing

TypeOK ==
    /\ runs \in [Run -> Row]
    /\ created \in 0..MaxRuns
    /\ lock \in [Source -> {"free", "worker", "dead"}]
    /\ pc \in Pc
    /\ ready \in BOOLEAN
    /\ interrupted \subseteq Run
    /\ cur \in 0..MaxRuns
    /\ copy \in Row
    /\ work \in Row
    /\ geocoded \subseteq Aerodrome
    /\ found \subseteq Aerodrome
    /\ changed \subseteq Aerodrome
    /\ call \in [Caller -> Call]
    /\ crashes \in 0..MaxCrashes
    /\ refusals \in 0..MaxRefusals
    /\ abandoned \subseteq Run

Init ==
    /\ runs = [r \in Run |-> NoRow]
    /\ created = 0
    /\ lock = [s \in Source |-> "free"]
    /\ pc = "down"
    /\ ready = FALSE
    /\ interrupted = {}
    /\ cur = 0
    /\ copy = NoRow
    /\ work = NoRow
    /\ geocoded = {}
    /\ found = {}
    /\ changed = {}
    /\ call = [c \in Caller |-> NoCall]
    /\ crashes = 0
    /\ refusals = 0
    /\ abandoned = {}

\* Bound: rows are kept for the calls under way and for the REGIONS runs that
\* the known and the pending changes may still create.
Room ==
    created + Cardinality({c \in {"admin", "cron"} : call[c].at # "no"})
        + Cardinality(changed) + Cardinality(found) < MaxRuns

-----------------------------------------------------------------------------
(* enqueueRun, for its three callers *)

\* The admin triggers a source by hand; for REGIONS that is a full sweep.
TriggerManual(s) ==
    /\ call["admin"].at = "no"
    /\ Room
    /\ call' = [call EXCEPT !["admin"] =
                  [NoCall EXCEPT !.at = "find", !.source = s,
                                 !.full = (s = "REGIONS")]]
    /\ UNCHANGED <<runs, created, lock, worker, changed, faults>>

\* A cron job of the worker; the monthly one of REGIONS is a full sweep.
Schedule(s) ==
    /\ ready
    /\ call["cron"].at = "no"
    /\ Room
    /\ call' = [call EXCEPT !["cron"] =
                  [NoCall EXCEPT !.at = "find", !.source = s,
                                 !.full = (s = "REGIONS")]]
    /\ UNCHANGED <<runs, created, lock, worker, changed, faults>>

\* Where the executor goes on when its own call returns or throws.
Continue(c, l) == IF c = "openaip" THEN pc' = l /\ found' = {}
                                   ELSE UNCHANGED <<pc, found>>

Return(c, l) ==
    /\ call' = [call EXCEPT ![c] = NoCall]
    /\ Continue(c, l)
    /\ UNCHANGED <<lock, ready, interrupted, cur, copy, work, geocoded,
                   changed, faults>>

\* An active run of the source is reused; only ids to merge need a write.
EnqueueFind(c) ==
    /\ call[c].at = "find"
    /\ LET A == ActiveOf(call[c].source)
           e == First(A)
           merge == call[c].source = "REGIONS" /\ call[c].ids # {}
       IN \/ /\ A # {}
             /\ ~merge
             /\ Return(c, "saving")
          \/ /\ A = {} \/ merge
             /\ call' = [call EXCEPT
                   ![c].at = "write",
                   ![c].existing = IF A = {} THEN 0 ELSE e,
                   ![c].known = IF A = {} THEN {} ELSE runs[e].ids]
             /\ UNCHANGED <<lock, worker, changed, faults>>
    /\ UNCHANGED <<runs, created>>

\* Mutant: the incoming ids replace those already queued.
MergeReplaces(c) ==
    /\ call[c].at = "write"
    /\ call[c].existing # 0
    /\ runs' = [runs EXCEPT ![call[c].existing].ids = call[c].ids]
    /\ UNCHANGED created
    /\ Return(c, "saving")

\* The summary read by EnqueueFind, with the incoming ids, is written back.
EnqueueMerge(c) ==
    /\ call[c].at = "write"
    /\ call[c].existing # 0
    /\ runs' = [runs EXCEPT ![call[c].existing].ids =
                  call[c].known \cup call[c].ids]
    /\ UNCHANGED created
    /\ Return(c, "saving")

NewRow(c) == [source |-> call[c].source, status |-> "QUEUED", attempt |-> 1,
              full |-> call[c].full, ids |-> call[c].ids, due |-> TRUE]

\* Mutant: the partial unique index was not migrated.
CreateUnchecked(c) ==
    /\ call[c].at = "write"
    /\ call[c].existing = 0
    /\ created < MaxRuns
    /\ created' = created + 1
    /\ runs' = [runs EXCEPT ![created + 1] = NewRow(c)]
    /\ Return(c, "saving")

\* sync_runs_unique_active_source_idx refuses a second active run of a source;
\* the exception reaches the caller, which for openaip is the running task.
EnqueueCreate(c) ==
    /\ call[c].at = "write"
    /\ call[c].existing = 0
    /\ \/ /\ ActiveOf(call[c].source) = {}
          /\ created < MaxRuns
          /\ created' = created + 1
          /\ runs' = [runs EXCEPT ![created + 1] = NewRow(c)]
          /\ Return(c, "saving")
       \/ /\ ActiveOf(call[c].source) # {}
          /\ UNCHANGED <<runs, created>>
          /\ Return(c, "failing")

-----------------------------------------------------------------------------
(* The worker: boot and dispatch *)

\* Mutant: nothing is recovered.
BootWithoutRecovery ==
    /\ pc = "down"
    /\ pc' = "recovering"
    /\ interrupted' = {} /\ abandoned' = {}
    /\ UNCHANGED <<runs, created, lock, ready, cur, copy, work, geocoded,
                   found, changed, call, crashes, refusals>>

\* onModuleInit reads the runs a crash left in progress.
Boot ==
    /\ pc = "down"
    /\ pc' = "recovering"
    /\ interrupted' = {r \in Run : runs[r].status = "IN_PROGRESS"}
    /\ abandoned' = {}
    /\ UNCHANGED <<runs, created, lock, ready, cur, copy, work, geocoded,
                   found, changed, call, crashes, refusals>>

\* They are rescheduled one by one, for now, without counting an attempt.
Recover(r) ==
    /\ pc = "recovering"
    /\ r \in interrupted
    /\ runs' = [runs EXCEPT ![r].status = "RETRY_SCHEDULED", ![r].due = TRUE]
    /\ interrupted' = interrupted \ {r}
    /\ UNCHANGED <<created, lock, pc, ready, cur, copy, work, geocoded, found,
                   changed, call, faults>>

Recovered ==
    /\ pc = "recovering"
    /\ interrupted = {}
    /\ pc' = "picking"
    /\ UNCHANGED <<runs, created, lock, ready, interrupted, cur, copy, work,
                   geocoded, found, changed, call, faults>>

\* The dispatcher's cron job; the flag "dispatching" keeps it out otherwise.
Dispatch ==
    /\ pc = "idle"
    /\ pc' = "picking"
    /\ UNCHANGED <<runs, created, lock, ready, interrupted, cur, copy, work,
                   geocoded, found, changed, call, faults>>

\* processDueRuns: the first run that is due, until there is none.  The first
\* time, that is the end of onModuleInit: Nest then mounts the cron jobs.
Pick ==
    /\ pc = "picking"
    /\ LET D == {r \in Run : Due(r)}
       IN \/ /\ D # {}
             /\ cur' = First(D)
             /\ pc' = "reading"
             /\ UNCHANGED ready
          \/ /\ D = {}
             /\ pc' = "idle"
             /\ ready' = TRUE
             /\ UNCHANGED cur
    /\ UNCHANGED <<runs, created, lock, interrupted, copy, work, geocoded,
                   found, changed, call, faults>>

-----------------------------------------------------------------------------
(* The worker: executeRun *)

\* What the worker holds of a run is local to executeRun.
Forget == cur' = 0 /\ copy' = NoRow /\ work' = NoRow /\ geocoded' = {}

ReadRun ==
    /\ pc = "reading"
    /\ copy' = runs[cur]
    /\ pc' = "locking"
    /\ UNCHANGED <<runs, created, lock, ready, interrupted, cur, work,
                   geocoded, found, changed, call, faults>>

\* pg_try_advisory_lock; without the lock the dispatcher tries again at once.
TryLock ==
    /\ pc = "locking"
    /\ \/ /\ lock[copy.source] = "free"
          /\ lock' = [lock EXCEPT ![copy.source] = "worker"]
          /\ pc' = "starting"
          /\ UNCHANGED <<cur, copy, work, geocoded>>
       \/ /\ lock[copy.source] # "free"
          /\ pc' = "picking"
          /\ Forget
          /\ UNCHANGED lock
    /\ UNCHANGED <<runs, created, ready, interrupted, found, changed, call,
                   faults>>

Start ==
    /\ pc = "starting"
    /\ runs' = [runs EXCEPT ![cur].status = "IN_PROGRESS", ![cur].due = FALSE]
    /\ pc' = "started"
    /\ UNCHANGED <<created, lock, ready, interrupted, cur, copy, work,
                   geocoded, found, changed, call, faults>>

\* executeRunBySource reads the row again and enters the source's task.
ReadAgain ==
    /\ pc = "started"
    /\ work' = runs[cur]
    /\ geocoded' = {}
    /\ pc' = "working"
    /\ UNCHANGED <<runs, created, lock, ready, interrupted, cur, copy, found,
                   changed, call, faults>>

\* executeOpenAip: the import brings some of the changed aerodromes up to
\* date, the others fail one by one; what it changed goes to a REGIONS run.
ImportOpenAip ==
    /\ pc = "working"
    /\ work.source = "OPENAIP"
    /\ \E S \in SUBSET changed :
          /\ changed' = changed \ S
          /\ found' = S
          /\ pc' = IF S = {} THEN "saving" ELSE "reporting"
    /\ UNCHANGED <<runs, created, lock, ready, interrupted, cur, copy, work,
                   geocoded, call, faults>>

ReportChanges ==
    /\ pc = "reporting"
    /\ call["openaip"].at = "no"
    /\ call' = [call EXCEPT !["openaip"] =
                  [NoCall EXCEPT !.at = "find", !.source = "REGIONS",
                                 !.ids = found]]
    /\ UNCHANGED <<runs, created, lock, worker, changed, faults>>

\* runRegionsSyncTask: given ids win over the full sweep.  A delta run always
\* has ids, so the third case of the code, "missing_only", does not arise.
Target(row) == IF row.ids # {} THEN row.ids
               ELSE IF row.full THEN Aerodrome ELSE {}

Geocode(a) ==
    /\ pc = "working"
    /\ work.source = "REGIONS"
    /\ a \in Target(work) \ geocoded
    /\ geocoded' = geocoded \cup {a}
    /\ UNCHANGED <<runs, created, lock, pc, ready, interrupted, cur, copy,
                   work, found, changed, call, faults>>

\* The task returns; an aerodrome that could not be geocoded is only counted.
TaskReturns ==
    /\ pc = "working"
    /\ work.source # "OPENAIP"
    /\ work.source = "REGIONS" => Target(work) \subseteq geocoded
    /\ pc' = "saving"
    /\ UNCHANGED <<runs, created, lock, ready, interrupted, cur, copy, work,
                   geocoded, found, changed, call, faults>>

\* The task throws: openAIP or the database does not answer.
TaskThrows ==
    /\ pc = "working"
    /\ pc' = "failing"
    /\ UNCHANGED <<runs, created, lock, ready, interrupted, cur, copy, work,
                   geocoded, found, changed, call, faults>>

\* The result replaces the summary, and the ids with it.
Finish ==
    /\ pc = "saving"
    /\ runs' = [runs EXCEPT ![cur].status = "SUCCESS", ![cur].ids = {}]
    /\ pc' = "unlocking"
    /\ UNCHANGED <<created, lock, ready, interrupted, cur, copy, work,
                   geocoded, found, changed, call, faults>>

\* handleRunFailure, with the row read before the lock: retry later or give up.
Fail ==
    /\ pc = "failing"
    /\ IF copy.attempt < MaxAttempts
         THEN runs' = [runs EXCEPT ![cur] =
                 [@ EXCEPT !.status = "RETRY_SCHEDULED", !.due = FALSE,
                           !.attempt = copy.attempt + 1, !.ids = copy.ids]]
         ELSE runs' = [runs EXCEPT ![cur] =
                 [@ EXCEPT !.status = "FAILED", !.ids = copy.ids]]
    /\ pc' = "unlocking"
    /\ UNCHANGED <<created, lock, ready, interrupted, cur, copy, work,
                   geocoded, found, changed, call, faults>>

\* Mutant: the due run is looked up before the loop, not in it.
UnlockAndRepeat ==
    /\ pc = "unlocking"
    /\ lock' = [lock EXCEPT ![copy.source] = "free"]
    /\ pc' = "reading"
    /\ UNCHANGED <<runs, created, ready, interrupted, cur, copy, work,
                   geocoded, found, changed, call, faults>>

Unlock ==
    /\ pc = "unlocking"
    /\ lock' = [lock EXCEPT ![copy.source] = "free"]
    /\ pc' = "picking"
    /\ Forget
    /\ UNCHANGED <<runs, created, ready, interrupted, found, changed, call,
                   faults>>

-----------------------------------------------------------------------------
(* Statements that are refused *)

Refused == refusals < MaxRefusals /\ refusals' = refusals + 1

\* The exception leaves processDueRuns: the dispatcher's cron job logs it, but at
\* boot onModuleInit throws it on, and the process ends.
Leave == pc' = IF ready THEN "idle" ELSE "down"

\* Of recoverInterruptedRuns, the query for a due run, the one for its row or
\* the lock's.
RefuseDispatch ==
    /\ pc \in {"recovering", "picking", "reading", "locking"}
    /\ Refused
    /\ Leave /\ Forget
    /\ interrupted' = {}
    /\ UNCHANGED <<runs, created, lock, ready, found, changed, call, crashes,
                   abandoned>>

\* Of executeRun, inside its try; what the import found is lost with it.  The
\* task's own are in TaskThrows.
RefuseExecution ==
    /\ pc \in {"starting", "started", "reporting", "saving"}
    /\ Refused
    /\ pc' = "failing"
    /\ found' = {}
    /\ call' = [call EXCEPT !["openaip"] = NoCall]
    /\ UNCHANGED <<runs, created, lock, ready, interrupted, cur, copy, work,
                   geocoded, changed, crashes, abandoned>>

\* Of a call of enqueueRun: the admin gets an error, a cron job logs it.
RefuseCall(c) ==
    /\ call[c].at # "no"
    /\ Refused
    /\ call' = [call EXCEPT ![c] = NoCall]
    /\ UNCHANGED <<runs, created, lock, worker, changed, crashes, abandoned>>

\* Of handleRunFailure: nothing catches it, and the run keeps the status it has.
RefuseFail ==
    /\ pc = "failing"
    /\ Refused
    /\ pc' = "throwing"
    /\ abandoned' = abandoned \cup
          {r \in {cur} : runs[r].status = "IN_PROGRESS"}
    /\ UNCHANGED <<runs, created, lock, ready, interrupted, cur, copy, work,
                   geocoded, found, changed, call, crashes>>

\* finally: the lock is released before the exception goes on.
UnlockThrowing ==
    /\ pc = "throwing"
    /\ lock' = [lock EXCEPT ![copy.source] = "free"]
    /\ Leave /\ Forget
    /\ UNCHANGED <<runs, created, ready, interrupted, found, changed, call,
                   faults>>

\* Of release: its session is lost, and PostgreSQL notices later.
RefuseUnlock ==
    /\ pc \in {"unlocking", "throwing"}
    /\ Refused
    /\ lock' = [lock EXCEPT ![copy.source] = "dead"]
    /\ Leave /\ Forget
    /\ UNCHANGED <<runs, created, ready, interrupted, found, changed, call,
                   crashes, abandoned>>

-----------------------------------------------------------------------------
(* What happens to the worker *)

\* The process dies with its memory; its database session lingers.
Crash ==
    /\ pc # "down"
    /\ crashes < MaxCrashes
    /\ crashes' = crashes + 1
    /\ pc' = "down"
    /\ ready' = FALSE
    /\ interrupted' = {}
    /\ found' = {}
    /\ call' = [call EXCEPT !["cron"] = NoCall, !["openaip"] = NoCall]
    /\ lock' = [s \in Source |-> IF lock[s] = "worker" THEN "dead" ELSE lock[s]]
    /\ Forget
    /\ UNCHANGED <<runs, created, changed, refusals, abandoned>>

SessionDies(s) ==
    /\ lock[s] = "dead"
    /\ lock' = [lock EXCEPT ![s] = "free"]
    /\ UNCHANGED <<runs, created, worker, changed, call, faults>>

RetryTimeComes(r) ==
    /\ runs[r].status = "RETRY_SCHEDULED"
    /\ ~runs[r].due
    /\ runs' = [runs EXCEPT ![r].due = TRUE]
    /\ UNCHANGED <<created, lock, worker, changed, call, faults>>

\* openAIP publishes new data for an aerodrome.
UpstreamChanges(a) ==
    /\ a \notin changed
    /\ Room
    /\ changed' = changed \cup {a}
    /\ UNCHANGED <<runs, created, lock, worker, call, faults>>

-----------------------------------------------------------------------------

Enqueue(c) == EnqueueFind(c) \/ EnqueueMerge(c) \/ EnqueueCreate(c)

Task ==
    \/ ImportOpenAip \/ ReportChanges
    \/ \E a \in Aerodrome : Geocode(a)
    \/ TaskReturns \/ TaskThrows

Execute == ReadRun \/ TryLock \/ Start \/ ReadAgain \/ Task \/ Finish \/ Fail
           \/ Unlock \/ UnlockThrowing

Refusal ==
    \/ RefuseDispatch \/ RefuseExecution \/ RefuseFail \/ RefuseUnlock
    \/ \E c \in {"admin", "cron"} : RefuseCall(c)

WorkerStep ==
    \/ Boot \/ (\E r \in Run : Recover(r)) \/ Recovered
    \/ Dispatch \/ Pick \/ Execute
    \/ Enqueue("openaip")

Next ==
    \/ WorkerStep
    \/ \E c \in {"admin", "cron"} : Enqueue(c)
    \/ \E s \in Source : (TriggerManual(s) \/ Schedule(s))
    \/ Refusal
    \/ Crash
    \/ \E s \in Source : SessionDies(s)
    \/ \E r \in Run : RetryTimeComes(r)
    \/ \E a \in Aerodrome : UpstreamChanges(a)

\* Docker restarts the worker, its event loop goes on, time passes and
\* PostgreSQL notices a dead connection.  Nothing makes the admin, the cron
\* schedule or openAIP act.
Fairness ==
    /\ WF_vars(WorkerStep)
    /\ \A s \in Source : WF_vars(SessionDies(s))
    /\ \A r \in Run : WF_vars(RetryTimeComes(r))

Spec == Init /\ [][Next]_vars /\ Fairness

-----------------------------------------------------------------------------
(* Properties *)

\* A source never has two active runs, although enqueueRun looks before it
\* creates and two processes may look at the same time.
OneActiveRunPerSource ==
    \A q, r \in Run :
        Active(q) /\ Active(r) /\ runs[q].source = runs[r].source => q = r

\* The dispatcher never takes a run that is IN_PROGRESS, and an active run
\* blocks its source.  A run is left in that status only until the next boot
\* takes it up, by a process that is gone, or by a live one whose
\* handleRunFailure was itself refused, which nothing in the code catches.
NoRunIsStranded ==
    \A r \in Run : runs[r].status = "IN_PROGRESS" =>
        \/ pc = "down"
        \/ pc = "recovering" /\ r \in interrupted
        \/ pc \in Executing /\ r = cur
        \/ r \in abandoned

\* The queue knows of each source what it is doing.
RunsAreAccountedFor == OneActiveRunPerSource /\ NoRunIsStranded

\* A run that ended is never executed again, neither by the dispatcher nor
\* by the recovery.
FinishedRunsStayFinished ==
    [][\A r \in Run : runs[r].status \in FinalStatus
                        => runs'[r].status = runs[r].status]_vars

\* The ids handed to a REGIONS run stay with it through merges, retries and
\* crashes until the run ends, and it ends well only after dealing with each.
DeltaIdsAreKept ==
    [][\A r \in Run : Active(r) =>
          \/ runs[r].ids \subseteq runs'[r].ids
          \/ /\ runs'[r].status = "SUCCESS"
             /\ runs[r].source = "REGIONS" => runs[r].ids \subseteq geocoded]_vars

\* Every run that is queued ends, although runs fail, statements are refused,
\* the worker crashes and a dead session may still hold the lock of the source;
\* but for one whose failure could not be written, which waits for the next boot,
\* and from there on ends as well.
EveryRunEnds ==
    \A r \in Run :
        Active(r) ~> runs[r].status \in FinalStatus \/ r \in abandoned

\* "sweep complet mensuel": a full sweep that succeeds has been everywhere.
FullSweepGoesEverywhere ==
    [][\A r \in Run :
          /\ runs[r].source = "REGIONS"
          /\ runs[r].full
          /\ runs[r].status = "IN_PROGRESS"
          /\ runs'[r].status = "SUCCESS"
          => geocoded = Aerodrome]_vars

=============================================================================

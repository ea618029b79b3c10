------------------------------ MODULE Scanning ------------------------------
(***************************************************************************)
(* Antivirus scanning of uploads (scan.service.ts, clamd.client.ts): the   *)
(* semaphore that bounds concurrent scans, the one-shot promise of the     *)
(* clamd client, raced by five event sources, and the release of the slot. *)
(*                                                                         *)
(* JavaScript callbacks run to completion, so an action is one callback or *)
(* one continuation; what lies between two of them is the event loop.      *)
(***************************************************************************)
EXTENDS Naturals, Sequences, FiniteSets

CONSTANTS
    Job,       \* calls of ScanService.scan, one per upload
    Limit,     \* CLAMAV_MAX_CONCURRENT
    MaxQueue   \* CLAMAV_MAX_QUEUE

\* positiveNumber() rejects everything that is not a positive number.
ASSUME LimitAssumption == Limit \in Nat \ {0}
ASSUME MaxQueueAssumption == MaxQueue \in Nat \ {0}
ASSUME JobAssumption == IsFiniteSet(Job)

VARIABLES
    mode,     \* ScanService.mode, fixed by the configuration
    active,   \* Semaphore.active
    waiters,  \* Semaphore.waiters, each closure named by its job
    pc,       \* where each call of scan() stands
    sent,     \* what the antivirus received of the file
    reply,    \* what the client received from clamd
    verdict   \* how the scan of a file ended, until its slot is released

vars == <<mode, active, waiters, pc, sent, reply, verdict>>

Mode == {"clamd", "clamscan", "disabled"}

Pc == {"new", "waiting", "granted", "scanning", "settled", "done", "refused",
       "skipped"}

TypeOK ==
    /\ mode \in Mode
    /\ active \in 0..Limit
    /\ waiters \in Seq(Job)
    /\ pc \in [Job -> Pc]
    /\ sent \in [Job -> {"nothing", "part", "all"}]
    /\ reply \in [Job -> {"", "OK", "FOUND", "ERROR"}]
    /\ verdict \in [Job -> {"none", "clean", "threat", "failed"}]

Goto(j, l) == pc' = [pc EXCEPT ![j] = l]

-----------------------------------------------------------------------------
(* The semaphore *)

\* scan() in mode "disabled" returns at once.
SkipScan(j) ==
    /\ pc[j] = "new"
    /\ mode = "disabled"
    /\ Goto(j, "skipped")
    /\ UNCHANGED <<mode, active, waiters, sent, reply, verdict>>

\* acquire(): take a slot, or refuse with 503 when the queue is full, or queue.
Acquire(j) ==
    /\ pc[j] = "new"
    /\ mode # "disabled"
    /\ \/ /\ active < Limit
          /\ active' = active + 1
          /\ Goto(j, "granted")
          /\ UNCHANGED waiters
       \/ /\ active >= Limit
          /\ Len(waiters) >= MaxQueue
          /\ Goto(j, "refused")
          /\ UNCHANGED <<active, waiters>>
       \/ /\ active >= Limit
          /\ Len(waiters) < MaxQueue
          /\ waiters' = Append(waiters, j)
          /\ Goto(j, "waiting")
          /\ UNCHANGED active
    /\ UNCHANGED <<mode, sent, reply, verdict>>

\* finish() has closed the socket and the file; the outcome goes to the caller.
Forget(j) ==
    /\ sent' = [sent EXCEPT ![j] = "nothing"]
    /\ reply' = [reply EXCEPT ![j] = ""]
    /\ verdict' = [verdict EXCEPT ![j] = "none"]

\* Mutant: the slot is given back, the waiter at the head is not woken.
ReleaseWithoutHandoff(j) ==
    /\ pc[j] = "settled"
    /\ active' = active - 1
    /\ Goto(j, "done")
    /\ Forget(j)
    /\ UNCHANGED <<mode, waiters>>

\* Mutant: waiters.pop() for waiters.shift().
ReleaseToLast(j) ==
    /\ pc[j] = "settled"
    /\ \/ /\ waiters = <<>>
          /\ active' = active - 1
          /\ Goto(j, "done")
          /\ UNCHANGED waiters
       \/ /\ waiters # <<>>
          /\ active' = (active - 1) + 1
          /\ waiters' = SubSeq(waiters, 1, Len(waiters) - 1)
          /\ pc' = [pc EXCEPT ![j] = "done", ![waiters[Len(waiters)]] = "granted"]
    /\ Forget(j)
    /\ UNCHANGED mode

\* release(), from the finally of scan(): the closure at the head of the queue
\* runs inside it and takes the slot back.
Release(j) ==
    /\ pc[j] = "settled"
    /\ \/ /\ waiters = <<>>
          /\ active' = active - 1
          /\ Goto(j, "done")
          /\ UNCHANGED waiters
       \/ /\ waiters # <<>>
          /\ active' = (active - 1) + 1
          /\ waiters' = Tail(waiters)
          /\ pc' = [pc EXCEPT ![j] = "done", ![Head(waiters)] = "granted"]
    /\ Forget(j)
    /\ UNCHANGED mode

-----------------------------------------------------------------------------
(* One scan with clamd *)

Semaphore == <<mode, active, waiters>>

\* finish(): the first event settles the promise, later ones find it settled.
Settle(j, v) ==
    /\ Goto(j, "settled")
    /\ verdict' = [verdict EXCEPT ![j] = v]

\* parseClamdReply(), and the mapping of its outcome to an HTTP error.
Parsed(text) ==
    CASE text = "OK" -> "clean"
      [] text = "FOUND" -> "threat"
      [] OTHER -> "failed"

\* The continuation of acquire(): the socket is opened, or clamscan is spawned.
StartScan(j) ==
    /\ pc[j] = "granted"
    /\ Goto(j, "scanning")
    /\ UNCHANGED <<Semaphore, sent, reply, verdict>>

Streaming(j) == pc[j] = "scanning" /\ mode = "clamd"

\* The callback of connect() and the data events of the file.
SendChunk(j) ==
    /\ Streaming(j)
    /\ sent[j] = "nothing"
    /\ sent' = [sent EXCEPT ![j] = "part"]
    /\ UNCHANGED <<Semaphore, pc, reply, verdict>>

\* The end event of the file: the empty chunk that closes the stream.
SendEnd(j) ==
    /\ Streaming(j)
    /\ sent[j] = "part"
    /\ sent' = [sent EXCEPT ![j] = "all"]
    /\ UNCHANGED <<Semaphore, pc, reply, verdict>>

\* Mutant: a read error is handled as the end of the file.
FileErrorAsEnd(j) ==
    /\ Streaming(j)
    /\ sent[j] = "part"
    /\ reply' = [reply EXCEPT ![j] = "OK"]
    /\ Settle(j, "clean")
    /\ UNCHANGED <<Semaphore, sent>>

\* The error event of the file.
FileError(j) ==
    /\ Streaming(j)
    /\ sent[j] # "all"
    /\ Settle(j, "failed")
    /\ UNCHANGED <<Semaphore, sent, reply>>

\* clamd answers: on the contents once it has all of it, with an error at any
\* time.  ERROR stands for every text that is neither, cut ones included: more
\* text can complete it, and cannot change a complete one.
ClamdAnswer(text, j) ==
    /\ text \in {"OK", "FOUND"} => sent[j] = "all"
    /\ reply[j] \in {"OK", "FOUND"} => text = reply[j]

\* The data event of the socket, with and without the NUL.
OnData(j) ==
    /\ Streaming(j)
    /\ \E text \in {"OK", "FOUND", "ERROR"} :
        /\ ClamdAnswer(text, j)
        /\ reply' = [reply EXCEPT ![j] = text]
        /\ Settle(j, Parsed(text))
    /\ UNCHANGED <<Semaphore, sent>>

OnPartialData(j) ==
    /\ Streaming(j)
    /\ reply[j] = ""
    /\ \E text \in {"OK", "FOUND", "ERROR"} :
        /\ ClamdAnswer(text, j)
        /\ reply' = [reply EXCEPT ![j] = text]
    /\ UNCHANGED <<Semaphore, pc, sent, verdict>>

\* The close event: what was received so far is the answer.
OnClose(j) ==
    /\ Streaming(j)
    /\ Settle(j, Parsed(reply[j]))
    /\ UNCHANGED <<Semaphore, sent, reply>>

\* The error event of the socket: refused, reset, unreachable.
OnSocketError(j) ==
    /\ Streaming(j)
    /\ Settle(j, "failed")
    /\ UNCHANGED <<Semaphore, sent, reply>>

-----------------------------------------------------------------------------
(* Both modes *)

\* scanWithCli(): clamscan reads the file itself; its exit code, a missing
\* binary and a signal are what toClamException() tells apart.
OnExit(j) ==
    /\ pc[j] = "scanning"
    /\ mode = "clamscan"
    /\ \/ /\ sent' = [sent EXCEPT ![j] = "all"]
          /\ \E v \in {"clean", "threat"} : Settle(j, v)
       \/ Settle(j, "failed") /\ UNCHANGED sent
    /\ UNCHANGED <<Semaphore, reply>>

\* The timer of scanFileWithClamd, the timeout option of execFile.
OnTimeout(j) ==
    /\ pc[j] = "scanning"
    /\ Settle(j, "failed")
    /\ UNCHANGED <<Semaphore, sent, reply>>

-----------------------------------------------------------------------------
Init ==
    /\ mode \in Mode
    /\ active = 0
    /\ waiters = <<>>
    /\ pc = [j \in Job |-> "new"]
    /\ sent = [j \in Job |-> "nothing"]
    /\ reply = [j \in Job |-> ""]
    /\ verdict = [j \in Job |-> "none"]

ScanStep(j) ==
    \/ StartScan(j)
    \/ SendChunk(j)
    \/ SendEnd(j)
    \/ FileError(j)
    \/ OnData(j)
    \/ OnPartialData(j)
    \/ OnClose(j)
    \/ OnSocketError(j)
    \/ OnExit(j)
    \/ OnTimeout(j)

Next == \E j \in Job : SkipScan(j) \/ Acquire(j) \/ ScanStep(j) \/ Release(j)

\* Continuations run, and every scan has a timer that fires if nothing else
\* settles it first.  clamd and the network owe nothing.
Fairness ==
    \A j \in Job : WF_vars(StartScan(j)) /\ WF_vars(OnTimeout(j)) /\ WF_vars(Release(j))

Spec == Init /\ [][Next]_vars /\ Fairness

-----------------------------------------------------------------------------
(* Properties *)

\* The jobs that hold a slot of the semaphore.
Holders == {j \in Job : pc[j] \in {"granted", "scanning", "settled"}}

\* The counter is the number of slots held, whatever order scans end in, and
\* no upload waits while a slot is free: no wake-up is ever lost.
SlotsAreAccounted ==
    /\ active = Cardinality(Holders)
    /\ waiters # <<>> => active = Limit

\* ScanService.scan resolves only for a file the antivirus saw to its end and
\* found clean: no close, read error or partial answer passes for a verdict.
CleanMeansScanned ==
    \A j \in Job : verdict[j] = "clean" => sent[j] = "all" /\ reply[j] # "FOUND"

\* An upload that reaches the antivirus is answered, also when clamd hangs:
\* "a burst of uploads degrades into 503s".
EveryScanEnds == \A j \in Job : pc[j] # "new" ~> pc[j] \in {"done", "refused", "skipped"}

\* "scans beyond the limit wait their turn": the semaphore implements the
\* bounded line.
Line == INSTANCE BoundedLine WITH
    Client <- Job,
    Places <- Limit,
    LineLength <- MaxQueue,
    inside <- Holders,
    line <- waiters,
    seen <- {j \in Job : pc[j] \notin {"new", "skipped"}}

ScansWaitTheirTurn == Line!LineSpec
=============================================================================

---------------------------- MODULE GuardsProofs ----------------------------
(***************************************************************************)
(* What guards the way in.                                                 *)
(*                                                                         *)
(* The antivirus semaphore (Scanning), for every number of slots, queue    *)
(* length and uploads: its counter counts the slots held, no wake-up is    *)
(* lost, and it implements the bounded line; and no file passes for clean  *)
(* that the antivirus has not seen to its end.                             *)
(*                                                                         *)
(* The safety of the lockout (Lockout), for any number of requests and     *)
(* addresses and any limits.  A guess is known to the counter of its       *)
(* address once it is counted; until then its request is at "wrong", and   *)
(* one that may still guess is at "checked": the proofs weigh the counters *)
(* against the number of requests there.                                   *)
(***************************************************************************)
EXTENDS Scanning, Lockout, FiniteSetTheorems, TLAPS

\* The queue holds the jobs that wait, each once.
QueueHoldsTheWaiting ==
    /\ \A j \in Job : pc[j] = "waiting" <=> \E i \in 1..Len(waiters) : waiters[i] = j
    /\ \A i, k \in 1..Len(waiters) : waiters[i] = waiters[k] => i = k

SlotInv == TypeOK /\ SlotsAreAccounted /\ QueueHoldsTheWaiting

LEMMA HoldersFinite == IsFiniteSet(Holders) /\ Cardinality(Holders) \in Nat
<1>1. IsFiniteSet(Holders)
  BY JobAssumption, FS_Subset DEF Holders
<1> QED
  BY <1>1, FS_CardinalityType

LEMMA InRange == ASSUME NEW n \in Nat, NEW a \in Nat, a <= n PROVE a \in 0..n
OBVIOUS

LEMMA InitHolds == Init => SlotInv
<1> SUFFICES ASSUME Init PROVE SlotInv
  OBVIOUS
<1>1. Holders = {}
  BY DEF Init, Holders
<1>2. Cardinality(Holders) = 0
  BY <1>1, FS_EmptySet
<1>3. TypeOK
  <2>0. active = 0 /\ waiters = <<>>
    BY DEF Init
  <2>1. active \in 0..Limit
    BY <2>0, LimitAssumption, InRange
  <2>2. waiters \in Seq(Job)
    BY <2>0
  <2>3. pc \in [Job -> Pc]
    BY DEF Init, Pc
  <2> QED
    BY <2>1, <2>2, <2>3 DEF Init, TypeOK
<1>4. SlotsAreAccounted
  BY <1>2 DEF Init, SlotsAreAccounted
<1>5. QueueHoldsTheWaiting
  <2>1. Len(waiters) = 0 /\ \A j \in Job : pc[j] # "waiting"
    BY DEF Init
  <2>2. 1..Len(waiters) = {}
    BY <2>1
  <2> QED
    BY <2>1, <2>2 DEF QueueHoldsTheWaiting
<1> QED
  BY <1>3, <1>4, <1>5 DEF SlotInv

\* The callbacks of a scan in progress keep its slot and the queue.
LEMMA ScanStepKeepsSlots ==
  ASSUME SlotInv, NEW j \in Job, ScanStep(j)
  PROVE  /\ SlotInv'
         /\ Holders' = Holders /\ waiters' = waiters
         /\ \A k \in Job : pc'[k] \in {"new", "skipped"} <=> pc[k] \in {"new", "skipped"}
<1>0. QueueHoldsTheWaiting
  BY DEF SlotInv
<1> USE DEF SlotInv, TypeOK, Goto, Pc
<1>1. /\ active' = active /\ waiters' = waiters /\ mode' = mode
      /\ \/ pc' = pc
         \/ pc[j] = "granted" /\ pc' = [pc EXCEPT ![j] = "scanning"]
         \/ pc[j] = "scanning" /\ pc' = [pc EXCEPT ![j] = "settled"]
  BY DEF ScanStep, StartScan, SendChunk, SendEnd, FileError, OnData, OnPartialData,
         OnClose, OnSocketError, OnExit, OnTimeout, Streaming, Settle, Semaphore
<1>2. /\ sent' \in [Job -> {"nothing", "part", "all"}]
      /\ reply' \in [Job -> {"", "OK", "FOUND", "ERROR"}]
  <2>1. CASE StartScan(j) \/ FileError(j) \/ OnClose(j) \/ OnSocketError(j) \/ OnTimeout(j)
    <3>1. sent' = sent /\ reply' = reply
      BY <2>1 DEF StartScan, FileError, OnClose, OnSocketError, OnTimeout
    <3> QED
      BY <3>1
  <2>2. CASE SendChunk(j) \/ SendEnd(j)
    <3>1. /\ reply' = reply
          /\ \E x \in {"part", "all"} : sent' = [sent EXCEPT ![j] = x]
      BY <2>2 DEF SendChunk, SendEnd
    <3> QED
      BY <3>1
  <2>3. CASE OnData(j) \/ OnPartialData(j)
    <3>1. /\ sent' = sent
          /\ \E x \in {"OK", "FOUND", "ERROR"} : reply' = [reply EXCEPT ![j] = x]
      BY <2>3 DEF OnData, OnPartialData
    <3> QED
      BY <3>1
  <2>4. CASE OnExit(j)
    <3>1. reply' = reply /\ (sent' = sent \/ sent' = [sent EXCEPT ![j] = "all"])
      BY <2>4 DEF OnExit
    <3> QED
      BY <3>1
  <2> QED
    BY <2>1, <2>2, <2>3, <2>4 DEF ScanStep
<1>3. verdict' \in [Job -> {"none", "clean", "threat", "failed"}]
  BY DEF ScanStep, StartScan, SendChunk, SendEnd, FileError, OnData, OnPartialData,
         OnClose, OnSocketError, OnExit, OnTimeout, Settle, Parsed
<1>4. TypeOK'
  BY <1>1, <1>2, <1>3
<1>5. Holders' = Holders
  BY <1>1 DEF Holders
<1>6. \A k \in Job : /\ pc'[k] = "waiting" <=> pc[k] = "waiting"
                     /\ pc'[k] \in {"new", "skipped"} <=> pc[k] \in {"new", "skipped"}
  BY <1>1
<1>7. SlotsAreAccounted'
  BY <1>1, <1>5 DEF SlotsAreAccounted
<1> HIDE DEF SlotInv, TypeOK
<1>8. QueueHoldsTheWaiting'
  BY <1>0, <1>1, <1>6 DEF QueueHoldsTheWaiting
<1> QED
  BY <1>1, <1>4, <1>5, <1>6, <1>7, <1>8 DEF SlotInv

\* What the type invariant says of numbers, and what it takes to rebuild it.
LEMMA SlotTypes ==
  ASSUME SlotInv
  PROVE  /\ active \in Nat /\ Limit \in Nat /\ active <= Limit /\ Limit > 0
         /\ pc \in [Job -> Pc] /\ waiters \in Seq(Job) /\ Len(waiters) \in Nat
         /\ Cardinality(Holders) \in Nat /\ active = Cardinality(Holders)
         /\ waiters # <<>> => active = Limit
<1>1. active \in 0..Limit /\ pc \in [Job -> Pc] /\ waiters \in Seq(Job)
  BY DEF SlotInv, TypeOK
<1>2. active \in Nat /\ Limit \in Nat /\ active <= Limit /\ Limit > 0
  BY <1>1, LimitAssumption
<1>3. Len(waiters) \in Nat
  BY <1>1
<1>4. active = Cardinality(Holders) /\ (waiters # <<>> => active = Limit)
  BY DEF SlotInv, SlotsAreAccounted
<1> QED
  BY <1>1, <1>2, <1>3, <1>4, HoldersFinite

LEMMA SlotsRebuilt ==
  ASSUME SlotInv, mode' = mode, active' \in Nat, active' <= Limit,
         waiters' \in Seq(Job), pc' \in [Job -> Pc],
         sent' \in [Job -> {"nothing", "part", "all"}],
         reply' \in [Job -> {"", "OK", "FOUND", "ERROR"}],
         verdict' \in [Job -> {"none", "clean", "threat", "failed"}],
         active' = Cardinality(Holders'), waiters' # <<>> => active' = Limit,
         QueueHoldsTheWaiting'
  PROVE  SlotInv'
<1>1. active' \in 0..Limit
  <2>1. active' \in Nat /\ active' <= Limit /\ Limit \in Nat
    BY LimitAssumption
  <2> QED
    BY <2>1, InRange
<1> QED
  BY <1>1 DEF SlotInv, TypeOK, SlotsAreAccounted

\* acquire() takes a slot nobody holds, or joins the tail of the queue.
LEMMA AcquireKeepsSlots ==
  ASSUME SlotInv, NEW j \in Job, Acquire(j)
  PROVE  SlotInv'
<1>0. /\ pc[j] = "new" /\ j \notin Holders /\ UNCHANGED <<mode, sent, reply, verdict>>
      /\ sent' \in [Job -> {"nothing", "part", "all"}]
      /\ reply' \in [Job -> {"", "OK", "FOUND", "ERROR"}]
      /\ verdict' \in [Job -> {"none", "clean", "threat", "failed"}]
  BY DEF Acquire, Holders, SlotInv, TypeOK
<1>t. /\ active \in Nat /\ Limit \in Nat /\ active <= Limit /\ Limit > 0
      /\ pc \in [Job -> Pc] /\ waiters \in Seq(Job) /\ Len(waiters) \in Nat
      /\ active = Cardinality(Holders) /\ Cardinality(Holders) \in Nat
      /\ waiters # <<>> => active = Limit
  BY SlotTypes
<1>1. CASE active < Limit /\ active' = active + 1 /\ Goto(j, "granted") /\ UNCHANGED waiters
  <2>1. waiters = <<>>
    BY <1>1, <1>t
  <2>2. Holders' = Holders \cup {j} /\ pc' \in [Job -> Pc]
    BY <1>0, <1>1, <1>t DEF Holders, Goto, Pc
  <2>3. Cardinality(Holders') = Cardinality(Holders) + 1
    BY <1>0, <2>2, HoldersFinite, FS_AddElement
  <2>4. QueueHoldsTheWaiting'
    <3>1. \A k \in Job : pc'[k] = "waiting" <=> pc[k] = "waiting"
      BY <1>0, <1>1, <1>t DEF Goto
    <3>2. QueueHoldsTheWaiting /\ waiters' = waiters
      BY <1>1 DEF SlotInv
    <3> QED
      BY <3>1, <3>2 DEF QueueHoldsTheWaiting
  <2>5. /\ active' \in Nat /\ active' <= Limit /\ waiters' = <<>> /\ waiters' \in Seq(Job)
        /\ active' = Cardinality(Holders')
    BY <1>1, <1>t, <2>1, <2>3
  <2> QED
    BY <1>0, <2>2, <2>4, <2>5, SlotsRebuilt
<1>2. CASE active >= Limit /\ Goto(j, "refused") /\ UNCHANGED <<active, waiters>>
  <2>1. Holders' = Holders /\ pc' \in [Job -> Pc]
    BY <1>0, <1>2, <1>t DEF Holders, Goto, Pc
  <2>2. \A k \in Job : pc'[k] = "waiting" <=> pc[k] = "waiting"
    BY <1>0, <1>2, <1>t DEF Goto
  <2>3. QueueHoldsTheWaiting'
    BY <1>2, <2>2 DEF QueueHoldsTheWaiting, SlotInv
  <2>4. active' \in Nat /\ active' <= Limit /\ waiters' = waiters /\ active' = active
    BY <1>2, <1>t
  <2> QED
    BY <1>0, <1>t, <2>1, <2>3, <2>4, SlotsRebuilt
<1>3. CASE active >= Limit /\ waiters' = Append(waiters, j) /\ Goto(j, "waiting")
           /\ UNCHANGED active
  <2>1. Holders' = Holders /\ pc' \in [Job -> Pc]
    BY <1>0, <1>3, <1>t DEF Holders, Goto, Pc
  <2>2. /\ waiters' \in Seq(Job) /\ Len(waiters') = Len(waiters) + 1
        /\ \A i \in 1..Len(waiters) : waiters'[i] = waiters[i]
        /\ waiters'[Len(waiters) + 1] = j
    BY <1>3, <1>t
  <2>3. \A i \in 1..Len(waiters) : waiters[i] # j /\ waiters[i] \in Job
    <3>1. \A i \in 1..Len(waiters) : waiters[i] \in Job
      BY <1>t
    <3>2. \A i \in 1..Len(waiters) : pc[waiters[i]] = "waiting"
      BY <3>1 DEF QueueHoldsTheWaiting, SlotInv
    <3> QED
      BY <1>0, <3>1, <3>2
  <2>4. \A k \in Job : pc'[k] = "waiting" <=> (pc[k] = "waiting" \/ k = j)
    BY <1>0, <1>3, <1>t DEF Goto
  <2>5. \A k \in Job : (\E i \in 1..Len(waiters') : waiters'[i] = k)
                          <=> (k = j \/ \E i \in 1..Len(waiters) : waiters[i] = k)
    <3>1. Len(waiters) + 1 \in 1..Len(waiters')
      BY <1>t, <2>2
    <3>2. \A i \in 1..Len(waiters) : i \in 1..Len(waiters')
      BY <1>t, <2>2
    <3>3. \A i \in 1..Len(waiters') : i \in 1..Len(waiters) \/ i = Len(waiters) + 1
      BY <1>t, <2>2
    <3> QED
      BY <2>2, <3>1, <3>2, <3>3
  <2>6. \A i, k \in 1..Len(waiters') : waiters'[i] = waiters'[k] => i = k
    <3>1. \A i \in 1..Len(waiters') : i \in 1..Len(waiters) \/ i = Len(waiters) + 1
      BY <1>t, <2>2
    <3> QED
      BY <2>2, <2>3, <3>1 DEF QueueHoldsTheWaiting, SlotInv
  <2>7. QueueHoldsTheWaiting'
    BY <2>4, <2>5, <2>6 DEF QueueHoldsTheWaiting, SlotInv
  <2>8. active' \in Nat /\ active' <= Limit /\ active' = active /\ active = Limit
    BY <1>3, <1>t
  <2> QED
    BY <1>0, <1>t, <2>1, <2>2, <2>7, <2>8, SlotsRebuilt
<1> QED
  BY <1>1, <1>2, <1>3 DEF Acquire

\* The head of the queue waits, and is not the job that releases.
LEMMA HeadWaits ==
  ASSUME SlotInv, NEW j \in Job, pc[j] = "settled", waiters # <<>>
  PROVE  /\ Head(waiters) \in Job /\ Head(waiters) # j
         /\ pc[Head(waiters)] = "waiting"
         /\ Len(waiters) \in Nat \ {0} /\ Head(waiters) = waiters[1]
         /\ Tail(waiters) \in Seq(Job) /\ Len(Tail(waiters)) = Len(waiters) - 1
         /\ \A i \in 1..Len(Tail(waiters)) : Tail(waiters)[i] = waiters[i + 1]
<1>1. waiters \in Seq(Job) /\ waiters # <<>>
  BY DEF SlotInv, TypeOK
<1>2. /\ Head(waiters) \in Job /\ Len(waiters) \in Nat \ {0} /\ Head(waiters) = waiters[1]
      /\ Tail(waiters) \in Seq(Job) /\ Len(Tail(waiters)) = Len(waiters) - 1
      /\ \A i \in 1..Len(Tail(waiters)) : Tail(waiters)[i] = waiters[i + 1]
  BY <1>1
<1>3. 1 \in 1..Len(waiters)
  BY <1>2
<1>4. pc[Head(waiters)] = "waiting"
  BY <1>2, <1>3 DEF SlotInv, QueueHoldsTheWaiting
<1> QED
  BY <1>2, <1>4

\* release() gives the slot back, or hands it to the head of the queue.
LEMMA ReleaseKeepsSlots ==
  ASSUME SlotInv, NEW j \in Job, Release(j)
  PROVE  SlotInv'
<1>0. /\ pc[j] = "settled" /\ j \in Holders /\ mode' = mode
      /\ sent' \in [Job -> {"nothing", "part", "all"}]
      /\ reply' \in [Job -> {"", "OK", "FOUND", "ERROR"}]
      /\ verdict' \in [Job -> {"none", "clean", "threat", "failed"}]
  BY DEF Release, Holders, Forget, SlotInv, TypeOK
<1>t. /\ active \in Nat /\ Limit \in Nat /\ active <= Limit /\ Limit > 0
      /\ pc \in [Job -> Pc] /\ waiters \in Seq(Job) /\ Len(waiters) \in Nat
      /\ active = Cardinality(Holders) /\ Cardinality(Holders) \in Nat
      /\ waiters # <<>> => active = Limit
  BY SlotTypes
<1>1. /\ IsFiniteSet(Holders \ {j}) /\ Cardinality(Holders \ {j}) = active - 1
      /\ active - 1 \in Nat
  <2>1. IsFiniteSet(Holders \ {j}) /\ Cardinality(Holders \ {j}) = Cardinality(Holders) - 1
    BY <1>0, HoldersFinite, FS_RemoveElement
  <2>2. Cardinality(Holders \ {j}) \in Nat
    BY <2>1, FS_CardinalityType
  <2> QED
    BY <1>t, <2>1, <2>2
<1>2. CASE waiters = <<>> /\ active' = active - 1 /\ Goto(j, "done") /\ UNCHANGED waiters
  <2>1. Holders' = Holders \ {j} /\ pc' \in [Job -> Pc]
    BY <1>0, <1>2, <1>t DEF Holders, Goto, Pc
  <2>2. \A k \in Job : pc'[k] = "waiting" <=> pc[k] = "waiting"
    BY <1>0, <1>2, <1>t DEF Goto
  <2>3. QueueHoldsTheWaiting'
    BY <1>2, <2>2 DEF QueueHoldsTheWaiting, SlotInv
  <2>4. active' \in Nat /\ active' <= Limit /\ active' = Cardinality(Holders')
    BY <1>1, <1>2, <1>t, <2>1
  <2> QED
    BY <1>0, <1>2, <1>t, <2>1, <2>3, <2>4, SlotsRebuilt
<1>3. CASE /\ waiters # <<>>
           /\ active' = (active - 1) + 1
           /\ waiters' = Tail(waiters)
           /\ pc' = [pc EXCEPT ![j] = "done", ![Head(waiters)] = "granted"]
  <2> DEFINE h == Head(waiters)
  <2>1. /\ h \in Job /\ h # j /\ pc[h] = "waiting" /\ h \notin Holders
        /\ Len(waiters) \in Nat \ {0} /\ h = waiters[1]
        /\ Len(waiters') = Len(waiters) - 1 /\ waiters' \in Seq(Job)
        /\ \A i \in 1..Len(waiters') : waiters'[i] = waiters[i + 1]
    BY <1>0, <1>3, HeadWaits DEF Holders
  <2>2. Holders' = (Holders \ {j}) \cup {h} /\ pc' \in [Job -> Pc]
    BY <1>0, <1>3, <1>t, <2>1 DEF Holders, Pc
  <2>3. \A k \in Job : pc'[k] = "waiting" <=> (pc[k] = "waiting" /\ k # h)
    BY <1>0, <1>3, <1>t, <2>1
  <2> HIDE DEF h
  <2>4. Cardinality(Holders') = Cardinality(Holders \ {j}) + 1
    <3>1. h \notin Holders \ {j}
      BY <2>1
    <3> QED
      BY <1>1, <2>2, <3>1, FS_AddElement
  <2>5. active' = active /\ active' = Cardinality(Holders') /\ active = Limit
    BY <1>1, <1>3, <1>t, <2>4
  <2>6. \A i \in 1..Len(waiters) : i # 1 => /\ i - 1 \in 1..Len(waiters')
                                            /\ waiters'[i - 1] = waiters[i]
    BY <2>1
  <2>7. \A i \in 1..Len(waiters') : i + 1 \in 1..Len(waiters) /\ i + 1 # 1
    BY <2>1
  <2>8. /\ 1 \in 1..Len(waiters)
        /\ \A i, k \in 1..Len(waiters) : waiters[i] = waiters[k] => i = k
        /\ \A k \in Job : pc[k] = "waiting" <=> \E i \in 1..Len(waiters) : waiters[i] = k
    BY <2>1 DEF QueueHoldsTheWaiting, SlotInv
  <2>9. \A i \in 1..Len(waiters') : waiters'[i] # h
    BY <2>1, <2>7, <2>8
  <2>10. \A k \in Job : (\E i \in 1..Len(waiters') : waiters'[i] = k)
                           <=> (\E i \in 1..Len(waiters) : waiters[i] = k) /\ k # h
    BY <2>1, <2>6, <2>7, <2>9
  <2>11. \A i, k \in 1..Len(waiters') : waiters'[i] = waiters'[k] => i = k
    <3> SUFFICES ASSUME NEW i \in 1..Len(waiters'), NEW k \in 1..Len(waiters'),
                        waiters'[i] = waiters'[k]
                 PROVE  i = k
      OBVIOUS
    <3>1. i + 1 = k + 1
      BY <2>1, <2>7, <2>8
    <3> QED
      BY <3>1
  <2>12. QueueHoldsTheWaiting'
    BY <2>3, <2>8, <2>10, <2>11 DEF QueueHoldsTheWaiting
  <2> QED
    BY <1>0, <1>t, <2>1, <2>2, <2>5, <2>12, SlotsRebuilt
<1> QED
  BY <1>2, <1>3 DEF Release

LEMMA SkipKeepsSlots ==
  ASSUME SlotInv, NEW j \in Job, SkipScan(j)
  PROVE  SlotInv' /\ Holders' = Holders
<1>1. Holders' = Holders
  BY DEF SlotInv, TypeOK, SkipScan, Goto, Holders
<1> QED
  <2>1. /\ UNCHANGED <<mode, active, waiters, sent, reply, verdict>>
        /\ pc' = [pc EXCEPT ![j] = "skipped"] /\ pc[j] = "new"
    BY DEF SkipScan, Goto
  <2>2. TypeOK'
    BY <2>1 DEF SlotInv, TypeOK, Pc
  <2>3. SlotsAreAccounted'
    BY <1>1, <2>1 DEF SlotInv, SlotsAreAccounted
  <2>4. \A k \in Job : pc'[k] = "waiting" <=> pc[k] = "waiting"
    BY <2>1 DEF SlotInv, TypeOK
  <2>5. QueueHoldsTheWaiting'
    BY <2>1, <2>4 DEF SlotInv, QueueHoldsTheWaiting
  <2> QED
    BY <1>1, <2>2, <2>3, <2>5 DEF SlotInv

LEMMA StutterKeepsSlots == SlotInv /\ UNCHANGED vars => SlotInv'
BY DEF vars, SlotInv, TypeOK, SlotsAreAccounted, QueueHoldsTheWaiting, Holders

LEMMA SlotInvariant == Spec => []SlotInv
<1>1. SlotInv /\ [Next]_vars => SlotInv'
  BY ScanStepKeepsSlots, AcquireKeepsSlots, ReleaseKeepsSlots, SkipKeepsSlots,
     StutterKeepsSlots DEF Next
<1> QED
  BY <1>1, InitHolds, PTL DEF Spec

\* The counter is the number of slots held, within the limit, and no upload
\* waits while a slot is free.
THEOREM SlotsAreAlwaysAccounted == Spec => [](TypeOK /\ SlotsAreAccounted)
<1>1. SlotInv => TypeOK /\ SlotsAreAccounted
  BY DEF SlotInv
<1> QED
  BY <1>1, SlotInvariant, PTL

-----------------------------------------------------------------------------
(* Verdicts *)

\* A verdict is kept from the settlement to the release, and nothing reaches a settled
\* scan; clamd has answered on the contents only when it had all of them; clamscan
\* answers by its exit code.
VerdictInv ==
    \A j \in Job :
        /\ verdict[j] # "none" => pc[j] = "settled"
        /\ verdict[j] = "clean" => sent[j] = "all" /\ reply[j] # "FOUND"
        /\ reply[j] \in {"OK", "FOUND"} => sent[j] = "all"
        /\ mode # "clamd" => reply[j] = ""

\* No callback gives a clean verdict to a file that was not seen to its end.
LEMMA VerdictsKept == SlotInv /\ VerdictInv /\ [Next]_vars => VerdictInv'
<1> SUFFICES ASSUME SlotInv, TypeOK, VerdictInv, [Next]_vars PROVE VerdictInv'
  BY DEF SlotInv
<1> USE DEF TypeOK, VerdictInv, Goto, Settle, Streaming, Semaphore
<1>1. ASSUME NEW j \in Job, SkipScan(j) PROVE VerdictInv'
  BY <1>1 DEF SkipScan
<1>2. ASSUME NEW j \in Job, Acquire(j) PROVE VerdictInv'
  BY <1>2 DEF Acquire
<1>3. ASSUME NEW j \in Job, StartScan(j) PROVE VerdictInv'
  BY <1>3 DEF StartScan
<1>4. ASSUME NEW j \in Job, SendChunk(j) PROVE VerdictInv'
  BY <1>4 DEF SendChunk
<1>5. ASSUME NEW j \in Job, SendEnd(j) PROVE VerdictInv'
  BY <1>5 DEF SendEnd
<1>6. ASSUME NEW j \in Job, FileError(j) PROVE VerdictInv'
  BY <1>6 DEF FileError
<1>7. ASSUME NEW j \in Job, OnData(j) PROVE VerdictInv'
  <2>1. PICK text \in {"OK", "FOUND", "ERROR"} :
            /\ ClamdAnswer(text, j)
            /\ reply' = [reply EXCEPT ![j] = text]
            /\ verdict' = [verdict EXCEPT ![j] = Parsed(text)]
    BY <1>7 DEF OnData
  <2>2. Parsed(text) = "clean" => text = "OK"
    BY <2>1 DEF Parsed
  <2> QED
    BY <1>7, <2>1, <2>2 DEF OnData, ClamdAnswer
<1>8. ASSUME NEW j \in Job, OnPartialData(j) PROVE VerdictInv'
  BY <1>8 DEF OnPartialData, ClamdAnswer
<1>9. ASSUME NEW j \in Job, OnClose(j) PROVE VerdictInv'
  <2>1. Parsed(reply[j]) = "clean" => reply[j] = "OK"
    BY DEF Parsed
  <2> QED
    BY <1>9, <2>1 DEF OnClose
<1>10. ASSUME NEW j \in Job, OnSocketError(j) PROVE VerdictInv'
  BY <1>10 DEF OnSocketError
<1>11. ASSUME NEW j \in Job, OnExit(j) PROVE VerdictInv'
  BY <1>11 DEF OnExit
<1>12. ASSUME NEW j \in Job, OnTimeout(j) PROVE VerdictInv'
  BY <1>12 DEF OnTimeout
<1>13. ASSUME NEW j \in Job, Release(j) PROVE VerdictInv'
  <2>1. /\ sent' = [sent EXCEPT ![j] = "nothing"]
        /\ reply' = [reply EXCEPT ![j] = ""]
        /\ verdict' = [verdict EXCEPT ![j] = "none"]
        /\ mode' = mode
    BY <1>13 DEF Release, Forget
  <2>2. \A k \in Job : pc[k] = "settled" /\ k # j => pc'[k] = "settled"
    <3>0. pc[j] = "settled"
      BY <1>13 DEF Release
    <3>1. waiters # <<>> => Head(waiters) \in Job /\ pc[Head(waiters)] = "waiting"
      BY <3>0, HeadWaits
    <3> QED
      BY <1>13, <3>1 DEF Release
  <2> QED
    BY <2>1, <2>2
<1>14. CASE UNCHANGED vars
  BY <1>14 DEF vars
<1> QED
  BY <1>1, <1>2, <1>3, <1>4, <1>5, <1>6, <1>7, <1>8, <1>9, <1>10, <1>11, <1>12, <1>13, <1>14
     DEF Next, ScanStep

\* ScanService.scan resolves only for a file the antivirus saw to its end and found
\* clean, in both modes, for any number of uploads and slots, whatever order the
\* events of socket, file and timer come in.
THEOREM NothingIsCleanUnscanned == Spec => []CleanMeansScanned
<1>1. Init => VerdictInv
  BY DEF Init, VerdictInv
<1>2. VerdictInv => CleanMeansScanned
  BY DEF VerdictInv, CleanMeansScanned
<1> QED
  BY <1>1, <1>2, VerdictsKept, SlotInvariant, PTL DEF Spec

-----------------------------------------------------------------------------
(* Refinement *)

LEMMA LineInitially == Init => Line!LineInit
<1> SUFFICES ASSUME Init PROVE Line!LineInit
  OBVIOUS
<1>1. waiters = <<>> /\ \A j \in Job : pc[j] = "new"
  BY DEF Init
<1>2. Holders = {} /\ {j \in Job : pc[j] \notin {"new", "skipped"}} = {}
  BY <1>1 DEF Holders
<1> QED
  BY <1>1, <1>2 DEF Line!LineInit

\* acquire() enters, stands in line or is turned away.
LEMMA AcquireArrives ==
  ASSUME SlotInv, NEW j \in Job, Acquire(j)
  PROVE  Line!Enter(j) \/ Line!StandInLine(j) \/ Line!TurnAway(j)
<1>t. /\ active \in Nat /\ Limit \in Nat /\ active <= Limit
      /\ pc \in [Job -> Pc] /\ active = Cardinality(Holders)
      /\ waiters # <<>> => active = Limit
  BY SlotTypes
<1>0. pc[j] = "new" /\ j \notin Holders
  BY DEF Acquire, Holders
<1> DEFINE Seen == {k \in Job : pc[k] \notin {"new", "skipped"}}
<1>1. j \notin Seen
  BY <1>0
<1>2. CASE active < Limit /\ Goto(j, "granted") /\ UNCHANGED waiters
  <2>1. Holders' = Holders \cup {j} /\ Seen' = Seen \cup {j}
    BY <1>0, <1>2, <1>t DEF Holders, Goto
  <2>2. waiters = <<>> /\ Cardinality(Holders) # Limit
    BY <1>2, <1>t
  <2> QED
    BY <1>1, <1>2, <2>1, <2>2 DEF Line!Enter, Line!Full, Line!Cardinality, Cardinality
<1>3. CASE active >= Limit /\ Len(waiters) >= MaxQueue /\ Goto(j, "refused")
           /\ UNCHANGED waiters
  <2>1. Holders' = Holders /\ Seen' = Seen \cup {j}
    BY <1>0, <1>3, <1>t DEF Holders, Goto
  <2>2. Cardinality(Holders) = Limit
    BY <1>3, <1>t
  <2> QED
    BY <1>1, <1>3, <2>1, <2>2 DEF Line!TurnAway, Line!Full, Line!Cardinality, Cardinality
<1>4. CASE /\ active >= Limit /\ Len(waiters) < MaxQueue /\ Goto(j, "waiting")
           /\ waiters' = Append(waiters, j)
  <2>1. Holders' = Holders /\ Seen' = Seen \cup {j}
    BY <1>0, <1>4, <1>t DEF Holders, Goto
  <2>2. Cardinality(Holders) = Limit
    BY <1>4, <1>t
  <2> QED
    BY <1>1, <1>4, <2>1, <2>2 DEF Line!StandInLine, Line!Full, Line!Cardinality, Cardinality
<1> QED
  BY <1>2, <1>3, <1>4 DEF Acquire

\* release() leaves, and lets the head of the line in.
LEMMA ReleaseLeaves ==
  ASSUME SlotInv, NEW j \in Job, Release(j)
  PROVE  Line!Leave(j)
<1>t. pc \in [Job -> Pc]
  BY SlotTypes
<1>0. pc[j] = "settled" /\ j \in Holders
  BY DEF Release, Holders
<1> DEFINE Seen == {k \in Job : pc[k] \notin {"new", "skipped"}}
<1>1. CASE waiters = <<>> /\ Goto(j, "done") /\ UNCHANGED waiters
  <2>1. Holders' = Holders \ {j} /\ Seen' = Seen
    BY <1>0, <1>1, <1>t DEF Holders, Goto
  <2> QED
    BY <1>0, <1>1, <2>1 DEF Line!Leave
<1>2. CASE /\ waiters # <<>>
           /\ waiters' = Tail(waiters)
           /\ pc' = [pc EXCEPT ![j] = "done", ![Head(waiters)] = "granted"]
  <2>1. Head(waiters) \in Job /\ Head(waiters) # j /\ pc[Head(waiters)] = "waiting"
    BY <1>0, <1>2, HeadWaits
  <2>2. Holders' = (Holders \ {j}) \cup {Head(waiters)} /\ Seen' = Seen
    BY <1>0, <1>2, <1>t, <2>1 DEF Holders
  <2> QED
    BY <1>0, <1>2, <2>2 DEF Line!Leave
<1> QED
  BY <1>1, <1>2 DEF Release

\* Every other step leaves the line as it is.
LEMMA OthersStutter ==
  ASSUME SlotInv,
         \/ \E j \in Job : (SkipScan(j) \/ ScanStep(j))
         \/ UNCHANGED vars
  PROVE  UNCHANGED Line!lineVars
<1>1. ASSUME NEW j \in Job, SkipScan(j) PROVE UNCHANGED Line!lineVars
  BY <1>1 DEF SlotInv, TypeOK, SkipScan, Goto, Holders, Line!lineVars
<1>2. ASSUME NEW j \in Job, ScanStep(j) PROVE UNCHANGED Line!lineVars
  <2>1. /\ Holders' = Holders /\ waiters' = waiters
        /\ \A k \in Job : pc'[k] \in {"new", "skipped"} <=> pc[k] \in {"new", "skipped"}
    BY <1>2, ScanStepKeepsSlots
  <2> QED
    BY <2>1 DEF Line!lineVars
<1>3. ASSUME UNCHANGED vars PROVE UNCHANGED Line!lineVars
  BY <1>3 DEF vars, Holders, Line!lineVars
<1> QED
  BY <1>1, <1>2, <1>3

\* "Scans beyond the limit wait their turn": the semaphore implements the
\* safety part of the bounded line.  Its fairness is left to the runs.
THEOREM SemaphoreImplementsLine == Spec => Line!LineSafety
<1>1. SlotInv /\ [Next]_vars => [Line!LineNext]_(Line!lineVars)
  BY AcquireArrives, ReleaseLeaves, OthersStutter DEF Next, Line!LineNext
<1> QED
  BY <1>1, LineInitially, SlotInvariant, PTL DEF Spec, Line!LineSafety

-----------------------------------------------------------------------------
(* Lockout *)

Standing(i, s) == {r \in Request : step[r] = s /\ from[r] = i}
Uncounted(i) == Cardinality(Standing(i, "wrong"))
Guessing(i) == Cardinality(Standing(i, "checked"))

\* No copy is ahead of the failures there were, and one about to be written
\* back is behind its own.
CopiesInv ==
    /\ attempts <= wrong
    /\ \A r \in Request :
        /\ seen[r] <= wrong
        /\ step[r] \in {"wrong", "counted", "armed"} => seen[r] < wrong
    /\ lock = "live" => wrong >= MaxAccount

CountsInv ==
    \A i \in Ip :
        /\ count[i] + Uncounted(i) <= wrong
        /\ guesses[i] <= wrong
        /\ guesses[i] <= count[i] + Uncounted(i) + crashes
        /\ guesses[i] + Guessing(i) < MaxPerIp + Cardinality(Request) + crashes

LockoutInv == LockoutTypeOK /\ CopiesInv /\ CountsInv

\* The requests at a step are finitely many.
LEMMA StandingFinite ==
  ASSUME NEW i, NEW s
  PROVE  /\ IsFiniteSet(Standing(i, s))
         /\ Cardinality(Standing(i, s)) \in Nat
         /\ Cardinality(Request) \in Nat
<1>1. IsFiniteSet(Standing(i, s))
  BY RequestAssumption, FS_Subset DEF Standing
<1> QED
  BY <1>1, RequestAssumption, FS_CardinalityType

\* Two groups of requests with none in common.
LEMMA Apart ==
  ASSUME NEW W \in SUBSET Request, NEW K \in SUBSET Request, W \cap K = {}
  PROVE  Cardinality(W) + Cardinality(K) <= Cardinality(Request)
<1>1. /\ IsFiniteSet(W) /\ Cardinality(W) \in Nat
      /\ IsFiniteSet(K) /\ Cardinality(K) \in Nat
  BY RequestAssumption, FS_Subset, FS_CardinalityType
<1>2. Cardinality(W \cup K) = Cardinality(W) + Cardinality(K) - Cardinality(W \cap K)
  BY <1>1, FS_Union
<1>3. Cardinality(W \cap K) = 0
  BY FS_EmptySet
<1>4. Cardinality(W \cup K) <= Cardinality(Request)
  BY RequestAssumption, FS_Subset
<1> QED
  BY <1>1, <1>2, <1>3, <1>4

\* A request at "wrong" is not at "checked".
LEMMA StandingApart ==
  ASSUME NEW i
  PROVE  /\ Uncounted(i) + Guessing(i) <= Cardinality(Request)
         /\ Uncounted(i)' + Guessing(i)' <= Cardinality(Request)
<1>1. /\ Standing(i, "wrong") \in SUBSET Request /\ Standing(i, "checked") \in SUBSET Request
      /\ Standing(i, "wrong") \cap Standing(i, "checked") = {}
  BY DEF Standing
<1>2. /\ Standing(i, "wrong")' \in SUBSET Request /\ Standing(i, "checked")' \in SUBSET Request
      /\ Standing(i, "wrong")' \cap Standing(i, "checked")' = {}
  BY DEF Standing
<1> QED
  BY <1>1, <1>2, Apart DEF Uncounted, Guessing

\* What the move of one request to step t changes, for the two steps that count.
LEMMA Move ==
  ASSUME LockoutTypeOK, NEW r \in Request, NEW t,
         step' = [step EXCEPT ![r] = t], from' = from, step[r] # t,
         NEW i \in Ip
  PROVE  /\ Uncounted(i)' = IF i = from[r] /\ t = "wrong" THEN Uncounted(i) + 1
                            ELSE IF i = from[r] /\ step[r] = "wrong" THEN Uncounted(i) - 1
                            ELSE Uncounted(i)
         /\ Guessing(i)' = IF i = from[r] /\ t = "checked" THEN Guessing(i) + 1
                           ELSE IF i = from[r] /\ step[r] = "checked" THEN Guessing(i) - 1
                           ELSE Guessing(i)
<1>1. Uncounted(i)' = IF i = from[r] /\ t = "wrong" THEN Uncounted(i) + 1
           ELSE IF i = from[r] /\ step[r] = "wrong" THEN Uncounted(i) - 1
           ELSE Uncounted(i)
  <2> DEFINE S == Standing(i, "wrong")
  <2>1. CASE i # from[r] \/ ("wrong" # step[r] /\ "wrong" # t)
    <3>1. S' = S
      BY <2>1 DEF Standing, LockoutTypeOK
    <3> QED
      BY <2>1, <3>1 DEF Uncounted
  <2>2. CASE i = from[r] /\ t = "wrong"
    <3>1. S' = S \cup {r} /\ r \notin S
      BY <2>2 DEF Standing, LockoutTypeOK
    <3>2. Cardinality(S') = Cardinality(S) + 1
      BY <3>1, StandingFinite, FS_AddElement
    <3> QED
      BY <2>2, <3>2 DEF Uncounted
  <2>3. CASE i = from[r] /\ step[r] = "wrong"
    <3>1. S' = S \ {r} /\ r \in S
      BY <2>3 DEF Standing, LockoutTypeOK
    <3>2. Cardinality(S') = Cardinality(S) - 1
      BY <3>1, StandingFinite, FS_RemoveElement
    <3> QED
      BY <2>3, <3>2 DEF Uncounted
  <2> QED
    BY <2>1, <2>2, <2>3
<1>2. Guessing(i)' = IF i = from[r] /\ t = "checked" THEN Guessing(i) + 1
           ELSE IF i = from[r] /\ step[r] = "checked" THEN Guessing(i) - 1
           ELSE Guessing(i)
  <2> DEFINE S == Standing(i, "checked")
  <2>1. CASE i # from[r] \/ ("checked" # step[r] /\ "checked" # t)
    <3>1. S' = S
      BY <2>1 DEF Standing, LockoutTypeOK
    <3> QED
      BY <2>1, <3>1 DEF Guessing
  <2>2. CASE i = from[r] /\ t = "checked"
    <3>1. S' = S \cup {r} /\ r \notin S
      BY <2>2 DEF Standing, LockoutTypeOK
    <3>2. Cardinality(S') = Cardinality(S) + 1
      BY <3>1, StandingFinite, FS_AddElement
    <3> QED
      BY <2>2, <3>2 DEF Guessing
  <2>3. CASE i = from[r] /\ step[r] = "checked"
    <3>1. S' = S \ {r} /\ r \in S
      BY <2>3 DEF Standing, LockoutTypeOK
    <3>2. Cardinality(S') = Cardinality(S) - 1
      BY <3>1, StandingFinite, FS_RemoveElement
    <3> QED
      BY <2>3, <3>2 DEF Guessing
  <2> QED
    BY <2>1, <2>2, <2>3
<1> QED
  BY <1>1, <1>2

\* Move, of the step a request has moved to.
LEMMA Moved ==
  ASSUME LockoutTypeOK, NEW r \in Request,
         step' = [step EXCEPT ![r] = step'[r]], from' = from, step'[r] # step[r],
         NEW i \in Ip
  PROVE  /\ Uncounted(i)' = IF i = from[r] /\ step'[r] = "wrong" THEN Uncounted(i) + 1
                            ELSE IF i = from[r] /\ step[r] = "wrong" THEN Uncounted(i) - 1
                            ELSE Uncounted(i)
         /\ Guessing(i)' = IF i = from[r] /\ step'[r] = "checked" THEN Guessing(i) + 1
                           ELSE IF i = from[r] /\ step[r] = "checked" THEN Guessing(i) - 1
                           ELSE Guessing(i)
<1> DEFINE t == step'[r]
<1>1. step' = [step EXCEPT ![r] = t] /\ step[r] # t
  OBVIOUS
<1> HIDE DEF t
<1>2. /\ Uncounted(i)' = IF i = from[r] /\ t = "wrong" THEN Uncounted(i) + 1
                         ELSE IF i = from[r] /\ step[r] = "wrong" THEN Uncounted(i) - 1
                         ELSE Uncounted(i)
      /\ Guessing(i)' = IF i = from[r] /\ t = "checked" THEN Guessing(i) + 1
                        ELSE IF i = from[r] /\ step[r] = "checked" THEN Guessing(i) - 1
                        ELSE Guessing(i)
  BY <1>1, Move
<1> QED
  BY <1>2 DEF t

\* The numbers an address is judged by.
LEMMA Typed ==
  ASSUME LockoutInv, NEW i \in Ip
  PROVE  /\ count[i] \in Nat /\ guesses[i] \in Nat
         /\ wrong \in Nat /\ wrong <= MaxWrong /\ crashes \in Nat
         /\ Uncounted(i) \in Nat /\ Guessing(i) \in Nat /\ Cardinality(Request) \in Nat
         /\ MaxPerIp \in Nat \ {0} /\ MaxAccount \in Nat \ {0}
         /\ MaxWrong \in Nat /\ MaxCrashes \in Nat
         /\ Uncounted(i) + Guessing(i) <= Cardinality(Request)
         /\ count[i] + Uncounted(i) <= wrong
         /\ guesses[i] <= wrong
         /\ guesses[i] <= count[i] + Uncounted(i) + crashes
         /\ guesses[i] + Guessing(i) < MaxPerIp + Cardinality(Request) + crashes
<1>1. Uncounted(i) \in Nat /\ Guessing(i) \in Nat /\ Cardinality(Request) \in Nat
  BY StandingFinite DEF Uncounted, Guessing
<1>2. count[i] \in Nat /\ guesses[i] \in Nat /\ wrong \in Nat /\ wrong <= MaxWrong /\ crashes \in Nat
  BY LimitsAssumption DEF LockoutInv, LockoutTypeOK
<1> QED
  BY <1>1, <1>2, LimitsAssumption, StandingApart DEF LockoutInv, CountsInv

\* Counters within the failures there were are within the bound on those.
LEMMA CountersTyped ==
  ASSUME wrong' \in 0..MaxWrong, CountsInv', CopiesInv',
         attempts' \in Nat, \A r \in Request : seen'[r] \in Nat,
         \A i \in Ip : count'[i] \in Nat /\ guesses'[i] \in Nat
  PROVE  /\ attempts' \in 0..MaxWrong
         /\ \A r \in Request : seen'[r] \in 0..MaxWrong
         /\ \A i \in Ip : count'[i] \in 0..MaxWrong /\ guesses'[i] \in 0..MaxWrong
<1>1. wrong' \in Nat /\ wrong' <= MaxWrong /\ MaxWrong \in Nat
  BY LimitsAssumption
<1>2. ASSUME NEW i \in Ip PROVE count'[i] <= wrong' /\ guesses'[i] <= wrong'
  <2>1. Uncounted(i)' \in Nat
    <3>1. IsFiniteSet(Standing(i, "wrong")')
      BY RequestAssumption, FS_Subset DEF Standing
    <3> QED
      BY <3>1, FS_CardinalityType DEF Uncounted
  <2>2. count'[i] \in Nat /\ count'[i] + Uncounted(i)' <= wrong' /\ guesses'[i] <= wrong'
    BY DEF CountsInv
  <2> QED
    BY <1>1, <2>1, <2>2
<1>3. attempts' <= wrong' /\ \A r \in Request : seen'[r] <= wrong'
  BY DEF CopiesInv
<1> QED
  BY <1>1, <1>2, <1>3

\* Nobody has tried anything.
LEMMA LockoutStartsRight == LockoutInit => LockoutInv
<1> SUFFICES ASSUME LockoutInit PROVE LockoutInv
  OBVIOUS
<1>1. LockoutTypeOK
  <2>1. 0 \in 0..MaxWrong /\ 0 \in 0..MaxCrashes
    BY LimitsAssumption
  <2> QED
    BY <2>1 DEF LockoutInit, LockoutTypeOK
<1>2. CopiesInv
  BY DEF LockoutInit, CopiesInv
<1>3. CountsInv
  <2> SUFFICES ASSUME NEW i \in Ip
               PROVE  /\ Uncounted(i) = 0 /\ Guessing(i) = 0
                      /\ Cardinality(Request) \in Nat
    BY LimitsAssumption DEF LockoutInit, CountsInv
  <2>1. Standing(i, "wrong") = {} /\ Standing(i, "checked") = {}
    BY DEF LockoutInit, Standing
  <2> QED
    BY <2>1, FS_EmptySet, StandingFinite, LimitsAssumption DEF Uncounted, Guessing
<1> QED
  BY <1>1, <1>2, <1>3 DEF LockoutInv

\* The copy is no newer than the row.
LEMMA ReadKeeps ==
  ASSUME LockoutInv, NEW r \in Request, Read(r)
  PROVE  LockoutInv'
<1> USE DEF Read, At, row, store, history
<1>1. CopiesInv'
  BY Typed DEF LockoutInv, LockoutTypeOK, CopiesInv
<1>2. CountsInv'
  <2> SUFFICES ASSUME NEW i \in Ip
               PROVE  /\ count'[i] + Uncounted(i)' <= wrong'
                      /\ guesses'[i] <= wrong'
                      /\ guesses'[i] <= count'[i] + Uncounted(i)' + crashes'
                      /\ guesses'[i] + Guessing(i)' < MaxPerIp + Cardinality(Request) + crashes'
    BY DEF CountsInv
  <2>1. Standing(i, "wrong")' = Standing(i, "wrong") /\ Standing(i, "checked")' = Standing(i, "checked")
    BY DEF LockoutInv, LockoutTypeOK, Standing
  <2> QED
    BY <2>1, Typed DEF Uncounted, Guessing
<1>3. LockoutTypeOK'
  <2>1. wrong' \in 0..MaxWrong /\ attempts' \in Nat
    BY LimitsAssumption DEF LockoutInv, LockoutTypeOK
  <2>2. \A q \in Request : seen'[q] \in Nat
    BY DEF LockoutInv, LockoutTypeOK
  <2>3. \A i \in Ip : count'[i] \in Nat /\ guesses'[i] \in Nat
    BY DEF LockoutInv, LockoutTypeOK
  <2>4. crashes' \in 0..MaxCrashes
    BY LimitsAssumption DEF LockoutInv, LockoutTypeOK
  <2>5. /\ attempts' \in 0..MaxWrong
        /\ \A q \in Request : seen'[q] \in 0..MaxWrong
        /\ \A i \in Ip : count'[i] \in 0..MaxWrong /\ guesses'[i] \in 0..MaxWrong
    BY <1>1, <1>2, <2>1, <2>2, <2>3, CountersTyped
  <2>6. /\ count' \in [Ip -> 0..MaxWrong] /\ guesses' \in [Ip -> 0..MaxWrong]
        /\ seen' \in [Request -> 0..MaxWrong]
    BY <2>5 DEF LockoutInv, LockoutTypeOK
  <2> QED
    BY <2>1, <2>4, <2>5, <2>6 DEF LockoutInv, LockoutTypeOK
<1> QED
  BY <1>1, <1>2, <1>3 DEF LockoutInv

\* A request that may guess finds the counter below the limit.
LEMMA CheckAddressKeeps ==
  ASSUME LockoutInv, NEW r \in Request, CheckAddress(r)
  PROVE  LockoutInv'
<1> USE DEF CheckAddress, At, MoveTo, Answer, row, store, copy, history
<1>1. CopiesInv'
  BY Typed DEF LockoutInv, LockoutTypeOK, CopiesInv
<1>2. CountsInv'
  <2> SUFFICES ASSUME NEW i \in Ip
               PROVE  /\ count'[i] + Uncounted(i)' <= wrong'
                      /\ guesses'[i] <= wrong'
                      /\ guesses'[i] <= count'[i] + Uncounted(i)' + crashes'
                      /\ guesses'[i] + Guessing(i)' < MaxPerIp + Cardinality(Request) + crashes'
    BY DEF CountsInv
  <2>1. CASE count[from[r]] >= MaxPerIp
    <3>1. Uncounted(i)' = Uncounted(i) /\ Guessing(i)' = Guessing(i)
      <4>1. Standing(i, "wrong")' = Standing(i, "wrong") /\ Standing(i, "checked")' = Standing(i, "checked")
        BY <2>1 DEF LockoutInv, LockoutTypeOK, Standing
      <4> QED
        BY <4>1 DEF Uncounted, Guessing
    <3> QED
      BY <2>1, <3>1, Typed
  <2>2. CASE ~(count[from[r]] >= MaxPerIp)
    <3>0. LockoutTypeOK /\ step' = [step EXCEPT ![r] = "checked"] /\ from' = from /\ step[r] = "read"
      BY <2>2 DEF LockoutInv
    <3>1. Uncounted(i)' = Uncounted(i)
      BY <3>0, Move
    <3>2. Guessing(i)' = IF i = from[r] THEN Guessing(i) + 1 ELSE Guessing(i)
      BY <3>0, Move
    <3>3. i = from[r] => count[i] < MaxPerIp
      BY <2>2, Typed
    <3>4. Uncounted(i) + Guessing(i)' <= Cardinality(Request)
      BY <3>1, StandingApart
    <3> QED
      BY <2>2, <3>1, <3>2, <3>3, <3>4, Typed
  <2> QED
    BY <2>1, <2>2
<1>3. LockoutTypeOK'
  <2>1. wrong' \in 0..MaxWrong /\ attempts' \in Nat
    BY LimitsAssumption DEF LockoutInv, LockoutTypeOK
  <2>2. \A q \in Request : seen'[q] \in Nat
    BY DEF LockoutInv, LockoutTypeOK
  <2>3. \A i \in Ip : count'[i] \in Nat /\ guesses'[i] \in Nat
    BY DEF LockoutInv, LockoutTypeOK
  <2>4. crashes' \in 0..MaxCrashes
    BY LimitsAssumption DEF LockoutInv, LockoutTypeOK
  <2>5. /\ attempts' \in 0..MaxWrong
        /\ \A q \in Request : seen'[q] \in 0..MaxWrong
        /\ \A i \in Ip : count'[i] \in 0..MaxWrong /\ guesses'[i] \in 0..MaxWrong
    BY <1>1, <1>2, <2>1, <2>2, <2>3, CountersTyped
  <2>6. /\ count' \in [Ip -> 0..MaxWrong] /\ guesses' \in [Ip -> 0..MaxWrong]
        /\ seen' \in [Request -> 0..MaxWrong]
    BY <2>5 DEF LockoutInv, LockoutTypeOK
  <2> QED
    BY <2>1, <2>4, <2>5, <2>6 DEF LockoutInv, LockoutTypeOK
<1> QED
  BY <1>1, <1>2, <1>3 DEF LockoutInv

\* A guess moves from those that may come to those not yet counted.
LEMMA TryWrongKeeps ==
  ASSUME LockoutInv, NEW r \in Request, TryWrong(r)
  PROVE  LockoutInv'
<1> USE DEF TryWrong, At, MoveTo, Answer, row, store, copy, history
<1>1. CopiesInv'
  BY Typed DEF LockoutInv, LockoutTypeOK, CopiesInv
<1>2. CountsInv'
  <2> SUFFICES ASSUME NEW i \in Ip
               PROVE  /\ count'[i] + Uncounted(i)' <= wrong'
                      /\ guesses'[i] <= wrong'
                      /\ guesses'[i] <= count'[i] + Uncounted(i)' + crashes'
                      /\ guesses'[i] + Guessing(i)' < MaxPerIp + Cardinality(Request) + crashes'
    BY DEF CountsInv
  <2>0. LockoutTypeOK /\ step' = [step EXCEPT ![r] = "wrong"] /\ from' = from /\ step[r] = "checked"
    BY DEF LockoutInv
  <2>1. Uncounted(i)' = IF i = from[r] THEN Uncounted(i) + 1 ELSE Uncounted(i)
    BY <2>0, Move
  <2>2. Guessing(i)' = IF i = from[r] THEN Guessing(i) - 1 ELSE Guessing(i)
    BY <2>0, Move
  <2> QED
    BY <2>1, <2>2, Typed DEF LockoutInv, LockoutTypeOK
<1>3. LockoutTypeOK'
  <2>1. wrong' \in 0..MaxWrong /\ attempts' \in Nat
    BY LimitsAssumption DEF LockoutInv, LockoutTypeOK
  <2>2. \A q \in Request : seen'[q] \in Nat
    BY DEF LockoutInv, LockoutTypeOK
  <2>3. \A i \in Ip : count'[i] \in Nat /\ guesses'[i] \in Nat
    BY DEF LockoutInv, LockoutTypeOK
  <2>4. crashes' \in 0..MaxCrashes
    BY LimitsAssumption DEF LockoutInv, LockoutTypeOK
  <2>5. /\ attempts' \in 0..MaxWrong
        /\ \A q \in Request : seen'[q] \in 0..MaxWrong
        /\ \A i \in Ip : count'[i] \in 0..MaxWrong /\ guesses'[i] \in 0..MaxWrong
    BY <1>1, <1>2, <2>1, <2>2, <2>3, CountersTyped
  <2>6. /\ count' \in [Ip -> 0..MaxWrong] /\ guesses' \in [Ip -> 0..MaxWrong]
        /\ seen' \in [Request -> 0..MaxWrong]
    BY <2>5 DEF LockoutInv, LockoutTypeOK
  <2> QED
    BY <2>1, <2>4, <2>5, <2>6 DEF LockoutInv, LockoutTypeOK
<1> QED
  BY <1>1, <1>2, <1>3 DEF LockoutInv

\* A right password is no guess.
LEMMA TryRightKeeps ==
  ASSUME LockoutInv, NEW r \in Request, TryRight(r)
  PROVE  LockoutInv'
<1> USE DEF TryRight, At, MoveTo, Answer, row, store, copy, history
<1>1. CopiesInv'
  BY Typed DEF LockoutInv, LockoutTypeOK, CopiesInv
<1>2. CountsInv'
  <2> SUFFICES ASSUME NEW i \in Ip
               PROVE  /\ count'[i] + Uncounted(i)' <= wrong'
                      /\ guesses'[i] <= wrong'
                      /\ guesses'[i] <= count'[i] + Uncounted(i)' + crashes'
                      /\ guesses'[i] + Guessing(i)' < MaxPerIp + Cardinality(Request) + crashes'
    BY DEF CountsInv
  <2>0. /\ LockoutTypeOK /\ from' = from /\ step[r] = "checked"
        /\ step' = [step EXCEPT ![r] = step'[r]] /\ step'[r] = "right"
    BY DEF LockoutInv, LockoutTypeOK
  <2>3. count' = count /\ guesses' = guesses /\ wrong' = wrong /\ crashes' = crashes
    OBVIOUS
  <2> HIDE DEF TryRight, At, MoveTo, Answer, row, store, copy, history
  <2>1. Uncounted(i)' = Uncounted(i)
    BY <2>0, Moved
  <2>2. Guessing(i)' = IF i = from[r] THEN Guessing(i) - 1 ELSE Guessing(i)
    BY <2>0, Moved
  <2> QED
    BY <2>1, <2>2, <2>3, Typed
<1>3. LockoutTypeOK'
  <2>1. wrong' \in 0..MaxWrong /\ attempts' \in Nat
    BY LimitsAssumption DEF LockoutInv, LockoutTypeOK
  <2>2. \A q \in Request : seen'[q] \in Nat
    BY DEF LockoutInv, LockoutTypeOK
  <2>3. \A i \in Ip : count'[i] \in Nat /\ guesses'[i] \in Nat
    BY DEF LockoutInv, LockoutTypeOK
  <2>4. crashes' \in 0..MaxCrashes
    BY LimitsAssumption DEF LockoutInv, LockoutTypeOK
  <2>5. /\ attempts' \in 0..MaxWrong
        /\ \A q \in Request : seen'[q] \in 0..MaxWrong
        /\ \A i \in Ip : count'[i] \in 0..MaxWrong /\ guesses'[i] \in 0..MaxWrong
    BY <1>1, <1>2, <2>1, <2>2, <2>3, CountersTyped
  <2>6. /\ count' \in [Ip -> 0..MaxWrong] /\ guesses' \in [Ip -> 0..MaxWrong]
        /\ seen' \in [Request -> 0..MaxWrong]
    BY <2>5 DEF LockoutInv, LockoutTypeOK
  <2> QED
    BY <2>1, <2>4, <2>5, <2>6 DEF LockoutInv, LockoutTypeOK
<1> QED
  BY <1>1, <1>2, <1>3 DEF LockoutInv

\* A guess is counted.
LEMMA IncrementKeeps ==
  ASSUME LockoutInv, NEW r \in Request, Increment(r)
  PROVE  LockoutInv'
<1> USE DEF Increment, At, MoveTo, Answer, row, store, copy, history
<1>1. CopiesInv'
  BY Typed DEF LockoutInv, LockoutTypeOK, CopiesInv
<1>2. CountsInv'
  <2> SUFFICES ASSUME NEW i \in Ip
               PROVE  /\ count'[i] + Uncounted(i)' <= wrong'
                      /\ guesses'[i] <= wrong'
                      /\ guesses'[i] <= count'[i] + Uncounted(i)' + crashes'
                      /\ guesses'[i] + Guessing(i)' < MaxPerIp + Cardinality(Request) + crashes'
    BY DEF CountsInv
  <2>0. /\ LockoutTypeOK /\ from' = from /\ step[r] = "wrong"
        /\ step' = [step EXCEPT ![r] = step'[r]] /\ step'[r] = "counted"
    BY DEF LockoutInv, LockoutTypeOK
  <2>3. guesses' = guesses /\ wrong' = wrong /\ crashes' = crashes
    OBVIOUS
  <2>4. count'[i] = IF i = from[r] THEN count[i] + 1 ELSE count[i]
    BY <2>0 DEF LockoutTypeOK
  <2> HIDE DEF Increment, At, MoveTo, Answer, row, store, copy, history
  <2>1. Uncounted(i)' = IF i = from[r] THEN Uncounted(i) - 1 ELSE Uncounted(i)
    BY <2>0, Moved
  <2>2. Guessing(i)' = Guessing(i)
    <3>1. CASE i = from[r]
      BY <2>0, <3>1, Moved
    <3>2. CASE i # from[r]
      BY <2>0, <3>2, Moved
    <3> QED
      BY <3>1, <3>2
  <2> QED
    BY <2>1, <2>2, <2>3, <2>4, Typed
<1>3. LockoutTypeOK'
  <2>1. wrong' \in 0..MaxWrong /\ attempts' \in Nat
    BY LimitsAssumption DEF LockoutInv, LockoutTypeOK
  <2>2. \A q \in Request : seen'[q] \in Nat
    BY DEF LockoutInv, LockoutTypeOK
  <2>3. \A i \in Ip : count'[i] \in Nat /\ guesses'[i] \in Nat
    BY DEF LockoutInv, LockoutTypeOK
  <2>4. crashes' \in 0..MaxCrashes
    BY LimitsAssumption DEF LockoutInv, LockoutTypeOK
  <2>5. /\ attempts' \in 0..MaxWrong
        /\ \A q \in Request : seen'[q] \in 0..MaxWrong
        /\ \A i \in Ip : count'[i] \in 0..MaxWrong /\ guesses'[i] \in 0..MaxWrong
    BY <1>1, <1>2, <2>1, <2>2, <2>3, CountersTyped
  <2>6. /\ count' \in [Ip -> 0..MaxWrong] /\ guesses' \in [Ip -> 0..MaxWrong]
        /\ seen' \in [Request -> 0..MaxWrong]
    BY <2>5 DEF LockoutInv, LockoutTypeOK
  <2> QED
    BY <2>1, <2>4, <2>5, <2>6 DEF LockoutInv, LockoutTypeOK
<1> QED
  BY <1>1, <1>2, <1>3 DEF LockoutInv

\* The expiry changes no number.
LEMMA ExpireKeeps ==
  ASSUME LockoutInv, NEW r \in Request, Expire(r)
  PROVE  LockoutInv'
<1> USE DEF Expire, At, MoveTo, Answer, row, store, copy, history
<1>1. CopiesInv'
  BY Typed DEF LockoutInv, LockoutTypeOK, CopiesInv
<1>2. CountsInv'
  <2> SUFFICES ASSUME NEW i \in Ip
               PROVE  /\ count'[i] + Uncounted(i)' <= wrong'
                      /\ guesses'[i] <= wrong'
                      /\ guesses'[i] <= count'[i] + Uncounted(i)' + crashes'
                      /\ guesses'[i] + Guessing(i)' < MaxPerIp + Cardinality(Request) + crashes'
    BY DEF CountsInv
  <2>1. Standing(i, "wrong")' = Standing(i, "wrong") /\ Standing(i, "checked")' = Standing(i, "checked")
    BY DEF LockoutInv, LockoutTypeOK, Standing
  <2>2. Uncounted(i)' = Uncounted(i) /\ Guessing(i)' = Guessing(i)
    BY <2>1 DEF Uncounted, Guessing
  <2> QED
    BY <2>2, Typed DEF LockoutInv, LockoutTypeOK
<1>3. LockoutTypeOK'
  <2>1. wrong' \in 0..MaxWrong /\ attempts' \in Nat
    BY LimitsAssumption DEF LockoutInv, LockoutTypeOK
  <2>2. \A q \in Request : seen'[q] \in Nat
    BY DEF LockoutInv, LockoutTypeOK
  <2>3. \A i \in Ip : count'[i] \in Nat /\ guesses'[i] \in Nat
    BY DEF LockoutInv, LockoutTypeOK
  <2>4. crashes' \in 0..MaxCrashes
    BY LimitsAssumption DEF LockoutInv, LockoutTypeOK
  <2>5. /\ attempts' \in 0..MaxWrong
        /\ \A q \in Request : seen'[q] \in 0..MaxWrong
        /\ \A i \in Ip : count'[i] \in 0..MaxWrong /\ guesses'[i] \in 0..MaxWrong
    BY <1>1, <1>2, <2>1, <2>2, <2>3, CountersTyped
  <2>6. /\ count' \in [Ip -> 0..MaxWrong] /\ guesses' \in [Ip -> 0..MaxWrong]
        /\ seen' \in [Request -> 0..MaxWrong]
    BY <2>5 DEF LockoutInv, LockoutTypeOK
  <2> QED
    BY <2>1, <2>4, <2>5, <2>6 DEF LockoutInv, LockoutTypeOK
<1> QED
  BY <1>1, <1>2, <1>3 DEF LockoutInv

\* What is written back is at most the number of failures.
LEMMA CountOnAccountKeeps ==
  ASSUME LockoutInv, NEW r \in Request, CountOnAccount(r)
  PROVE  LockoutInv'
<1> USE DEF CountOnAccount, At, MoveTo, Answer, row, store, copy, history
<1>1. CopiesInv'
  BY Typed DEF LockoutInv, LockoutTypeOK, CopiesInv
<1>2. CountsInv'
  <2> SUFFICES ASSUME NEW i \in Ip
               PROVE  /\ count'[i] + Uncounted(i)' <= wrong'
                      /\ guesses'[i] <= wrong'
                      /\ guesses'[i] <= count'[i] + Uncounted(i)' + crashes'
                      /\ guesses'[i] + Guessing(i)' < MaxPerIp + Cardinality(Request) + crashes'
    BY DEF CountsInv
  <2>1. Standing(i, "wrong")' = Standing(i, "wrong") /\ Standing(i, "checked")' = Standing(i, "checked")
    BY DEF LockoutInv, LockoutTypeOK, Standing
  <2>2. Uncounted(i)' = Uncounted(i) /\ Guessing(i)' = Guessing(i)
    BY <2>1 DEF Uncounted, Guessing
  <2> QED
    BY <2>2, Typed DEF LockoutInv, LockoutTypeOK
<1>3. LockoutTypeOK'
  <2>1. wrong' \in 0..MaxWrong /\ attempts' \in Nat
    BY LimitsAssumption DEF LockoutInv, LockoutTypeOK
  <2>2. \A q \in Request : seen'[q] \in Nat
    BY DEF LockoutInv, LockoutTypeOK
  <2>3. \A i \in Ip : count'[i] \in Nat /\ guesses'[i] \in Nat
    BY DEF LockoutInv, LockoutTypeOK
  <2>4. crashes' \in 0..MaxCrashes
    BY LimitsAssumption DEF LockoutInv, LockoutTypeOK
  <2>5. /\ attempts' \in 0..MaxWrong
        /\ \A q \in Request : seen'[q] \in 0..MaxWrong
        /\ \A i \in Ip : count'[i] \in 0..MaxWrong /\ guesses'[i] \in 0..MaxWrong
    BY <1>1, <1>2, <2>1, <2>2, <2>3, CountersTyped
  <2>6. /\ count' \in [Ip -> 0..MaxWrong] /\ guesses' \in [Ip -> 0..MaxWrong]
        /\ seen' \in [Request -> 0..MaxWrong]
    BY <2>5 DEF LockoutInv, LockoutTypeOK
  <2> QED
    BY <2>1, <2>4, <2>5, <2>6 DEF LockoutInv, LockoutTypeOK
<1> QED
  BY <1>1, <1>2, <1>3 DEF LockoutInv

\* A right password gives the address its guesses back.
LEMMA ClearKeeps ==
  ASSUME LockoutInv, NEW r \in Request, Clear(r)
  PROVE  LockoutInv'
<1> USE DEF Clear, At, MoveTo, Answer, row, store, copy, history
<1>1. CopiesInv'
  BY Typed DEF LockoutInv, LockoutTypeOK, CopiesInv
<1>2. CountsInv'
  <2> SUFFICES ASSUME NEW i \in Ip
               PROVE  /\ count'[i] + Uncounted(i)' <= wrong'
                      /\ guesses'[i] <= wrong'
                      /\ guesses'[i] <= count'[i] + Uncounted(i)' + crashes'
                      /\ guesses'[i] + Guessing(i)' < MaxPerIp + Cardinality(Request) + crashes'
    BY DEF CountsInv
  <2>1. Standing(i, "wrong")' = Standing(i, "wrong") /\ Standing(i, "checked")' = Standing(i, "checked")
    BY DEF LockoutInv, LockoutTypeOK, Standing
  <2>2. Uncounted(i)' = Uncounted(i) /\ Guessing(i)' = Guessing(i)
    BY <2>1 DEF Uncounted, Guessing
  <2> QED
    BY <2>2, Typed DEF LockoutInv, LockoutTypeOK
<1>3. LockoutTypeOK'
  <2>1. wrong' \in 0..MaxWrong /\ attempts' \in Nat
    BY LimitsAssumption DEF LockoutInv, LockoutTypeOK
  <2>2. \A q \in Request : seen'[q] \in Nat
    BY DEF LockoutInv, LockoutTypeOK
  <2>3. \A i \in Ip : count'[i] \in Nat /\ guesses'[i] \in Nat
    BY DEF LockoutInv, LockoutTypeOK
  <2>4. crashes' \in 0..MaxCrashes
    BY LimitsAssumption DEF LockoutInv, LockoutTypeOK
  <2>5. /\ attempts' \in 0..MaxWrong
        /\ \A q \in Request : seen'[q] \in 0..MaxWrong
        /\ \A i \in Ip : count'[i] \in 0..MaxWrong /\ guesses'[i] \in 0..MaxWrong
    BY <1>1, <1>2, <2>1, <2>2, <2>3, CountersTyped
  <2>6. /\ count' \in [Ip -> 0..MaxWrong] /\ guesses' \in [Ip -> 0..MaxWrong]
        /\ seen' \in [Request -> 0..MaxWrong]
    BY <2>5 DEF LockoutInv, LockoutTypeOK
  <2> QED
    BY <2>1, <2>4, <2>5, <2>6 DEF LockoutInv, LockoutTypeOK
<1> QED
  BY <1>1, <1>2, <1>3 DEF LockoutInv

\* The account counter starts again.
LEMMA ResetAccountKeeps ==
  ASSUME LockoutInv, NEW r \in Request, ResetAccount(r)
  PROVE  LockoutInv'
<1> USE DEF ResetAccount, At, MoveTo, Answer, row, store, copy, history
<1>1. CopiesInv'
  BY Typed DEF LockoutInv, LockoutTypeOK, CopiesInv
<1>2. CountsInv'
  <2> SUFFICES ASSUME NEW i \in Ip
               PROVE  /\ count'[i] + Uncounted(i)' <= wrong'
                      /\ guesses'[i] <= wrong'
                      /\ guesses'[i] <= count'[i] + Uncounted(i)' + crashes'
                      /\ guesses'[i] + Guessing(i)' < MaxPerIp + Cardinality(Request) + crashes'
    BY DEF CountsInv
  <2>1. Standing(i, "wrong")' = Standing(i, "wrong") /\ Standing(i, "checked")' = Standing(i, "checked")
    BY DEF LockoutInv, LockoutTypeOK, Standing
  <2>2. Uncounted(i)' = Uncounted(i) /\ Guessing(i)' = Guessing(i)
    BY <2>1 DEF Uncounted, Guessing
  <2> QED
    BY <2>2, Typed DEF LockoutInv, LockoutTypeOK
<1>3. LockoutTypeOK'
  <2>1. wrong' \in 0..MaxWrong /\ attempts' \in Nat
    BY LimitsAssumption DEF LockoutInv, LockoutTypeOK
  <2>2. \A q \in Request : seen'[q] \in Nat
    BY DEF LockoutInv, LockoutTypeOK
  <2>3. \A i \in Ip : count'[i] \in Nat /\ guesses'[i] \in Nat
    BY DEF LockoutInv, LockoutTypeOK
  <2>4. crashes' \in 0..MaxCrashes
    BY LimitsAssumption DEF LockoutInv, LockoutTypeOK
  <2>5. /\ attempts' \in 0..MaxWrong
        /\ \A q \in Request : seen'[q] \in 0..MaxWrong
        /\ \A i \in Ip : count'[i] \in 0..MaxWrong /\ guesses'[i] \in 0..MaxWrong
    BY <1>1, <1>2, <2>1, <2>2, <2>3, CountersTyped
  <2>6. /\ count' \in [Ip -> 0..MaxWrong] /\ guesses' \in [Ip -> 0..MaxWrong]
        /\ seen' \in [Request -> 0..MaxWrong]
    BY <2>5 DEF LockoutInv, LockoutTypeOK
  <2> QED
    BY <2>1, <2>4, <2>5, <2>6 DEF LockoutInv, LockoutTypeOK
<1> QED
  BY <1>1, <1>2, <1>3 DEF LockoutInv

\* A guess whose request dies is never counted: crashes makes up for it.
LEMMA CrashKeeps ==
  ASSUME LockoutInv, NEW r \in Request, Crash(r)
  PROVE  LockoutInv'
<1> USE DEF Crash, At, MoveTo, Answer, row, store, copy, history
<1>1. CopiesInv'
  BY Typed DEF LockoutInv, LockoutTypeOK, CopiesInv
<1>2. CountsInv'
  <2> SUFFICES ASSUME NEW i \in Ip
               PROVE  /\ count'[i] + Uncounted(i)' <= wrong'
                      /\ guesses'[i] <= wrong'
                      /\ guesses'[i] <= count'[i] + Uncounted(i)' + crashes'
                      /\ guesses'[i] + Guessing(i)' < MaxPerIp + Cardinality(Request) + crashes'
    BY DEF CountsInv
  <2>0. /\ LockoutTypeOK /\ from' = from /\ step[r] # "idle"
        /\ step' = [step EXCEPT ![r] = step'[r]] /\ step'[r] = "idle"
    BY DEF LockoutInv, LockoutTypeOK
  <2>9. count' = count /\ guesses' = guesses /\ wrong' = wrong /\ crashes' = crashes + 1
    OBVIOUS
  <2> HIDE DEF Crash, At, MoveTo, Answer, row, store, copy, history
  <2>1. /\ IF i = from[r] /\ step[r] = "wrong"
           THEN Uncounted(i)' = Uncounted(i) - 1 ELSE Uncounted(i)' = Uncounted(i)
        /\ IF i = from[r] /\ step[r] = "checked"
           THEN Guessing(i)' = Guessing(i) - 1 ELSE Guessing(i)' = Guessing(i)
    <3>1. CASE i = from[r] /\ step[r] = "wrong"
      BY <2>0, <3>1, Moved
    <3>2. CASE i = from[r] /\ step[r] = "checked"
      BY <2>0, <3>2, Moved
    <3>3. CASE ~(i = from[r] /\ step[r] \in {"wrong", "checked"})
      BY <2>0, <3>3, Moved
    <3> QED
      BY <3>1, <3>2, <3>3
  <2>2. CASE i = from[r] /\ step[r] = "wrong"
    BY <2>1, <2>2, <2>9, Typed
  <2>3. CASE ~(i = from[r] /\ step[r] = "wrong")
    BY <2>1, <2>3, <2>9, Typed
  <2> QED
    BY <2>2, <2>3
<1>3. LockoutTypeOK'
  <2>1. wrong' \in 0..MaxWrong /\ attempts' \in Nat
    BY LimitsAssumption DEF LockoutInv, LockoutTypeOK
  <2>2. \A q \in Request : seen'[q] \in Nat
    BY DEF LockoutInv, LockoutTypeOK
  <2>3. \A i \in Ip : count'[i] \in Nat /\ guesses'[i] \in Nat
    BY DEF LockoutInv, LockoutTypeOK
  <2>4. crashes' \in 0..MaxCrashes
    BY LimitsAssumption DEF LockoutInv, LockoutTypeOK
  <2>5. /\ attempts' \in 0..MaxWrong
        /\ \A q \in Request : seen'[q] \in 0..MaxWrong
        /\ \A i \in Ip : count'[i] \in 0..MaxWrong /\ guesses'[i] \in 0..MaxWrong
    BY <1>1, <1>2, <2>1, <2>2, <2>3, CountersTyped
  <2>6. /\ count' \in [Ip -> 0..MaxWrong] /\ guesses' \in [Ip -> 0..MaxWrong]
        /\ seen' \in [Request -> 0..MaxWrong]
    BY <2>5 DEF LockoutInv, LockoutTypeOK
  <2> QED
    BY <2>1, <2>4, <2>5, <2>6 DEF LockoutInv, LockoutTypeOK
<1> QED
  BY <1>1, <1>2, <1>3 DEF LockoutInv

\* A window that ends gives the address its guesses back.
LEMMA WindowEndsKeeps ==
  ASSUME LockoutInv, NEW w \in Ip, WindowEnds(w)
  PROVE  LockoutInv'
<1> USE DEF WindowEnds, row, store, copy, history
<1>1. CopiesInv'
  BY Typed DEF LockoutInv, LockoutTypeOK, CopiesInv
<1>2. CountsInv'
  <2> SUFFICES ASSUME NEW i \in Ip
               PROVE  /\ count'[i] + Uncounted(i)' <= wrong'
                      /\ guesses'[i] <= wrong'
                      /\ guesses'[i] <= count'[i] + Uncounted(i)' + crashes'
                      /\ guesses'[i] + Guessing(i)' < MaxPerIp + Cardinality(Request) + crashes'
    BY DEF CountsInv
  <2>1. Uncounted(i)' = Uncounted(i) /\ Guessing(i)' = Guessing(i)
    BY DEF Uncounted, Guessing, Standing
  <2> QED
    BY <2>1, Typed DEF LockoutInv, LockoutTypeOK
<1>3. LockoutTypeOK'
  <2>1. wrong' \in 0..MaxWrong /\ attempts' \in Nat
    BY LimitsAssumption DEF LockoutInv, LockoutTypeOK
  <2>2. \A q \in Request : seen'[q] \in Nat
    BY DEF LockoutInv, LockoutTypeOK
  <2>3. \A i \in Ip : count'[i] \in Nat /\ guesses'[i] \in Nat
    BY DEF LockoutInv, LockoutTypeOK
  <2>4. crashes' \in 0..MaxCrashes
    BY LimitsAssumption DEF LockoutInv, LockoutTypeOK
  <2>5. /\ attempts' \in 0..MaxWrong
        /\ \A q \in Request : seen'[q] \in 0..MaxWrong
        /\ \A i \in Ip : count'[i] \in 0..MaxWrong /\ guesses'[i] \in 0..MaxWrong
    BY <1>1, <1>2, <2>1, <2>2, <2>3, CountersTyped
  <2>6. /\ count' \in [Ip -> 0..MaxWrong] /\ guesses' \in [Ip -> 0..MaxWrong]
        /\ seen' \in [Request -> 0..MaxWrong]
    BY <2>5 DEF LockoutInv, LockoutTypeOK
  <2> QED
    BY <2>1, <2>4, <2>5, <2>6 DEF LockoutInv, LockoutTypeOK
<1> QED
  BY <1>1, <1>2, <1>3 DEF LockoutInv

\* A new password resets the row only.
LEMMA ResetPasswordKeeps ==
  ASSUME LockoutInv, ResetPassword
  PROVE  LockoutInv'
<1> USE DEF ResetPassword, row, store, copy, history
<1>1. CopiesInv'
  BY Typed DEF LockoutInv, LockoutTypeOK, CopiesInv
<1>2. CountsInv'
  <2> SUFFICES ASSUME NEW i \in Ip
               PROVE  /\ count'[i] + Uncounted(i)' <= wrong'
                      /\ guesses'[i] <= wrong'
                      /\ guesses'[i] <= count'[i] + Uncounted(i)' + crashes'
                      /\ guesses'[i] + Guessing(i)' < MaxPerIp + Cardinality(Request) + crashes'
    BY DEF CountsInv
  <2>1. Uncounted(i)' = Uncounted(i) /\ Guessing(i)' = Guessing(i)
    BY DEF Uncounted, Guessing, Standing
  <2> QED
    BY <2>1, Typed DEF LockoutInv, LockoutTypeOK
<1>3. LockoutTypeOK'
  <2>1. wrong' \in 0..MaxWrong /\ attempts' \in Nat
    BY LimitsAssumption DEF LockoutInv, LockoutTypeOK
  <2>2. \A q \in Request : seen'[q] \in Nat
    BY DEF LockoutInv, LockoutTypeOK
  <2>3. \A i \in Ip : count'[i] \in Nat /\ guesses'[i] \in Nat
    BY DEF LockoutInv, LockoutTypeOK
  <2>4. crashes' \in 0..MaxCrashes
    BY LimitsAssumption DEF LockoutInv, LockoutTypeOK
  <2>5. /\ attempts' \in 0..MaxWrong
        /\ \A q \in Request : seen'[q] \in 0..MaxWrong
        /\ \A i \in Ip : count'[i] \in 0..MaxWrong /\ guesses'[i] \in 0..MaxWrong
    BY <1>1, <1>2, <2>1, <2>2, <2>3, CountersTyped
  <2>6. /\ count' \in [Ip -> 0..MaxWrong] /\ guesses' \in [Ip -> 0..MaxWrong]
        /\ seen' \in [Request -> 0..MaxWrong]
    BY <2>5 DEF LockoutInv, LockoutTypeOK
  <2> QED
    BY <2>1, <2>4, <2>5, <2>6 DEF LockoutInv, LockoutTypeOK
<1> QED
  BY <1>1, <1>2, <1>3 DEF LockoutInv

\* A lock that ends leaves the counters.
LEMMA LockEndsKeeps ==
  ASSUME LockoutInv, LockEnds
  PROVE  LockoutInv'
<1> USE DEF LockEnds, row, store, copy, history
<1>1. CopiesInv'
  BY Typed DEF LockoutInv, LockoutTypeOK, CopiesInv
<1>2. CountsInv'
  <2> SUFFICES ASSUME NEW i \in Ip
               PROVE  /\ count'[i] + Uncounted(i)' <= wrong'
                      /\ guesses'[i] <= wrong'
                      /\ guesses'[i] <= count'[i] + Uncounted(i)' + crashes'
                      /\ guesses'[i] + Guessing(i)' < MaxPerIp + Cardinality(Request) + crashes'
    BY DEF CountsInv
  <2>1. Uncounted(i)' = Uncounted(i) /\ Guessing(i)' = Guessing(i)
    BY DEF Uncounted, Guessing, Standing
  <2> QED
    BY <2>1, Typed DEF LockoutInv, LockoutTypeOK
<1>3. LockoutTypeOK'
  <2>1. wrong' \in 0..MaxWrong /\ attempts' \in Nat
    BY LimitsAssumption DEF LockoutInv, LockoutTypeOK
  <2>2. \A q \in Request : seen'[q] \in Nat
    BY DEF LockoutInv, LockoutTypeOK
  <2>3. \A i \in Ip : count'[i] \in Nat /\ guesses'[i] \in Nat
    BY DEF LockoutInv, LockoutTypeOK
  <2>4. crashes' \in 0..MaxCrashes
    BY LimitsAssumption DEF LockoutInv, LockoutTypeOK
  <2>5. /\ attempts' \in 0..MaxWrong
        /\ \A q \in Request : seen'[q] \in 0..MaxWrong
        /\ \A i \in Ip : count'[i] \in 0..MaxWrong /\ guesses'[i] \in 0..MaxWrong
    BY <1>1, <1>2, <2>1, <2>2, <2>3, CountersTyped
  <2>6. /\ count' \in [Ip -> 0..MaxWrong] /\ guesses' \in [Ip -> 0..MaxWrong]
        /\ seen' \in [Request -> 0..MaxWrong]
    BY <2>5 DEF LockoutInv, LockoutTypeOK
  <2> QED
    BY <2>1, <2>4, <2>5, <2>6 DEF LockoutInv, LockoutTypeOK
<1> QED
  BY <1>1, <1>2, <1>3 DEF LockoutInv

\* Every step of the specification keeps the invariant.
LEMMA NextKeeps == LockoutInv /\ [LockoutNext]_lockoutVars => LockoutInv'
<1> SUFFICES ASSUME LockoutInv, [LockoutNext]_lockoutVars PROVE LockoutInv'
  OBVIOUS
<1>1. CASE UNCHANGED lockoutVars
  BY <1>1 DEF LockoutInv, LockoutTypeOK, CopiesInv, CountsInv, Uncounted, Guessing, Standing,
              lockoutVars, row, store, copy, history
<1>2. ASSUME NEW r \in Request,
             \/ Read(r) \/ CheckAddress(r) \/ TryWrong(r) \/ TryRight(r) \/ Counting(r)
             \/ Clear(r) \/ ResetAccount(r) \/ Crash(r)
      PROVE  LockoutInv'
  BY <1>2, ReadKeeps, CheckAddressKeeps, TryWrongKeeps, TryRightKeeps, IncrementKeeps,
     ExpireKeeps, CountOnAccountKeeps, ClearKeeps, ResetAccountKeeps, CrashKeeps DEF Counting
<1>3. CASE (\E i \in Ip : WindowEnds(i)) \/ LockEnds \/ ResetPassword
  BY <1>3, WindowEndsKeeps, LockEndsKeeps, ResetPasswordKeeps
<1> QED
  BY <1>1, <1>2, <1>3 DEF LockoutNext

\* The counters, the copies and the guesses stay in step in every reachable state.
THEOREM LockoutInvHolds == LockoutSpec => []LockoutInv
BY LockoutStartsRight, NextKeeps, PTL DEF LockoutSpec

\* Counters and copies keep their types, and none outgrows the failures there were.
THEOREM TypesHold == LockoutSpec => []LockoutTypeOK
<1>1. LockoutInv => LockoutTypeOK
  BY DEF LockoutInv
<1> QED
  BY LockoutInvHolds, <1>1, PTL

\* assertNotLocked (auth.service.ts:309) checks, and registerFailedAttempt counts
\* later; still an address tests at most the limit, and one password more for
\* every other request at work or dead, before its window ends.
THEOREM GuessesStayBounded == LockoutSpec => []GuessesAreBounded
<1>1. LockoutInv => GuessesAreBounded
  BY Typed DEF GuessesAreBounded
<1> QED
  BY LockoutInvHolds, <1>1, PTL

\* A stale copy written back (auth.service.ts:345) may count too few failures,
\* never too many.
THEOREM LocksAreEarned == LockoutSpec => []LockTakesManyFailures
<1>1. LockoutInv => LockTakesManyFailures
  BY DEF LockoutInv, CopiesInv, LockTakesManyFailures
<1> QED
  BY LockoutInvHolds, <1>1, PTL

=============================================================================

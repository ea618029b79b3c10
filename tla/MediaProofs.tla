----------------------------- MODULE MediaProofs -----------------------------
(***************************************************************************)
(* The invariants of Media, for any number of photos, avatar changes,      *)
(* moderators and crashes; they hold together: MediaInv is inductive, and  *)
(* each of its parts says who may still name or delete an object. And      *)
(* those of Moderation, for any number of reports and calls: ReviewInv     *)
(* says which rows a transaction holds and what a call about to hide has   *)
(* counted.                                                                *)
(***************************************************************************)
EXTENDS Media, Moderation, FiniteSetTheorems, TLAPS

Over == {"cleaning", "done"}

\* A photo has a key from its last update on, so that its upload is then past
\* every step that fails or undoes; its file has passed the scan by then.
PhotosInv ==
    \A u \in Upload :
        /\ photo[u].key # None => /\ u \in scanned
                                  /\ up[u] \in Over
                                  /\ Exists(u)
        /\ up[u] \in {"scanned", "stored", "undoing"} => u \in scanned
        /\ removal[u] # "none" => up[u] \in Over
        /\ removal[u] = "removed" => u \notin objects
        /\ u \in purge.keys => up[u] \in Over

\* Where the object of a photo is, while nothing has failed.
ObjectsInv ==
    ~faulted =>
        \A u \in Upload :
            /\ account /\ u \in objects => photo[u].key = u \/ up[u] \in {"stored", "undoing"}
            /\ up[u] = "stored" => u \in objects
            /\ purge.step = "idle" /\ photo[u].key # None =>
                   u \in objects \/ removal[u] = "removed"

\* An avatar request is followed: nobody deletes an object before it has been
\* the avatar, nor while it is, and once replaced it never is again.
AvatarsInv ==
    /\ \A c \in Change :
        /\ avatar = c => change[c].step \in {"swapped", "done"}
        /\ \A d \in Change : change[d].old = c => change[c].step \in {"swapped", "done"}
        /\ change[c].step = "swapped" => change[c].old # None /\ avatar # change[c].old
        /\ change[c].old # c
    /\ purge.kept => faulted
    /\ ~faulted /\ purge.step = "idle" =>
        /\ \A c \in Change : change[c].step = "stored" => c \in objects
        /\ avatar # None => avatar \in objects

TidyInv ==
    \A u \in Upload :
        /\ up[u] = "done" /\ ~faulted => u \notin temp
        /\ up[u] \in Over /\ ~faulted => photo[u].status # "SCANNING"
        /\ up[u] = "new" => u \notin temp

MediaInv == TypeOK /\ PhotosInv /\ ObjectsInv /\ AvatarsInv /\ TidyInv

\* Every step keeps the types.
LEMMA TypesKept == MediaInv /\ Next => TypeOK'
<1> SUFFICES ASSUME MediaInv, Next PROVE TypeOK'
  OBVIOUS
<1> USE DistinctAssumption DEF MediaInv, TypeOK, Exists, Row, Step, rows, requests, history
<1>1. ASSUME NEW u \in Upload, UploadStep(u) PROVE TypeOK'
  <2> USE DEF Elsewhere, Goto, SetStatus
  <2>1. CASE Receive(u)
    BY <2>1 DEF Receive
  <2>2. CASE Refuse(u)
    BY <2>2 DEF Refuse
  <2>3. CASE CreateRow(u)
    BY <2>3 DEF CreateRow
  <2>4. CASE StartScan(u)
    BY <2>4 DEF StartScan
  <2>5. CASE PassScan(u)
    BY <2>5 DEF PassScan
  <2>6. CASE Store(u)
    BY <2>6 DEF Store
  <2>7. CASE StoreUnanswered(u)
    BY <2>7 DEF StoreUnanswered
  <2>8. CASE Finalise(u)
    BY <2>8 DEF Finalise
  <2>9. CASE Fail(u)
    BY <2>9 DEF Fail
  <2>10. CASE Undo(u)
    BY <2>10 DEF Undo
  <2>11. CASE MarkRejected(u)
    <3>1. photo' \in [Upload -> Row] /\ \A v \in Upload : photo'[v].key = photo[v].key
      <4>1. CASE SetStatus(u, "REJECTED")
        BY <4>1
      <4>2. CASE photo' = photo
        BY <4>2
      <4> QED
        BY <2>11, <4>1, <4>2 DEF MarkRejected
    <3>2. faulted' \in BOOLEAN /\ up' \in [Upload -> Step]
      BY <2>11 DEF MarkRejected
    <3> QED
      BY <2>11, <3>1, <3>2 DEF MarkRejected
  <2>12. CASE CleanUp(u)
    BY <2>12 DEF CleanUp
  <2> QED
    BY <1>1, <2>1, <2>2, <2>3, <2>4, <2>5, <2>6, <2>7, <2>8, <2>9, <2>10, <2>11, <2>12 DEF UploadStep
<1>2. ASSUME NEW a \in Moderator, NEW u \in Upload, NEW to \in {"READY", "REJECTED"}, Review(a, u, to) PROVE TypeOK'
  BY <1>2 DEF Review
<1>3. ASSUME NEW a \in Moderator, Decide(a) PROVE TypeOK'
  <2>1. photo' \in [Upload -> Row] /\ \A v \in Upload : photo'[v].key = photo[v].key
    <3>1. CASE photo' = photo
      BY <3>1
    <3>2. CASE SetStatus(review[a].of, review[a].to) /\ review[a].of \in Upload
      <4> DEFINE v == review[a].of  s == review[a].to
      <4>1. v \in Upload /\ s \in {"READY", "REJECTED"} /\ photo' = [photo EXCEPT ![v].status = s]
        BY <3>2 DEF SetStatus
      <4> HIDE DEF v, s
      <4> QED
        BY <4>1
    <3>3. CASE SetStatus(review[a].of, review[a].to) /\ review[a].of = None
      BY <3>3, ZenonT(60) DEF SetStatus
    <3>4. review[a].of \in Upload \cup {None}
      OBVIOUS
    <3> QED
      BY <1>3, <3>1, <3>2, <3>3, <3>4 DEF Decide
  <2>2. review' \in [Moderator -> [of : Upload \cup {None}, to : {"READY", "REJECTED"}]]
    BY <1>3 DEF Decide, NoReview
  <2> QED
    BY <1>3, <2>1, <2>2 DEF Decide
<1>4. ASSUME NEW u \in Upload, ReadToDelete(u) PROVE TypeOK'
  BY <1>4 DEF ReadToDelete
<1>5. ASSUME NEW u \in Upload, DeleteObject(u) PROVE TypeOK'
  BY <1>5 DEF DeleteObject
<1>6. ASSUME NEW u \in Upload, DeleteRow(u) PROVE TypeOK'
  BY <1>6 DEF DeleteRow
<1>7. ASSUME NEW c \in Change, NEW to \in {"object", "null"}, BeginChange(c, to) PROVE TypeOK'
  <2>1. change' = [change EXCEPT ![c] = [step |-> "read", to |-> to, old |-> avatar]]
    BY <1>7 DEF BeginChange
  <2>2. change' \in [Change -> [step : {"new", "read", "stored", "swapped", "done"},
                               to : {"object", "null"},
                               old : Change \cup {None}]]
    BY <2>1
  <2> QED
    BY <1>7, <2>2 DEF BeginChange
<1>8. ASSUME NEW c \in Change, StoreAvatar(c) PROVE TypeOK'
  <2> DEFINE R == [step : {"new", "read", "stored", "swapped", "done"},
                   to : {"object", "null"}, old : Change \cup {None}]
  <2>1. change' = [change EXCEPT ![c] = [change[c] EXCEPT !.step = "stored"]]
    BY <1>8 DEF StoreAvatar
  <2>2. change \in [Change -> R] /\ [change[c] EXCEPT !.step = "stored"] \in R
    OBVIOUS
  <2>3. change' \in [Change -> R]
    <3> HIDE DEF R
    <3> QED
      BY <2>1, <2>2
  <2> QED
    BY <1>8, <2>3 DEF StoreAvatar
<1>9. ASSUME NEW c \in Change, SwapAvatar(c) PROVE TypeOK'
  BY <1>9 DEF SwapAvatar
<1>10. ASSUME NEW c \in Change, DeleteOldAvatar(c) PROVE TypeOK'
  <2>1. objects' \subseteq objects /\ faulted' \in BOOLEAN
    BY <1>10 DEF DeleteOldAvatar
  <2>2. change' = [change EXCEPT ![c].step = "done"]
    BY <1>10 DEF DeleteOldAvatar
  <2>3. change' \in [Change -> [step : {"new", "read", "stored", "swapped", "done"},
                               to : {"object", "null"},
                               old : Change \cup {None}]]
    BY <2>2
  <2> QED
    BY <1>10, <2>1, <2>3 DEF DeleteOldAvatar
<1>11. ASSUME NEW c \in Change, FailChange(c) PROVE TypeOK'
  BY <1>11 DEF FailChange
<1>12. CASE StartPurge
  BY <1>12 DEF StartPurge, Keys
<1>13. CASE EndPurge
  <2>1. CASE purge.kept
    <3>1. purge' = [step |-> "idle", keys |-> {}, kept |-> FALSE]
      BY <1>13, <2>1 DEF EndPurge, NoPurge
    <3>2. purge' \in [step : {"idle", "deleting", "done"},
                     keys : SUBSET (Upload \cup Change),
                     kept : BOOLEAN]
      BY <3>1
    <3> QED
      BY <1>13, <2>1, <3>2 DEF EndPurge
  <2>2. CASE ~purge.kept
    <3>1. photo' \in [Upload -> Row] /\ \A v \in Upload : photo'[v].key \in {v, None}
      BY <1>13, <2>2 DEF EndPurge
    <3>2. purge' = [step |-> "done", keys |-> purge.keys, kept |-> purge.kept]
      BY <1>13, <2>2 DEF EndPurge
    <3> QED
      BY <1>13, <2>2, <3>1, <3>2 DEF EndPurge
  <2> QED
    BY <2>1, <2>2
<1>14. ASSUME NEW k \in Upload \cup Change, PurgeObject(k) PROVE TypeOK'
  <2>1. purge' = [step |-> purge.step, keys |-> purge.keys \ {k}, kept |-> purge'.kept]
    BY <1>14 DEF PurgeObject
  <2>2. purge'.kept \in BOOLEAN /\ objects' \subseteq objects /\ faulted' \in BOOLEAN
    BY <1>14 DEF PurgeObject
  <2>3. purge' \in [step : {"idle", "deleting", "done"},
                   keys : SUBSET (Upload \cup Change),
                   kept : BOOLEAN]
    BY <2>1, <2>2
  <2> QED
    BY <1>14, <2>2, <2>3 DEF PurgeObject
<1>15. CASE Crash
  <2>1. crashes' \in 0..MaxCrashes
    BY <1>15, CrashesAssumption DEF Crash
  <2>2. up' \in [Upload -> Step] /\ removal' \in [Upload -> {"none", "read", "removed"}]
    BY <1>15 DEF Crash
  <2>3. change' \in [Change -> [step : {"new", "read", "stored", "swapped", "done"},
                               to : {"object", "null"},
                               old : Change \cup {None}]]
    BY <1>15 DEF Crash
  <2>4. review' \in [Moderator -> [of : Upload \cup {None}, to : {"READY", "REJECTED"}]]
    BY <1>15 DEF Crash, NoReview
  <2>5. purge' \in [step : {"idle", "deleting", "done"},
                   keys : SUBSET (Upload \cup Change),
                   kept : BOOLEAN]
    BY <1>15 DEF Crash, NoPurge
  <2> QED
    BY <1>15, <2>1, <2>2, <2>3, <2>4, <2>5 DEF Crash
<1> QED
  BY <1>1, <1>2, <1>3, <1>4, <1>5, <1>6, <1>7, <1>8, <1>9, <1>10, <1>11, <1>12, <1>13, <1>14, <1>15 DEF Next

\* Every step keeps the keys with the scanned, finished uploads.
LEMMA PhotosKept == MediaInv /\ Next => PhotosInv'
<1> SUFFICES ASSUME MediaInv, Next PROVE PhotosInv'
  OBVIOUS
<1> USE DistinctAssumption DEF MediaInv, TypeOK, PhotosInv, Exists, Row, Step, rows, requests, history, Over
<1>1. ASSUME NEW u \in Upload, UploadStep(u) PROVE PhotosInv'
  <2> USE DEF Elsewhere, Goto, SetStatus
  <2>1. CASE Receive(u)
    BY <2>1 DEF Receive
  <2>2. CASE Refuse(u)
    BY <2>2 DEF Refuse
  <2>3. CASE CreateRow(u)
    BY <2>3 DEF CreateRow
  <2>4. CASE StartScan(u)
    BY <2>4 DEF StartScan
  <2>5. CASE PassScan(u)
    BY <2>5 DEF PassScan
  <2>6. CASE Store(u)
    BY <2>6 DEF Store
  <2>7. CASE StoreUnanswered(u)
    BY <2>7 DEF StoreUnanswered
  <2>8. CASE Finalise(u)
    BY <2>8 DEF Finalise
  <2>9. CASE Fail(u)
    BY <2>9 DEF Fail
  <2>10. CASE Undo(u)
    BY <2>10 DEF Undo
  <2>11. CASE MarkRejected(u)
    BY <2>11 DEF MarkRejected
  <2>12. CASE CleanUp(u)
    BY <2>12 DEF CleanUp
  <2> QED
    BY <1>1, <2>1, <2>2, <2>3, <2>4, <2>5, <2>6, <2>7, <2>8, <2>9, <2>10, <2>11, <2>12 DEF UploadStep
<1>2. ASSUME NEW a \in Moderator, NEW u \in Upload, NEW to \in {"READY", "REJECTED"}, Review(a, u, to) PROVE PhotosInv'
  BY <1>2 DEF Review
<1>3. ASSUME NEW a \in Moderator, Decide(a) PROVE PhotosInv'
  BY <1>3 DEF Decide, SetStatus
<1>4. ASSUME NEW u \in Upload, ReadToDelete(u) PROVE PhotosInv'
  BY <1>4 DEF ReadToDelete
<1>5. ASSUME NEW u \in Upload, DeleteObject(u) PROVE PhotosInv'
  BY <1>5 DEF DeleteObject
<1>6. ASSUME NEW u \in Upload, DeleteRow(u) PROVE PhotosInv'
  BY <1>6 DEF DeleteRow
<1>7. ASSUME NEW c \in Change, NEW to \in {"object", "null"}, BeginChange(c, to) PROVE PhotosInv'
  BY <1>7 DEF BeginChange
<1>8. ASSUME NEW c \in Change, StoreAvatar(c) PROVE PhotosInv'
  BY <1>8 DEF StoreAvatar
<1>9. ASSUME NEW c \in Change, SwapAvatar(c) PROVE PhotosInv'
  BY <1>9 DEF SwapAvatar
<1>10. ASSUME NEW c \in Change, DeleteOldAvatar(c) PROVE PhotosInv'
  BY <1>10 DEF DeleteOldAvatar
<1>11. ASSUME NEW c \in Change, FailChange(c) PROVE PhotosInv'
  BY <1>11 DEF FailChange
<1>12. CASE StartPurge
  BY <1>12 DEF StartPurge, Keys
<1>13. CASE EndPurge
  BY <1>13 DEF EndPurge, NoPurge
<1>14. ASSUME NEW k \in Upload \cup Change, PurgeObject(k) PROVE PhotosInv'
  <2>1. purge' = [step |-> purge.step, keys |-> purge.keys \ {k}, kept |-> purge'.kept]
    BY <1>14 DEF PurgeObject
  <2>2. purge'.keys \subseteq purge.keys
    BY <2>1
  <2>3. \A v \in Upload : v \in objects' => v \in objects
    BY <1>14 DEF PurgeObject
  <2>4. photo' = photo /\ up' = up /\ removal' = removal /\ scanned' = scanned
    BY <1>14 DEF PurgeObject
  <2> QED
    BY <2>2, <2>3, <2>4
<1>15. CASE Crash
  BY <1>15 DEF Crash, NoPurge, NoReview
<1> QED
  BY <1>1, <1>2, <1>3, <1>4, <1>5, <1>6, <1>7, <1>8, <1>9, <1>10, <1>11, <1>12, <1>13, <1>14, <1>15 DEF Next

\* Every step keeps photo objects with their rows.
LEMMA ObjectsKept == MediaInv /\ Next => ObjectsInv'
<1> SUFFICES ASSUME MediaInv, Next PROVE ObjectsInv'
  OBVIOUS
<1> USE DistinctAssumption DEF MediaInv, TypeOK, ObjectsInv, Exists, Row, Step, rows, requests, history, PhotosInv, Over
<1>1. ASSUME NEW u \in Upload, UploadStep(u) PROVE ObjectsInv'
  <2> USE DEF Elsewhere, Goto, SetStatus
  <2>1. CASE Receive(u)
    BY <2>1 DEF Receive
  <2>2. CASE Refuse(u)
    BY <2>2 DEF Refuse
  <2>3. CASE CreateRow(u)
    BY <2>3 DEF CreateRow
  <2>4. CASE StartScan(u)
    BY <2>4 DEF StartScan
  <2>5. CASE PassScan(u)
    BY <2>5 DEF PassScan
  <2>6. CASE Store(u)
    BY <2>6 DEF Store
  <2>7. CASE StoreUnanswered(u)
    BY <2>7 DEF StoreUnanswered
  <2>8. CASE Finalise(u)
    BY <2>8 DEF Finalise
  <2>9. CASE Fail(u)
    BY <2>9 DEF Fail
  <2>10. CASE Undo(u)
    BY <2>10 DEF Undo
  <2>11. CASE MarkRejected(u)
    BY <2>11 DEF MarkRejected
  <2>12. CASE CleanUp(u)
    BY <2>12 DEF CleanUp
  <2> QED
    BY <1>1, <2>1, <2>2, <2>3, <2>4, <2>5, <2>6, <2>7, <2>8, <2>9, <2>10, <2>11, <2>12 DEF UploadStep
<1>2. ASSUME NEW a \in Moderator, NEW u \in Upload, NEW to \in {"READY", "REJECTED"}, Review(a, u, to) PROVE ObjectsInv'
  BY <1>2 DEF Review
<1>3. ASSUME NEW a \in Moderator, Decide(a) PROVE ObjectsInv'
  BY <1>3 DEF Decide, SetStatus
<1>4. ASSUME NEW u \in Upload, ReadToDelete(u) PROVE ObjectsInv'
  BY <1>4 DEF ReadToDelete
<1>5. ASSUME NEW u \in Upload, DeleteObject(u) PROVE ObjectsInv'
  BY <1>5 DEF DeleteObject
<1>6. ASSUME NEW u \in Upload, DeleteRow(u) PROVE ObjectsInv'
  BY <1>6 DEF DeleteRow
<1>7. ASSUME NEW c \in Change, NEW to \in {"object", "null"}, BeginChange(c, to) PROVE ObjectsInv'
  BY <1>7 DEF BeginChange
<1>8. ASSUME NEW c \in Change, StoreAvatar(c) PROVE ObjectsInv'
  BY <1>8 DEF StoreAvatar
<1>9. ASSUME NEW c \in Change, SwapAvatar(c) PROVE ObjectsInv'
  BY <1>9 DEF SwapAvatar
<1>10. ASSUME NEW c \in Change, DeleteOldAvatar(c) PROVE ObjectsInv'
  BY <1>10 DEF DeleteOldAvatar
<1>11. ASSUME NEW c \in Change, FailChange(c) PROVE ObjectsInv'
  BY <1>11 DEF FailChange
<1>12. CASE StartPurge
  BY <1>12 DEF StartPurge, Keys
<1>13. CASE EndPurge
  <2>1. CASE purge.kept
    <3>1. faulted
      BY <2>1 DEF AvatarsInv
    <3> QED
      BY <1>13, <3>1 DEF EndPurge
  <2>2. CASE ~purge.kept
    <3>1. ~account' /\ purge'.step = "done"
      BY <1>13, <2>2 DEF EndPurge
    <3> QED
      BY <1>13, <3>1 DEF EndPurge
  <2> QED
    BY <2>1, <2>2
<1>14. ASSUME NEW k \in Upload \cup Change, PurgeObject(k) PROVE ObjectsInv'
  <2>1. k \in Upload => up[k] \in Over
    BY <1>14 DEF PurgeObject
  <2>2. purge'.step = "deleting"
    BY <1>14 DEF PurgeObject
  <2>3. \A v \in Upload : v \in objects' => v \in objects
    BY <1>14 DEF PurgeObject
  <2>4. \A v \in Upload : v \in objects /\ v \notin objects' => v = k
    BY <1>14 DEF PurgeObject
  <2>5. (~faulted' => ~faulted) /\ photo' = photo /\ up' = up /\ account' = account
    BY <1>14 DEF PurgeObject
  <2> QED
    BY <2>1, <2>2, <2>3, <2>4, <2>5
<1>15. CASE Crash
  BY <1>15 DEF Crash, NoPurge, NoReview
<1> QED
  BY <1>1, <1>2, <1>3, <1>4, <1>5, <1>6, <1>7, <1>8, <1>9, <1>10, <1>11, <1>12, <1>13, <1>14, <1>15 DEF Next

\* Every step keeps the avatar's object.
LEMMA AvatarsKept == MediaInv /\ Next => AvatarsInv'
<1> SUFFICES ASSUME MediaInv, Next PROVE AvatarsInv'
  OBVIOUS
<1> USE DistinctAssumption DEF MediaInv, TypeOK, AvatarsInv, Exists, Row, Step, rows, requests, history
<1>1. ASSUME NEW u \in Upload, UploadStep(u) PROVE AvatarsInv'
  <2> USE DEF Elsewhere, Goto, SetStatus
  <2>1. CASE Receive(u)
    BY <2>1 DEF Receive
  <2>2. CASE Refuse(u)
    BY <2>2 DEF Refuse
  <2>3. CASE CreateRow(u)
    BY <2>3 DEF CreateRow
  <2>4. CASE StartScan(u)
    BY <2>4 DEF StartScan
  <2>5. CASE PassScan(u)
    BY <2>5 DEF PassScan
  <2>6. CASE Store(u)
    BY <2>6 DEF Store
  <2>7. CASE StoreUnanswered(u)
    BY <2>7 DEF StoreUnanswered
  <2>8. CASE Finalise(u)
    BY <2>8 DEF Finalise
  <2>9. CASE Fail(u)
    BY <2>9 DEF Fail
  <2>10. CASE Undo(u)
    BY <2>10 DEF Undo
  <2>11. CASE MarkRejected(u)
    BY <2>11 DEF MarkRejected
  <2>12. CASE CleanUp(u)
    BY <2>12 DEF CleanUp
  <2> QED
    BY <1>1, <2>1, <2>2, <2>3, <2>4, <2>5, <2>6, <2>7, <2>8, <2>9, <2>10, <2>11, <2>12 DEF UploadStep
<1>2. ASSUME NEW a \in Moderator, NEW u \in Upload, NEW to \in {"READY", "REJECTED"}, Review(a, u, to) PROVE AvatarsInv'
  BY <1>2 DEF Review
<1>3. ASSUME NEW a \in Moderator, Decide(a) PROVE AvatarsInv'
  BY <1>3 DEF Decide, SetStatus
<1>4. ASSUME NEW u \in Upload, ReadToDelete(u) PROVE AvatarsInv'
  BY <1>4 DEF ReadToDelete
<1>5. ASSUME NEW u \in Upload, DeleteObject(u) PROVE AvatarsInv'
  BY <1>5 DEF DeleteObject
<1>6. ASSUME NEW u \in Upload, DeleteRow(u) PROVE AvatarsInv'
  BY <1>6 DEF DeleteRow
<1>7. ASSUME NEW c \in Change, NEW to \in {"object", "null"}, BeginChange(c, to) PROVE AvatarsInv'
  BY <1>7 DEF BeginChange
<1>8. ASSUME NEW c \in Change, StoreAvatar(c) PROVE AvatarsInv'
  BY <1>8 DEF StoreAvatar
<1>9. ASSUME NEW c \in Change, SwapAvatar(c) PROVE AvatarsInv'
  BY <1>9 DEF SwapAvatar
<1>10. ASSUME NEW c \in Change, DeleteOldAvatar(c) PROVE AvatarsInv'
  BY <1>10 DEF DeleteOldAvatar
<1>11. ASSUME NEW c \in Change, FailChange(c) PROVE AvatarsInv'
  BY <1>11 DEF FailChange
<1>12. CASE StartPurge
  BY <1>12 DEF StartPurge, Keys
<1>13. CASE EndPurge
  BY <1>13 DEF EndPurge, NoPurge
<1>14. ASSUME NEW k \in Upload \cup Change, PurgeObject(k) PROVE AvatarsInv'
  BY <1>14 DEF PurgeObject
<1>15. CASE Crash
  BY <1>15 DEF Crash, NoPurge, NoReview
<1> QED
  BY <1>1, <1>2, <1>3, <1>4, <1>5, <1>6, <1>7, <1>8, <1>9, <1>10, <1>11, <1>12, <1>13, <1>14, <1>15 DEF Next

\* Every step of an upload tidies up before the upload is done.
LEMMA TidyKept == MediaInv /\ Next => TidyInv'
<1> SUFFICES ASSUME MediaInv, Next PROVE TidyInv'
  OBVIOUS
<1> USE DistinctAssumption DEF MediaInv, TypeOK, TidyInv, Exists, Row, Step, rows, requests, history, Over
<1>1. ASSUME NEW u \in Upload, UploadStep(u) PROVE TidyInv'
  <2> USE DEF Elsewhere, Goto, SetStatus
  <2>1. CASE Receive(u)
    BY <2>1 DEF Receive
  <2>2. CASE Refuse(u)
    BY <2>2 DEF Refuse
  <2>3. CASE CreateRow(u)
    BY <2>3 DEF CreateRow
  <2>4. CASE StartScan(u)
    BY <2>4 DEF StartScan
  <2>5. CASE PassScan(u)
    BY <2>5 DEF PassScan
  <2>6. CASE Store(u)
    BY <2>6 DEF Store
  <2>7. CASE StoreUnanswered(u)
    BY <2>7 DEF StoreUnanswered
  <2>8. CASE Finalise(u)
    BY <2>8 DEF Finalise
  <2>9. CASE Fail(u)
    BY <2>9 DEF Fail
  <2>10. CASE Undo(u)
    BY <2>10 DEF Undo
  <2>11. CASE MarkRejected(u)
    BY <2>11 DEF MarkRejected
  <2>12. CASE CleanUp(u)
    BY <2>12 DEF CleanUp
  <2> QED
    BY <1>1, <2>1, <2>2, <2>3, <2>4, <2>5, <2>6, <2>7, <2>8, <2>9, <2>10, <2>11, <2>12 DEF UploadStep
<1>2. ASSUME NEW a \in Moderator, NEW u \in Upload, NEW to \in {"READY", "REJECTED"}, Review(a, u, to) PROVE TidyInv'
  BY <1>2 DEF Review
<1>3. ASSUME NEW a \in Moderator, Decide(a) PROVE TidyInv'
  BY <1>3 DEF Decide, SetStatus
<1>4. ASSUME NEW u \in Upload, ReadToDelete(u) PROVE TidyInv'
  BY <1>4 DEF ReadToDelete
<1>5. ASSUME NEW u \in Upload, DeleteObject(u) PROVE TidyInv'
  BY <1>5 DEF DeleteObject
<1>6. ASSUME NEW u \in Upload, DeleteRow(u) PROVE TidyInv'
  BY <1>6 DEF DeleteRow
<1>7. ASSUME NEW c \in Change, NEW to \in {"object", "null"}, BeginChange(c, to) PROVE TidyInv'
  BY <1>7 DEF BeginChange
<1>8. ASSUME NEW c \in Change, StoreAvatar(c) PROVE TidyInv'
  BY <1>8 DEF StoreAvatar
<1>9. ASSUME NEW c \in Change, SwapAvatar(c) PROVE TidyInv'
  BY <1>9 DEF SwapAvatar
<1>10. ASSUME NEW c \in Change, DeleteOldAvatar(c) PROVE TidyInv'
  BY <1>10 DEF DeleteOldAvatar
<1>11. ASSUME NEW c \in Change, FailChange(c) PROVE TidyInv'
  BY <1>11 DEF FailChange
<1>12. CASE StartPurge
  BY <1>12 DEF StartPurge, Keys
<1>13. CASE EndPurge
  BY <1>13 DEF EndPurge, NoPurge
<1>14. ASSUME NEW k \in Upload \cup Change, PurgeObject(k) PROVE TidyInv'
  BY <1>14 DEF PurgeObject
<1>15. CASE Crash
  BY <1>15 DEF Crash, NoPurge, NoReview
<1> QED
  BY <1>1, <1>2, <1>3, <1>4, <1>5, <1>6, <1>7, <1>8, <1>9, <1>10, <1>11, <1>12, <1>13, <1>14, <1>15 DEF Next

\* The invariant holds at first.
LEMMA InitHolds == Init => MediaInv
<1> SUFFICES ASSUME Init PROVE MediaInv
  OBVIOUS
<1> USE DistinctAssumption DEF Init, NoRow, NoChange, NoReview, NoPurge
<1>1. TypeOK
  <2>1. crashes \in 0..MaxCrashes
    BY CrashesAssumption
  <2>2. photo \in [Upload -> Row] /\ up \in [Upload -> Step]
    BY DEF Row, Step
  <2>3. change \in [Change -> [step : {"new", "read", "stored", "swapped", "done"},
                              to : {"object", "null"},
                              old : Change \cup {None}]]
    OBVIOUS
  <2>4. review \in [Moderator -> [of : Upload \cup {None}, to : {"READY", "REJECTED"}]]
    OBVIOUS
  <2>5. purge \in [step : {"idle", "deleting", "done"},
                  keys : SUBSET (Upload \cup Change),
                  kept : BOOLEAN]
    OBVIOUS
  <2> QED
    BY <2>1, <2>2, <2>3, <2>4, <2>5 DEF TypeOK
<1>2. PhotosInv /\ ObjectsInv
  BY DEF PhotosInv, ObjectsInv
<1>3. AvatarsInv /\ TidyInv
  BY DEF AvatarsInv, TidyInv, Over
<1> QED
  BY <1>1, <1>2, <1>3 DEF MediaInv

\* Nothing changes when no variable does.
LEMMA StutterKeeps == MediaInv /\ UNCHANGED vars => MediaInv'
BY DEF MediaInv, TypeOK, PhotosInv, ObjectsInv, AvatarsInv, TidyInv, Exists, Over,
       vars, rows, requests, history

\* The strengthened invariant holds in every reachable state.
THEOREM MediaInvHolds == Spec => []MediaInv
<1>1. MediaInv /\ [Next]_vars => MediaInv'
  BY TypesKept, PhotosKept, ObjectsKept, AvatarsKept, TidyKept, StutterKeeps DEF MediaInv
<1> QED
  BY InitHolds, <1>1, PTL DEF Spec

\* Rows, objects and requests keep their types.
THEOREM TypesHold == Spec => []TypeOK
<1>1. MediaInv => TypeOK
  BY DEF MediaInv
<1> QED
  BY MediaInvHolds, <1>1, PTL

\* What findById serves was scanned (photo.service.ts:141), however the decision
\* of a moderator and the upload interleave: the key is written after the scan.
THEOREM OnlyScannedFilesAreShown == Spec => []PublicMeansScanned
<1>1. MediaInv => PublicMeansScanned
  BY DEF MediaInv, PhotosInv, PublicMeansScanned
<1> QED
  BY MediaInvHolds, <1>1, PTL

\* While the account lives and S3 answers, the catch of upload leaves no photo
\* object without a row (photo.service.ts:116).
THEOREM NoPhotoIsOrphaned == Spec => []NoOrphanPhoto
<1>1. MediaInv => NoOrphanPhoto
  BY DEF MediaInv, ObjectsInv, NoOrphanPhoto
<1> QED
  BY MediaInvHolds, <1>1, PTL

\* No key dangles, of a photo or of the avatar: an avatar is deleted only after
\* the row has left it, and never becomes the avatar again (auth.service.ts:964).
THEOREM NoKeyDangles == Spec => []NoDanglingKey
<1>1. MediaInv => NoDanglingKey
  BY DEF MediaInv, ObjectsInv, AvatarsInv, NoDanglingKey
<1> QED
  BY MediaInvHolds, <1>1, PTL

\* The finally and the catch of upload have run when it answers.
THEOREM UploadsEndTidily == Spec => []FinishedUploadsAreTidy
<1>1. MediaInv => FinishedUploadsAreTidy
  BY DEF MediaInv, TypeOK, TidyInv, Over, FinishedUploadsAreTidy
<1> QED
  BY MediaInvHolds, <1>1, PTL

\* What uploads, deletions, decisions and changes of avatar do at the same time
\* leaves the rows, the bucket and the disk in agreement.
THEOREM ImagesStayConsistent == Spec => []ImagesAreConsistent
<1>1. NoOrphanPhoto /\ NoDanglingKey /\ FinishedUploadsAreTidy => ImagesAreConsistent
  BY DEF ImagesAreConsistent
<1> QED
  BY NoPhotoIsOrphaned, NoKeyDangles, UploadsEndTidily, <1>1, PTL

-----------------------------------------------------------------------------
(* Moderation *)

\* A call that has not created its report yet has none.
ReportsAreNewOnce ==
    \A k \in Call : pc[k] \in {"new", "found", "checked"} => reports[k].status = "none"

Created == {k \in Call : reports[k].status # "none"}

\* The rows of two transactions are disjoint, and those of a decision on a
\* report are pending until it commits.
RowsAreHeld ==
    /\ \A a \in Desk : op[a].rows # {} => op[a].on \in {"report", "comment"}
    /\ \A a \in Desk : op[a].on = "comment" => kind = "comment"
    /\ \A a \in Desk : op[a].rows \subseteq Created
    /\ \A a \in Desk : op[a].on = "report" => op[a].rows \subseteq Pending
    /\ \A a, b \in Desk : a # b => op[a].rows \cap op[b].rows = {}

\* Reports on comments only are counted, and a call about to hide one has
\* counted enough reporters.
FlagsAreCounted ==
    \A k \in Call :
        /\ pc[k] \in {"created", "flagging"} => kind = "comment"
        /\ pc[k] = "flagging" => Cardinality(Reporters(Created)) >= Threshold

ReviewInv ==
    /\ ModerationTypeOK
    /\ ReportsAreNewOnce
    /\ RowsAreHeld
    /\ FlagsAreCounted

\* What no step does to a report, and without a moderator to the content.
DecisionsStand == \A k \in Call : DecidedOnce(k) /\ OutcomeMatches(k)

HiddenTogether ==
    content' # content /\ op' = op
      => /\ content = "APPROVED"
         /\ content' = "FLAGGED"
         /\ Cardinality(Reporters(Created)) >= Threshold

LEMMA IdleIsAnOp == Idle \in Op
BY DEF Idle, Op

LEMMA InitReview == ModerationInit => ReviewInv
<1> SUFFICES ASSUME ModerationInit PROVE ReviewInv
  OBVIOUS
<1>1. \A a \in Desk : op[a] = Idle
  BY DEF ModerationInit
<1>2. ModerationTypeOK
  BY IdleIsAnOp DEF ModerationInit, ModerationTypeOK, Kind, ContentStatus, ReportStatus
<1>3. ReportsAreNewOnce /\ FlagsAreCounted
  BY DEF ModerationInit, ReportsAreNewOnce, FlagsAreCounted
<1>4. RowsAreHeld
  BY <1>1 DEF RowsAreHeld, Idle
<1> QED
  BY <1>2, <1>3, <1>4 DEF ReviewInv

\* More reports were created, never fewer, and by members.
LEMMA ReportersGrow ==
  ASSUME ModerationTypeOK, ModerationTypeOK',
         \A k \in Call : /\ reports'[k].by = reports[k].by
                         /\ reports[k].status # "none" => reports'[k].status # "none",
         Cardinality(Reporters(Created)) >= Threshold
  PROVE  Cardinality(Reporters(Created)') >= Threshold
<1>1. Reporters(Created) \subseteq Reporters(Created)'
  BY DEF Reporters, Created
<1>2. Reporters(Created)' \subseteq Member
  BY DEF Reporters, Created, ModerationTypeOK
<1> DEFINE R == Reporters(Created)
           S == Reporters(Created)'
<1>3. IsFiniteSet(S)
  BY <1>2, FS_Subset, MemberAssumption
<1>4. Cardinality(R) <= Cardinality(S) /\ IsFiniteSet(R)
  BY <1>1, <1>3, FS_Subset
<1>5. Cardinality(R) \in Nat /\ Cardinality(S) \in Nat /\ Threshold \in Nat
  BY <1>3, <1>4, FS_CardinalityType, ThresholdAssumption
<1> QED
  BY <1>4, <1>5

\* Steps that leave the reports alone, or create one more.
LEMMA EnoughStaysEnough ==
  ASSUME ReviewInv, ModerationTypeOK',
         \A k \in Call : /\ reports'[k].by = reports[k].by
                         /\ reports[k].status # "none" => reports'[k].status # "none",
         kind' = kind,
         \A k \in Call : /\ pc'[k] = "created" => pc[k] = "created" \/ kind = "comment"
                         /\ pc'[k] = "flagging" => pc[k] = "flagging"
  PROVE  FlagsAreCounted'
<1>1. \A k \in Call : pc'[k] \in {"created", "flagging"} => kind' = "comment"
  BY DEF ReviewInv, FlagsAreCounted
<1>2. ASSUME NEW k \in Call, pc'[k] = "flagging"
      PROVE  Cardinality(Reporters(Created)') >= Threshold
  <2>1. Cardinality(Reporters(Created)) >= Threshold
    BY <1>2 DEF ReviewInv, FlagsAreCounted
  <2> QED
    BY <2>1, ReportersGrow DEF ReviewInv
<1> QED
  BY <1>1, <1>2 DEF FlagsAreCounted

-----------------------------------------------------------------------------
(* createReport *)

LEMMA ReportStepKeepsReview ==
  ASSUME ReviewInv, NEW k \in Call, FindTarget(k) \/ ReportStep(k)
  PROVE  ReviewInv' /\ DecisionsStand /\ HiddenTogether
<1>0. ModerationTypeOK /\ pc \in [Call -> {"new", "found", "checked", "created", "flagging", "done"}]
  BY DEF ReviewInv, ModerationTypeOK
<1>a. \A l : MoveCall(k, l) => pc'[k] = l /\ \A j \in Call : j # k => pc'[j] = pc[j]
  BY <1>0 DEF MoveCall
<1>1. ASSUME NEW l \in {"found", "checked", "done"}, MoveCall(k, l),
             l \in {"found", "checked"} => pc[k] \in {"new", "found"},
             UNCHANGED <<kind, content, reports, op>>
      PROVE  ReviewInv' /\ DecisionsStand /\ HiddenTogether
  <2>1. ModerationTypeOK'
    BY <1>0, <1>1 DEF ModerationTypeOK, MoveCall
  <2>2. ReportsAreNewOnce'
    BY <1>a, <1>1 DEF ReviewInv, ReportsAreNewOnce
  <2>3. RowsAreHeld'
    BY <1>1 DEF ReviewInv, RowsAreHeld, Pending, Created
  <2>4. FlagsAreCounted'
    BY <1>a, <1>1, <2>1, EnoughStaysEnough
  <2>5. DecisionsStand /\ HiddenTogether
    BY <1>1 DEF DecisionsStand, DecidedOnce, OutcomeMatches, HiddenTogether
  <2> QED
    BY <2>1, <2>2, <2>3, <2>4, <2>5 DEF ReviewInv
<1>2. CASE FindTarget(k)
  BY <1>1, <1>2 DEF FindTarget
<1>3. CASE CheckPending(k)
  BY <1>1, <1>3 DEF CheckPending
<1>4. CASE CreateReport(k)
  <2> DEFINE l == IF kind = "comment" THEN "created" ELSE "done"
  <2>1. /\ pc[k] = "checked" /\ reports[k].status = "none"
        /\ UNCHANGED <<kind, content, op>>
        /\ MoveCall(k, l) /\ l \in {"created", "done"}
        /\ l = "created" => kind = "comment"
    BY <1>4 DEF CreateReport, ReviewInv, ReportsAreNewOnce
  <2>2. /\ reports'[k].status = "PENDING" /\ reports'[k].by = reports[k].by
        /\ \A j \in Call : j # k => reports'[j] = reports[j]
        /\ reports' \in [Call -> [by : Member, status : ReportStatus]]
    BY <1>0, <1>4 DEF CreateReport, ModerationTypeOK, ReportStatus
  <2> HIDE DEF l
  <2>3. ModerationTypeOK'
    <3>1. pc' \in [Call -> {"new", "found", "checked", "created", "flagging", "done"}]
      BY <1>0, <2>1 DEF MoveCall
    <3> QED
      BY <3>1, <1>0, <2>1, <2>2 DEF ModerationTypeOK
  <2>4. ReportsAreNewOnce'
    BY <1>a, <2>1, <2>2 DEF ReviewInv, ReportsAreNewOnce
  <2>5. RowsAreHeld'
    <3>1. Pending \subseteq Pending' /\ Created \subseteq Created'
      BY <2>1, <2>2 DEF Pending, Created
    <3> QED
      BY <3>1, <2>1 DEF ReviewInv, RowsAreHeld
  <2>6. FlagsAreCounted'
    BY <1>a, <2>1, <2>2, <2>3, EnoughStaysEnough
  <2>7. DecisionsStand /\ HiddenTogether
    BY <2>1, <2>2 DEF DecisionsStand, DecidedOnce, OutcomeMatches, HiddenTogether
  <2> QED
    BY <2>3, <2>4, <2>5, <2>6, <2>7 DEF ReviewInv
<1>5. CASE CountReporters(k)
  <2>1. CASE Cardinality(Reporters(Pending)) >= Threshold
    <3>1. MoveCall(k, "flagging") /\ UNCHANGED <<kind, content, reports, op>>
      BY <1>5, <2>1 DEF CountReporters
    <3>2. ModerationTypeOK'
      BY <1>0, <3>1 DEF ModerationTypeOK, MoveCall
    <3>3. ReportsAreNewOnce'
      BY <1>a, <3>1 DEF ReviewInv, ReportsAreNewOnce
    <3>4. RowsAreHeld'
      BY <3>1 DEF ReviewInv, RowsAreHeld, Pending, Created
    <3>5. Cardinality(Reporters(Created)) >= Threshold
      <4> DEFINE R == Reporters(Pending)
                 S == Reporters(Created)
      <4>1. R \subseteq S /\ S \subseteq Member
        BY <1>0 DEF Reporters, Pending, Created, ModerationTypeOK
      <4>2. IsFiniteSet(S)
        BY <4>1, FS_Subset, MemberAssumption
      <4>3. Cardinality(R) <= Cardinality(S) /\ IsFiniteSet(R)
        BY <4>1, <4>2, FS_Subset
      <4>4. Cardinality(R) \in Nat /\ Cardinality(S) \in Nat /\ Threshold \in Nat
        BY <4>2, <4>3, FS_CardinalityType, ThresholdAssumption
      <4> QED
        BY <2>1, <4>3, <4>4
    <3>6. FlagsAreCounted'
      <4>1. kind = "comment"
        BY <1>5 DEF CountReporters, ReviewInv, FlagsAreCounted
      <4>2. kind' = kind /\ Reporters(Created)' = Reporters(Created)
        BY <3>1 DEF Reporters, Created
      <4> QED
        BY <3>5, <4>1, <4>2 DEF FlagsAreCounted
    <3>7. DecisionsStand /\ HiddenTogether
      BY <3>1 DEF DecisionsStand, DecidedOnce, OutcomeMatches, HiddenTogether
    <3> QED
      BY <3>2, <3>3, <3>4, <3>6, <3>7 DEF ReviewInv
  <2>2. CASE ~(Cardinality(Reporters(Pending)) >= Threshold)
    BY <1>1, <1>5, <2>2 DEF CountReporters
  <2> QED
    BY <2>1, <2>2
<1>6. CASE AutoFlag(k)
  <2>1. /\ pc[k] = "flagging" /\ MoveCall(k, "done")
        /\ UNCHANGED <<kind, reports, op>>
        /\ \/ content' = content
           \/ content = "APPROVED" /\ content' = "FLAGGED"
    BY <1>6 DEF AutoFlag
  <2>2. kind = "comment" /\ Cardinality(Reporters(Created)) >= Threshold
    BY <2>1 DEF ReviewInv, FlagsAreCounted
  <2>3. ModerationTypeOK'
    <3>1. pc' \in [Call -> {"new", "found", "checked", "created", "flagging", "done"}]
      BY <1>0, <2>1 DEF MoveCall
    <3> QED
      BY <3>1, <1>0, <2>1, <2>2 DEF ModerationTypeOK, ContentStatus
  <2>4. ReportsAreNewOnce'
    BY <1>a, <2>1 DEF ReviewInv, ReportsAreNewOnce
  <2>5. RowsAreHeld'
    BY <2>1 DEF ReviewInv, RowsAreHeld, Pending, Created
  <2>6. FlagsAreCounted'
    BY <1>a, <2>1, <2>3, EnoughStaysEnough
  <2>7. DecisionsStand /\ HiddenTogether
    BY <2>1, <2>2 DEF DecisionsStand, DecidedOnce, OutcomeMatches, HiddenTogether
  <2> QED
    BY <2>3, <2>4, <2>5, <2>6, <2>7 DEF ReviewInv
<1> QED
  BY <1>2, <1>3, <1>4, <1>5, <1>6 DEF ReportStep

-----------------------------------------------------------------------------
(* The moderators' decisions *)

\* A request begins, takes rows it may take, or ends without a decision.
LEMMA QuietDeskKeepsReview ==
  ASSUME ReviewInv, NEW a \in Desk, NEW o \in Op, op' = [op EXCEPT ![a] = o],
         UNCHANGED <<kind, content, reports, pc>>,
         o.rows # {} => o.on \in {"report", "comment"},
         o.on = "comment" => kind = "comment",
         o.rows \subseteq Created,
         o.on = "report" => o.rows \subseteq Pending,
         o.rows \cap UNION {op[b].rows : b \in Desk \ {a}} = {}
  PROVE  ReviewInv' /\ DecisionsStand /\ HiddenTogether
<1>1. ModerationTypeOK'
  BY DEF ReviewInv, ModerationTypeOK
<1>2. op'[a] = o /\ \A b \in Desk : b # a => op'[b] = op[b]
  BY DEF ReviewInv, ModerationTypeOK
<1>3. ReportsAreNewOnce' /\ FlagsAreCounted'
  BY DEF ReviewInv, ReportsAreNewOnce, FlagsAreCounted, Reporters, Created
<1>4. Pending' = Pending /\ Created' = Created
  BY DEF Pending, Created
<1>5. RowsAreHeld'
  <2>1. \A b \in Desk : op'[b].rows # {} => op'[b].on \in {"report", "comment"}
    BY <1>2 DEF ReviewInv, RowsAreHeld
  <2>a. \A b \in Desk : op'[b].on = "comment" => kind' = "comment"
    BY <1>2 DEF ReviewInv, RowsAreHeld
  <2>b. \A b \in Desk : op'[b].rows \subseteq Created'
    BY <1>2, <1>4 DEF ReviewInv, RowsAreHeld
  <2>2. \A b \in Desk : op'[b].on = "report" => op'[b].rows \subseteq Pending'
    BY <1>2, <1>4 DEF ReviewInv, RowsAreHeld
  <2>3. \A b \in Desk : b # a => o.rows \cap op[b].rows = {}
    OBVIOUS
  <2>4. \A b, d \in Desk : b # d => op'[b].rows \cap op'[d].rows = {}
    BY <1>2, <2>3 DEF ReviewInv, RowsAreHeld
  <2> QED
    BY <2>1, <2>2, <2>4, <2>a, <2>b, Zenon DEF RowsAreHeld
<1>6. DecisionsStand /\ HiddenTogether
  BY DEF DecisionsStand, DecidedOnce, OutcomeMatches, HiddenTogether
<1> QED
  BY <1>1, <1>3, <1>5, <1>6 DEF ReviewInv

LEMMA BeginKeepsReview ==
  ASSUME ReviewInv, NEW a \in Desk,
         ReadToApprove(a) \/ ReadToReject(a) \/ ReadReport(a) \/ ReadToDeleteContent(a)
  PROVE  ReviewInv' /\ DecisionsStand /\ HiddenTogether
<1>1. ASSUME NEW on \in {"content", "report", "comment"},
             NEW d \in {"approve", "reject", "delete"}, Begin(a, on, d),
             on = "comment" => kind = "comment"
      PROVE  ReviewInv' /\ DecisionsStand /\ HiddenTogether
  <2> DEFINE o == [Idle EXCEPT !.on = on, !.decision = d]
  <2>1. o \in Op /\ o.rows = {} /\ o.on = on
    BY DEF Idle, Op
  <2>2. op' = [op EXCEPT ![a] = o] /\ UNCHANGED <<kind, content, reports, pc>>
    BY <1>1 DEF Begin
  <2> HIDE DEF o
  <2> QED
    BY <1>1, <2>1, <2>2, QuietDeskKeepsReview
<1> QED
  BY <1>1 DEF ReadToApprove, ReadToReject, ReadReport, ReadToDeleteContent

LEMMA QuietDecisionKeepsReview ==
  ASSUME ReviewInv, NEW a \in Desk, LockComment(a) \/ LockReports(a) \/ AbortVictim(a)
  PROVE  ReviewInv' /\ DecisionsStand /\ HiddenTogether
<1>0. ModerationTypeOK /\ op \in [Desk -> Op]
  BY DEF ReviewInv, ModerationTypeOK
<1>1. ASSUME op' = [op EXCEPT ![a] = Idle], UNCHANGED <<kind, content, reports, pc>>
      PROVE  ReviewInv' /\ DecisionsStand /\ HiddenTogether
  <2>1. Idle.rows = {} /\ Idle.on = "nothing" /\ Idle \in Op
    BY IdleIsAnOp DEF Idle
  <2> QED
    BY <1>1, <2>1, QuietDeskKeepsReview
<1>2. CASE AbortVictim(a)
  BY <1>1, <1>2 DEF AbortVictim, Done
<1>3. CASE LockComment(a)
  <2>1. CASE content = "deleted"
    BY <1>1, <1>3, <2>1 DEF LockComment
  <2>2. CASE content # "deleted"
    <3> DEFINE o == [op[a] EXCEPT !.step = "locked"]
    <3>1. op[a] \in Op /\ op[a].on = "content"
      BY <1>0, <1>3 DEF LockComment
    <3>2. op[a].rows = {}
      BY <3>1 DEF ReviewInv, RowsAreHeld
    <3>3. o \in Op /\ o.rows = {} /\ o.on = "content"
      BY <3>1, <3>2 DEF Op
    <3>4. op' = [op EXCEPT ![a] = o] /\ UNCHANGED <<kind, content, reports, pc>>
      BY <1>0, <1>3, <2>2 DEF LockComment
    <3> HIDE DEF o
    <3> QED
      BY <3>3, <3>4, QuietDeskKeepsReview
  <2> QED
    BY <2>1, <2>2
<1>4. CASE LockReports(a)
  <2> DEFINE S == IF op[a].on = "report"
                    THEN Pending
                    ELSE {k \in Call : reports[k].status \notin {"none", "deleted"}}
             o == [op[a] EXCEPT !.step = "locked", !.rows = S]
  <2>1. /\ op[a] \in Op /\ op[a].on \in {"report", "comment"}
        /\ S \cap LockedReports = {}
        /\ UNCHANGED <<kind, content, reports, pc>>
    BY <1>0, <1>4 DEF LockReports
  <2>2. op' = [op EXCEPT ![a].step = "locked", ![a].rows = S]
    BY <1>4 DEF LockReports
  <2>3. /\ S \subseteq Call /\ S \subseteq Created
        /\ op[a].on = "report" => S \subseteq Pending
        /\ op[a].on = "comment" => kind = "comment"
    BY DEF Pending, Created, ReviewInv, RowsAreHeld
  <2> HIDE DEF S
  <2>4. op' = [op EXCEPT ![a] = o]
    BY <1>0, <2>2
  <2>5. o \in Op /\ o.on = op[a].on /\ o.rows = S
    BY <2>1, <2>3 DEF Op
  <2>6. S \cap UNION {op[b].rows : b \in Desk \ {a}} = {}
    BY <2>1 DEF LockedReports
  <2> HIDE DEF o
  <2> QED
    BY <2>1, <2>3, <2>4, <2>5, <2>6, QuietDeskKeepsReview
<1> QED
  BY <1>2, <1>3, <1>4

\* A decision is committed: the content takes a new status, the rows one too.
LEMMA CommitKeepsReview ==
  ASSUME ReviewInv, NEW a \in Desk, op[a].on # "nothing", Done(a),
         NEW S \in SUBSET Call, NEW s \in {"APPROVED", "REJECTED", "deleted"},
         NEW c \in ContentStatus \cup {"deleted"},
         Close(S, s), content' = c, UNCHANGED <<kind, pc>>,
         kind = "photo" => c # "FLAGGED",
         kind # "comment" => c # "deleted",
         s = "deleted" \/ S \subseteq Pending,
         S \subseteq Created,
         \A b \in Desk : b # a => S \cap op[b].rows = {},
         s = "APPROVED" => c # "APPROVED" \/ S = {},
         s = "REJECTED" => c # "FLAGGED" \/ S = {}
  PROVE  ReviewInv' /\ DecisionsStand /\ HiddenTogether
<1>0. /\ ModerationTypeOK /\ op \in [Desk -> Op]
      /\ reports \in [Call -> [by : Member, status : ReportStatus]]
  BY DEF ReviewInv, ModerationTypeOK
<1>1. /\ reports' \in [Call -> [by : Member, status : ReportStatus]]
      /\ \A k \in Call : reports'[k].by = reports[k].by
      /\ \A k \in S : reports'[k].status = s
      /\ \A k \in Call \ S : reports'[k] = reports[k]
  <2>1. reports' = [k \in Call |-> IF k \in S THEN [reports[k] EXCEPT !.status = s]
                                               ELSE reports[k]]
    BY DEF Close
  <2>2. \A k \in Call : /\ [reports[k] EXCEPT !.status = s] \in [by : Member, status : ReportStatus]
                        /\ [reports[k] EXCEPT !.status = s].status = s
                        /\ [reports[k] EXCEPT !.status = s].by = reports[k].by
    BY <1>0 DEF ReportStatus
  <2> QED
    BY <1>0, <2>1, <2>2
<1>b. /\ \A k \in S : reports[k].status # "none"
      /\ s # "deleted" => \A k \in S : reports[k].status = "PENDING"
      /\ Created' = Created
  BY <1>1 DEF Created, Pending
<1>2. op' = [op EXCEPT ![a] = Idle] /\ op'[a] = Idle
      /\ \A b \in Desk : b # a => op'[b] = op[b]
  BY <1>0 DEF Done
<1>3. ModerationTypeOK'
  <2>1. op' \in [Desk -> Op]
    BY <1>0, <1>2, IdleIsAnOp
  <2> QED
    BY <1>0, <1>1, <2>1 DEF ModerationTypeOK
<1>4. ReportsAreNewOnce'
  <2> SUFFICES ASSUME NEW k \in Call, pc[k] \in {"new", "found", "checked"}
               PROVE  reports'[k].status = "none"
    BY DEF ReportsAreNewOnce
  <2>1. reports[k].status = "none"
    BY DEF ReviewInv, ReportsAreNewOnce
  <2>2. k \in Call \ S
    BY <2>1, <1>b
  <2> QED
    BY <1>1, <2>1, <2>2
<1>5. RowsAreHeld'
  <2>1. Idle.rows = {} /\ Idle.on = "nothing"
    BY DEF Idle
  <2>2. \A b \in Desk : op'[b].rows # {} => op'[b].on \in {"report", "comment"}
    BY <1>2, <2>1 DEF ReviewInv, RowsAreHeld
  <2>3. ASSUME NEW b \in Desk, op'[b].on = "report" PROVE op'[b].rows \subseteq Pending'
    <3>1. b # a /\ op'[b] = op[b]
      BY <1>2, <2>1, <2>3
    <3>2. op[b].rows \subseteq Pending /\ S \cap op[b].rows = {}
      BY <2>3, <3>1 DEF ReviewInv, RowsAreHeld
    <3>3. \A k \in op[b].rows : k \in Call \ S /\ reports[k].status = "PENDING"
      BY <3>2 DEF Pending
    <3>4. \A k \in op[b].rows : k \in Call /\ reports'[k].status = "PENDING"
      BY <1>1, <3>3
    <3> QED
      BY <3>1, <3>4 DEF Pending
  <2>a. \A b \in Desk : op'[b].on = "comment" => kind' = "comment"
    BY <1>2, <2>1 DEF ReviewInv, RowsAreHeld
  <2>b. \A b \in Desk : op'[b].rows \subseteq Created'
    BY <1>2, <1>b, <2>1 DEF ReviewInv, RowsAreHeld
  <2>4. \A b, d \in Desk : b # d => op'[b].rows \cap op'[d].rows = {}
    BY <1>2, <2>1 DEF ReviewInv, RowsAreHeld
  <2> QED
    BY <2>2, <2>3, <2>4, <2>a, <2>b DEF RowsAreHeld
<1>6. FlagsAreCounted'
  <2>1. Reporters(Created)' = Reporters(Created)
    BY <1>1, <1>b DEF Reporters, Created
  <2> QED
    BY <2>1 DEF ReviewInv, FlagsAreCounted
<1>7. DecisionsStand
  <2> SUFFICES ASSUME NEW k \in Call PROVE DecidedOnce(k) /\ OutcomeMatches(k)
    BY DEF DecisionsStand
  <2>a. CASE k \in S
    <3>1. reports'[k].status = s
      BY <1>1, <2>a
    <3>2. s = "deleted" \/ reports[k].status = "PENDING"
      BY <1>b, <2>a
    <3> QED
      BY <2>a, <3>1, <3>2 DEF DecidedOnce, OutcomeMatches
  <2>b. CASE k \notin S
    <3>1. reports'[k] = reports[k]
      BY <1>1, <2>b
    <3> QED
      BY <3>1 DEF DecidedOnce, OutcomeMatches
  <2> QED
    BY <2>a, <2>b
<1>8. HiddenTogether
  <2>1. op' # op
    BY <1>2 DEF Idle
  <2> QED
    BY <2>1 DEF HiddenTogether
<1> QED
  BY <1>3, <1>4, <1>5, <1>6, <1>7, <1>8 DEF ReviewInv

LEMMA DecisionKeepsReview ==
  ASSUME ReviewInv, NEW a \in Desk,
         DecideContent(a) \/ DecideComment(a) \/ DecideReport(a) \/ DeleteComment(a)
  PROVE  ReviewInv' /\ DecisionsStand /\ HiddenTogether
<1>0. /\ ModerationTypeOK /\ op \in [Desk -> Op] /\ op[a] \in Op
      /\ op[a].rows \subseteq Call
      /\ content \in ContentStatus \cup {"deleted"}
      /\ reports \in [Call -> [by : Member, status : ReportStatus]]
  BY DEF ReviewInv, ModerationTypeOK, Op
<1> DEFINE d == op[a].decision
<1>1. CASE DecideContent(a)
  <2> DEFINE c == IF d = "approve" THEN "APPROVED" ELSE "REJECTED"
  <2>1. /\ c \in ContentStatus \cup {"deleted"} /\ c # "FLAGGED" /\ c # "deleted"
        /\ content' = c /\ op[a].on # "nothing" /\ Done(a) /\ UNCHANGED <<kind, reports, pc>>
    BY <1>1 DEF DecideContent, ContentStatus
  <2>2. Close({}, "deleted")
    BY <1>0, <2>1 DEF Close
  <2> HIDE DEF c
  <2> QED
    BY <2>1, <2>2, CommitKeepsReview
<1>2. CASE DecideComment(a)
  <2> DEFINE c == IF d = "approve" THEN "APPROVED" ELSE "REJECTED"
             s == IF d = "approve" THEN "REJECTED" ELSE "APPROVED"
  <2>1. /\ c \in ContentStatus \cup {"deleted"} /\ c # "FLAGGED" /\ c # "deleted"
        /\ s \in {"APPROVED", "REJECTED", "deleted"} /\ (s = "APPROVED" => c # "APPROVED")
        /\ content' = c /\ op[a].on # "nothing" /\ Done(a) /\ UNCHANGED <<kind, pc>>
        /\ Close(Pending, s)
    BY <1>2 DEF DecideComment, ContentStatus
  <2>2. \A b \in Desk : Pending \cap op[b].rows = {}
    BY <1>2 DEF DecideComment, LockedReports
  <2>3. Pending \in SUBSET Call /\ Pending \subseteq Created
    BY DEF Pending, Created
  <2> HIDE DEF c, s
  <2> QED
    BY <2>1, <2>2, <2>3, CommitKeepsReview
<1>3. \A b \in Desk : b # a => op[a].rows \cap op[b].rows = {}
  BY DEF ReviewInv, RowsAreHeld
<1>4. CASE DecideReport(a)
  <2> DEFINE c == Reviewed(d)
             s == IF d = "approve" THEN "APPROVED" ELSE "REJECTED"
  <2>1. /\ s \in {"APPROVED", "REJECTED", "deleted"}
        /\ content' = c /\ op[a].on = "report" /\ Done(a) /\ UNCHANGED <<kind, pc>>
        /\ Close(op[a].rows, s)
    BY <1>4 DEF DecideReport
  <2>2. op[a].rows \subseteq Pending /\ op[a].rows \subseteq Created
    BY <2>1 DEF ReviewInv, RowsAreHeld, Pending, Created
  <2>3. /\ c \in ContentStatus \cup {"deleted"}
        /\ kind = "photo" => c # "FLAGGED"
        /\ kind # "comment" => c # "deleted"
        /\ s = "APPROVED" => c # "APPROVED"
        /\ s = "REJECTED" => c # "FLAGGED"
    <3>1. kind \in Kind /\ (kind = "photo" => content # "FLAGGED")
          /\ (kind # "comment" => content # "deleted")
      BY <1>0 DEF ModerationTypeOK
    <3>2. CASE d = "approve"
      BY <1>0, <3>1, <3>2 DEF Reviewed, ContentStatus, Kind
    <3>3. CASE d # "approve"
      BY <1>0, <3>1, <3>3 DEF Reviewed, ContentStatus, Kind
    <3> QED
      BY <3>2, <3>3
  <2> HIDE DEF c, s
  <2> QED
    BY <1>0, <1>3, <2>1, <2>2, <2>3, CommitKeepsReview
<1>5. CASE DeleteComment(a)
  <2>1. op[a].on = "comment" /\ Done(a) /\ UNCHANGED <<kind, pc>>
    BY <1>5 DEF DeleteComment
  <2>2. kind = "comment" /\ op[a].rows \subseteq Created
    BY <2>1 DEF ReviewInv, RowsAreHeld
  <2>3. \E S \in {{}, op[a].rows} : content' = "deleted" /\ Close(S, "deleted")
    <3>1. CASE content # "deleted"
      BY <1>5, <3>1 DEF DeleteComment
    <3>2. CASE content = "deleted"
      <4>1. content' = "deleted" /\ reports' = reports
        BY <1>5, <3>2 DEF DeleteComment
      <4>2. Close({}, "deleted")
        BY <1>0, <4>1 DEF Close
      <4> QED
        BY <4>1, <4>2
    <3> QED
      BY <3>1, <3>2
  <2> QED
    BY <1>0, <1>3, <2>1, <2>2, <2>3, CommitKeepsReview
<1> QED
  BY <1>1, <1>2, <1>4, <1>5

-----------------------------------------------------------------------------
(* Theorems *)

LEMMA StepKeepsReview ==
  ASSUME ReviewInv, [ModerationNext]_moderationVars
  PROVE  ReviewInv' /\ DecisionsStand /\ HiddenTogether
<1>1. CASE ModerationNext
  BY <1>1, ReportStepKeepsReview, BeginKeepsReview, QuietDecisionKeepsReview,
     DecisionKeepsReview DEF ModerationNext, DecisionStep
<1>2. CASE UNCHANGED moderationVars
  BY <1>2 DEF moderationVars, ReviewInv, ModerationTypeOK, ReportsAreNewOnce, RowsAreHeld,
     FlagsAreCounted, Created, Pending, Reporters, DecisionsStand, DecidedOnce,
     OutcomeMatches, HiddenTogether
<1> QED
  BY <1>1, <1>2

\* createReport counts before it hides, and of two transactions that close
\* reports the rows are disjoint, in every state.
THEOREM ReviewInvHolds == ModerationSpec => []ReviewInv
<1>1. ReviewInv /\ [ModerationNext]_moderationVars => ReviewInv'
  BY StepKeepsReview
<1> QED
  BY <1>1, InitReview, PTL DEF ModerationSpec

\* Every value has its type, for any number of calls, moderators and members.
THEOREM ModerationTypesHold == ModerationSpec => []ModerationTypeOK
<1>1. ReviewInv => ModerationTypeOK
  BY DEF ReviewInv
<1> QED
  BY <1>1, ReviewInvHolds, PTL

\* approveReport, rejectReport, approveComment and rejectComment decide a
\* report once, and leave its target as the decision says, however many of
\* them overlap.
THEOREM DecisionsAreFinal == ModerationSpec => DecisionsHold
<1>1. ReviewInv /\ [ModerationNext]_moderationVars
        => [\A k \in Call : DecidedOnce(k) /\ OutcomeMatches(k)]_moderationVars
  BY StepKeepsReview DEF DecisionsStand
<1> QED
  BY <1>1, ReviewInvHolds, PTL DEF ModerationSpec, DecisionsHold

\* createReport hides a comment only with as many different reporters as
\* REPORT_AUTO_FLAG_THRESHOLD, whoever else reports or decides meanwhile.
THEOREM HidingTakesACrowd == ModerationSpec => MembersHideOnlyTogether
<1>1. ReviewInv /\ [ModerationNext]_moderationVars
        => [content' # content /\ op' = op
              => /\ content = "APPROVED"
                 /\ content' = "FLAGGED"
                 /\ Cardinality(Reporters({k \in Call : reports[k].status # "none"}))
                      >= Threshold]_moderationVars
  BY StepKeepsReview DEF HiddenTogether, Created
<1> QED
  BY <1>1, ReviewInvHolds, PTL DEF ModerationSpec, MembersHideOnlyTogether

=============================================================================

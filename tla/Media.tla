-------------------------------- MODULE Media --------------------------------
(***************************************************************************)
(* The images of one member: photo uploads (photo.service.ts), the avatar  *)
(* (auth.service.ts), their objects in S3 (storage.service.ts), the        *)
(* moderator who publishes or refuses a photo (admin.service.ts), and the  *)
(* deletion of the account with everything it stored                       *)
(* (account-deletion.service.ts).                                          *)
(*                                                                         *)
(* An action is the code between two awaits: one database statement, one   *)
(* call to S3, one file operation.  No transaction spans two of them.  An  *)
(* object is named by the request that stored it, since every key is a     *)
(* fresh UUID.  Scans are the subject of Scanning; here one passes or not. *)
(***************************************************************************)
EXTENDS Naturals, FiniteSets

CONSTANTS
    Upload,     \* photo uploads
    Change,     \* requests that change the avatar
    Moderator,  \* moderators' requests
    MaxCrashes, \* bound on crashes of the process
    None        \* no object: storedKey "", avatarKey null

ASSUME DistinctAssumption == Upload \cap Change = {} /\ None \notin Upload \cup Change
ASSUME CrashesAssumption == MaxCrashes \in Nat

VARIABLES
    account,  \* the user row exists
    photo,    \* the photo rows, by the upload that created them
    avatar,   \* avatarKey
    objects,  \* the objects in the bucket
    temp,     \* uploads whose temporary file exists
    up,       \* where each photo upload stands
    removal,  \* deletions of a photo under way, by photo
    change,   \* what each avatar request is doing
    review,   \* what each moderator is doing
    purge,    \* the deletion of the account: its step, the keys it has read
    crashes,  \* crashes so far
    scanned,  \* history: uploads whose file passed the scan
    faulted   \* history: a call to S3 failed half-way or the process crashed

rows == <<account, photo, avatar>>
requests == <<up, removal, change, review, purge>>
history == <<crashes, scanned, faulted>>
vars == <<rows, objects, temp, requests, history>>

NoRow == [status |-> "none", key |-> None]

Row == [status : {"none", "PENDING", "SCANNING", "READY", "REJECTED", "deleted"},
        key : Upload \cup {None}]

Step == {"new", "received", "created", "scanning", "scanned", "stored",
         "undoing", "failed", "cleaning", "refused", "done"}

TypeOK ==
    /\ account \in BOOLEAN
    /\ photo \in [Upload -> Row]
    /\ \A u \in Upload : photo[u].key \in {u, None}
    /\ avatar \in Change \cup {None}
    /\ objects \subseteq Upload \cup Change
    /\ temp \subseteq Upload
    /\ up \in [Upload -> Step]
    /\ removal \in [Upload -> {"none", "read", "removed"}]
    /\ change \in [Change -> [step : {"new", "read", "stored", "swapped", "done"},
                              to : {"object", "null"},
                              old : Change \cup {None}]]
    /\ review \in [Moderator -> [of : Upload \cup {None}, to : {"READY", "REJECTED"}]]
    /\ purge \in [step : {"idle", "deleting", "done"},
                  keys : SUBSET (Upload \cup Change),
                  kept : BOOLEAN]
    /\ crashes \in 0..MaxCrashes
    /\ scanned \subseteq Upload
    /\ faulted \in BOOLEAN

NoReview == [of |-> None, to |-> "READY"]
NoPurge == [step |-> "idle", keys |-> {}, kept |-> FALSE]
NoChange == [step |-> "new", to |-> "object", old |-> None]

Init ==
    /\ account = TRUE
    /\ photo = [u \in Upload |-> NoRow]
    /\ avatar = None
    /\ objects = {}
    /\ temp = {}
    /\ up = [u \in Upload |-> "new"]
    /\ removal = [u \in Upload |-> "none"]
    /\ change = [c \in Change |-> NoChange]
    /\ review = [a \in Moderator |-> NoReview]
    /\ purge = NoPurge
    /\ crashes = 0
    /\ scanned = {}
    /\ faulted = FALSE

Exists(u) == photo[u].status \notin {"none", "deleted"}
Goto(u, s) == up' = [up EXCEPT ![u] = s]
SetStatus(u, s) == photo' = [photo EXCEPT ![u].status = s]

\* What a photo upload may not touch.
Elsewhere == UNCHANGED <<account, avatar, removal, change, review, purge, crashes>>

-----------------------------------------------------------------------------
(* PhotoService.upload *)

\* parseSingleImage has buffered the file; a request is let in while its user
\* exists.
Receive(u) ==
    /\ up[u] = "new" /\ account
    /\ temp' = temp \cup {u}
    /\ Goto(u, "received")
    /\ UNCHANGED <<photo, objects, scanned, faulted>> /\ Elsewhere

\* The aerodrome is unknown, or the user's row has gone: the error is thrown
\* before the try whose finally removes the file.
Refuse(u) ==
    /\ up[u] = "received"
    /\ Goto(u, "refused")
    /\ UNCHANGED <<photo, objects, temp, scanned, faulted>> /\ Elsewhere

CreateRow(u) ==
    /\ up[u] = "received" /\ account
    /\ SetStatus(u, "PENDING")
    /\ Goto(u, "created")
    /\ UNCHANGED <<objects, temp, scanned, faulted>> /\ Elsewhere

\* Any await of the try may throw; the catch takes the stored object back first.
Fail(u) ==
    /\ up[u] \in {"created", "scanning", "scanned", "stored"}
    /\ Goto(u, IF up[u] = "stored" THEN "undoing" ELSE "failed")
    /\ UNCHANGED <<photo, objects, temp, scanned, faulted>> /\ Elsewhere

StartScan(u) ==
    /\ up[u] = "created" /\ Exists(u)
    /\ SetStatus(u, "SCANNING")
    /\ Goto(u, "scanning")
    /\ UNCHANGED <<objects, temp, scanned, faulted>> /\ Elsewhere

\* Mutant: the verdict is not looked at.
IgnoreScan(u) ==
    /\ up[u] = "scanning"
    /\ Goto(u, "scanned")
    /\ UNCHANGED <<photo, objects, temp, scanned, faulted>> /\ Elsewhere

PassScan(u) ==
    /\ up[u] = "scanning"
    /\ scanned' = scanned \cup {u}
    /\ Goto(u, "scanned")
    /\ UNCHANGED <<photo, objects, temp, faulted>> /\ Elsewhere

\* reencode, then PutObject.
Store(u) ==
    /\ up[u] = "scanned"
    /\ objects' = objects \cup {u}
    /\ Goto(u, "stored")
    /\ UNCHANGED <<photo, temp, scanned, faulted>> /\ Elsewhere

\* PutObject reached the bucket and its answer was lost: storedKey stays null.
StoreUnanswered(u) ==
    /\ up[u] = "scanned"
    /\ objects' = objects \cup {u}
    /\ faulted' = TRUE
    /\ Goto(u, "failed")
    /\ UNCHANGED <<photo, temp, scanned>> /\ Elsewhere

\* Mutant: writing the audit entry, inside the try, may throw.
FinaliseThenThrow(u) ==
    /\ up[u] = "stored" /\ Exists(u)
    /\ photo' = [photo EXCEPT ![u] = [status |-> "PENDING", key |-> u]]
    /\ Goto(u, "undoing")
    /\ UNCHANGED <<objects, temp, scanned, faulted>> /\ Elsewhere

\* The row gets its key and waits for review, whatever its status was.
Finalise(u) ==
    /\ up[u] = "stored" /\ Exists(u)
    /\ photo' = [photo EXCEPT ![u] = [status |-> "PENDING", key |-> u]]
    /\ Goto(u, "cleaning")
    /\ UNCHANGED <<objects, temp, scanned, faulted>> /\ Elsewhere

\* DeleteObject in the catch; when it throws, the row is not marked.
Undo(u) ==
    /\ up[u] = "undoing"
    /\ \/ objects' = objects \ {u} /\ Goto(u, "failed") /\ UNCHANGED faulted
       \/ Goto(u, "cleaning") /\ faulted' = TRUE /\ UNCHANGED objects
    /\ UNCHANGED <<photo, temp, scanned>> /\ Elsewhere

\* The update is tried once; what it throws is ignored.
MarkRejected(u) ==
    /\ up[u] = "failed"
    /\ IF Exists(u)
       THEN \/ SetStatus(u, "REJECTED") /\ UNCHANGED faulted
            \/ faulted' = TRUE /\ UNCHANGED photo
       ELSE UNCHANGED <<photo, faulted>>
    /\ Goto(u, "cleaning")
    /\ UNCHANGED <<objects, temp, scanned>> /\ Elsewhere

\* The finally.
CleanUp(u) ==
    /\ up[u] = "cleaning"
    /\ temp' = temp \ {u}
    /\ Goto(u, "done")
    /\ UNCHANGED <<photo, objects, scanned, faulted>> /\ Elsewhere

-----------------------------------------------------------------------------
(* approvePhoto, rejectPhoto: a read, then an update by id. *)

Review(a, u, to) ==
    /\ review[a] = NoReview
    /\ photo[u].status = "PENDING"
    /\ review' = [review EXCEPT ![a] = [of |-> u, to |-> to]]
    /\ UNCHANGED <<rows, objects, temp, up, removal, change, purge, history>>

Decide(a) ==
    /\ review[a] # NoReview
    /\ review' = [review EXCEPT ![a] = NoReview]
    /\ IF Exists(review[a].of) THEN SetStatus(review[a].of, review[a].to) ELSE UNCHANGED photo
    /\ UNCHANGED <<account, avatar, objects, temp, up, removal, change, purge, history>>

-----------------------------------------------------------------------------
(* PhotoService.delete, by the owner or a moderator: the object, then the row. *)

\* S3 refuses an empty key, so that a photo without an object keeps its row.
ReadToDelete(u) ==
    /\ removal[u] = "none" /\ Exists(u) /\ photo[u].key # None
    /\ removal' = [removal EXCEPT ![u] = "read"]
    /\ UNCHANGED <<rows, objects, temp, up, change, review, purge, history>>

DeleteObject(u) ==
    /\ removal[u] = "read"
    /\ objects' = objects \ {u}
    /\ \/ removal' = [removal EXCEPT ![u] = "removed"] /\ UNCHANGED faulted
       \/ removal' = [removal EXCEPT ![u] = "none"] /\ faulted' = TRUE
    /\ UNCHANGED <<rows, temp, up, change, review, purge, crashes, scanned>>

DeleteRow(u) ==
    /\ removal[u] = "removed"
    /\ removal' = [removal EXCEPT ![u] = "none"]
    /\ IF Exists(u) THEN photo' = [photo EXCEPT ![u] = [status |-> "deleted", key |-> None]]
                    ELSE UNCHANGED photo
    /\ UNCHANGED <<account, avatar, objects, temp, up, change, review, purge, history>>

-----------------------------------------------------------------------------
(* uploadAvatar, deleteAvatar: read the key, store the new object, change the *)
(* key, delete the object of the key that was read.                           *)

BeginChange(c, to) ==
    /\ change[c].step = "new" /\ account
    /\ change' = [change EXCEPT ![c] = [step |-> "read", to |-> to, old |-> avatar]]
    /\ UNCHANGED <<rows, objects, temp, up, removal, review, purge, history>>

StoreAvatar(c) ==
    /\ change[c].step = "read" /\ change[c].to = "object"
    /\ objects' = objects \cup {c}
    /\ change' = [change EXCEPT ![c].step = "stored"]
    /\ UNCHANGED <<rows, temp, up, removal, review, purge, history>>

SwapAvatar(c) ==
    /\ change[c].step = IF change[c].to = "object" THEN "stored" ELSE "read"
    /\ account
    /\ avatar' = IF change[c].to = "object" THEN c ELSE None
    /\ change' = [change EXCEPT ![c].step = IF change[c].old = None THEN "done" ELSE "swapped"]
    /\ UNCHANGED <<account, photo, objects, temp, up, removal, review, purge, history>>

DeleteOldAvatar(c) ==
    /\ change[c].step = "swapped"
    /\ \/ objects' = objects \ {change[c].old} /\ UNCHANGED faulted
       \/ faulted' = TRUE /\ UNCHANGED objects
    /\ change' = [change EXCEPT ![c].step = "done"]
    /\ UNCHANGED <<rows, temp, up, removal, review, purge, crashes, scanned>>

\* The row has gone, or S3 or the database failed: nothing is undone.
FailChange(c) ==
    /\ change[c].step \in {"read", "stored"}
    /\ change' = [change EXCEPT ![c].step = "done"]
    /\ faulted' = (faulted \/ account)
    /\ UNCHANGED <<rows, objects, temp, up, removal, review, purge, crashes, scanned>>

-----------------------------------------------------------------------------
(* AccountDeletionService.purge *)

Keys == {photo[u].key : u \in {v \in Upload : Exists(v)}} \cup {avatar}

StartPurge ==
    /\ purge.step = "idle" /\ account
    /\ purge' = [step |-> "deleting", keys |-> Keys \ {None}, kept |-> FALSE]
    /\ UNCHANGED <<rows, objects, temp, up, removal, change, review, history>>

\* The keys are deleted in parallel, so in any order.
PurgeObject(k) ==
    /\ purge.step = "deleting" /\ k \in purge.keys
    /\ \/ objects' = objects \ {k} /\ UNCHANGED faulted
          /\ purge' = [purge EXCEPT !.keys = @ \ {k}]
       \/ faulted' = TRUE /\ UNCHANGED objects
          /\ purge' = [purge EXCEPT !.keys = @ \ {k}, !.kept = TRUE]
    /\ UNCHANGED <<rows, temp, up, removal, change, review, crashes, scanned>>

\* The row goes, and with it, by cascade, the photos.
EndPurge ==
    /\ purge.step = "deleting" /\ purge.keys = {}
    /\ IF purge.kept
       THEN purge' = NoPurge /\ UNCHANGED rows
       ELSE /\ purge' = [purge EXCEPT !.step = "done"]
            /\ account' = FALSE
            /\ avatar' = None
            /\ photo' = [u \in Upload |-> IF Exists(u) THEN [status |-> "deleted", key |-> None]
                                                       ELSE photo[u]]
    /\ UNCHANGED <<objects, temp, up, removal, change, review, history>>

-----------------------------------------------------------------------------

\* The process dies: every request under way ends where it is.
Crash ==
    /\ crashes < MaxCrashes
    /\ crashes' = crashes + 1
    /\ up' = [u \in Upload |-> IF up[u] \in {"new", "refused"} THEN up[u] ELSE "done"]
    /\ removal' = [u \in Upload |-> "none"]
    /\ change' = [c \in Change |-> IF change[c].step = "new" THEN change[c]
                                   ELSE [change[c] EXCEPT !.step = "done"]]
    /\ review' = [a \in Moderator |-> NoReview]
    /\ purge' = IF account THEN NoPurge ELSE purge
    /\ faulted' = TRUE
    /\ UNCHANGED <<rows, objects, temp, scanned>>

UploadStep(u) ==
    \/ Receive(u) \/ Refuse(u) \/ CreateRow(u) \/ StartScan(u) \/ PassScan(u)
    \/ Store(u) \/ StoreUnanswered(u) \/ Finalise(u)
    \/ Fail(u) \/ Undo(u) \/ MarkRejected(u) \/ CleanUp(u)

Next ==
    \/ \E u \in Upload : UploadStep(u)
    \/ \E a \in Moderator, u \in Upload, to \in {"READY", "REJECTED"} : Review(a, u, to)
    \/ \E a \in Moderator : Decide(a)
    \/ \E u \in Upload : (ReadToDelete(u) \/ DeleteObject(u) \/ DeleteRow(u))
    \/ \E c \in Change, to \in {"object", "null"} : BeginChange(c, to)
    \/ \E c \in Change : (StoreAvatar(c) \/ SwapAvatar(c) \/ DeleteOldAvatar(c) \/ FailChange(c))
    \/ StartPurge \/ EndPurge
    \/ \E k \in Upload \cup Change : PurgeObject(k)
    \/ Crash

Spec == Init /\ [][Next]_vars

-----------------------------------------------------------------------------
(* Properties *)

\* An image the site shows comes from a file that passed the scan: whatever the
\* moderator decides and whenever the update lands, findById finds a READY row
\* with a key only for a scanned file.
PublicMeansScanned ==
    \A u \in Upload : photo[u].status = "READY" /\ photo[u].key # None => u \in scanned

\* While the account lives and no call to S3 failed half-way, the object of a
\* photo is either that of its row or about to be taken back by its upload.
NoOrphanPhoto ==
    account /\ ~faulted =>
        \A u \in objects \cap Upload : photo[u].key = u \/ up[u] \in {"stored", "undoing"}

\* A row never names an object that is gone, but while a deletion that removes
\* the row next is under way: findById and getOwnAvatar always have a file to
\* stream.
NoDanglingKey ==
    ~faulted /\ purge.step = "idle" =>
        /\ \A u \in Upload : photo[u].key # None => u \in objects \/ removal[u] = "removed"
        /\ avatar # None => avatar \in objects

\* An upload that has answered, without a crash or a failed clean-up, left no
\* temporary file and no row in SCANNING, a status nothing leads out of.
FinishedUploadsAreTidy ==
    \A u \in Upload : up[u] = "done" /\ ~faulted =>
        u \notin temp /\ photo[u].status # "SCANNING"

\* Rows, objects and temporary files agree, whatever runs at the same time.
ImagesAreConsistent == NoOrphanPhoto /\ NoDanglingKey /\ FinishedUploadsAreTidy

\* Once the account is deleted, every request is over and no call failed, none
\* of the member's images is left in the bucket.
AccountDeletionErasesObjects ==
    /\ ~account /\ ~faulted
    /\ \A u \in Upload : up[u] \in {"new", "refused", "done"}
    /\ \A c \in Change : change[c].step \in {"new", "done"}
    => objects = {}

=============================================================================

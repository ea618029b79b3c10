------------------------------ MODULE Commons ------------------------------
(* The photos taken from Wikimedia Commons: syncCommonsPhotos of
   services/importers/wikimedia, run by the worker and, by hand, by
   scripts/import-commons-photos.ts, and the deletion of an aerodrome by an
   administrator (aerodrome.service.ts).  A photo is a row and two objects in
   the bucket, a copy and a thumbnail; the row of an older import has only the
   first.  Importers work from the rows as they were when they began.
   An object is <<n, "copy">> or <<n, "thumb">>, n counting the uploads since
   keys are fresh; a row keeps its id when it is updated. *)
EXTENDS Naturals, FiniteSets

CONSTANTS Site,       \* aerodromes
          Image,      \* sha1 of the files on Commons
          Importing,  \* the worker and the script
          MaxUploads  \* bound: uploads

ASSUME CommonsAssumption == MaxUploads \in Nat

VARIABLES onCommons,  \* what Commons offers for each aerodrome: an image, or none we may use
          sites,      \* aerodromes in the database
          photo,      \* commons_photos
          bucket,     \* objects under commons/
          uploads,    \* keys drawn
          imp,        \* the imports under way
          deletion,   \* the deletion of an aerodrome under way
          alone       \* history: nothing has failed, and nothing overlapped

commonsVars == <<onCommons, sites, photo, bucket, uploads, imp, deletion, alone>>

NoImage == "no image"
NoPhoto == [id |-> 0, image |-> NoImage, keys |-> {}]
Quiet == [pc |-> "idle", site |-> CHOOSE s \in Site : TRUE, todo |-> {}, old |-> [s \in Site |-> NoPhoto],
          verdict |-> [s \in Site |-> NoImage], key |-> 0]
NoDeletion == [pc |-> "idle", site |-> CHOOSE s \in Site : TRUE, keys |-> {}]
Thumbs(n) == {<<n, "copy">>, <<n, "thumb">>}
Legacy == [id |-> 1, image |-> CHOOSE v \in Image : TRUE, keys |-> {<<1, "copy">>}]

CommonsInit ==
  /\ onCommons \in [Site -> Image \cup {NoImage}]
  /\ sites = Site
  /\ \E s \in Site : photo = [[t \in Site |-> NoPhoto] EXCEPT ![s] = Legacy]
  /\ bucket = Legacy.keys
  /\ uploads = 1
  /\ imp = [i \in Importing |-> Quiet]
  /\ deletion = NoDeletion /\ alone = TRUE

Idle == (\A i \in Importing : imp[i].pc = "idle") /\ deletion.pc = "idle"

(* The file is replaced, appears, or loses its licence. *)
CommonsChanges ==
  /\ Idle
  /\ \E s \in Site, v \in Image \cup {NoImage} : onCommons' = [onCommons EXCEPT ![s] = v]
  /\ UNCHANGED <<sites, photo, bucket, uploads, imp, deletion, alone>>

(* The aerodromes and their rows are read, then Wikidata and Commons. *)
BeginImport(i) ==
  /\ imp[i].pc = "idle"
  /\ imp' = [imp EXCEPT ![i] = [Quiet EXCEPT !.pc = "next", !.todo = sites, !.old = photo, !.verdict = onCommons]]
  /\ alone' = (alone /\ Idle)
  /\ UNCHANGED <<onCommons, sites, photo, bucket, uploads, deletion>>

Decision(i, s) ==
  LET old == imp[i].old[s]
      image == imp[i].verdict[s]
      complete == \E n \in 1 .. uploads : old.keys = Thumbs(n)
  IN IF image = NoImage THEN IF old = NoPhoto THEN "next" ELSE "remove"
     ELSE IF old.image = image /\ complete THEN "next"
     ELSE "copy"

(* The next aerodrome; an unchanged photo needs no download. *)
Decide(i, s) ==
  /\ imp[i].pc = "next" /\ s \in imp[i].todo
  /\ imp' = [imp EXCEPT ![i].pc = Decision(i, s), ![i].site = s, ![i].todo = @ \ {s}]
  /\ UNCHANGED <<onCommons, sites, photo, bucket, uploads, deletion, alone>>

EndImport(i) ==
  /\ imp[i].pc = "next" /\ imp[i].todo = {}
  /\ imp' = [imp EXCEPT ![i] = Quiet]
  /\ UNCHANGED <<onCommons, sites, photo, bucket, uploads, deletion, alone>>

StoreCopy(i) ==
  /\ imp[i].pc = "copy" /\ uploads < MaxUploads
  /\ uploads' = uploads + 1
  /\ bucket' = bucket \cup {<<uploads', "copy">>}
  /\ imp' = [imp EXCEPT ![i].pc = "thumb", ![i].key = uploads']
  /\ UNCHANGED <<onCommons, sites, photo, deletion, alone>>

(* Mutant: the objects of the photo before are deleted first. *)
StoreThumbForOld(i) ==
  /\ imp[i].pc = "thumb"
  /\ bucket' = (bucket \cup Thumbs(imp[i].key)) \ imp[i].old[imp[i].site].keys
  /\ imp' = [imp EXCEPT ![i].pc = "upsert"]
  /\ UNCHANGED <<onCommons, sites, photo, uploads, deletion, alone>>

StoreThumb(i) ==
  /\ imp[i].pc = "thumb"
  /\ bucket' = bucket \cup Thumbs(imp[i].key)
  /\ imp' = [imp EXCEPT ![i].pc = "upsert"]
  /\ UNCHANGED <<onCommons, sites, photo, uploads, deletion, alone>>

(* The upsert by aerodrome; the foreign key refuses one that is gone. *)
Upsert(i) ==
  LET s == imp[i].site
  IN /\ imp[i].pc = "upsert" /\ s \in sites
     /\ photo' = [photo EXCEPT ![s] = [id |-> IF @ = NoPhoto THEN imp[i].key ELSE @.id,
                                       image |-> imp[i].verdict[s], keys |-> Thumbs(imp[i].key)]]
     /\ imp' = [imp EXCEPT ![i].pc = IF imp[i].old[s] = NoPhoto THEN "next" ELSE "drop"]
     /\ UNCHANGED <<onCommons, sites, bucket, uploads, deletion, alone>>

(* The row of a photo that no longer qualifies, by the id that was read. *)
RemoveRow(i) ==
  LET s == imp[i].site
  IN /\ imp[i].pc = "remove" /\ photo[s] # NoPhoto /\ photo[s].id = imp[i].old[s].id
     /\ photo' = [photo EXCEPT ![s] = NoPhoto]
     /\ imp' = [imp EXCEPT ![i].pc = "drop"]
     /\ UNCHANGED <<onCommons, sites, bucket, uploads, deletion, alone>>

(* The objects the row named when the import began. *)
DropOld(i) ==
  /\ imp[i].pc = "drop"
  /\ bucket' = bucket \ imp[i].old[imp[i].site].keys
  /\ imp' = [imp EXCEPT ![i].pc = "next"]
  /\ UNCHANGED <<onCommons, sites, photo, uploads, deletion, alone>>

(* A call fails: the error is noted and the next aerodrome has its turn.  Of two
   objects to delete the first may be gone by then. *)
SkipSite(i) ==
  /\ imp[i].pc \notin {"idle", "next"}
  /\ bucket' \in IF imp[i].pc = "drop"
                 THEN {bucket, bucket \ {o \in imp[i].old[imp[i].site].keys : o[2] = "copy"}} ELSE {bucket}
  /\ imp' = [imp EXCEPT ![i].pc = "next"]
  /\ alone' = FALSE
  /\ UNCHANGED <<onCommons, sites, photo, uploads, deletion>>

DieImporting(i) ==
  /\ imp[i].pc # "idle"
  /\ imp' = [imp EXCEPT ![i] = Quiet]
  /\ alone' = FALSE
  /\ UNCHANGED <<onCommons, sites, photo, bucket, uploads, deletion>>

(* AerodromeService.delete: keys, row and its cascade, objects. *)
ReadKeys(s) ==
  /\ deletion.pc = "idle" /\ s \in sites
  /\ deletion' = [pc |-> "row", site |-> s, keys |-> photo[s].keys]
  /\ alone' = (alone /\ Idle)
  /\ UNCHANGED <<onCommons, sites, photo, bucket, uploads, imp>>

DeleteSite ==
  /\ deletion.pc = "row"
  /\ sites' = sites \ {deletion.site}
  /\ photo' = [photo EXCEPT ![deletion.site] = NoPhoto]
  /\ deletion' = [deletion EXCEPT !.pc = "objects"]
  /\ UNCHANGED <<onCommons, bucket, uploads, imp, alone>>

DeleteObjects ==
  /\ deletion.pc = "objects"
  /\ bucket' = bucket \ deletion.keys
  /\ deletion' = NoDeletion
  /\ UNCHANGED <<onCommons, sites, photo, uploads, imp, alone>>

(* A request that fails; one whose objects resist only logs it. *)
FailDeletion ==
  /\ deletion.pc # "idle"
  /\ \E gone \in IF deletion.pc = "objects" THEN SUBSET deletion.keys ELSE {{}} : bucket' = bucket \ gone
  /\ deletion' = NoDeletion /\ alone' = FALSE
  /\ UNCHANGED <<onCommons, sites, photo, uploads, imp>>

CommonsNext ==
  \/ CommonsChanges
  \/ \E i \in Importing :
       (BeginImport(i) \/ EndImport(i) \/ StoreCopy(i) \/ StoreThumb(i) \/ Upsert(i)
          \/ RemoveRow(i) \/ DropOld(i) \/ SkipSite(i) \/ DieImporting(i))
  \/ \E i \in Importing, s \in Site : Decide(i, s)
  \/ \E s \in Site : ReadKeys(s)
  \/ DeleteSite
  \/ DeleteObjects
  \/ FailDeletion

CommonsSpec == CommonsInit /\ [][CommonsNext]_commonsVars

-----------------------------------------------------------------------------
(* No page credits a photo that is not in the bucket, whatever two imports and
   the deletion of an aerodrome do at once and wherever they stop (the order of
   upload, upsert and delete in syncCommonsPhotos and AerodromeService.delete). *)
CreditedPhotosExist == \A s \in Site : photo[s].keys \subseteq bucket

(* And the bucket holds nothing else once all is quiet, unless a call failed,
   an import died or two of these handlers overlapped. *)
NoForgottenCopies == Idle /\ alone => bucket = UNION {photo[s].keys : s \in Site}

(* What is credited exists, and what exists is credited. *)
PhotosAndRowsAgree == CreditedPhotosExist /\ NoForgottenCopies

=============================================================================

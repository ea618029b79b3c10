----------------------------- MODULE DataProofs -----------------------------
(***************************************************************************)
(* The data taken over from elsewhere, for any number of imports at once:  *)
(* the photos made of Commons' files (Commons), the flags written from an  *)
(* OSM import, however often one fails or dies (OsmSync), the lines of     *)
(* that import, in batches of any size (OsmImport), the links between      *)
(* OurAirports' lines and aerodromes, which rest on there being a least    *)
(* number in every set of them (Matching), the age of what the cache       *)
(* answers (Cache), and the tables replaced by what a source lists         *)
(* (Rebuild).  What is taken from openAIP is in FlightProofs.              *)
(***************************************************************************)
EXTENDS Commons, OsmImport, Matching, Cache, Rebuild, FiniteSetTheorems, WellFoundedInduction, TLAPS

-----------------------------------------------------------------------------
(* Commons *)

Object == (Nat \ {0}) \X {"copy", "thumb"}

AnyImage == CHOOSE v \in Image : TRUE
AnySite == CHOOSE s \in Site : TRUE

Photo == [id : Nat, image : Image \cup {NoImage, AnyImage}, keys : SUBSET Object]

Working == [pc : {"idle", "next", "copy", "thumb", "upsert", "remove", "drop"},
            site : Site \cup {AnySite}, todo : SUBSET Site, old : [Site -> Photo],
            verdict : [Site -> Image \cup {NoImage}], key : Nat]

Deletion == [pc : {"idle", "row", "objects"}, site : Site \cup {AnySite}, keys : SUBSET Object]

CommonsTypeOK ==
  /\ onCommons \in [Site -> Image \cup {NoImage}]
  /\ sites \subseteq Site
  /\ photo \in [Site -> Photo]
  /\ bucket \subseteq Object
  /\ uploads \in Nat
  /\ imp \in [Importing -> Working]
  /\ \A i \in Importing : imp[i].pc \notin {"idle", "next"} => imp[i].site \in Site
  /\ deletion \in Deletion
  /\ deletion.pc # "idle" => deletion.site \in Site
  /\ alone \in BOOLEAN

Pending(i) == imp[i].pc \in {"thumb", "upsert"}

Old(i, s) == imp[i].old[s].keys

\* Keys are drawn once.
KeysAreDrawn ==
  /\ \A s \in Site : \A o \in photo[s].keys : o[1] <= uploads
  /\ \A i \in Importing, s \in Site : \A o \in Old(i, s) : o[1] <= uploads
  /\ \A o \in deletion.keys : o[1] <= uploads
  /\ \A i \in Importing : Pending(i) => imp[i].key <= uploads /\ imp[i].key > 0

\* The objects of a photo to come are in the bucket, and known to nobody else.
PendingInv ==
  \A i \in Importing : Pending(i) =>
    /\ \A s \in Site : \A o \in photo[s].keys : o[1] # imp[i].key
    /\ \A j \in Importing, s \in Site : \A o \in Old(j, s) : o[1] # imp[i].key
    /\ \A o \in deletion.keys : o[1] # imp[i].key
    /\ \A j \in Importing \ {i} : Pending(j) => imp[j].key # imp[i].key
    /\ <<imp[i].key, "copy">> \in bucket
    /\ imp[i].pc = "upsert" => <<imp[i].key, "thumb">> \in bucket

\* An object belongs to one aerodrome, and what is about to go has left its row.
OwnersInv ==
  /\ \A s, t \in Site : s # t => photo[s].keys \cap photo[t].keys = {}
  /\ \A i \in Importing : \A s, t \in Site : s # t => Old(i, s) \cap photo[t].keys = {}
  /\ \A i \in Importing : imp[i].pc = "drop" => Old(i, imp[i].site) \cap photo[imp[i].site].keys = {}
  /\ deletion.pc # "idle" => \A t \in Site \ {deletion.site} : deletion.keys \cap photo[t].keys = {}
  /\ deletion.pc = "objects" => deletion.site \notin sites
  /\ \A s \in Site \ sites : photo[s].keys = {}

RowKeys == UNION {photo[s].keys : s \in Site}

\* An import that nobody has disturbed knows the rows it has yet to see to as they are,
\* and the bucket holds besides the rows only what is in its hands.
Undisturbed(i) ==
  /\ \A s \in imp[i].todo : imp[i].old[s] = photo[s]
  /\ imp[i].pc \in {"copy", "thumb", "upsert", "remove"} =>
       imp[i].old[imp[i].site] = photo[imp[i].site] /\ imp[i].site \notin imp[i].todo
  /\ imp[i].pc \in {"next", "copy", "remove"} => bucket = RowKeys
  /\ imp[i].pc = "thumb" => bucket = RowKeys \cup {<<imp[i].key, "copy">>}
  /\ imp[i].pc = "upsert" => bucket = RowKeys \cup Thumbs(imp[i].key)
  /\ imp[i].pc = "drop" => bucket = RowKeys \cup Old(i, imp[i].site)

\* While nothing has failed and nothing has overlapped.
LoneInv ==
  alone =>
    /\ Idle => bucket = RowKeys
    /\ \A i \in Importing : imp[i].pc # "idle" =>
         /\ deletion.pc = "idle"
         /\ \A j \in Importing \ {i} : imp[j].pc = "idle"
         /\ Undisturbed(i)
    /\ deletion.pc = "row" => deletion.keys = photo[deletion.site].keys /\ bucket = RowKeys
    /\ deletion.pc = "objects" => bucket = RowKeys \cup deletion.keys

CommonsInv == CommonsTypeOK /\ KeysAreDrawn /\ PendingInv /\ OwnersInv /\ CreditedPhotosExist /\ LoneInv

\* An importer makes a step, the others keep still.
KeptApart(i) == \A j \in Importing \ {i} : imp'[j] = imp[j]

\* It keeps what it read.
Remembers(i) == /\ imp'[i].old = imp[i].old /\ imp'[i].site = imp[i].site
                /\ imp'[i].todo = imp[i].todo

LEMMA PhotosTyped ==
  /\ NoPhoto \in Photo /\ NoPhoto.keys = {}
  /\ Quiet \in Working /\ Quiet.pc = "idle" /\ Quiet.todo = {}
  /\ \A s \in Site : Quiet.old[s] = NoPhoto
  /\ NoDeletion \in Deletion /\ NoDeletion.pc = "idle" /\ NoDeletion.keys = {}
  /\ Legacy \in Photo /\ Legacy.keys = {<<1, "copy">>} /\ Legacy.keys \subseteq Object
<1>1. NoPhoto \in Photo /\ NoPhoto.keys = {}
  BY DEF NoPhoto, Photo
<1>2. /\ Quiet \in Working /\ Quiet.pc = "idle" /\ Quiet.todo = {}
      /\ \A s \in Site : Quiet.old[s] = NoPhoto
  BY <1>1 DEF Quiet, Working, AnySite
<1>3. NoDeletion \in Deletion /\ NoDeletion.pc = "idle" /\ NoDeletion.keys = {}
  BY DEF NoDeletion, Deletion, AnySite
<1>4. Legacy \in Photo /\ Legacy.keys = {<<1, "copy">>} /\ Legacy.keys \subseteq Object
  BY DEF Legacy, Photo, AnyImage, Object
<1> QED
  BY <1>1, <1>2, <1>3, <1>4

\* What each step of an import does to its own record.
LEMMA ImportersMove ==
  ASSUME CommonsTypeOK, NEW i \in Importing
  PROVE
  /\ BeginImport(i) =>
       /\ KeptApart(i) /\ imp'[i].pc = "next" /\ imp'[i].todo = sites /\ imp'[i].old = photo
       /\ imp' \in [Importing -> Working]
  /\ \A s \in Site : Decide(i, s) =>
       /\ KeptApart(i) /\ imp'[i].pc \in {"next", "remove", "copy"} /\ imp'[i].site = s
       /\ s \in imp[i].todo /\ imp'[i].todo = imp[i].todo \ {s} /\ imp'[i].old = imp[i].old
       /\ imp' \in [Importing -> Working]
  /\ EndImport(i) \/ DieImporting(i) => KeptApart(i) /\ imp'[i] = Quiet /\ imp' \in [Importing -> Working]
  /\ StoreCopy(i) =>
       /\ KeptApart(i) /\ Remembers(i) /\ imp'[i].pc = "thumb" /\ imp'[i].key = uploads + 1
       /\ imp' \in [Importing -> Working] /\ uploads + 1 \in Nat
  /\ StoreThumb(i) =>
       /\ KeptApart(i) /\ Remembers(i) /\ imp'[i].pc = "upsert" /\ imp'[i].key = imp[i].key
       /\ imp' \in [Importing -> Working]
  /\ Upsert(i) =>
       /\ KeptApart(i) /\ Remembers(i)
       /\ imp'[i].pc = IF imp[i].old[imp[i].site] = NoPhoto THEN "next" ELSE "drop"
       /\ imp' \in [Importing -> Working]
  /\ RemoveRow(i) => KeptApart(i) /\ Remembers(i) /\ imp'[i].pc = "drop" /\ imp' \in [Importing -> Working]
  /\ DropOld(i) \/ SkipSite(i) => KeptApart(i) /\ Remembers(i) /\ imp'[i].pc = "next" /\ imp' \in [Importing -> Working]
<1> USE DEF CommonsTypeOK, KeptApart, Remembers
<1>1. ASSUME BeginImport(i)
      PROVE  /\ KeptApart(i) /\ imp'[i].pc = "next" /\ imp'[i].todo = sites /\ imp'[i].old = photo
             /\ imp' \in [Importing -> Working]
  BY <1>1, PhotosTyped DEF BeginImport, Working
<1>2. ASSUME NEW s \in Site, Decide(i, s)
      PROVE  /\ KeptApart(i) /\ imp'[i].pc \in {"next", "remove", "copy"} /\ imp'[i].site = s
             /\ s \in imp[i].todo /\ imp'[i].todo = imp[i].todo \ {s} /\ imp'[i].old = imp[i].old
             /\ imp' \in [Importing -> Working]
  <2>1. Decision(i, s) \in {"next", "remove", "copy"}
    BY DEF Decision
  <2> QED
    BY <1>2, <2>1 DEF Decide, Working
<1>3. ASSUME EndImport(i) \/ DieImporting(i) PROVE KeptApart(i) /\ imp'[i] = Quiet /\ imp' \in [Importing -> Working]
  BY <1>3, PhotosTyped DEF EndImport, DieImporting
<1>4. ASSUME StoreCopy(i)
      PROVE  /\ KeptApart(i) /\ Remembers(i) /\ imp'[i].pc = "thumb" /\ imp'[i].key = uploads + 1
             /\ imp' \in [Importing -> Working] /\ uploads + 1 \in Nat
  <2>1. uploads' = uploads + 1 /\ uploads + 1 \in Nat
    BY <1>4 DEF StoreCopy
  <2>2. imp' = [imp EXCEPT ![i].pc = "thumb", ![i].key = uploads + 1]
    BY <1>4, <2>1 DEF StoreCopy
  <2> QED
    BY <2>1, <2>2 DEF Working
<1>5. ASSUME StoreThumb(i)
      PROVE  /\ KeptApart(i) /\ Remembers(i) /\ imp'[i].pc = "upsert" /\ imp'[i].key = imp[i].key
             /\ imp' \in [Importing -> Working]
  BY <1>5 DEF StoreThumb, Working
<1>6. ASSUME Upsert(i)
      PROVE  /\ KeptApart(i) /\ Remembers(i)
             /\ imp'[i].pc = IF imp[i].old[imp[i].site] = NoPhoto THEN "next" ELSE "drop"
             /\ imp' \in [Importing -> Working]
  <2> DEFINE to == IF imp[i].old[imp[i].site] = NoPhoto THEN "next" ELSE "drop"
  <2>1. imp' = [imp EXCEPT ![i].pc = to] /\ to \in {"next", "drop"}
    BY <1>6 DEF Upsert
  <2>2. KeptApart(i) /\ Remembers(i) /\ imp'[i].pc = to /\ imp' \in [Importing -> Working]
    <3> DEFINE r == [imp[i] EXCEPT !.pc = to]
    <3> HIDE DEF to
    <3>1. /\ r \in Working /\ r.pc = to /\ r.old = imp[i].old /\ r.site = imp[i].site
          /\ r.todo = imp[i].todo
      BY <2>1 DEF Working
    <3>2. imp' = [imp EXCEPT ![i] = r]
      BY <2>1
    <3> HIDE DEF r
    <3> QED
      BY <3>1, <3>2
  <2> QED
    BY <2>2
<1>7. ASSUME RemoveRow(i)
      PROVE  KeptApart(i) /\ Remembers(i) /\ imp'[i].pc = "drop" /\ imp' \in [Importing -> Working]
  BY <1>7 DEF RemoveRow, Working
<1>8. ASSUME DropOld(i) \/ SkipSite(i)
      PROVE  KeptApart(i) /\ Remembers(i) /\ imp'[i].pc = "next" /\ imp' \in [Importing -> Working]
  <2>1. imp' = [imp EXCEPT ![i].pc = "next"]
    BY <1>8 DEF DropOld, SkipSite
  <2> QED
    BY <2>1 DEF Working
<1> HIDE DEF KeptApart, Remembers, CommonsTypeOK
<1> QED
  BY <1>1, <1>2, <1>3, <1>4, <1>5, <1>6, <1>7, <1>8


LEMMA CommonsTypesKept ==
  CommonsTypeOK /\ KeysAreDrawn /\ [CommonsNext]_commonsVars => CommonsTypeOK'
<1> SUFFICES ASSUME CommonsTypeOK, KeysAreDrawn, [CommonsNext]_commonsVars PROVE CommonsTypeOK'
  OBVIOUS
<1> USE DEF CommonsTypeOK
<1>a. ASSUME NEW i \in Importing, KeptApart(i), imp' \in [Importing -> Working],
             imp'[i].pc \notin {"idle", "next"} => imp'[i].site \in Site
      PROVE  \A j \in Importing : imp'[j].pc \notin {"idle", "next"} => imp'[j].site \in Site
  BY <1>a DEF KeptApart
<1>b. \A n \in Nat \ {0} : Thumbs(n) \subseteq Object
  BY DEF Thumbs, Object
<1>1. CASE CommonsChanges
  BY <1>1 DEF CommonsChanges
<1>2. ASSUME NEW i \in Importing, BeginImport(i) PROVE CommonsTypeOK'
  <2>1. imp' \in [Importing -> Working] /\ KeptApart(i) /\ imp'[i].pc = "next"
    BY <1>2, ImportersMove
  <2>2. alone' \in BOOLEAN
    BY <1>2 DEF BeginImport
  <2> QED
    BY <1>2, <1>a, <2>1, <2>2 DEF BeginImport
<1>3. ASSUME NEW i \in Importing, NEW s \in Site, Decide(i, s) PROVE CommonsTypeOK'
  <2>1. imp' \in [Importing -> Working] /\ KeptApart(i) /\ imp'[i].site = s
    BY <1>3, ImportersMove
  <2> QED
    BY <1>3, <1>a, <2>1 DEF Decide
<1>4. ASSUME NEW i \in Importing, EndImport(i) PROVE CommonsTypeOK'
  <2>1. imp' \in [Importing -> Working] /\ KeptApart(i) /\ imp'[i].pc = "idle"
    BY <1>4, ImportersMove, PhotosTyped
  <2> QED
    BY <1>4, <1>a, <2>1 DEF EndImport
<1>5. ASSUME NEW i \in Importing, StoreCopy(i) PROVE CommonsTypeOK'
  <2>1. imp' \in [Importing -> Working] /\ KeptApart(i) /\ Remembers(i) /\ uploads + 1 \in Nat
    BY <1>5, ImportersMove
  <2>2. /\ uploads' = uploads + 1 /\ imp[i].pc = "copy" /\ bucket' = bucket \cup {<<uploads', "copy">>}
        /\ UNCHANGED <<onCommons, sites, photo, deletion, alone>>
    BY <1>5 DEF StoreCopy
  <2>3. <<uploads', "copy">> \in Object
    BY <2>1, <2>2 DEF Object
  <2> QED
    BY <1>a, <2>1, <2>2, <2>3 DEF Remembers
<1>6. ASSUME NEW i \in Importing, StoreThumb(i) PROVE CommonsTypeOK'
  <2>1. imp' \in [Importing -> Working] /\ KeptApart(i) /\ Remembers(i)
    BY <1>6, ImportersMove
  <2>2. /\ imp[i].pc = "thumb" /\ bucket' = bucket \cup Thumbs(imp[i].key)
        /\ UNCHANGED <<onCommons, sites, photo, uploads, deletion, alone>>
    BY <1>6 DEF StoreThumb
  <2>3. imp[i].key \in Nat \ {0}
    BY <2>2 DEF KeysAreDrawn, Pending, Working
  <2> QED
    BY <1>a, <1>b, <2>1, <2>2, <2>3 DEF Remembers
<1>7. ASSUME NEW i \in Importing, Upsert(i) PROVE CommonsTypeOK'
  <2> DEFINE s == imp[i].site
             p == [id |-> IF photo[s] = NoPhoto THEN imp[i].key ELSE photo[s].id,
                   image |-> imp[i].verdict[s], keys |-> Thumbs(imp[i].key)]
  <2>1. imp' \in [Importing -> Working] /\ KeptApart(i) /\ Remembers(i)
    BY <1>7, ImportersMove
  <2>2. /\ imp[i].pc = "upsert" /\ photo' = [photo EXCEPT ![s] = p] /\ s \in Site
        /\ UNCHANGED <<onCommons, sites, bucket, uploads, deletion, alone>>
    BY <1>7 DEF Upsert
  <2>3. imp[i].key \in Nat \ {0}
    BY <2>2 DEF KeysAreDrawn, Pending, Working
  <2>4. imp[i].verdict[s] \in Image \cup {NoImage} /\ photo[s].id \in Nat
    BY <2>2 DEF Working, Photo
  <2>5. p \in Photo
    BY <1>b, <2>3, <2>4 DEF Photo
  <2> HIDE DEF p
  <2>6. photo' \in [Site -> Photo]
    BY <2>2, <2>5
  <2>7. imp'[i].site \in Site
    BY <2>1, <2>2 DEF Remembers
  <2> QED
    BY <1>a, <2>1, <2>2, <2>6, <2>7
<1>8. ASSUME NEW i \in Importing, RemoveRow(i) PROVE CommonsTypeOK'
  <2>1. imp' \in [Importing -> Working] /\ KeptApart(i) /\ Remembers(i)
    BY <1>8, ImportersMove
  <2>2. photo' \in [Site -> Photo] /\ imp'[i].site \in Site
    BY <1>8, <2>1, PhotosTyped DEF RemoveRow, Remembers
  <2> QED
    BY <1>8, <1>a, <2>1, <2>2 DEF RemoveRow
<1>9. ASSUME NEW i \in Importing, DropOld(i) PROVE CommonsTypeOK'
  <2>1. imp' \in [Importing -> Working] /\ KeptApart(i) /\ imp'[i].pc = "next"
    BY <1>9, ImportersMove
  <2> QED
    BY <1>9, <1>a, <2>1 DEF DropOld
<1>10. ASSUME NEW i \in Importing, SkipSite(i) PROVE CommonsTypeOK'
  <2>1. imp' \in [Importing -> Working] /\ KeptApart(i) /\ imp'[i].pc = "next"
    BY <1>10, ImportersMove
  <2>2. bucket' \subseteq Object
    BY <1>10 DEF SkipSite
  <2> QED
    BY <1>10, <1>a, <2>1, <2>2 DEF SkipSite
<1>11. ASSUME NEW i \in Importing, DieImporting(i) PROVE CommonsTypeOK'
  <2>1. imp' \in [Importing -> Working] /\ KeptApart(i) /\ imp'[i].pc = "idle"
    BY <1>11, ImportersMove, PhotosTyped
  <2> QED
    BY <1>11, <1>a, <2>1 DEF DieImporting
<1>12. ASSUME NEW s \in Site, ReadKeys(s) PROVE CommonsTypeOK'
  <2>1. deletion' \in Deletion /\ deletion'.site = s /\ alone' \in BOOLEAN
    BY <1>12 DEF ReadKeys, Deletion, Photo
  <2> QED
    BY <1>12, <2>1 DEF ReadKeys
<1>13. CASE DeleteSite
  <2>1. deletion' \in Deletion /\ deletion'.site = deletion.site /\ deletion.site \in Site
    BY <1>13 DEF DeleteSite, Deletion
  <2>2. photo' \in [Site -> Photo]
    BY <1>13, PhotosTyped DEF DeleteSite
  <2> QED
    BY <1>13, <2>1, <2>2 DEF DeleteSite
<1>14. CASE DeleteObjects
  BY <1>14, PhotosTyped DEF DeleteObjects
<1>15. CASE FailDeletion
  BY <1>15, PhotosTyped DEF FailDeletion
<1>16. CASE UNCHANGED commonsVars
  BY <1>16 DEF commonsVars
<1> QED
  BY <1>1, <1>2, <1>3, <1>4, <1>5, <1>6, <1>7, <1>8, <1>9, <1>10, <1>11, <1>12, <1>13, <1>14, <1>15, <1>16
     DEF CommonsNext

\* Every number in a row, in the memory of a handler or in its hands has been drawn.
LEMMA KeysKept ==
  CommonsTypeOK /\ KeysAreDrawn /\ [CommonsNext]_commonsVars => KeysAreDrawn'
<1> SUFFICES ASSUME CommonsTypeOK, KeysAreDrawn, [CommonsNext]_commonsVars PROVE KeysAreDrawn'
  OBVIOUS
<1> USE DEF Old, Pending
<1>0. /\ uploads \in Nat
      /\ \A s \in Site : \A o \in photo[s].keys : o[1] \in Nat /\ o[1] <= uploads
      /\ \A i \in Importing, s \in Site : \A o \in Old(i, s) : o[1] \in Nat /\ o[1] <= uploads
      /\ \A o \in deletion.keys : o[1] \in Nat /\ o[1] <= uploads
      /\ \A i \in Importing : Pending(i) => imp[i].key \in Nat /\ imp[i].key <= uploads /\ imp[i].key > 0
  BY DEF CommonsTypeOK, KeysAreDrawn, Photo, Working, Deletion, Object
<1>a. ASSUME UNCHANGED <<photo, deletion, uploads>>,
             NEW i \in Importing, KeptApart(i), imp'[i].old = imp[i].old,
             imp'[i].pc \in {"thumb", "upsert"} => Pending(i) /\ imp'[i].key = imp[i].key
      PROVE  KeysAreDrawn'
  BY <1>0, <1>a DEF KeysAreDrawn, KeptApart
<1>b. ASSUME UNCHANGED <<photo, deletion, uploads>>,
             NEW i \in Importing, KeptApart(i), \A s \in Site : imp'[i].old[s].keys = {},
             imp'[i].pc = "idle"
      PROVE  KeysAreDrawn'
  BY <1>0, <1>b DEF KeysAreDrawn, KeptApart
<1>1. CASE CommonsChanges
  BY <1>1 DEF CommonsChanges, KeysAreDrawn
<1>2. ASSUME NEW i \in Importing, BeginImport(i) PROVE KeysAreDrawn'
  <2>1. KeptApart(i) /\ imp'[i].pc = "next" /\ imp'[i].old = photo
    BY <1>2, ImportersMove
  <2> QED
    BY <1>0, <1>2, <2>1 DEF BeginImport, KeysAreDrawn, KeptApart
<1>3. ASSUME NEW i \in Importing, NEW s \in Site, Decide(i, s) PROVE KeysAreDrawn'
  <2>1. KeptApart(i) /\ imp'[i].pc \in {"next", "remove", "copy"} /\ imp'[i].old = imp[i].old
    BY <1>3, ImportersMove
  <2> QED
    BY <1>3, <1>a, <2>1 DEF Decide
<1>4. ASSUME NEW i \in Importing, EndImport(i) \/ DieImporting(i) PROVE KeysAreDrawn'
  <2>1. KeptApart(i) /\ imp'[i].pc = "idle" /\ \A s \in Site : imp'[i].old[s].keys = {}
    BY <1>4, ImportersMove, PhotosTyped
  <2> QED
    BY <1>4, <1>b, <2>1 DEF EndImport, DieImporting
<1>5. ASSUME NEW i \in Importing, StoreCopy(i) PROVE KeysAreDrawn'
  <2>1. KeptApart(i) /\ Remembers(i) /\ imp'[i].key = uploads + 1
    BY <1>5, ImportersMove
  <2>2. uploads' = uploads + 1 /\ UNCHANGED <<photo, deletion>>
    BY <1>5 DEF StoreCopy
  <2> QED
    BY <1>0, <2>1, <2>2 DEF KeysAreDrawn, KeptApart, Remembers
<1>6. ASSUME NEW i \in Importing, StoreThumb(i) PROVE KeysAreDrawn'
  <2>1. KeptApart(i) /\ Remembers(i) /\ imp'[i].key = imp[i].key
    BY <1>6, ImportersMove
  <2> QED
    BY <1>6, <1>a, <2>1 DEF StoreThumb, Remembers
<1>7. ASSUME NEW i \in Importing, Upsert(i) PROVE KeysAreDrawn'
  <2>1. KeptApart(i) /\ Remembers(i) /\ imp'[i].pc \in {"next", "drop"}
    BY <1>7, ImportersMove
  <2>2. /\ imp[i].pc = "upsert" /\ UNCHANGED <<deletion, uploads>>
        /\ \A s \in Site : photo'[s] = photo[s] \/ photo'[s].keys = Thumbs(imp[i].key)
    BY <1>7 DEF Upsert, CommonsTypeOK
  <2>3. \A o \in Thumbs(imp[i].key) : o[1] <= uploads
    BY <1>0, <2>2 DEF Thumbs
  <2> QED
    BY <1>0, <2>1, <2>2, <2>3 DEF KeysAreDrawn, KeptApart, Remembers
<1>8. ASSUME NEW i \in Importing, RemoveRow(i) PROVE KeysAreDrawn'
  <2>1. KeptApart(i) /\ Remembers(i) /\ imp'[i].pc = "drop"
    BY <1>8, ImportersMove
  <2>2. /\ UNCHANGED <<deletion, uploads>>
        /\ \A s \in Site : photo'[s] = photo[s] \/ photo'[s].keys = {}
    BY <1>8, PhotosTyped DEF RemoveRow, CommonsTypeOK
  <2> QED
    BY <1>0, <2>1, <2>2 DEF KeysAreDrawn, KeptApart, Remembers
<1>9. ASSUME NEW i \in Importing, DropOld(i) \/ SkipSite(i) PROVE KeysAreDrawn'
  <2>1. KeptApart(i) /\ Remembers(i) /\ imp'[i].pc = "next"
    BY <1>9, ImportersMove
  <2> QED
    BY <1>9, <1>a, <2>1 DEF DropOld, SkipSite, Remembers
<1>10. ASSUME NEW s \in Site, ReadKeys(s) PROVE KeysAreDrawn'
  BY <1>0, <1>10 DEF ReadKeys, KeysAreDrawn
<1>11. CASE DeleteSite
  <2>1. /\ deletion'.keys = deletion.keys /\ UNCHANGED <<imp, uploads>>
        /\ \A s \in Site : photo'[s] = photo[s] \/ photo'[s].keys = {}
    BY <1>11, PhotosTyped DEF DeleteSite, CommonsTypeOK, Deletion
  <2> QED
    BY <1>0, <2>1 DEF KeysAreDrawn
<1>12. CASE DeleteObjects \/ FailDeletion
  BY <1>0, <1>12, PhotosTyped DEF DeleteObjects, FailDeletion, KeysAreDrawn
<1>13. CASE UNCHANGED commonsVars
  BY <1>0, <1>13 DEF commonsVars, KeysAreDrawn
<1> QED
  BY <1>1, <1>2, <1>3, <1>4, <1>5, <1>6, <1>7, <1>8, <1>9, <1>10, <1>11, <1>12, <1>13 DEF CommonsNext

\* Nobody else comes to know the objects of a photo that is not in a row yet.
LEMMA PendingKept ==
  CommonsTypeOK /\ KeysAreDrawn /\ PendingInv /\ [CommonsNext]_commonsVars => PendingInv'
<1> SUFFICES ASSUME CommonsTypeOK, KeysAreDrawn, PendingInv, [CommonsNext]_commonsVars,
                    NEW k \in Importing, Pending(k)'
             PROVE  /\ \A s \in Site : \A o \in photo'[s].keys : o[1] # imp'[k].key
                    /\ \A j \in Importing, s \in Site : \A o \in Old(j, s)' : o[1] # imp'[k].key
                    /\ \A o \in deletion'.keys : o[1] # imp'[k].key
                    /\ \A j \in Importing \ {k} : Pending(j)' => imp'[j].key # imp'[k].key
                    /\ <<imp'[k].key, "copy">> \in bucket'
                    /\ imp'[k].pc = "upsert" => <<imp'[k].key, "thumb">> \in bucket'
  BY DEF PendingInv
<1> DEFINE Secret == /\ \A s \in Site : \A o \in photo'[s].keys : o[1] # imp'[k].key
                     /\ \A j \in Importing, s \in Site : \A o \in Old(j, s)' : o[1] # imp'[k].key
                     /\ \A o \in deletion'.keys : o[1] # imp'[k].key
                     /\ \A j \in Importing \ {k} : Pending(j)' => imp'[j].key # imp'[k].key
                     /\ <<imp'[k].key, "copy">> \in bucket'
                     /\ imp'[k].pc = "upsert" => <<imp'[k].key, "thumb">> \in bucket'
<1> USE DEF Old, Pending
<1>0. /\ uploads \in Nat
      /\ \A s \in Site : \A o \in photo[s].keys : o[1] \in Nat /\ o[1] <= uploads
      /\ \A i \in Importing, s \in Site : \A o \in Old(i, s) : o[1] \in Nat /\ o[1] <= uploads
      /\ \A o \in deletion.keys : o[1] \in Nat /\ o[1] <= uploads
      /\ \A i \in Importing : Pending(i) => imp[i].key \in Nat /\ imp[i].key <= uploads /\ imp[i].key > 0
  BY DEF CommonsTypeOK, KeysAreDrawn, Photo, Working, Deletion, Object
<1>1. Pending(k) =>
      /\ \A s \in Site : \A o \in photo[s].keys : o[1] # imp[k].key
      /\ \A j \in Importing, s \in Site : \A o \in Old(j, s) : o[1] # imp[k].key
      /\ \A o \in deletion.keys : o[1] # imp[k].key
      /\ \A j \in Importing \ {k} : Pending(j) => imp[j].key # imp[k].key
      /\ <<imp[k].key, "copy">> \in bucket
      /\ imp[k].pc = "upsert" => <<imp[k].key, "thumb">> \in bucket
  BY DEF PendingInv
<1>a. ASSUME NEW i \in Importing, KeptApart(i), imp'[i].pc \notin {"thumb", "upsert"},
             imp'[i].old \in {imp[i].old, photo, Quiet.old},
             \A s \in Site : \A o \in photo'[s].keys : o \in photo[s].keys \/ (Pending(i) /\ o[1] = imp[i].key),
             UNCHANGED deletion,
             \A o \in bucket \ bucket' : \E s \in Site : o \in Old(i, s)
      PROVE  Secret
  <2>1. k # i /\ imp'[k] = imp[k] /\ Pending(k)
    BY <1>a DEF KeptApart
  <2>2. \A s \in Site : \A o \in photo'[s].keys : o[1] # imp[k].key
    BY <1>1, <1>a, <2>1
  <2>3. \A s \in Site : \A o \in Old(i, s)' : o[1] # imp[k].key
    BY <1>1, <1>a, <2>1, PhotosTyped
  <2>4. \A j \in Importing, s \in Site : \A o \in Old(j, s)' : o[1] # imp[k].key
    BY <1>1, <1>a, <2>1, <2>3 DEF KeptApart
  <2>5. \A j \in Importing \ {k} : Pending(j)' => imp'[j].key # imp[k].key
    BY <1>1, <1>a, <2>1 DEF KeptApart
  <2>6. \A o \in bucket : o[1] = imp[k].key => o \in bucket'
    BY <1>1, <1>a, <2>1
  <2> QED
    BY <1>1, <1>a, <2>1, <2>2, <2>4, <2>5, <2>6
<1>b. ASSUME UNCHANGED <<imp, uploads>>,
             \A s \in Site : photo'[s].keys \subseteq photo[s].keys,
             \A o \in deletion'.keys : o \in deletion.keys \/ \E s \in Site : o \in photo[s].keys,
             bucket \ bucket' \subseteq deletion.keys
      PROVE  Secret
  <2>1. \A o \in bucket : o[1] = imp[k].key => o \in bucket'
    BY <1>1, <1>b
  <2> QED
    BY <1>1, <1>b, <2>1
<1>2. CASE CommonsChanges
  BY <1>2, <1>b DEF CommonsChanges
<1>3. ASSUME NEW i \in Importing, BeginImport(i) PROVE Secret
  <2>1. KeptApart(i) /\ imp'[i].pc = "next" /\ imp'[i].old = photo
    BY <1>3, ImportersMove
  <2> QED
    BY <1>3, <1>a, <2>1 DEF BeginImport
<1>4. ASSUME NEW i \in Importing, NEW s \in Site, Decide(i, s) PROVE Secret
  <2>1. KeptApart(i) /\ imp'[i].pc \in {"next", "remove", "copy"} /\ imp'[i].old = imp[i].old
    BY <1>4, ImportersMove
  <2> QED
    BY <1>4, <1>a, <2>1 DEF Decide
<1>5. ASSUME NEW i \in Importing, EndImport(i) \/ DieImporting(i) PROVE Secret
  <2>1. KeptApart(i) /\ imp'[i].pc = "idle" /\ imp'[i].old = Quiet.old
    BY <1>5, ImportersMove, PhotosTyped
  <2> QED
    BY <1>5, <1>a, <2>1 DEF EndImport, DieImporting
<1>6. ASSUME NEW i \in Importing, StoreCopy(i) PROVE Secret
  <2>1. KeptApart(i) /\ Remembers(i) /\ imp'[i].key = uploads + 1 /\ imp'[i].pc = "thumb"
    BY <1>6, ImportersMove
  <2>2. /\ uploads' = uploads + 1 /\ UNCHANGED <<photo, deletion>>
        /\ bucket' = bucket \cup {<<uploads + 1, "copy">>}
    BY <1>6 DEF StoreCopy
  <2>3. \A j \in Importing, s \in Site : Old(j, s)' = Old(j, s)
    BY <2>1 DEF KeptApart, Remembers
  <2>4. CASE k = i
    BY <1>0, <2>1, <2>2, <2>3, <2>4 DEF KeptApart
  <2>5. CASE k # i
    BY <1>0, <1>1, <2>1, <2>2, <2>3, <2>5 DEF KeptApart
  <2> QED
    BY <2>4, <2>5
<1>7. ASSUME NEW i \in Importing, StoreThumb(i) PROVE Secret
  <2>1. KeptApart(i) /\ Remembers(i) /\ imp'[i].key = imp[i].key /\ imp'[i].pc = "upsert"
    BY <1>7, ImportersMove
  <2>2. /\ imp[i].pc = "thumb" /\ UNCHANGED <<photo, deletion, uploads>>
        /\ bucket' = bucket \cup Thumbs(imp[i].key)
    BY <1>7 DEF StoreThumb
  <2>3. \A j \in Importing, s \in Site : Old(j, s)' = Old(j, s)
    BY <2>1 DEF KeptApart, Remembers
  <2>4. \A j \in Importing : imp'[j].key = imp[j].key /\ (Pending(j)' <=> Pending(j))
    BY <2>1, <2>2 DEF KeptApart
  <2>5. imp'[k].pc = "upsert" => <<imp[k].key, "thumb">> \in bucket'
    BY <1>1, <2>1, <2>2 DEF KeptApart, Thumbs
  <2> QED
    BY <1>1, <2>2, <2>3, <2>4, <2>5
<1>8. ASSUME NEW i \in Importing, Upsert(i) PROVE Secret
  <2>1. KeptApart(i) /\ Remembers(i) /\ imp'[i].pc \in {"next", "drop"}
    BY <1>8, ImportersMove
  <2>2. /\ imp[i].pc = "upsert" /\ UNCHANGED <<bucket, deletion, uploads>>
        /\ \A s \in Site : photo'[s] = photo[s] \/ photo'[s].keys = Thumbs(imp[i].key)
    BY <1>8 DEF Upsert, CommonsTypeOK
  <2>3. \A o \in Thumbs(imp[i].key) : o[1] = imp[i].key
    BY DEF Thumbs
  <2> QED
    BY <1>a, <2>1, <2>2, <2>3 DEF Remembers
<1>9. ASSUME NEW i \in Importing, RemoveRow(i) PROVE Secret
  <2>1. KeptApart(i) /\ Remembers(i) /\ imp'[i].pc = "drop"
    BY <1>9, ImportersMove
  <2>2. /\ UNCHANGED <<bucket, deletion, uploads>>
        /\ \A s \in Site : photo'[s] = photo[s] \/ photo'[s].keys = {}
    BY <1>9, PhotosTyped DEF RemoveRow, CommonsTypeOK
  <2> QED
    BY <1>a, <2>1, <2>2 DEF Remembers
<1>10. ASSUME NEW i \in Importing, DropOld(i) \/ SkipSite(i) PROVE Secret
  <2>1. KeptApart(i) /\ Remembers(i) /\ imp'[i].pc = "next"
    BY <1>10, ImportersMove
  <2>2. /\ UNCHANGED <<photo, deletion, uploads>>
        /\ bucket \ bucket' \subseteq Old(i, imp[i].site)
        /\ imp[i].site \in Site \/ bucket \subseteq bucket'
    BY <1>10 DEF DropOld, SkipSite, CommonsTypeOK
  <2> QED
    BY <1>a, <2>1, <2>2 DEF Remembers
<1>11. ASSUME NEW s \in Site, ReadKeys(s) PROVE Secret
  BY <1>11, <1>b DEF ReadKeys
<1>12. CASE DeleteSite
  <2>1. /\ deletion'.keys = deletion.keys /\ UNCHANGED <<imp, uploads, bucket>>
        /\ \A s \in Site : photo'[s] = photo[s] \/ photo'[s].keys = {}
    BY <1>12, PhotosTyped DEF DeleteSite, CommonsTypeOK, Deletion
  <2> QED
    BY <1>b, <2>1
<1>13. CASE DeleteObjects \/ FailDeletion
  <2>1. /\ deletion'.keys = {} /\ UNCHANGED <<imp, uploads, photo>>
        /\ bucket \ bucket' \subseteq deletion.keys
    BY <1>13, PhotosTyped DEF DeleteObjects, FailDeletion
  <2> QED
    BY <1>b, <2>1
<1>14. CASE UNCHANGED commonsVars
  BY <1>14, <1>b DEF commonsVars
<1> QED
  BY <1>2, <1>3, <1>4, <1>5, <1>6, <1>7, <1>8, <1>9, <1>10, <1>11, <1>12, <1>13, <1>14 DEF CommonsNext

\* An aerodrome's objects are in no other's row, nor those that go in any row.
LEMMA OwnersKept ==
  CommonsTypeOK /\ KeysAreDrawn /\ PendingInv /\ OwnersInv /\ [CommonsNext]_commonsVars => OwnersInv'
<1> SUFFICES ASSUME CommonsTypeOK, KeysAreDrawn, PendingInv, OwnersInv, [CommonsNext]_commonsVars
             PROVE  OwnersInv'
  OBVIOUS
<1> USE DEF Old
<1>0. /\ \A s, t \in Site : s # t => photo[s].keys \cap photo[t].keys = {}
      /\ \A i \in Importing : \A s, t \in Site : s # t => Old(i, s) \cap photo[t].keys = {}
      /\ \A i \in Importing : imp[i].pc = "drop" => Old(i, imp[i].site) \cap photo[imp[i].site].keys = {}
      /\ deletion.pc # "idle" => \A t \in Site \ {deletion.site} : deletion.keys \cap photo[t].keys = {}
      /\ deletion.pc = "objects" => deletion.site \notin sites
      /\ \A s \in Site \ sites : photo[s].keys = {}
  BY DEF OwnersInv
<1>a. ASSUME UNCHANGED <<photo, deletion, sites>>,
             NEW i \in Importing, KeptApart(i), imp'[i].old \in {imp[i].old, photo, Quiet.old},
             imp'[i].pc # "drop"
      PROVE  OwnersInv'
  <2>1. \A s, t \in Site : s # t => Old(i, s)' \cap photo[t].keys = {}
    BY <1>0, <1>a, PhotosTyped
  <2>2. \A j \in Importing : \A s, t \in Site : s # t => Old(j, s)' \cap photo'[t].keys = {}
    BY <1>0, <1>a, <2>1 DEF KeptApart
  <2>3. \A j \in Importing :
          imp'[j].pc = "drop" => Old(j, imp[j].site)' \cap photo'[imp'[j].site].keys = {}
    BY <1>0, <1>a DEF KeptApart
  <2> QED
    BY <1>0, <1>a, <2>2, <2>3 DEF OwnersInv
<1>1. CASE CommonsChanges
  BY <1>0, <1>1 DEF CommonsChanges, OwnersInv
<1>2. ASSUME NEW i \in Importing, BeginImport(i) PROVE OwnersInv'
  <2>1. KeptApart(i) /\ imp'[i].pc = "next" /\ imp'[i].old = photo
    BY <1>2, ImportersMove
  <2> QED
    BY <1>2, <1>a, <2>1 DEF BeginImport
<1>3. ASSUME NEW i \in Importing, NEW s \in Site, Decide(i, s) PROVE OwnersInv'
  <2>1. KeptApart(i) /\ imp'[i].pc \in {"next", "remove", "copy"} /\ imp'[i].old = imp[i].old
    BY <1>3, ImportersMove
  <2> QED
    BY <1>3, <1>a, <2>1 DEF Decide
<1>4. ASSUME NEW i \in Importing, EndImport(i) \/ DieImporting(i) PROVE OwnersInv'
  <2>1. KeptApart(i) /\ imp'[i].pc = "idle" /\ imp'[i].old = Quiet.old
    BY <1>4, ImportersMove, PhotosTyped
  <2> QED
    BY <1>4, <1>a, <2>1 DEF EndImport, DieImporting
<1>5. ASSUME NEW i \in Importing, StoreCopy(i) \/ StoreThumb(i) PROVE OwnersInv'
  <2>1. KeptApart(i) /\ Remembers(i) /\ imp'[i].pc \in {"thumb", "upsert"}
    BY <1>5, ImportersMove
  <2> QED
    BY <1>5, <1>a, <2>1 DEF StoreCopy, StoreThumb, Remembers
<1>6. ASSUME NEW i \in Importing, Upsert(i) PROVE OwnersInv'
  <2> DEFINE s == imp[i].site
             K == Thumbs(imp[i].key)
  <2>1. KeptApart(i) /\ Remembers(i)
    BY <1>6, ImportersMove
  <2>2. /\ imp[i].pc = "upsert" /\ UNCHANGED <<bucket, deletion, uploads, sites>> /\ s \in sites
        /\ photo'[s].keys = K /\ \A t \in Site \ {s} : photo'[t] = photo[t]
    BY <1>6 DEF Upsert, CommonsTypeOK
  <2>3. \A o \in K : o[1] = imp[i].key
    BY DEF Thumbs
  <2>a. /\ \A t \in Site : \A o \in photo[t].keys : o[1] # imp[i].key
        /\ \A j \in Importing, t \in Site : \A o \in Old(j, t) : o[1] # imp[i].key
        /\ \A o \in deletion.keys : o[1] # imp[i].key
    BY <2>2 DEF PendingInv, Pending
  <2>4. /\ \A t \in Site : K \cap photo[t].keys = {}
        /\ \A j \in Importing, t \in Site : K \cap Old(j, t) = {}
        /\ K \cap deletion.keys = {}
    <3> HIDE DEF K
    <3> QED
      BY <2>3, <2>a
  <2>5. \A j \in Importing, t \in Site : Old(j, t)' = Old(j, t)
    BY <2>1 DEF KeptApart, Remembers
  <2>6. s \in Site /\ deletion.pc \in {"idle", "row", "objects"}
        /\ \A j \in Importing : imp'[j].pc = "drop" => imp'[j].site \in Site
    BY <2>1, <2>2 DEF CommonsTypeOK, KeptApart, Remembers, Deletion
  <2> HIDE DEF s, K
  <2>7. \A t, u \in Site : t # u => photo'[t].keys \cap photo'[u].keys = {}
    BY <1>0, <2>2, <2>4
  <2>8. \A j \in Importing : \A t, u \in Site : t # u => Old(j, t)' \cap photo'[u].keys = {}
    BY <1>0, <2>2, <2>4, <2>5
  <2>9. \A j \in Importing : imp'[j].pc = "drop" => Old(j, imp[j].site)' \cap photo'[imp'[j].site].keys = {}
    <3> SUFFICES ASSUME NEW j \in Importing, imp'[j].pc = "drop"
                 PROVE  Old(j, imp[j].site)' \cap photo'[imp'[j].site].keys = {}
      OBVIOUS
    <3>1. Old(j, imp[j].site)' = imp[j].old[imp'[j].site].keys
      BY <2>5, <2>6
    <3>2. CASE imp'[j].site = s
      BY <2>2, <2>4, <2>6, <3>1, <3>2
    <3>3. CASE imp'[j].site # s
      <4>1. j # i
        BY <2>1, <3>3 DEF Remembers, s
      <4> QED
        BY <1>0, <2>1, <2>2, <2>6, <3>1, <3>3, <4>1 DEF KeptApart
    <3> QED
      BY <3>2, <3>3
  <2>10. deletion'.pc # "idle" => \A t \in Site \ {deletion'.site} : deletion'.keys \cap photo'[t].keys = {}
    BY <1>0, <2>2, <2>4
  <2> QED
    BY <1>0, <2>2, <2>6, <2>7, <2>8, <2>9, <2>10 DEF OwnersInv
<1>b. ASSUME \A t \in Site : photo'[t] = photo[t] \/ photo'[t].keys = {},
             deletion' = deletion, sites' = sites,
             NEW i \in Importing, KeptApart(i), Remembers(i),
             imp[i].pc # "drop" => photo'[imp[i].site].keys = {}
      PROVE  OwnersInv'
  <2>1. \A j \in Importing, t \in Site : Old(j, t)' = Old(j, t)
    BY <1>b DEF KeptApart, Remembers
  <2>2. \A j \in Importing : imp'[j].site = imp[j].site
    BY <1>b DEF KeptApart, Remembers
  <2>3. \A j \in Importing : imp'[j].pc = "drop" /\ imp[j].pc # "drop" => j = i
    BY <1>b DEF KeptApart
  <2>4. \A j \in Importing : imp'[j].pc = "drop" => Old(j, imp[j].site)' \cap photo'[imp'[j].site].keys = {}
    <3> SUFFICES ASSUME NEW j \in Importing, imp'[j].pc = "drop"
                 PROVE  Old(j, imp[j].site)' \cap photo'[imp'[j].site].keys = {}
      OBVIOUS
    <3>1. CASE imp[j].pc = "drop"
      BY <1>0, <1>b, <2>2, <3>1 DEF CommonsTypeOK, KeptApart, Remembers
    <3>2. CASE imp[j].pc # "drop"
      BY <1>b, <2>2, <2>3, <3>2
    <3> QED
      BY <3>1, <3>2
  <2> QED
    BY <1>0, <1>b, <2>1, <2>4 DEF OwnersInv
<1>7. ASSUME NEW i \in Importing, RemoveRow(i) PROVE OwnersInv'
  <2>1. KeptApart(i) /\ Remembers(i)
    BY <1>7, ImportersMove
  <2>2. /\ UNCHANGED <<deletion, sites>> /\ photo'[imp[i].site].keys = {}
        /\ \A t \in Site : photo'[t] = photo[t] \/ photo'[t].keys = {}
    BY <1>7, PhotosTyped DEF RemoveRow, CommonsTypeOK
  <2> QED
    BY <1>b, <2>1, <2>2
<1>8. ASSUME NEW i \in Importing, DropOld(i) \/ SkipSite(i) PROVE OwnersInv'
  <2>1. KeptApart(i) /\ Remembers(i) /\ imp'[i].pc = "next"
    BY <1>8, ImportersMove
  <2> QED
    BY <1>8, <1>a, <2>1 DEF DropOld, SkipSite, Remembers
<1>9. ASSUME NEW s \in Site, ReadKeys(s) PROVE OwnersInv'
  <2>1. /\ UNCHANGED <<photo, imp, sites>> /\ deletion' = [pc |-> "row", site |-> s, keys |-> photo[s].keys]
    BY <1>9 DEF ReadKeys
  <2>2. \A t \in Site \ {s} : photo[s].keys \cap photo[t].keys = {}
    BY <1>0
  <2> QED
    BY <1>0, <2>1, <2>2 DEF OwnersInv
<1>10. CASE DeleteSite
  <2>1. /\ deletion'.keys = deletion.keys /\ deletion'.site = deletion.site
        /\ deletion'.pc = "objects" /\ deletion.pc = "row" /\ deletion.site \in Site
        /\ UNCHANGED <<imp, uploads, bucket>> /\ sites' = sites \ {deletion.site}
        /\ photo'[deletion.site].keys = {} /\ \A t \in Site \ {deletion.site} : photo'[t] = photo[t]
    BY <1>10, PhotosTyped DEF DeleteSite, CommonsTypeOK, Deletion
  <2>2. \A t \in Site : photo'[t] = photo[t] \/ photo'[t].keys = {}
    BY <2>1
  <2>3. \A j \in Importing : imp'[j].pc = "drop" => Old(j, imp[j].site)' \cap photo'[imp'[j].site].keys = {}
    BY <1>0, <2>1, <2>2 DEF CommonsTypeOK
  <2>4. \A t \in Site \ {deletion'.site} : deletion'.keys \cap photo'[t].keys = {}
    BY <1>0, <2>1
  <2>5. /\ \A s, t \in Site : s # t => photo'[s].keys \cap photo'[t].keys = {}
        /\ \A i \in Importing : \A s, t \in Site : s # t => Old(i, s)' \cap photo'[t].keys = {}
    BY <1>0, <2>1, <2>2
  <2>6. \A s \in Site \ sites' : photo'[s].keys = {}
    BY <1>0, <2>1, <2>2
  <2> QED
    BY <2>1, <2>3, <2>4, <2>5, <2>6 DEF OwnersInv
<1>11. CASE DeleteObjects \/ FailDeletion
  <2>1. deletion'.pc = "idle" /\ UNCHANGED <<imp, photo, sites>>
    BY <1>11, PhotosTyped DEF DeleteObjects, FailDeletion
  <2> QED
    BY <1>0, <2>1 DEF OwnersInv
<1>12. CASE UNCHANGED commonsVars
  BY <1>0, <1>12 DEF commonsVars, OwnersInv
<1> QED
  BY <1>1, <1>2, <1>3, <1>4, <1>5, <1>6, <1>7, <1>8, <1>9, <1>10, <1>11, <1>12 DEF CommonsNext

\* What goes out of the bucket is in no row, what comes into a row is in the bucket.
LEMMA CreditedKept ==
  CommonsTypeOK /\ PendingInv /\ OwnersInv /\ CreditedPhotosExist /\ [CommonsNext]_commonsVars
    => CreditedPhotosExist'
<1> SUFFICES ASSUME CommonsTypeOK, PendingInv, OwnersInv, CreditedPhotosExist,
                    [CommonsNext]_commonsVars
             PROVE  CreditedPhotosExist'
  OBVIOUS
<1>0. \A s \in Site : photo[s].keys \subseteq bucket
  BY DEF CreditedPhotosExist
<1>a. ASSUME \A s \in Site : photo'[s].keys \subseteq photo[s].keys,
             \A s \in Site : (bucket \ bucket') \cap photo'[s].keys = {}
      PROVE  CreditedPhotosExist'
  BY <1>0, <1>a DEF CreditedPhotosExist
<1>1. ASSUME NEW i \in Importing, Upsert(i) PROVE CreditedPhotosExist'
  <2>1. /\ imp[i].pc = "upsert" /\ UNCHANGED bucket
        /\ \A t \in Site : photo'[t] = photo[t] \/ photo'[t].keys = Thumbs(imp[i].key)
    BY <1>1 DEF Upsert, CommonsTypeOK
  <2>2. Thumbs(imp[i].key) \subseteq bucket
    BY <2>1 DEF PendingInv, Pending, Thumbs
  <2> QED
    BY <1>0, <2>1, <2>2 DEF CreditedPhotosExist
<1>2. ASSUME NEW i \in Importing, RemoveRow(i) PROVE CreditedPhotosExist'
  <2>1. \A t \in Site : photo'[t] = photo[t] \/ photo'[t].keys = {}
    BY <1>2, PhotosTyped DEF RemoveRow, CommonsTypeOK
  <2> QED
    BY <1>2, <1>a, <2>1 DEF RemoveRow
<1>3. ASSUME NEW i \in Importing, DropOld(i) \/ SkipSite(i) PROVE CreditedPhotosExist'
  <2>1. UNCHANGED photo /\ bucket \ bucket' \subseteq Old(i, imp[i].site)
        /\ (bucket \subseteq bucket' \/ imp[i].pc = "drop")
    BY <1>3 DEF DropOld, SkipSite, Old
  <2>2. imp[i].pc = "drop" => \A s \in Site : Old(i, imp[i].site) \cap photo[s].keys = {}
    BY DEF OwnersInv, CommonsTypeOK
  <2> QED
    BY <1>a, <2>1, <2>2
<1>4. CASE DeleteSite
  <2>1. UNCHANGED bucket /\ \A s \in Site : photo'[s] = photo[s] \/ photo'[s].keys = {}
    BY <1>4, PhotosTyped DEF DeleteSite, CommonsTypeOK
  <2> QED
    BY <1>a, <2>1
<1>5. CASE DeleteObjects \/ FailDeletion
  <2>1. UNCHANGED photo /\ bucket \ bucket' \subseteq deletion.keys
        /\ (bucket \subseteq bucket' \/ deletion.pc = "objects")
    BY <1>5 DEF DeleteObjects, FailDeletion
  <2>2. deletion.pc = "objects" => \A s \in Site : deletion.keys \cap photo[s].keys = {}
    BY DEF OwnersInv, CommonsTypeOK
  <2> QED
    BY <1>a, <2>1, <2>2
<1>6. ASSUME UNCHANGED photo, bucket \subseteq bucket' PROVE CreditedPhotosExist'
  BY <1>a, <1>6
<1> QED
  BY <1>1, <1>2, <1>3, <1>4, <1>5, <1>6 DEF CommonsNext, commonsVars, CommonsChanges, BeginImport,
     EndImport, StoreCopy, StoreThumb, DieImporting, Decide, ReadKeys

\* A handler alone leaves in the bucket what is in the rows.
LEMMA LoneKept ==
  CommonsTypeOK /\ PendingInv /\ OwnersInv /\ LoneInv /\ [CommonsNext]_commonsVars => LoneInv'
<1> SUFFICES ASSUME CommonsTypeOK, PendingInv, OwnersInv, LoneInv, [CommonsNext]_commonsVars, alone'
             PROVE  LoneInv'
  BY DEF LoneInv
<1> USE DEF Old
<1>r. /\ \A o : o \in RowKeys <=> \E s \in Site : o \in photo[s].keys
      /\ \A o : o \in RowKeys' <=> \E s \in Site : o \in photo'[s].keys
  BY DEF RowKeys
<1>i. ASSUME NEW i \in Importing, KeptApart(i), imp[i].pc # "idle", alone, UNCHANGED deletion,
             imp'[i].pc = "idle" => bucket' = RowKeys', imp'[i].pc # "idle" => Undisturbed(i)'
      PROVE  LoneInv'
  <2>1. deletion.pc = "idle" /\ \A j \in Importing \ {i} : imp'[j].pc = "idle"
    BY <1>i DEF LoneInv, KeptApart
  <2>2. Idle' => imp'[i].pc = "idle"
    BY DEF Idle
  <2> QED
    BY <1>i, <2>1, <2>2 DEF LoneInv
<1>o. ASSUME alone, NEW i \in Importing, imp[i].pc # "idle" PROVE Undisturbed(i)
  BY <1>o DEF LoneInv
<1>1. CASE CommonsChanges
  <2>1. bucket = RowKeys /\ RowKeys' = RowKeys /\ Idle
    BY <1>1, <1>r DEF CommonsChanges, LoneInv, RowKeys
  <2> QED
    BY <1>1, <2>1 DEF CommonsChanges, LoneInv, Idle
<1>2. ASSUME NEW i \in Importing, BeginImport(i) PROVE LoneInv'
  <2>1. KeptApart(i) /\ imp'[i].pc = "next" /\ imp'[i].old = photo
    BY <1>2, ImportersMove
  <2>2. alone /\ Idle /\ UNCHANGED <<photo, bucket, deletion>>
    BY <1>2 DEF BeginImport
  <2>3. bucket' = RowKeys' /\ deletion'.pc = "idle" /\ \A j \in Importing \ {i} : imp'[j].pc = "idle"
    BY <2>1, <2>2 DEF LoneInv, RowKeys, Idle, KeptApart
  <2>4. Undisturbed(i)'
    BY <2>1, <2>2, <2>3 DEF Undisturbed
  <2>5. ~Idle'
    BY <2>1 DEF Idle
  <2> QED
    BY <2>1, <2>3, <2>4, <2>5 DEF LoneInv
<1>3. ASSUME NEW i \in Importing, NEW s \in Site, Decide(i, s) PROVE LoneInv'
  <2>1. /\ KeptApart(i) /\ imp'[i].pc \in {"next", "remove", "copy"} /\ imp'[i].site = s
        /\ s \in imp[i].todo /\ imp'[i].todo = imp[i].todo \ {s} /\ imp'[i].old = imp[i].old
    BY <1>3, ImportersMove
  <2>2. alone /\ imp[i].pc = "next" /\ UNCHANGED <<photo, bucket, deletion>>
    BY <1>3 DEF Decide
  <2>3. RowKeys' = RowKeys
    BY <2>2 DEF RowKeys
  <2>4. Undisturbed(i)'
    BY <1>o, <2>1, <2>2, <2>3 DEF Undisturbed
  <2> QED
    BY <1>i, <2>1, <2>2, <2>4
<1>4. ASSUME NEW i \in Importing, EndImport(i) PROVE LoneInv'
  <2>1. KeptApart(i) /\ imp'[i].pc = "idle"
    BY <1>4, ImportersMove, PhotosTyped
  <2>2. alone /\ imp[i].pc = "next" /\ UNCHANGED <<photo, bucket, deletion>>
    BY <1>4 DEF EndImport
  <2>3. bucket' = RowKeys'
    BY <1>o, <2>2 DEF RowKeys, Undisturbed
  <2> QED
    BY <1>i, <2>1, <2>2, <2>3
<1>5. ASSUME NEW i \in Importing, StoreCopy(i) PROVE LoneInv'
  <2>1. KeptApart(i) /\ Remembers(i) /\ imp'[i].pc = "thumb" /\ imp'[i].key = uploads + 1
    BY <1>5, ImportersMove
  <2>2. /\ alone /\ imp[i].pc = "copy" /\ UNCHANGED <<photo, deletion>>
        /\ bucket' = bucket \cup {<<uploads + 1, "copy">>}
    BY <1>5 DEF StoreCopy
  <2>3. RowKeys' = RowKeys
    BY <2>2 DEF RowKeys
  <2>4. Undisturbed(i)'
    BY <1>o, <2>1, <2>2, <2>3 DEF Undisturbed, Remembers
  <2> QED
    BY <1>i, <2>1, <2>2, <2>4
<1>6. ASSUME NEW i \in Importing, StoreThumb(i) PROVE LoneInv'
  <2>1. KeptApart(i) /\ Remembers(i) /\ imp'[i].pc = "upsert" /\ imp'[i].key = imp[i].key
    BY <1>6, ImportersMove
  <2>2. /\ alone /\ imp[i].pc = "thumb" /\ UNCHANGED <<photo, deletion>>
        /\ bucket' = bucket \cup Thumbs(imp[i].key)
    BY <1>6 DEF StoreThumb
  <2>3. RowKeys' = RowKeys
    BY <2>2 DEF RowKeys
  <2>5. bucket' = RowKeys \cup Thumbs(imp[i].key)
    BY <1>o, <2>2 DEF Undisturbed, Thumbs
  <2>4. Undisturbed(i)'
    BY <1>o, <2>1, <2>2, <2>3, <2>5 DEF Undisturbed, Remembers
  <2> QED
    BY <1>i, <2>1, <2>2, <2>4
<1>7. ASSUME NEW i \in Importing, Upsert(i) PROVE LoneInv'
  <2> DEFINE s == imp[i].site
             K == Thumbs(imp[i].key)
             O == imp[i].old[s].keys
  <2>1. /\ KeptApart(i) /\ Remembers(i)
        /\ imp'[i].pc = IF imp[i].old[s] = NoPhoto THEN "next" ELSE "drop"
    BY <1>7, ImportersMove
  <2>2. /\ imp[i].pc = "upsert" /\ UNCHANGED <<bucket, deletion, alone>> /\ s \in Site
        /\ photo'[s].keys = K /\ \A t \in Site \ {s} : photo'[t] = photo[t]
    BY <1>7 DEF Upsert, CommonsTypeOK
  <2>3. /\ bucket = RowKeys \cup K /\ photo[s].keys = O /\ s \notin imp[i].todo
        /\ \A t \in imp[i].todo : imp[i].old[t] = photo[t]
    BY <1>o, <2>2 DEF Undisturbed
  <2>4. imp[i].todo \subseteq Site
    BY DEF CommonsTypeOK, Working
  <2> HIDE DEF K, O
  <2>5. bucket' = RowKeys' \cup O
    BY <1>r, <2>2, <2>3
  <2>6. imp[i].old[s] = NoPhoto => bucket' = RowKeys'
    BY <2>5, PhotosTyped DEF O
  <2>7. \A t \in imp'[i].todo : imp'[i].old[t] = photo'[t]
    BY <2>1, <2>2, <2>3, <2>4 DEF Remembers
  <2>8. Undisturbed(i)'
    BY <2>1, <2>5, <2>6, <2>7 DEF Undisturbed, Remembers, O
  <2> QED
    BY <1>i, <2>1, <2>2, <2>8
<1>8. ASSUME NEW i \in Importing, RemoveRow(i) PROVE LoneInv'
  <2> DEFINE s == imp[i].site
             O == imp[i].old[s].keys
  <2>1. KeptApart(i) /\ Remembers(i) /\ imp'[i].pc = "drop"
    BY <1>8, ImportersMove
  <2>2. /\ imp[i].pc = "remove" /\ UNCHANGED <<bucket, deletion, alone>> /\ s \in Site
        /\ photo'[s].keys = {} /\ \A t \in Site \ {s} : photo'[t] = photo[t]
    BY <1>8, PhotosTyped DEF RemoveRow, CommonsTypeOK
  <2>3. /\ bucket = RowKeys /\ photo[s].keys = O /\ s \notin imp[i].todo
        /\ \A t \in imp[i].todo : imp[i].old[t] = photo[t]
    BY <1>o, <2>2 DEF Undisturbed
  <2>4. imp[i].todo \subseteq Site
    BY DEF CommonsTypeOK, Working
  <2> HIDE DEF O
  <2>5. bucket' = RowKeys' \cup O
    BY <1>r, <2>2, <2>3
  <2>7. \A t \in imp'[i].todo : imp'[i].old[t] = photo'[t]
    BY <2>1, <2>2, <2>3, <2>4 DEF Remembers
  <2>8. Undisturbed(i)'
    BY <2>1, <2>5, <2>7 DEF Undisturbed, Remembers, O
  <2> QED
    BY <1>i, <2>1, <2>2, <2>8
<1>9. ASSUME NEW i \in Importing, DropOld(i) PROVE LoneInv'
  <2> DEFINE O == imp[i].old[imp[i].site].keys
  <2>1. KeptApart(i) /\ Remembers(i) /\ imp'[i].pc = "next"
    BY <1>9, ImportersMove
  <2>2. alone /\ imp[i].pc = "drop" /\ UNCHANGED <<photo, deletion>> /\ bucket' = bucket \ O
    BY <1>9 DEF DropOld
  <2>3. bucket = RowKeys \cup O
    BY <1>o, <2>2 DEF Undisturbed
  <2>4. \A t \in Site : O \cap photo[t].keys = {}
    BY <2>2 DEF OwnersInv, CommonsTypeOK
  <2>5. bucket' = RowKeys'
    BY <1>r, <2>2, <2>3, <2>4
  <2>6. Undisturbed(i)'
    BY <1>o, <2>1, <2>2, <2>5 DEF Undisturbed, Remembers
  <2> QED
    BY <1>i, <2>1, <2>2, <2>6
<1>10. ASSUME NEW s \in Site, ReadKeys(s) PROVE LoneInv'
  <2>1. alone /\ Idle /\ UNCHANGED <<photo, bucket, imp>>
        /\ deletion' = [pc |-> "row", site |-> s, keys |-> photo[s].keys]
    BY <1>10 DEF ReadKeys
  <2>2. bucket' = RowKeys'
    BY <2>1 DEF LoneInv, RowKeys
  <2> QED
    BY <2>1, <2>2 DEF LoneInv, Idle
<1>d. ASSUME alone, deletion.pc # "idle"
      PROVE  \A j \in Importing : imp[j].pc = "idle"
  BY <1>d DEF LoneInv
<1>11. CASE DeleteSite
  <2>1. /\ deletion'.keys = deletion.keys /\ deletion'.pc = "objects" /\ deletion.pc = "row"
        /\ deletion.site \in Site /\ UNCHANGED <<imp, bucket, alone>>
        /\ photo'[deletion.site].keys = {} /\ \A t \in Site \ {deletion.site} : photo'[t] = photo[t]
    BY <1>11, PhotosTyped DEF DeleteSite, CommonsTypeOK, Deletion
  <2>2. deletion.keys = photo[deletion.site].keys /\ bucket = RowKeys
    BY <2>1 DEF LoneInv
  <2>3. bucket' = RowKeys' \cup deletion'.keys
    BY <1>r, <2>1, <2>2
  <2> QED
    BY <1>d, <2>1, <2>3 DEF LoneInv, Idle
<1>12. CASE DeleteObjects
  <2>1. /\ deletion.pc = "objects" /\ deletion'.pc = "idle" /\ UNCHANGED <<imp, photo, alone>>
        /\ bucket' = bucket \ deletion.keys
    BY <1>12, PhotosTyped DEF DeleteObjects
  <2>2. bucket = RowKeys \cup deletion.keys
    BY <2>1 DEF LoneInv
  <2>3. \A t \in Site : deletion.keys \cap photo[t].keys = {}
    BY <2>1 DEF OwnersInv, CommonsTypeOK
  <2>4. bucket' = RowKeys'
    BY <1>r, <2>1, <2>2, <2>3
  <2> QED
    BY <1>d, <2>1, <2>4 DEF LoneInv
<1>13. CASE UNCHANGED commonsVars
  BY <1>13 DEF commonsVars, LoneInv, Undisturbed, RowKeys, Idle
<1> QED
  BY <1>1, <1>2, <1>3, <1>4, <1>5, <1>6, <1>7, <1>8, <1>9, <1>10, <1>11, <1>12, <1>13
     DEF CommonsNext, SkipSite, DieImporting, FailDeletion

LEMMA CommonsBegins == CommonsInit => CommonsInv
<1> SUFFICES ASSUME CommonsInit PROVE CommonsInv
  OBVIOUS
<1>0. /\ imp = [i \in Importing |-> Quiet] /\ deletion = NoDeletion /\ sites = Site /\ uploads = 1
      /\ bucket = {<<1, "copy">>} /\ onCommons \in [Site -> Image \cup {NoImage}] /\ alone
      /\ alone \in BOOLEAN
  BY PhotosTyped DEF CommonsInit
<1>1. PICK s \in Site : photo = [[t \in Site |-> NoPhoto] EXCEPT ![s] = Legacy]
  BY DEF CommonsInit
<1>2. photo \in [Site -> Photo] /\ photo[s].keys = {<<1, "copy">>}
      /\ \A t \in Site \ {s} : photo[t].keys = {}
  BY <1>1, PhotosTyped
<1>3. CommonsTypeOK
  BY <1>0, <1>2, PhotosTyped DEF CommonsTypeOK
<1>4. KeysAreDrawn /\ PendingInv
  BY <1>0, <1>2, PhotosTyped DEF KeysAreDrawn, PendingInv, Pending, Old
<1>5. OwnersInv
  BY <1>0, <1>2, PhotosTyped DEF OwnersInv, Old
<1>6. CreditedPhotosExist
  BY <1>0, <1>2 DEF CreditedPhotosExist
<1>7. bucket = RowKeys
  BY <1>0, <1>2 DEF RowKeys
<1>8. LoneInv
  BY <1>0, <1>7, PhotosTyped DEF LoneInv
<1> QED
  BY <1>3, <1>4, <1>5, <1>6, <1>8 DEF CommonsInv

\* No page credits a photo that is not in the bucket, whatever imports and deletions do
\* at once and wherever they stop; and the bucket holds nothing else, unless a call
\* failed or two handlers overlapped.
THEOREM WhatIsCreditedExists == CommonsSpec => []PhotosAndRowsAgree
<1>1. CommonsInv /\ [CommonsNext]_commonsVars => CommonsInv'
  BY CommonsTypesKept, KeysKept, PendingKept, OwnersKept, CreditedKept, LoneKept DEF CommonsInv
<1>2. CommonsInv => PhotosAndRowsAgree
  BY DEF CommonsInv, LoneInv, PhotosAndRowsAgree, NoForgottenCopies, RowKeys
<1> QED
  BY <1>1, <1>2, CommonsBegins, PTL DEF CommonsSpec

-----------------------------------------------------------------------------
(* The OSM run *)

Known == [how : {"absent", "empty", "cut", "whole"}, of : Nat, part : BOOLEAN]

OsmTypeOK ==
  /\ published \in Nat /\ attempt \in Nat
  /\ file \in [{"raw", "filtered", "export"} -> Known]
  /\ step \in [Key -> {"none", "RUNNING", "SUCCESS", "FAILED"}]
  /\ osmPc \in Key \cup {"idle", "retry"}
  /\ worked \in BOOLEAN
  /\ pois \in [Field -> Nat] /\ copy \in [Field -> Nat] /\ flags \in [Field -> Nat]
  /\ outcome \in {"none", "running", "SUCCESS", "FAILED"}

Succeeded(k) == step[k] = "SUCCESS"

\* One step runs at a time, after those before it have succeeded in this run.
StepsInv ==
  /\ \A k \in Key : step[k] = "RUNNING" => osmPc = k
  /\ worked => osmPc \in Key /\ step[osmPc] = "RUNNING"
  /\ osmPc = "filter" \/ Succeeded("filter") => Succeeded("download")
  /\ osmPc = "export" \/ Succeeded("export") => Succeeded("filter")
  /\ osmPc = "import" => Succeeded("export")

Ended(k) == Succeeded(k) \/ (osmPc = k /\ worked)

\* What a step of this run has made is finished, and tells of as much of the edition as
\* what it was made from.
FilesInv ==
  /\ ~file["raw"].part
  /\ Ended("filter") => /\ file["filtered"].how = "whole" /\ file["filtered"].of = file["raw"].of
                        /\ file["filtered"].part = (file["raw"].how = "cut")
  /\ Ended("export") => /\ file["export"].how = "whole" /\ file["export"].of = file["filtered"].of
                        /\ file["export"].part = file["filtered"].part

\* The rows of the query are those of the last import until the flags are written.
FlagsInv ==
  /\ step["sync_flags"] = "RUNNING" => copy = pois
  /\ osmPc = "sync_flags" /\ worked => flags = copy
  /\ outcome = "SUCCESS" => osmPc = "idle" /\ flags = pois

OsmInv == OsmTypeOK /\ StepsInv /\ FilesInv /\ FlagsInv

LEMMA OsmTypesKept == OsmTypeOK /\ [OsmNext]_osmVars => OsmTypeOK'
<1> SUFFICES ASSUME OsmTypeOK, [OsmNext]_osmVars PROVE OsmTypeOK'
  OBVIOUS
<1> USE DEF OsmTypeOK
<1>1. CASE Publish
  BY <1>1 DEF Publish, Run, Data
<1>2. CASE StartRun
  BY <1>2 DEF StartRun, Key, Data
<1>3. CASE Resume
  BY <1>3 DEF Resume, Key, Run, Data
<1>4. ASSUME NEW k \in Key, SkipStep(k) PROVE OsmTypeOK'
  BY <1>4 DEF SkipStep, WasSuccessful, Product, Following, Key, Run, Data
<1>5. ASSUME NEW k \in Key, StartStep(k) PROVE OsmTypeOK'
  BY <1>5 DEF StartStep, Run
<1>6. ASSUME NEW k \in Key, Osmium(k) PROVE OsmTypeOK'
  <2>1. k \in {"filter", "export"} /\ Input[k] \in {"raw", "filtered"} /\ Product[k] \in {"filtered", "export"}
    BY <1>6 DEF Osmium, Input, Product
  <2>2. [how |-> "whole", of |-> file[Input[k]].of, part |-> Partial(file[Input[k]])] \in Known
    BY <2>1 DEF Known, Partial
  <2> QED
    BY <1>6, <2>1, <2>2 DEF Osmium, Done, Run, Data
<1>7. ASSUME NEW k \in Key, CompleteStep(k) PROVE OsmTypeOK'
  <2>1. k # "sync_flags" => Following[k] \in Key
    BY DEF Following, Key
  <2>2. osmPc' \in Key \cup {"idle", "retry"} /\ outcome' \in {"none", "running", "SUCCESS", "FAILED"}
    BY <1>7, <2>1 DEF CompleteStep
  <2>3. step' \in [Key -> {"none", "RUNNING", "SUCCESS", "FAILED"}] /\ worked' = FALSE
        /\ UNCHANGED <<published, file, attempt, Data>>
    BY <1>7 DEF CompleteStep
  <2> QED
    BY <2>2, <2>3 DEF Data
<1>8. ASSUME NEW k \in Key, file' \in Leavings(k) PROVE file' \in [{"raw", "filtered", "export"} -> Known]
  <2>1. CASE k \notin DOMAIN Product \/ (k = "download" /\ file["raw"].how # "absent")
    BY <1>8, <2>1 DEF Leavings
  <2>2. CASE ~(k \notin DOMAIN Product \/ (k = "download" /\ file["raw"].how # "absent"))
    <3>1. k \in {"download", "filter", "export"} /\ Product[k] \in {"raw", "filtered", "export"}
      BY <2>2 DEF Product
    <3>2. \A h \in {"empty", "cut"} :
             [how |-> h, of |-> IF k = "download" THEN published ELSE file[Input[k]].of,
              part |-> k # "download" /\ Partial(file[Input[k]])] \in Known
      BY <3>1 DEF Known, Input, Partial
    <3> QED
      BY <1>8, <2>2, <3>1, <3>2 DEF Leavings
  <2> QED
    BY <2>1, <2>2
<1>9. ASSUME NEW k \in Key, FailStep(k) PROVE OsmTypeOK'
  <2>1. file' \in [{"raw", "filtered", "export"} -> Known]
    BY <1>9, <1>8 DEF FailStep
  <2>2. step' \in [Key -> {"none", "RUNNING", "SUCCESS", "FAILED"}]
    BY <1>9 DEF FailStep
  <2>3. osmPc' \in {"retry", "idle"} /\ attempt' \in Nat /\ worked' = FALSE
        /\ outcome' \in {outcome, "FAILED"} /\ UNCHANGED <<published, pois, copy, flags>>
    BY <1>9 DEF FailStep, Data
  <2> QED
    BY <2>1, <2>2, <2>3
<1>10. CASE Download
  <2>1. [how |-> "whole", of |-> published, part |-> FALSE] \in Known
    BY DEF Known
  <2> QED
    BY <1>10, <2>1 DEF Download, Done, Run, Data
<1>11. ASSUME NEW a \in Field, ImportPois(a) \/ WriteFlags(a) PROVE OsmTypeOK'
  <2>1. file["export"].of \in Nat
    BY DEF Known
  <2> QED
    BY <1>11, <2>1 DEF ImportPois, WriteFlags, Run
<1>12. CASE ImportEnds \/ FlagsEnd
  BY <1>12 DEF ImportEnds, FlagsEnd, Done, Run, Data
<1>13. CASE Die
  BY <1>13, <1>8 DEF Die, Run, Data
<1>14. CASE UNCHANGED osmVars
  BY <1>14 DEF osmVars
<1> QED
  BY <1>1, <1>2, <1>3, <1>4, <1>5, <1>6, <1>7, <1>9, <1>10, <1>11, <1>12, <1>13, <1>14 DEF OsmNext

LEMMA StepsKept == OsmTypeOK /\ StepsInv /\ [OsmNext]_osmVars => StepsInv'
<1> SUFFICES ASSUME OsmTypeOK, StepsInv, [OsmNext]_osmVars PROVE StepsInv'
  OBVIOUS
<1> USE DEF OsmTypeOK, StepsInv, Succeeded, Key
<1>1. CASE UNCHANGED <<step, osmPc, worked>>
  BY <1>1
<1>2. CASE StartRun
  BY <1>2 DEF StartRun
<1>3. CASE Resume
  BY <1>3 DEF Resume
<1>4. ASSUME NEW k \in Key, SkipStep(k) PROVE StepsInv'
  BY <1>4 DEF SkipStep, WasSuccessful, Product, Following
<1>5. ASSUME NEW k \in Key, StartStep(k) PROVE StepsInv'
  BY <1>5 DEF StartStep, WasSuccessful, Product
<1>6. ASSUME NEW k \in Key, At(k), Done PROVE StepsInv'
  BY <1>6 DEF At, Done
<1>7. ASSUME NEW k \in Key, CompleteStep(k) PROVE StepsInv'
  BY <1>7 DEF CompleteStep, Following
<1>8. ASSUME NEW k \in Key, FailStep(k) PROVE StepsInv'
  BY <1>8 DEF FailStep, At
<1>9. CASE Die
  BY <1>9 DEF Die
<1>10. Publish \/ (\E a \in Field : ImportPois(a) \/ WriteFlags(a)) \/ UNCHANGED osmVars
       => UNCHANGED <<step, osmPc, worked>>
  BY DEF Publish, ImportPois, WriteFlags, osmVars
<1>11. (\E k \in Key : Osmium(k)) \/ Download \/ ImportEnds \/ FlagsEnd => \E k \in Key : At(k) /\ Done
  BY DEF Osmium, Download, ImportEnds, FlagsEnd
<1> QED
  BY <1>1, <1>2, <1>3, <1>4, <1>5, <1>6, <1>7, <1>8, <1>9, <1>10, <1>11 DEF OsmNext

LEMMA FilesKept == OsmTypeOK /\ StepsInv /\ FilesInv /\ [OsmNext]_osmVars => FilesInv'
<1> SUFFICES ASSUME OsmTypeOK, StepsInv, FilesInv, [OsmNext]_osmVars PROVE FilesInv'
  OBVIOUS
<1> USE DEF StepsInv, FilesInv, Succeeded, Ended, Key
<1>0. /\ file \in [{"raw", "filtered", "export"} -> Known]
      /\ step \in [Key -> {"none", "RUNNING", "SUCCESS", "FAILED"}]
  BY DEF OsmTypeOK
<1>1. CASE UNCHANGED <<file, step, osmPc, worked>>
  BY <1>1
<1>2. CASE StartRun
  BY <1>2 DEF StartRun
<1>3. CASE Resume
  BY <1>3 DEF Resume
<1>4. ASSUME NEW k \in Key, SkipStep(k) PROVE FilesInv'
  BY <1>4 DEF SkipStep, WasSuccessful, Product, Following
<1>5. ASSUME NEW k \in Key, StartStep(k) PROVE FilesInv'
  BY <1>5, <1>0 DEF StartStep, WasSuccessful, Product
<1>6. ASSUME NEW k \in Key, Osmium(k) PROVE FilesInv'
  <2>1. CASE k = "filter"
    BY <1>6, <2>1, <1>0 DEF Osmium, At, Done, Input, Product, Partial, Known
  <2>2. CASE k = "export"
    BY <1>6, <2>2, <1>0 DEF Osmium, At, Done, Input, Product, Partial, Known
  <2> QED
    BY <1>6, <2>1, <2>2 DEF Osmium, Input
<1>7. ASSUME NEW k \in Key, CompleteStep(k) PROVE FilesInv'
  BY <1>7, <1>0 DEF CompleteStep, Following
<1>8. ASSUME NEW k \in Key, At(k), file' \in Leavings(k)
      PROVE  /\ ~file'["raw"].part
             /\ Succeeded("filter") => file'["filtered"] = file["filtered"] /\ file'["raw"] = file["raw"]
             /\ Succeeded("export") => file'["export"] = file["export"] /\ file'["filtered"] = file["filtered"]
  <2>1. CASE k \notin DOMAIN Product \/ (k = "download" /\ file["raw"].how # "absent")
    BY <1>8, <2>1 DEF Leavings
  <2>2. CASE ~(k \notin DOMAIN Product \/ (k = "download" /\ file["raw"].how # "absent"))
    <3> DEFINE v(h) == [how |-> h, of |-> IF k = "download" THEN published ELSE file[Input[k]].of,
                        part |-> k # "download" /\ Partial(file[Input[k]])]
    <3>1. \/ \E h \in {"empty", "cut"} : file' = [file EXCEPT ![Product[k]] = v(h)]
          \/ file' = file
      BY <1>8, <2>2 DEF Leavings
    <3>2. k \in {"download", "filter", "export"}
      BY <2>2 DEF Product
    <3>3. step[k] = "RUNNING"
      BY <1>8 DEF At
    <3>4. k = "download" => \A h : ~v(h).part
      OBVIOUS
    <3> HIDE DEF v
    <3>5. Product["download"] = "raw" /\ Product["filter"] = "filtered" /\ Product["export"] = "export"
      BY DEF Product
    <3> QED
      BY <3>1, <3>2, <3>3, <3>4, <3>5, <1>0
  <2> QED
    BY <2>1, <2>2
<1>9. ASSUME NEW k \in Key, FailStep(k) PROVE FilesInv'
  <2>1. /\ osmPc = k /\ osmPc' # k /\ worked' = FALSE
        /\ (At(k) /\ file' \in Leavings(k)) \/ file' = file
        /\ \A q \in Key : step'[q] = "SUCCESS" <=> step[q] = "SUCCESS"
        /\ osmPc' \in {"retry", "idle"}
    BY <1>9, <1>0 DEF FailStep
  <2>2. At(k) => ~worked /\ step[k] = "RUNNING"
    BY DEF At
  <2> QED
    BY <2>1, <2>2, <1>8, <1>0
<1>10. CASE Download
  BY <1>10, <1>0 DEF Download, At, Done
<1>11. CASE ImportEnds \/ FlagsEnd
  BY <1>11 DEF ImportEnds, FlagsEnd, At, Done
<1>12. CASE Die
  <2>1. /\ step' = [k \in Key |-> IF step[k] = "RUNNING" THEN "FAILED" ELSE step[k]]
        /\ osmPc' = "retry" /\ worked' = FALSE
        /\ file' \in IF At(osmPc) THEN Leavings(osmPc) ELSE {file}
        /\ osmPc \in Key
    BY <1>12 DEF Die
  <2>2. \A q \in Key : step'[q] = "SUCCESS" <=> step[q] = "SUCCESS"
    BY <2>1
  <2>3. CASE file' = file
    BY <2>1, <2>2, <2>3
  <2>4. CASE At(osmPc) /\ file' \in Leavings(osmPc)
    BY <2>1, <2>2, <2>4, <1>8
  <2> QED
    BY <2>1, <2>3, <2>4
<1>13. Publish \/ (\E a \in Field : ImportPois(a) \/ WriteFlags(a)) \/ UNCHANGED osmVars
       => UNCHANGED <<file, step, osmPc, worked>>
  BY DEF Publish, ImportPois, WriteFlags, osmVars
<1> QED
  BY <1>1, <1>2, <1>3, <1>4, <1>5, <1>6, <1>7, <1>9, <1>10, <1>11, <1>12, <1>13 DEF OsmNext

LEMMA FlagsKept == OsmTypeOK /\ StepsInv /\ FlagsInv /\ [OsmNext]_osmVars => FlagsInv'
<1> SUFFICES ASSUME OsmTypeOK, StepsInv, FlagsInv, [OsmNext]_osmVars PROVE FlagsInv'
  OBVIOUS
<1> USE DEF StepsInv, FlagsInv, Key
<1>0. /\ step \in [Key -> {"none", "RUNNING", "SUCCESS", "FAILED"}]
      /\ pois \in [Field -> Nat] /\ copy \in [Field -> Nat] /\ flags \in [Field -> Nat]
  BY DEF OsmTypeOK
<1>1. CASE UNCHANGED <<step, osmPc, worked, Data, outcome>>
  BY <1>1 DEF Data
<1>2. CASE StartRun
  BY <1>2 DEF StartRun
<1>3. CASE Resume
  BY <1>3 DEF Resume, Run, Data
<1>4. ASSUME NEW k \in Key, SkipStep(k) PROVE FlagsInv'
  BY <1>4 DEF SkipStep, WasSuccessful, Product, Following, Run, Data
<1>5. ASSUME NEW k \in Key, StartStep(k) PROVE FlagsInv'
  BY <1>5, <1>0 DEF StartStep, Run
<1>6. ASSUME NEW k \in Key, Osmium(k) PROVE FlagsInv'
  BY <1>6 DEF Osmium, Input, At, Done, Run, Data
<1>7. ASSUME NEW k \in Key, CompleteStep(k) PROVE FlagsInv'
  BY <1>7, <1>0 DEF CompleteStep, Following, Data
<1>8. ASSUME NEW k \in Key, FailStep(k) PROVE FlagsInv'
  BY <1>8, <1>0 DEF FailStep, At, Data
<1>9. CASE Download \/ ImportEnds \/ FlagsEnd
  BY <1>9 DEF Download, ImportEnds, FlagsEnd, At, Done, Run, Data
<1>10. ASSUME NEW a \in Field, ImportPois(a) \/ WriteFlags(a) PROVE FlagsInv'
  BY <1>10, <1>0 DEF ImportPois, WriteFlags, At, Run
<1>11. CASE Die
  BY <1>11, <1>0 DEF Die, Run, Data
<1>12. Publish \/ UNCHANGED osmVars => UNCHANGED <<step, osmPc, worked, Data, outcome>>
  BY DEF Publish, osmVars, Run, Data
<1> QED
  BY <1>1, <1>2, <1>3, <1>4, <1>5, <1>6, <1>7, <1>8, <1>9, <1>10, <1>11, <1>12 DEF OsmNext

LEMMA OsmBegins == OsmInit => OsmInv
<1> SUFFICES ASSUME OsmInit PROVE OsmInv
  OBVIOUS
<1>1. OsmTypeOK
  BY DEF OsmInit, OsmTypeOK, Absent, Known
<1>2. StepsInv /\ FilesInv /\ FlagsInv
  BY DEF OsmInit, StepsInv, FilesInv, FlagsInv, Succeeded, Ended, Key, Absent
<1> QED
  BY <1>1, <1>2 DEF OsmInv

\* However often the run fails and is retried, the worker dies and files stay behind
\* cut short: the import reads finished files of one extract, of the whole of it unless
\* the download on the volume was cut, and a run that ended well leaves flags computed
\* from the points of interest it imported (executeOsm, wasStepSuccessful,
\* downloadFrancePbfIfMissing, runSyncAerodromeFlagsTask).
THEOREM FlagsComeFromFinishedFiles == OsmSpec => []FlagsAreSound
<1>1. OsmInv /\ [OsmNext]_osmVars => OsmInv'
  BY OsmTypesKept, StepsKept, FilesKept, FlagsKept DEF OsmInv
<1>2. OsmInv => FlagsAreSound
  BY DEF OsmInv, OsmTypeOK, StepsInv, FilesInv, FlagsInv, FlagsAreSound, ImportReadsFinishedFiles,
         FlagsFollowThePois, At, Succeeded, Ended
<1> QED
  BY <1>1, <1>2, OsmBegins, PTL DEF OsmSpec

-----------------------------------------------------------------------------
(* Links to OurAirports *)

Ours == 1 .. Strips
Theirs == 1 .. Lines

MatchingTypeOK ==
  /\ strip \in [Ours -> [at : Places, icao : Codes \cup {NoIcao}]]
  /\ line \in [Theirs -> [at : Places, codes : CodeLists]]
  /\ row \in 1 .. Lines + 1
  /\ field \in 1 .. Strips + 1
  /\ match \in [Ours -> 0 .. Lines]
  /\ coded \subseteq Ours

\* Rows looked at by code have gone to one aerodrome that has the code, aerodromes
\* looked at by position have the row that is nearest both ways, the others none.
MatchesInv ==
  /\ row <= Lines => field = 1
  /\ \A a \in coded : /\ match[a] \in 1 .. row - 1
                      /\ \E i \in DOMAIN line[match[a]].codes : line[match[a]].codes[i] = strip[a].icao
  /\ \A a, b \in coded : a # b => match[a] # match[b]
  /\ \A a \in FreeStrips : match[a] = IF a < field THEN Mutual(a) ELSE 0

\* A code is the code of one aerodrome, and the rows looked at so far have gone to the
\* first code of theirs that was still to be given.
CodesInv ==
  /\ \A a, b \in Ours : a # b /\ strip[a].icao # NoIcao => strip[a].icao # strip[b].icao
  /\ \A a \in Ours, r \in Theirs : r < row => \A i \in DOMAIN line[r].codes :
       line[r].codes[i] = strip[a].icao =>
         \/ a \in coded /\ match[a] <= r
         \/ \E b \in coded, j \in DOMAIN line[r].codes :
               j < i /\ match[b] = r /\ line[r].codes[j] = strip[b].icao

MatchingInv == MatchingTypeOK /\ MatchesInv /\ CodesInv

\* A set of numbers has a least one.
LEMMA LeastOfSome ==
    ASSUME NEW T \in SUBSET Nat, T # {}
    PROVE  Min(T) \in T /\ \A n \in T : Min(T) <= n
<1> DEFINE R == {p \in Nat \X Nat : p[1] < p[2]}
<1>1. IsWellFoundedOn(R, Nat)
  BY NatLessThanWellFounded DEF OpToRel
<1>2. PICK m \in T : \A n \in T : <<n, m>> \notin R
  BY <1>1, WFMin
<1>3. ASSUME NEW n \in T PROVE m <= n
  <2>1. n \in Nat /\ m \in Nat /\ ~(n < m)
    BY <1>2
  <2> QED
    BY <2>1
<1> QED
  BY <1>3 DEF Min

LEMMA ApartTyped ==
    ASSUME MatchingTypeOK, NEW a \in Ours, NEW r \in Theirs
    PROVE  Apart(a, r) \in Nat
<1>1. strip[a].at \in Int /\ line[r].at \in Int
  BY MatchingAssumption DEF MatchingTypeOK
<1> QED
  BY <1>1 DEF Apart

LEMMA ClosestLineIsNearest ==
    ASSUME MatchingTypeOK, NEW a \in Ours
    PROVE  /\ ClosestLine(a) # 0 =>
                /\ ClosestLine(a) \in FreeLines
                /\ Apart(a, ClosestLine(a)) <= MaxMatch
                /\ \A s \in FreeLines : Apart(a, s) <= MaxMatch => Apart(a, ClosestLine(a)) <= Apart(a, s)
           /\ ClosestLine(a) = 0 => \A s \in FreeLines : ~(Apart(a, s) <= MaxMatch)
<1> DEFINE reach == {r \in FreeLines : Apart(a, r) <= MaxMatch}
           nearest == {r \in reach : \A s \in reach : Apart(a, r) <= Apart(a, s)}
<1>1. CASE reach = {}
  <2>1. ClosestLine(a) = 0
    BY <1>1 DEF ClosestLine
  <2> QED
    BY <1>1, <2>1
<1>2. CASE reach # {}
  <2>1. \A r \in reach : r \in Nat \ {0} /\ Apart(a, r) \in Nat
    BY ApartTyped, MatchingAssumption DEF FreeLines, Theirs
  <2> DEFINE D == {Apart(a, r) : r \in reach}
  <2>2. D \in SUBSET Nat /\ D # {}
    BY <1>2, <2>1
  <2>3. Min(D) \in D /\ \A e \in D : Min(D) <= e
    <3> HIDE DEF D
    <3> QED
      BY <2>2, LeastOfSome
  <2>4. nearest # {}
    <3>1. PICK r \in reach : Apart(a, r) = Min(D)
      BY <2>3
    <3>2. \A s \in reach : Apart(a, s) \in D
      OBVIOUS
    <3>3. \A s \in reach : Apart(a, r) <= Apart(a, s)
      <4> HIDE DEF D
      <4> QED
        BY <2>3, <3>1, <3>2
    <3> QED
      BY <3>3
  <2>5. nearest \in SUBSET Nat
    BY <2>1
  <2>6. Min(nearest) \in nearest
    <3> HIDE DEF nearest
    <3> QED
      BY <2>4, <2>5, LeastOfSome
  <2>7. ClosestLine(a) \in nearest
    BY <1>2, <2>6 DEF ClosestLine
  <2> QED
    BY <2>1, <2>7
<1> QED
  BY <1>1, <1>2

LEMMA ClosestStripIsNearest ==
    ASSUME MatchingTypeOK, NEW r \in Theirs
    PROVE  /\ ClosestStrip(r) # 0 =>
                /\ ClosestStrip(r) \in FreeStrips
                /\ Apart(ClosestStrip(r), r) <= MaxMatch
                /\ \A b \in FreeStrips : Apart(b, r) <= MaxMatch => Apart(ClosestStrip(r), r) <= Apart(b, r)
           /\ ClosestStrip(r) = 0 => \A b \in FreeStrips : ~(Apart(b, r) <= MaxMatch)
<1> DEFINE reach == {a \in FreeStrips : Apart(a, r) <= MaxMatch}
           nearest == {a \in reach : \A b \in reach : Apart(a, r) <= Apart(b, r)}
<1>1. CASE reach = {}
  <2>1. ClosestStrip(r) = 0
    BY <1>1 DEF ClosestStrip
  <2> QED
    BY <1>1, <2>1
<1>2. CASE reach # {}
  <2>1. \A a \in reach : a \in Nat \ {0} /\ Apart(a, r) \in Nat
    BY ApartTyped, MatchingAssumption DEF FreeStrips, Ours
  <2> DEFINE D == {Apart(a, r) : a \in reach}
  <2>2. D \in SUBSET Nat /\ D # {}
    BY <1>2, <2>1
  <2>3. Min(D) \in D /\ \A e \in D : Min(D) <= e
    <3> HIDE DEF D
    <3> QED
      BY <2>2, LeastOfSome
  <2>4. nearest # {}
    <3>1. PICK a \in reach : Apart(a, r) = Min(D)
      BY <2>3
    <3>2. \A b \in reach : Apart(b, r) \in D
      OBVIOUS
    <3>3. \A b \in reach : Apart(a, r) <= Apart(b, r)
      <4> HIDE DEF D
      <4> QED
        BY <2>3, <3>1, <3>2
    <3> QED
      BY <3>3
  <2>5. nearest \in SUBSET Nat
    BY <2>1
  <2>6. Min(nearest) \in nearest
    <3> HIDE DEF nearest
    <3> QED
      BY <2>4, <2>5, LeastOfSome
  <2>7. ClosestStrip(r) \in nearest
    BY <1>2, <2>6 DEF ClosestStrip
  <2> QED
    BY <2>1, <2>7
<1> QED
  BY <1>1, <1>2

LEMMA MutualStands ==
    ASSUME UNCHANGED <<strip, line, FreeStrips, FreeLines>>
    PROVE  \A a : Mutual(a)' = Mutual(a)
<1>1. \A a, r : Apart(a, r)' = Apart(a, r)
  BY DEF Apart
<1>2. \A a : ClosestLine(a)' = ClosestLine(a) /\ \A r : ClosestStrip(r)' = ClosestStrip(r)
  BY <1>1 DEF ClosestLine, ClosestStrip
<1> QED
  BY <1>2 DEF Mutual

LEMMA MatchesByCodeKeep == MatchingInv /\ MatchByCode => MatchingTypeOK' /\ MatchesInv'
<1> SUFFICES ASSUME MatchingInv, MatchByCode PROVE MatchingTypeOK' /\ MatchesInv'
  OBVIOUS
<1> USE DEF MatchingInv, MatchingTypeOK, MatchesInv
<1> DEFINE telling == {i \in DOMAIN line[row].codes : Named(row, i) # {}}
           named == CHOOSE a \in Named(row, Min(telling)) : TRUE
<1>0. row \in Theirs /\ field = 1
  BY MatchingAssumption DEF MatchByCode, Theirs
<1>1. /\ row' = row + 1
      /\ UNCHANGED <<strip, line, field>>
      /\ IF telling = {} THEN UNCHANGED <<match, coded>>
         ELSE match' = [match EXCEPT ![named] = row] /\ coded' = coded \cup {named}
  BY DEF MatchByCode
<1>2. row' \in 1 .. Lines + 1 /\ \A a \in Ours : ~(a < field)
  BY <1>0, <1>1, MatchingAssumption DEF Theirs, Ours
<1>3. CASE telling = {}
  <2>1. UNCHANGED <<strip, line, field, match, coded>> /\ row' = row + 1
    BY <1>1, <1>3
  <2>2. \A a \in FreeStrips' : match'[a] = 0 /\ a \in Ours
    BY <1>2, <2>1 DEF FreeStrips, Ours
  <2>3. \A a \in coded : match[a] \in 1 .. row' - 1
    BY <1>0, <2>1 DEF Theirs
  <2> QED
    BY <1>0, <1>2, <2>1, <2>2, <2>3
<1>4. CASE telling # {}
  <2>1. telling \in SUBSET Nat
    <3>1. line[row].codes \in Seq(Codes)
      BY <1>0, MatchingAssumption
    <3> QED
      BY <3>1
  <2>2. Min(telling) \in telling
    <3> HIDE DEF telling
    <3> QED
      BY <1>4, <2>1, LeastOfSome
  <2>3. named \in Named(row, Min(telling))
    BY <2>2
  <2>4. /\ named \in Ours \ coded
        /\ \E i \in DOMAIN line[row].codes : line[row].codes[i] = strip[named].icao
    <3> HIDE DEF named
    <3> QED
      BY <2>2, <2>3 DEF Named, Ours
  <2>5. match' = [match EXCEPT ![named] = row] /\ coded' = coded \cup {named}
    BY <1>0, <1>1, <1>4
  <2> HIDE DEF named
  <2>6. MatchingTypeOK'
    BY <1>0, <1>1, <1>2, <2>4, <2>5 DEF Theirs
  <2>7. \A a \in coded' : /\ match'[a] \in 1 .. row' - 1
                          /\ \E i \in DOMAIN line[match'[a]].codes : line[match'[a]].codes[i] = strip[a].icao
    <3> SUFFICES ASSUME NEW a \in coded'
                 PROVE  /\ match'[a] \in 1 .. row' - 1
                        /\ \E i \in DOMAIN line[match'[a]].codes : line[match'[a]].codes[i] = strip[a].icao
      OBVIOUS
    <3>1. CASE a = named
      BY <3>1, <1>0, <1>1, <2>4, <2>5 DEF Theirs
    <3>2. CASE a # named
      <4>1. a \in coded /\ match'[a] = match[a]
        BY <3>2, <2>5
      <4> QED
        BY <4>1, <1>0, <1>1 DEF Theirs
    <3> QED
      BY <3>1, <3>2
  <2>8. \A a, b \in coded' : a # b => match'[a] # match'[b]
    BY <1>0, <1>1, <2>4, <2>5 DEF Theirs
  <2>9. \A a \in FreeStrips' : match'[a] = 0 /\ a \in Ours
    BY <1>2, <2>4, <2>5 DEF FreeStrips, Ours
  <2> QED
    BY <1>0, <1>1, <1>2, <2>6, <2>7, <2>8, <2>9
<1> QED
  BY <1>3, <1>4

\* A row with a code still to be given goes to the aerodrome of the first such code.
LEMMA RowIsGiven ==
    ASSUME MatchingInv, MatchByCode, NEW i \in DOMAIN line[row].codes, Named(row, i) # {}
    PROVE  \E j \in DOMAIN line[row].codes : \E b \in Named(row, j) :
             j <= i /\ match' = [match EXCEPT ![b] = row] /\ coded' = coded \cup {b}
<1> DEFINE telling == {j \in DOMAIN line[row].codes : Named(row, j) # {}}
           named == CHOOSE a \in Named(row, Min(telling)) : TRUE
<1>1. row \in Theirs /\ telling # {}
  BY MatchingAssumption DEF MatchByCode, Theirs, MatchingInv, MatchingTypeOK
<1>2. telling \in SUBSET Nat
  <2>1. line[row].codes \in Seq(Codes)
    BY <1>1, MatchingAssumption DEF MatchingInv, MatchingTypeOK
  <2> QED
    BY <2>1
<1>3. Min(telling) \in telling /\ Min(telling) <= i
  <2>1. i \in telling
    OBVIOUS
  <2> HIDE DEF telling
  <2> QED
    BY <1>1, <1>2, <2>1, LeastOfSome
<1>4. named \in Named(row, Min(telling))
  BY <1>3
<1>5. match' = [match EXCEPT ![named] = row] /\ coded' = coded \cup {named}
  BY <1>1 DEF MatchByCode
<1> HIDE DEF named
<1> QED
  BY <1>3, <1>4, <1>5

\* What was given by code stays given.
LEMMA CodedStay ==
    ASSUME MatchingInv, MatchByCode, NEW a \in coded
    PROVE  a \in coded' /\ match'[a] = match[a]
<1>1. CASE \E i \in DOMAIN line[row].codes : Named(row, i) # {}
  <2>1. PICK b \in Ours \ coded : match' = [match EXCEPT ![b] = row] /\ coded' = coded \cup {b}
    BY <1>1, RowIsGiven DEF Named, Ours
  <2> QED
    BY <2>1 DEF MatchingInv, MatchingTypeOK
<1>2. CASE ~\E i \in DOMAIN line[row].codes : Named(row, i) # {}
  <2>1. UNCHANGED <<match, coded>>
    BY <1>2 DEF MatchByCode
  <2> QED
    BY <2>1
<1> QED
  BY <1>1, <1>2

LEMMA CodesByCodeKeep == MatchingInv /\ MatchByCode => CodesInv'
<1> SUFFICES ASSUME MatchingInv, MatchByCode PROVE CodesInv'
  OBVIOUS
<1>1. row \in Theirs /\ row' = row + 1 /\ strip' = strip /\ line' = line
  BY MatchingAssumption DEF MatchByCode, Theirs, MatchingInv, MatchingTypeOK
<1> DEFINE Given(a, r, i) ==
             \/ a \in coded' /\ match'[a] <= r
             \/ \E b \in coded', j \in DOMAIN line[r].codes :
                   j < i /\ match'[b] = r /\ line[r].codes[j] = strip[b].icao
<1>2. ASSUME NEW a \in Ours, NEW r \in Theirs, r < row,
             NEW i \in DOMAIN line[r].codes, line[r].codes[i] = strip[a].icao
      PROVE  Given(a, r, i)
  <2>1. CASE a \in coded /\ match[a] <= r
    BY <2>1, CodedStay
  <2>2. CASE \E b \in coded, j \in DOMAIN line[r].codes :
               j < i /\ match[b] = r /\ line[r].codes[j] = strip[b].icao
    <3>1. PICK b \in coded, j \in DOMAIN line[r].codes :
                 j < i /\ match[b] = r /\ line[r].codes[j] = strip[b].icao
      BY <2>2
    <3>2. b \in coded' /\ match'[b] = r
      BY <3>1, CodedStay
    <3> QED
      BY <3>1, <3>2
  <2> QED
    BY <1>2, <2>1, <2>2 DEF MatchingInv, CodesInv
<1>3. ASSUME NEW a \in Ours, NEW i \in DOMAIN line[row].codes, line[row].codes[i] = strip[a].icao
      PROVE  Given(a, row, i)
  <2>1. CASE a \in coded
    <3>1. match[a] \in 1 .. row - 1 /\ row \in Nat
      BY <2>1, <1>1, MatchingAssumption DEF MatchingInv, MatchesInv, Theirs
    <3>2. a \in coded' /\ match'[a] = match[a]
      BY <2>1, CodedStay
    <3> QED
      BY <3>1, <3>2
  <2>2. CASE a \notin coded
    <3>1. a \in Named(row, i)
      BY <1>3, <2>2 DEF Named, Ours
    <3>2. PICK j \in DOMAIN line[row].codes, b \in Ours :
                 /\ j <= i /\ b \in Named(row, j)
                 /\ match' = [match EXCEPT ![b] = row] /\ coded' = coded \cup {b}
      <4>1. PICK j \in DOMAIN line[row].codes : \E b \in Named(row, j) :
               j <= i /\ match' = [match EXCEPT ![b] = row] /\ coded' = coded \cup {b}
        BY <3>1, RowIsGiven
      <4> QED
        BY <4>1 DEF Named, Ours
    <3>3. strip[b].icao = line[row].codes[j]
      BY <3>2 DEF Named
    <3>4. b \in coded' /\ match'[b] = row /\ row \in Nat
      BY <3>2, <3>3, <1>1, MatchingAssumption DEF MatchingInv, MatchingTypeOK, Theirs
    <3>5. line[row].codes \in Seq(Codes) /\ i \in Nat /\ j \in Nat
      BY <1>1, <3>2, MatchingAssumption DEF MatchingInv, MatchingTypeOK
    <3>6. CASE j < i
      BY <3>2, <3>3, <3>4, <3>6
    <3>7. CASE j = i
      <4>1. strip[a].icao \in Codes /\ strip[a].icao = strip[b].icao
        BY <1>3, <3>3, <3>5, <3>7
      <4>2. a = b
        BY <4>1, <3>3, MatchingAssumption DEF MatchingInv, CodesInv
      <4> QED
        BY <4>2, <3>4
    <3> QED
      BY <3>2, <3>5, <3>6, <3>7
  <2> QED
    BY <2>1, <2>2
<1>4. \A r \in Theirs : r < row' => r < row \/ r = row
  BY <1>1, MatchingAssumption DEF Theirs
<1>5. \A a \in Ours, r \in Theirs : r < row' => \A i \in DOMAIN line[r].codes :
        line[r].codes[i] = strip[a].icao => Given(a, r, i)
  <2> HIDE DEF Given
  <2> QED
    BY <1>2, <1>3, <1>4
<1> QED
  BY <1>1, <1>5 DEF MatchingInv, CodesInv

LEMMA CodesByDistanceKeep == MatchingInv /\ MatchByDistance => CodesInv'
<1> SUFFICES ASSUME MatchingInv, MatchByDistance PROVE CodesInv'
  OBVIOUS
<1>1. \A a \in coded : match'[a] = match[a]
  BY DEF MatchByDistance, FreeStrips, MatchingInv, MatchingTypeOK
<1> QED
  BY <1>1 DEF MatchByDistance, MatchingInv, CodesInv

LEMMA MatchesByDistanceKeep == MatchingInv /\ MatchByDistance => MatchingTypeOK' /\ MatchesInv'
<1> SUFFICES ASSUME MatchingInv, MatchByDistance PROVE MatchingTypeOK' /\ MatchesInv'
  OBVIOUS
<1> USE DEF MatchingInv, MatchingTypeOK, MatchesInv
<1>1. /\ row > Lines /\ field \in Ours /\ field' = field + 1
      /\ match' = IF field \in FreeStrips THEN [match EXCEPT ![field] = Mutual(field)] ELSE match
      /\ UNCHANGED <<strip, line, row, coded>>
  BY MatchingAssumption DEF MatchByDistance, Ours
<1>2. \A a \in coded : match'[a] = match[a]
  BY <1>1 DEF FreeStrips
<1>3. FreeLines' = FreeLines /\ FreeStrips' = FreeStrips
  BY <1>1, <1>2 DEF FreeLines, FreeStrips
<1>4. \A a : Mutual(a)' = Mutual(a)
  BY <1>1, <1>3, MutualStands
<1>5. Mutual(field) \in 0 .. Lines
  <2>1. ClosestLine(field) = 0 \/ ClosestLine(field) \in FreeLines
    BY <1>1, ClosestLineIsNearest
  <2> QED
    BY <2>1, MatchingAssumption DEF Mutual, FreeLines
<1>6. MatchingTypeOK'
  BY <1>1, <1>5, MatchingAssumption DEF Ours
<1>7. \A a \in FreeStrips' : match'[a] = IF a < field' THEN Mutual(a)' ELSE 0
  <2> SUFFICES ASSUME NEW a \in FreeStrips PROVE match'[a] = IF a < field + 1 THEN Mutual(a) ELSE 0
    BY <1>1, <1>3, <1>4
  <2>1. a \in Ours /\ a \in Nat /\ field \in Nat
    BY <1>1, MatchingAssumption DEF FreeStrips, Ours
  <2>2. CASE a = field
    BY <2>1, <2>2, <1>1
  <2>3. CASE a # field
    BY <2>1, <2>3, <1>1
  <2> QED
    BY <2>2, <2>3
<1>8. \A a \in coded' : /\ match'[a] \in 1 .. row' - 1
                        /\ \E i \in DOMAIN line'[match'[a]].codes : line'[match'[a]].codes[i] = strip'[a].icao
  BY <1>1, <1>2
<1>9. (row' <= Lines => field' = 1) /\ \A a, b \in coded' : a # b => match'[a] # match'[b]
  BY <1>1, <1>2, MatchingAssumption
<1> QED
  BY <1>6, <1>7, <1>8, <1>9

LEMMA MatchedAreNotSwapped == MatchingInv => LinksAreNotSwapped
<1> SUFFICES ASSUME MatchingInv, field > Strips PROVE LinksAreNotSwapped
  BY DEF LinksAreNotSwapped
<1> USE DEF MatchingInv
<1>0. row > Lines \/ Ours = {}
  <2>1. row <= Lines => field = 1 /\ Strips = 0
    BY MatchingAssumption DEF MatchingTypeOK, MatchesInv
  <2>2. row \in Nat /\ Lines \in Nat
    BY MatchingAssumption DEF MatchingTypeOK
  <2> QED
    BY <2>1, <2>2 DEF Ours
<1>1. /\ \A a \in FreeStrips : match[a] = Mutual(a) /\ a \in Ours
      /\ \A a \in Ours : a \in coded \/ a \in FreeStrips
      /\ \A a \in coded : match[a] # 0 /\ a \in Ours
      /\ \A r \in FreeLines : r \in Theirs /\ r # 0 /\ \A a \in coded : match[a] # r
  BY MatchingAssumption DEF MatchingTypeOK, MatchesInv, FreeStrips, FreeLines, Ours, Theirs
<1>2. \A a \in FreeStrips : match[a] # 0 =>
        match[a] \in FreeLines /\ match[a] = ClosestLine(a) /\ ClosestStrip(match[a]) = a
  BY <1>1, ClosestLineIsNearest DEF Mutual
<1>3. ASSUME NEW a \in Ours, NEW b \in Ours, a # b, match[a] # 0
      PROVE  match[a] # match[b]
  <2>1. CASE a \in coded /\ b \in coded
    BY <1>3, <2>1 DEF MatchesInv
  <2>2. CASE a \in coded /\ b \in FreeStrips
    BY <1>1, <1>2, <1>3, <2>2
  <2>3. CASE a \in FreeStrips /\ b \in coded
    BY <1>1, <1>2, <1>3, <2>3
  <2>4. CASE a \in FreeStrips /\ b \in FreeStrips
    BY <1>2, <1>3, <2>4
  <2> QED
    BY <1>1, <2>1, <2>2, <2>3, <2>4
<1>4. ASSUME NEW a \in FreeStrips, match[a] # 0
      PROVE  /\ match[a] \in FreeLines /\ Apart(a, match[a]) <= MaxMatch
             /\ \A s \in FreeLines : Apart(a, match[a]) <= Apart(a, s)
             /\ \A b \in FreeStrips : Apart(a, match[a]) <= Apart(b, match[a])
  <2>1. /\ a \in Ours /\ match[a] \in FreeLines /\ match[a] \in Theirs
        /\ match[a] = ClosestLine(a) /\ ClosestStrip(match[a]) = a /\ a # 0
    BY <1>1, <1>2, <1>4, MatchingAssumption DEF Ours
  <2>2. Apart(a, match[a]) <= MaxMatch /\ Apart(a, match[a]) \in Nat /\ MaxMatch \in Nat
    BY <2>1, <1>4, ApartTyped, ClosestLineIsNearest, MatchingAssumption
  <2>3. ASSUME NEW s \in FreeLines PROVE Apart(a, match[a]) <= Apart(a, s)
    <3>1. Apart(a, s) <= MaxMatch => Apart(a, match[a]) <= Apart(a, s)
      BY <2>1, <1>4, ClosestLineIsNearest
    <3>2. Apart(a, s) \in Nat
      BY <1>1, <2>1, ApartTyped
    <3> QED
      BY <2>2, <3>1, <3>2
  <2>4. ASSUME NEW b \in FreeStrips PROVE Apart(a, match[a]) <= Apart(b, match[a])
    <3>1. Apart(b, match[a]) <= MaxMatch => Apart(a, match[a]) <= Apart(b, match[a])
      BY <2>1, ClosestStripIsNearest
    <3>2. Apart(b, match[a]) \in Nat
      BY <1>1, <2>1, ApartTyped
    <3> QED
      BY <2>2, <3>1, <3>2
  <2> QED
    BY <2>1, <2>2, <2>3, <2>4
<1>5. ASSUME NEW a \in FreeStrips, NEW r \in FreeLines, Apart(a, r) <= MaxMatch,
             \A s \in FreeLines \ {r} : Apart(a, r) < Apart(a, s),
             \A b \in FreeStrips \ {a} : Apart(a, r) < Apart(b, r)
      PROVE  match[a] = r
  <2>1. a \in Ours /\ r \in Theirs /\ r # 0 /\ a # 0
    BY <1>1, MatchingAssumption DEF FreeStrips
  <2>2. ClosestLine(a) = r
    <3>1. ClosestLine(a) # 0
      BY <2>1, <1>5, ClosestLineIsNearest
    <3>2. /\ ClosestLine(a) \in FreeLines
          /\ Apart(a, ClosestLine(a)) <= Apart(a, r)
      BY <3>1, <2>1, <1>5, ClosestLineIsNearest
    <3>3. Apart(a, ClosestLine(a)) \in Nat /\ Apart(a, r) \in Nat
      BY <3>2, <2>1, <1>1, ApartTyped
    <3> QED
      BY <3>2, <3>3, <1>5
  <2>3. ClosestStrip(r) = a
    <3>1. ClosestStrip(r) # 0
      BY <2>1, <1>5, ClosestStripIsNearest
    <3>2. /\ ClosestStrip(r) \in FreeStrips
          /\ Apart(ClosestStrip(r), r) <= Apart(a, r)
      BY <3>1, <2>1, <1>5, ClosestStripIsNearest
    <3>3. Apart(ClosestStrip(r), r) \in Nat /\ Apart(a, r) \in Nat
      BY <3>2, <2>1, <1>1, ApartTyped
    <3> QED
      BY <3>2, <3>3, <1>5
  <2> QED
    BY <1>1, <2>1, <2>2, <2>3 DEF Mutual
<1>6. CodesComeFirst
  <2>1. CASE row > Lines
    <3>1. \A r \in Theirs : r < row
      BY <2>1, MatchingAssumption DEF MatchingTypeOK, Theirs
    <3> QED
      BY <3>1 DEF CodesComeFirst, MatchesInv, CodesInv, Ours, Theirs
  <2>2. CASE Ours = {}
    BY <1>1, <2>2 DEF CodesComeFirst, Ours
  <2> QED
    BY <1>0, <2>1, <2>2
<1>7. PositionsAreMutual
  BY <1>4, <1>5 DEF PositionsAreMutual
<1> QED
  BY <1>3, <1>6, <1>7 DEF LinksAreNotSwapped, Ours

LEMMA MatchingBegins == MatchingInit => MatchingInv
BY MatchingAssumption DEF MatchingInit, MatchingInv, MatchingTypeOK, MatchesInv, CodesInv, FreeStrips, Ours, Theirs

\* However close the strips lie and whatever the codes: a row serves one aerodrome; who
\* bears the code of a row has that row or one before it, unless the row went to a code
\* it has before; of those left, whether they have a code or not, an aerodrome has the
\* row that is nearest both ways and within reach (matchAerodromes).
THEOREM NeighboursKeepTheirLinks == MatchingSpec => []LinksAreNotSwapped
<1>1. MatchingInv /\ [MatchingNext]_matchingVars => MatchingInv'
  <2>1. ASSUME MatchingInv, UNCHANGED matchingVars PROVE MatchingInv'
    <3>1. MatchingTypeOK'
      BY <2>1 DEF matchingVars, MatchingInv, MatchingTypeOK
    <3>2. UNCHANGED <<strip, line, FreeStrips, FreeLines>>
      BY <2>1 DEF matchingVars, FreeStrips, FreeLines
    <3>3. \A a : Mutual(a)' = Mutual(a)
      BY <3>2, MutualStands
    <3> QED
      BY <2>1, <3>1, <3>2, <3>3 DEF matchingVars, MatchingInv, MatchesInv, CodesInv
  <2>2. MatchingInv /\ MatchByCode => MatchingInv'
    BY MatchesByCodeKeep, CodesByCodeKeep DEF MatchingInv
  <2>3. MatchingInv /\ MatchByDistance => MatchingInv'
    BY MatchesByDistanceKeep, CodesByDistanceKeep DEF MatchingInv
  <2> QED
    BY <2>1, <2>2, <2>3 DEF MatchingNext
<1> QED
  BY <1>1, MatchingBegins, MatchedAreNotSwapped, PTL DEF MatchingSpec

-----------------------------------------------------------------------------
(* OsmImport *)

Stats == [upserted : Nat, skipped : Nat, errors : Nat, collapsed : Nat]

RowsTypeOK ==
    /\ lines \in Seq(Line)
    /\ pos \in 0..Len(lines)
    /\ batch \subseteq 1..pos
    /\ table \in [Poi -> Nat]
    /\ stats \in Stats
    /\ rowsDone \in BOOLEAN

\* The lines the database was offered, or that there is nothing to offer of.
Settled == 1..pos \ batch

\* Only lines with a point of interest wait, and later ones than were settled.
BatchIsLast ==
    \A n \in batch : /\ lines[n] # Junk
                     /\ \A m \in Settled : lines[m] # Junk => m < n

\* The table is right about the lines that are settled.
SettledLinesWin ==
    \A p \in Poi, n \in Settled :
        /\ PoiOf(n) = p /\ lines[n].good
        /\ \A m \in Settled : PoiOf(m) = p => m <= n
        => table[p] = n

LinesAreCounted ==
    /\ stats.upserted + stats.skipped + stats.errors + stats.collapsed + Cardinality(batch) = pos
    /\ rowsDone => batch = {} /\ pos = Len(lines)

RowsInv == RowsTypeOK /\ BatchIsLast /\ SettledLinesWin /\ LinesAreCounted

LEMMA LinesAreLines ==
  ASSUME RowsTypeOK, NEW n \in 1..Len(lines)
  PROVE  /\ lines[n] \in Line /\ lines[n].good \in BOOLEAN
         /\ lines[n] # Junk => PoiOf(n) \in Poi
         /\ lines[n] = Junk => PoiOf(n) \notin Poi
<1>1. lines[n] \in [poi : Poi, good : BOOLEAN] \/ lines[n] = Junk
  BY DEF RowsTypeOK, Line
<1>2. CASE lines[n] \in [poi : Poi, good : BOOLEAN]
  <2>1. lines[n].poi \in Poi /\ lines[n].good \in BOOLEAN
    BY <1>2
  <2>2. Junk.poi \notin Poi
    BY NoPoiAssumption DEF Junk
  <2> QED
    BY <1>2, <2>1, <2>2 DEF Line, PoiOf
<1>3. CASE lines[n] = Junk
  BY <1>3, NoPoiAssumption DEF Line, PoiOf, Junk
<1> QED
  BY <1>1, <1>2, <1>3

LEMMA BatchIsFinite ==
  ASSUME NEW k \in Nat, NEW rows \in SUBSET (1..k)
  PROVE  IsFiniteSet(rows) /\ Cardinality(rows) \in Nat
<1>1. IsFiniteSet(1..k)
  BY FS_Interval
<1>2. IsFiniteSet(rows)
  BY <1>1, FS_Subset
<1> QED
  BY <1>2, FS_CardinalityType

LEMMA FlushCounts ==
  ASSUME NEW w \in Nat, NEW s \in Nat, NEW e \in Nat, NEW d \in Nat,
         NEW t \in Nat, NEW u \in Nat, NEW c \in Nat, t <= u, u <= c
  PROVE  /\ w + t \in Nat /\ e + u - t \in Nat /\ d + c - u \in Nat
         /\ (w + t) + s + (e + u - t) + (d + c - u) = w + s + e + d + c
OBVIOUS

\* A flush settles its rows, in one statement or in several, and counts them.
LEMMA FlushSettles ==
  ASSUME RowsTypeOK, NEW k \in 0..Len(lines), NEW rows \in SUBSET (1..k), FlushBatch(rows),
         \A n \in rows : lines[n] # Junk
  PROVE  /\ table' \in [Poi -> Nat] /\ stats' \in Stats
         /\ \A p \in Poi : (\A n \in rows : PoiOf(n) # p) => table'[p] = table[p]
         /\ \A p \in Poi, n \in rows :
               PoiOf(n) = p /\ lines[n].good /\ (\A m \in rows : PoiOf(m) = p => m <= n)
                 => table'[p] = n
         /\ stats'.upserted + stats'.skipped + stats'.errors + stats'.collapsed
              = stats.upserted + stats.skipped + stats.errors + stats.collapsed + Cardinality(rows)
<1> DEFINE unique == DedupeBatch(rows)
           taken == IF Refused(unique) THEN {n \in unique : ~Refused({n})} ELSE unique
<1>1. taken \subseteq unique /\ unique \subseteq rows /\ rows \subseteq Nat
  BY DEF DedupeBatch
<1>2. \A n, m \in unique : PoiOf(n) = PoiOf(m) => n = m
  <2> SUFFICES ASSUME NEW n \in unique, NEW m \in unique, PoiOf(n) = PoiOf(m) PROVE n = m
    OBVIOUS
  <2>1. n <= m /\ m <= n
    BY DEF DedupeBatch
  <2> HIDE DEF unique
  <2>2. n \in Nat /\ m \in Nat
    BY <1>1
  <2> QED
    BY <2>1, <2>2
<1>3. \A n \in unique : lines[n].good => n \in taken
  <2> SUFFICES ASSUME NEW n \in unique, lines[n].good, Refused(unique) PROVE ~Refused({n})
    OBVIOUS
  <2> QED
    BY DEF Refused
<1>4. /\ table' = Written(taken, table)
      /\ stats' = [stats EXCEPT !.upserted = @ + Cardinality(taken),
                                !.errors = @ + Cardinality(unique) - Cardinality(taken),
                                !.collapsed = @ + Cardinality(rows) - Cardinality(unique)]
  BY DEF FlushBatch
<1>5. /\ Cardinality(taken) \in Nat /\ Cardinality(unique) \in Nat /\ Cardinality(rows) \in Nat
      /\ Cardinality(taken) <= Cardinality(unique) /\ Cardinality(unique) <= Cardinality(rows)
  <2> HIDE DEF taken, unique
  <2>0. k \in Nat
    BY DEF RowsTypeOK
  <2>1. IsFiniteSet(rows)
    BY <2>0, BatchIsFinite
  <2>2. IsFiniteSet(unique) /\ Cardinality(unique) <= Cardinality(rows)
    BY <1>1, <2>1, FS_Subset
  <2>3. IsFiniteSet(taken) /\ Cardinality(taken) <= Cardinality(unique)
    BY <1>1, <2>2, FS_Subset
  <2> QED
    BY <2>1, <2>2, <2>3, FS_CardinalityType
<1>6. \A n \in rows : n \in Nat
  OBVIOUS
<1> HIDE DEF taken, unique
<1>7. /\ stats' \in Stats
      /\ stats'.upserted + stats'.skipped + stats'.errors + stats'.collapsed
           = stats.upserted + stats.skipped + stats.errors + stats.collapsed + Cardinality(rows)
  <2> DEFINE t == Cardinality(taken)
             u == Cardinality(unique)
             c == Cardinality(rows)
  <2>1. t \in Nat /\ u \in Nat /\ c \in Nat /\ t <= u /\ u <= c
    BY <1>5
  <2>2. stats' = [stats EXCEPT !.upserted = @ + t, !.errors = @ + u - t, !.collapsed = @ + c - u]
    BY <1>4
  <2> HIDE DEF t, u, c
  <2>3. stats \in Stats
    BY DEF RowsTypeOK
  <2>4. /\ stats.upserted \in Nat /\ stats.skipped \in Nat /\ stats.errors \in Nat /\ stats.collapsed \in Nat
        /\ stats'.upserted = stats.upserted + t /\ stats'.skipped = stats.skipped
        /\ stats'.errors = stats.errors + u - t /\ stats'.collapsed = stats.collapsed + c - u
    BY <2>2, <2>3 DEF Stats
  <2>5. /\ stats.upserted + t \in Nat /\ stats.errors + u - t \in Nat /\ stats.collapsed + c - u \in Nat
        /\ (stats.upserted + t) + stats.skipped + (stats.errors + u - t) + (stats.collapsed + c - u)
             = stats.upserted + stats.skipped + stats.errors + stats.collapsed + c
    <3> DEFINE w == stats.upserted
               s == stats.skipped
               e == stats.errors
               d == stats.collapsed
    <3>1. w \in Nat /\ s \in Nat /\ e \in Nat /\ d \in Nat
      BY <2>4
    <3> HIDE DEF w, s, e, d
    <3>2. /\ w + t \in Nat /\ e + u - t \in Nat /\ d + c - u \in Nat
          /\ (w + t) + s + (e + u - t) + (d + c - u) = w + s + e + d + c
      BY <2>1, <3>1, FlushCounts
    <3> QED
      BY <3>2 DEF w, s, e, d
  <2>6. stats' \in Stats
    BY <2>2, <2>3, <2>4, <2>5 DEF Stats
  <2> QED
    BY <2>4, <2>5, <2>6 DEF c
<1>8. ASSUME NEW p \in Poi
      PROVE  /\ table'[p] \in Nat
             /\ (\A n \in rows : PoiOf(n) # p) => table'[p] = table[p]
  <2>1. table'[p] = IF \E n \in taken : PoiOf(n) = p THEN CHOOSE n \in taken : PoiOf(n) = p ELSE table[p]
    BY <1>4 DEF Written
  <2>2. table[p] \in Nat
    BY DEF RowsTypeOK
  <2> QED
    BY <1>1, <1>6, <2>1, <2>2
<1>9. ASSUME NEW p \in Poi, NEW n \in rows, PoiOf(n) = p, lines[n].good,
             \A m \in rows : PoiOf(m) = p => m <= n
      PROVE  table'[p] = n
  <2>1. n \in unique
    BY <1>9 DEF unique, DedupeBatch
  <2>2. n \in taken
    BY <1>3, <1>9, <2>1
  <2>3. \A m \in taken : PoiOf(m) = p => m = n
    BY <1>1, <1>2, <1>9, <2>1
  <2>4. table'[p] = CHOOSE m \in taken : PoiOf(m) = p
    BY <1>4, <1>9, <2>2 DEF Written
  <2> QED
    BY <1>9, <2>2, <2>3, <2>4
<1>10. table' \in [Poi -> Nat]
  <2>1. table' = [p \in Poi |-> table'[p]]
    BY <1>4 DEF Written
  <2> QED
    BY <1>8, <2>1
<1> QED
  BY <1>7, <1>8, <1>9, <1>10

\* The table is right about the lines settled when a flush empties the batch.
LEMMA FlushKeepsWinners ==
  ASSUME RowsTypeOK, NEW k \in pos..Len(lines), NEW rows \in SUBSET (1..k),
         pos' = k, batch' = {}, lines' = lines,
         1..k = Settled \cup rows,
         \A n \in rows : \A m \in Settled : lines[m] # Junk => m < n,
         \A p \in Poi : (\A n \in rows : PoiOf(n) # p) => table'[p] = table[p],
         \A p \in Poi, n \in rows :
            PoiOf(n) = p /\ lines[n].good /\ (\A m \in rows : PoiOf(m) = p => m <= n)
              => table'[p] = n,
         SettledLinesWin
  PROVE  SettledLinesWin' /\ BatchIsLast'
<1>1. Settled' = 1..k
  BY DEF Settled
<1>2. ASSUME NEW p \in Poi, NEW n \in 1..k, PoiOf(n) = p, lines[n].good,
             \A m \in 1..k : PoiOf(m) = p => m <= n
      PROVE  table'[p] = n
  <2>1. CASE n \in rows
    BY <1>2, <2>1
  <2>2. CASE n \notin rows
    <3>1. n \in Settled
      BY <2>2
    <3>2. table[p] = n
      BY <1>2, <3>1 DEF SettledLinesWin, Settled
    <3>3. ASSUME NEW m \in rows, PoiOf(m) = p PROVE FALSE
      <4>1. m <= n /\ m \in Nat /\ n \in Nat
        BY <1>2, <3>3
      <4>2. lines[n] # Junk
        BY <1>2, LinesAreLines DEF RowsTypeOK
      <4>3. n < m
        BY <3>1, <4>2
      <4> QED
        BY <4>1, <4>3
    <3> QED
      BY <3>2, <3>3
  <2> QED
    BY <2>1, <2>2
<1>3. SettledLinesWin'
  BY <1>1, <1>2 DEF SettledLinesWin, PoiOf
<1>4. BatchIsLast'
  BY DEF BatchIsLast
<1> QED
  BY <1>3, <1>4

LEMMA RowsStepKeepsRows ==
  ASSUME RowsInv, [RowsNext]_rowVars
  PROVE  RowsInv'
<1>0. /\ RowsTypeOK /\ BatchIsLast /\ SettledLinesWin /\ LinesAreCounted
      /\ pos \in Nat /\ Len(lines) \in Nat /\ pos <= Len(lines) /\ stats \in Stats
      /\ IsFiniteSet(batch) /\ Cardinality(batch) \in Nat
  <2>1. RowsTypeOK /\ BatchIsLast /\ SettledLinesWin /\ LinesAreCounted
    BY DEF RowsInv
  <2>2. Len(lines) \in Nat
    BY <2>1 DEF RowsTypeOK
  <2>3. pos \in Nat /\ pos <= Len(lines) /\ batch \in SUBSET (1..pos) /\ stats \in Stats
    BY <2>1, <2>2 DEF RowsTypeOK
  <2>4. IsFiniteSet(batch) /\ Cardinality(batch) \in Nat
    BY <2>3, BatchIsFinite
  <2> QED
    BY <2>1, <2>2, <2>3, <2>4
<1>1. CASE SkipLine
  <2>1. /\ pos < Len(lines) /\ lines[pos + 1] = Junk /\ pos' = pos + 1
        /\ stats' = [stats EXCEPT !.skipped = @ + 1]
        /\ lines' = lines /\ batch' = batch /\ table' = table /\ rowsDone' = rowsDone
    BY <1>1 DEF SkipLine
  <2>2. RowsTypeOK'
    BY <1>0, <2>1 DEF RowsTypeOK, Stats
  <2>3. Settled' = Settled \cup {pos + 1}
    BY <1>0, <2>1 DEF Settled, RowsTypeOK
  <2>4. BatchIsLast'
    BY <1>0, <2>1, <2>3 DEF BatchIsLast
  <2>5. PoiOf(pos + 1) \notin Poi
    BY <1>0, <2>1, LinesAreLines
  <2>6. SettledLinesWin'
    BY <1>0, <2>1, <2>3, <2>5 DEF SettledLinesWin, PoiOf
  <2>7. LinesAreCounted'
    BY <1>0, <2>1 DEF LinesAreCounted, Stats
  <2> QED
    BY <2>2, <2>4, <2>6, <2>7 DEF RowsInv
<1>2. CASE ReadRow
  <2> DEFINE rows == batch \cup {pos + 1}
  <2>1. /\ pos < Len(lines) /\ lines[pos + 1] # Junk /\ pos' = pos + 1
        /\ lines' = lines /\ rowsDone' = rowsDone
        /\ \/ FlushBatch(rows) /\ batch' = {}
           \/ batch' = rows /\ table' = table /\ stats' = stats
    BY <1>2 DEF ReadRow
  <2>2. /\ rows \in SUBSET (1..pos + 1) /\ pos + 1 \in pos..Len(lines) /\ pos + 1 \in 0..Len(lines)
        /\ pos + 1 \notin batch /\ 1..pos + 1 = Settled \cup rows
    <3>1. batch \subseteq 1..pos
      BY <1>0 DEF RowsTypeOK
    <3>2. 1..pos + 1 = (1..pos) \cup {pos + 1} /\ pos + 1 \notin 1..pos
      BY <1>0
    <3>3. pos + 1 \in pos..Len(lines) /\ pos + 1 \in 0..Len(lines)
      BY <1>0, <2>1
    <3> QED
      BY <3>1, <3>2, <3>3 DEF Settled
  <2>3. Cardinality(rows) = Cardinality(batch) + 1
    BY <1>0, <2>2, FS_AddElement
  <2>4. \A n \in rows : lines[n] # Junk /\ \A m \in Settled : lines[m] # Junk => m < n
    BY <1>0, <2>1 DEF BatchIsLast, Settled
  <2>5. ~rowsDone
    BY <1>0, <2>1 DEF LinesAreCounted
  <2> HIDE DEF rows
  <2>6. CASE FlushBatch(rows) /\ batch' = {}
    <3>1. /\ table' \in [Poi -> Nat] /\ stats' \in Stats
          /\ \A p \in Poi : (\A n \in rows : PoiOf(n) # p) => table'[p] = table[p]
          /\ \A p \in Poi, n \in rows :
                PoiOf(n) = p /\ lines[n].good /\ (\A m \in rows : PoiOf(m) = p => m <= n)
                  => table'[p] = n
          /\ stats'.upserted + stats'.skipped + stats'.errors + stats'.collapsed
               = stats.upserted + stats.skipped + stats.errors + stats.collapsed + Cardinality(rows)
      BY <1>0, <2>2, <2>4, <2>6, FlushSettles
    <3>2. RowsTypeOK'
      BY <1>0, <2>1, <2>6, <3>1 DEF RowsTypeOK
    <3>3. SettledLinesWin' /\ BatchIsLast'
      BY <1>0, <2>1, <2>2, <2>4, <2>6, <3>1, FlushKeepsWinners
    <3>4. LinesAreCounted'
      <4>1. stats.upserted + stats.skipped + stats.errors + stats.collapsed + Cardinality(batch) = pos
        BY <1>0 DEF LinesAreCounted
      <4>2. stats'.upserted + stats'.skipped + stats'.errors + stats'.collapsed = pos'
        <5>1. PICK total \in Nat : total = stats.upserted + stats.skipped + stats.errors + stats.collapsed
          <6>1. stats \in Stats
            BY <1>0 DEF RowsTypeOK
          <6> QED
            BY <6>1 DEF Stats
        <5>2. Cardinality(batch) \in Nat /\ pos \in Nat
          BY <1>0, FS_CardinalityType
        <5>3. total + Cardinality(batch) = pos
          BY <4>1, <5>1
        <5>4. total + (Cardinality(batch) + 1) = pos'
          BY <2>1, <5>1, <5>2, <5>3
        <5> QED
          BY <2>3, <3>1, <5>1, <5>4
      <4>3. Cardinality(batch') = 0 /\ pos' \in Nat
        BY <1>0, <2>1, <2>6, FS_EmptySet
      <4> QED
        BY <2>1, <2>5, <4>2, <4>3 DEF LinesAreCounted
    <3> QED
      BY <3>2, <3>3, <3>4 DEF RowsInv
  <2>7. CASE batch' = rows /\ table' = table /\ stats' = stats
    <3>1. RowsTypeOK'
      BY <1>0, <2>1, <2>2, <2>7 DEF RowsTypeOK
    <3>2. Settled' = Settled
      BY <1>0, <2>1, <2>2, <2>7 DEF Settled, RowsTypeOK, rows
    <3>3. BatchIsLast'
      BY <2>1, <2>4, <2>7, <3>2 DEF BatchIsLast
    <3>4. SettledLinesWin'
      BY <1>0, <2>1, <2>7, <3>2 DEF SettledLinesWin, PoiOf
    <3>5. LinesAreCounted'
      BY <1>0, <2>1, <2>3, <2>5, <2>7 DEF LinesAreCounted, Stats
    <3> QED
      BY <3>1, <3>3, <3>4, <3>5 DEF RowsInv
  <2> QED
    BY <2>1, <2>6, <2>7
<1>3. CASE FlushTheRest
  <2>1. /\ pos = Len(lines) /\ rowsDone' = TRUE /\ batch' = {} /\ lines' = lines /\ pos' = pos
        /\ \/ FlushBatch(batch)
           \/ batch = {} /\ table' = table /\ stats' = stats
    BY <1>3 DEF FlushTheRest
  <2>2. /\ batch \in SUBSET (1..pos) /\ pos \in pos..Len(lines) /\ pos \in 0..Len(lines)
        /\ 1..pos = Settled \cup batch
    <3>1. batch \subseteq 1..pos
      BY <1>0 DEF RowsTypeOK
    <3>2. 1..pos = Settled \cup batch
      BY <3>1 DEF Settled
    <3> QED
      BY <1>0, <2>1, <3>1, <3>2
  <2>3. \A n \in batch : lines[n] # Junk /\ \A m \in Settled : lines[m] # Junk => m < n
    BY <1>0 DEF BatchIsLast
  <2>4. CASE FlushBatch(batch)
    <3>1. /\ table' \in [Poi -> Nat] /\ stats' \in Stats
          /\ \A p \in Poi : (\A n \in batch : PoiOf(n) # p) => table'[p] = table[p]
          /\ \A p \in Poi, n \in batch :
                PoiOf(n) = p /\ lines[n].good /\ (\A m \in batch : PoiOf(m) = p => m <= n)
                  => table'[p] = n
          /\ stats'.upserted + stats'.skipped + stats'.errors + stats'.collapsed
               = stats.upserted + stats.skipped + stats.errors + stats.collapsed + Cardinality(batch)
      BY <1>0, <2>2, <2>3, <2>4, FlushSettles
    <3>2. RowsTypeOK'
      BY <1>0, <2>1, <3>1 DEF RowsTypeOK
    <3>3. SettledLinesWin' /\ BatchIsLast'
      BY <1>0, <2>1, <2>2, <2>3, <3>1, FlushKeepsWinners
    <3>4. LinesAreCounted'
      BY <1>0, <2>1, <3>1, FS_EmptySet DEF LinesAreCounted, Stats
    <3> QED
      BY <3>2, <3>3, <3>4 DEF RowsInv
  <2>5. CASE batch = {} /\ table' = table /\ stats' = stats
    <3>1. RowsTypeOK'
      BY <1>0, <2>1, <2>5 DEF RowsTypeOK
    <3>2. Settled' = Settled
      BY <2>1, <2>5 DEF Settled
    <3>3. BatchIsLast'
      BY <2>1 DEF BatchIsLast
    <3>4. SettledLinesWin'
      BY <1>0, <2>1, <2>5, <3>2 DEF SettledLinesWin, PoiOf
    <3>5. LinesAreCounted'
      BY <1>0, <2>1, <2>5 DEF LinesAreCounted
    <3> QED
      BY <3>1, <3>3, <3>4, <3>5 DEF RowsInv
  <2> QED
    BY <2>1, <2>4, <2>5
<1>4. CASE UNCHANGED rowVars
  <2>1. /\ lines' = lines /\ pos' = pos /\ batch' = batch /\ table' = table /\ stats' = stats
        /\ rowsDone' = rowsDone
    BY <1>4 DEF rowVars
  <2> QED
    BY <1>0, <2>1 DEF RowsInv, RowsTypeOK, BatchIsLast, SettledLinesWin, LinesAreCounted, Settled, PoiOf
<1> QED
  BY <1>1, <1>2, <1>3, <1>4 DEF RowsNext

LEMMA InitRows == RowsInit => RowsInv
<1> SUFFICES ASSUME RowsInit PROVE RowsInv
  OBVIOUS
<1>1. PICK n \in 0..MaxLines : lines \in [1..n -> Line]
  BY DEF RowsInit
<1>2. n \in Nat
  BY OsmImportAssumption
<1>3. lines \in Seq(Line) /\ Len(lines) \in Nat
  BY <1>1, <1>2
<1>4. /\ pos = 0 /\ batch = {} /\ rowsDone = FALSE /\ table = [p \in Poi |-> 0]
      /\ stats = [upserted |-> 0, skipped |-> 0, errors |-> 0, collapsed |-> 0]
  BY DEF RowsInit
<1>5. RowsTypeOK
  <2>1. table \in [Poi -> Nat] /\ stats \in Stats
    BY <1>4 DEF Stats
  <2>2. pos \in 0..Len(lines)
    BY <1>3, <1>4
  <2>3. batch \subseteq 1..pos
    BY <1>4
  <2>4. rowsDone \in BOOLEAN
    BY <1>4
  <2> QED
    BY <1>3, <2>1, <2>2, <2>3, <2>4 DEF RowsTypeOK
<1>6. Settled = {}
  BY <1>4 DEF Settled
<1> QED
  BY <1>4, <1>5, <1>6, FS_EmptySet DEF RowsInv, BatchIsLast, SettledLinesWin, LinesAreCounted

\* The table is right about every line the database was offered, wherever the
\* batches were cut, and every line read is counted or waits (importOsmGeoJsonSeq).
THEOREM RowsInvHolds == RowsSpec => []RowsInv
BY InitRows, RowsStepKeepsRows, PTL DEF RowsSpec

\* For any file, any size of a batch and any rows the database refuses: the last
\* line of a point of interest wins, and every line is counted once.
THEOREM LastLinesWin == RowsSpec => []LastLineWins
<1>1. RowsInv => LastLineWins
  <2> SUFFICES ASSUME RowsInv, rowsDone PROVE LastLineWins
    BY DEF LastLineWins
  <2>1. /\ batch = {} /\ pos = Len(lines) /\ Len(lines) \in Nat /\ stats \in Stats /\ lines \in Seq(Line)
        /\ stats.upserted + stats.skipped + stats.errors + stats.collapsed + Cardinality(batch) = pos
    BY DEF RowsInv, RowsTypeOK, LinesAreCounted
  <2>2. Settled = DOMAIN lines
    BY <2>1 DEF Settled
  <2>3. stats.upserted + stats.skipped + stats.errors + stats.collapsed = Len(lines)
    BY <2>1, FS_EmptySet DEF Stats
  <2> QED
    BY <2>2, <2>3 DEF RowsInv, SettledLinesWin, LastLineWins, LinesOf
<1> QED
  BY <1>1, RowsInvHolds, PTL

\* Any file, any failures and deaths of runs: the flags come of a finished export of
\* what was downloaded, and of each object that file names more than once the table keeps the last line.
THEOREM OsmStaysSound == OsmSpec /\ RowsSpec => []OsmIsSound
BY FlagsComeFromFinishedFiles, LastLinesWin, PTL DEF OsmIsSound

-----------------------------------------------------------------------------
(* Cache *)

Kind == {"absent", "value", "partial", "outage"}
Entry == [made : Nat, ttl : Nat, kind : Kind, expires : Nat]
Call == [pc : {"idle", "produce", "store"}, key : CacheKey, got : Entry]

CacheTypeOK ==
    /\ clock \in Nat
    /\ redis \in [CacheKey -> Entry] /\ memory \in [CacheKey -> Entry]
    /\ place \in [CacheKey -> Nat]
    /\ caller \in [Caller -> Call]
    /\ stale \in BOOLEAN

\* An entry that may be answered until it expires is then no older than its life
\* and the time it took to store.
Keepable(entry) == entry.kind \in {"value", "partial"}
InTime(entry) == Keepable(entry) /\ entry.expires <= entry.made + entry.ttl + MaxFlight

EntriesAreYoung ==
    /\ ~stale
    /\ \A k \in CacheKey : /\ redis[k] = Absence \/ (InTime(redis[k]) /\ redis[k].expires >= clock)
                           /\ memory[k] = Absence \/ InTime(memory[k])

CallsAreInTime ==
    \A c \in Caller : caller[c].pc = "store" =>
        Keepable(caller[c].got) /\ clock <= caller[c].got.made + MaxFlight

\* The Map has each key it holds once, and no more than its limit.
Ordered == \A j, k \in Remembered : place[j] = place[k] => j = k

MemoryIsOrdered ==
    /\ IsFiniteSet(Remembered) /\ Cardinality(Remembered) <= MaxMemory /\ Ordered
    /\ \A k \in CacheKey : k \in Remembered <=> memory[k].kind # "absent"

CacheInv == CacheTypeOK /\ EntriesAreYoung /\ CallsAreInTime /\ MemoryIsOrdered

\* Keys that stay are numbered from one in the order they had.
LEMMA PlacesAreInOrder ==
  ASSUME place \in [CacheKey -> Nat], Ordered, NEW K \in SUBSET Remembered, IsFiniteSet(K)
  PROVE  /\ Cardinality(K) \in Nat
         /\ PlacesOf(K) \in [CacheKey -> Nat]
         /\ \A k \in CacheKey : IF k \in K THEN PlacesOf(K)[k] \in 1..Cardinality(K)
                                           ELSE PlacesOf(K)[k] = 0
         /\ \A j, k \in K : PlacesOf(K)[j] = PlacesOf(K)[k] => j = k
<1> DEFINE Before(k) == {j \in K : place[j] <= place[k]}
<1>1. \A k \in K : k \in CacheKey /\ place[k] \in Nat
  BY DEF Remembered
<1>2. \A k \in CacheKey : PlacesOf(K)[k] = IF k \in K THEN Cardinality(Before(k)) ELSE 0
  BY DEF PlacesOf
<1>3. Cardinality(K) \in Nat
  BY FS_CardinalityType
<1>4. ASSUME NEW k \in K PROVE /\ Cardinality(Before(k)) \in 1..Cardinality(K)
                               /\ IsFiniteSet(Before(k))
  <2>1. Before(k) \subseteq K /\ k \in Before(k)
    BY <1>1
  <2> HIDE DEF Before
  <2>2. /\ IsFiniteSet(Before(k)) /\ Cardinality(Before(k)) \in Nat
        /\ Cardinality(Before(k)) <= Cardinality(K)
    BY <2>1, FS_Subset, FS_CardinalityType
  <2>3. Cardinality(Before(k)) # 0
    BY <2>1, <2>2, FS_EmptySet
  <2> QED
    BY <1>3, <2>2, <2>3
<1>5. ASSUME NEW j \in K, NEW k \in K, place[j] < place[k]
      PROVE  Cardinality(Before(j)) < Cardinality(Before(k))
  <2>1. Before(j) \subseteq Before(k) /\ k \in Before(k) /\ k \notin Before(j)
    BY <1>1, <1>5
  <2>2. IsFiniteSet(Before(k)) /\ Cardinality(Before(k)) \in Nat /\ Cardinality(Before(j)) \in Nat
    BY <1>3, <1>4
  <2> HIDE DEF Before
  <2>3. Cardinality(Before(j)) <= Cardinality(Before(k)) /\ Cardinality(Before(j)) # Cardinality(Before(k))
    BY <2>1, <2>2, FS_Subset
  <2> QED
    BY <2>2, <2>3
<1>6. ASSUME NEW j \in K, NEW k \in K, PlacesOf(K)[j] = PlacesOf(K)[k] PROVE j = k
  <2>1. Cardinality(Before(j)) = Cardinality(Before(k)) /\ Cardinality(Before(k)) \in Nat
    BY <1>1, <1>2, <1>3, <1>4, <1>6
  <2> HIDE DEF Before
  <2>2. ~(place[j] < place[k]) /\ ~(place[k] < place[j])
    BY <1>5, <2>1
  <2>3. place[j] = place[k]
    BY <1>1, <2>2
  <2> QED
    BY <2>3 DEF Ordered
<1> HIDE DEF Before
<1>7. PlacesOf(K) \in [CacheKey -> Nat]
  <2>1. PlacesOf(K) = [k \in CacheKey |-> PlacesOf(K)[k]]
    BY DEF PlacesOf
  <2>2. \A k \in CacheKey : PlacesOf(K)[k] \in Nat
    BY <1>2, <1>3, <1>4
  <2> QED
    BY <2>1, <2>2
<1> QED
  BY <1>2, <1>3, <1>4, <1>6, <1>7

\* The older half of two keys or more is not empty.
LEMMA SomeAreOlder ==
  ASSUME place \in [CacheKey -> Nat], Ordered, NEW K \in SUBSET Remembered, IsFiniteSet(K),
         2 <= Cardinality(K)
  PROVE  Cardinality(K \ OlderHalf(K)) < Cardinality(K)
<1> DEFINE T == {place[k] : k \in K}
<1>0. Cardinality(K) \in Nat
  BY FS_CardinalityType
<1>1. K # {}
  BY <1>0, FS_EmptySet
<1>2. \A k \in K : k \in CacheKey /\ place[k] \in Nat
  BY DEF Remembered
<1>3. T \in SUBSET Nat /\ T # {}
  BY <1>1, <1>2
<1>4. PICK k \in K : \A j \in K : place[k] <= place[j]
  <2>1. \A j \in K : place[j] \in T
    OBVIOUS
  <2>2. \A n \in T : \E j \in K : n = place[j]
    OBVIOUS
  <2> HIDE DEF T
  <2>3. Min(T) \in T /\ \A n \in T : Min(T) <= n
    BY <1>3, LeastOfSome
  <2>4. PICK k \in K : Min(T) = place[k]
    BY <2>2, <2>3
  <2> QED
    BY <2>1, <2>3, <2>4
<1>5. {j \in K : place[j] <= place[k]} = {k}
  <2>1. ASSUME NEW j \in K, place[j] <= place[k] PROVE j = k
    <3>1. place[j] = place[k]
      BY <1>2, <1>4, <2>1
    <3> QED
      BY <3>1 DEF Ordered
  <2> QED
    BY <1>2, <2>1
<1>6. PlacesOf(K)[k] = 1
  BY <1>2, <1>5, FS_Singleton DEF PlacesOf
<1>7. 1 <= Cardinality(K) \div 2
  <2> DEFINE n == Cardinality(K)
  <2> HIDE DEF n
  <2>1. n \in Nat /\ 2 <= n => 1 <= n \div 2
    OBVIOUS
  <2> QED
    BY <1>0, <2>1 DEF n
<1>8. k \in OlderHalf(K)
  BY <1>6, <1>7 DEF OlderHalf
<1>9. K \ OlderHalf(K) \subseteq K /\ K \ OlderHalf(K) # K
  BY <1>8
<1> DEFINE R == K \ OlderHalf(K)
<1>10. R \subseteq K /\ R # K
  BY <1>9
<1> HIDE DEF R
<1>11. Cardinality(R) <= Cardinality(K) /\ Cardinality(R) # Cardinality(K) /\ Cardinality(R) \in Nat
  BY <1>10, FS_Subset, FS_CardinalityType
<1>12. Cardinality(R) < Cardinality(K)
  BY <1>0, <1>11
<1> QED
  BY <1>12 DEF R

\* What a full memory keeps leaves room for one more.
LEMMA ThereIsRoom ==
  ASSUME CacheInv
  PROVE  Kept \subseteq Remembered /\ IsFiniteSet(Kept) /\ Cardinality(Kept) < MaxMemory
<1>1. /\ place \in [CacheKey -> Nat] /\ Ordered /\ IsFiniteSet(Remembered) /\ Cardinality(Remembered) <= MaxMemory
      /\ Cardinality(Remembered) \in Nat
  BY FS_CardinalityType DEF CacheInv, CacheTypeOK, MemoryIsOrdered
<1>2. Living \in SUBSET Remembered
  BY DEF Living
<1>3. /\ IsFiniteSet(Living) /\ Cardinality(Living) <= Cardinality(Remembered) /\ Cardinality(Living) \in Nat
  BY <1>1, <1>2, FS_Subset, FS_CardinalityType
<1>4. MaxMemory \in Nat /\ 2 <= MaxMemory
  BY CacheAssumption
<1>5. CASE Cardinality(Remembered) < MaxMemory
  BY <1>1, <1>5 DEF Kept
<1>6. CASE ~(Cardinality(Remembered) < MaxMemory) /\ Cardinality(Living) < MaxMemory
  BY <1>2, <1>3, <1>6 DEF Kept, Pruned
<1>7. CASE ~(Cardinality(Remembered) < MaxMemory) /\ ~(Cardinality(Living) < MaxMemory)
  <2>1. Kept = Living \ OlderHalf(Living)
    BY <1>7 DEF Kept, Pruned
  <2>2. Cardinality(Living) = MaxMemory
    BY <1>1, <1>3, <1>4, <1>7
  <2>3. Cardinality(Living \ OlderHalf(Living)) < Cardinality(Living)
    BY <1>1, <1>2, <1>3, <1>4, <2>2, SomeAreOlder
  <2>4. Living \ OlderHalf(Living) \subseteq Living
    OBVIOUS
  <2>5. IsFiniteSet(Living \ OlderHalf(Living))
    BY <1>3, <2>4, FS_Subset
  <2> QED
    BY <1>2, <2>1, <2>2, <2>3, <2>4, <2>5
<1> QED
  BY <1>5, <1>6, <1>7

\* An answer is given in time.
LEMMA RepliesAreYoung ==
  ASSUME CacheTypeOK, ~stale, NEW c \in Caller, NEW answer \in Entry, Reply(c, answer),
         clock <= answer.made + answer.ttl + MaxFlight
  PROVE  /\ stale' = FALSE /\ caller' \in [Caller -> Call]
         /\ \A d \in Caller : caller'[d].pc = "store" => d # c /\ caller'[d] = caller[d]
<1>1. AtRest \in Call /\ AtRest.pc = "idle"
  BY CacheAssumption DEF AtRest, Call, Entry, Absence, Kind
<1>2. /\ stale' = (stale \/ clock > answer.made + answer.ttl + MaxFlight)
      /\ caller' = [caller EXCEPT ![c] = AtRest]
  BY DEF Reply
<1>3. ~(clock > answer.made + answer.ttl + MaxFlight)
  <2>1. clock \in Nat /\ answer.made + answer.ttl + MaxFlight \in Nat
    BY CacheAssumption DEF CacheTypeOK, Entry
  <2> QED
    BY <2>1
<1>4. stale' = FALSE
  BY <1>2, <1>3
<1>5. caller \in [Caller -> Call]
  BY DEF CacheTypeOK
<1> HIDE DEF CacheTypeOK
<1>6. caller' \in [Caller -> Call]
  BY <1>1, <1>2, <1>5
<1>7. \A d \in Caller : caller'[d].pc = "store" => d # c /\ caller'[d] = caller[d]
  BY <1>1, <1>2, <1>5
<1> QED
  BY <1>4, <1>6, <1>7

\* A call that asks the source has nothing to store yet.
LEMMA AskingIsYoung ==
  ASSUME CacheTypeOK, NEW c \in Caller, NEW k \in CacheKey, AskSource(c, k)
  PROVE  /\ stale' = stale /\ caller' \in [Caller -> Call]
         /\ \A d \in Caller : caller'[d].pc = "store" => d # c /\ caller'[d] = caller[d]
<1> DEFINE q == [AtRest EXCEPT !.pc = "produce", !.key = k]
<1>1. q \in Call /\ q.pc = "produce"
  BY CacheAssumption DEF AtRest, Call, Entry, Absence, Kind
<1> HIDE DEF q
<1>2. caller' = [caller EXCEPT ![c] = q] /\ stale' = stale
  BY DEF AskSource, q
<1>3. caller \in [Caller -> Call]
  BY DEF CacheTypeOK
<1> QED
  BY <1>1, <1>2, <1>3

\* The calls that store go on as they were.
LEMMA OthersGoOn ==
  ASSUME CallsAreInTime, clock' = clock, caller' \in [Caller -> Call],
         \A d \in Caller : caller'[d].pc = "store" => caller'[d] = caller[d]
  PROVE  CallsAreInTime'
BY DEF CallsAreInTime, Keepable

LEMMA TablesStand ==
  ASSUME EntriesAreYoung, redis' = redis, memory' = memory, clock' = clock, stale' = FALSE
  PROVE  EntriesAreYoung'
BY DEF EntriesAreYoung, InTime, Keepable

LEMMA MapStands ==
  ASSUME MemoryIsOrdered, memory' = memory, place' = place
  PROVE  MemoryIsOrdered'
<1>1. Remembered' = Remembered
  BY DEF Remembered
<1> QED
  BY <1>1 DEF MemoryIsOrdered, Ordered

\* Places numbered anew, with or without one more key at the end.
LEMMA MapIsRenumbered ==
  ASSUME CacheInv, NEW K \in SUBSET Remembered, IsFiniteSet(K), place' = PlacesOf(K),
         Cardinality(K) <= MaxMemory,
         \A k \in CacheKey : k \in K <=> memory'[k].kind # "absent"
  PROVE  MemoryIsOrdered' /\ place' \in [CacheKey -> Nat]
<1>1. place \in [CacheKey -> Nat] /\ Ordered /\ K \subseteq CacheKey
  BY DEF CacheInv, CacheTypeOK, MemoryIsOrdered, Remembered
<1>2. /\ Cardinality(K) \in Nat
      /\ PlacesOf(K) \in [CacheKey -> Nat]
      /\ \A k \in CacheKey : IF k \in K THEN PlacesOf(K)[k] \in 1..Cardinality(K)
                                        ELSE PlacesOf(K)[k] = 0
      /\ \A j, k \in K : PlacesOf(K)[j] = PlacesOf(K)[k] => j = k
  BY <1>1, PlacesAreInOrder
<1>3. \A k \in CacheKey : k \in K <=> place'[k] > 0
  BY <1>2
<1>4. Remembered' = K
  BY <1>1, <1>3 DEF Remembered
<1> QED
  BY <1>2, <1>4 DEF MemoryIsOrdered, Ordered

LEMMA MapGrows ==
  ASSUME CacheInv, NEW K \in SUBSET Remembered, IsFiniteSet(K), NEW key \in CacheKey \ K,
         place' = [PlacesOf(K) EXCEPT ![key] = Cardinality(K) + 1],
         Cardinality(K) < MaxMemory,
         \A k \in CacheKey : k \in K \cup {key} <=> memory'[k].kind # "absent"
  PROVE  MemoryIsOrdered' /\ place' \in [CacheKey -> Nat]
<1>1. place \in [CacheKey -> Nat] /\ Ordered /\ K \subseteq CacheKey
  BY DEF CacheInv, CacheTypeOK, MemoryIsOrdered, Remembered
<1>2. /\ Cardinality(K) \in Nat
      /\ PlacesOf(K) \in [CacheKey -> Nat]
      /\ \A k \in CacheKey : IF k \in K THEN PlacesOf(K)[k] \in 1..Cardinality(K)
                                        ELSE PlacesOf(K)[k] = 0
      /\ \A j, k \in K : PlacesOf(K)[j] = PlacesOf(K)[k] => j = k
  BY <1>1, PlacesAreInOrder
<1>3. place' \in [CacheKey -> Nat]
  BY <1>2
<1>4. \A k \in CacheKey : IF k = key THEN place'[k] = Cardinality(K) + 1 ELSE place'[k] = PlacesOf(K)[k]
  BY <1>2
<1>5. \A k \in CacheKey : k \in K \cup {key} <=> place'[k] > 0
  BY <1>2, <1>4
<1>6. Remembered' = K \cup {key}
  BY <1>1, <1>5 DEF Remembered
<1>7. /\ IsFiniteSet(K \cup {key}) /\ Cardinality(K \cup {key}) = Cardinality(K) + 1
  BY FS_AddElement
<1>8. \A j, k \in K \cup {key} : place'[j] = place'[k] => j = k
  BY <1>1, <1>2, <1>4
<1>9. Cardinality(K) + 1 <= MaxMemory
  BY <1>2, CacheAssumption
<1> QED
  BY <1>3, <1>6, <1>7, <1>8, <1>9 DEF MemoryIsOrdered, Ordered

LEMMA CacheStepKeepsCache ==
  ASSUME CacheInv, [CacheNext]_cacheVars
  PROVE  CacheInv'
<1>0. /\ CacheTypeOK /\ EntriesAreYoung /\ CallsAreInTime /\ MemoryIsOrdered
      /\ ~stale /\ clock \in Nat /\ stale \in BOOLEAN
      /\ {LongTtl, ShortTtl, MaxFlight} \subseteq Nat
  BY CacheAssumption DEF CacheInv, CacheTypeOK, EntriesAreYoung
<1>1. ASSUME NEW c \in Caller, NEW k \in CacheKey, LookInRedis(c, k) PROVE CacheInv'
  <2>1. clock' = clock /\ redis' = redis /\ memory' = memory /\ place' = place
    BY <1>1 DEF LookInRedis
  <2>2. /\ stale' = FALSE /\ caller' \in [Caller -> Call]
        /\ \A d \in Caller : caller'[d].pc = "store" => d # c /\ caller'[d] = caller[d]
    <3>1. CASE redis[k] # Absence
      <4>1. redis[k] \in Entry /\ InTime(redis[k]) /\ clock <= redis[k].expires
        BY <1>0, <3>1 DEF EntriesAreYoung, CacheTypeOK
      <4>2. clock <= redis[k].made + redis[k].ttl + MaxFlight
        BY <1>0, <4>1 DEF InTime, Entry
      <4>3. Reply(c, redis[k])
        BY <1>1, <3>1 DEF LookInRedis
      <4> QED
        BY <1>0, <4>1, <4>2, <4>3, RepliesAreYoung
    <3>2. CASE redis[k] = Absence
      <4>1. AskSource(c, k)
        BY <1>1, <3>2 DEF LookInRedis
      <4> QED
        BY <1>0, <4>1, AskingIsYoung
    <3> QED
      BY <3>1, <3>2
  <2>3. CacheTypeOK'
    BY <1>0, <2>1, <2>2 DEF CacheTypeOK
  <2> QED
    BY <1>0, <2>1, <2>2, <2>3, OthersGoOn, TablesStand, MapStands DEF CacheInv
<1>2. ASSUME NEW c \in Caller, NEW k \in CacheKey, LookInMemory(c, k) PROVE CacheInv'
  <2>1. clock' = clock /\ redis' = redis
    BY <1>2 DEF LookInMemory
  <2>2. CASE Fresh(memory[k])
    <3>1. memory' = memory /\ place' = place /\ Reply(c, memory[k])
      BY <1>2, <2>2 DEF LookInMemory
    <3>2. memory[k] \in Entry /\ InTime(memory[k]) /\ clock < memory[k].expires
      BY <1>0, <2>2 DEF EntriesAreYoung, CacheTypeOK, Fresh, Absence, Entry
    <3>3. clock <= memory[k].made + memory[k].ttl + MaxFlight
      BY <1>0, <3>2 DEF InTime, Entry
    <3>4. /\ stale' = FALSE /\ caller' \in [Caller -> Call]
          /\ \A d \in Caller : caller'[d].pc = "store" => d # c /\ caller'[d] = caller[d]
      BY <1>0, <3>1, <3>2, <3>3, RepliesAreYoung
    <3>5. CacheTypeOK'
      BY <1>0, <2>1, <3>1, <3>4 DEF CacheTypeOK
    <3> QED
      BY <1>0, <2>1, <3>1, <3>4, <3>5, OthersGoOn, TablesStand, MapStands DEF CacheInv
  <2>3. CASE ~Fresh(memory[k])
    <3>1. /\ AskSource(c, k) /\ memory' = [memory EXCEPT ![k] = Absence]
          /\ place' = PlacesOf(Remembered \ {k})
      BY <1>2, <2>3 DEF LookInMemory
    <3>2. /\ stale' = FALSE /\ caller' \in [Caller -> Call]
          /\ \A d \in Caller : caller'[d].pc = "store" => d # c /\ caller'[d] = caller[d]
      BY <1>0, <3>1, AskingIsYoung
    <3>3. Absence \in Entry /\ Absence.kind = "absent"
      BY DEF Absence, Entry, Kind
    <3>4. memory' \in [CacheKey -> Entry]
      BY <1>0, <3>1, <3>3 DEF CacheTypeOK
    <3>5. EntriesAreYoung'
      BY <1>0, <2>1, <3>1, <3>2 DEF EntriesAreYoung, CacheTypeOK, InTime, Keepable
    <3>6. MemoryIsOrdered' /\ place' \in [CacheKey -> Nat]
      <4> DEFINE K == Remembered \ {k}
      <4>1. K \in SUBSET Remembered
        OBVIOUS
      <4>2. \A j \in CacheKey : j \in K <=> memory'[j].kind # "absent"
        BY <1>0, <3>1, <3>3 DEF MemoryIsOrdered, CacheTypeOK
      <4> HIDE DEF K
      <4>3. IsFiniteSet(Remembered) /\ Cardinality(Remembered) \in Nat /\ Cardinality(Remembered) <= MaxMemory
        BY <1>0, FS_CardinalityType DEF MemoryIsOrdered
      <4>4. /\ IsFiniteSet(K) /\ Cardinality(K) \in Nat /\ Cardinality(K) <= Cardinality(Remembered)
        BY <4>1, <4>3, FS_Subset, FS_CardinalityType
      <4>5. Cardinality(K) <= MaxMemory
        BY <4>3, <4>4, CacheAssumption
      <4>6. place' = PlacesOf(K)
        BY <3>1 DEF K
      <4> QED
        BY <4>1, <4>2, <4>4, <4>5, <4>6, MapIsRenumbered
    <3>7. CacheTypeOK'
      BY <1>0, <2>1, <3>2, <3>4, <3>6 DEF CacheTypeOK
    <3> QED
      BY <1>0, <2>1, <3>2, <3>5, <3>6, <3>7, OthersGoOn DEF CacheInv
  <2> QED
    BY <2>2, <2>3
<1>3. ASSUME NEW c \in Caller, NEW kind \in {"value", "partial", "outage"}, Produce(c, kind) PROVE CacheInv'
  <2> DEFINE answer == [made |-> clock, kind |-> kind, expires |-> 0,
                     ttl |-> IF kind = "value" THEN LongTtl ELSE ShortTtl]
  <2>1. clock' = clock /\ redis' = redis /\ memory' = memory /\ place' = place
    BY <1>3 DEF Produce
  <2>2. answer \in Entry /\ answer.made = clock /\ answer.kind = kind
    BY <1>0 DEF Entry, Kind
  <2>3. IF kind = "outage" THEN Reply(c, answer)
        ELSE /\ caller' = [caller EXCEPT ![c].pc = "store", ![c].got = answer]
             /\ stale' = stale
    BY <1>3 DEF Produce
  <2> HIDE DEF answer
  <2>4. clock <= answer.made + answer.ttl + MaxFlight /\ clock <= answer.made + MaxFlight
    BY <1>0, <2>2 DEF Entry
  <2>5. /\ stale' = FALSE /\ caller' \in [Caller -> Call] /\ CallsAreInTime'
    <3>1. CASE kind = "outage"
      <4>1. Reply(c, answer)
        BY <2>3, <3>1
      <4>2. /\ stale' = FALSE /\ caller' \in [Caller -> Call]
            /\ \A d \in Caller : caller'[d].pc = "store" => d # c /\ caller'[d] = caller[d]
        BY <1>0, <2>2, <2>4, <4>1, RepliesAreYoung
      <4> QED
        BY <1>0, <2>1, <4>2, OthersGoOn
    <3>2. CASE kind # "outage"
      <4>1. /\ caller' = [caller EXCEPT ![c].pc = "store", ![c].got = answer] /\ stale' = FALSE
        BY <1>0, <2>3, <3>2
      <4>2. caller' \in [Caller -> Call]
        BY <1>0, <2>2, <4>1 DEF CacheTypeOK, Call
      <4>3. Keepable(answer)
        BY <2>2, <3>2 DEF Keepable
      <4>4. caller'[c].got = answer /\ \A d \in Caller \ {c} : caller'[d] = caller[d]
        BY <1>0, <4>1 DEF CacheTypeOK, Call
      <4>5. CallsAreInTime'
        BY <1>0, <2>1, <2>4, <4>3, <4>4 DEF CallsAreInTime, Keepable
      <4> QED
        BY <4>1, <4>2, <4>5
    <3> QED
      BY <3>1, <3>2
  <2>6. CacheTypeOK'
    BY <1>0, <2>1, <2>5 DEF CacheTypeOK
  <2> QED
    BY <1>0, <2>1, <2>5, <2>6, TablesStand, MapStands DEF CacheInv
<1>4. ASSUME NEW c \in Caller, Store(c) PROVE CacheInv'
  <2> DEFINE answer == caller[c].got
             key == caller[c].key
             e == Stored(c)
  <2>1. /\ caller[c].pc = "store" /\ Reply(c, answer) /\ clock' = clock
        /\ \/ StoreInRedis(c) /\ memory' = memory /\ place' = place
           \/ StoreInMemory(c) /\ redis' = redis
           \/ StoreInRedis(c) /\ StoreInMemory(c)
    BY <1>4 DEF Store
  <2>2. /\ answer \in Entry /\ key \in CacheKey /\ Keepable(answer) /\ clock <= answer.made + MaxFlight
    BY <1>0, <2>1 DEF CacheTypeOK, Call, CallsAreInTime
  <2>3. /\ e \in Entry /\ InTime(e) /\ clock <= e.expires /\ e.kind # "absent"
        /\ clock <= answer.made + answer.ttl + MaxFlight
    BY <1>0, <2>2 DEF Stored, Entry, InTime, Keepable
  <2> HIDE DEF answer, e
  <2>4. /\ stale' = FALSE /\ caller' \in [Caller -> Call]
        /\ \A d \in Caller : caller'[d].pc = "store" => d # c /\ caller'[d] = caller[d]
    BY <1>0, <2>1, <2>2, <2>3, RepliesAreYoung
  <2>5. CallsAreInTime'
    BY <1>0, <2>1, <2>4, OthersGoOn
  <2>6. ASSUME StoreInRedis(c)
        PROVE  /\ redis' \in [CacheKey -> Entry]
               /\ \A k \in CacheKey : redis'[k] = Absence \/ (InTime(redis'[k]) /\ redis'[k].expires >= clock)
    <3>1. redis' = [redis EXCEPT ![key] = e]
      BY <2>6 DEF StoreInRedis, e
    <3> QED
      BY <1>0, <2>2, <2>3, <3>1 DEF CacheTypeOK, EntriesAreYoung, Entry
  <2>7. ASSUME StoreInMemory(c)
        PROVE  /\ memory' \in [CacheKey -> Entry] /\ place' \in [CacheKey -> Nat] /\ MemoryIsOrdered'
               /\ \A k \in CacheKey : memory'[k] = Absence \/ InTime(memory'[k])
    <3>1. /\ memory' = [k \in CacheKey |-> IF k = key THEN e ELSE IF k \in Kept THEN memory[k] ELSE Absence]
          /\ place' = IF key \in Kept THEN PlacesOf(Kept)
                      ELSE [PlacesOf(Kept) EXCEPT ![key] = Cardinality(Kept) + 1]
      BY <2>7 DEF StoreInMemory, e
    <3>2. Kept \in SUBSET Remembered /\ IsFiniteSet(Kept) /\ Cardinality(Kept) < MaxMemory /\ Cardinality(Kept) \in Nat
      BY ThereIsRoom, FS_CardinalityType
    <3>3. Absence \in Entry /\ Absence.kind = "absent"
      BY DEF Absence, Entry, Kind
    <3>4. /\ memory' \in [CacheKey -> Entry]
          /\ \A k \in CacheKey : memory'[k] = Absence \/ InTime(memory'[k])
      BY <1>0, <2>3, <3>1, <3>3 DEF CacheTypeOK, EntriesAreYoung
    <3>5. \A k \in CacheKey : k \in Kept \cup {key} <=> memory'[k].kind # "absent"
      BY <1>0, <2>3, <3>1, <3>2, <3>3 DEF MemoryIsOrdered
    <3>6. CASE key \in Kept
      <4>1. \A k \in CacheKey : k \in Kept <=> memory'[k].kind # "absent"
        BY <3>5, <3>6
      <4>2. Cardinality(Kept) <= MaxMemory /\ place' = PlacesOf(Kept)
        BY <3>1, <3>2, <3>6, CacheAssumption
      <4> QED
        BY <3>2, <3>4, <4>1, <4>2, MapIsRenumbered
    <3>7. CASE key \notin Kept
      <4>1. place' = [PlacesOf(Kept) EXCEPT ![key] = Cardinality(Kept) + 1]
        BY <3>1, <3>7
      <4> QED
        BY <2>2, <3>2, <3>4, <3>5, <3>7, <4>1, MapGrows
    <3> QED
      BY <3>6, <3>7
  <2>8. /\ redis' \in [CacheKey -> Entry]
        /\ \A k \in CacheKey : redis'[k] = Absence \/ (InTime(redis'[k]) /\ redis'[k].expires >= clock)
    <3>1. CASE redis' = redis
      BY <1>0, <3>1 DEF CacheTypeOK, EntriesAreYoung
    <3> QED
      BY <2>1, <2>6, <3>1
  <2>9. /\ memory' \in [CacheKey -> Entry] /\ place' \in [CacheKey -> Nat] /\ MemoryIsOrdered'
        /\ \A k \in CacheKey : memory'[k] = Absence \/ InTime(memory'[k])
    <3>1. CASE memory' = memory /\ place' = place
      <4>1. MemoryIsOrdered'
        BY <1>0, <3>1, MapStands
      <4> QED
        BY <1>0, <3>1, <4>1 DEF CacheTypeOK, EntriesAreYoung
    <3> QED
      BY <2>1, <2>7, <3>1
  <2>10. CacheTypeOK'
    BY <1>0, <2>1, <2>4, <2>8, <2>9 DEF CacheTypeOK
  <2>11. EntriesAreYoung'
    BY <2>1, <2>4, <2>8, <2>9 DEF EntriesAreYoung, InTime, Keepable
  <2> QED
    BY <2>5, <2>9, <2>10, <2>11 DEF CacheInv
<1>5. CASE Elapse
  <2>1. /\ \A c \in Caller : caller[c].pc = "store" => clock < caller[c].got.made + MaxFlight
        /\ clock' = clock + 1
        /\ redis' = [k \in CacheKey |-> IF redis[k].expires > clock' THEN redis[k] ELSE Absence]
        /\ memory' = memory /\ place' = place /\ caller' = caller /\ stale' = stale
    BY <1>5 DEF Elapse
  <2>2. Absence \in Entry
    BY DEF Absence, Entry, Kind
  <2>3. clock' \in Nat /\ redis' \in [CacheKey -> Entry]
    BY <1>0, <2>1, <2>2 DEF CacheTypeOK
  <2>4. CacheTypeOK'
    BY <1>0, <2>1, <2>3 DEF CacheTypeOK
  <2>5. EntriesAreYoung'
    <3>1. ASSUME NEW k \in CacheKey
          PROVE  redis'[k] = Absence \/ (InTime(redis'[k]) /\ redis'[k].expires >= clock')
      <4>1. CASE redis[k].expires > clock'
        <5>1. redis'[k] = redis[k] /\ redis[k].expires \in Nat
          BY <1>0, <2>1, <4>1 DEF CacheTypeOK, Entry
        <5>2. redis'[k].expires >= clock'
          BY <2>3, <4>1, <5>1
        <5> QED
          BY <1>0, <5>1, <5>2 DEF EntriesAreYoung
      <4>2. CASE ~(redis[k].expires > clock')
        BY <2>1, <4>2
      <4> QED
        BY <4>1, <4>2
    <3> QED
      BY <1>0, <2>1, <3>1 DEF EntriesAreYoung, InTime, Keepable
  <2>6. CallsAreInTime'
    <3>1. ASSUME NEW c \in Caller, caller[c].pc = "store"
          PROVE  clock' <= caller[c].got.made + MaxFlight
      <4>1. clock < caller[c].got.made + MaxFlight /\ caller[c].got.made + MaxFlight \in Nat
        BY <1>0, <2>1, <3>1 DEF CacheTypeOK, Call, Entry
      <4> QED
        BY <1>0, <2>1, <4>1
    <3> QED
      BY <1>0, <2>1, <3>1 DEF CallsAreInTime, Keepable
  <2> QED
    BY <1>0, <2>1, <2>4, <2>5, <2>6, MapStands DEF CacheInv
<1>6. CASE ProcessRestarts
  <2>1. /\ memory' = [k \in CacheKey |-> Absence] /\ place' = [k \in CacheKey |-> 0]
        /\ caller' = [c \in Caller |-> AtRest]
        /\ clock' = clock /\ redis' = redis /\ stale' = stale
    BY <1>6 DEF ProcessRestarts
  <2>2. /\ AtRest \in Call /\ AtRest.pc = "idle"
        /\ Absence \in Entry /\ Absence.kind = "absent"
    BY CacheAssumption DEF AtRest, Call, Entry, Absence, Kind
  <2>3. CacheTypeOK'
    BY <1>0, <2>1, <2>2 DEF CacheTypeOK
  <2>4. EntriesAreYoung'
    BY <1>0, <2>1 DEF EntriesAreYoung, InTime, Keepable
  <2>5. CallsAreInTime'
    BY <2>1, <2>2 DEF CallsAreInTime
  <2>6. Remembered' = {}
    BY <2>1 DEF Remembered
  <2>7. MemoryIsOrdered'
    BY <2>1, <2>2, <2>6, FS_EmptySet, CacheAssumption DEF MemoryIsOrdered, Ordered
  <2> QED
    BY <2>3, <2>4, <2>5, <2>7 DEF CacheInv
<1>7. CASE UNCHANGED cacheVars
  <2>1. /\ clock' = clock /\ redis' = redis /\ memory' = memory /\ place' = place /\ caller' = caller
        /\ stale' = stale
    BY <1>7 DEF cacheVars
  <2>2. CacheTypeOK'
    BY <1>0, <2>1 DEF CacheTypeOK
  <2>3. stale' = FALSE /\ caller' \in [Caller -> Call]
    BY <1>0, <2>1 DEF CacheTypeOK
  <2> QED
    BY <1>0, <2>1, <2>2, <2>3, OthersGoOn, TablesStand, MapStands DEF CacheInv
<1> QED
  BY <1>1, <1>2, <1>3, <1>4, <1>5, <1>6, <1>7 DEF CacheNext

LEMMA InitCache == CacheInit => CacheInv
<1> SUFFICES ASSUME CacheInit PROVE CacheInv
  OBVIOUS
<1>1. /\ AtRest \in Call /\ AtRest.pc = "idle"
      /\ Absence \in Entry /\ Absence.kind = "absent"
  BY CacheAssumption DEF AtRest, Call, Entry, Absence, Kind
<1>2. /\ clock = 0 /\ redis = [k \in CacheKey |-> Absence] /\ memory = redis
      /\ place = [k \in CacheKey |-> 0] /\ caller = [c \in Caller |-> AtRest] /\ stale = FALSE
  BY DEF CacheInit
<1>3. CacheTypeOK
  BY <1>1, <1>2 DEF CacheTypeOK
<1>4. EntriesAreYoung /\ CallsAreInTime
  BY <1>1, <1>2 DEF EntriesAreYoung, CallsAreInTime
<1>5. Remembered = {}
  BY <1>2 DEF Remembered
<1>6. MemoryIsOrdered
  BY <1>1, <1>2, <1>5, FS_EmptySet, CacheAssumption DEF MemoryIsOrdered, Ordered
<1> QED
  BY <1>3, <1>4, <1>6 DEF CacheInv

\* What is kept expires in time, whoever keeps it, and the Map of the process is
\* in order and within its limit (get, set, pruneMemory).
THEOREM CacheInvHolds == CacheSpec => []CacheInv
BY InitCache, CacheStepKeepsCache, PTL DEF CacheSpec

\* For any number of keys and calls, any lives and any limit above one: no answer
\* is older than its life and the time it took to store, no outage is kept, and
\* the memory holds what its Map says, within its limit.
THEOREM AnswersStayYoung == CacheSpec => []AnswersAreYoung
<1>1. CacheInv => AnswersAreYoung
  BY DEF CacheInv, EntriesAreYoung, InTime, Keepable, Absence, MemoryIsOrdered, AnswersAreYoung, Remembered
<1> QED
  BY <1>1, CacheInvHolds, PTL

-----------------------------------------------------------------------------
(* Rebuild *)

RbTypeOK ==
  /\ importer \in Importer
  /\ upstream \in SUBSET Item
  /\ rbPc \in {"idle", "fetch", "check", "delete", "insert"}
  /\ layer \in 1..Layers[importer] /\ start \in Nat
  /\ got \in Seq(SUBSET Item)
  /\ failed \in BOOLEAN /\ steady \in BOOLEAN
  /\ draft \in SUBSET Item /\ written \in Nat /\ shown \in SUBSET Item
  /\ changes \in Nat

\* Some answer brought the item.
Has(i) == \E n \in DOMAIN got : i \in got[n]

\* While the source stands still, the answers brought the layers before this one
\* and the items of this one that were passed; and in the end all of them.
ReadSoFar ==
  rbPc = "fetch" /\ steady /\ ~failed =>
    \A i \in Item : Has(i) <=> \/ i \in upstream /\ \E l \in 1..layer - 1 : InLayer(i, l)
                               \/ i \in Leading(Listed(layer), start)

AllIsRead ==
  rbPc \in {"check", "delete", "insert"} /\ steady /\ ~failed =>
    \A i \in Item : Has(i) <=> i \in upstream

\* The table is emptied only for a list that was read whole and is long enough.
ListIsTrusted == rbPc \in {"delete", "insert"} => Believable /\ ~failed

Through == {r \in Rows : Position(r) <= written}

\* The transaction sees a row for each row of the list it has been through.
DraftIsTheList ==
  rbPc = "insert" => /\ draft = {r[2] : r \in Through}
                     /\ \A r, q \in Through : r[2] = q[2] => r = q

RbInv == RbTypeOK /\ ReadSoFar /\ AllIsRead /\ ListIsTrusted /\ DraftIsTheList

-----------------------------------------------------------------------------

\* Items have ranks from one, and as many have a rank up to n as there are.
LEMMA RanksAreRanks ==
  ASSUME NEW S \in SUBSET Nat, IsFiniteSet(S)
  PROVE  /\ Cardinality(S) \in Nat
         /\ \A i \in S : Rank(i, S) \in 1..Cardinality(S)
         /\ \A i, j \in S : Rank(i, S) = Rank(j, S) => i = j
<1> DEFINE Before(i) == {j \in S : j <= i}
<1>1. \A i : Rank(i, S) = Cardinality(Before(i))
  BY DEF Rank
<1>2. Cardinality(S) \in Nat
  BY FS_CardinalityType
<1>3. ASSUME NEW i \in S PROVE IsFiniteSet(Before(i)) /\ Cardinality(Before(i)) \in 1..Cardinality(S)
  <2>1. Before(i) \subseteq S /\ i \in Before(i)
    OBVIOUS
  <2> HIDE DEF Before
  <2>2. /\ IsFiniteSet(Before(i)) /\ Cardinality(Before(i)) \in Nat
        /\ Cardinality(Before(i)) <= Cardinality(S)
    BY <2>1, FS_Subset, FS_CardinalityType
  <2>3. Cardinality(Before(i)) # 0
    BY <2>1, <2>2, FS_EmptySet
  <2> QED
    BY <1>2, <2>2, <2>3
<1>4. ASSUME NEW i \in S, NEW j \in S, i < j PROVE Cardinality(Before(i)) # Cardinality(Before(j))
  <2>1. Before(i) \subseteq Before(j) /\ j \in Before(j) /\ j \notin Before(i)
    <3>1. \A k \in S : k \in Nat
      OBVIOUS
    <3>2. i \in Nat /\ j \in Nat /\ i < j /\ \A k \in S : k <= i => k <= j
      BY <1>4, <3>1
    <3>3. j <= j /\ ~(j <= i)
      BY <3>2
    <3> QED
      BY <3>2, <3>3
  <2>2. IsFiniteSet(Before(j))
    BY <1>3
  <2> HIDE DEF Before
  <2> QED
    BY <2>1, <2>2, FS_Subset
<1>5. ASSUME NEW i \in S, NEW j \in S, Rank(i, S) = Rank(j, S) PROVE i = j
  <2>1. Cardinality(Before(i)) = Cardinality(Before(j))
    BY <1>1, <1>5
  <2> HIDE DEF Before
  <2>2. ~(i < j) /\ ~(j < i)
    BY <1>4, <2>1
  <2> QED
    BY <2>2
<1> HIDE DEF Before
<1> QED
  BY <1>1, <1>2, <1>3, <1>5

LEMMA LeadingItems ==
  ASSUME NEW S \in SUBSET Nat, IsFiniteSet(S), NEW n \in Nat
  PROVE  /\ Leading(S, n) \subseteq S /\ IsFiniteSet(Leading(S, n))
         /\ Leading(S, 0) = {}
         /\ \A m \in Nat : m <= n => Leading(S, m) \subseteq Leading(S, n)
         /\ Cardinality(S) <= n => Leading(S, n) = S
         /\ n <= Cardinality(S) => Cardinality(Leading(S, n)) = n
<1>1. /\ Cardinality(S) \in Nat
      /\ \A i \in S : Rank(i, S) \in 1..Cardinality(S)
      /\ \A i, j \in S : Rank(i, S) = Rank(j, S) => i = j
  BY RanksAreRanks
<1> DEFINE T == Leading(S, n)
           U == S \ T
<1>2. T \subseteq S /\ IsFiniteSet(T) /\ IsFiniteSet(U)
  <2>1. T \subseteq S /\ U \subseteq S
    BY DEF Leading
  <2> QED
    BY <2>1, FS_Subset
<1>a. \A i \in S : Rank(i, S) \in Nat /\ 1 <= Rank(i, S) /\ Rank(i, S) <= Cardinality(S)
  BY <1>1
<1>b. \A m : \A i : i \in Leading(S, m) <=> i \in S /\ Rank(i, S) <= m
  BY DEF Leading
<1>3. Leading(S, 0) = {}
  <2>1. \A i \in S : ~(Rank(i, S) <= 0)
    BY <1>a
  <2> QED
    BY <1>b, <2>1
<1>4. \A m \in Nat : m <= n => Leading(S, m) \subseteq T
  <2>1. \A m \in Nat, i \in S : m <= n /\ Rank(i, S) <= m => Rank(i, S) <= n
    BY <1>a
  <2> QED
    BY <1>b, <2>1
<1>5. ASSUME Cardinality(S) <= n PROVE T = S
  <2>1. \A i \in S : Rank(i, S) <= n
    BY <1>1, <1>a, <1>5
  <2> QED
    BY <1>b, <2>1
<1>6. ASSUME n <= Cardinality(S) PROVE Cardinality(T) = n
  <2> DEFINE f == [i \in T |-> Rank(i, S)]
             g == [i \in U |-> Rank(i, S)]
  <2>1. \A i \in T : i \in S /\ Rank(i, S) \in 1..n
    BY <1>1 DEF Leading
  <2>2. \A i \in U : i \in S /\ Rank(i, S) \in n + 1..Cardinality(S)
    BY <1>1 DEF Leading
  <2> HIDE DEF T, U
  <2>3. f \in Injection(T, 1..n)
    BY <1>1, <2>1 DEF Injection, IsInjective
  <2>4. g \in Injection(U, n + 1..Cardinality(S))
    BY <1>1, <2>2 DEF Injection, IsInjective
  <2> HIDE DEF f, g
  <2>5. /\ IsFiniteSet(1..n) /\ Cardinality(1..n) = n
        /\ IsFiniteSet(n + 1..Cardinality(S)) /\ Cardinality(n + 1..Cardinality(S)) = Cardinality(S) - n
    <3> DEFINE c == Cardinality(S)
    <3> HIDE DEF c
    <3>1. c \in Nat /\ n <= c
      BY <1>1, <1>6 DEF c
    <3>2. IsFiniteSet(1..n) /\ Cardinality(1..n) = n
      BY FS_Interval
    <3>3. IsFiniteSet(n + 1..c) /\ Cardinality(n + 1..c) = IF n + 1 > c THEN 0 ELSE c - (n + 1) + 1
      BY <3>1, FS_Interval
    <3>4. IsFiniteSet(n + 1..c) /\ Cardinality(n + 1..c) = c - n
      BY <3>1, <3>3
    <3> QED
      BY <3>2, <3>4 DEF c
  <2>6. Cardinality(T) <= n /\ Cardinality(U) <= Cardinality(S) - n
    BY <2>3, <2>4, <2>5, FS_Injection
  <2>7. Cardinality(U) = Cardinality(S) - Cardinality(S \cap T)
    BY FS_Difference DEF U
  <2>8. S \cap T = T /\ Cardinality(T) \in Nat /\ Cardinality(U) \in Nat
    BY <1>2, FS_CardinalityType
  <2> QED
    BY <1>1, <2>6, <2>7, <2>8
<1> QED
  BY <1>2, <1>3, <1>4, <1>5, <1>6

\* A page is full while there are that many items left.
LEMMA PagesAreFull ==
  ASSUME NEW S \in SUBSET Nat, IsFiniteSet(S), NEW n \in Nat, NEW size \in Nat,
         n + size <= Cardinality(S)
  PROVE  Cardinality(Leading(S, n + size) \ Leading(S, n)) = size
<1> DEFINE T == Leading(S, n + size)
           V == Leading(S, n)
<1>1. n + size \in Nat /\ n <= n + size /\ Cardinality(S) \in Nat /\ n <= Cardinality(S)
  BY FS_CardinalityType
<1>2. IsFiniteSet(T) /\ Cardinality(T) = n + size /\ Cardinality(V) = n /\ V \subseteq T
  BY <1>1, LeadingItems
<1> HIDE DEF T, V
<1>3. T \cap V = V
  BY <1>2
<1>4. Cardinality(T \ V) = Cardinality(T) - Cardinality(T \cap V)
  BY <1>2, FS_Difference
<1>5. Cardinality(T \ V) = size
  BY <1>2, <1>3, <1>4
<1> QED
  BY <1>5 DEF T, V

LEMMA LayersAreFinite ==
  ASSUME RbTypeOK, NEW l
  PROVE  Listed(l) \in SUBSET Nat /\ Listed(l) \subseteq Item /\ IsFiniteSet(Listed(l))
<1>1. Listed(l) \in SUBSET Item
  BY DEF Listed, RbTypeOK
<1>2. Item \subseteq Nat /\ IsFiniteSet(Item)
  BY RebuildAssumption
<1> QED
  BY <1>1, <1>2, FS_Subset

LEMMA PagesAreItems ==
  ASSUME RbTypeOK
  PROVE  /\ Page \subseteq Item
         /\ \A i : i \in Leading(Listed(layer), start) \/ i \in Page <=> i \in Leading(Listed(layer), start + PageSize)
         /\ Cardinality(Page) < PageSize \/ start + PageSize >= Cardinality(Listed(layer)) =>
              Leading(Listed(layer), start + PageSize) = Listed(layer)
<1> DEFINE S == Listed(layer)
<1>0. S \in SUBSET Nat /\ S \subseteq Item /\ IsFiniteSet(S) /\ Cardinality(S) \in Nat
  BY LayersAreFinite, FS_CardinalityType
<1>1. start \in Nat /\ PageSize \in Nat /\ start + PageSize \in Nat /\ start <= start + PageSize
  BY RebuildAssumption DEF RbTypeOK
<1> HIDE DEF S
<1>2. /\ Leading(S, start) \subseteq Leading(S, start + PageSize) /\ Leading(S, start + PageSize) \subseteq S
      /\ Cardinality(S) <= start + PageSize => Leading(S, start + PageSize) = S
  BY <1>0, <1>1, LeadingItems
<1>3. Page = Leading(S, start + PageSize) \ Leading(S, start)
  BY DEF Page, S
<1>4. ASSUME Cardinality(Page) < PageSize PROVE Cardinality(S) <= start + PageSize
  <2>1. ~(start + PageSize <= Cardinality(S))
    BY <1>0, <1>1, <1>3, <1>4, PagesAreFull
  <2> QED
    BY <1>0, <1>1, <2>1
<1>5. start + PageSize >= Cardinality(S) => Cardinality(S) <= start + PageSize
  BY <1>0, <1>1
<1>6. Cardinality(Page) < PageSize \/ start + PageSize >= Cardinality(S) => Leading(S, start + PageSize) = S
  BY <1>2, <1>4, <1>5
<1> QED
  BY <1>0, <1>2, <1>3, <1>6 DEF S

-----------------------------------------------------------------------------

LEMMA AnswersAdd ==
  ASSUME RbTypeOK, NEW items \in SUBSET Item, got' = Append(got, items)
  PROVE  /\ got' \in Seq(SUBSET Item)
         /\ \A i : Has(i)' <=> Has(i) \/ i \in items
<1>1. got \in Seq(SUBSET Item) /\ Len(got) \in Nat
  BY DEF RbTypeOK
<1>2. /\ got' \in Seq(SUBSET Item) /\ Len(got') = Len(got) + 1
      /\ got'[Len(got) + 1] = items /\ \A n \in 1..Len(got) : got'[n] = got[n]
  BY <1>1
<1>3. DOMAIN got = 1..Len(got) /\ DOMAIN got' = 1..Len(got) + 1
  BY <1>1, <1>2
<1>4. ASSUME NEW i PROVE Has(i)' <=> Has(i) \/ i \in items
  <2>1. Has(i)' <=> \E n \in DOMAIN got' : i \in got'[n]
    BY DEF Has
  <2>2. \A n \in 1..Len(got) + 1 : n \in 1..Len(got) \/ n = Len(got) + 1
    BY <1>1
  <2>3. Len(got) + 1 \in 1..Len(got) + 1 /\ \A n \in 1..Len(got) : n \in 1..Len(got) + 1
    BY <1>1
  <2> QED
    BY <1>2, <1>3, <2>1, <2>2, <2>3 DEF Has
<1> QED
  BY <1>2, <1>4

\* With its last answer a layer is read, and with the last layer the list.
LEMMA LayersAreRead ==
  ASSUME RbTypeOK, rbPc = "fetch", NextLayer, importer' = importer, upstream' = upstream,
         failed' = failed, steady' = steady,
         steady /\ ~failed =>
           \A i \in Item : Has(i)' <=> \/ i \in upstream /\ \E l \in 1..layer - 1 : InLayer(i, l)
                                       \/ i \in Listed(layer)
  PROVE  /\ ReadSoFar' /\ AllIsRead' /\ rbPc' \in {"fetch", "check"}
         /\ layer' \in 1..Layers[importer'] /\ start' \in Nat
<1>1. layer \in 1..Layers[importer] /\ Layers[importer] \in {1, 2} /\ importer \in Importer
  BY DEF RbTypeOK, Layers, Importer
<1>2. start' = 0 /\ \/ layer < Layers[importer] /\ layer' = layer + 1 /\ rbPc' = "fetch"
                    \/ layer = Layers[importer] /\ layer' = layer /\ rbPc' = "check"
  BY <1>1 DEF NextLayer
<1>3. \A i, l : InLayer(i, l)' <=> InLayer(i, l)
  BY DEF InLayer
<1>4. Listed(layer)' = {i \in upstream : InLayer(i, layer')}
  BY <1>3 DEF Listed
<1>5. Leading(Listed(layer), start)' = {}
  <2> DEFINE S == {i \in upstream : InLayer(i, layer')}
  <2>1. S \in SUBSET Item /\ Item \subseteq Nat /\ IsFiniteSet(Item)
    BY RebuildAssumption DEF RbTypeOK
  <2> HIDE DEF S
  <2>2. S \in SUBSET Nat /\ IsFiniteSet(S)
    BY <2>1, FS_Subset
  <2>3. Leading(S, 0) = {}
    BY <2>2, LeadingItems
  <2> QED
    BY <1>2, <1>4, <2>3 DEF S, Leading, Rank
<1>6. CASE layer < Layers[importer] /\ layer' = layer + 1 /\ rbPc' = "fetch"
  <2>1. \A i : (\E l \in 1..layer' - 1 : InLayer(i, l)') <=> (\E l \in 1..layer - 1 : InLayer(i, l)) \/ InLayer(i, layer)
    <3>1. layer \in Nat /\ 1..layer' - 1 = (1..layer - 1) \cup {layer}
      BY <1>1, <1>6
    <3> QED
      BY <1>3, <3>1
  <2>2. ReadSoFar'
    BY <1>5, <1>6, <2>1 DEF ReadSoFar, Listed
  <2>3. AllIsRead'
    BY <1>6 DEF AllIsRead
  <2> QED
    BY <1>1, <1>2, <1>6, <2>2, <2>3
<1>7. CASE layer = Layers[importer] /\ layer' = layer /\ rbPc' = "check"
  <2>1. \A i \in Item : (\E l \in 1..layer - 1 : InLayer(i, l)) \/ InLayer(i, layer)
    <3>1. CASE Layers[importer] = 1
      BY <3>1 DEF InLayer
    <3>2. CASE Layers[importer] = 2
      <4>1. \A i \in Item : i \in Nat
        BY RebuildAssumption
      <4>2. \A i \in Nat : i % 2 = 1 - 1 \/ i % 2 = 2 - 1
        OBVIOUS
      <4>3. layer = 2 /\ 1 \in 1..layer - 1
        BY <1>7, <3>2
      <4> QED
        BY <4>1, <4>2, <4>3 DEF InLayer
    <3> QED
      BY <1>1, <3>1, <3>2
  <2>2. AllIsRead'
    BY <2>1 DEF AllIsRead, Listed
  <2>3. ReadSoFar'
    BY <1>7 DEF ReadSoFar
  <2> QED
    BY <1>1, <1>2, <1>7, <2>2, <2>3
<1> QED
  BY <1>2, <1>6, <1>7

-----------------------------------------------------------------------------

LEMMA RowsAreFinite ==
  ASSUME RbTypeOK
  PROVE  /\ IsFiniteSet(Rows) /\ Cardinality(Rows) \in Nat
         /\ \A r \in Rows : /\ r[1] \in DOMAIN got /\ r[2] \in Item \ Unfit /\ r = <<r[1], r[2]>>
                            /\ Position(r) \in Nat /\ 1 <= Position(r) /\ Position(r) <= Cardinality(Rows)
<1>1. IsFiniteSet(DOMAIN got) /\ \A n \in DOMAIN got : n \in Nat
  <2>1. DOMAIN got = 1..Len(got) /\ Len(got) \in Nat
    BY DEF RbTypeOK
  <2> QED
    BY <2>1, FS_Interval
<1>2. IsFiniteSet(Item \ Unfit) /\ Item \subseteq Nat
  BY RebuildAssumption, FS_Subset
<1>3. IsFiniteSet((DOMAIN got) \X (Item \ Unfit))
  BY <1>1, <1>2, FS_Product
<1>4. Rows \subseteq (DOMAIN got) \X (Item \ Unfit)
  BY DEF Rows
<1>5. IsFiniteSet(Rows) /\ Cardinality(Rows) \in Nat
  BY <1>3, <1>4, FS_Subset, FS_CardinalityType
<1>6. ASSUME NEW r \in Rows
      PROVE  Position(r) \in Nat /\ 1 <= Position(r) /\ Position(r) <= Cardinality(Rows)
  <2> DEFINE B == {q \in Rows : Sooner(q, r)}
  <2>1. r[1] \in Nat /\ r[2] \in Nat
    BY <1>1, <1>2, <1>4
  <2>2. B \subseteq Rows /\ r \in B
    BY <2>1 DEF Sooner
  <2>3. Position(r) = Cardinality(B)
    BY DEF Position
  <2> HIDE DEF B
  <2>4. IsFiniteSet(B) /\ Cardinality(B) \in Nat /\ Cardinality(B) <= Cardinality(Rows)
    BY <1>5, <2>2, FS_Subset, FS_CardinalityType
  <2>5. Cardinality(B) # 0
    BY <2>2, <2>4, FS_EmptySet
  <2> QED
    BY <2>3, <2>4, <2>5
<1> QED
  BY <1>4, <1>5, <1>6

\* The rows are the items some answer brought, but for those the normaliser drops.
LEMMA RowsAreTheFit ==
  ASSUME RbTypeOK, NEW i \in Item
  PROVE  (\E r \in Rows : r[2] = i) <=> Has(i) /\ i \notin Unfit
<1>1. ASSUME NEW r \in Rows, r[2] = i PROVE Has(i) /\ i \notin Unfit
  BY <1>1 DEF Rows, Has
<1>2. ASSUME Has(i), i \notin Unfit PROVE \E r \in Rows : r[2] = i
  <2> DEFINE T == {n \in DOMAIN got : i \in got[n]}
  <2>1. T \subseteq Nat /\ T # {} /\ DOMAIN got = 1..Len(got) /\ Len(got) \in Nat
    BY <1>2 DEF Has, RbTypeOK
  <2> DEFINE n == Min(T)
  <2>2. n \in T /\ \A k \in T : n <= k
    BY <2>1, LeastOfSome
  <2> HIDE DEF n
  <2>3. n \in DOMAIN got /\ i \in got[n] /\ n \in Nat
    BY <2>1, <2>2
  <2>4. \A k \in 1..n - 1 : i \notin got[k]
    <3> SUFFICES ASSUME NEW k \in 1..n - 1, i \in got[k] PROVE FALSE
      OBVIOUS
    <3>1. k \in DOMAIN got /\ k < n /\ k \in Nat
      BY <2>1, <2>3
    <3> QED
      BY <2>2, <2>3, <3>1
  <2>5. <<n, i>> \in Rows
    BY <1>2, <2>3, <2>4 DEF Rows
  <2> QED
    BY <2>5
<1> QED
  BY <1>1, <1>2

-----------------------------------------------------------------------------

LEMMA RbBegins == RbInit => RbInv
<1> SUFFICES ASSUME RbInit PROVE RbInv
  OBVIOUS
<1>1. Item \in SUBSET Item /\ Item \ {1} \in SUBSET Item /\ Item \ Unfit \in SUBSET Item /\ {} \in SUBSET Item
  OBVIOUS
<1>2. RbTypeOK
  <2>1. upstream \in SUBSET Item /\ shown \in SUBSET Item /\ draft \in SUBSET Item
    BY <1>1 DEF RbInit
  <2>2. importer \in Importer /\ layer \in 1..Layers[importer]
    BY DEF RbInit, Importer, Layers
  <2>3. got \in Seq(SUBSET Item)
    BY DEF RbInit
  <2>4. /\ start \in Nat /\ written \in Nat /\ changes \in Nat
        /\ failed \in BOOLEAN /\ steady \in BOOLEAN
        /\ rbPc \in {"idle", "fetch", "check", "delete", "insert"}
    BY DEF RbInit
  <2> QED
    BY <2>1, <2>2, <2>3, <2>4 DEF RbTypeOK
<1> QED
  BY <1>2 DEF RbInit, RbInv, ReadSoFar, AllIsRead, ListIsTrusted, DraftIsTheList

\* A step that leaves the list and the source alone.
LEMMA ListStays ==
  ASSUME importer' = importer, upstream' = upstream, layer' = layer, start' = start, got' = got,
         failed' = failed
  PROVE  /\ Rows' = Rows /\ \A r : Position(r)' = Position(r)
         /\ \A i : Has(i)' <=> Has(i)
         /\ \A l : Listed(l)' = Listed(l)
         /\ \A i, l : InLayer(i, l)' <=> InLayer(i, l)
         /\ Believable' <=> Believable
<1>1. Rows' = Rows /\ \A i, l : InLayer(i, l)' <=> InLayer(i, l)
  BY DEF Rows, InLayer
<1>2. \A r : Position(r)' = Position(r)
  BY <1>1 DEF Position, Sooner
<1>3. \A l : Listed(l)' = Listed(l)
  BY <1>1 DEF Listed
<1>4. Believable' <=> Believable
  BY <1>1 DEF Believable, Fewest
<1> QED
  BY <1>1, <1>2, <1>3, <1>4 DEF Has

LEMMA ThrowKeeps ==
  ASSUME RbInv, Throw
  PROVE  RbInv' /\ shown' = shown
<1>1. RbTypeOK'
  BY DEF Throw, RbInv, RbTypeOK
<1> QED
  BY <1>1 DEF Throw, RbInv, ReadSoFar, AllIsRead, ListIsTrusted, DraftIsTheList

LEMMA FetchKeeps ==
  ASSUME RbInv, FetchPage \/ FetchNumberedPage \/ FetchWhole
  PROVE  RbInv' /\ shown' = shown
<1> DEFINE S == Listed(layer)
<1>0. RbTypeOK /\ ReadSoFar /\ rbPc = "fetch" /\ start \in Nat /\ layer \in 1..Layers[importer]
  BY DEF RbInv, RbTypeOK, FetchPage, FetchNumberedPage, FetchWhole
<1>1. PICK items \in SUBSET Item :
        /\ Received(items)
        /\ \/ items = Page /\ NextLayer /\ Leading(S, start + PageSize) = S
           \/ items = Page /\ start' = start + PageSize /\ layer' = layer /\ rbPc' = rbPc
           \/ items = S /\ NextLayer /\ Leading(S, start) \subseteq S
  <2>1. Page \in SUBSET Item /\ S \in SUBSET Item
    BY <1>0, PagesAreItems, LayersAreFinite
  <2>2. CASE FetchPage
    BY <1>0, <2>1, <2>2, PagesAreItems DEF FetchPage
  <2>3. CASE FetchNumberedPage
    BY <1>0, <2>1, <2>3, PagesAreItems DEF FetchNumberedPage
  <2>4. CASE FetchWhole
    BY <2>1, <2>4 DEF FetchWhole, Leading
  <2> QED
    BY <2>2, <2>3, <2>4
<1>2. /\ got' = Append(got, items) /\ importer' = importer /\ upstream' = upstream /\ failed' = failed
      /\ steady' = steady /\ changes' = changes /\ draft' = draft /\ written' = written /\ shown' = shown
  BY <1>1 DEF Received, Transaction
<1>3. got' \in Seq(SUBSET Item) /\ \A i : Has(i)' <=> Has(i) \/ i \in items
  BY <1>0, <1>2, AnswersAdd
<1> HIDE DEF S
<1>4. CASE NextLayer /\ ((items = S /\ Leading(S, start) \subseteq S) \/ (items = Page /\ Leading(S, start + PageSize) = S))
  <2>1. \A i : i \in Leading(S, start) \/ i \in items <=> i \in S
    BY <1>0, <1>4, PagesAreItems DEF S
  <2>2. steady /\ ~failed =>
           \A i \in Item : Has(i)' <=> \/ i \in upstream /\ \E l \in 1..layer - 1 : InLayer(i, l)
                                       \/ i \in Listed(layer)
    BY <1>0, <1>3, <2>1 DEF ReadSoFar, S
  <2>3. /\ ReadSoFar' /\ AllIsRead' /\ rbPc' \in {"fetch", "check"}
        /\ layer' \in 1..Layers[importer'] /\ start' \in Nat
    BY <1>0, <1>2, <1>4, <2>2, LayersAreRead
  <2>4. RbTypeOK'
    BY <1>0, <1>2, <1>3, <2>3 DEF RbTypeOK
  <2> QED
    BY <1>2, <2>3, <2>4 DEF RbInv, ListIsTrusted, DraftIsTheList
<1>5. CASE items = Page /\ start' = start + PageSize /\ layer' = layer /\ rbPc' = rbPc
  <2>1. \A i : i \in Leading(S, start) \/ i \in items <=> i \in Leading(S, start + PageSize)
    BY <1>0, <1>5, PagesAreItems DEF S
  <2>2. /\ \A i, l : InLayer(i, l)' <=> InLayer(i, l)
        /\ Listed(layer)' = S
    BY <1>2, <1>5 DEF InLayer, Listed, S
  <2>3. Leading(Listed(layer), start)' = Leading(S, start + PageSize)
    BY <1>5, <2>2 DEF Leading, Rank
  <2>4. ReadSoFar'
    BY <1>0, <1>2, <1>3, <1>5, <2>1, <2>2, <2>3 DEF ReadSoFar, S
  <2>5. RbTypeOK'
    BY <1>0, <1>2, <1>3, <1>5, RebuildAssumption DEF RbTypeOK
  <2> QED
    BY <1>0, <1>2, <1>5, <2>4, <2>5 DEF RbInv, AllIsRead, ListIsTrusted, DraftIsTheList
<1>6. CASE items = Page /\ NextLayer /\ Leading(S, start + PageSize) = S
  BY <1>4, <1>6
<1>7. CASE items = S /\ NextLayer /\ Leading(S, start) \subseteq S
  BY <1>4, <1>7
<1> QED
  BY <1>1, <1>5, <1>6, <1>7

\* What an answer lacks is no longer counted on, and a file that fails stops the import.
LEMMA ShortAnswersKeep ==
  ASSUME RbInv, AnswerShort \/ FileFails
  PROVE  RbInv' /\ shown' = shown
<1>0. RbTypeOK /\ start \in Nat /\ layer \in 1..Layers[importer] /\ Layers[importer] \in {1, 2}
  BY DEF RbInv, RbTypeOK, Layers, Importer
<1>1. /\ importer' = importer /\ upstream' = upstream /\ changes' = changes
      /\ draft' = draft /\ written' = written /\ shown' = shown /\ rbPc = "fetch"
      /\ (steady' = FALSE /\ failed' = failed) \/ (failed' = TRUE /\ steady' = steady)
      /\ NextLayer \/ (start' = start + PageSize /\ layer' = layer /\ rbPc' = rbPc)
  BY DEF AnswerShort, FileFails, Transaction
<1>2. PICK items \in SUBSET Item : got' = Append(got, items)
  <2>1. Page \subseteq Item /\ Listed(layer) \subseteq Item
    BY <1>0, PagesAreItems, LayersAreFinite
  <2>2. \A T, n : Leading(T, n) \subseteq T
    BY DEF Leading
  <2>3. CASE AnswerShort
    BY <2>1, <2>2, <2>3 DEF AnswerShort
  <2>4. CASE FileFails
    BY <2>1, <2>2, <2>4 DEF FileFails
  <2> QED
    BY <2>3, <2>4
<1>3. got' \in Seq(SUBSET Item)
  BY <1>0, <1>2, AnswersAdd
<1>4. rbPc' \in {"fetch", "check"} /\ start' \in Nat /\ layer' \in 1..Layers[importer']
  BY <1>0, <1>1, RebuildAssumption DEF NextLayer
<1>5. RbTypeOK'
  BY <1>0, <1>1, <1>3, <1>4 DEF RbTypeOK
<1> QED
  BY <1>1, <1>4, <1>5 DEF RbInv, ReadSoFar, AllIsRead, ListIsTrusted, DraftIsTheList

LEMMA InsertKeeps ==
  ASSUME RbInv, InsertRows
  PROVE  RbInv' /\ shown' = shown
<1> DEFINE size == IF importer = "webcams" THEN Cardinality(Rows) ELSE InsertBatch
           chunk == {r \in Rows : Position(r) \in written + 1..written + size}
<1>0. RbTypeOK /\ AllIsRead /\ ListIsTrusted /\ DraftIsTheList /\ rbPc = "insert"
  BY DEF RbInv, InsertRows
<1>1. CASE Throw
  BY <1>1, ThrowKeeps
<1>2. CASE /\ \A r \in chunk : r[2] \notin draft /\ \A q \in chunk : q[2] = r[2] => q = r
           /\ draft' = draft \cup {r[2] : r \in chunk} /\ written' = written + size
           /\ UNCHANGED <<rbPc, shown>> /\ Replacing
  <2>0. /\ importer' = importer /\ upstream' = upstream /\ layer' = layer /\ start' = start /\ got' = got
        /\ failed' = failed /\ steady' = steady /\ changes' = changes /\ rbPc' = rbPc /\ shown' = shown
    BY <1>2 DEF Replacing
  <2>1. written \in Nat /\ size \in Nat
    BY <1>0, RowsAreFinite, RebuildAssumption DEF RbTypeOK
  <2>2. \A r \in Rows : /\ r[2] \in Item /\ Position(r) \in Nat
                        /\ Position(r) <= written + size <=> Position(r) <= written \/ Position(r) \in written + 1..written + size
    BY <1>0, <2>1, RowsAreFinite
  <2> HIDE DEF size
  <2>3. /\ Rows' = Rows /\ (\A r : Position(r)' = Position(r)) /\ (\A i : Has(i)' <=> Has(i))
        /\ Believable' <=> Believable
    BY <2>0, ListStays
  <2>4. Through' = Through \cup chunk
    BY <1>2, <2>2, <2>3 DEF Through
  <2>5. draft = {r[2] : r \in Through} /\ \A r, q \in Through : r[2] = q[2] => r = q
    BY <1>0 DEF DraftIsTheList
  <2> HIDE DEF chunk
  <2>6. draft' = {r[2] : r \in Through'}
    BY <1>2, <2>4, <2>5
  <2>7. ASSUME NEW r \in Through', NEW q \in Through', r[2] = q[2] PROVE r = q
    <3>1. \A p \in Through : p[2] \in draft
      BY <2>5
    <3> QED
      BY <1>2, <2>4, <2>5, <2>7, <3>1
  <2>8. DraftIsTheList'
    BY <2>6, <2>7 DEF DraftIsTheList
  <2>9. chunk \subseteq Rows
    BY DEF chunk
  <2>10. draft' \in SUBSET Item /\ written' \in Nat
    BY <1>0, <1>2, <2>1, <2>2, <2>9 DEF RbTypeOK
  <2>11. RbTypeOK'
    BY <1>0, <2>0, <2>10 DEF RbTypeOK
  <2> QED
    BY <1>0, <2>0, <2>3, <2>8, <2>11 DEF RbInv, AllIsRead, ListIsTrusted, ReadSoFar
<1> QED
  BY <1>1, <1>2 DEF InsertRows

LEMMA RebuildKeepsRb ==
  ASSUME RbInv, [RbNext]_rbVars
  PROVE  RbInv'
<1>0. RbTypeOK /\ ReadSoFar /\ AllIsRead /\ ListIsTrusted /\ DraftIsTheList
  BY DEF RbInv
<1>1. CASE Begin
  <2>1. /\ importer' \in Importer /\ rbPc' = "fetch" /\ layer' = 1 /\ start' = 0 /\ got' = <<>> /\ failed' = FALSE
        /\ steady' = TRUE /\ upstream' = upstream /\ draft' = draft /\ written' = written /\ shown' = shown
        /\ changes' = changes
    BY <1>1 DEF Begin, Transaction
  <2>2. layer' \in 1..Layers[importer']
    BY <2>1 DEF Layers, Importer
  <2>a. got' \in Seq(SUBSET Item)
    BY <2>1
  <2>b. start' \in Nat /\ rbPc' \in {"idle", "fetch", "check", "delete", "insert"}
    BY <2>1
  <2>3. RbTypeOK'
    BY <1>0, <2>1, <2>2, <2>a, <2>b DEF RbTypeOK
  <2>4. Leading(Listed(layer), start)' = {}
    <3>1. Listed(layer)' \in SUBSET Nat /\ IsFiniteSet(Listed(layer)')
      <4>1. Listed(layer)' \in SUBSET Item
        BY <2>3 DEF Listed, RbTypeOK
      <4> QED
        BY <4>1, FS_Subset, RebuildAssumption
    <3>2. Leading(Listed(layer)', 0) = {}
      BY <3>1, LeadingItems
    <3> QED
      BY <2>1, <3>2 DEF Leading, Rank
  <2>5. ReadSoFar'
    BY <2>1, <2>4 DEF ReadSoFar, Has
  <2> QED
    BY <2>1, <2>3, <2>5 DEF RbInv, AllIsRead, ListIsTrusted, DraftIsTheList
<1>2. CASE SourceChanges
  <2>1. /\ importer' = importer /\ rbPc' = rbPc /\ layer' = layer /\ start' = start /\ got' = got /\ failed' = failed
        /\ draft' = draft /\ written' = written /\ shown' = shown /\ steady' = FALSE /\ changes' = changes + 1
        /\ upstream' \in SUBSET Item
    BY <1>0, <1>2 DEF SourceChanges, Transaction, RbTypeOK
  <2>a. changes' \in Nat
    BY <1>0, <2>1 DEF RbTypeOK
  <2>2. RbTypeOK'
    BY <1>0, <2>1, <2>a DEF RbTypeOK
  <2>3. Rows' = Rows
    BY <2>1 DEF Rows
  <2>4. Through' = Through /\ (Believable' <=> Believable)
    BY <2>1, <2>3 DEF Through, Position, Sooner, Believable, Fewest
  <2> QED
    BY <1>0, <2>1, <2>2, <2>4 DEF RbInv, ReadSoFar, AllIsRead, ListIsTrusted, DraftIsTheList
<1>3. CASE FetchPage \/ FetchNumberedPage \/ FetchWhole
  BY <1>3, FetchKeeps
<1>4. CASE AnswerShort \/ FileFails
  BY <1>4, ShortAnswersKeep
<1>5. CASE Abort
  BY <1>5, ThrowKeeps DEF Abort
<1>6. CASE CheckList
  <2>1. CASE Throw
    BY <2>1, ThrowKeeps
  <2>2. CASE /\ Believable /\ ~failed /\ rbPc = "check" /\ rbPc' = "delete"
             /\ UNCHANGED <<importer, upstream, layer, start, got, failed, Transaction, steady, changes>>
    <3>1. /\ importer' = importer /\ upstream' = upstream /\ layer' = layer /\ start' = start /\ got' = got
          /\ failed' = failed /\ steady' = steady /\ changes' = changes
          /\ draft' = draft /\ written' = written /\ shown' = shown
      BY <2>2 DEF Transaction
    <3>2. RbTypeOK'
      BY <1>0, <2>2, <3>1 DEF RbTypeOK
    <3>3. (Believable' <=> Believable) /\ \A i : Has(i)' <=> Has(i)
      BY <3>1, ListStays
    <3> QED
      BY <1>0, <2>2, <3>1, <3>2, <3>3 DEF RbInv, ReadSoFar, AllIsRead, ListIsTrusted, DraftIsTheList
  <2> QED
    BY <1>6, <2>1, <2>2 DEF CheckList
<1>7. CASE DeleteOld
  <2>1. /\ importer' = importer /\ upstream' = upstream /\ layer' = layer /\ start' = start /\ got' = got
        /\ failed' = failed /\ steady' = steady /\ changes' = changes
        /\ draft' = {} /\ written' = 0 /\ shown' = shown /\ rbPc = "delete" /\ rbPc' = "insert"
    BY <1>7 DEF DeleteOld, Replacing
  <2>2. RbTypeOK'
    BY <1>0, <2>1 DEF RbTypeOK
  <2>3. /\ Rows' = Rows /\ (\A r : Position(r)' = Position(r)) /\ (\A i : Has(i)' <=> Has(i))
        /\ Believable' <=> Believable
    BY <2>1, ListStays
  <2>4. \A r \in Rows : Position(r) \in Nat /\ 1 <= Position(r)
    BY <1>0, RowsAreFinite
  <2>5. Through' = {}
    <3>1. \A r \in Rows : ~(Position(r) <= 0)
      BY <2>4
    <3> QED
      BY <2>1, <2>3, <3>1 DEF Through
  <2> QED
    BY <1>0, <2>1, <2>2, <2>3, <2>5 DEF RbInv, ReadSoFar, AllIsRead, ListIsTrusted, DraftIsTheList
<1>8. CASE InsertRows
  BY <1>8, InsertKeeps
<1>9. CASE Commit
  <2>1. /\ importer' = importer /\ upstream' = upstream /\ layer' = layer /\ start' = start /\ got' = got
        /\ failed' = failed /\ steady' = steady /\ changes' = changes
        /\ draft' = {} /\ written' = 0 /\ shown' = draft /\ rbPc' = "idle"
    BY <1>9 DEF Commit, Replacing
  <2>2. RbTypeOK'
    BY <1>0, <2>1 DEF RbTypeOK
  <2> QED
    BY <2>1, <2>2 DEF RbInv, ReadSoFar, AllIsRead, ListIsTrusted, DraftIsTheList
<1>10. CASE UNCHANGED rbVars
  <2>1. /\ importer' = importer /\ upstream' = upstream /\ layer' = layer /\ start' = start /\ got' = got
        /\ failed' = failed /\ steady' = steady /\ changes' = changes
        /\ draft' = draft /\ written' = written /\ shown' = shown /\ rbPc' = rbPc
    BY <1>10 DEF rbVars
  <2>2. RbTypeOK'
    BY <1>0, <2>1 DEF RbTypeOK
  <2>3. /\ Rows' = Rows /\ (\A r : Position(r)' = Position(r)) /\ (\A i : Has(i)' <=> Has(i))
        /\ (Believable' <=> Believable) /\ (\A l : Listed(l)' = Listed(l))
        /\ \A i, l : InLayer(i, l)' <=> InLayer(i, l)
    BY <2>1, ListStays
  <2>4. Through' = Through /\ Leading(Listed(layer), start)' = Leading(Listed(layer), start)
    BY <2>1, <2>3 DEF Through, Leading, Rank
  <2> QED
    BY <1>0, <2>1, <2>2, <2>3, <2>4 DEF RbInv, ReadSoFar, AllIsRead, ListIsTrusted, DraftIsTheList
<1> QED
  BY <1>1, <1>2, <1>3, <1>4, <1>5, <1>6, <1>7, <1>8, <1>9, <1>10 DEF RbNext

\* The invariant of the importers that rebuild a table.
THEOREM RbInvHolds == RbSpec => []RbInv
BY RbBegins, RebuildKeepsRb, PTL DEF RbSpec

\* For any list, page, floor and chunk, whatever changes or fails meanwhile: what
\* readers see changes only to the whole of a list that was read whole, or, if the
\* source moved, to one that is long enough (the five sync functions).
THEOREM TablesAreReplacedWhole == RbSpec => RebuildsAreWhole
<1>1. ASSUME RbInv, [RbNext]_rbVars, shown' # shown
      PROVE  /\ steady => shown' = upstream \ Unfit
             /\ importer # "webcams" => Cardinality(shown') >= Fewest
             /\ ~failed
  <2>0. RbTypeOK /\ AllIsRead /\ ListIsTrusted /\ DraftIsTheList
    BY <1>1 DEF RbInv
  <2>1. Commit
    <3>1. ~Throw /\ ~(FetchPage \/ FetchNumberedPage \/ FetchWhole) /\ ~(AnswerShort \/ FileFails) /\ ~InsertRows
      BY <1>1, ThrowKeeps, FetchKeeps, ShortAnswersKeep, InsertKeeps
    <3>2. ~Begin /\ ~SourceChanges /\ ~CheckList /\ ~DeleteOld /\ ~Abort /\ ~UNCHANGED rbVars
      BY <1>1, <3>1 DEF Begin, SourceChanges, CheckList, DeleteOld, Abort, rbVars, Transaction
    <3> QED
      BY <1>1, <3>1, <3>2 DEF RbNext
  <2>2. rbPc = "insert" /\ written >= Cardinality(Rows) /\ shown' = draft
    BY <2>1 DEF Commit
  <2>3. /\ IsFiniteSet(Rows) /\ Cardinality(Rows) \in Nat /\ written \in Nat
        /\ \A r \in Rows : Position(r) \in Nat /\ Position(r) <= Cardinality(Rows) /\ r[2] \in Item
    BY <2>0, RowsAreFinite DEF RbTypeOK
  <2>4. \A r \in Rows : Position(r) <= written
    BY <2>2, <2>3
  <2>5. Through = Rows
    BY <2>4 DEF Through
  <2>6. draft = {r[2] : r \in Rows} /\ \A r, q \in Rows : r[2] = q[2] => r = q
    BY <2>0, <2>2, <2>5 DEF DraftIsTheList
  <2>7. ~failed /\ Believable
    BY <2>0, <2>2 DEF ListIsTrusted
  <2>8. ASSUME steady PROVE draft = upstream \ Unfit
    <3>1. \A i \in Item : Has(i) <=> i \in upstream
      BY <2>0, <2>2, <2>7, <2>8 DEF AllIsRead
    <3>2. \A i \in Item : (\E r \in Rows : r[2] = i) <=> i \in upstream /\ i \notin Unfit
      BY <2>0, <3>1, RowsAreTheFit
    <3>3. upstream \subseteq Item
      BY <2>0 DEF RbTypeOK
    <3> QED
      BY <2>3, <2>6, <3>2, <3>3
  <2>9. ASSUME importer # "webcams" PROVE Cardinality(draft) >= Fewest
    <3> DEFINE f == [r \in Rows |-> r[2]]
    <3>1. f \in Injection(Rows, draft)
      BY <2>6 DEF Injection, IsInjective
    <3>2. f \in Surjection(Rows, draft)
      BY <2>6 DEF Surjection
    <3>3. ExistsBijection(Rows, draft)
      BY <3>1, <3>2 DEF ExistsBijection, Bijection
    <3>4. Cardinality(draft) = Cardinality(Rows)
      BY <2>3, <3>3, FS_Bijection
    <3> QED
      BY <2>7, <2>9, <3>4 DEF Believable
  <2> QED
    BY <2>2, <2>7, <2>8, <2>9
<1> QED
  BY <1>1, RbInvHolds, PTL DEF RbSpec, RebuildsAreWhole

=============================================================================

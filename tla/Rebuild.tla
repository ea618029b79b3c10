------------------------------ MODULE Rebuild ------------------------------
(* The importers that rebuild a table: obstacles (openAIP), protected areas and
   aerial lines (IGN), wind climate (Meteo-France), webcams (Cam-Aero).  Each
   fetches everything first, by pages or by files, refuses a list that is
   too short, and replaces the rows in one transaction.  The source answers
   page by page and may change, or answer short, in between.
   Items are numbers, in the order the source sorts them. *)
EXTENDS Integers, Sequences, FiniteSets

CONSTANTS Item,        \* what a source may list, consecutive numbers
          Unfit,       \* items the normaliser, or the look-up of the aerodrome, drops
          PageSize,    \* PAGE_SIZE, OBSTACLES_PAGE_LIMIT
          Floor,       \* MIN_EXPECTED_...: the fewest items that are believed; 1 for obstacles
          InsertBatch, \* INSERT_BATCH
          MaxChanges   \* bound: changes of the source

ASSUME RebuildAssumption ==
  /\ Unfit \subseteq Item /\ Item \subseteq Nat /\ IsFiniteSet(Item)
  /\ {PageSize, Floor, InsertBatch} \subseteq Nat \ {0} /\ MaxChanges \in Nat

VARIABLES importer,  \* which of the five runs
          upstream,  \* items the source lists
          rbPc,      \* idle, fetch, check, delete, insert
          layer,     \* layer or file being read, from 1
          start,     \* items of the layer read so far
          got,       \* the answers received, each a set of items
          failed,    \* failedFiles
          draft,     \* rows as the open transaction sees them
          written,   \* rows of the list it has been through
          shown,     \* rows as readers see them
          steady,    \* history: the source has answered in full and not changed
          changes

rbVars == <<importer, upstream, rbPc, layer, start, got, failed, draft, written, shown, steady, changes>>

Importer == {"obstacles", "areas", "lines", "wind", "webcams"}
Layers == [obstacles |-> 1, areas |-> 1, lines |-> 2, wind |-> 2, webcams |-> 1]
InLayer(i, l) == Layers[importer] = 1 \/ i % 2 = l - 1
Listed(l) == {i \in upstream : InLayer(i, l)}

\* Some items in the order of the source, and the first n of them.
Rank(i, items) == Cardinality({j \in items : j <= i})
Leading(items, n) == {i \in items : Rank(i, items) <= n}

RbInit ==
  /\ importer = "obstacles"
  /\ upstream \in {Item, Item \ {1}}
  /\ rbPc = "idle" /\ layer = 1 /\ start = 0 /\ got = <<>> /\ failed = FALSE
  /\ shown \in {{}, Item \ Unfit}
  /\ draft = {} /\ written = 0 /\ steady = TRUE /\ changes = 0

Transaction == <<draft, written, shown>>

Begin ==
  /\ rbPc = "idle"
  /\ importer' \in Importer
  /\ rbPc' = "fetch" /\ layer' = 1 /\ start' = 0 /\ got' = <<>> /\ failed' = FALSE
  /\ steady' = TRUE
  /\ UNCHANGED <<upstream, Transaction, changes>>

(* An item appears or disappears at the source. *)
SourceChanges ==
  /\ changes < MaxChanges
  /\ changes' = changes + 1
  /\ \E i \in Item : upstream' = IF i \in upstream THEN upstream \ {i} ELSE upstream \cup {i}
  /\ steady' = FALSE
  /\ UNCHANGED <<importer, rbPc, layer, start, got, failed, Transaction>>

NextLayer ==
  /\ start' = 0
  /\ IF layer < Layers[importer] THEN layer' = layer + 1 /\ rbPc' = rbPc
                                 ELSE layer' = layer /\ rbPc' = "check"

Received(items) ==
  /\ got' = Append(got, items)
  /\ UNCHANGED <<importer, upstream, failed, Transaction, steady, changes>>

Page == Leading(Listed(layer), start + PageSize) \ Leading(Listed(layer), start)

(* A page of the WFS: the last one is the first that is not full. *)
FetchPage ==
  /\ rbPc = "fetch" /\ importer \in {"areas", "lines"}
  /\ Received(Page)
  /\ IF Cardinality(Page) < PageSize THEN NextLayer
     ELSE start' = start + PageSize /\ UNCHANGED <<layer, rbPc>>

(* A page of openAIP, which says how many there are. *)
FetchNumberedPage ==
  /\ rbPc = "fetch" /\ importer = "obstacles"
  /\ Received(Page)
  /\ IF start + PageSize >= Cardinality(Listed(layer)) THEN NextLayer
     ELSE start' = start + PageSize /\ UNCHANGED <<layer, rbPc>>

(* A whole file of Meteo-France, or the list of webcams. *)
FetchWhole ==
  /\ rbPc = "fetch" /\ importer \in {"wind", "webcams"}
  /\ Received(Listed(layer)) /\ NextLayer

(* The source answers with less than there is, and nothing shows it; a short
   page ends the WFS's list, not openAIP's. *)
AnswerShort ==
  /\ rbPc = "fetch" /\ importer # "wind"
  /\ LET answer == IF importer = "webcams" THEN Listed(layer) ELSE Page
     IN \E n \in 0 .. Cardinality(answer) - 1 : got' = Append(got, Leading(answer, n))
  /\ steady' = FALSE
  /\ IF importer = "obstacles" /\ start + PageSize < Cardinality(Listed(layer))
     THEN start' = start + PageSize /\ UNCHANGED <<layer, rbPc>>
     ELSE NextLayer
  /\ UNCHANGED <<importer, upstream, failed, Transaction, changes>>

(* A file that cannot be read to its end has added some of its stations. *)
FileFails ==
  /\ rbPc = "fetch" /\ importer = "wind"
  /\ failed' = TRUE
  /\ \E n \in 0 .. Cardinality(Listed(layer)) : got' = Append(got, Leading(Listed(layer), n))
  /\ NextLayer
  /\ UNCHANGED <<importer, upstream, Transaction, steady, changes>>

Throw ==
  /\ rbPc' = "idle" /\ draft' = {} /\ written' = 0
  /\ UNCHANGED <<importer, upstream, layer, start, got, failed, shown, steady, changes>>

(* The request or a statement fails, the transaction times out, or the worker
   dies: the rows shown are those from before. *)
Abort == rbPc # "idle" /\ Throw

(* What becomes a row: an item of an answer.  A Map by key or a Set of the items
   seen drops those that came before, but not for aerial lines and webcams. *)
Rows == {r \in (DOMAIN got) \X (Item \ Unfit) :
           /\ r[2] \in got[r[1]]
           /\ importer \in {"lines", "webcams"} \/ \A n \in 1 .. r[1] - 1 : r[2] \notin got[n]}

Sooner(r, q) == r[1] < q[1] \/ (r[1] = q[1] /\ r[2] <= q[2])
Position(r) == Cardinality({q \in Rows : Sooner(q, r)})

Fewest == IF importer = "obstacles" THEN 1 ELSE Floor

Believable == IF importer = "webcams" THEN Cardinality(got[1]) >= Fewest ELSE Cardinality(Rows) >= Fewest

(* Mutant: stations of the files that could be read are enough. *)
CheckFloorOnly ==
  /\ rbPc = "check"
  /\ IF Believable
     THEN rbPc' = "delete" /\ UNCHANGED <<importer, upstream, layer, start, got, failed, Transaction, steady, changes>>
     ELSE Throw

CheckList ==
  /\ rbPc = "check"
  /\ IF Believable /\ ~failed
     THEN rbPc' = "delete" /\ UNCHANGED <<importer, upstream, layer, start, got, failed, Transaction, steady, changes>>
     ELSE Throw

Replacing == UNCHANGED <<importer, upstream, layer, start, got, failed, steady, changes>>

DeleteOld ==
  /\ rbPc = "delete"
  /\ draft' = {} /\ written' = 0 /\ rbPc' = "insert"
  /\ UNCHANGED shown /\ Replacing

(* createMany: a row twice offends the unique key and aborts the transaction. *)
InsertRows ==
  /\ rbPc = "insert" /\ written < Cardinality(Rows)
  /\ LET size == IF importer = "webcams" THEN Cardinality(Rows) ELSE InsertBatch
         batch == {r \in Rows : Position(r) \in written + 1 .. written + size}
     IN IF \A r \in batch : r[2] \notin draft /\ \A q \in batch : q[2] = r[2] => q = r
        THEN /\ draft' = draft \cup {r[2] : r \in batch} /\ written' = written + size
             /\ UNCHANGED <<rbPc, shown>> /\ Replacing
        ELSE Throw

Commit ==
  /\ rbPc = "insert" /\ written >= Cardinality(Rows)
  /\ shown' = draft /\ draft' = {} /\ written' = 0 /\ rbPc' = "idle"
  /\ Replacing

RbNext ==
  \/ Begin
  \/ SourceChanges
  \/ FetchPage
  \/ FetchNumberedPage
  \/ FetchWhole
  \/ AnswerShort
  \/ FileFails
  \/ Abort
  \/ CheckList
  \/ DeleteOld
  \/ InsertRows
  \/ Commit

RbSpec == RbInit /\ [][RbNext]_rbVars

-----------------------------------------------------------------------------
(* What readers see changes only as a whole: to all the source lists and the
   normaliser keeps, if the source neither changed nor answered short while
   it was read, and never to a table emptied by a failed, partial or
   implausibly short fetch (the five sync functions). *)
RebuildsAreWhole ==
  [][shown' # shown =>
       /\ steady => shown' = upstream \ Unfit
       /\ importer # "webcams" => Cardinality(shown') >= Fewest
       /\ ~failed]_rbVars
=============================================================================

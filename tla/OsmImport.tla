----------------------------- MODULE OsmImport -----------------------------
(* The import step of OsmSync in detail (importOsmGeoJsonSeq of
   sync/tasks/osm-sync.task.ts): the exported file is read line by line and
   upserted in batches; a batch the database refuses is tried again row by row.
   A line is unusable, or carries a point of interest whose row the database
   takes or refuses; a row is known by the number of its line.
   One statement may not touch the same row twice: ON CONFLICT DO UPDATE
   refuses it. *)
EXTENDS OsmSync, Sequences, FiniteSets

CONSTANTS Poi,        \* osmId of the points of interest
          BatchSize,  \* BATCH_SIZE
          MaxLines    \* bound: lines of the file

ASSUME OsmImportAssumption == BatchSize \in Nat \ {0} /\ MaxLines \in Nat

VARIABLES lines,     \* the file
          pos,       \* lines read
          batch,     \* numbers of the lines waiting to be written
          table,     \* osm.pois: the line each row was last written from, 0 if none
          stats,     \* OsmImportStats
          rowsDone   \* the last batch has been written

rowVars == <<lines, pos, batch, table, stats, rowsDone>>

NoPoi == "none"
ASSUME NoPoiAssumption == NoPoi \notin Poi

Junk == [poi |-> NoPoi, good |-> FALSE]
Line == [poi : Poi, good : BOOLEAN] \cup {Junk}

RowsInit ==
  /\ lines \in UNION {[1 .. n -> Line] : n \in 0 .. MaxLines}
  /\ pos = 0 /\ batch = {} /\ rowsDone = FALSE
  /\ table = [p \in Poi |-> 0]
  /\ stats = [upserted |-> 0, skipped |-> 0, errors |-> 0, collapsed |-> 0]

PoiOf(n) == lines[n].poi

(* Mutant: the first line of a point of interest wins within a batch. *)
KeepFirst(rows) == {n \in rows : \A m \in rows : PoiOf(m) = PoiOf(n) => m >= n}

(* dedupeBatch: the last line of each point of interest. *)
DedupeBatch(rows) == {n \in rows : \A m \in rows : PoiOf(m) = PoiOf(n) => m <= n}

(* upsertBatch throws, and changes nothing. *)
Refused(rows) ==
  \/ \E n \in rows : ~lines[n].good
  \/ \E n, m \in rows : n # m /\ PoiOf(n) = PoiOf(m)

Written(rows, t) ==
  [p \in Poi |-> IF \E n \in rows : PoiOf(n) = p
                 THEN CHOOSE n \in rows : PoiOf(n) = p ELSE t[p]]

(* flushBatch: the batch in one statement, or else each row in its own. *)
FlushBatch(rows) ==
  LET unique == DedupeBatch(rows)
      taken == IF Refused(unique) THEN {n \in unique : ~Refused({n})} ELSE unique
  IN /\ table' = Written(taken, table)
     /\ stats' = [stats EXCEPT !.upserted = @ + Cardinality(taken),
                               !.errors = @ + Cardinality(unique) - Cardinality(taken),
                               !.collapsed = @ + Cardinality(rows) - Cardinality(unique)]

(* A line parseGeoJsonSeqLine makes nothing of. *)
SkipLine ==
  /\ pos < Len(lines) /\ lines[pos + 1] = Junk
  /\ pos' = pos + 1
  /\ stats' = [stats EXCEPT !.skipped = @ + 1]
  /\ UNCHANGED <<lines, batch, table, rowsDone>>

ReadRow ==
  /\ pos < Len(lines) /\ lines[pos + 1] # Junk
  /\ pos' = pos + 1
  /\ LET rows == batch \cup {pos + 1}
     IN IF Cardinality(rows) >= BatchSize THEN FlushBatch(rows) /\ batch' = {}
                                          ELSE batch' = rows /\ UNCHANGED <<table, stats>>
  /\ UNCHANGED <<lines, rowsDone>>

FlushTheRest ==
  /\ pos = Len(lines) /\ ~rowsDone
  /\ rowsDone' = TRUE /\ batch' = {}
  /\ IF batch # {} THEN FlushBatch(batch) ELSE UNCHANGED <<table, stats>>
  /\ UNCHANGED <<lines, pos>>

RowsNext == SkipLine \/ ReadRow \/ FlushTheRest

RowsSpec == RowsInit /\ [][RowsNext]_rowVars

-----------------------------------------------------------------------------
LinesOf(p) == {n \in DOMAIN lines : PoiOf(n) = p}

(* When the import ends, every point of interest whose last line the database
   takes is as that line says, wherever the batches were cut and whatever else
   was refused; and every line is counted once, as written, skipped, refused or
   collapsed into a later one (importOsmGeoJsonSeq, flushBatch). *)
LastLineWins ==
  rowsDone =>
    /\ \A p \in Poi, n \in DOMAIN lines :
         n \in LinesOf(p) /\ (\A m \in LinesOf(p) : m <= n) /\ lines[n].good => table[p] = n
    /\ stats.upserted + stats.skipped + stats.errors + stats.collapsed = Len(lines)

(* From download to flag: the flags are those of a finished export of what was
   downloaded, of which the last line about an object is the one the table keeps. *)
OsmIsSound == FlagsAreSound /\ LastLineWins
=============================================================================

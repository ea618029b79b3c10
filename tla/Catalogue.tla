----------------------------- MODULE Catalogue -----------------------------
(* The sheets of the aerodromes: those openAIP describes, imported by the
   worker and by scripts/import-openaip.ts (openaip.importer.ts), and those
   the administrators write by hand (aerodrome.service.ts).  ICAO codes are
   unique over both.  An import works down the list it fetched; what the list
   says of a field is its code and its text, all the rest, and the hash of
   what the list says decides whether a sheet is rewritten. *)
EXTENDS Naturals, Airspaces

CONSTANTS Airfield,     \* openAIP's identifiers: source, sourceId
          Handmade,     \* sheets of source "manual"
          Icao,         \* ICAO codes
          Reader,       \* imports under way at once
          MaxRevisions  \* bound: changes at openAIP

ASSUME CatalogueAssumption == MaxRevisions \in Nat
\* A sheet has one source.
ASSUME SourcesAssumption == Airfield \cap Handmade = {}

VARIABLES airports,  \* what openAIP says of each field
          sheet,     \* table aerodromes
          reader,    \* the imports
          revisions,
          contested, \* history: codes refused to a field because another sheet had them
          caughtUp   \* history: an import ended alone and without error, and nothing has changed at openAIP

catalogueVars == <<airports, sheet, reader, revisions, contested, caughtUp>>

NoCode == "no code"
NoSheet == [exists |-> FALSE, icao |-> NoCode, hash |-> [icao |-> NoCode, text |-> 0], children |-> 0]
Resting == [pc |-> "idle", list |-> [f \in Airfield |-> NoSheet.hash], todo |-> {},
            field |-> CHOOSE f \in Airfield : TRUE, found |-> FALSE, code |-> NoCode, clean |-> TRUE]

CatalogueInit ==
  /\ airports \in [Airfield -> [icao : Icao \cup {NoCode}, text : {0}]]
  /\ sheet = [s \in Airfield \cup Handmade |-> NoSheet]
  /\ reader = [p \in Reader |-> Resting]
  /\ revisions = 0
  /\ contested = {} /\ caughtUp = FALSE

Held(s, c) == c # NoCode /\ \E t \in (Airfield \cup Handmade) \ {s} : sheet[t].exists /\ sheet[t].icao = c

OpenAipRevises(f, c) ==
  /\ revisions < MaxRevisions
  /\ revisions' = revisions + 1
  /\ airports' = [airports EXCEPT ![f] = [icao |-> c, text |-> revisions']]
  /\ caughtUp' = FALSE
  /\ UNCHANGED <<sheet, reader, contested>>

-----------------------------------------------------------------------------
(* syncOpenAipFranceAirports, upsertAirport *)

Into(p, r) == reader' = [reader EXCEPT ![p] = r]

Fetch(p) ==
  /\ reader[p].pc = "idle"
  /\ reader' = [q \in Reader |->
       IF q = p THEN [Resting EXCEPT !.pc = "next", !.list = airports, !.todo = Airfield,
                                     !.clean = \A o \in Reader \ {p} : reader[o].pc = "idle"]
       ELSE [reader[q] EXCEPT !.clean = @ /\ reader[q].pc = "idle"]]
  /\ UNCHANGED <<airports, sheet, revisions, contested, caughtUp>>

(* A field whose hash has not changed is left as it is. *)
LookUp(p, f) ==
  /\ reader[p].pc = "next" /\ f \in reader[p].todo
  /\ LET same == sheet[f].exists /\ sheet[f].hash = reader[p].list[f] IN
     Into(p, [reader[p] EXCEPT !.pc = IF same THEN "next" ELSE "resolve", !.todo = @ \ {f},
                               !.field = f, !.found = sheet[f].exists])
  /\ UNCHANGED <<airports, sheet, revisions, contested, caughtUp>>

ResolveIcaoConflict(p) ==
  /\ reader[p].pc = "resolve"
  /\ LET f == reader[p].field
         c == reader[p].list[f].icao
     IN /\ Into(p, [reader[p] EXCEPT !.pc = "write", !.code = IF Held(f, c) THEN NoCode ELSE c])
        /\ contested' = IF Held(f, c) THEN contested \cup {<<f, c>>} ELSE contested
  /\ UNCHANGED <<airports, sheet, revisions, caughtUp>>

\* The unique indexes: a code has one sheet, and an identifier of openAIP.
Accepted(p) == /\ ~Held(reader[p].field, reader[p].code)
               /\ sheet[reader[p].field].exists = reader[p].found

Described(p) == LET said == reader[p].list[reader[p].field] IN
                [exists |-> TRUE, icao |-> reader[p].code, hash |-> said, children |-> said.text]

\* Mutant: the runways are replaced after the sheet, outside of the transaction.
WriteInTwo(p) ==
  /\ reader[p].pc = "write" /\ Accepted(p)
  /\ sheet' = [sheet EXCEPT ![reader[p].field] = [Described(p) EXCEPT !.children = sheet[reader[p].field].children]]
  /\ Into(p, [reader[p] EXCEPT !.pc = "next"])
  /\ UNCHANGED <<airports, revisions, contested, caughtUp>>

(* One transaction, or one nested create. *)
Write(p) ==
  /\ reader[p].pc = "write" /\ Accepted(p)
  /\ sheet' = [sheet EXCEPT ![reader[p].field] = Described(p)]
  /\ Into(p, [reader[p] EXCEPT !.pc = "next"])
  /\ UNCHANGED <<airports, revisions, contested, caughtUp>>

(* An index refuses the write, or a query fails: the field is counted among
   the errors and the import goes on. *)
SkipField(p) ==
  /\ reader[p].pc \in {"resolve", "write"}
  /\ Into(p, [reader[p] EXCEPT !.pc = "next", !.clean = FALSE])
  /\ UNCHANGED <<airports, sheet, revisions, contested, caughtUp>>

Summarise(p) ==
  /\ reader[p].pc = "next" /\ reader[p].todo = {}
  /\ Into(p, Resting)
  /\ caughtUp' = (caughtUp \/ (reader[p].clean /\ reader[p].list = airports))
  /\ UNCHANGED <<airports, sheet, revisions, contested>>

ImportDies(p) ==
  /\ reader[p].pc # "idle"
  /\ Into(p, Resting)
  /\ UNCHANGED <<airports, sheet, revisions, contested, caughtUp>>

-----------------------------------------------------------------------------
(* create, update, delete: assertEditable keeps the hands off imported sheets. *)

WriteByHand(m, c) ==
  /\ ~Held(m, c)
  /\ sheet' = [sheet EXCEPT ![m] = [NoSheet EXCEPT !.exists = TRUE, !.icao = c]]
  /\ UNCHANGED <<airports, reader, revisions, contested, caughtUp>>

DeleteByHand(m) ==
  /\ sheet[m].exists
  /\ sheet' = [sheet EXCEPT ![m] = NoSheet]
  /\ UNCHANGED <<airports, reader, revisions, contested, caughtUp>>

CatalogueNext ==
  \/ \E f \in Airfield, c \in Icao \cup {NoCode} : OpenAipRevises(f, c)
  \/ \E p \in Reader : (Fetch(p) \/ ResolveIcaoConflict(p) \/ Write(p) \/ SkipField(p)
                        \/ Summarise(p) \/ ImportDies(p))
  \/ \E p \in Reader, f \in Airfield : LookUp(p, f)
  \/ \E m \in Handmade : (DeleteByHand(m) \/ \E c \in Icao \cup {NoCode} : WriteByHand(m, c))

CatalogueSpec == CatalogueInit /\ [][CatalogueNext]_catalogueVars

-----------------------------------------------------------------------------
(* Properties *)

\* A sheet whose hash says it is up to date really is: it has all that was said
\* of its field, except a code that another sheet held when it was written; and
\* an import that ended alone and without error has brought every sheet up to
\* date, whatever earlier imports left behind.  A code once refused is not given
\* later: the hash no longer changes.
SheetsMatchTheirHash ==
  /\ \A f \in Airfield : sheet[f].exists =>
       /\ sheet[f].children = sheet[f].hash.text
       /\ \/ sheet[f].icao = sheet[f].hash.icao
          \/ sheet[f].icao = NoCode /\ <<f, sheet[f].hash.icao>> \in contested
  /\ \A s \in Airfield \cup Handmade : sheet[s].exists => ~Held(s, sheet[s].icao)
  /\ caughtUp => \A f \in Airfield : sheet[f].exists /\ sheet[f].hash = airports[f]
\* Both tables of openAIP decide with a hash what they rewrite, this one and the one
\* of Airspaces: each is what was said, whatever was refused, stopped or sent again.
ImportsAreWhole == SheetsMatchTheirHash /\ AirspacesAreWhole

=============================================================================

----------------------------- MODULE Airspaces -----------------------------
(* The table of airspaces and its two writers: the nightly import from       *)
(* openAIP (openaip-airspaces.importer.ts), row by row with a hash, and the  *)
(* OpenAir file an administrator sends (importOpenAir of admin.service.ts,   *)
(* openair-parser.ts).  A line of the file is its directive and its value;   *)
(* AL and AH are one directive, a coordinate is one value or unreadable.     *)
EXTENDS Integers, Sequences, FiniteSets

CONSTANTS Airspace,      \* _id of openAIP
          Origin,        \* names an administrator gives to the source of a file
          Files,         \* OpenAir files
          MaxIssue,      \* bound: editions of an airspace at openAIP
          MaxImports     \* bound: imports of each kind

Off == {"off"}

ASSUME AirspacesAssumption == MaxIssue \in Nat \ {0} /\ MaxImports \in Nat /\ Off \notin SUBSET Airspace

OpenAirLine == [d : {"AC", "AN", "AL", "DP", "DC"}, v : STRING]
ASSUME FilesAssumption == Files \subseteq Seq(OpenAirLine)

VARIABLES issued,    \* edition of each airspace at openAIP, 0 when it has none
          zone,      \* its row: hash and content, or NoZone
          fetched,   \* rawAirspaces: the editions of the last answer of openAIP
          importing, \* syncOpenAipAirspaces: the airspaces not yet written, or Off
          missed,    \* airspaces whose statement was refused in this import
          drawn,     \* rows of OpenAir files
          desk,      \* importOpenAir: the request under way
          imports    \* imports of each kind begun

airspaceVars == <<issued, fetched, zone, importing, missed, drawn, desk, imports>>

NoZone == [hash |-> 0, content |-> 0]
NoRequest == [step |-> "none", from |-> CHOOSE s \in Origin : TRUE, replace |-> FALSE, file |-> <<>>,
              spaces |-> <<>>, next |-> 1]

AirspacesInit ==
  /\ issued \in [Airspace -> {0, 1}] /\ zone = [x \in Airspace |-> NoZone]
  /\ fetched = [x \in Airspace |-> 0] /\ importing = Off /\ missed = {}
  /\ drawn = {} /\ desk = NoRequest
  /\ imports = [nightly |-> 0, openair |-> 0]

-----------------------------------------------------------------------------
(* parseOpenAirFile *)

Nothing == [class |-> "", name |-> "", limits |-> "", points |-> <<>>]

\* A ring ends where it began.
Closed(points) == IF points[Len(points)] = points[1] THEN points ELSE Append(points, points[1])

Flushed(s) ==
  IF ~s.open THEN s
  ELSE IF Len(s.current.points) < 3 THEN [s EXCEPT !.open = FALSE, !.errors = @ + 1]
  ELSE [s EXCEPT !.open = FALSE,
                 !.spaces = Append(@, [class |-> s.current.class, name |-> s.current.name,
                                       limits |-> s.current.limits, ring |-> Closed(s.current.points)])]

OrElse(value, default) == IF value = "" THEN default ELSE value

\* Mutant: the next airspace starts on what the last one had.
ReadLineOn(s, l) ==
  CASE l.d = "AC" -> [Flushed(s) EXCEPT !.open = TRUE, !.current.class = OrElse(l.v, "UNKNOWN")]
    [] l.d # "AC" /\ ~s.open -> s
    [] l.d = "AN" /\ s.open -> [s EXCEPT !.current.name = OrElse(l.v, "Unnamed")]
    [] l.d = "AL" /\ s.open -> [s EXCEPT !.current.limits = OrElse(l.v, "SFC")]
    [] l.d = "DP" /\ s.open -> IF l.v = "unreadable" THEN [s EXCEPT !.errors = @ + 1]
                               ELSE [s EXCEPT !.current.points = Append(@, l.v)]
    [] l.d = "DC" /\ s.open -> [s EXCEPT !.errors = @ + 1]

ReadLine(s, l) ==
  CASE l.d = "AC" -> [Flushed(s) EXCEPT !.open = TRUE,
                        !.current = [class |-> OrElse(l.v, "UNKNOWN"), name |-> "Unnamed", limits |-> "SFC", points |-> <<>>]]
    [] l.d # "AC" /\ ~s.open -> s
    [] l.d = "AN" /\ s.open -> [s EXCEPT !.current.name = OrElse(l.v, "Unnamed")]
    [] l.d = "AL" /\ s.open -> [s EXCEPT !.current.limits = OrElse(l.v, "SFC")]
    [] l.d = "DP" /\ s.open -> IF l.v = "unreadable" THEN [s EXCEPT !.errors = @ + 1]
                               ELSE [s EXCEPT !.current.points = Append(@, l.v)]
    [] l.d = "DC" /\ s.open -> [s EXCEPT !.errors = @ + 1]

Unread == [open |-> FALSE, current |-> Nothing, spaces |-> <<>>, errors |-> 0]

\* What the first lines of a file leave, from none to all.
Reading(file) ==
  LET after[n \in 0 .. Len(file)] == IF n = 0 THEN Unread ELSE ReadLine(after[n - 1], file[n])
  IN after

ParseOpenAirFile(file) == Flushed(Reading(file)[Len(file)]).spaces

-----------------------------------------------------------------------------
(* importOpenAir *)

\* What identifies an airspace of a file: what it is, where it begins and its place.
SourceId(a, i) == <<a.class, a.name, a.limits, a.ring[1], i>>

\* startsWith(source + ":"): an id begins with the class.
BeginsWith(sid, s) == sid[1] = s

ReceiveOpenAir(s, file, replace) ==
  /\ desk.step # "writing" /\ imports.openair < MaxImports
  /\ drawn' = IF replace THEN {r \in drawn : ~BeginsWith(r.sid, s)} ELSE drawn
  /\ desk' = [step |-> "writing", from |-> s, replace |-> replace, file |-> file,
              spaces |-> ParseOpenAirFile(file), next |-> 1]
  /\ imports' = [imports EXCEPT !.openair = @ + 1]
  /\ UNCHANGED <<issued, fetched, zone, importing, missed>>

\* "of" is history: no column holds the source.
UpsertDrawn ==
  /\ desk.step = "writing" /\ desk.next <= Len(desk.spaces)
  /\ LET a == desk.spaces[desk.next]
         sid == SourceId(a, desk.next)
     IN drawn' = {r \in drawn : r.sid # sid} \cup {[sid |-> sid, shown |-> a, of |-> desk.from]}
  /\ desk' = [desk EXCEPT !.next = @ + 1]
  /\ UNCHANGED <<issued, fetched, zone, importing, missed, imports>>

AnswerOpenAir ==
  /\ desk.step = "writing" /\ desk.next > Len(desk.spaces)
  /\ desk' = [desk EXCEPT !.step = "done"]
  /\ UNCHANGED <<issued, fetched, zone, importing, missed, drawn, imports>>

\* An upsert is refused, or the process stops: what was written stays.
FailOpenAir ==
  /\ desk.step = "writing"
  /\ desk' = NoRequest
  /\ UNCHANGED <<issued, fetched, zone, importing, missed, drawn, imports>>

-----------------------------------------------------------------------------
(* syncOpenAipAirspaces *)

OpenAipReissues(x) ==
  /\ \/ issued[x] < MaxIssue /\ issued' = [issued EXCEPT ![x] = @ + 1]
     \/ issued[x] > 0 /\ issued' = [issued EXCEPT ![x] = 0]
  /\ UNCHANGED <<fetched, zone, importing, missed, drawn, desk, imports>>

FetchAirspaces ==
  /\ importing = Off /\ imports.nightly < MaxImports
  /\ fetched' = issued
  /\ importing' = {x \in Airspace : issued[x] > 0}
  /\ missed' = {}
  /\ imports' = [imports EXCEPT !.nightly = @ + 1]
  /\ UNCHANGED <<issued, zone, drawn, desk>>

Fetched(x) == [hash |-> fetched[x], content |-> fetched[x]]

\* Mutant: what is known already is only marked as seen.
UpsertUnknown(x) ==
  /\ importing # Off /\ x \in importing
  /\ zone' = IF zone[x] # NoZone THEN zone ELSE [zone EXCEPT ![x] = Fetched(x)]
  /\ importing' = importing \ {x}
  /\ UNCHANGED <<issued, fetched, missed, drawn, desk, imports>>

UpsertAirspace(x) ==
  /\ importing # Off /\ x \in importing
  /\ zone' = IF zone[x].hash = fetched[x] THEN zone ELSE [zone EXCEPT ![x] = Fetched(x)]
  /\ importing' = importing \ {x}
  /\ UNCHANGED <<issued, fetched, missed, drawn, desk, imports>>

\* A statement is refused: the loop goes on.
SkipAirspace(x) ==
  /\ importing # Off /\ x \in importing
  /\ importing' = importing \ {x}
  /\ missed' = missed \cup {x}
  /\ UNCHANGED <<issued, fetched, zone, drawn, desk, imports>>

\* The summary is returned, or the worker dies.
EndAirspaces ==
  /\ importing # Off
  /\ importing' = Off
  /\ missed' = missed \cup importing
  /\ UNCHANGED <<issued, fetched, zone, drawn, desk, imports>>

AirspacesNext ==
  \/ \E s \in Origin, file \in Files, replace \in BOOLEAN : ReceiveOpenAir(s, file, replace)
  \/ UpsertDrawn \/ AnswerOpenAir \/ FailOpenAir
  \/ \E x \in Airspace : OpenAipReissues(x) \/ UpsertAirspace(x) \/ SkipAirspace(x)
  \/ FetchAirspaces \/ EndAirspaces

AirspacesSpec == AirspacesInit /\ [][AirspacesNext]_airspaceVars

-----------------------------------------------------------------------------
(* Properties *)

\* A block begins on a line with an AC and goes on to the next; some lines of it.
Starts(file) == {i \in DOMAIN file : file[i].d = "AC"}
LinesTo(file, i, n) == LET starts == Starts(file) IN {j \in i + 1 .. n : \A k \in i + 1 .. j : k \notin starts}
BlockFrom(file, i) == LinesTo(file, i, Len(file))
Telling(file, lines, d) == {j \in lines : file[j].d = d /\ ~(d = "DP" /\ file[j].v = "unreadable")}

\* A block with three points is an airspace.
Blocks(file) == {i \in Starts(file) : Cardinality(Telling(file, BlockFrom(file, i), "DP")) >= 3}

LastSaid(file, lines, default) ==
  IF lines = {} THEN default ELSE OrElse(file[CHOOSE j \in lines : \A k \in lines : k <= j].v, default)

PlaceIn(j, lines) == Cardinality({k \in lines : k <= j})

\* The airspace is that of the block: its class, its last name, its points in their
\* order, and a ring that ends where it began.
Draws(a, file, i) ==
  LET block == BlockFrom(file, i)
      points == Telling(file, block, "DP")
  IN /\ a.class = OrElse(file[i].v, "UNKNOWN")
     /\ a.name = LastSaid(file, Telling(file, block, "AN"), "Unnamed")
     /\ a.limits = LastSaid(file, Telling(file, block, "AL"), "SFC")
     /\ Len(a.ring) \in {Cardinality(points), Cardinality(points) + 1}
     /\ \A j \in points : a.ring[PlaceIn(j, points)] = file[j].v
     /\ a.ring[Len(a.ring)] = a.ring[1]

\* When a file has been imported every block of it is an airspace, and each airspace
\* is drawn from one block, whatever was refused half-way or sent again.
BlocksAreDrawn ==
  /\ desk.step = "done" => \A i \in Blocks(desk.file) : \E r \in drawn : Draws(r.shown, desk.file, i)
  /\ \A r \in drawn : \E file \in Files : \E i \in Blocks(file) : Draws(r.shown, file, i)

\* Every airspace of openAIP that an import got to is as openAIP had it, its hash
\* telling what its row holds.
ZonesMatchTheirHash ==
  /\ \A x \in Airspace : zone[x].hash = zone[x].content
  /\ \A x \in Airspace \ missed :
       importing \in {Off, {}} /\ fetched[x] > 0 => zone[x].content = fetched[x]

AirspacesAreWhole == BlocksAreDrawn /\ ZonesMatchTheirHash

\* "replaceSource": after a file has replaced those of its source, the airspaces of
\* that source are the ones of the file.
ReplacedMeansReplaced ==
  desk.step = "done" /\ desk.replace =>
    {r.shown : r \in {r \in drawn : r.of = desk.from}} = {desk.spaces[k] : k \in DOMAIN desk.spaces}
=============================================================================

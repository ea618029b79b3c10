------------------------------ MODULE Stopovers ------------------------------
(* The places a pilot finds around an aerodrome: the stops of public         *)
(* transport, merged when OpenStreetMap has several objects for one          *)
(* (transport.service.ts), and whether a restaurant is open now              *)
(* (parseOpeningHours of restaurant.service.ts).  Places are on a line, the  *)
(* aerodrome at 0; a name is a set of words; hours and days are numbers.     *)
EXTENDS Integers, Sequences, FiniteSets, FiniteSetsExt, SequencesExt

CONSTANTS Stop,          \* rows of osm.pois: name, place, tags, capacity (0: not known)
          MaxStops,      \* bound: rows near the aerodrome
          Reach,         \* radius asked for
          Walkable,      \* WALKABLE_THRESHOLD_METERS
          ClusterRadius, \* CLUSTER_RADIUS_METERS
          Rules,         \* rules of opening_hours
          MaxRules,      \* bound: rules of one place
          WeekDays,      \* days of a week, 1 is Monday and the last one is day 0
          Hours          \* hours of a day

ASSUME StopoversAssumption ==
  /\ {Reach, Walkable, ClusterRadius, MaxStops, MaxRules} \subseteq Nat /\ {WeekDays, Hours} \subseteq Nat \ {0}
  /\ \A s \in Stop : s.at \in Int /\ s.capacity \in Nat /\ IsFiniteSet(s.name)
  /\ \A rule \in Rules :
       /\ \A s \in rule.days : s[1] \in 1 .. WeekDays /\ s[2] \in 1 .. WeekDays
       /\ \A r \in rule.ranges : r[1] \in 0 .. Hours /\ r[2] \in 0 .. Hours

VARIABLES rows,     \* osm.pois of the category, in the order of the database
          stops,    \* normalised, sorted, and not yet merged
          clusters,
          phase,    \* "asked", "merging", "answered", or "reading" and "read" for a place
          available,\* the pilot service "transport" of the answer
          rules,    \* opening_hours of the place, split at the semicolons
          next,     \* rule to be read
          now,      \* day and hour
          matched,  \* anyRuleMatchedToday
          isOpen    \* the answer: "unknown" is null

stopoverVars == <<rows, stops, clusters, phase, available, rules, next, now, matched, isOpen>>

StopoversInit ==
  /\ stops = <<>> /\ clusters = <<>> /\ available = FALSE
  /\ next = 1 /\ matched = FALSE /\ isOpen = "unknown"
  /\ \/ /\ phase = "asked" /\ rows \in BoundedSeq(Stop, MaxStops)
        /\ rules = <<>> /\ now = [day |-> 0, hour |-> 0]
     \/ /\ phase = "reading" /\ rows = <<>>
        /\ rules \in BoundedSeq(Rules, MaxRules)
        /\ now \in [day : 0 .. WeekDays - 1, hour : 0 .. Hours - 1]

-----------------------------------------------------------------------------
(* getNearbyTransport *)

Far(x) == IF x < 0 THEN -x ELSE x

\* classifyTransport: the first kind of tag counts.
Classified(tags) ==
  LET kind(type, sub) == [type |-> type, sub |-> sub]
      track == IF "tram" \in tags THEN "tram" ELSE IF "rail" \in tags THEN "train" ELSE "bus"
  IN IF "bicycle_rental" \in tags THEN kind("bike", IF "docking_station" \in tags THEN "station" ELSE "stop")
     ELSE IF "station" \in tags THEN kind("train", "station")
     ELSE IF "halt" \in tags THEN kind("train", "stop")
     ELSE IF "tram_stop" \in tags THEN kind("tram", "stop")
     ELSE IF "bus_stop" \in tags THEN kind("bus", IF "platform" \in tags THEN "platform" ELSE "stop")
     ELSE IF "platform" \in tags THEN kind(track, "platform")
     ELSE IF "stop_position" \in tags THEN kind(track, "stop")
     ELSE kind("other", "stop")

TypePriority == [train |-> 4, tram |-> 3, bus |-> 2, bike |-> 1, other |-> 0]
SubtypePriority == [station |-> 3, platform |-> 2, stop |-> 1]
Higher(x, y, priority) == IF priority[y] > priority[x] THEN y ELSE x

\* normalizeTransport: without a name, the one of its kind.
Normalized(i) ==
  LET kind == Classified(rows[i].tags) IN
  [name |-> IF rows[i].name = {} THEN {kind.type} ELSE rows[i].name, at |-> rows[i].at,
   type |-> kind.type, sub |-> kind.sub, capacity |-> rows[i].capacity, sources |-> {i}]

\* queryOsmTransport: the rows in the box around the aerodrome.
Near == {i \in DOMAIN rows : Far(rows[i].at) <= Reach}

\* Mutant: the rows are merged in the order of the database.
GatherUnsorted ==
  /\ phase = "asked"
  /\ LET order == SetToSortSeq(Near, <)
     IN stops' = [k \in DOMAIN order |-> Normalized(order[k])]
  /\ phase' = "merging"
  /\ UNCHANGED <<rows, clusters, available, rules, next, now, matched, isOpen>>

\* Array.prototype.sort keeps the order of the database where distances are equal.
Sorted(order) ==
  \A k, l \in DOMAIN order : k < l =>
    LET far(i) == Far(rows[i].at)
        i == order[k]  j == order[l]
    IN far(i) < far(j) \/ (far(i) = far(j) /\ i < j)

Gather ==
  /\ phase = "asked"
  /\ \E order \in SetToSeqs(Near) :
       Sorted(order) /\ stops' = [k \in DOMAIN order |-> Normalized(order[k])]
  /\ phase' = "merging"
  /\ UNCHANGED <<rows, clusters, available, rules, next, now, matched, isOpen>>

NamesAreSimilar(a, b) == a \subseteq b \/ b \subseteq a

Merged(base, incoming) ==
  [base EXCEPT !.name = IF Cardinality(incoming.name) > Cardinality(@) THEN incoming.name ELSE @,
               !.capacity = IF @ = 0 THEN incoming.capacity ELSE @,
               !.type = Higher(@, incoming.type, TypePriority),
               !.sub = Higher(@, incoming.sub, SubtypePriority),
               !.sources = @ \cup incoming.sources]

\* clusterTransports: the first cluster that is close and named alike takes the stop.
ClusterStop ==
  /\ phase = "merging" /\ stops # <<>>
  /\ LET stop == Head(stops)
         fitting == {c \in DOMAIN clusters : /\ Far(stop.at - clusters[c].at) <= ClusterRadius
                                             /\ NamesAreSimilar(stop.name, clusters[c].name)}
     IN clusters' = IF fitting = {} THEN Append(clusters, stop)
                    ELSE [clusters EXCEPT ![Min(fitting)] = Merged(@, stop)]
  /\ stops' = Tail(stops)
  /\ UNCHANGED <<rows, phase, available, rules, next, now, matched, isOpen>>

AnswerTransport ==
  /\ phase = "merging" /\ stops = <<>>
  /\ available' = (\E c \in DOMAIN clusters : Far(clusters[c].at) <= Walkable)
  /\ phase' = "answered"
  /\ UNCHANGED <<rows, stops, clusters, rules, next, now, matched, isOpen>>

-----------------------------------------------------------------------------
(* parseOpeningHours *)

\* Mutant: Monday is day 0.
ExpandFromZero(spans) == UNION {{k - 1 : k \in s[1] .. s[2]} : s \in spans}

\* expandDaySpec: a span that ends before it begins names no day.
ExpandDaySpec(spans) == UNION {{k % WeekDays : k \in s[1] .. s[2]} : s \in spans}

DaysOf(rule) == IF rule.days = {} THEN 0 .. WeekDays - 1 ELSE ExpandDaySpec(rule.days)

OpenDuring(range) ==
  IF range[2] > range[1] THEN now.hour \in range[1] .. range[2] - 1
                         ELSE now.hour >= range[1] \/ now.hour < range[2]

\* One rule: of a month or a holiday, of another day, or of today.
ReadRule ==
  /\ phase = "reading" /\ next <= Len(rules)
  /\ LET rule == rules[next]
         today == ~rule.complex /\ now.day \in DaysOf(rule)
     IN /\ matched' = (matched \/ today)
        /\ IF today /\ \E r \in rule.ranges : OpenDuring(r)
           THEN isOpen' = "open" /\ phase' = "read"
           ELSE UNCHANGED <<isOpen, phase>>
  /\ next' = next + 1
  /\ UNCHANGED <<rows, stops, clusters, available, rules, now>>

EndRules ==
  /\ phase = "reading" /\ next > Len(rules)
  /\ isOpen' = IF matched THEN "closed" ELSE "unknown"
  /\ phase' = "read"
  /\ UNCHANGED <<rows, stops, clusters, available, rules, next, now, matched>>

StopoversNext == Gather \/ ClusterStop \/ AnswerTransport \/ ReadRule \/ EndRules
StopoversSpec == StopoversInit /\ [][StopoversNext]_stopoverVars

-----------------------------------------------------------------------------
(* Property *)

\* The rule of a day as OpenStreetMap reads them: a span may go round the week,
\* and the last rule that names the day replaces the others.
Names(rule, day) ==
  \/ rule.days = {}
  \/ \E s \in rule.days : \E k \in 1 .. WeekDays :
       /\ k % WeekDays = day
       /\ IF s[1] <= s[2] THEN k \in s[1] .. s[2] ELSE k >= s[1] \/ k <= s[2]
RuleOf(day) == {i \in DOMAIN rules : Names(rules[i], day) /\ \A j \in i + 1 .. Len(rules) : ~Names(rules[j], day)}

\* Open today, or since yesterday evening.
OpenNow ==
  LET yesterday == (now.day + WeekDays - 1) % WeekDays IN
  \/ \E i \in RuleOf(now.day) : \E r \in rules[i].ranges :
       now.hour >= r[1] /\ (now.hour < r[2] \/ r[2] <= r[1])
  \/ \E i \in RuleOf(yesterday) : \E r \in rules[i].ranges : r[2] <= r[1] /\ now.hour < r[2]

\* What the parser is not made for: months and holidays, a day with two rules,
\* hours past midnight, a span that goes round the week.
Simple ==
  /\ \A i \in DOMAIN rules :
       /\ ~rules[i].complex
       /\ \A s \in rules[i].days : s[1] <= s[2]
       /\ \A r \in rules[i].ranges : r[1] < r[2]
  /\ \A day \in 0 .. WeekDays - 1 : Cardinality({i \in DOMAIN rules : Names(rules[i], day)}) <= 1

\* Merging loses no stop and hides none: each is a source of one cluster, which is
\* no farther from the aerodrome than it, near it, and knows what it knew; so the
\* service is offered if and only if a stop can be walked to.  And of opening hours
\* in the forms the parser is made for, it says what OpenStreetMap does.
PlacesAreRight ==
  /\ phase = "answered" =>
       /\ \A i \in Near :
            /\ Cardinality({c \in DOMAIN clusters : i \in clusters[c].sources}) = 1
            /\ \A c \in DOMAIN clusters : i \in clusters[c].sources =>
                 /\ Far(clusters[c].at) <= Far(rows[i].at) /\ Far(clusters[c].at - rows[i].at) <= ClusterRadius
                 /\ rows[i].name # {} => Cardinality(rows[i].name) <= Cardinality(clusters[c].name)
                 /\ rows[i].capacity > 0 => clusters[c].capacity > 0
                 /\ TypePriority[Classified(rows[i].tags).type] <= TypePriority[clusters[c].type]
       /\ available = (\E i \in Near : Far(rows[i].at) <= Walkable)
  /\ phase = "read" /\ Simple =>
       /\ isOpen = "open" <=> OpenNow
       /\ isOpen = "unknown" <=> RuleOf(now.day) = {}
=============================================================================

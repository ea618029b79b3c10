------------------------------ MODULE Matching ------------------------------
(* Which row of OurAirports is which of our aerodromes
   (ourairports.normalizer.ts, matchAerodromes; syncOurAirportsLinks writes the
   links of the row): by ICAO code, then by position.  Rows and aerodromes are
   numbered in the order they are looked at, and lie on a line. *)
EXTENDS Integers, Sequences, FiniteSetsExt

CONSTANTS Strips,     \* how many aerodromes, and how many rows
          Lines,
          Places,     \* bound: positions
          Codes,      \* ICAO codes
          CodeLists,  \* what codesOf may return
          MaxMatch    \* MAX_MATCH_DISTANCE_M

NoIcao == "no code"

ASSUME MatchingAssumption ==
  /\ Strips \in Nat /\ Lines \in Nat /\ MaxMatch \in Nat
  /\ Places \subseteq Int /\ CodeLists \subseteq Seq(Codes) /\ NoIcao \notin Codes

VARIABLES strip,   \* our aerodromes: where, and their code
          line,    \* the rows: where, and their codes
          row,     \* the row, then the aerodrome looked at
          field,
          match,   \* the row of each aerodrome, 0 if none
          coded    \* the aerodromes matched by code

matchingVars == <<strip, line, row, field, match, coded>>

MatchingInit ==
  /\ strip \in [1 .. Strips -> [at : Places, icao : Codes \cup {NoIcao}]]
  /\ \A a, b \in 1 .. Strips : a # b /\ strip[a].icao # NoIcao => strip[a].icao # strip[b].icao
  /\ line \in [1 .. Lines -> [at : Places, codes : CodeLists]]
  /\ row = 1 /\ field = 1
  /\ match = [a \in 1 .. Strips |-> 0]
  /\ coded = {}

\* Mutant: a later row takes the aerodrome over.
NamedAgain(r, i) == {a \in 1 .. Strips : strip[a].icao = line[r].codes[i]}

\* The aerodromes a code of the row stands for, unless a row has them already.
Named(r, i) == {a \in (1 .. Strips) \ coded : strip[a].icao = line[r].codes[i]}

\* A row is given to the first of them, in the order of its codes.
MatchByCode ==
  /\ row <= Lines
  /\ row' = row + 1
  /\ LET telling == {i \in DOMAIN line[row].codes : Named(row, i) # {}}
         named == CHOOSE a \in Named(row, Min(telling)) : TRUE
     IN IF telling = {} THEN UNCHANGED <<match, coded>>
        ELSE match' = [match EXCEPT ![named] = row] /\ coded' = coded \cup {named}
  /\ UNCHANGED <<strip, line, field>>

\* All that no row named: with a code, too, that no row has left to give.
FreeStrips == (1 .. Strips) \ coded
FreeLines == {r \in 1 .. Lines : \A a \in coded : match[a] # r}

Apart(a, r) == IF strip[a].at > line[r].at THEN strip[a].at - line[r].at ELSE line[r].at - strip[a].at

\* The nearest within reach, the first of those as near; 0 if there is none.
ClosestLine(a) ==
  LET reach == {r \in FreeLines : Apart(a, r) <= MaxMatch}
      nearest == {r \in reach : \A s \in reach : Apart(a, r) <= Apart(a, s)}
  IN IF reach = {} THEN 0 ELSE Min(nearest)

ClosestStrip(r) ==
  LET reach == {a \in FreeStrips : Apart(a, r) <= MaxMatch}
      nearest == {a \in reach : \A b \in reach : Apart(a, r) <= Apart(b, r)}
  IN IF reach = {} THEN 0 ELSE Min(nearest)

\* Mutant: the nearest row is taken without looking back from it.
OneWay(a) == ClosestLine(a)

Mutual(a) == IF ClosestLine(a) # 0 /\ ClosestStrip(ClosestLine(a)) = a THEN ClosestLine(a) ELSE 0

MatchByDistance ==
  /\ row > Lines /\ field <= Strips
  /\ field' = field + 1
  /\ match' = IF field \in FreeStrips THEN [match EXCEPT ![field] = Mutual(field)] ELSE match
  /\ UNCHANGED <<strip, line, row, coded>>

MatchingNext == MatchByCode \/ MatchByDistance
MatchingSpec == MatchingInit /\ [][MatchingNext]_matchingVars

-----------------------------------------------------------------------------
(* Properties *)

\* "ICAO codes first": who is matched by code bears a code of the row, and whoever
\* bears a code of some row has that row or one before it, unless it went to a code
\* it has before that one.
CodesComeFirst ==
  /\ \A a \in coded : \E i \in DOMAIN line[match[a]].codes : line[match[a]].codes[i] = strip[a].icao
  /\ \A a \in 1 .. Strips, r \in 1 .. Lines : \A i \in DOMAIN line[r].codes :
       line[r].codes[i] = strip[a].icao =>
         \/ a \in coded /\ match[a] <= r
         \/ \E b \in coded, j \in DOMAIN line[r].codes :
               j < i /\ match[b] = r /\ line[r].codes[j] = strip[b].icao

\* By position a row that is left goes to an aerodrome that is left, within
\* MAX_MATCH_DISTANCE_M and when no other is nearer, either way; and two that are
\* each other's only nearest do find each other.
PositionsAreMutual ==
  \A a \in FreeStrips :
    /\ match[a] # 0 =>
         /\ match[a] \in FreeLines /\ Apart(a, match[a]) <= MaxMatch
         /\ \A s \in FreeLines : Apart(a, match[a]) <= Apart(a, s)
         /\ \A b \in FreeStrips : Apart(a, match[a]) <= Apart(b, match[a])
    /\ \A r \in FreeLines :
         (/\ Apart(a, r) <= MaxMatch
          /\ \A s \in FreeLines \ {r} : Apart(a, r) < Apart(a, s)
          /\ \A b \in FreeStrips \ {a} : Apart(a, r) < Apart(b, r)) => match[a] = r

\* However close the strips and whatever the codes: a row serves one aerodrome, codes
\* come first, positions are mutual, "so that two neighbouring strips never swap
\* links" (ourairports.normalizer.ts:182).  The comment keeps positions for aerodromes
\* without an ICAO code; the code has them for every aerodrome no row named, and for
\* every row that named none, which may bear the code of another aerodrome.
LinksAreNotSwapped ==
  field > Strips =>
    /\ \A a, b \in 1 .. Strips : a # b /\ match[a] # 0 => match[a] # match[b]
    /\ CodesComeFirst
    /\ PositionsAreMutual

=============================================================================

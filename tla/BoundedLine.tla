---------------------------- MODULE BoundedLine ----------------------------
(***************************************************************************)
(* What the antivirus semaphore promises, without counters or closures: at *)
(* most Places clients are inside, the others stand in a line of bounded   *)
(* length and enter in the order they came, nobody stands in line while a  *)
(* place is free, and a client is refused only when the line is full.      *)
(***************************************************************************)
EXTENDS Naturals, Sequences, FiniteSets

CONSTANTS Client, Places, LineLength

VARIABLES inside, line, seen

lineVars == <<inside, line, seen>>

LineInit == inside = {} /\ line = <<>> /\ seen = {}

Full == Cardinality(inside) = Places

Enter(c) ==
    /\ c \notin seen
    /\ ~Full
    /\ line = <<>>
    /\ inside' = inside \cup {c}
    /\ seen' = seen \cup {c}
    /\ UNCHANGED line

StandInLine(c) ==
    /\ c \notin seen
    /\ Full
    /\ Len(line) < LineLength
    /\ line' = Append(line, c)
    /\ seen' = seen \cup {c}
    /\ UNCHANGED inside

TurnAway(c) ==
    /\ c \notin seen
    /\ Full
    /\ Len(line) >= LineLength
    /\ seen' = seen \cup {c}
    /\ UNCHANGED <<inside, line>>

\* The place goes to the head of the line in the same step.
Leave(c) ==
    /\ c \in inside
    /\ \/ /\ line = <<>>
          /\ inside' = inside \ {c}
          /\ UNCHANGED line
       \/ /\ line # <<>>
          /\ inside' = (inside \ {c}) \cup {Head(line)}
          /\ line' = Tail(line)
    /\ UNCHANGED seen

LineNext == \E c \in Client : Enter(c) \/ StandInLine(c) \/ TurnAway(c) \/ Leave(c)

LineSafety == LineInit /\ [][LineNext]_lineVars

LineSpec == LineSafety /\ \A c \in Client : WF_lineVars(Leave(c))
=============================================================================

---------------------------- MODULE MCAirspaces ----------------------------
(* Files of two blocks at most: a triangle, a closed square, a block with a *)
(* point too few, and one with a circle and a point nobody can read.        *)
EXTENDS Airspaces

Directive(d, v) == [d |-> d, v |-> v]
Dps(points) == [i \in DOMAIN points |-> Directive("DP", points[i])]

Alpha == <<Directive("AC", "R"), Directive("AN", "Alpha"), Directive("AL", "FL065")>> \o Dps(<<"a", "b", "c">>)
Beta == <<Directive("AC", "D"), Directive("AN", "Beta")>> \o Dps(<<"a", "b", "c", "d", "a">>)
Gamma == <<Directive("AC", "P"), Directive("AN", "Gamma"), Directive("AL", "")>> \o Dps(<<"a", "b">>)
Delta == <<Directive("AC", "Q"), Directive("DC", "5"), Directive("AN", "")>> \o Dps(<<"unreadable", "b", "c", "d">>)

SampleBlocks == {Alpha, Beta, Gamma, Delta}
SampleFiles == {<<Directive("AN", "Preamble")>> \o b : b \in SampleBlocks}
               \cup {b \o c : b \in SampleBlocks, c \in {Alpha, Beta}}
=============================================================================

----------------------------- MODULE MCSessions -----------------------------
(* The sessions of one account as the server keeps them, and as one browser  *)
(* does: two parts that share nothing, checked in one run, where each        *)
(* behaviour is a behaviour of one of them.                                  *)
(* Sessions: three sessions can be issued, two handlers are in flight at     *)
(* once, and the row can be revoked twice.  Browser: two calls under way at  *)
(* once and three pairs of tokens, for a sign-in and its rotations, or a     *)
(* second sign-in.  One tab makes both calls: all that a second tab would    *)
(* add is what it shows.  After a mishap, on which two of the properties say *)
(* nothing more, two pairs are drawn at most.                                *)
EXTENDS Sessions, Browser, TLC

VARIABLE part

mcVars == <<part, vars, browserVars>>

MCInit == part \in {"server", "browser"} /\ Init /\ BrowserInit

MCNext ==
  /\ UNCHANGED part
  /\ \/ part = "server" /\ Next /\ UNCHANGED browserVars
     \/ part = "browser" /\ BrowserNext /\ UNCHANGED vars

MCSpec == MCInit /\ [][MCNext]_mcVars

Few == mishap => \E p \in Pair : ~Drawn(p)

Symmetry == Permutations(Req) \cup Permutations(Jti)
=============================================================================

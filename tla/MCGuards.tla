------------------------------ MODULE MCGuards ------------------------------
(* Two guards that share nothing, the line in front of the antivirus and the *)
(* lock on a sign-in, checked in one run: each behaviour is a behaviour of   *)
(* one of them, the other standing still in its initial state, where nothing *)
(* it is fair to is enabled.                                                 *)
(* Scanning: two slots, a queue of two, five uploads: the first burst fills  *)
(* the slots and the queue, one upload is refused, and the order of the      *)
(* queue shows.  Lockout: two requests at once, two addresses; two failures  *)
(* lock an address out, three the account, which two windows of one address  *)
(* reach.                                                                    *)
EXTENDS Scanning, Lockout

VARIABLE part

MCInit ==
  /\ part \in {"scanning", "lockout"}
  /\ part = "lockout" => mode = "disabled"
  /\ from = [r \in Request |-> CHOOSE i \in Ip : TRUE]
  /\ Init /\ LockoutInit

MCNext ==
  /\ UNCHANGED part
  /\ \/ part = "scanning" /\ Next /\ UNCHANGED lockoutVars
     \/ part = "lockout" /\ LockoutNext /\ UNCHANGED vars

MCSpec == /\ MCInit /\ [][MCNext]_<<part, vars, lockoutVars>>
          /\ Fairness /\ LockoutFairness

(* After a death, of which AddressesComeBack asks nothing, one wrong password *)
(* at most; the two invariants of the lockout are proved without that bound.   *)
Few == crashes > 0 => wrong <= 1
=============================================================================

---------------------------- MODULE MCSyncQueue ----------------------------
(* Two sources that talk to each other, two aerodromes (so that a set of   *)
(* ids can be merged with another, and a delta differs from a full sweep), *)
(* three runs; one crash and one statement refused, in any order, or none. *)
EXTENDS SyncQueue

MCSource == {"OPENAIP", "REGIONS"}

=============================================================================

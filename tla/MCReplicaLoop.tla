---------------------------- MODULE MCReplicaLoop ----------------------------
(***************************************************************************)
(* Two of these calls, in any combination: two puts, a get and a call      *)
(* without a time-out; and background events.                              *)
(***************************************************************************)
EXTENDS ReplicaLoop
==============================================================================

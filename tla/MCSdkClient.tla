----------------------------- MODULE MCSdkClient -----------------------------
(***************************************************************************)
(* Two replicas; two retries and one refresh let an abandoned call race    *)
(* with the attempts that follow it.                                       *)
(***************************************************************************)
EXTENDS SdkClient
==============================================================================

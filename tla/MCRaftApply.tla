----------------------------- MODULE MCRaftApply -----------------------------
(***************************************************************************)
(* Backlogs of up to seven entries with a budget of two: the scan meets    *)
(* the budget, the passed-over entry and the stop within one backlog.      *)
(***************************************************************************)
EXTENDS RaftApply
=============================================================================

----------------------------- MODULE MCApprovals -----------------------------
(***************************************************************************)
(* Approvals for TLC: calls and conversations are model values; runs,      *)
(* votes, rule changes and restarts are bounded.                           *)
(***************************************************************************)
EXTENDS Approvals
=============================================================================

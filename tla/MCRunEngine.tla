----------------------------- MODULE MCRunEngine -----------------------------
(***************************************************************************)
(* RunEngine for TLC.  A run explores together the features its .cfg names *)
(* and leaves the others out; conversations are model values.  Runs and    *)
(* messages are bounded by NRuns and NMsgs, tool turns by MaxTurns,        *)
(* restarts by MaxCrashes.                                                 *)
(***************************************************************************)
EXTENDS RunEngine
=============================================================================

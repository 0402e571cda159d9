------------------------------- MODULE MCServices -------------------------------
(***************************************************************************)
(* The services that keep a Bot's machine, its schedule, its sign-ins and  *)
(* its memory, checked in one run: an instance is one of them, chosen at   *)
(* the start, and the others stay as they began.  They share no state;     *)
(* each is explored as if it were alone.                                   *)
(***************************************************************************)
EXTENDS Boxes, Automations, Tokens, Changes, History, Drives, Collector

VARIABLE service

vars == <<service, boxVars, autoVars, tokenVars, changeVars, historyVars, driveVars, collectVars>>

Init ==
  /\ service \in {"boxes", "automations", "tokens", "changes", "history", "drives",
                 "collector"}
  /\ BoxesInit /\ AutomationsInit /\ TokensInit /\ ChangesInit /\ HistoryInit /\ DrivesInit
  /\ CollectorInit

(* Only the service s moves.                                               *)
Only(s) ==
  /\ service = s /\ UNCHANGED service
  /\ s # "boxes"       => UNCHANGED boxVars
  /\ s # "automations" => UNCHANGED autoVars
  /\ s # "tokens"      => UNCHANGED tokenVars
  /\ s # "changes"     => UNCHANGED changeVars
  /\ s # "history"     => UNCHANGED historyVars
  /\ s # "drives"      => UNCHANGED driveVars
  /\ s # "collector"   => UNCHANGED collectVars

Next ==
  \/ Only("boxes")        /\ BoxesNext
  \/ Only("automations")  /\ AutomationsNext
  \/ Only("tokens")       /\ TokensNext
  \/ Only("changes")      /\ ChangesNext
  \/ Only("history")      /\ HistoryNext
  \/ Only("drives")       /\ DrivesNext
  \/ Only("collector")    /\ CollectorNext

(* Each service keeps the fairness of its own specification.               *)
Fairness ==
  /\ WF_boxVars(service = "boxes" /\ BoxRuns)
  /\ WF_autoVars(service = "automations" /\ SchedulerRuns)
  /\ WF_changeVars(service = "changes" /\ SnapsGoOn)
  /\ WF_collectVars(service = "collector" /\ CollectorFair)

Spec == Init /\ [][Next]_vars /\ Fairness

(* What a run may have changed, and what of it can be brought back.        *)
WorkspaceSafe == ChangesSafe /\ HistorySafe

(* A box that was wanted connects, a slot that has come is left, a run     *)
(* that is over leaves the list of those that may be at work, and what was *)
(* said is read for the Bot's memory.                                      *)
ServicesGoOn ==
  /\ EnsuredConnects /\ DueIsFired /\ RunLeaves
  /\ service = "collector" => CollectorCatchesUp
==============================================================================

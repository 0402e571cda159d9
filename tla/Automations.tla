----------------------------- MODULE Automations -----------------------------
(***************************************************************************)
(* One automation of a Bot (internal/app/automation/automation.go): its    *)
(* row, the scheduler's tick that fires it when it is due, and those who   *)
(* change, run or delete it meanwhile.  A change reads the row, then       *)
(* writes the columns its patch names and the next firing they move.       *)
(*                                                                         *)
(* A schedule is the number of ticks of the clock to its next slot, 0 for  *)
(* none; a firing time is a tick, and Never is a NULL next_run_at.         *)
(***************************************************************************)
EXTENDS Integers, FiniteSets

CONSTANTS NEdits,   \* changes (UpdateAutomation, the tool, the Heartbeat, Rezone)
          MaxTick,  \* ticks of the clock
          MaxStops, \* restarts of the control plane
          Schedules \* schedules an automation may have

ASSUME AutomationBounds ==
  /\ NEdits \in Nat /\ MaxTick \in Nat /\ MaxStops \in Nat
  /\ Schedules \subseteq Nat /\ IsFiniteSet(Schedules) /\ 0 \in Schedules

VARIABLES now,
          auto,    \* the row: exists, enabled, schedule, next firing
          fire,    \* the tick's firing: where it stands
          slot,    \* the row FireDue read
          edit,    \* where each change stands
          was,     \* the row each change read
          patch,   \* the columns it names and their values
          logged,  \* a run is live in the log chat
          stops,   \* restarts so far
          sober,   \* history: no firing was claimed of a row that was not due
          crossed  \* history: a change was written over another one

autoVars == <<now, auto, fire, slot, edit, was, patch, logged, stops, sober, crossed>>

Never  == -1
Edits  == 1..NEdits
AutoRows   == [alive : BOOLEAN, on : BOOLEAN, sched : Schedules, next : Int]
Patch  == [cols : SUBSET {"on", "sched"}, on : BOOLEAN, sched : Schedules]
NoPatch == [cols |-> {}, on |-> FALSE, sched |-> 0]

(* nextRun: the slot after a moment, if it is enabled and has a schedule.  *)
NextRun(a, from) == IF a.on /\ a.sched # 0 THEN from + a.sched ELSE Never

AutomationsInit ==
  /\ now = 0
  /\ auto = [alive |-> TRUE, on |-> TRUE, sched |-> 0, next |-> Never]
  /\ fire = "idle" /\ slot = auto
  /\ edit = [e \in Edits |-> "idle"] /\ was = [e \in Edits |-> auto]
  /\ patch = [e \in Edits |-> NoPatch]
  /\ logged = FALSE /\ stops = 0 /\ sober = TRUE /\ crossed = FALSE

-----------------------------------------------------------------------------
ClockTicks ==
  /\ now < MaxTick /\ now' = now + 1
  /\ UNCHANGED <<auto, fire, slot, edit, was, patch, logged, stops, sober, crossed>>

Due(a) == a.alive /\ a.on /\ a.next # Never /\ a.next <= now

(* FireDue reads what is due ...                                           *)
ReadDue ==
  /\ fire = "idle" /\ Due(auto)
  /\ fire' = "claims" /\ slot' = auto
  /\ UNCHANGED <<now, auto, edit, was, patch, logged, stops, sober, crossed>>

(* ... and claims the slot: only who moves next_run_at from what it read   *)
(* fires it.                                                               *)
ClaimWhatever ==
  /\ fire = "claims" /\ fire' = "fires"
  /\ auto' = [auto EXCEPT !.next = NextRun(slot, now)]
  /\ sober' = (sober /\ Due(auto))
  /\ UNCHANGED <<now, slot, edit, was, patch, logged, stops, crossed>>
ClaimKeepsSlot ==
  /\ fire = "claims" /\ fire' = IF auto.alive /\ auto.next = slot.next THEN "fires" ELSE "idle"
  /\ UNCHANGED <<now, auto, slot, edit, was, patch, logged, stops, sober, crossed>>
ClaimSlot ==
  /\ fire = "claims"
  /\ IF auto.alive /\ auto.next = slot.next
     THEN /\ fire' = "fires"
          /\ auto' = [auto EXCEPT !.next = NextRun(slot, now)]
          /\ sober' = (sober /\ Due(auto))
     ELSE fire' = "idle" /\ UNCHANGED <<auto, sober>>
  /\ UNCHANGED <<now, slot, edit, was, patch, logged, stops, crossed>>

(* fireAutomation: a run in the log chat, or none when one is live there.  *)
FireAutomation ==
  /\ fire = "fires"
  /\ fire' = "idle" /\ logged' = TRUE
  /\ UNCHANGED <<now, auto, slot, edit, was, patch, stops, sober, crossed>>

(* RunAutomation and Ask start one outside the schedule.                   *)
RunNow ==
  /\ auto.alive /\ ~logged
  /\ logged' = TRUE
  /\ UNCHANGED <<now, auto, fire, slot, edit, was, patch, stops, sober, crossed>>

RunEnds ==
  /\ logged /\ logged' = FALSE
  /\ UNCHANGED <<now, auto, fire, slot, edit, was, patch, stops, sober, crossed>>

-----------------------------------------------------------------------------
(* A change reads the row; one that names no column is Rezone, after the   *)
(* Bot's time zone changed ...                                             *)
ReadToEdit(e) ==
  /\ edit[e] = "idle" /\ auto.alive /\ \A d \in 1..(e - 1) : edit[d] # "idle"
  /\ edit' = [edit EXCEPT ![e] = "writes"]
  /\ was' = [was EXCEPT ![e] = auto]
  /\ \E p \in Patch : /\ p.cols = {} => auto.next # Never
                      /\ "on" \notin p.cols => ~p.on
                      /\ "sched" \notin p.cols => p.sched = 0
                      /\ patch' = [patch EXCEPT ![e] = p]
  /\ UNCHANGED <<now, auto, fire, slot, logged, stops, sober, crossed>>

(* ... and writes: the next firing is counted from the row it read with    *)
(* its patch on it, the other columns stay.                                *)
Patched(a, p) == [a EXCEPT !.on = IF "on" \in p.cols THEN p.on ELSE @,
                           !.sched = IF "sched" \in p.cols THEN p.sched ELSE @]
NextKept(e) == IF "sched" \in patch[e].cols THEN NextRun(Patched(was[e], patch[e]), now)
                                            ELSE auto.next
NextMoved(e) == NextRun(Patched(was[e], patch[e]), now)
SaveAutomation(e) ==
  /\ edit[e] = "writes"
  /\ edit' = [edit EXCEPT ![e] = "done"]
  /\ IF auto.alive
     THEN /\ auto' = [Patched(auto, patch[e]) EXCEPT !.next = NextMoved(e)]
          /\ crossed' = (crossed \/ was[e].on # auto.on \/ was[e].sched # auto.sched)
     ELSE UNCHANGED <<auto, crossed>>
  /\ UNCHANGED <<now, fire, slot, was, patch, logged, stops, sober>>

(* deleteAutomation stops what is live in the log and drops the row.       *)
DeleteAutomation ==
  /\ auto.alive
  /\ auto' = [auto EXCEPT !.alive = FALSE]
  /\ logged' = FALSE
  /\ UNCHANGED <<now, fire, slot, edit, was, patch, stops, sober, crossed>>

(* After a restart missed firings are skipped (Reschedule).                *)
RestartScheduler ==
  /\ stops < MaxStops /\ stops' = stops + 1
  /\ fire' = "idle" /\ logged' = FALSE
  /\ auto' = IF auto.alive /\ auto.next # Never /\ auto.next < now
             THEN [auto EXCEPT !.next = NextRun(auto, now)] ELSE auto
  /\ edit' = [e \in Edits |-> IF edit[e] = "writes" THEN "done" ELSE edit[e]]
  /\ UNCHANGED <<now, slot, was, patch, sober, crossed>>

-----------------------------------------------------------------------------
SchedulerRuns == ClockTicks \/ ReadDue \/ ClaimSlot \/ FireAutomation
AutomationsNext ==
  \/ SchedulerRuns \/ RunNow \/ RunEnds
  \/ DeleteAutomation \/ RestartScheduler
  \/ \E e \in Edits : ReadToEdit(e) \/ SaveAutomation(e)

(* The clock and the scheduler's tick go on (tickLoop in app.go).          *)
AutomationsSpec == AutomationsInit /\ [][AutomationsNext]_autoVars
                                   /\ WF_autoVars(SchedulerRuns)

-----------------------------------------------------------------------------
(* Every variable of the automation keeps its type.                        *)
AutomationsTypeOK ==
  /\ now \in 0..MaxTick /\ auto \in AutoRows /\ slot \in AutoRows
  /\ fire \in {"idle", "claims", "fires"}
  /\ edit \in [Edits -> {"idle", "writes", "done"}]
  /\ was \in [Edits -> AutoRows] /\ patch \in [Edits -> Patch]
  /\ logged \in BOOLEAN /\ stops \in 0..MaxStops /\ sober \in BOOLEAN /\ crossed \in BOOLEAN

(* The schedule starts a run only of an automation that is still there,    *)
(* enabled and due when its slot is claimed, whatever pauses, deletes or   *)
(* re-times it after FireDue read it.                                      *)
FiresOnlyDue == sober

(* An automation that is enabled and has a schedule has a next firing,     *)
(* unless a change was written over another one.                           *)
AwakeHasNext ==
  (auto.alive /\ auto.on /\ auto.sched # 0 /\ ~crossed) => auto.next # Never

(* A slot that has come is left: it is fired, or skipped by whoever moves  *)
(* it.                                                                     *)
DueIsFired == []<>(auto.alive /\ auto.on => auto.next \notin 0..MaxTick)

(* What holds of an automation beside its edits in every state.            *)
AutomationsSafe == AutomationsTypeOK /\ FiresOnlyDue /\ AwakeHasNext
=============================================================================

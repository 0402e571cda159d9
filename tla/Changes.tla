------------------------------- MODULE Changes -------------------------------
(***************************************************************************)
(* Who changed a Bot's workspace (internal/app/changes/changes.go): a      *)
(* snapshot before a run's first tool that can change files, and one when  *)
(* it ends, each naming the runs at work; the snapshots the pane's look    *)
(* and a restore take besides.  Runs of one Bot go on side by side, a      *)
(* run's tools too, and a snapshot may fail, or leave writes to the next.  *)
(*                                                                         *)
(* The model keeps whose writes no snapshot holds yet.  A snapshot is one  *)
(* step: that a worker finishes one its caller gave up on is left out.     *)
(***************************************************************************)
EXTENDS Integers

CONSTANTS NChangers,   \* runs of the Bot
          NTools,      \* tools of a run that can change files
          MaxSnapFails \* snapshots that fail, or do not get everything

ASSUME ChangeBounds == {NChangers, NTools, MaxSnapFails} \subseteq Nat

Changers == 1..NChangers
Tools    == 1..NTools

VARIABLES joined,  \* botState.live: runs that began changing things
          ready,   \* those whose opening snapshot is done (their channel is closed)
          others,  \* the runs a run's opening snapshot will name
          tool,    \* where each tool's Begin stands
          changer, \* where each run stands
          turn,    \* who holds botState.snap, 0 for nobody
          dirty,   \* runs with writes no snapshot holds yet
          indexing, \* the last checkpoint is partial, or there is none
          owner,   \* where the owner's restore stands
          working, \* the runs its two snapshots will name
          snapFails,
          unnamed, \* history: runs whose writes a change shows without them
          excused  \* history: runs whose last snapshot failed or left their
                   \* writes, or that began between somebody's reading of
                   \* who works and its snapshot

recordVars == <<dirty, indexing, snapFails, unnamed>>
ownerVars  == <<owner, working>>
changeVars == <<joined, ready, others, tool, changer, turn, recordVars, ownerVars, excused>>

ChangesInit ==
  /\ joined = {} /\ ready = {} /\ others = [r \in Changers |-> {}]
  /\ tool = [r \in Changers |-> [k \in Tools |-> "no"]]
  /\ changer = [r \in Changers |-> "on"] /\ turn = 0
  /\ dirty = {} /\ indexing = TRUE /\ owner = "no" /\ working = {}
  /\ snapFails = 0 /\ unnamed = {} /\ excused = {}

ToolAt(r, k, from, to) ==
  tool[r][k] = from /\ tool' = [tool EXCEPT ![r][k] = to]
ChangerAt(r, from, to) ==
  changer[r] = from /\ changer' = [changer EXCEPT ![r] = to]

(* checkpoint succeeds and names who, or it fails.  One that is partial,   *)
(* or whose git add failed, leaves writes to the next one.  What differs   *)
(* from a partial one is not shown: it is the index catching up.  Without  *)
(* a write in it the tree may be the same, and then the last one stays.    *)
Records(who, left, partial) ==
  /\ partial \/ left # {} => snapFails < MaxSnapFails
  /\ snapFails' = IF partial \/ left # {} THEN snapFails + 1 ELSE snapFails
  /\ dirty' = left
  /\ \E kept \in SUBSET dirty :
       /\ dirty = kept \union left
       /\ \/ indexing' = partial
          \/ kept = {} /\ ~indexing /\ UNCHANGED indexing
       /\ unnamed' = IF indexing THEN unnamed ELSE unnamed \union (kept \ who)
Misses ==
  /\ snapFails < MaxSnapFails /\ snapFails' = snapFails + 1
  /\ UNCHANGED <<dirty, indexing, unnamed>>

-----------------------------------------------------------------------------
(* Begin of a run's first tool: under mu it reads who else works, joins    *)
(* them, and then waits for its turn.                                      *)
JoinsChangers(r, k) ==
  /\ changer[r] = "on" /\ r \notin joined /\ ToolAt(r, k, "no", "opens")
  /\ others' = [others EXCEPT ![r] = joined]
  /\ joined' = joined \union {r}
  /\ UNCHANGED <<ready, changer, turn, recordVars, ownerVars, excused>>

TakesSnap(r, k) ==
  /\ turn = 0 /\ turn' = r /\ ToolAt(r, k, "opens", "snaps")
  /\ UNCHANGED <<joined, ready, others, changer, recordVars, ownerVars, excused>>

(* It snapshots what is there, lets go of snap and closes its channel,     *)
(* whether the snapshot was taken or not.  While a restore is at work in   *)
(* the worker (histMu) none is taken.                                      *)
WorkerFree == owner # "puts"
OpensWhenTaken(r, k) ==
  /\ ToolAt(r, k, "snaps", "writes") /\ turn' = 0
  /\ \/ /\ WorkerFree /\ ready' = ready \union {r}
        /\ \E left \in SUBSET dirty, partial \in BOOLEAN : Records(others[r], left, partial)
        /\ excused' = excused \union (ready \ (others[r] \union {r}))
     \/ Misses /\ UNCHANGED <<ready, excused>>
  /\ UNCHANGED <<joined, others, changer, ownerVars>>
OpensRun(r, k) ==
  /\ ToolAt(r, k, "snaps", "writes") /\ turn' = 0
  /\ ready' = ready \union {r}
  /\ \/ /\ WorkerFree
        /\ \E left \in SUBSET dirty, partial \in BOOLEAN : Records(others[r], left, partial)
        /\ excused' = excused \union (ready \ (others[r] \union {r}))
     \/ Misses /\ UNCHANGED excused
  /\ UNCHANGED <<joined, others, changer, ownerVars>>

(* Its other tools wait for that snapshot.                                 *)
ToolGoesAhead(r, k) ==
  /\ changer[r] = "on" /\ r \in joined /\ ToolAt(r, k, "no", "writes")
  /\ UNCHANGED <<joined, ready, others, changer, turn, recordVars, ownerVars, excused>>
ToolWaits(r, k) ==
  /\ changer[r] = "on" /\ r \in joined /\ r \in ready /\ ToolAt(r, k, "no", "writes")
  /\ UNCHANGED <<joined, ready, others, changer, turn, recordVars, ownerVars, excused>>

ToolWrites(r, k) ==
  /\ ToolAt(r, k, "writes", "over")
  /\ dirty' = dirty \union {r}
  /\ UNCHANGED <<joined, ready, others, changer, turn, indexing, snapFails, unnamed, ownerVars,
                 excused>>

(* The run is over: End has nothing to do for one that changed nothing.    *)
RunIsOver(r) ==
  /\ \A k \in Tools : tool[r][k] \in {"no", "over"}
  /\ ChangerAt(r, "on", IF r \in joined THEN "ends" ELSE "gone")
  /\ UNCHANGED <<joined, ready, others, tool, turn, recordVars, ownerVars, excused>>

EndTakesSnap(r) ==
  /\ turn = 0 /\ turn' = r /\ r \in ready /\ ChangerAt(r, "ends", "snaps")
  /\ others' = [others EXCEPT ![r] = joined]
  /\ UNCHANGED <<joined, ready, tool, recordVars, ownerVars, excused>>

(* The closing snapshot, then the run leaves.  What the run wrote and the  *)
(* snapshot did not get is found by somebody else's.                       *)
EndsRun(r) ==
  /\ ChangerAt(r, "snaps", "gone") /\ turn' = 0
  /\ joined' = joined \ {r}
  /\ \/ /\ WorkerFree
        /\ \E left \in SUBSET dirty, partial \in BOOLEAN :
             Records(others[r], left, partial) /\ excused' = excused \union (left \intersect {r})
     \/ Misses /\ excused' = excused \union {r}
  /\ UNCHANGED <<ready, others, tool, ownerVars>>

-----------------------------------------------------------------------------
(* The pane's look takes a snapshot of its own, which names nobody, only   *)
(* while there is no checkpoint or the last one is partial.                *)
PaneLooks ==
  /\ WorkerFree /\ indexing
  /\ \E left \in SUBSET dirty, partial \in BOOLEAN : Records({}, left, partial)
  /\ UNCHANGED <<joined, ready, others, tool, changer, turn, ownerVars, excused>>

(* RestoreChange reads who works and asks the worker, without taking snap. *)
(* One restore is modelled.                                                *)
AsksRestore ==
  /\ owner = "no" /\ owner' = "asked" /\ working' = joined
  /\ UNCHANGED <<joined, ready, others, tool, changer, turn, recordVars, excused>>

(* The worker's snapshot before it puts files back; a partial one refuses  *)
(* the restore.                                                            *)
RestoreSnaps ==
  /\ owner = "asked"
  /\ \/ /\ owner' = "puts" /\ \E left \in SUBSET dirty : Records(working, left, FALSE)
        /\ excused' = excused \union (ready \ working)
     \/ owner' = "over" /\ UNCHANGED <<recordVars, excused>>
  /\ UNCHANGED <<joined, ready, others, tool, changer, turn, working>>

(* And the one after, if anything was put back.                            *)
RestoreIsOver ==
  /\ owner = "puts" /\ owner' = "over"
  /\ \/ /\ \E left \in SUBSET dirty, partial \in BOOLEAN : Records(working, left, partial)
        /\ excused' = excused \union (ready \ working)
     \/ UNCHANGED <<recordVars, excused>>
  /\ UNCHANGED <<joined, ready, others, tool, changer, turn, working>>

-----------------------------------------------------------------------------
ChangesNext ==
  \/ \E r \in Changers :
       \/ RunIsOver(r) \/ EndTakesSnap(r) \/ EndsRun(r)
       \/ \E k \in Tools : \/ JoinsChangers(r, k) \/ TakesSnap(r, k) \/ OpensRun(r, k)
                           \/ ToolWaits(r, k) \/ ToolWrites(r, k)
  \/ PaneLooks \/ AsksRestore \/ RestoreSnaps \/ RestoreIsOver

(* A snapshot is bounded by beginWait or endWait, a restore by restoreWait, *)
(* and mutexes are handed on.                                              *)
SnapsGoOn ==
  \/ RestoreIsOver
  \/ \E r \in Changers :
       EndTakesSnap(r) \/ EndsRun(r) \/ \E k \in Tools : TakesSnap(r, k) \/ OpensRun(r, k)
ChangesSpec == ChangesInit /\ [][ChangesNext]_changeVars /\ WF_changeVars(SnapsGoOn)

-----------------------------------------------------------------------------
(* Every variable of change tracking keeps its type.                       *)
ChangesTypeOK ==
  /\ joined \subseteq Changers /\ ready \subseteq Changers
  /\ others \in [Changers -> SUBSET Changers]
  /\ tool \in [Changers -> [Tools -> {"no", "opens", "snaps", "writes", "over"}]]
  /\ changer \in [Changers -> {"on", "ends", "snaps", "gone"}]
  /\ turn \in 0..NChangers /\ dirty \subseteq Changers /\ indexing \in BOOLEAN
  /\ owner \in {"no", "asked", "puts", "over"} /\ working \subseteq Changers
  /\ snapFails \in 0..MaxSnapFails
  /\ unnamed \subseteq Changers /\ excused \subseteq Changers

(* What lies between two snapshots is put down to the runs at work in that *)
(* stretch: no change shows a run's write without its name, unless the     *)
(* run's closing snapshot failed or left writes, or the run overtook       *)
(* another's opening one or a restore that had read who works.             *)
WritesAreNamed == unnamed \subseteq excused

(* A run that is over leaves: its closing snapshot waits neither for an    *)
(* opening one that failed nor for a turn that never comes.                *)
RunLeaves == []<>(\A r \in Changers : changer[r] # "ends")

(* What holds of the snapshots around runs in every state.                 *)
ChangesSafe == ChangesTypeOK /\ WritesAreNamed
=============================================================================

-------------------------------- MODULE Boxes --------------------------------
(***************************************************************************)
(* The box of one Bot (internal/app/bots.go): its row, its container and   *)
(* the worker in it.  Operations take lockBot, but the worker connects,    *)
(* Docker loses or stops the box, the owner edits the Bot's row and the    *)
(* control plane restarts beside them, and some operations save the whole  *)
(* row outside the lock (takeDown, UpdateBot and dropBot in ui.go).        *)
(*                                                                         *)
(* A container is known by its number, which stands for its token too: the *)
(* token made for it is in its environment, the hash of it in the row.     *)
(***************************************************************************)
EXTENDS Integers, FiniteSets

CONSTANTS NOps,      \* operations on the Bot, each by a caller of its own
          NBoxes,    \* containers made for it
          BoxFaults  \* Docker calls that fail (but a new box's start, and the
                     \* gateway's rotations), boxes lost, restarts

ASSUME BoxBounds ==
  /\ NOps \in Nat \ {0} /\ NBoxes \in Nat \ {0} /\ BoxFaults \in Nat

VARIABLES row,      \* the Bot's row: box, token hash, whether it exists
          copy,     \* the row each operation holds
          box,      \* the container of the Bot's name, 0 without one
          running,  \* it runs
          rotated,  \* it trusts a certificate the gateway no longer signs with
          made,     \* containers made so far
          linked,   \* the box whose worker has a stream up
          heard,    \* the box whose worker has the session in the Hub
          holder,   \* the operation that holds lockBot, 0 when free
          op,       \* what each operation is
          step,     \* where it stands
          faults,
          undone,   \* history: an older row was saved, an operation was cut
                    \* short, a box that did not start was left, or the Bot
                    \* was deleted
          deaf,     \* history: a box was left running after its session was dropped
          doubted   \* history: a box was removed for its token

boxVars == <<row, copy, box, running, rotated, made, linked, heard, holder, op,
             step, faults, undone, deaf, doubted>>
dockerVars == <<box, running, rotated, made>>
workerSide == <<linked, heard>>
history    == <<undone, deaf, doubted>>

Ops    == 1..NOps
Kinds  == {"ensure", "look", "halt", "destroy", "delete", "edit"}
Resting == {"idle", "ok", "failed", "done"}
Row    == [cid : 0..NBoxes, hash : 0..NBoxes, alive : BOOLEAN]

BoxesInit ==
  /\ row = [cid |-> 0, hash |-> 0, alive |-> TRUE]
  /\ copy = [p \in Ops |-> row]
  /\ box = 0 /\ running = FALSE /\ rotated = FALSE /\ made = 0
  /\ linked = 0 /\ heard = 0 /\ holder = 0 /\ faults = 0
  /\ op = [p \in Ops |-> "none"] /\ step = [p \in Ops |-> "idle"]
  /\ undone = FALSE /\ deaf = FALSE /\ doubted = FALSE

-----------------------------------------------------------------------------
Fault  == faults < BoxFaults /\ faults' = faults + 1
Calm   == UNCHANGED faults
To(p, from, to) == step[p] = from /\ step' = [step EXCEPT ![p] = to]
Release == holder' = 0
Holds   == UNCHANGED holder

(* DB.Save writes every column, and puts a deleted row back.               *)
Save(r) == row' = r
(* Outside the lock it may undo what was written since the row was read.   *)
Undoes(p) == copy[p].hash # row.hash \/ copy[p].cid # row.cid
SaveLate(p, r) == Save(r) /\ undone' = (undone \/ Undoes(p))

(* Docker.Drop removes by id and by name; its errors are dropped.          *)
Removed == box' = 0 /\ running' = FALSE /\ rotated' = FALSE /\ UNCHANGED made
NoLink(b) == linked' = IF linked = b THEN 0 ELSE linked

-----------------------------------------------------------------------------
(* A caller reads the row and asks for the lock.                           *)
BeginOp(p, k) ==
  /\ To(p, "idle", IF k = "edit" THEN "edits" ELSE "wants")
  /\ \A q \in 1..(p - 1) : step[q] # "idle"
  /\ row.alive
  /\ op' = [op EXCEPT ![p] = k]
  /\ copy' = [copy EXCEPT ![p] = row]
  /\ UNCHANGED <<row, dockerVars, workerSide, holder, faults, history>>

(* ensureRunning and live read the row again under the lock; a row that is *)
(* gone leaves the caller's as it was.                                     *)
KeepCopy(p) == copy[p]
Reloaded(p) == IF op[p] \in {"ensure", "look"} /\ row.alive THEN row ELSE copy[p]
Lock(p) ==
  /\ To(p, "wants", CASE op[p] = "ensure" -> "fresh" [] op[p] = "look" -> "looks"
                      [] op[p] = "halt" -> "stops" [] OTHER -> "drops")
  /\ holder = 0 /\ holder' = p
  /\ copy' = [copy EXCEPT ![p] = Reloaded(p)]
  (* cancelBot and Hub.Drop, before Docker is asked *)
  /\ heard' = IF op[p] \in {"ensure", "look"} THEN heard ELSE 0
  /\ UNCHANGED <<row, dockerVars, linked, op, faults, history>>

-----------------------------------------------------------------------------
(* ensureRunning.                                                          *)

(* dropStaleCA: a box with an old certificate is made again; one Docker    *)
(* cannot inspect is let be, one it fails to remove has lost its session.  *)
KeepsCA(p) ==
  /\ To(p, "fresh", "confirms")
  /\ IF box # 0 /\ rotated THEN Fault ELSE Calm
  /\ Holds /\ UNCHANGED <<row, copy, dockerVars, workerSide, op, history>>

DropStaleCA(p) ==
  /\ To(p, "fresh", "confirms") /\ box # 0 /\ rotated
  /\ heard' = 0
  /\ \/ Removed /\ NoLink(box) /\ Calm /\ UNCHANGED deaf
     \/ Fault /\ deaf' = (deaf \/ running) /\ UNCHANGED <<dockerVars, linked>>
  /\ copy' = [copy EXCEPT ![p].cid = 0]
  /\ Save(copy'[p])
  /\ Holds /\ UNCHANGED <<op, undone, doubted>>

(* A session is trusted when Docker knows the box runs, or cannot say.     *)
Trusts(p) ==
  /\ step[p] = "confirms" /\ heard # 0
  /\ \/ running /\ Calm /\ copy' = [copy EXCEPT ![p].cid = box]
                /\ IF copy[p].cid # box THEN Save(copy'[p]) ELSE UNCHANGED row
     \/ Fault /\ UNCHANGED <<row, copy>>
  /\ step' = [step EXCEPT ![p] = "ok"]
  /\ Release
  /\ UNCHANGED <<dockerVars, workerSide, op, history>>

DistrustsUnlessSure(p) ==
  /\ To(p, "confirms", "looks")
  /\ IF heard # 0 /\ running THEN Fault ELSE Calm
  /\ heard' = 0
  /\ Holds /\ UNCHANGED <<row, copy, dockerVars, linked, op, history>>
(* With no box behind it the session is dropped.                           *)
Distrusts(p) ==
  /\ To(p, "confirms", "looks")
  /\ heard = 0 \/ ~running
  /\ heard' = 0
  /\ Holds /\ Calm /\ UNCHANGED <<row, copy, dockerVars, linked, op, history>>

-----------------------------------------------------------------------------
(* liveLocked, for live and for ensureRunning.                             *)

After(p, alive) == IF op[p] = "look" THEN "done" ELSE IF alive THEN "ok" ELSE "starts"
Unlocks(p, alive) == holder' = IF After(p, alive) = "starts" THEN p ELSE 0

LooksTrusting(p) ==
  /\ To(p, "looks", After(p, TRUE)) /\ heard # 0
  /\ Unlocks(p, TRUE) /\ Calm
  /\ UNCHANGED <<row, copy, dockerVars, workerSide, op, history>>

LooksInVain(p) ==
  /\ To(p, "looks", After(p, copy[p].cid # 0)) /\ heard = 0
  /\ Fault /\ Unlocks(p, copy[p].cid # 0)
  /\ UNCHANGED <<row, copy, dockerVars, workerSide, op, history>>

LooksGone(p) ==
  /\ To(p, "looks", After(p, FALSE)) /\ heard = 0 /\ box = 0
  /\ copy' = [copy EXCEPT ![p].cid = 0]
  /\ IF copy[p].cid # 0 THEN Save(copy'[p]) ELSE UNCHANGED row
  /\ Unlocks(p, FALSE) /\ Calm
  /\ UNCHANGED <<dockerVars, workerSide, op, history>>

(* A box whose token is not the row's is removed, if Docker does.          *)
LooksStrange(p) ==
  /\ To(p, "looks", After(p, FALSE)) /\ heard = 0 /\ box # 0 /\ copy[p].hash # box
  /\ \/ Removed /\ NoLink(box) /\ Calm
     \/ Fault /\ UNCHANGED <<dockerVars, linked>>
  /\ copy' = [copy EXCEPT ![p].cid = 0]
  /\ Save(copy'[p])
  /\ doubted' = TRUE
  /\ Unlocks(p, FALSE)
  /\ UNCHANGED <<heard, op, undone, deaf>>

(* The token is the row's, or Docker cannot tell it.                       *)
LooksKnown(p) ==
  /\ To(p, "looks", After(p, running)) /\ heard = 0 /\ box # 0
  /\ IF copy[p].hash = box THEN Calm ELSE Fault
  /\ copy' = [copy EXCEPT ![p].cid = box]
  /\ IF copy[p].cid # box THEN Save(copy'[p]) ELSE UNCHANGED row
  /\ Unlocks(p, running)
  /\ UNCHANGED <<dockerVars, workerSide, op, history>>

-----------------------------------------------------------------------------
(* ensureRunning: start the box there is, or make one.                     *)

StartsBox(p) ==
  /\ To(p, "starts", "saves") /\ box # 0
  /\ running' = TRUE
  /\ copy' = [copy EXCEPT ![p].cid = box]
  /\ Holds /\ Calm
  /\ UNCHANGED <<row, box, rotated, made, workerSide, op, history>>

(* Docker fails at any of its calls: the reason is saved, the caller told. *)
FailsToStart(p) ==
  /\ step[p] \in {"starts", "creates"} /\ Fault
  /\ step' = [step EXCEPT ![p] = "failed"]
  /\ Save(copy[p]) /\ Release
  /\ UNCHANGED <<copy, dockerVars, workerSide, op, history>>

FindsNone(p) ==
  /\ To(p, "starts", "creates") /\ box = 0
  /\ Holds /\ Calm
  /\ UNCHANGED <<row, copy, dockerVars, workerSide, op, history>>

CreatesBox(p) ==
  /\ To(p, "creates", "boots") /\ made < NBoxes
  /\ box' = made + 1 /\ made' = made + 1 /\ running' = FALSE /\ rotated' = FALSE
  /\ NoLink(box)
  /\ Holds /\ Calm
  /\ UNCHANGED <<row, copy, heard, op, history>>

BootsBox(p) ==
  /\ To(p, "boots", "saves") /\ box # 0
  /\ running' = TRUE
  /\ copy' = [copy EXCEPT ![p].cid = box, ![p].hash = box]
  /\ Holds /\ Calm
  /\ UNCHANGED <<row, box, rotated, made, workerSide, op, history>>

BootFails(p) ==
  /\ To(p, "boots", "unboots")
  /\ Holds /\ Calm /\ UNCHANGED <<row, copy, dockerVars, workerSide, op, history>>

(* A box that did not start is removed, if Docker does.                    *)
UnbootsNothing(p) ==
  /\ To(p, "unboots", "failed")
  /\ Save(copy[p]) /\ Release /\ Calm
  /\ UNCHANGED <<copy, dockerVars, workerSide, op, history>>
Unboots(p) ==
  /\ To(p, "unboots", "failed")
  /\ \/ Removed /\ NoLink(box) /\ Calm /\ UNCHANGED undone
     \/ Fault /\ undone' = TRUE /\ UNCHANGED <<dockerVars, linked>>
  /\ copy' = [copy EXCEPT ![p].cid = 0]
  /\ Save(copy'[p]) /\ Release
  /\ UNCHANGED <<heard, op, deaf, doubted>>

(* The row is saved after the box runs: the worker is refused until then.  *)
SavesNoToken(p) ==
  /\ To(p, "saves", "ok")
  /\ Save([copy[p] EXCEPT !.hash = row.hash]) /\ Release /\ Calm
  /\ UNCHANGED <<copy, dockerVars, workerSide, op, history>>
SavesBox(p) ==
  /\ To(p, "saves", "ok")
  /\ Save(copy[p]) /\ Release /\ Calm
  /\ UNCHANGED <<copy, dockerVars, workerSide, op, history>>

-----------------------------------------------------------------------------
(* haltBot, destroyBot, dropBot and UpdateBot.                             *)

Stops(p) ==
  /\ To(p, "stops", "late")
  /\ \/ running' = FALSE /\ NoLink(box) /\ Calm /\ UNCHANGED deaf
     \/ Fault /\ deaf' = (deaf \/ running) /\ UNCHANGED <<running, linked>>
  /\ Release
  /\ UNCHANGED <<row, copy, box, rotated, made, heard, op, undone, doubted>>

Drops(p) ==
  /\ To(p, "drops", IF op[p] = "delete" THEN "erases" ELSE "late")
  /\ \/ Removed /\ NoLink(box) /\ Calm /\ UNCHANGED deaf
     \/ Fault /\ deaf' = (deaf \/ running) /\ UNCHANGED <<dockerVars, linked>>
  /\ copy' = [copy EXCEPT ![p].cid = 0]
  /\ Release
  /\ UNCHANGED <<row, heard, op, undone, doubted>>

(* takeDown saves the row it read before it waited, after the unlock.      *)
SavesLate(p) ==
  /\ To(p, "late", "done")
  /\ SaveLate(p, copy[p])
  /\ Holds /\ Calm
  /\ UNCHANGED <<copy, dockerVars, workerSide, op, deaf, doubted>>

(* UpdateBot saves every column but one of the row it read.                *)
EditsRow(p) ==
  /\ To(p, "edits", "done")
  /\ SaveLate(p, copy[p])
  /\ Holds /\ Calm
  /\ UNCHANGED <<copy, dockerVars, workerSide, op, deaf, doubted>>

Erases(p) ==
  /\ To(p, "erases", "done")
  /\ row' = [row EXCEPT !.alive = FALSE]
  /\ undone' = TRUE
  /\ Holds /\ Calm
  /\ UNCHANGED <<copy, dockerVars, workerSide, op, deaf, doubted>>

-----------------------------------------------------------------------------
(* The worker, Docker and the control plane.                               *)

(* The token is checked against the row; Attach replaces what was there.   *)
WorkerConnects ==
  /\ running /\ linked = 0 /\ row.alive /\ row.hash = box
  /\ linked' = box /\ heard' = box
  /\ UNCHANGED <<row, copy, dockerVars, holder, op, step, faults, history>>

SessionEnds ==
  /\ heard # 0 /\ linked # heard
  /\ heard' = 0
  /\ UNCHANGED <<row, copy, dockerVars, linked, holder, op, step, faults, history>>

BoxStops ==
  /\ running /\ Fault
  /\ running' = FALSE /\ NoLink(box)
  /\ UNCHANGED <<row, copy, box, rotated, made, heard, holder, op, step, history>>

BoxLost ==
  /\ box # 0 /\ Fault
  /\ Removed /\ NoLink(box)
  /\ UNCHANGED <<row, copy, heard, holder, op, step, history>>

CARotated ==
  /\ box # 0 /\ ~rotated
  /\ rotated' = TRUE
  /\ UNCHANGED <<row, copy, box, running, made, workerSide, holder, op, step, faults, history>>

(* What every operation held is lost; a box may have been made whose token *)
(* was not saved yet.                                                      *)
RestartPlane ==
  /\ Fault
  /\ linked' = 0 /\ heard' = 0 /\ holder' = 0
  /\ step' = [p \in Ops |-> IF step[p] \in Resting THEN step[p] ELSE "failed"]
  /\ undone' = (undone \/ \E p \in Ops : step[p] \notin Resting)
  /\ UNCHANGED <<row, copy, dockerVars, op, deaf, doubted>>

-----------------------------------------------------------------------------
Ensuring(p) ==
  \/ KeepsCA(p) \/ DropStaleCA(p) \/ Trusts(p) \/ Distrusts(p)
  \/ StartsBox(p) \/ FailsToStart(p) \/ FindsNone(p) \/ CreatesBox(p)
  \/ BootsBox(p) \/ BootFails(p) \/ Unboots(p) \/ SavesBox(p)

Looking(p) ==
  \/ LooksTrusting(p) \/ LooksInVain(p) \/ LooksGone(p) \/ LooksStrange(p)
  \/ LooksKnown(p)

OpMoves(p) ==
  \/ Lock(p) \/ Ensuring(p) \/ Looking(p)
  \/ Stops(p) \/ Drops(p) \/ SavesLate(p) \/ EditsRow(p) \/ Erases(p)

BoxRuns == WorkerConnects \/ SessionEnds \/ \E p \in Ops : OpMoves(p)

BoxesNext ==
  \/ BoxRuns \/ BoxStops \/ BoxLost \/ CARotated \/ RestartPlane
  \/ \E p \in Ops : \E k \in Kinds : BeginOp(p, k)

(* Operations that have begun go on, a worker retries its stream for ever  *)
(* and a broken stream is noticed.                                         *)
BoxesSpec == BoxesInit /\ [][BoxesNext]_boxVars /\ WF_boxVars(BoxRuns)

-----------------------------------------------------------------------------
(* Every variable of the row, the box and the operations keeps its type.   *)
BoxesTypeOK ==
  /\ row \in Row /\ copy \in [Ops -> Row]
  /\ box \in 0..NBoxes /\ made \in 0..NBoxes /\ running \in BOOLEAN
  /\ rotated \in BOOLEAN
  /\ linked \in 0..NBoxes /\ heard \in 0..NBoxes /\ holder \in 0..NOps
  /\ op \in [Ops -> Kinds \union {"none"}]
  /\ step \in [Ops -> Resting \union {"wants", "fresh", "confirms", "looks", "starts",
                 "creates", "boots", "unboots", "saves", "stops", "drops", "late", "erases", "edits"}]
  /\ faults \in 0..BoxFaults
  /\ undone \in BOOLEAN /\ deaf \in BOOLEAN /\ doubted \in BOOLEAN

(* A box is taken for a stranger's, and removed with everything in it,     *)
(* only after a restart cut an operation short, a whole row was saved over *)
(* a newer one outside the lock, a box that did not start was left, or the *)
(* Bot was deleted: what ensureRunning just made is not removed by an      *)
(* operation that read the row before (bots.go:26).                        *)
FreshBoxKept == doubted => undone

(* Between operations the row knows the token of the box there is, or the  *)
(* same went wrong.                                                        *)
RowKnowsBox == (holder = 0 /\ box # 0) => row.hash = box \/ undone

(* A worker whose stream is up has its session in the Hub, unless Docker   *)
(* failed to take its box down: a transient error of Docker never cuts off *)
(* a box that works.                                                       *)
WorkerIsHeard == (holder = 0 /\ linked # 0) => heard = linked \/ deaf

(* A Bot that was brought up is reached by its worker, as long as its box  *)
(* stays up.                                                               *)
EnsuredConnects ==
  (\E p \in Ops : step[p] = "ok") ~> heard # 0 \/ ~running \/ deaf \/ undone \/ ~row.alive

(* A Bot that was deleted stays deleted (ui.go:383).                       *)
DeletedForGood == [][~row.alive => ~row'.alive]_boxVars

(* What holds of a Bot's row, its box and its worker in every state.       *)
BoxesSafe == BoxesTypeOK /\ FreshBoxKept /\ RowKnowsBox /\ WorkerIsHeard
=============================================================================

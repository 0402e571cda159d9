---------------------------- MODULE ServicesProofs ----------------------------
(***************************************************************************)
(* The services that keep a Bot's machine, its sign-ins, its schedule,     *)
(* what its runs change, its checkpoints, its drives and its memory, for   *)
(* any number of operations, containers, faults, sessions, sign-ins,       *)
(* tokens, edits, runs, files, Bots, events, ticks and restarts: a box is  *)
(* not taken for a stranger's, the row knows its token, and its worker is  *)
(* heard; a connection keeps the newest token of its provider; the         *)
(* schedule fires only what is due; writes are named, what is restored can *)
(* be undone, mounts and row agree on a drive's token, and no event is     *)
(* read twice or passed over -- but for what the histories of each module  *)
(* excuse.                                                                 *)
(***************************************************************************)
EXTENDS MCServices, SequenceFacts

-----------------------------------------------------------------------------
(* The box of a Bot.                                                       *)

(* The steps an operation takes under lockBot; those of ensureRunning and  *)
(* live among them, while the row still tells the token they hold.         *)
Critical == {"fresh", "confirms", "looks", "starts", "creates", "boots", "unboots",
             "saves", "stops", "drops"}
Reading  == {"fresh", "confirms", "looks", "starts", "creates", "boots", "unboots"}
Making   == {"boots", "unboots", "saves"}
TakingDown == {"stops", "drops"}

Standing == Resting \union {"wants", "fresh", "confirms", "looks", "starts", "creates", "boots",
              "unboots", "saves", "stops", "drops", "late", "erases", "edits"}

LockHeld == \A p \in Ops : step[p] \in Critical <=> holder = p

(* Every copy is of a Bot that existed, and an operation that reads the    *)
(* row under the lock has its token, whoever saves the row beside it.      *)
CopiesKnow ==
  /\ \A p \in Ops : copy[p].alive
  /\ ~undone => row.alive /\ \A p \in Ops : step[p] \in Reading => copy[p].hash = row.hash

(* The row has the token of the box, unless that box is being made; then   *)
(* who makes it has it from the moment it runs.                            *)
TokenKnown ==
  /\ \A p \in Ops : step[p] = "creates" => box = 0
  /\ ~undone /\ box # 0 =>
       /\ (\A p \in Ops : step[p] \notin Making) => row.hash = box
       /\ \A p \in Ops : step[p] = "saves" => copy[p].hash = box

(* A stream is of the box that runs, and its session is in the Hub while   *)
(* nobody takes the box down.                                              *)
StreamKnown ==
  linked # 0 => /\ linked = box /\ running
                /\ heard = linked \/ deaf \/ \E p \in Ops : step[p] \in TakingDown

BoxKept == BoxesTypeOK /\ LockHeld /\ CopiesKnow /\ TokenKnown /\ StreamKnown /\ FreshBoxKept

(* The invariant gives what the run checks of a box.                       *)
LEMMA BoxKeptSuffices == BoxKept => BoxesSafe
<1> SUFFICES ASSUME BoxKept PROVE BoxesSafe
  OBVIOUS
<1>1. ASSUME holder = 0 PROVE \A p \in Ops : step[p] \notin Critical
  BY <1>1, BoxBounds DEF BoxKept, LockHeld, Ops
<1>2. RowKnowsBox
  BY <1>1 DEF BoxKept, TokenKnown, RowKnowsBox, Making, Critical
<1>3. WorkerIsHeard
  BY <1>1 DEF BoxKept, StreamKnown, WorkerIsHeard, TakingDown, Critical
<1> QED
  BY <1>2, <1>3 DEF BoxKept, BoxesSafe

(* A Bot is created without a box.                                         *)
LEMMA BoxesInitKept == BoxesInit => BoxKept
<1> SUFFICES ASSUME BoxesInit PROVE BoxKept
  OBVIOUS
<1>1. 0 \in 0..NBoxes /\ 0 \in 0..NOps /\ 0 \in 0..BoxFaults
  BY BoxBounds
<1>2. row \in Row /\ copy \in [Ops -> Row]
  BY <1>1 DEF BoxesInit, Row
<1>3. BoxesTypeOK
  BY <1>1, <1>2 DEF BoxesInit, BoxesTypeOK, Resting
<1>4. LockHeld
  BY BoxBounds DEF BoxesInit, LockHeld, Critical, Ops
<1> QED
  BY <1>3, <1>4 DEF BoxesInit, BoxKept, CopiesKnow, TokenKnown, StreamKnown, FreshBoxKept,
     Reading, Making

(* Faults are counted up to their bound.                                   *)
LEMMA FaultCounted == ASSUME BoxesTypeOK, Fault \/ Calm PROVE faults' \in 0..BoxFaults
BY BoxBounds DEF BoxesTypeOK, Fault, Calm

(* Who is inside lockBot steps on inside of it, or leaves and releases it. *)
LEMMA LockKept ==
  ASSUME BoxKept, NEW p \in Ops, NEW t, step' = [step EXCEPT ![p] = t], step[p] \in Critical,
         (t \in Critical /\ holder' = holder) \/ (t \notin Critical /\ holder' = 0)
  PROVE  LockHeld'
<1>1. /\ step \in [Ops -> Standing] /\ 0 \notin Ops
      /\ \A q \in Ops : step[q] \in Critical <=> holder = q
  BY BoxBounds DEF BoxKept, BoxesTypeOK, LockHeld, Standing, Ops
<1> QED
  BY <1>1 DEF LockHeld

(* Writing the container's id leaves the rest of a copied row alone.       *)
LEMMA CidWritten ==
  ASSUME NEW f \in [Ops -> Row], NEW p \in Ops, NEW c \in 0..NBoxes
  PROVE  /\ [f EXCEPT ![p].cid = c] \in [Ops -> Row]
         /\ \A q \in Ops : /\ [f EXCEPT ![p].cid = c][q].hash = f[q].hash
                           /\ [f EXCEPT ![p].cid = c][q].alive = f[q].alive
<1>1. [f[p] EXCEPT !.cid = c] \in Row
  BY DEF Row
<1>2. [f[p] EXCEPT !.cid = c].hash = f[p].hash /\ [f[p] EXCEPT !.cid = c].alive = f[p].alive
  BY DEF Row
<1>3. [f EXCEPT ![p].cid = c] = [f EXCEPT ![p] = [f[p] EXCEPT !.cid = c]]
  OBVIOUS
<1> QED
  BY <1>1, <1>2, <1>3

(* An operation that reads under the lock may save the row it holds.       *)
LEMMA RowCopied ==
  ASSUME CopiesKnow, NEW p \in Ops, step[p] \in Reading, undone' = undone,
         row' = row \/ row' = copy'[p],
         \A q \in Ops : copy'[q].hash = copy[q].hash /\ copy'[q].alive = copy[q].alive,
         \A q \in Ops : step'[q] \in Reading => step[q] \in Reading
  PROVE  CopiesKnow'
<1>1. /\ copy'[p].hash = copy[p].hash /\ (copy'[p].alive <=> copy[p].alive)
      /\ copy[p].alive
  BY DEF CopiesKnow
<1>2. ASSUME ~undone PROVE row'.hash = row.hash /\ row'.alive
  <2>1. row.alive /\ copy[p].hash = row.hash
    BY <1>2 DEF CopiesKnow
  <2>2. CASE row' = row
    BY <2>1, <2>2
  <2>3. CASE row' = copy'[p]
    BY <1>1, <2>1, <2>3
  <2> QED
    BY <2>2, <2>3
<1> QED
  BY <1>2 DEF CopiesKnow

(* A link that is cut is of a box that was there.                          *)
LEMMA LinkCut == ASSUME BoxesTypeOK, NoLink(box) PROVE linked' \in 0..NBoxes
BY BoxBounds DEF BoxesTypeOK, NoLink

(* One step of an operation, of a fault or of the worker keeps the         *)
(* invariant.                                                              *)
LEMMA BoxesStepKept == BoxKept /\ [BoxesNext]_boxVars => BoxKept'
<1> SUFFICES ASSUME BoxKept, [BoxesNext]_boxVars PROVE BoxKept'
  OBVIOUS
<1>z. 0 \in 0..NBoxes /\ 0 \in 0..NOps
  BY BoxBounds
<1>c. copy \in [Ops -> Row] /\ row \in Row
  BY DEF BoxKept, BoxesTypeOK
<1> USE BoxBounds DEF BoxKept, BoxesTypeOK, LockHeld, CopiesKnow, TokenKnown, StreamKnown,
     FreshBoxKept, Critical, Reading, Making, TakingDown, Resting, Ops, To, Calm, Holds, Release,
     Fault, Save, dockerVars, workerSide, history, Removed, NoLink, Row
<1>1. ASSUME NEW p \in Ops, Lock(p) PROVE BoxKept'
  <2>1. BoxesTypeOK'
    BY SMTT(30), <1>1 DEF Lock, Reloaded
  <2>2. LockHeld'
    BY SMTT(30), <1>1 DEF Lock, Reloaded
  <2>3. CopiesKnow'
    BY <1>1 DEF Lock, Reloaded
  <2>4. TokenKnown'
    BY <1>1 DEF Lock, Reloaded
  <2>5. StreamKnown'
    BY <1>1 DEF Lock, Reloaded
  <2>6. FreshBoxKept'
    BY <1>1 DEF Lock, Reloaded
  <2> QED
    BY <2>1, <2>2, <2>3, <2>4, <2>5, <2>6
<1>2. ASSUME NEW p \in Ops, KeepsCA(p) PROVE BoxKept'
  <2>1. BoxesTypeOK'
    BY SMTT(30), <1>2 DEF KeepsCA
  <2>2. LockHeld'
    BY <1>2 DEF KeepsCA
  <2>3. CopiesKnow'
    BY <1>2 DEF KeepsCA
  <2>4. TokenKnown'
    BY <1>2 DEF KeepsCA
  <2>5. StreamKnown'
    BY <1>2 DEF KeepsCA
  <2>6. FreshBoxKept'
    BY <1>2 DEF KeepsCA
  <2> QED
    BY <2>1, <2>2, <2>3, <2>4, <2>5, <2>6
<1>3. ASSUME NEW p \in Ops, DropStaleCA(p) PROVE BoxKept'
  <2>a. copy' = [copy EXCEPT ![p].cid = 0] /\ 0 \in 0..NBoxes
    BY <1>3, <1>z DEF DropStaleCA
  <2>b. /\ copy' \in [Ops -> Row]
        /\ \A q \in Ops : copy'[q].hash = copy[q].hash /\ copy'[q].alive = copy[q].alive
    <3> HIDE DEF Row, Ops
    <3> QED
      BY <1>c, <2>a, CidWritten
  <2>c. row' \in {row, copy'[p]} /\ row' \in Row
    BY <1>3, <2>b DEF DropStaleCA
  <2>2. LockHeld'
    BY <1>3 DEF DropStaleCA
  <2>3. CopiesKnow'
    BY <1>3, <2>b, <2>c DEF DropStaleCA
  <2>4. TokenKnown'
    BY ZenonT(60), <1>3 DEF DropStaleCA
  <2>5. StreamKnown'
    <3>1. CASE Removed /\ NoLink(box)
      BY <3>1
    <3>2. CASE deaf' = (deaf \/ running) /\ UNCHANGED <<dockerVars, linked>>
      <4>1. linked # 0 => linked = box /\ running
        OBVIOUS
      <4> QED
        BY <3>2, <4>1
    <3> QED
      BY <1>3, <3>1, <3>2 DEF DropStaleCA
  <2>6. FreshBoxKept'
    BY <1>3 DEF DropStaleCA
  <2> HIDE DEF Fault, Calm, NoLink, Row
  <2>d. step' \in [Ops -> Standing]
    BY <1>3 DEF DropStaleCA, Standing
  <2>e. {deaf', undone', doubted', running', rotated'} \subseteq BOOLEAN
    BY <1>3 DEF DropStaleCA
  <2>g. box' \in 0..NBoxes /\ made' \in 0..NBoxes /\ heard' \in 0..NBoxes /\ holder' \in 0..NOps
    BY <1>3, <1>z DEF DropStaleCA
  <2>7. faults' \in 0..BoxFaults
    BY <1>3, FaultCounted DEF DropStaleCA
  <2>8. linked' \in 0..NBoxes
    BY <1>3, LinkCut DEF DropStaleCA
  <2>1. BoxesTypeOK'
    BY <1>3, <1>z, <2>7, <2>8, <2>b, <2>c, <2>d, <2>e, <2>g DEF DropStaleCA, Standing
  <2> QED
    BY <2>1, <2>2, <2>3, <2>4, <2>5, <2>6
<1>4. ASSUME NEW p \in Ops, Trusts(p) PROVE BoxKept'
  <2>a. /\ step[p] = "confirms" /\ step' = [step EXCEPT ![p] = "ok"] /\ holder' = 0
        /\ UNCHANGED <<dockerVars, workerSide, history>> /\ op' = op
    BY <1>4 DEF Trusts
  <2>b. box \in 0..NBoxes /\ (copy' = [copy EXCEPT ![p].cid = box] \/ copy' = copy)
    BY <1>4 DEF Trusts
  <2>c. /\ copy' \in [Ops -> Row]
        /\ \A q \in Ops : copy'[q].hash = copy[q].hash /\ copy'[q].alive = copy[q].alive
    <3> HIDE DEF Row, Ops
    <3>1. CASE copy' = [copy EXCEPT ![p].cid = box]
      BY <3>1, <1>c, <2>b, CidWritten
    <3>2. CASE copy' = copy
      BY <3>2, <1>c
    <3> QED
      BY <3>1, <3>2, <2>b
  <2>d. row' \in {row, copy'[p]} /\ row' \in Row
    BY <1>4, <2>c DEF Trusts
  <2>1. BoxesTypeOK'
    <3>1. faults' \in 0..BoxFaults
      BY <1>4, FaultCounted DEF Trusts
    <3> HIDE DEF Row
    <3> QED
      BY <1>z, <2>a, <2>c, <2>d, <3>1
  <2>2. LockHeld'
    BY <2>a, LockKept
  <2>3. CopiesKnow'
    <3>1. /\ undone' = undone
          /\ \A q \in Ops : step'[q] \in Reading => step[q] \in Reading
      BY <2>a
    <3>2. step[p] \in Reading
      BY <2>a
    <3> QED
      BY <2>c, <2>d, <3>1, <3>2, RowCopied
  <2>4. TokenKnown'
    BY SMTT(30), <1>4 DEF Trusts
  <2>5. StreamKnown'
    BY <1>4 DEF Trusts
  <2>6. FreshBoxKept'
    BY <1>4 DEF Trusts
  <2> QED
    BY <2>1, <2>2, <2>3, <2>4, <2>5, <2>6
<1>5. ASSUME NEW p \in Ops, Distrusts(p) PROVE BoxKept'
  BY SMTT(30), <1>5 DEF Distrusts
<1>6. ASSUME NEW p \in Ops, StartsBox(p) PROVE BoxKept'
  BY ZenonT(60), <1>6 DEF StartsBox
<1>7. ASSUME NEW p \in Ops, FailsToStart(p) PROVE BoxKept'
  BY <1>7 DEF FailsToStart
<1>8. ASSUME NEW p \in Ops, FindsNone(p) PROVE BoxKept'
  BY <1>8 DEF FindsNone
<1>9. ASSUME NEW p \in Ops, CreatesBox(p) PROVE BoxKept'
  <2>2. LockHeld'
    BY <1>9 DEF CreatesBox
  <2>3. CopiesKnow'
    BY <1>9 DEF CreatesBox
  <2>4. TokenKnown'
    BY <1>9 DEF CreatesBox
  <2>5. StreamKnown'
    BY <1>9 DEF CreatesBox
  <2>6. FreshBoxKept'
    BY <1>9 DEF CreatesBox
  <2> HIDE DEF Fault, Calm, NoLink, Row
  <2>d. step' \in [Ops -> Standing]
    BY <1>9 DEF CreatesBox, Standing
  <2>e. {deaf', undone', doubted', running', rotated'} \subseteq BOOLEAN
    BY <1>9 DEF CreatesBox
  <2>g. box' \in 0..NBoxes /\ made' \in 0..NBoxes /\ heard' \in 0..NBoxes /\ holder' \in 0..NOps
    BY <1>9, <1>z DEF CreatesBox
  <2>7. faults' \in 0..BoxFaults
    BY <1>9, FaultCounted DEF CreatesBox
  <2>8. linked' \in 0..NBoxes
    BY <1>9, LinkCut DEF CreatesBox
  <2>1. BoxesTypeOK'
    BY <1>9, <1>z, <2>7, <2>8, <2>d, <2>e, <2>g DEF CreatesBox, Standing
  <2> QED
    BY <2>1, <2>2, <2>3, <2>4, <2>5, <2>6
<1>10. ASSUME NEW p \in Ops, BootsBox(p) PROVE BoxKept'
  <2>1. BoxesTypeOK'
    BY ZenonT(60), <1>10 DEF BootsBox
  <2>2. LockHeld'
    BY <1>10 DEF BootsBox
  <2>3. CopiesKnow'
    BY <1>10 DEF BootsBox
  <2>4. TokenKnown'
    BY <1>10 DEF BootsBox
  <2>5. StreamKnown'
    BY <1>10 DEF BootsBox
  <2>6. FreshBoxKept'
    BY <1>10 DEF BootsBox
  <2> QED
    BY <2>1, <2>2, <2>3, <2>4, <2>5, <2>6
<1>11. ASSUME NEW p \in Ops, BootFails(p) PROVE BoxKept'
  BY <1>11 DEF BootFails
<1>12. ASSUME NEW p \in Ops, Unboots(p) PROVE BoxKept'
  <2>a. copy' = [copy EXCEPT ![p].cid = 0] /\ 0 \in 0..NBoxes
    BY <1>12, <1>z DEF Unboots
  <2>b. /\ copy' \in [Ops -> Row]
        /\ \A q \in Ops : copy'[q].hash = copy[q].hash /\ copy'[q].alive = copy[q].alive
    <3> HIDE DEF Row, Ops
    <3> QED
      BY <1>c, <2>a, CidWritten
  <2>c. row' \in {row, copy'[p]} /\ row' \in Row
    BY <1>12, <2>b DEF Unboots
  <2>2. LockHeld'
    BY <1>12, LockKept DEF Unboots
  <2>3. CopiesKnow'
    BY SMTT(30), <1>12, <2>b, <2>c DEF Unboots
  <2>4. TokenKnown'
    BY <1>12 DEF Unboots
  <2>5. StreamKnown'
    BY <1>12 DEF Unboots
  <2>6. FreshBoxKept'
    BY <1>12 DEF Unboots
  <2> HIDE DEF Fault, Calm, NoLink, Row
  <2>d. step' \in [Ops -> Standing]
    BY <1>12 DEF Unboots, Standing
  <2>e. {deaf', undone', doubted', running', rotated'} \subseteq BOOLEAN
    BY <1>12 DEF Unboots
  <2>g. box' \in 0..NBoxes /\ made' \in 0..NBoxes /\ heard' \in 0..NBoxes /\ holder' \in 0..NOps
    BY <1>12, <1>z DEF Unboots
  <2>7. faults' \in 0..BoxFaults
    BY <1>12, FaultCounted DEF Unboots
  <2>8. linked' \in 0..NBoxes
    BY <1>12, LinkCut DEF Unboots
  <2>1. BoxesTypeOK'
    BY <1>12, <1>z, <2>7, <2>8, <2>b, <2>c, <2>d, <2>e, <2>g DEF Unboots, Standing
  <2> QED
    BY <2>1, <2>2, <2>3, <2>4, <2>5, <2>6
<1>13. ASSUME NEW p \in Ops, SavesBox(p) PROVE BoxKept'
  BY SMTT(30), <1>13 DEF SavesBox
<1>14. ASSUME NEW p \in Ops, LooksTrusting(p) PROVE BoxKept'
  BY SMTT(30), <1>14 DEF LooksTrusting, Unlocks, After
<1>15. ASSUME NEW p \in Ops, LooksInVain(p) PROVE BoxKept'
  BY SMTT(30), <1>15 DEF LooksInVain, Unlocks, After
<1>16. ASSUME NEW p \in Ops, LooksGone(p) PROVE BoxKept'
  <2>a. copy' = [copy EXCEPT ![p].cid = 0] /\ 0 \in 0..NBoxes
    BY <1>16, <1>z DEF LooksGone, Unlocks, After
  <2>b. /\ copy' \in [Ops -> Row]
        /\ \A q \in Ops : copy'[q].hash = copy[q].hash /\ copy'[q].alive = copy[q].alive
    <3> HIDE DEF Row, Ops
    <3> QED
      BY <1>c, <2>a, CidWritten
  <2>c. row' \in {row, copy'[p]} /\ row' \in Row
    BY <1>16, <2>b DEF LooksGone, Unlocks, After
  <2>2. LockHeld'
    BY <1>16 DEF LooksGone, Unlocks, After
  <2>3. CopiesKnow'
    BY <1>16, <2>b, <2>c DEF LooksGone, Unlocks, After
  <2>4. TokenKnown'
    BY <1>16 DEF LooksGone, Unlocks, After
  <2>5. StreamKnown'
    BY <1>16 DEF LooksGone, Unlocks, After
  <2>6. FreshBoxKept'
    BY <1>16 DEF LooksGone, Unlocks, After
  <2> HIDE DEF Fault, Calm, NoLink, Row
  <2>d. step' \in [Ops -> Standing]
    BY <1>16 DEF LooksGone, Unlocks, After, Standing
  <2>e. {deaf', undone', doubted', running', rotated'} \subseteq BOOLEAN
    BY <1>16 DEF LooksGone, Unlocks, After
  <2>g. box' \in 0..NBoxes /\ made' \in 0..NBoxes /\ heard' \in 0..NBoxes /\ holder' \in 0..NOps
    BY <1>16, <1>z DEF LooksGone, Unlocks, After
  <2>7. faults' \in 0..BoxFaults
    BY <1>16, FaultCounted DEF LooksGone, Unlocks, After
  <2>8. linked' \in 0..NBoxes
    BY <1>16, LinkCut DEF LooksGone, Unlocks, After
  <2>1. BoxesTypeOK'
    BY <1>16, <1>z, <2>7, <2>8, <2>b, <2>c, <2>d, <2>e, <2>g DEF LooksGone, Unlocks, After, Standing
  <2> QED
    BY <2>1, <2>2, <2>3, <2>4, <2>5, <2>6
<1>17. ASSUME NEW p \in Ops, LooksStrange(p) PROVE BoxKept'
  <2>a. copy' = [copy EXCEPT ![p].cid = 0] /\ 0 \in 0..NBoxes
    BY <1>17, <1>z DEF LooksStrange, Unlocks, After
  <2>b. /\ copy' \in [Ops -> Row]
        /\ \A q \in Ops : copy'[q].hash = copy[q].hash /\ copy'[q].alive = copy[q].alive
    <3> HIDE DEF Row, Ops
    <3> QED
      BY <1>c, <2>a, CidWritten
  <2>c. row' \in {row, copy'[p]} /\ row' \in Row
    BY <1>17, <2>b DEF LooksStrange, Unlocks, After
  <2>2. LockHeld'
    BY SMTT(30), <1>17 DEF LooksStrange, Unlocks, After
  <2>3. CopiesKnow'
    BY SMTT(30), <1>17, <2>b, <2>c DEF LooksStrange, Unlocks, After
  <2>4. TokenKnown'
    BY <1>17 DEF LooksStrange, Unlocks, After
  <2>5. StreamKnown'
    BY <1>17 DEF LooksStrange, Unlocks, After
  <2>6. FreshBoxKept'
    BY <1>17 DEF LooksStrange, Unlocks, After
  <2> HIDE DEF Fault, Calm, NoLink, Row
  <2>d. step' \in [Ops -> Standing]
    BY <1>17 DEF LooksStrange, Unlocks, After, Standing
  <2>e. {deaf', undone', doubted', running', rotated'} \subseteq BOOLEAN
    BY <1>17 DEF LooksStrange, Unlocks, After
  <2>g. box' \in 0..NBoxes /\ made' \in 0..NBoxes /\ heard' \in 0..NBoxes /\ holder' \in 0..NOps
    BY <1>17, <1>z DEF LooksStrange, Unlocks, After
  <2>7. faults' \in 0..BoxFaults
    BY <1>17, FaultCounted DEF LooksStrange, Unlocks, After
  <2>8. linked' \in 0..NBoxes
    BY <1>17, LinkCut DEF LooksStrange, Unlocks, After
  <2>1. BoxesTypeOK'
    BY <1>17, <1>z, <2>7, <2>8, <2>b, <2>c, <2>d, <2>e, <2>g DEF LooksStrange, Unlocks, After, Standing
  <2> QED
    BY <2>1, <2>2, <2>3, <2>4, <2>5, <2>6
<1>18. ASSUME NEW p \in Ops, LooksKnown(p) PROVE BoxKept'
  <2>a. copy' = [copy EXCEPT ![p].cid = box] /\ box \in 0..NBoxes
    BY <1>18, <1>z DEF LooksKnown, Unlocks, After
  <2>b. /\ copy' \in [Ops -> Row]
        /\ \A q \in Ops : copy'[q].hash = copy[q].hash /\ copy'[q].alive = copy[q].alive
    <3> HIDE DEF Row, Ops
    <3> QED
      BY <1>c, <2>a, CidWritten
  <2>c. row' \in {row, copy'[p]} /\ row' \in Row
    BY ZenonT(60), <1>18, <2>b DEF LooksKnown, Unlocks, After
  <2>2. LockHeld'
    BY <1>18 DEF LooksKnown, Unlocks, After
  <2>3. CopiesKnow'
    <3>1. /\ step[p] \in Reading /\ undone' = undone
          /\ \A q \in Ops : step'[q] \in Reading => step[q] \in Reading
      BY <1>18 DEF LooksKnown
    <3> QED
      BY <2>b, <2>c, <3>1, RowCopied
  <2>4. TokenKnown'
    BY SMTT(30), <1>18 DEF LooksKnown, Unlocks, After
  <2>5. StreamKnown'
    BY <1>18 DEF LooksKnown, Unlocks, After
  <2>6. FreshBoxKept'
    BY <1>18 DEF LooksKnown, Unlocks, After
  <2> HIDE DEF Fault, Calm, NoLink, Row
  <2>d. step' \in [Ops -> Standing]
    BY <1>18 DEF LooksKnown, Unlocks, After, Standing
  <2>e. {deaf', undone', doubted', running', rotated'} \subseteq BOOLEAN
    BY <1>18 DEF LooksKnown, Unlocks, After
  <2>g. box' \in 0..NBoxes /\ made' \in 0..NBoxes /\ heard' \in 0..NBoxes /\ holder' \in 0..NOps
    BY <1>18, <1>z DEF LooksKnown, Unlocks, After
  <2>7. faults' \in 0..BoxFaults
    BY <1>18, FaultCounted DEF LooksKnown, Unlocks, After
  <2>8. linked' \in 0..NBoxes
    BY <1>18, LinkCut DEF LooksKnown, Unlocks, After
  <2>1. BoxesTypeOK'
    BY <1>18, <1>z, <2>7, <2>8, <2>b, <2>c, <2>d, <2>e, <2>g DEF LooksKnown, Unlocks, After, Standing
  <2> QED
    BY <2>1, <2>2, <2>3, <2>4, <2>5, <2>6
<1>19. ASSUME NEW p \in Ops, Stops(p) PROVE BoxKept'
  <2>2. LockHeld'
    BY SMTT(30), <1>19 DEF Stops
  <2>3. CopiesKnow'
    BY <1>19 DEF Stops
  <2>4. TokenKnown'
    BY <1>19 DEF Stops
  <2>5. StreamKnown'
    BY <1>19 DEF Stops
  <2>6. FreshBoxKept'
    BY <1>19 DEF Stops
  <2> HIDE DEF Fault, Calm, NoLink, Row
  <2>d. step' \in [Ops -> Standing]
    BY <1>19 DEF Stops, Standing
  <2>e. {deaf', undone', doubted', running', rotated'} \subseteq BOOLEAN
    BY <1>19 DEF Stops
  <2>g. box' \in 0..NBoxes /\ made' \in 0..NBoxes /\ heard' \in 0..NBoxes /\ holder' \in 0..NOps
    BY <1>19, <1>z DEF Stops
  <2>7. faults' \in 0..BoxFaults
    BY <1>19, FaultCounted DEF Stops
  <2>8. linked' \in 0..NBoxes
    BY <1>19, LinkCut DEF Stops
  <2>1. BoxesTypeOK'
    BY <1>19, <1>z, <2>7, <2>8, <2>d, <2>e, <2>g DEF Stops, Standing
  <2> QED
    BY <2>1, <2>2, <2>3, <2>4, <2>5, <2>6
<1>20. ASSUME NEW p \in Ops, Drops(p) PROVE BoxKept'
  <2>a. copy' = [copy EXCEPT ![p].cid = 0] /\ 0 \in 0..NBoxes
    BY <1>20, <1>z DEF Drops
  <2>b. /\ copy' \in [Ops -> Row]
        /\ \A q \in Ops : copy'[q].hash = copy[q].hash /\ copy'[q].alive = copy[q].alive
    <3> HIDE DEF Row, Ops
    <3> QED
      BY <1>c, <2>a, CidWritten
  <2>c. row' = row /\ row' \in Row
    BY <1>20, <2>b DEF Drops
  <2>2. LockHeld'
    BY SMTT(30), <1>20, LockKept DEF Drops
  <2>3. CopiesKnow'
    BY SMTT(30), <1>20, <2>b, <2>c DEF Drops
  <2>4. TokenKnown'
    BY <1>20 DEF Drops
  <2>5. StreamKnown'
    BY <1>20 DEF Drops
  <2>6. FreshBoxKept'
    BY <1>20 DEF Drops
  <2> HIDE DEF Fault, Calm, NoLink, Row
  <2>d. step' \in [Ops -> Standing]
    BY <1>20 DEF Drops, Standing
  <2>e. {deaf', undone', doubted', running', rotated'} \subseteq BOOLEAN
    BY <1>20 DEF Drops
  <2>g. box' \in 0..NBoxes /\ made' \in 0..NBoxes /\ heard' \in 0..NBoxes /\ holder' \in 0..NOps
    BY <1>20, <1>z DEF Drops
  <2>7. faults' \in 0..BoxFaults
    BY <1>20, FaultCounted DEF Drops
  <2>8. linked' \in 0..NBoxes
    BY <1>20, LinkCut DEF Drops
  <2>1. BoxesTypeOK'
    BY <1>20, <1>z, <2>7, <2>8, <2>b, <2>c, <2>d, <2>e, <2>g DEF Drops, Standing
  <2> QED
    BY <2>1, <2>2, <2>3, <2>4, <2>5, <2>6
<1>21. ASSUME NEW p \in Ops, SavesLate(p) PROVE BoxKept'
  BY SMTT(30), <1>21 DEF SavesLate, SaveLate, Undoes
<1>22. ASSUME NEW p \in Ops, EditsRow(p) PROVE BoxKept'
  BY <1>22 DEF EditsRow, SaveLate, Undoes
<1>23. ASSUME NEW p \in Ops, Erases(p) PROVE BoxKept'
  BY <1>23 DEF Erases
<1>24. CASE WorkerConnects
  BY <1>24 DEF WorkerConnects
<1>25. CASE SessionEnds
  BY <1>25 DEF SessionEnds
<1>26. CASE BoxStops
  <2>2. LockHeld'
    BY <1>26 DEF BoxStops
  <2>3. CopiesKnow'
    BY <1>26 DEF BoxStops
  <2>4. TokenKnown'
    BY <1>26 DEF BoxStops
  <2>5. StreamKnown'
    BY <1>26 DEF BoxStops
  <2>6. FreshBoxKept'
    BY <1>26 DEF BoxStops
  <2> HIDE DEF Fault, Calm, NoLink, Row
  <2>7. faults' \in 0..BoxFaults
    BY <1>26, FaultCounted DEF BoxStops
  <2>8. linked' \in 0..NBoxes
    BY <1>26, LinkCut DEF BoxStops
  <2>1. BoxesTypeOK'
    BY <1>26, <1>z, <2>7, <2>8 DEF BoxStops
  <2> QED
    BY <2>1, <2>2, <2>3, <2>4, <2>5, <2>6
<1>27. CASE BoxLost
  <2>2. LockHeld'
    BY <1>27 DEF BoxLost
  <2>3. CopiesKnow'
    BY <1>27 DEF BoxLost
  <2>4. TokenKnown'
    BY <1>27 DEF BoxLost
  <2>5. StreamKnown'
    BY <1>27 DEF BoxLost
  <2>6. FreshBoxKept'
    BY <1>27 DEF BoxLost
  <2> HIDE DEF Fault, Calm, NoLink, Row
  <2>7. faults' \in 0..BoxFaults
    BY <1>27, FaultCounted DEF BoxLost
  <2>8. linked' \in 0..NBoxes
    BY <1>27, LinkCut DEF BoxLost
  <2>1. BoxesTypeOK'
    BY <1>27, <1>z, <2>7, <2>8 DEF BoxLost
  <2> QED
    BY <2>1, <2>2, <2>3, <2>4, <2>5, <2>6
<1>28. CASE CARotated
  BY <1>28 DEF CARotated
<1>29. CASE RestartPlane
  BY SMTT(30), <1>29 DEF RestartPlane
<1>30. ASSUME NEW p \in Ops, NEW k \in Kinds, BeginOp(p, k) PROVE BoxKept'
  BY ZenonT(60), <1>30 DEF BeginOp, Kinds
<1>31. CASE UNCHANGED boxVars
  BY <1>31 DEF boxVars
<1> QED
  BY <1>1, <1>2, <1>3, <1>4, <1>5, <1>6, <1>7, <1>8, <1>9, <1>10, <1>11, <1>12,
     <1>13, <1>14, <1>15, <1>16, <1>17, <1>18, <1>19, <1>20, <1>21, <1>22, <1>23,
     <1>24, <1>25, <1>26, <1>27, <1>28, <1>29, <1>30, <1>31
     DEF BoxesNext, BoxRuns, OpMoves, Ensuring, Looking

(* A box in use is not taken for a stranger's and removed, the row knows   *)
(* the token of the box there is, and a connected worker is heard          *)
(* (bots.go:26), for any number of operations, containers and faults, but  *)
(* for what a late save of a whole row, a restart, a box that would not    *)
(* start or a failed Docker call leave behind.                             *)
THEOREM BoxesSafeHolds == BoxesSpec => []BoxesSafe
<1>1. BoxKept => BoxesSafe
  BY BoxKeptSuffices
<1> QED
  BY <1>1, BoxesInitKept, BoxesStepKept, PTL DEF BoxesSpec

-----------------------------------------------------------------------------
(* Sign-ins.                                                               *)

(* Who refreshes holds the lock and works on the token of the row; between *)
(* the provider's answer and the row the provider is one token ahead, and  *)
(* it stays so only if that answer is lost.                                *)
Inside == {"refreshes", "keeps"}
LockGuards ==
  /\ \A c \in Callers : caller[c] \in Inside =>
       locked = c /\ cell.loaded /\ cell.tok # NoToken
  /\ \A c \in Callers : caller[c] = "keeps" => got[c].by = stored.by
  /\ cell.loaded => cell.tok = stored
FamiliesKnown ==
  /\ stored # NoToken => provider[stored.by] # 0
  /\ \A p \in SignIns : signing[p] = "keeps" => provider[p] = 1 /\ stored.by # p
InStep ==
  ~torn =>
    /\ ~wasted
    /\ (stored # NoToken /\ \A c \in Callers : caller[c] # "keeps")
         => stored.n = provider[stored.by]
    /\ \A c \in Callers : caller[c] = "keeps" =>
         /\ got[c] = [by |-> stored.by, n |-> stored.n + 1]
         /\ provider[stored.by] = stored.n + 1

TokensInStep == TokensTypeOK /\ LockGuards /\ FamiliesKnown /\ InStep

(* The parts of a token.                                                   *)
LEMMA TokenIs ==
  ASSUME NEW t \in Token
  PROVE  /\ t # NoToken => t.by \in SignIns /\ t.n \in 1..MaxTokens
         /\ t.by \in 0..NSignIns /\ t.n \in Nat
         /\ t = [by |-> t.by, n |-> t.n]
BY TokenBounds DEF Token, NoToken, SignIns

(* Before a sign-in there is no token.                                     *)
LEMMA TokensInitInStep == TokensInit => TokensInStep
<1> SUFFICES ASSUME TokensInit PROVE TokensInStep
  OBVIOUS
<1>1. /\ NoToken \in Token /\ 0 \in 0..NCallers /\ 0 \in 0..NSignIns
      /\ 0 \in 0..MaxTokens /\ 0 \in 0..MaxReboots
  BY TokenBounds DEF Token
<1>2. TokensTypeOK
  BY <1>1 DEF TokensInit, TokensTypeOK
<1> QED
  BY <1>2 DEF TokensInit, TokensInStep, LockGuards, FamiliesKnown, InStep, Inside

(* One step of a caller, of a sign-in or of a restart keeps the invariant. *)
LEMMA TokensStepInStep == TokensInStep /\ [TokensNext]_tokenVars => TokensInStep'
<1> SUFFICES ASSUME TokensInStep, [TokensNext]_tokenVars PROVE TokensInStep'
  OBVIOUS
<1>t. /\ TokensTypeOK /\ LockGuards /\ FamiliesKnown /\ InStep
      /\ stored \in Token /\ cell \in [loaded : BOOLEAN, tok : Token]
      /\ NoToken \in Token /\ 0 \notin Callers
  BY TokenBounds DEF TokensInStep, TokensTypeOK, Token, Callers
<1> USE <1>t DEF TokensInStep
<1>1. CASE TokenExpires
  BY <1>1 DEF TokenExpires, TokensTypeOK, LockGuards, FamiliesKnown, InStep
<1>2. CASE SignOut
  <2>1. TokensTypeOK' /\ LockGuards'
    BY <1>2 DEF SignOut, TokensTypeOK, LockGuards, Inside
  <2>2. FamiliesKnown'
    BY <1>2, TokenBounds DEF SignOut, FamiliesKnown, NoToken, SignIns
  <2>3. InStep'
    BY <1>2 DEF SignOut, InStep, LockGuards, Inside
  <2> QED
    BY <2>1, <2>2, <2>3
<1>3. CASE RestartConnectors
  <2>1. TokensTypeOK'
    BY <1>3, TokenBounds DEF RestartConnectors, TokensTypeOK
  <2>2. LockGuards' /\ FamiliesKnown'
    BY <1>3 DEF RestartConnectors, LockGuards, FamiliesKnown, Inside, TokensTypeOK
  <2>3. InStep'
    BY <1>3 DEF RestartConnectors, InStep
  <2> QED
    BY <2>1, <2>2, <2>3
<1>4. ASSUME NEW c \in Callers, AsksForToken(c) PROVE TokensInStep'
  <2>1. Loaded.loaded /\ Loaded.tok = stored /\ Loaded \in [loaded : BOOLEAN, tok : Token]
    BY DEF Loaded, LockGuards
  <2>2. /\ caller[c] = "idle" /\ locked = 0 /\ cell' = Loaded
        /\ UNCHANGED <<stored, lent, provider, expired, signing, reboots, torn, wasted>>
        /\ \/ /\ Loaded.tok # NoToken /\ locked' = c /\ got' = got
              /\ caller' = [caller EXCEPT ![c] = "refreshes"]
           \/ /\ locked' = locked /\ got' = [got EXCEPT ![c] = Loaded.tok]
              /\ caller' = [caller EXCEPT ![c] = "has"]
    BY <1>4 DEF AsksForToken
  <2>3. TokensTypeOK'
    BY <2>1, <2>2 DEF TokensTypeOK, Callers
  <2>4. \A d \in Callers : caller[d] \notin Inside
    BY <2>2 DEF LockGuards, Callers
  <2>5. LockGuards'
    BY <2>1, <2>2, <2>4 DEF LockGuards, Inside, TokensTypeOK
  <2>6. FamiliesKnown' /\ InStep'
    BY <2>2, <2>4 DEF FamiliesKnown, InStep, Inside, TokensTypeOK
  <2> QED
    BY <2>3, <2>5, <2>6
<1>5. ASSUME NEW c \in Callers, ProviderRotates(c) PROVE TokensInStep'
  <2>1. /\ caller[c] = "refreshes" /\ locked = c /\ cell.tok = stored /\ stored # NoToken
        /\ cell.loaded
        /\ UNCHANGED <<cell, stored, lent, expired, signing, reboots, torn>>
    BY <1>5 DEF ProviderRotates, LockGuards, Inside
  <2>2. \A d \in Callers \ {c} : caller[d] \notin Inside
    BY <2>1 DEF LockGuards
  <2>3. stored.by \in SignIns /\ stored.n \in 1..MaxTokens
    BY <2>1, TokenIs
  <2>4. CASE stored.n = provider[stored.by]
    <3>1. /\ stored.n < MaxTokens
          /\ provider' = [provider EXCEPT ![stored.by] = stored.n + 1]
          /\ caller' = [caller EXCEPT ![c] = "keeps"]
          /\ got' = [got EXCEPT ![c] = [stored EXCEPT !.n = stored.n + 1]]
          /\ UNCHANGED <<locked, wasted>>
      BY <1>5, <2>1, <2>4 DEF ProviderRotates
    <3>2. [stored EXCEPT !.n = stored.n + 1] = [by |-> stored.by, n |-> stored.n + 1]
      BY TokenIs
    <3>3. stored.n + 1 \in 1..MaxTokens
      BY <2>3, <3>1, TokenBounds
    <3>4. [by |-> stored.by, n |-> stored.n + 1] \in Token
      BY <2>3, <3>3 DEF Token
    <3>a. /\ got' \in [Callers -> Token]
          /\ provider' \in [SignIns -> 0..MaxTokens]
          /\ caller' \in [Callers -> {"idle", "refreshes", "keeps", "has"}]
      <4>1. got' \in [Callers -> Token]
        BY <3>1, <3>2, <3>4 DEF TokensTypeOK
      <4>2. stored.n + 1 \in 0..MaxTokens
        BY <3>3, TokenBounds
      <4> QED
        BY <3>1, <4>1, <4>2 DEF TokensTypeOK
    <3>5. TokensTypeOK'
      BY <2>1, <3>1, <3>a DEF TokensTypeOK
    <3>6. LockGuards'
      BY <2>1, <2>2, <3>1 DEF LockGuards, Inside, TokensTypeOK
    <3>7. FamiliesKnown'
      BY <2>1, <2>3, <3>1, <3>3 DEF FamiliesKnown, TokensTypeOK
    <3>8. InStep'
      BY <2>1, <2>2, <2>3, <3>1, <3>2 DEF InStep, Inside, TokensTypeOK
    <3> QED
      BY <3>5, <3>6, <3>7, <3>8
  <2>5. CASE stored.n # provider[stored.by]
    <3>1. /\ caller' = [caller EXCEPT ![c] = "has"]
          /\ got' = [got EXCEPT ![c] = NoToken]
          /\ locked' = 0 /\ wasted' = TRUE /\ UNCHANGED provider
      BY <1>5, <2>1, <2>5 DEF ProviderRotates
    <3>2. \A d \in Callers : caller[d] # "keeps"
      BY <2>1, <2>2 DEF Inside
    <3>3. torn
      BY <2>1, <2>5, <3>2 DEF InStep
    <3>4. TokensTypeOK'
      BY <2>1, <3>1, TokenBounds DEF TokensTypeOK
    <3>5. LockGuards' /\ FamiliesKnown' /\ InStep'
      BY <2>1, <2>2, <3>1, <3>3 DEF LockGuards, Inside, FamiliesKnown, InStep, TokensTypeOK
    <3> QED
      BY <3>4, <3>5
  <2> QED
    BY <2>4, <2>5
<1>6. ASSUME NEW c \in Callers, RefreshFails(c) \/ AnswerLost(c) PROVE TokensInStep'
  <2>1. /\ caller[c] \in Inside /\ caller' = [caller EXCEPT ![c] = "has"]
        /\ got' = [got EXCEPT ![c] = NoToken] /\ locked' = 0
        /\ UNCHANGED <<cell, stored, lent, provider, expired, signing, reboots, wasted>>
        /\ torn' \in BOOLEAN /\ (torn => torn') /\ (caller[c] = "keeps" => torn')
    BY <1>6 DEF RefreshFails, AnswerLost, Inside, TokensTypeOK
  <2>2. \A d \in Callers \ {c} : caller[d] \notin Inside
    BY <2>1 DEF LockGuards
  <2>3. TokensTypeOK' /\ LockGuards' /\ FamiliesKnown'
    BY <2>1, <2>2, TokenBounds DEF TokensTypeOK, LockGuards, Inside, FamiliesKnown
  <2>4. InStep'
    BY <2>1, <2>2 DEF InStep, Inside, TokensTypeOK
  <2> QED
    BY <2>3, <2>4
<1>7. ASSUME NEW c \in Callers, KeepsRefreshed(c) PROVE TokensInStep'
  <2>1. /\ caller[c] = "keeps" /\ caller' = [caller EXCEPT ![c] = "has"]
        /\ cell' = [cell EXCEPT !.tok = got[c]] /\ stored' = got[c]
        /\ locked' = 0 /\ expired' = FALSE
        /\ UNCHANGED <<lent, provider, got, signing, reboots, torn, wasted>>
    BY <1>7 DEF KeepsRefreshed
  <2>2. /\ locked = c /\ cell.loaded /\ stored # NoToken /\ stored.by \in SignIns
        /\ \A d \in Callers \ {c} : caller[d] \notin Inside
    BY <2>1, TokenIs DEF LockGuards, Inside
  <2>3. /\ got[c] \in Token /\ got[c].by = stored.by /\ got[c] # NoToken
    BY <2>1, <2>2, TokenBounds DEF TokensTypeOK, LockGuards, NoToken, SignIns
  <2>a. cell' \in [loaded : BOOLEAN, tok : Token] /\ 0 \in 0..NCallers
    BY <2>1, <2>3, TokenBounds
  <2>4. TokensTypeOK'
    BY <2>1, <2>3, <2>a DEF TokensTypeOK
  <2>5. LockGuards'
    BY <2>1, <2>2, <2>3 DEF LockGuards, Inside, TokensTypeOK
  <2>6. FamiliesKnown'
    BY <2>1, <2>2, <2>3 DEF FamiliesKnown
  <2>7. InStep'
    BY <2>1, <2>2, <2>3 DEF InStep, Inside, TokensTypeOK
  <2> QED
    BY <2>4, <2>5, <2>6, <2>7
<1>8. ASSUME NEW c \in Callers, UsesToken(c) PROVE TokensInStep'
  BY <1>8 DEF UsesToken, TokensTypeOK, LockGuards, Inside, FamiliesKnown, InStep
<1>9. ASSUME NEW p \in SignIns, ConsentReturns(p) PROVE TokensInStep'
  <2>1. /\ signing[p] = "idle" /\ provider[p] = 0
        /\ signing' = [signing EXCEPT ![p] = "keeps"]
        /\ provider' = [provider EXCEPT ![p] = 1]
        /\ UNCHANGED <<cell, locked, stored, lent, expired, caller, got, reboots, torn,
                       wasted>>
    BY <1>9 DEF ConsentReturns
  <2>2. stored.by # p /\ 1 \in 0..MaxTokens
    BY <2>1, TokenBounds DEF FamiliesKnown, NoToken, SignIns
  <2> QED
    BY <2>1, <2>2 DEF TokensTypeOK, LockGuards, FamiliesKnown, InStep
<1>10. ASSUME NEW p \in SignIns, KeepsSignIn(p) PROVE TokensInStep'
  <2> DEFINE new == [by |-> p, n |-> 1]
  <2>1. /\ signing[p] = "keeps" /\ locked = 0
        /\ signing' = [signing EXCEPT ![p] = "lends"]
        /\ cell' = [loaded |-> TRUE, tok |-> new] /\ stored' = new /\ expired' = FALSE
        /\ UNCHANGED <<locked, lent, provider, caller, got, reboots, torn, wasted>>
    BY <1>10 DEF KeepsSignIn
  <2>2. new \in Token /\ new # NoToken /\ new.by = p /\ new.n = 1
    BY TokenBounds DEF Token, NoToken, SignIns
  <2>3. \A d \in Callers : caller[d] \notin Inside
    BY <2>1 DEF LockGuards
  <2>4. provider[p] = 1
    BY <2>1 DEF FamiliesKnown
  <2> HIDE DEF new
  <2>5. cell'.loaded /\ cell'.tok = new /\ cell' \in [loaded : BOOLEAN, tok : Token]
    BY <2>1, <2>2
  <2>6. TokensTypeOK'
    BY <2>1, <2>2, <2>5 DEF TokensTypeOK
  <2>7. LockGuards'
    BY <2>1, <2>3, <2>5 DEF LockGuards, Inside
  <2>8. FamiliesKnown'
    BY <2>1, <2>2, <2>4 DEF FamiliesKnown, TokensTypeOK
  <2>9. InStep'
    BY <2>1, <2>2, <2>3, <2>4 DEF InStep, Inside
  <2> QED
    BY <2>6, <2>7, <2>8, <2>9
<1>11. ASSUME NEW p \in SignIns, Lends(p) \/ SignInBreaks(p) PROVE TokensInStep'
  <2>1. /\ signing[p] = "lends" /\ signing' = [signing EXCEPT ![p] = "done"]
        /\ lent' \in {lent, p}
        /\ UNCHANGED <<cell, locked, stored, provider, expired, caller, got, reboots,
                       torn, wasted>>
    BY <1>11 DEF Lends, SignInBreaks
  <2>2. lent' \in 0..NSignIns
    BY <2>1, TokenBounds DEF TokensTypeOK, SignIns
  <2> QED
    BY <2>1, <2>2 DEF TokensTypeOK, LockGuards, FamiliesKnown, InStep
<1>12. CASE UNCHANGED tokenVars
  BY <1>12 DEF tokenVars, TokensTypeOK, LockGuards, FamiliesKnown, InStep
<1> QED
  BY <1>1, <1>2, <1>3, <1>4, <1>5, <1>6, <1>7, <1>8, <1>9, <1>10, <1>11, <1>12
     DEF TokensNext

(* No refresh is sent with a token that another refresh has killed, and    *)
(* the row holds the last token of its family (connector/token.go), for    *)
(* any number of sessions, sign-ins and restarts, unless an answer of the  *)
(* provider was lost.                                                      *)
THEOREM TokensSafeHolds == TokensSpec => []TokensSafe
<1>1. TokensInStep => TokensSafe
  BY TokenBounds DEF TokensInStep, TokensSafe, NoneIsStranded, RowIsCurrent, LockGuards,
     InStep, Inside, Callers
<1> QED
  BY TokensInitInStep, TokensStepInStep, <1>1, PTL DEF TokensSpec

-----------------------------------------------------------------------------
(* Automations.                                                            *)

(* While a firing waits to be claimed, a row that still shows the slot it  *)
(* was read for is the row that was read: every change of what decides     *)
(* about it moves the slot, to the future or away.                         *)
SlotIsRow ==
  fire = "claims" =>
    /\ slot.on /\ slot.next # Never /\ slot.next <= now
    /\ (auto.alive /\ auto.next = slot.next) => auto.on /\ auto.sched = slot.sched

Punctual == AutomationsTypeOK /\ SlotIsRow /\ FiresOnlyDue /\ AwakeHasNext

(* The next firing of a row lies ahead, and a row that is awake has one.   *)
LEMMA NextRunIs ==
  ASSUME NEW a \in AutoRows, NEW from \in Nat
  PROVE  /\ NextRun(a, from) \in Int
         /\ NextRun(a, from) = Never \/ NextRun(a, from) > from
         /\ a.on /\ a.sched # 0 => NextRun(a, from) # Never
<1>1. a.sched \in Nat
  BY AutomationBounds DEF AutoRows
<1> QED
  BY <1>1 DEF NextRun, Never

(* A patch changes the columns it names, and no others.                    *)
LEMMA PatchedIs ==
  ASSUME NEW a \in AutoRows, NEW p \in Patch
  PROVE  /\ Patched(a, p) \in AutoRows
         /\ Patched(a, p).alive = a.alive /\ Patched(a, p).next = a.next
         /\ Patched(a, p).on = (IF "on" \in p.cols THEN p.on ELSE a.on)
         /\ Patched(a, p).sched = (IF "sched" \in p.cols THEN p.sched ELSE a.sched)
BY DEF Patched, Patch, AutoRows

(* Writing the next firing leaves the rest of a row alone.                 *)
LEMMA RowWithNext ==
  ASSUME NEW a \in AutoRows, NEW n \in Int
  PROVE  /\ [a EXCEPT !.next = n] \in AutoRows
         /\ [a EXCEPT !.next = n].next = n /\ [a EXCEPT !.next = n].alive = a.alive
         /\ [a EXCEPT !.next = n].on = a.on /\ [a EXCEPT !.next = n].sched = a.sched
BY DEF AutoRows

(* At the start an automation has no schedule.                             *)
LEMMA AutomationsInitPunctual == AutomationsInit => Punctual
<1> SUFFICES ASSUME AutomationsInit PROVE Punctual
  OBVIOUS
<1>1. auto \in AutoRows /\ NoPatch \in Patch
  BY AutomationBounds DEF AutomationsInit, AutoRows, Never, NoPatch, Patch
<1>a. 0 \in 0..MaxTick /\ 0 \in 0..MaxStops
  BY AutomationBounds
<1>2. AutomationsTypeOK
  BY <1>1, <1>a DEF AutomationsInit, AutomationsTypeOK
<1> QED
  BY <1>2 DEF AutomationsInit, Punctual, SlotIsRow, FiresOnlyDue, AwakeHasNext

(* One step of the schedule, of an edit or of the clock keeps the          *)
(* invariant.                                                              *)
LEMMA AutomationsStepPunctual == Punctual /\ [AutomationsNext]_autoVars => Punctual'
<1> SUFFICES ASSUME Punctual, [AutomationsNext]_autoVars PROVE Punctual'
  OBVIOUS
<1>t. /\ AutomationsTypeOK /\ SlotIsRow /\ FiresOnlyDue /\ AwakeHasNext
      /\ now \in Nat /\ auto \in AutoRows /\ slot \in AutoRows
  BY AutomationBounds DEF Punctual, AutomationsTypeOK
<1> USE <1>t DEF Punctual
<1>1. CASE ClockTicks
  BY <1>1, AutomationBounds DEF ClockTicks, AutomationsTypeOK, SlotIsRow, FiresOnlyDue,
     AwakeHasNext, Never, AutoRows
<1>2. CASE ReadDue
  BY <1>2 DEF ReadDue, Due, AutomationsTypeOK, SlotIsRow, FiresOnlyDue, AwakeHasNext
<1>3. CASE ClaimSlot
  <2>1. fire = "claims" /\ UNCHANGED <<now, slot, edit, was, patch, logged, stops, crossed>>
    BY <1>3 DEF ClaimSlot
  <2>2. CASE auto.alive /\ auto.next = slot.next
    <3>1. /\ fire' = "fires" /\ auto' = [auto EXCEPT !.next = NextRun(slot, now)]
          /\ sober' = (sober /\ Due(auto))
      BY <1>3, <2>2 DEF ClaimSlot
    <3>2. Due(auto)
      BY <2>1, <2>2 DEF Due, SlotIsRow
    <3>3. /\ NextRun(slot, now) \in Int
          /\ slot.on /\ slot.sched # 0 => NextRun(slot, now) # Never
      BY NextRunIs
    <3>4. /\ auto' \in AutoRows /\ auto'.next = NextRun(slot, now)
          /\ auto'.on = auto.on /\ auto'.sched = auto.sched
      BY <3>1, <3>3, RowWithNext
    <3>5. AutomationsTypeOK' /\ SlotIsRow' /\ FiresOnlyDue'
      BY <2>1, <3>1, <3>2, <3>4 DEF AutomationsTypeOK, SlotIsRow, FiresOnlyDue
    <3>6. AwakeHasNext'
      BY <2>1, <2>2, <3>3, <3>4 DEF SlotIsRow, AwakeHasNext
    <3> QED
      BY <3>5, <3>6
  <2>3. CASE ~(auto.alive /\ auto.next = slot.next)
    <3>1. fire' = "idle" /\ UNCHANGED <<auto, sober>>
      BY <1>3, <2>3 DEF ClaimSlot
    <3> QED
      BY <2>1, <3>1 DEF AutomationsTypeOK, SlotIsRow, FiresOnlyDue, AwakeHasNext
  <2> QED
    BY <2>2, <2>3
<1>4. CASE FireAutomation \/ RunNow \/ RunEnds
  BY <1>4 DEF FireAutomation, RunNow, RunEnds, AutomationsTypeOK, SlotIsRow,
     FiresOnlyDue, AwakeHasNext
<1>5. CASE DeleteAutomation
  <2>1. /\ auto' = [auto EXCEPT !.alive = FALSE] /\ logged' = FALSE
        /\ UNCHANGED <<now, fire, slot, edit, was, patch, stops, sober, crossed>>
    BY <1>5 DEF DeleteAutomation
  <2>2. auto' \in AutoRows /\ ~auto'.alive
    BY <2>1 DEF AutoRows
  <2> QED
    BY <2>1, <2>2 DEF AutomationsTypeOK, SlotIsRow, FiresOnlyDue, AwakeHasNext
<1>6. CASE RestartScheduler
  <2>1. /\ stops < MaxStops /\ stops' = stops + 1 /\ fire' = "idle" /\ logged' = FALSE
        /\ edit' = [e \in Edits |-> IF edit[e] = "writes" THEN "done" ELSE edit[e]]
        /\ UNCHANGED <<now, slot, was, patch, sober, crossed>>
        /\ auto' = auto \/ auto' = [auto EXCEPT !.next = NextRun(auto, now)]
    BY <1>6 DEF RestartScheduler
  <2>2. /\ NextRun(auto, now) \in Int
        /\ auto.on /\ auto.sched # 0 => NextRun(auto, now) # Never
    BY NextRunIs
  <2>3. /\ auto' \in AutoRows /\ auto'.on = auto.on /\ auto'.sched = auto.sched
        /\ auto'.alive = auto.alive
        /\ auto'.next = auto.next \/ auto'.next = NextRun(auto, now)
    <3>1. CASE auto' = auto
      BY <3>1
    <3>2. CASE auto' = [auto EXCEPT !.next = NextRun(auto, now)]
      BY <3>2, <2>2, RowWithNext
    <3> QED
      BY <2>1, <3>1, <3>2
  <2>4. stops' \in 0..MaxStops
    BY <2>1, AutomationBounds DEF AutomationsTypeOK
  <2>5. AutomationsTypeOK'
    BY <2>1, <2>3, <2>4 DEF AutomationsTypeOK
  <2>6. SlotIsRow' /\ FiresOnlyDue' /\ AwakeHasNext'
    BY <2>1, <2>2, <2>3 DEF SlotIsRow, FiresOnlyDue, AwakeHasNext
  <2> QED
    BY <2>5, <2>6
<1>7. ASSUME NEW e \in Edits, ReadToEdit(e) PROVE Punctual'
  BY <1>7 DEF ReadToEdit, AutomationsTypeOK, SlotIsRow, FiresOnlyDue, AwakeHasNext
<1>8. ASSUME NEW e \in Edits, SaveAutomation(e) PROVE Punctual'
  <2>1. /\ edit' = [edit EXCEPT ![e] = "done"]
        /\ UNCHANGED <<now, fire, slot, was, patch, logged, stops, sober>>
    BY <1>8 DEF SaveAutomation
  <2>2. CASE ~auto.alive
    BY <1>8, <2>1, <2>2 DEF SaveAutomation, AutomationsTypeOK, SlotIsRow, FiresOnlyDue,
       AwakeHasNext
  <2>3. CASE auto.alive
    <3> DEFINE old == Patched(was[e], patch[e])
               new == Patched(auto, patch[e])
    <3>1. was[e] \in AutoRows /\ patch[e] \in Patch
      BY DEF AutomationsTypeOK
    <3>2. /\ auto' = [new EXCEPT !.next = NextRun(old, now)]
          /\ crossed' = (crossed \/ was[e].on # auto.on \/ was[e].sched # auto.sched)
      BY <1>8, <2>3 DEF SaveAutomation, NextMoved
    <3>3. /\ old \in AutoRows /\ new \in AutoRows /\ new.alive = auto.alive
          /\ ~crossed' => old.on = new.on /\ old.sched = new.sched
      <4>1. /\ old \in AutoRows
            /\ old.on = (IF "on" \in patch[e].cols THEN patch[e].on ELSE was[e].on)
            /\ old.sched = (IF "sched" \in patch[e].cols THEN patch[e].sched
                                                         ELSE was[e].sched)
        BY <3>1, PatchedIs
      <4>2. /\ new \in AutoRows /\ new.alive = auto.alive
            /\ new.on = (IF "on" \in patch[e].cols THEN patch[e].on ELSE auto.on)
            /\ new.sched = (IF "sched" \in patch[e].cols THEN patch[e].sched
                                                         ELSE auto.sched)
        BY <3>1, PatchedIs
      <4>3. ~crossed' => was[e].on = auto.on /\ was[e].sched = auto.sched
        BY <3>2
      <4> HIDE DEF old, new
      <4> QED
        BY <4>1, <4>2, <4>3
    <3> HIDE DEF old, new
    <3>4. /\ NextRun(old, now) \in Int
          /\ NextRun(old, now) = Never \/ NextRun(old, now) > now
          /\ old.on /\ old.sched # 0 => NextRun(old, now) # Never
      BY <3>3, NextRunIs
    <3>5. /\ auto' \in AutoRows /\ auto'.next = NextRun(old, now)
          /\ auto'.on = new.on /\ auto'.sched = new.sched
      BY <3>2, <3>3, <3>4, RowWithNext
    <3>6. AutomationsTypeOK' /\ FiresOnlyDue'
      BY <2>1, <3>2, <3>5 DEF AutomationsTypeOK, FiresOnlyDue
    <3>7. SlotIsRow'
      BY <2>1, <3>4, <3>5 DEF SlotIsRow, AutoRows
    <3>8. AwakeHasNext'
      BY <3>3, <3>4, <3>5 DEF AwakeHasNext
    <3> QED
      BY <3>6, <3>7, <3>8
  <2> QED
    BY <2>2, <2>3
<1>9. CASE UNCHANGED autoVars
  BY <1>9 DEF autoVars, AutomationsTypeOK, SlotIsRow, FiresOnlyDue, AwakeHasNext
<1> QED
  BY <1>1, <1>2, <1>3, <1>4, <1>5, <1>6, <1>7, <1>8, <1>9
     DEF AutomationsNext, SchedulerRuns

(* The schedule never starts a run of an automation that was paused,       *)
(* deleted or re-timed after FireDue read it, and one that is awake keeps  *)
(* a next firing, for any number of edits, ticks, restarts and schedules.  *)
THEOREM AutomationsSafeHolds == AutomationsSpec => []AutomationsSafe
<1>1. Punctual => AutomationsSafe
  BY DEF Punctual, AutomationsSafe
<1> QED
  BY AutomationsInitPunctual, AutomationsStepPunctual, <1>1, PTL DEF AutomationsSpec

-----------------------------------------------------------------------------
(* What runs have changed.                                                 *)

(* A run that has begun to change things is at work until it leaves; its   *)
(* opening snapshot is done before one of its tools writes, and is taken   *)
(* by one tool.                                                            *)
ChangersKnown ==
  /\ \A r \in Changers : changer[r] \in {"ends", "snaps"} => r \in joined
  /\ \A r \in joined : changer[r] # "gone"
  /\ \A r \in ready : changer[r] = "on" => r \in joined
  /\ \A r \in Changers, k \in Tools :
       /\ tool[r][k] \in {"opens", "snaps", "writes"} => changer[r] = "on" /\ r \in joined
       /\ tool[r][k] \in {"writes", "over"} => r \in ready
       /\ tool[r][k] \in {"opens", "snaps"} =>
            r \notin ready /\ \A j \in Tools \ {k} : tool[r][j] = "no"

(* Who takes a snapshot has the turn.                                      *)
TurnHeld ==
  \A r \in Changers :
    /\ changer[r] = "snaps" => turn = r
    /\ \A k \in Tools : tool[r][k] = "snaps" => turn = r

(* Writes no snapshot holds are of runs that have opened and still work,   *)
(* or whose closing snapshot did not get them; one that closes names them. *)
DirtyKnown ==
  /\ dirty \subseteq ready \intersect (joined \union excused)
  /\ \A r \in Changers : changer[r] = "snaps" => ready \intersect joined \subseteq others[r]

ChangesInv == ChangesSafe /\ ChangersKnown /\ TurnHeld /\ DirtyKnown

(* No run is at work, and no tool has written.                             *)
LEMMA ChangesBegin == ChangesInit => ChangesInv
<1> SUFFICES ASSUME ChangesInit PROVE ChangesInv
  OBVIOUS
<1> USE ChangeBounds DEF ChangesInit
<1>1. ChangesTypeOK
  BY DEF ChangesTypeOK
<1> QED
  BY <1>1 DEF ChangesInv, ChangesSafe, WritesAreNamed, ChangersKnown, TurnHeld, DirtyKnown

(* A snapshot leaves no more than was there to be recorded, and what it    *)
(* shows without a name was not one of those it names.                     *)
LEMMA RecordsKeep ==
  ASSUME ChangesTypeOK, NEW who, NEW left \in SUBSET dirty, NEW partial \in BOOLEAN,
         Records(who, left, partial)
  PROVE  /\ snapFails' \in 0..MaxSnapFails /\ indexing' \in BOOLEAN
         /\ dirty' = left /\ unnamed' \subseteq unnamed \union (dirty \ who)
         /\ indexing => unnamed' = unnamed
<1> USE ChangeBounds DEF Records, ChangesTypeOK
<1>1. snapFails' \in 0..MaxSnapFails
  OBVIOUS
<1>2. indexing' \in BOOLEAN /\ dirty' = left
  OBVIOUS
<1>3. unnamed' \subseteq unnamed \union (dirty \ who) /\ (indexing => unnamed' = unnamed)
  OBVIOUS
<1> QED
  BY <1>1, <1>2, <1>3

(* One step of a run, of one of its tools, of the pane or of a restore     *)
(* keeps the invariant.                                                    *)
LEMMA ChangesStep == ChangesInv /\ [ChangesNext]_changeVars => ChangesInv'
<1> SUFFICES ASSUME ChangesInv, [ChangesNext]_changeVars PROVE ChangesInv'
  OBVIOUS
<1> USE ChangeBounds
<1>t. ChangesTypeOK /\ WritesAreNamed /\ ChangersKnown /\ TurnHeld /\ DirtyKnown
  BY DEF ChangesInv, ChangesSafe
<1>z. 0 \notin Changers /\ Changers \subseteq 0..NChangers /\ 0 \in 0..NChangers
  BY DEF Changers
<1>s. SUFFICES ChangesTypeOK' /\ WritesAreNamed' /\ ChangersKnown' /\ TurnHeld' /\ DirtyKnown'
  BY DEF ChangesInv, ChangesSafe
<1>1. ASSUME NEW r \in Changers, RunIsOver(r)
      PROVE  ChangesTypeOK' /\ WritesAreNamed' /\ ChangersKnown' /\ TurnHeld' /\ DirtyKnown'
  <2>1. ChangesTypeOK'
    BY <1>1, <1>t DEF recordVars, ownerVars, RunIsOver, ChangerAt, ChangesTypeOK
  <2>2. WritesAreNamed'
    BY <1>1, <1>t DEF recordVars, ownerVars, RunIsOver, WritesAreNamed
  <2>3. ChangersKnown'
    BY <1>1, <1>t DEF recordVars, ownerVars, RunIsOver, ChangerAt, ChangesTypeOK, ChangersKnown
  <2>4. TurnHeld' /\ DirtyKnown'
    BY <1>1, <1>t DEF recordVars, ownerVars, RunIsOver, ChangerAt, ChangesTypeOK, TurnHeld, DirtyKnown
  <2> QED
    BY <2>1, <2>2, <2>3, <2>4
<1>2. ASSUME NEW r \in Changers, EndTakesSnap(r)
      PROVE  ChangesTypeOK' /\ WritesAreNamed' /\ ChangersKnown' /\ TurnHeld' /\ DirtyKnown'
  <2>1. ChangesTypeOK'
    BY <1>2, <1>t, <1>z DEF recordVars, ownerVars, EndTakesSnap, ChangerAt, ChangesTypeOK
  <2>2. WritesAreNamed'
    BY <1>2, <1>t DEF recordVars, ownerVars, EndTakesSnap, WritesAreNamed
  <2>3. ChangersKnown'
    BY <1>2, <1>t DEF recordVars, ownerVars, EndTakesSnap, ChangerAt, ChangesTypeOK, ChangersKnown
  <2>4. TurnHeld' /\ DirtyKnown'
    BY <1>2, <1>t, <1>z DEF recordVars, ownerVars, EndTakesSnap, ChangerAt, ChangesTypeOK, TurnHeld, DirtyKnown
  <2> QED
    BY <2>1, <2>2, <2>3, <2>4
<1>3. ASSUME NEW r \in Changers, EndsRun(r)
      PROVE  ChangesTypeOK' /\ WritesAreNamed' /\ ChangersKnown' /\ TurnHeld' /\ DirtyKnown'
  <2>r. /\ snapFails' \in 0..MaxSnapFails /\ indexing' \in BOOLEAN /\ dirty' \subseteq dirty
        /\ unnamed' \subseteq unnamed \union (dirty \ others[r])
        /\ excused \subseteq excused' /\ excused' \subseteq excused \union {r}
        /\ r \in dirty' => r \in excused'
    <3>1. ASSUME NEW left \in SUBSET dirty, NEW partial \in BOOLEAN, Records(others[r], left, partial),
                 excused' = excused \union (left \intersect {r})
          PROVE  <2>r!:
      <4>t. ChangesTypeOK
        BY <1>t
      <4>1. /\ snapFails' \in 0..MaxSnapFails /\ indexing' \in BOOLEAN /\ dirty' = left
            /\ unnamed' \subseteq unnamed \union (dirty \ others[r])
        BY <4>t, <3>1, ChangeBounds DEF Records, ChangesTypeOK
      <4> QED
        BY <3>1, <4>1
    <3>2. ASSUME Misses, excused' = excused \union {r} PROVE <2>r!:
      BY <1>t, <3>2 DEF Misses, ChangesTypeOK
    <3> QED
      BY <1>3, <3>1, <3>2 DEF EndsRun
  <2>1. ChangesTypeOK'
    BY <1>3, <1>t, <1>z, <2>r DEF EndsRun, ChangerAt, ownerVars, ChangesTypeOK
  <2>2. WritesAreNamed'
    <3>1. dirty \ others[r] \subseteq excused
      BY <1>3, <1>t DEF EndsRun, ChangerAt, DirtyKnown
    <3> QED
      BY <1>t, <2>r, <3>1 DEF WritesAreNamed
  <2>3. ChangersKnown'
    BY <1>3, <1>t DEF EndsRun, ChangerAt, ChangesTypeOK, ChangersKnown
  <2>4. TurnHeld'
    BY <1>3, <1>t, <1>z DEF EndsRun, ChangerAt, ChangesTypeOK, TurnHeld, ChangersKnown
  <2>5. DirtyKnown'
    BY <1>3, <1>t, <1>z, <2>r DEF EndsRun, ChangerAt, ChangesTypeOK, TurnHeld, DirtyKnown
  <2> QED
    BY <2>1, <2>2, <2>3, <2>4, <2>5
<1>4. ASSUME NEW r \in Changers, NEW k \in Tools, JoinsChangers(r, k)
      PROVE  ChangesTypeOK' /\ WritesAreNamed' /\ ChangersKnown' /\ TurnHeld' /\ DirtyKnown'
  <2>1. ChangesTypeOK'
    BY <1>4, <1>t DEF recordVars, ownerVars, JoinsChangers, ToolAt, ChangesTypeOK
  <2>2. WritesAreNamed'
    BY <1>4, <1>t DEF recordVars, ownerVars, JoinsChangers, WritesAreNamed
  <2>3. r \notin ready /\ \A j \in Tools : tool[r][j] \in {"no", "over"}
    BY <1>4, <1>t DEF recordVars, ownerVars, JoinsChangers, ChangersKnown, ChangesTypeOK
  <2>t. tool'[r][k] = "opens" /\ \A j \in Tools \ {k} : tool'[r][j] = "no"
    BY <1>4, <1>t, <2>3 DEF recordVars, ownerVars, JoinsChangers, ToolAt, ChangesTypeOK, ChangersKnown
  <2>4. ChangersKnown'
    BY <1>4, <1>t, <2>3, <2>t DEF recordVars, ownerVars, JoinsChangers, ToolAt, ChangesTypeOK, ChangersKnown
  <2>5. TurnHeld' /\ DirtyKnown'
    BY <1>4, <1>t, <2>3 DEF recordVars, ownerVars, JoinsChangers, ToolAt, ChangesTypeOK, TurnHeld, DirtyKnown
  <2> QED
    BY <2>1, <2>2, <2>4, <2>5
<1>5. ASSUME NEW r \in Changers, NEW k \in Tools, TakesSnap(r, k)
      PROVE  ChangesTypeOK' /\ WritesAreNamed' /\ ChangersKnown' /\ TurnHeld' /\ DirtyKnown'
  <2>1. ChangesTypeOK'
    BY <1>5, <1>t, <1>z DEF recordVars, ownerVars, TakesSnap, ToolAt, ChangesTypeOK
  <2>2. WritesAreNamed'
    BY <1>5, <1>t DEF recordVars, ownerVars, TakesSnap, WritesAreNamed
  <2>3. ChangersKnown'
    BY <1>5, <1>t DEF recordVars, ownerVars, TakesSnap, ToolAt, ChangesTypeOK, ChangersKnown
  <2>4. TurnHeld' /\ DirtyKnown'
    BY <1>5, <1>t, <1>z DEF recordVars, ownerVars, TakesSnap, ToolAt, ChangesTypeOK, TurnHeld, DirtyKnown
  <2> QED
    BY <2>1, <2>2, <2>3, <2>4
<1>6. ASSUME NEW r \in Changers, NEW k \in Tools, OpensRun(r, k)
      PROVE  ChangesTypeOK' /\ WritesAreNamed' /\ ChangersKnown' /\ TurnHeld' /\ DirtyKnown'
  <2>r. /\ snapFails' \in 0..MaxSnapFails /\ indexing' \in BOOLEAN /\ dirty' \subseteq dirty
        /\ excused \subseteq excused' /\ excused' \subseteq excused \union ready
        /\ unnamed' \subseteq unnamed \union (dirty \ others[r])
        /\ unnamed' = unnamed \/ ready \ (others[r] \union {r}) \subseteq excused'
    <3>1. ASSUME NEW left \in SUBSET dirty, NEW partial \in BOOLEAN, Records(others[r], left, partial),
                 excused' = excused \union (ready \ (others[r] \union {r}))
          PROVE  <2>r!:
      BY <1>t, <3>1, RecordsKeep
    <3>2. ASSUME Misses, excused' = excused PROVE <2>r!:
      BY <1>t, <3>2 DEF Misses, ChangesTypeOK
    <3> QED
      BY <1>6, <3>1, <3>2 DEF OpensRun
  <2>1. ChangesTypeOK'
    BY <1>6, <1>t, <1>z, <2>r DEF OpensRun, ToolAt, ownerVars, ChangesTypeOK
  <2>o. turn = r /\ r \in joined /\ r \notin ready /\ changer[r] = "on" /\ \A j \in Tools \ {k} : tool[r][j] = "no"
    BY <1>6, <1>t DEF OpensRun, ToolAt, TurnHeld, ChangersKnown
  <2>2. WritesAreNamed'
    BY <1>t, <2>o, <2>r DEF WritesAreNamed, DirtyKnown
  <2>3. ChangersKnown'
    BY <1>6, <1>t, <2>o DEF OpensRun, ToolAt, ChangesTypeOK, ChangersKnown
  <2>4. TurnHeld'
    BY <1>6, <1>t, <2>o DEF OpensRun, ToolAt, ChangesTypeOK, TurnHeld
  <2>5. DirtyKnown'
    BY <1>6, <1>t, <2>o, <2>r DEF OpensRun, ChangesTypeOK, TurnHeld, DirtyKnown
  <2> QED
    BY <2>1, <2>2, <2>3, <2>4, <2>5
<1>7. ASSUME NEW r \in Changers, NEW k \in Tools, ToolWaits(r, k)
      PROVE  ChangesTypeOK' /\ WritesAreNamed' /\ ChangersKnown' /\ TurnHeld' /\ DirtyKnown'
  <2>1. ChangesTypeOK'
    BY <1>7, <1>t DEF recordVars, ownerVars, ToolWaits, ToolAt, ChangesTypeOK
  <2>2. WritesAreNamed'
    BY <1>7, <1>t DEF recordVars, ownerVars, ToolWaits, WritesAreNamed
  <2>3. ChangersKnown'
    BY <1>7, <1>t DEF recordVars, ownerVars, ToolWaits, ToolAt, ChangesTypeOK, ChangersKnown
  <2>4. TurnHeld' /\ DirtyKnown'
    BY <1>7, <1>t DEF recordVars, ownerVars, ToolWaits, ToolAt, ChangesTypeOK, TurnHeld, DirtyKnown
  <2> QED
    BY <2>1, <2>2, <2>3, <2>4
<1>8. ASSUME NEW r \in Changers, NEW k \in Tools, ToolWrites(r, k)
      PROVE  ChangesTypeOK' /\ WritesAreNamed' /\ ChangersKnown' /\ TurnHeld' /\ DirtyKnown'
  <2>1. ChangesTypeOK'
    BY <1>8, <1>t DEF ownerVars, ToolWrites, ToolAt, ChangesTypeOK
  <2>2. WritesAreNamed'
    BY <1>8, <1>t DEF ownerVars, ToolWrites, WritesAreNamed
  <2>3. ChangersKnown'
    BY <1>8, <1>t DEF ownerVars, ToolWrites, ToolAt, ChangesTypeOK, ChangersKnown
  <2>4. TurnHeld'
    BY <1>8, <1>t DEF ownerVars, ToolWrites, ToolAt, ChangesTypeOK, TurnHeld
  <2>5. DirtyKnown'
    BY <1>8, <1>t DEF ownerVars, ToolWrites, ToolAt, ChangesTypeOK, ChangersKnown, DirtyKnown
  <2> QED
    BY <2>1, <2>2, <2>3, <2>4, <2>5
<1>9. CASE UNCHANGED changeVars
  BY <1>9, <1>t DEF changeVars, recordVars, ownerVars, ChangesTypeOK, WritesAreNamed, ChangersKnown,
                    TurnHeld, DirtyKnown
<1>10. CASE PaneLooks
  <2>1. PICK left \in SUBSET dirty, partial \in BOOLEAN : Records({}, left, partial)
    BY <1>10 DEF PaneLooks
  <2>2. /\ snapFails' \in 0..MaxSnapFails /\ indexing' \in BOOLEAN /\ dirty' \subseteq dirty
        /\ unnamed' = unnamed
        /\ UNCHANGED <<joined, ready, others, tool, changer, turn, ownerVars, excused>>
    BY <1>10, <1>t, <2>1, RecordsKeep DEF PaneLooks
  <2> QED
    BY <1>t, <2>2 DEF ownerVars, ChangesTypeOK, WritesAreNamed, ChangersKnown, TurnHeld, DirtyKnown
<1>11. CASE AsksRestore
  BY <1>11, <1>t DEF AsksRestore, recordVars, ChangesTypeOK, WritesAreNamed, ChangersKnown, TurnHeld,
                     DirtyKnown
<1>12. CASE RestoreSnaps \/ RestoreIsOver
  <2>1. /\ owner' \in {"puts", "over"}
        /\ UNCHANGED <<joined, ready, others, tool, changer, turn, working>>
    BY <1>12 DEF RestoreSnaps, RestoreIsOver
  <2>2. /\ snapFails' \in 0..MaxSnapFails /\ indexing' \in BOOLEAN /\ dirty' \subseteq dirty
        /\ excused \subseteq excused' /\ excused' \subseteq excused \union ready
        /\ unnamed' \subseteq unnamed \union (dirty \ working)
        /\ unnamed' = unnamed \/ ready \ working \subseteq excused'
    <3>1. ASSUME NEW left \in SUBSET dirty, NEW partial \in BOOLEAN, Records(working, left, partial),
                 excused' = excused \union (ready \ working)
          PROVE  <2>2!:
      <4>1. /\ snapFails' \in 0..MaxSnapFails /\ indexing' \in BOOLEAN /\ dirty' = left
            /\ unnamed' \subseteq unnamed \union (dirty \ working)
        <5>1. snapFails' \in 0..MaxSnapFails
          BY <1>t, <3>1 DEF Records, ChangesTypeOK
        <5>2. indexing' \in BOOLEAN /\ dirty' = left
          BY <1>t, <3>1 DEF Records, ChangesTypeOK
        <5>3. unnamed' \subseteq unnamed \union (dirty \ working)
          BY <3>1 DEF Records
        <5> QED
          BY <5>1, <5>2, <5>3
      <4>2. /\ excused \subseteq excused' /\ excused' \subseteq excused \union ready
            /\ ready \ working \subseteq excused'
        BY <3>1
      <4> QED
        BY <4>1, <4>2
    <3>2. ASSUME UNCHANGED <<recordVars, excused>> PROVE <2>2!:
      BY <1>t, <3>2 DEF recordVars, ChangesTypeOK
    <3> QED
      BY <1>12, <3>1, <3>2 DEF RestoreSnaps, RestoreIsOver
  <2>3. ChangesTypeOK'
    BY <1>t, <2>1, <2>2 DEF ChangesTypeOK
  <2>4. WritesAreNamed'
    BY <1>t, <2>2 DEF WritesAreNamed, DirtyKnown
  <2> QED
    BY <1>t, <2>1, <2>2, <2>3, <2>4 DEF ChangersKnown, TurnHeld, DirtyKnown
<1> QED
  BY <1>1, <1>2, <1>3, <1>4, <1>5, <1>6, <1>7, <1>8, <1>9, <1>10, <1>11, <1>12 DEF ChangesNext

(* Whatever runs of a Bot write at the same time, and whichever snapshot   *)
(* fails or leaves writes: no change is shown without the name of a run    *)
(* that wrote in its stretch, unless the run's closing snapshot failed or  *)
(* left writes, or the run overtook another's opening one or a restore     *)
(* that had read who works.                                                *)
THEOREM ChangesSafeHolds == ChangesSpec => []ChangesSafe
<1>1. ChangesInv => ChangesSafe
  BY DEF ChangesInv
<1> QED
  BY <1>1, ChangesBegin, ChangesStep, PTL DEF ChangesSpec

-----------------------------------------------------------------------------
(* Checkpoints and what is restored of them.                               *)

(* While a restore goes on, the newest checkpoint is the one it took       *)
(* first; what it has not put back yet is as that checkpoint has it, and   *)
(* the rest of what it was asked for is as the one it puts back, but for   *)
(* what was written since, was not recorded or is too large.               *)
RestoreKnown ==
  stage = "puts" =>
    /\ refs # << >> /\ Head(refs).tree = undo /\ ~Head(refs).partial
    /\ \A f \in todo : undo[f] # "large" /\ (f \notin raced \union unkept => disk[f] = undo[f])
    /\ \A f \in (named \ (raced \union unkept)) \ todo :
         disk[f] = target[f] \/ f \in SkipsLarge(target, undo)

HistoryInv == HistorySafe /\ RestoreKnown

Checkpoints == [tree : Tree, partial : BOOLEAN]

(* Old checkpoints expire, never the newest two.                           *)
LEMMA SomeStay ==
  ASSUME NEW n \in Nat \ {0}, n <= Larger(2, KeepLast) + 1, NEW over \in BOOLEAN
  PROVE  /\ Expired(n, over) \in 1..n /\ Expired(n, over) <= Larger(2, KeepLast)
         /\ n >= 2 => Expired(n, over) >= 2
<1> USE HistoryBounds
<1>k. KeepLast \in Nat /\ KeepLast >= 1
  OBVIOUS
<1> DEFINE k == IF n > 2 THEN Larger(2, Smaller(n, KeepLast)) ELSE n
<1>1. /\ k \in 1..n /\ k <= Larger(2, KeepLast) /\ (n >= 2 => k >= 2)
  BY <1>k DEF Larger, Smaller
<1>2. Expired(n, over) = IF over /\ k > 2 THEN Larger(2, k \div 2) ELSE k
  BY DEF Expired
<1> HIDE DEF k
<1>3. k > 2 => Larger(2, k \div 2) \in 2..k
  BY <1>1 DEF Larger
<1>4. Larger(2, KeepLast) \in Nat
  BY <1>k DEF Larger
<1>5. CASE over /\ k > 2
  <2>1. Expired(n, over) \in 2..k
    BY <1>2, <1>3, <1>5
  <2> QED
    BY <1>1, <1>4, <2>1
<1>6. CASE ~(over /\ k > 2)
  BY <1>1, <1>2, <1>6
<1> QED
  BY <1>5, <1>6

(* What is taken is the newest checkpoint, unless the newest one has the   *)
(* same tree already; the one before it stays.                             *)
LEMMA TakenIs ==
  ASSUME refs \in Seq(Checkpoints), Len(refs) <= Larger(2, KeepLast),
         NEW s \in Checkpoints, NEW over \in BOOLEAN
  PROVE  /\ Taken(s, over) \in Seq(Checkpoints) /\ Len(Taken(s, over)) <= Larger(2, KeepLast)
         /\ Taken(s, over) # << >> /\ Head(Taken(s, over)).tree = s.tree
         /\ ~s.partial => ~Head(Taken(s, over)).partial
         /\ refs # << >> => \E i \in 1..Len(Taken(s, over)) : Taken(s, over)[i] = Head(refs)
<1>1. CASE refs # << >> /\ Head(refs).tree = s.tree /\ ~Head(refs).partial
  <2>1. Taken(s, over) = refs
    BY <1>1 DEF Taken
  <2>2. 1 \in 1..Len(refs) /\ refs[1] = Head(refs)
    BY <1>1
  <2> QED
    BY <1>1, <2>1, <2>2
<1>2. CASE ~(refs # << >> /\ Head(refs).tree = s.tree /\ ~Head(refs).partial)
  <2> DEFINE all == <<s>> \o refs
             n == Expired(Len(all), over)
  <2>1. /\ all \in Seq(Checkpoints) /\ Len(all) = Len(refs) + 1 /\ Len(refs) \in Nat /\ all[1] = s
        /\ refs # << >> => all[2] = Head(refs) /\ Len(all) >= 2
    OBVIOUS
  <2>2. /\ n \in 1..Len(all) /\ n <= Larger(2, KeepLast) /\ (Len(all) >= 2 => n >= 2)
    <3> HIDE DEF all
    <3>1. Len(all) \in Nat \ {0} /\ Len(all) <= Larger(2, KeepLast) + 1
      BY <2>1, HistoryBounds DEF Larger
    <3> QED
      BY <3>1, SomeStay
  <2>3. Taken(s, over) = SubSeq(all, 1, n)
    BY <1>2 DEF Taken
  <2> HIDE DEF all, n
  <2>4. /\ SubSeq(all, 1, n) \in Seq(Checkpoints) /\ Len(SubSeq(all, 1, n)) = n
        /\ \A i \in 1..n : SubSeq(all, 1, n)[i] = all[i]
    BY <2>1, <2>2
  <2>5. 1 \in 1..n /\ (refs # << >> => 2 \in 1..n)
    BY <2>1, <2>2
  <2>6. Head(SubSeq(all, 1, n)) = s /\ SubSeq(all, 1, n) # << >>
    BY <2>1, <2>4, <2>5
  <2> QED
    BY <2>1, <2>2, <2>3, <2>4, <2>5, <2>6
<1> QED
  BY <1>1, <1>2

(* What the index and a checkpoint are; one whose budget sufficed is the   *)
(* workspace, but for adds that failed and large files without a stub.     *)
LEMMA StagedIs ==
  ASSUME disk \in Tree, index \in [Files -> Held], NEW s, NEW a \in SUBSET Files
  PROVE  /\ Staged(a) \in [Files -> Held] /\ Snap(s, a) \in Checkpoints
         /\ \A f \in Files \ ((ToAdd \ a) \union (LargeFiles \ Stubbed)) : Snap(s, a).tree[f] = disk[f]
<1>1. \A f \in Files : Small(f) \in Held
  BY DEF Small, Tree, Sizes, Held
<1>2. Staged(a) \in [Files -> Held]
  BY <1>1 DEF Staged
<1>3. TreeOf(Staged(a)) \in Tree
  BY <1>2 DEF TreeOf, Tree, Sizes
<1>4. Snap(s, a) \in Checkpoints
  BY <1>3 DEF Snap, Checkpoints
<1>5. \A f \in Files \ ((ToAdd \ a) \union (LargeFiles \ Stubbed)) : TreeOf(Staged(a))[f] = disk[f]
  <2> SUFFICES ASSUME NEW f \in Files, f \notin ToAdd \ a, f \notin LargeFiles \ Stubbed
               PROVE  TreeOf(Staged(a))[f] = disk[f]
    OBVIOUS
  <2>1. CASE disk[f] = "large"
    BY <2>1 DEF TreeOf, LargeFiles
  <2>2. CASE disk[f] # "large"
    <3>1. f \notin Stubbed /\ Small(f) = disk[f]
      BY <2>2 DEF Stubbed, LargeFiles, Small
    <3>2. f \in a \union Dropped \/ index[f] = Small(f)
      BY DEF ToAdd, Behind
    <3> QED
      BY <3>1, <3>2 DEF TreeOf, Staged
  <2> QED
    BY <2>1, <2>2
<1> QED
  BY <1>2, <1>4, <1>5 DEF Snap

(* There is no checkpoint yet, and nothing is asked for.                   *)
LEMMA HistoryBegins == HistoryInit => HistoryInv
<1> SUFFICES ASSUME HistoryInit PROVE HistoryInv
  OBVIOUS
<1> USE HistoryBounds DEF HistoryInit
<1>1. Empty \in Tree /\ Empty \in [Files -> Held]
  BY DEF Empty, Tree, Held, Sizes
<1>2. Len(refs) <= Larger(2, KeepLast) /\ refs \in Seq(Checkpoints)
  BY DEF Larger
<1>3. addFails \in 0..MaxAddFails /\ writes \in 0..MaxWrites /\ restores \in 0..MaxRestores
  OBVIOUS
<1>4. HistoryTypeOK
  BY <1>1, <1>2, <1>3 DEF HistoryTypeOK, Checkpoints
<1> QED
  BY <1>4 DEF HistoryInv, HistorySafe, NothingIsLost, CanBeUndone, PutBack, RestoreKnown

(* One step of a snapshot, of a restore or of somebody who writes keeps    *)
(* the invariant.                                                          *)
LEMMA HistoryStep == HistoryInv /\ [HistoryNext]_historyVars => HistoryInv'
<1> SUFFICES ASSUME HistoryInv, [HistoryNext]_historyVars PROVE HistoryInv'
  OBVIOUS
<1> USE HistoryBounds
<1>t. /\ HistoryTypeOK /\ NothingIsLost /\ CanBeUndone /\ PutBack /\ RestoreKnown
      /\ refs \in Seq(Checkpoints) /\ Len(refs) <= Larger(2, KeepLast)
      /\ disk \in Tree /\ index \in [Files -> Held]
  BY DEF HistoryInv, HistorySafe, HistoryTypeOK, Checkpoints
<1> SUFFICES HistoryTypeOK' /\ NothingIsLost' /\ CanBeUndone' /\ PutBack' /\ RestoreKnown'
  BY DEF HistoryInv, HistorySafe
<1>1. ASSUME NEW f \in Files, RestoreFile(f)
      PROVE  HistoryTypeOK' /\ NothingIsLost' /\ CanBeUndone' /\ PutBack' /\ RestoreKnown'
  <2>1. /\ stage = "puts" /\ f \in todo /\ todo' = todo \ {f}
        /\ disk' = [disk EXCEPT ![f] = target[f]]
        /\ UNCHANGED <<index, refs, stage, target, named, undo, raced, addFails, writes, restores, unkept>>
        /\ gone' = IF f \in raced \/ HistoryHolds(f) THEN gone ELSE gone \union {f}
    BY <1>1 DEF RestoreFile
  <2>2. disk' \in Tree /\ disk'[f] = target[f] /\ \A g \in Files : g # f => disk'[g] = disk[g]
    BY <2>1, <1>t DEF HistoryTypeOK, Tree
  <2>3. f \notin raced \union unkept => disk[f] = undo[f] /\ disk[f] # "large"
    BY <2>1, <1>t DEF RestoreKnown
  <2>4. 1 \in 1..Len(refs) /\ refs[1].tree = undo
    BY <2>1, <1>t DEF RestoreKnown
  <2>5. NothingIsLost'
    <3>1. f \in raced \/ f \in unkept \/ HistoryHolds(f)
      BY <2>3, <2>4 DEF HistoryHolds
    <3> QED
      BY <2>1, <3>1, <1>t DEF NothingIsLost
  <2>6. HistoryTypeOK'
    BY <2>1, <2>2, <1>t DEF HistoryTypeOK
  <2>7. CanBeUndone' /\ PutBack'
    BY <2>1, <1>t DEF CanBeUndone, PutBack
  <2>8. RestoreKnown'
    BY <2>1, <2>2, <1>t DEF RestoreKnown, SkipsLarge, HistoryTypeOK
  <2> QED
    BY <2>5, <2>6, <2>7, <2>8
<1>2. ASSUME NEW f \in Files, RestoreSkips(f)
      PROVE  HistoryTypeOK' /\ NothingIsLost' /\ CanBeUndone' /\ PutBack' /\ RestoreKnown'
  <2>1. HistoryTypeOK'
    BY <1>2, <1>t DEF RestoreSkips, HistoryTypeOK
  <2>2. NothingIsLost' /\ CanBeUndone' /\ PutBack'
    BY <1>2, <1>t DEF RestoreSkips, NothingIsLost, CanBeUndone, PutBack
  <2>3. RestoreKnown'
    BY <1>2, <1>t DEF RestoreSkips, RestoreKnown, SkipsLarge
  <2> QED
    BY <2>1, <2>2, <2>3
<1>3. ASSUME NEW f \in Files, NEW c \in Sizes, ProgramWrites(f, c)
      PROVE  HistoryTypeOK' /\ NothingIsLost' /\ CanBeUndone' /\ PutBack' /\ RestoreKnown'
  <2>1. /\ writes < MaxWrites /\ writes' = writes + 1
        /\ disk' = [disk EXCEPT ![f] = c]
        /\ raced' = IF stage = "no" THEN raced ELSE raced \union {f}
        /\ UNCHANGED <<index, refs, stage, target, named, todo, undo, addFails, restores, unkept, gone>>
    BY <1>3 DEF ProgramWrites
  <2>2. disk' \in Tree /\ \A g \in Files : g # f => disk'[g] = disk[g]
    BY <2>1, <1>t DEF Tree
  <2>3. writes' \in 0..MaxWrites
    BY <2>1, <1>t DEF HistoryTypeOK
  <2>4. HistoryTypeOK'
    BY <2>1, <2>2, <2>3, <1>t DEF HistoryTypeOK
  <2>5. NothingIsLost' /\ CanBeUndone'
    BY <2>1, <1>t DEF NothingIsLost, CanBeUndone
  <2>6. PutBack'
    BY <2>1, <2>2, <1>t DEF PutBack, SkipsLarge, HistoryTypeOK
  <2>7. RestoreKnown'
    BY <2>1, <2>2, <1>t DEF RestoreKnown, SkipsLarge, HistoryTypeOK
  <2> QED
    BY <2>4, <2>5, <2>6, <2>7
<1>a. ASSUME NEW s, NEW a, Added(s, a) PROVE addFails' \in 0..MaxAddFails /\ index' = Staged(a)
  BY <1>a, <1>t DEF Added, HistoryTypeOK
<1>4. ASSUME NEW over \in BOOLEAN, NEW s \in SUBSET Files, NEW a \in SUBSET s,
             Checkpoint(s, a, over) \/ LooksAtChanges(s, a, over) \/ RestoreRefused(s, a)
      PROVE  HistoryTypeOK' /\ NothingIsLost' /\ CanBeUndone' /\ PutBack' /\ RestoreKnown'
  <2>1. /\ stage = "no" /\ Added(s, a) /\ refs' \in {refs, Taken(Snap(s, a), over)}
        /\ UNCHANGED <<disk, stage, target, named, todo, undo, raced, writes, restores, unkept, gone>>
    BY <1>4 DEF Checkpoint, LooksAtChanges, RestoreRefused
  <2>2. /\ index' \in [Files -> Held] /\ Snap(s, a) \in Checkpoints /\ addFails' \in 0..MaxAddFails
    <3>1. a \in SUBSET Files
      OBVIOUS
    <3>2. Staged(a) \in [Files -> Held] /\ Snap(s, a) \in Checkpoints
      BY <1>t, <3>1, StagedIs
    <3>3. index' = Staged(a) /\ addFails' \in 0..MaxAddFails
      BY <1>a, <2>1
    <3> QED
      BY <3>2, <3>3
  <2>3. refs' \in Seq(Checkpoints) /\ Len(refs') <= Larger(2, KeepLast)
    BY <2>1, <2>2, <1>t, TakenIs
  <2>4. HistoryTypeOK'
    BY <2>1, <2>2, <2>3, <1>t DEF HistoryTypeOK, Checkpoints
  <2> QED
    BY <2>1, <2>4, <1>t DEF NothingIsLost, CanBeUndone, PutBack, RestoreKnown
<1>5. ASSUME NEW over \in BOOLEAN, NEW s \in SUBSET Files, NEW a \in SUBSET s, RestoreEnds(s, a, over)
      PROVE  HistoryTypeOK' /\ NothingIsLost' /\ CanBeUndone' /\ PutBack' /\ RestoreKnown'
  <2>1. /\ stage = "puts" /\ todo = {} /\ stage' = "done"
        /\ Added(s, a) /\ refs' = Taken(Snap(s, a), over)
        /\ UNCHANGED <<disk, target, named, todo, undo, raced, writes, restores, unkept, gone>>
    BY <1>5 DEF RestoreEnds
  <2>2. /\ index' \in [Files -> Held] /\ Snap(s, a) \in Checkpoints /\ addFails' \in 0..MaxAddFails
    <3>1. a \in SUBSET Files
      OBVIOUS
    <3>2. Staged(a) \in [Files -> Held] /\ Snap(s, a) \in Checkpoints
      BY <1>t, <3>1, StagedIs
    <3>3. index' = Staged(a) /\ addFails' \in 0..MaxAddFails
      BY <1>a, <2>1
    <3> QED
      BY <3>2, <3>3
  <2>3. /\ refs' \in Seq(Checkpoints) /\ Len(refs') <= Larger(2, KeepLast)
        /\ refs # << >> => \E i \in 1..Len(refs') : refs'[i] = Head(refs)
    BY <2>1, <2>2, <1>t, TakenIs
  <2>4. HistoryTypeOK'
    BY <2>1, <2>2, <2>3, <1>t DEF HistoryTypeOK, Checkpoints
  <2>5. CanBeUndone'
    BY <2>1, <2>3, <1>t DEF CanBeUndone, RestoreKnown
  <2>6. PutBack'
    BY <2>1, <1>t DEF PutBack, RestoreKnown, SkipsLarge
  <2> QED
    BY <2>1, <2>4, <2>5, <2>6, <1>t DEF NothingIsLost, RestoreKnown
<1>6. ASSUME NEW over \in BOOLEAN, NEW k \in 1..Len(refs), NEW ps \in SUBSET Files,
             NEW a \in SUBSET Files, RestoreBegins(k, ps, a, over)
      PROVE  HistoryTypeOK' /\ NothingIsLost' /\ CanBeUndone' /\ PutBack' /\ RestoreKnown'
  <2> DEFINE s == Snap(ToAdd, a)
             held == refs[k].tree
             lost == (ToAdd \ a) \union (LargeFiles \ Stubbed)
  <2>1. /\ stage = "no" /\ restores < MaxRestores /\ restores' = restores + 1 /\ raced' = {}
        /\ Added(ToAdd, a) /\ refs' = Taken(s, over) /\ gone' = {} /\ unkept' = lost
        /\ target' = held /\ named' = ps /\ undo' = s.tree
        /\ UNCHANGED <<disk, writes>>
        /\ \/ stage' = "no" /\ todo' = todo
           \/ stage' = "puts" /\ todo' = (ps \intersect Differing(held, s.tree)) \ SkipsLarge(held, s.tree)
    BY <1>6 DEF RestoreBegins, Skipped
  <2>2. /\ index' \in [Files -> Held] /\ s \in Checkpoints /\ addFails' \in 0..MaxAddFails
        /\ s.partial = FALSE /\ s.tree \in Tree /\ lost \subseteq Files
        /\ \A f \in Files \ lost : s.tree[f] = disk[f]
    <3>1. index' \in [Files -> Held] /\ addFails' \in 0..MaxAddFails
      BY <1>t, <1>a, <2>1, StagedIs
    <3>2. s \in Checkpoints /\ \A f \in Files \ lost : s.tree[f] = disk[f]
      BY <1>t, StagedIs
    <3>3. s.partial = FALSE /\ s.tree \in Tree
      BY <3>2 DEF Snap, Checkpoints
    <3>4. lost \subseteq Files
      BY DEF ToAdd, Behind, LargeFiles
    <3> QED
      BY <3>1, <3>2, <3>3, <3>4
  <2> HIDE DEF s, lost
  <2>3. /\ refs' \in Seq(Checkpoints) /\ Len(refs') <= Larger(2, KeepLast)
        /\ refs' # << >> /\ Head(refs').tree = s.tree /\ ~Head(refs').partial
    BY <2>1, <2>2, <1>t, TakenIs
  <2>4. 1 \in 1..Len(refs') /\ refs'[1] = Head(refs')
    BY <2>3
  <2>5. held \in Tree
    <3>1. refs[k] \in Checkpoints
      BY <1>t
    <3> QED
      BY <3>1 DEF Checkpoints
  <2> HIDE DEF held
  <2>6. restores' \in 0..MaxRestores
    BY <2>1, <1>t DEF HistoryTypeOK
  <2>7. todo' \subseteq Files /\ named' \subseteq Files
    BY <2>1, <1>t DEF HistoryTypeOK
  <2>8. HistoryTypeOK'
    BY <2>1, <2>2, <2>3, <2>5, <2>6, <2>7, <1>t DEF HistoryTypeOK, Checkpoints
  <2>9. CanBeUndone'
    BY <2>1, <2>2, <2>3, <2>4 DEF CanBeUndone
  <2>10. RestoreKnown'
    <3>1. CASE stage' = "puts"
      <4>1. \A f \in todo' : undo'[f] # "large" /\ (f \notin unkept' => disk'[f] = undo'[f])
        BY <2>1, <2>2, <3>1, <2>7 DEF SkipsLarge
      <4>2. \A f \in (named' \ unkept') \ todo' : disk'[f] = target'[f] \/ f \in SkipsLarge(target', undo')
        BY <2>1, <2>2, <3>1, <2>7 DEF SkipsLarge, Differing
      <4> QED
        BY <2>1, <2>2, <2>3, <4>1, <4>2 DEF RestoreKnown, SkipsLarge
    <3> QED
      BY <3>1 DEF RestoreKnown
  <2> QED
    BY <2>1, <2>8, <2>9, <2>10, <1>t DEF NothingIsLost, PutBack
<1>7. CASE HistoryUnlocks
  <2>1. Empty \in Tree
    BY DEF Empty, Tree, Held, Sizes
  <2>2. /\ stage' = "no" /\ target' = Empty /\ undo' = Empty
        /\ named' = {} /\ raced' = {} /\ unkept' = {} /\ gone' = {}
        /\ UNCHANGED <<disk, index, refs, todo, addFails, writes, restores>>
    BY <1>7 DEF HistoryUnlocks
  <2>3. HistoryTypeOK'
    BY <2>1, <2>2, <1>t DEF HistoryTypeOK
  <2> QED
    BY <2>2, <2>3 DEF NothingIsLost, CanBeUndone, PutBack, RestoreKnown
<1>8. CASE UNCHANGED historyVars
  BY <1>8, <1>t DEF historyVars, HistoryTypeOK, NothingIsLost, CanBeUndone, PutBack, RestoreKnown, SkipsLarge
<1> QED
  BY <1>1, <1>2, <1>3, <1>4, <1>5, <1>6, <1>7, <1>8 DEF HistoryNext

(* Whatever is taken, expires, is written or fails between the steps of a  *)
(* restore: nothing that its snapshot got is lost, that snapshot is kept   *)
(* until the restore is over, and what it was asked for is put back but    *)
(* for what was written since, was not recorded or is too large.           *)
THEOREM HistorySafeHolds == HistorySpec => []HistorySafe
<1>1. HistoryInv => HistorySafe
  BY DEF HistoryInv
<1> QED
  BY <1>1, HistoryBegins, HistoryStep, PTL DEF HistorySpec

-----------------------------------------------------------------------------
(* Drives and their tokens.                                                *)

(* Tokens anywhere were issued; a mount's file is never behind what its    *)
(* sidecar saw of it.                                                      *)
TokensIssued ==
  /\ kept <= newest
  /\ \A b \in Bots : /\ conf[b] <= newest /\ spec[b] <= newest /\ last[b] <= conf[b]
                     /\ \A t \in rendered[b] : t <= newest
                     /\ \A t \in ToSet(applies[b]) \union ToSet(reports[b]) : t <= newest

(* A snapshot for which there was no room was paid for by a lost session.  *)
ReportsFit ==
  \A b \in Bots : /\ b \in online => Len(reports[b]) <= OutboxCap + slips
                  /\ b \notin online => Len(reports[b]) + 1 <= OutboxCap + slips /\ slips >= 1

(* What goes down was in the row; what goes up was seen on the mount.      *)
DownFromRow ==
  0 \notin setBack =>
    \A b \in Bots : spec[b] <= kept /\ \A t \in rendered[b] \union ToSet(applies[b]) : t <= kept
UpFromMount ==
  \A b \in Bots : b \notin setBack => \A t \in ToSet(reports[b]) : t <= last[b]

(* What a sidecar saw reaches the row, and what the row has the sidecar.   *)
RowWillKnow ==
  0 \notin setBack /\ ~spilled =>
    \A b \in Bots : last[b] <= kept \/ last[b] \in ToSet(reports[b]) \/ b \notin online
MountWillKnow ==
  setBack = {} =>
    \A b \in Bots : \/ kept <= last[b] \/ b \notin online
                    \/ kept \in rendered[b] \union ToSet(applies[b])

(* The newest token is in the row, in a mount's file or on its way up.     *)
NewestIsHeld ==
  0 \notin setBack /\ ~spilled /\ cutOff = {} =>
    kept = newest \/ \E b \in Bots : conf[b] = newest \/ newest \in ToSet(reports[b])

DrivesInv == /\ DrivesTypeOK /\ TokensIssued /\ ReportsFit /\ DownFromRow /\ UpFromMount
             /\ RowWillKnow /\ MountWillKnow /\ NewestIsHeld

(* Every mount has the token of the row.                                   *)
LEMMA DrivesBegin == DrivesInit => DrivesInv
<1> SUFFICES ASSUME DrivesInit PROVE DrivesInv
  OBVIOUS
<1> USE DriveBounds DEF DrivesInit
<1>1. ToSet(<< >>) = {} /\ << >> \in Seq(Issued) /\ Len(<< >>) = 0
  BY DEF ToSet
<1>2. 1 \in Issued /\ OutboxCap \in Nat /\ MaxSlips \in Nat /\ 0 \in 0..MaxSlips
  BY DEF Issued
<1>3. \A b \in Bots : /\ spec[b] = 1 /\ last[b] = 1 /\ conf[b] = 1 /\ applies[b] = << >>
                      /\ reports[b] = << >> /\ rendered[b] = {} /\ b \in online
  OBVIOUS
<1>4. DrivesTypeOK
  <2>1. kept \in Issued /\ newest \in Issued /\ online \subseteq Bots
    BY <1>2
  <2>2. applies \in [Bots -> Seq(Issued)] /\ reports \in [Bots -> Seq(Issued)] /\ rendered \in [Bots -> SUBSET Issued]
    BY <1>1
  <2>3. \A b \in Bots : Len(applies[b]) <= OutboxCap /\ Len(reports[b]) <= OutboxCap + MaxSlips
    BY <1>1, <1>2, <1>3
  <2>4. {spec, last, conf} \subseteq [Bots -> Issued]
    BY <1>2
  <2>5. slips \in 0..MaxSlips /\ cutOff \subseteq Bots /\ spilled \in BOOLEAN /\ setBack \subseteq Bots \union {0}
    BY <1>2
  <2> QED
    BY <2>1, <2>2, <2>3, <2>4, <2>5 DEF DrivesTypeOK
<1>5. TokensIssued /\ ReportsFit /\ DownFromRow /\ UpFromMount
  BY <1>1, <1>2, <1>3 DEF TokensIssued, ReportsFit, DownFromRow, UpFromMount
<1>6. RowWillKnow /\ MountWillKnow /\ NewestIsHeld
  BY <1>3 DEF RowWillKnow, MountWillKnow, NewestIsHeld
<1> QED
  BY <1>4, <1>5, <1>6 DEF DrivesInv

(* Once nothing is on its way, who holds an older token was set back.      *)
LEMMA DrivesAgree == DrivesInv => DrivesSafe
<1> SUFFICES ASSUME DrivesInv PROVE DrivesSafe
  OBVIOUS
<1>1. /\ DrivesTypeOK /\ \A b \in Bots : last[b] \in Nat /\ conf[b] \in Nat
      /\ kept \in Nat /\ newest \in Nat
  BY DEF DrivesInv, DrivesTypeOK, Issued
<1>2. ASSUME Settled PROVE \A b \in Bots : /\ ToSet(reports[b]) = {} /\ ToSet(applies[b]) = {}
                                           /\ rendered[b] = {} /\ b \in online /\ conf[b] = last[b]
  <2>1. ToSet(<< >>) = {}
    BY DEF ToSet
  <2> QED
    BY <1>2, <2>1 DEF Settled
<1>3. SettledAgree
  <2>1. SUFFICES ASSUME Settled, setBack = {}, ~spilled, NEW b \in Bots PROVE last[b] = kept
    BY DEF SettledAgree
  <2>2. last[b] <= kept
    BY <2>1, <1>2 DEF DrivesInv, RowWillKnow
  <2>3. kept <= last[b]
    BY <2>1, <1>2 DEF DrivesInv, MountWillKnow
  <2> QED
    BY <2>2, <2>3, <1>1
<1>4. RefreshIsKept
  <2>1. SUFFICES ASSUME Settled, 0 \notin setBack, cutOff = {}, ~spilled PROVE kept = newest
    BY DEF RefreshIsKept
  <2>2. kept <= newest
    BY DEF DrivesInv, TokensIssued
  <2>3. kept = newest \/ \E b \in Bots : conf[b] = newest
    BY <2>1, <1>2 DEF DrivesInv, NewestIsHeld
  <2>4. \A b \in Bots : conf[b] <= kept
    BY <2>1, <1>2 DEF DrivesInv, RowWillKnow
  <2> QED
    BY <2>2, <2>3, <2>4, <1>1
<1> QED
  BY <1>1, <1>3, <1>4 DEF DrivesSafe

(* One step of the row, of a session or of a sidecar keeps the invariant.  *)
LEMMA DrivesStep == DrivesInv /\ [DrivesNext]_driveVars => DrivesInv'
<1> SUFFICES ASSUME DrivesInv, [DrivesNext]_driveVars PROVE DrivesInv'
  OBVIOUS
<1> USE DriveBounds
<1>t. /\ DrivesTypeOK /\ TokensIssued /\ ReportsFit /\ DownFromRow /\ UpFromMount
      /\ RowWillKnow /\ MountWillKnow /\ NewestIsHeld
  BY DEF DrivesInv
<1>n. /\ kept \in Nat /\ newest \in Nat /\ slips \in Nat /\ OutboxCap \in Nat /\ OutboxCap >= 1
      /\ \A b \in Bots : /\ last[b] \in Nat /\ conf[b] \in Nat /\ spec[b] \in Nat
                         /\ applies[b] \in Seq(Issued) /\ reports[b] \in Seq(Issued)
                         /\ Len(applies[b]) \in Nat /\ Len(reports[b]) \in Nat
                         /\ rendered[b] \subseteq Nat
                         /\ ToSet(applies[b]) \subseteq Nat /\ ToSet(reports[b]) \subseteq Nat
                         /\ ToSet(applies[b]) \subseteq Issued /\ ToSet(reports[b]) \subseteq Issued
  <2>1. Issued \subseteq Nat
    BY DEF Issued
  <2>2. \A b \in Bots : applies[b] \in Seq(Issued) /\ reports[b] \in Seq(Issued)
    BY <1>t DEF DrivesTypeOK
  <2>3. \A q \in Seq(Issued) : ToSet(q) \subseteq Issued /\ Len(q) \in Nat
    BY ElementsOf
  <2>4. \A b \in Bots : last[b] \in Issued /\ conf[b] \in Issued /\ spec[b] \in Issued /\ rendered[b] \subseteq Issued
    BY <1>t DEF DrivesTypeOK
  <2>5. kept \in Issued /\ newest \in Issued /\ slips \in Nat
    BY <1>t DEF DrivesTypeOK
  <2>6. \A b \in Bots : rendered[b] \subseteq Nat /\ last[b] \in Nat /\ conf[b] \in Nat /\ spec[b] \in Nat
    BY <2>1, <2>4
  <2>7. \A b \in Bots : /\ Len(applies[b]) \in Nat /\ Len(reports[b]) \in Nat
                         /\ ToSet(applies[b]) \subseteq Issued /\ ToSet(reports[b]) \subseteq Issued
    BY <2>2, <2>3
  <2>8. \A b \in Bots : ToSet(applies[b]) \subseteq Nat /\ ToSet(reports[b]) \subseteq Nat
    BY <2>1, <2>7
  <2>9. OutboxCap \in Nat /\ OutboxCap >= 1 /\ kept \in Nat /\ newest \in Nat
    BY <2>1, <2>5
  <2> QED
    BY <2>2, <2>5, <2>6, <2>7, <2>8, <2>9
<1>k. /\ kept \in Nat /\ newest \in Nat /\ kept <= newest
      /\ \A b \in Bots : /\ last[b] \in Nat /\ conf[b] \in Nat /\ spec[b] \in Nat
                         /\ conf[b] <= newest /\ spec[b] <= newest /\ last[b] <= conf[b]
  BY <1>t, <1>n DEF TokensIssued
<1>u. \A b \in Bots : \A t \in rendered[b] \union ToSet(applies[b]) \union ToSet(reports[b]) :
        t \in Nat /\ t <= newest
  BY <1>t, <1>n DEF TokensIssued
<1>l. /\ OutboxCap \in Nat /\ OutboxCap >= 1 /\ slips \in Nat /\ MaxSlips \in Nat /\ slips <= MaxSlips
      /\ \A b \in Bots : /\ Len(applies[b]) \in Nat /\ Len(reports[b]) \in Nat
                         /\ Len(applies[b]) <= OutboxCap /\ Len(reports[b]) <= OutboxCap + MaxSlips
  BY <1>t, <1>n DEF DrivesTypeOK
<1>i. Issued \subseteq Nat
  BY DEF Issued
<1>z. 0 \notin Bots
  BY DEF Bots
<1> DEFINE Kept == /\ DrivesTypeOK' /\ TokensIssued' /\ ReportsFit' /\ DownFromRow' /\ UpFromMount'
                   /\ RowWillKnow' /\ MountWillKnow' /\ NewestIsHeld'
<1> SUFFICES Kept
  BY DEF DrivesInv
<1>1. CASE SignsInAgain
  <2>1. /\ newest' = newest + 1 /\ kept' = newest + 1 /\ newest' \in Issued
        /\ UNCHANGED <<online, applies, reports, spec, last, conf, slips, cutOff, spilled, setBack>>
        /\ \A b \in Bots : rendered'[b] = rendered[b] \union {newest + 1}
        /\ rendered' \in [Bots -> SUBSET Issued]
    BY <1>1, <1>t DEF SignsInAgain, DrivesTypeOK, Issued
  <2>2. DrivesTypeOK'
    BY <2>1, <1>t DEF DrivesTypeOK
  <2>3. TokensIssued'
    BY <2>1, <1>k, <1>u DEF TokensIssued
  <2>4. ReportsFit' /\ UpFromMount'
    BY <2>1, <1>t DEF ReportsFit, UpFromMount
  <2>5. DownFromRow'
    BY <2>1, <1>k, <1>u DEF DownFromRow
  <2>6. RowWillKnow' /\ MountWillKnow' /\ NewestIsHeld'
    BY <2>1, <1>t, <1>n DEF TokensIssued, RowWillKnow, MountWillKnow, NewestIsHeld
  <2> QED
    BY <2>2, <2>3, <2>4, <2>5, <2>6
<1>2. ASSUME NEW b \in Bots, RcloneRefreshes(b) PROVE Kept
  <2>1. /\ newest' = newest + 1 /\ conf' = [conf EXCEPT ![b] = newest + 1] /\ newest' \in Issued
        /\ conf[b] = newest
        /\ UNCHANGED <<kept, online, applies, reports, rendered, spec, last, slips, cutOff, spilled, setBack>>
    BY <1>2, <1>t DEF RcloneRefreshes, DrivesTypeOK, Issued
  <2>2. /\ conf' \in [Bots -> Issued] /\ conf'[b] = newest + 1
        /\ \A o \in Bots : o # b => conf'[o] = conf[o]
    BY <2>1, <1>t DEF DrivesTypeOK
  <2>3. DrivesTypeOK'
    BY <2>1, <2>2, <1>t DEF DrivesTypeOK
  <2>4. TokensIssued'
    BY <2>1, <2>2, <1>k, <1>u DEF TokensIssued
  <2>5. ReportsFit' /\ UpFromMount' /\ DownFromRow' /\ RowWillKnow' /\ MountWillKnow'
    BY <2>1, <1>t DEF ReportsFit, UpFromMount, DownFromRow, RowWillKnow, MountWillKnow
  <2>6. NewestIsHeld'
    BY <2>1, <2>2 DEF NewestIsHeld
  <2> QED
    BY <2>3, <2>4, <2>5, <2>6
<1>3. ASSUME NEW b \in Bots, WatchSees(b) PROVE Kept
  <2>1. /\ last' = [last EXCEPT ![b] = conf[b]]
        /\ UNCHANGED <<kept, newest, online, applies, rendered, spec, conf, slips, cutOff, setBack>>
        /\ \/ Len(reports[b]) < OutboxCap /\ spilled' = spilled
              /\ reports' = [reports EXCEPT ![b] = Append(@, conf[b])]
           \/ spilled' = TRUE /\ reports' = reports
    BY <1>3 DEF WatchSees, Reported
  <2>2. /\ last' \in [Bots -> Issued] /\ last'[b] = conf[b]
        /\ \A o \in Bots : o # b => last'[o] = last[o]
    BY <2>1, <1>t DEF DrivesTypeOK
  <2>c. conf[b] \in Issued
    BY <1>t DEF DrivesTypeOK
  <2>3. /\ reports' \in [Bots -> Seq(Issued)]
        /\ \A o \in Bots : o # b => reports'[o] = reports[o]
        /\ \/ /\ spilled' = spilled /\ Len(reports[b]) < OutboxCap
              /\ Len(reports'[b]) = Len(reports[b]) + 1
              /\ ToSet(reports'[b]) = ToSet(reports[b]) \union {conf[b]}
           \/ spilled' = TRUE /\ reports'[b] = reports[b]
    <3>1. CASE reports' = [reports EXCEPT ![b] = Append(@, conf[b])]
      <4>1. reports'[b] = Append(reports[b], conf[b]) /\ \A o \in Bots : o # b => reports'[o] = reports[o]
        BY <3>1, <1>t DEF DrivesTypeOK
      <4>2. /\ Append(reports[b], conf[b]) \in Seq(Issued)
            /\ Len(Append(reports[b], conf[b])) = Len(reports[b]) + 1
            /\ ToSet(Append(reports[b], conf[b])) = ToSet(reports[b]) \union {conf[b]}
        BY <2>c, <1>n, AppendedIs
      <4>3. reports' \in [Bots -> Seq(Issued)]
        BY <3>1, <4>2, <1>t DEF DrivesTypeOK
      <4> QED
        BY <2>1, <4>1, <4>2, <4>3
    <3> QED
      BY <2>1, <3>1, <1>t DEF DrivesTypeOK
  <2>4. ReportsFit' /\ \A o \in Bots : Len(reports'[o]) <= OutboxCap + MaxSlips
    <3>1. \A o \in Bots : \/ Len(reports'[o]) = Len(reports[o])
                          \/ Len(reports[o]) < OutboxCap /\ Len(reports'[o]) = Len(reports[o]) + 1
      BY <2>3
    <3>2. MaxSlips \in Nat /\ \A o \in Bots : Len(reports[o]) <= OutboxCap + MaxSlips
      BY <1>t DEF DrivesTypeOK
    <3>3. \A o \in Bots : Len(reports'[o]) <= OutboxCap + MaxSlips
      BY <3>1, <3>2, <1>n
    <3>4. ReportsFit'
      BY <2>1, <3>1, <1>t, <1>n DEF ReportsFit
    <3> QED
      BY <3>3, <3>4
  <2>5. DrivesTypeOK'
    BY <2>1, <2>2, <2>3, <2>4, <1>t DEF DrivesTypeOK
  <2>6. TokensIssued'
    BY <2>1, <2>2, <2>3, <1>t, <1>n DEF TokensIssued
  <2>7. DownFromRow'
    BY <2>1, <1>t DEF DownFromRow
  <2>8. UpFromMount'
    <3>1. SUFFICES ASSUME NEW o \in Bots, o \notin setBack, NEW u \in ToSet(reports'[o])
                   PROVE  u <= last'[o]
      BY <2>1 DEF UpFromMount
    <3>2. u \in ToSet(reports[o]) \/ (o = b /\ u = conf[b])
      BY <3>1, <2>3
    <3>3. u \in ToSet(reports[o]) => u \in Nat /\ u <= last[o]
      BY <3>1, <1>t, <1>u DEF UpFromMount
    <3>4. last[o] <= last'[o] /\ last[o] \in Nat /\ last'[o] \in Nat
      BY <2>2, <1>k
    <3>5. CASE u \in ToSet(reports[o])
      BY <3>3, <3>4, <3>5
    <3>6. CASE o = b /\ u = conf[b]
      BY <3>6, <2>2, <1>k
    <3> QED
      BY <3>2, <3>5, <3>6
  <2>9. RowWillKnow'
    BY <2>1, <2>2, <2>3, <1>t DEF RowWillKnow
  <2>10. MountWillKnow'
    BY <2>1, <2>2, <1>t, <1>n DEF MountWillKnow, TokensIssued
  <2>11. NewestIsHeld'
    BY <2>1, <2>3, <1>t DEF NewestIsHeld
  <2> QED
    BY <2>4, <2>5, <2>6, <2>7, <2>8, <2>9, <2>10, <2>11
<1>4. ASSUME NEW b \in Bots, RcloneExits(b) PROVE Kept
  <2>1. /\ slips' = slips + 1 /\ slips' \in 0..MaxSlips
        /\ cutOff' = IF conf[b] # last[b] THEN cutOff \union {b} ELSE cutOff
        /\ conf' = [conf EXCEPT ![b] = last[b]]
        /\ UNCHANGED <<kept, newest, online, applies, reports, rendered, spec, last, spilled, setBack>>
    BY <1>4, <1>t DEF RcloneExits, DrivesTypeOK
  <2>2. /\ conf' \in [Bots -> Issued] /\ conf'[b] = last[b]
        /\ \A o \in Bots : o # b => conf'[o] = conf[o]
    BY <2>1, <1>t DEF DrivesTypeOK
  <2>3. DrivesTypeOK'
    BY <2>1, <2>2, <1>t DEF DrivesTypeOK
  <2>4. TokensIssued'
    BY <2>1, <2>2, <1>t, <1>n DEF TokensIssued
  <2>5. ReportsFit'
    BY SMTT(30), <2>1, <1>t, <1>n DEF ReportsFit
  <2>6. UpFromMount' /\ DownFromRow' /\ RowWillKnow' /\ MountWillKnow'
    BY <2>1, <1>t DEF UpFromMount, DownFromRow, RowWillKnow, MountWillKnow
  <2>7. NewestIsHeld'
    BY <2>1, <2>2, <1>t DEF NewestIsHeld
  <2> QED
    BY <2>3, <2>4, <2>5, <2>6, <2>7
<1>5. ASSUME NEW b \in Bots, GetsApply(b) PROVE Kept
  <2> DEFINE t == Head(applies[b])
  <2>1. /\ b \in online /\ applies[b] # << >>
        /\ applies' = [applies EXCEPT ![b] = Tail(@)]
        /\ UNCHANGED <<kept, newest, online, reports, rendered, slips, spilled>>
        /\ \/ t = last[b] /\ UNCHANGED <<spec, last, conf, cutOff, setBack>>
           \/ /\ spec' = [spec EXCEPT ![b] = t] /\ last' = [last EXCEPT ![b] = t]
              /\ conf' = [conf EXCEPT ![b] = t]
              /\ cutOff' = IF conf[b] # last[b] THEN cutOff \union {b} ELSE cutOff
              /\ setBack' = IF t < last[b] THEN setBack \union {b} ELSE setBack
    BY <1>5 DEF GetsApply
  <2>2. /\ t \in Issued /\ Tail(applies[b]) \in Seq(Issued)
        /\ ToSet(applies[b]) = {t} \union ToSet(Tail(applies[b]))
        /\ Len(Tail(applies[b])) = Len(applies[b]) - 1
    BY <2>1, <1>n, HeadAndTail
  <2> HIDE DEF t
  <2>3. /\ applies' \in [Bots -> Seq(Issued)] /\ applies'[b] = Tail(applies[b])
        /\ \A o \in Bots : o # b => applies'[o] = applies[o]
    BY <2>1, <2>2, <1>t DEF DrivesTypeOK
  <2>4. /\ \A o \in Bots : ToSet(applies'[o]) \subseteq ToSet(applies[o])
        /\ ToSet(applies[b]) = {t} \union ToSet(applies'[b])
    BY <2>2, <2>3
  <2>5. /\ {spec', last', conf'} \subseteq [Bots -> Issued]
        /\ \A o \in Bots : o # b => spec'[o] = spec[o] /\ last'[o] = last[o] /\ conf'[o] = conf[o]
        /\ \/ last'[b] = last[b] /\ spec'[b] = spec[b] /\ conf'[b] = conf[b] /\ t = last[b]
           \/ last'[b] = t /\ spec'[b] = t /\ conf'[b] = t
    <3>1. spec \in [Bots -> Issued] /\ last \in [Bots -> Issued] /\ conf \in [Bots -> Issued]
      BY <1>t DEF DrivesTypeOK
    <3>2. CASE t = last[b] /\ UNCHANGED <<spec, last, conf, cutOff, setBack>>
      BY <3>1, <3>2
    <3>3. CASE /\ spec' = [spec EXCEPT ![b] = t] /\ last' = [last EXCEPT ![b] = t]
               /\ conf' = [conf EXCEPT ![b] = t]
      BY <3>1, <3>3, <2>2
    <3> QED
      BY <2>1, <3>2, <3>3
  <2>6. /\ setBack \subseteq setBack' /\ setBack' \subseteq setBack \union {b}
        /\ b \notin setBack' => last[b] <= last'[b]
        /\ cutOff \subseteq cutOff' /\ cutOff' \subseteq cutOff \union {b}
        /\ b \notin cutOff' => conf[b] = last[b] \/ conf' = conf
    BY <2>1, <2>5, <2>2, <1>n, <1>i
  <2>7. \A o \in Bots : Len(applies'[o]) <= OutboxCap
    BY SMTT(30), <2>2, <2>3, <1>l
  <2>8. DrivesTypeOK'
    BY <2>1, <2>3, <2>5, <2>6, <2>7, <1>t DEF DrivesTypeOK
  <2>9. t \in Nat /\ t \in ToSet(applies[b])
    BY <2>2, <2>4, <1>i
  <2>10. TokensIssued'
    BY SMTT(30), <2>1, <2>4, <2>5, <2>9, <1>t, <1>n DEF TokensIssued
  <2>11. ReportsFit'
    BY <2>1, <1>t DEF ReportsFit
  <2>12. DownFromRow'
    BY <2>1, <2>4, <2>5, <2>6, <2>9, <1>t DEF DownFromRow
  <2>13. UpFromMount'
    <3>1. SUFFICES ASSUME NEW o \in Bots, o \notin setBack', NEW u \in ToSet(reports[o])
                   PROVE  u <= last'[o]
      BY <2>1 DEF UpFromMount
    <3>2. u <= last[o] /\ u \in Nat /\ last[o] \in Nat /\ last'[o] \in Nat
      BY <3>1, <2>5, <2>6, <2>9, <1>t, <1>n DEF UpFromMount
    <3>3. last[o] <= last'[o]
      BY <3>1, <3>2, <2>5, <2>6
    <3> QED
      BY <3>2, <3>3
  <2>14. RowWillKnow'
    <3>1. SUFFICES ASSUME 0 \notin setBack', ~spilled', NEW o \in Bots
                   PROVE  last'[o] <= kept \/ last'[o] \in ToSet(reports[o]) \/ o \notin online
      BY <2>1 DEF RowWillKnow
    <3>2. 0 \notin setBack /\ ~spilled
      BY <3>1, <2>1, <2>6
    <3>3. last'[o] = last[o] \/ last'[o] = t
      BY <2>5
    <3>4. t <= kept
      BY <3>2, <2>9, <1>t DEF DownFromRow
    <3> QED
      BY <3>2, <3>3, <3>4, <1>t DEF RowWillKnow
  <2>15. MountWillKnow'
    <3>1. SUFFICES ASSUME setBack' = {}, NEW o \in Bots
                   PROVE  kept <= last'[o] \/ o \notin online \/ kept \in rendered[o] \union ToSet(applies'[o])
      BY <2>1 DEF MountWillKnow
    <3>2. setBack = {} /\ last[b] <= last'[b]
      BY <3>1, <2>6
    <3>3. \/ kept <= last[o] \/ o \notin online \/ kept \in rendered[o] \union ToSet(applies[o])
      BY <3>2, <1>t DEF MountWillKnow
    <3>4. CASE o # b
      BY <3>3, <3>4, <2>3, <2>5
    <3>5. CASE o = b
      <4>1. CASE kept <= last[o]
        BY <4>1, <3>2, <3>5, <2>5, <2>9, <1>n
      <4>2. CASE kept = t
        BY <4>2, <3>5, <2>5, <2>9, <1>n
      <4> QED
        BY <4>1, <4>2, <3>3, <3>5, <2>4
    <3> QED
      BY <3>4, <3>5
  <2>16. NewestIsHeld'
    <3>1. SUFFICES ASSUME 0 \notin setBack', ~spilled', cutOff' = {}
                   PROVE  kept = newest \/ \E o \in Bots : conf'[o] = newest \/ newest \in ToSet(reports[o])
      BY <2>1 DEF NewestIsHeld
    <3>2. 0 \notin setBack /\ ~spilled /\ cutOff = {} /\ b \notin cutOff'
      BY <3>1, <2>1, <2>6
    <3>3. kept = newest \/ \E o \in Bots : conf[o] = newest \/ newest \in ToSet(reports[o])
      BY <3>2, <1>t DEF NewestIsHeld
    <3>4. ASSUME conf[b] = newest, conf'[b] # newest
          PROVE  kept = newest \/ newest \in ToSet(reports[b])
      <4>1. last[b] = newest
        BY <3>2, <3>4, <2>6
      <4>2. last[b] <= kept \/ last[b] \in ToSet(reports[b])
        BY <3>2, <2>1, <1>t DEF RowWillKnow
      <4>3. kept <= newest
        BY <1>t DEF TokensIssued
      <4> QED
        BY <4>1, <4>2, <4>3, <1>n
    <3> QED
      BY <3>3, <3>4, <2>5
  <2> QED
    BY <2>8, <2>10, <2>11, <2>12, <2>13, <2>14, <2>15, <2>16
<1>6. ASSUME NEW b \in Bots, SavesToken(b) PROVE Kept
  <2> DEFINE t == Head(reports[b])
  <2>1. /\ b \in online /\ reports[b] # << >>
        /\ reports' = [reports EXCEPT ![b] = Tail(@)]
        /\ kept' = t /\ setBack' = IF t < kept THEN setBack \union {0} ELSE setBack
        /\ rendered' = IF t = kept THEN rendered
                       ELSE [o \in Bots |-> IF o = b THEN rendered[o] ELSE rendered[o] \union {t}]
        /\ UNCHANGED <<newest, online, applies, spec, last, conf, slips, cutOff, spilled>>
    BY <1>6 DEF SavesToken
  <2>2. /\ t \in Issued /\ Tail(reports[b]) \in Seq(Issued)
        /\ ToSet(reports[b]) = {t} \union ToSet(Tail(reports[b]))
        /\ Len(Tail(reports[b])) = Len(reports[b]) - 1
    BY <2>1, <1>n, HeadAndTail
  <2> HIDE DEF t
  <2>3. /\ reports' \in [Bots -> Seq(Issued)] /\ reports'[b] = Tail(reports[b])
        /\ \A o \in Bots : o # b => reports'[o] = reports[o]
    BY <2>1, <2>2, <1>t DEF DrivesTypeOK
  <2>4. /\ \A o \in Bots : ToSet(reports'[o]) \subseteq ToSet(reports[o])
        /\ ToSet(reports[b]) = {t} \union ToSet(reports'[b])
        /\ \A o \in Bots : o # b => ToSet(reports'[o]) = ToSet(reports[o])
    BY <2>2, <2>3
  <2>5. /\ rendered' \in [Bots -> SUBSET Issued]
        /\ \A o \in Bots : /\ rendered[o] \subseteq rendered'[o]
                           /\ rendered'[o] \subseteq rendered[o] \union {t}
                           /\ o # b /\ t # kept => t \in rendered'[o]
        /\ kept = t => rendered' = rendered
    BY <2>1, <2>2, <1>t DEF DrivesTypeOK
  <2>6. /\ setBack \subseteq setBack' /\ setBack' \subseteq setBack \union {0}
        /\ 0 \notin setBack' => kept <= kept'
    BY <2>1, <2>2, <1>n, <1>i
  <2>7. \A o \in Bots : Len(reports'[o]) <= Len(reports[o]) /\ Len(reports'[o]) \in Nat
    BY <2>2, <2>3, <1>n, HeadAndTail
  <2>8. DrivesTypeOK'
    <3>1. MaxSlips \in Nat /\ \A o \in Bots : Len(reports[o]) <= OutboxCap + MaxSlips
      BY <1>t DEF DrivesTypeOK
    <3>2. \A o \in Bots : Len(reports'[o]) <= OutboxCap + MaxSlips
      BY <3>1, <2>7, <1>n
    <3> QED
      BY <2>1, <2>2, <2>3, <2>5, <2>6, <3>2, <1>t DEF DrivesTypeOK
  <2>9. t \in Nat /\ t \in ToSet(reports[b]) /\ t <= newest
    BY <2>2, <2>4, <1>i, <1>t DEF TokensIssued
  <2>10. TokensIssued'
    BY <2>1, <2>4, <2>5, <2>9, <1>t DEF TokensIssued
  <2>11. ReportsFit'
    BY <2>1, <2>7, <1>t, <1>n DEF ReportsFit
  <2>12. DownFromRow'
    <3>1. SUFFICES ASSUME 0 \notin setBack', NEW o \in Bots
                   PROVE  spec[o] <= t /\ \A u \in rendered'[o] \union ToSet(applies[o]) : u <= t
      BY <2>1 DEF DownFromRow
    <3>2. 0 \notin setBack /\ kept <= t
      BY <3>1, <2>1, <2>6
    <3>3. spec[o] <= kept /\ \A u \in rendered[o] \union ToSet(applies[o]) : u <= kept /\ u \in Nat
      BY <3>2, <1>t, <1>n DEF DownFromRow
    <3>4. spec[o] <= t
      BY <3>2, <3>3, <2>9, <1>k
    <3>5. ASSUME NEW u \in rendered'[o] \union ToSet(applies[o]) PROVE u <= t
      <4>1. CASE u = t
        BY <4>1, <2>9
      <4>2. CASE u \in rendered[o] \union ToSet(applies[o])
        BY <4>2, <3>2, <3>3, <2>9, <1>k
      <4> QED
        BY <4>1, <4>2, <2>5
    <3> QED
      BY <3>4, <3>5
  <2>13. UpFromMount'
    BY <2>1, <2>4, <2>6, <1>t, <1>z DEF UpFromMount
  <2>14. RowWillKnow'
    <3>1. SUFFICES ASSUME 0 \notin setBack', ~spilled', NEW o \in Bots
                   PROVE  last[o] <= t \/ last[o] \in ToSet(reports'[o]) \/ o \notin online
      BY <2>1 DEF RowWillKnow
    <3>2. 0 \notin setBack /\ ~spilled /\ kept <= t
      BY <3>1, <2>1, <2>6
    <3>3. last[o] <= kept \/ last[o] \in ToSet(reports[o]) \/ o \notin online
      BY <3>2, <1>t DEF RowWillKnow
    <3>4. CASE last[o] <= kept
      BY <3>4, <3>2, <2>9, <1>n
    <3>5. CASE last[o] \in ToSet(reports[o])
      BY <3>5, <2>4, <2>9
    <3> QED
      BY <3>3, <3>4, <3>5
  <2>15. MountWillKnow'
    <3>1. SUFFICES ASSUME setBack' = {}, NEW o \in Bots
                   PROVE  t <= last[o] \/ o \notin online \/ t \in rendered'[o] \union ToSet(applies[o])
      BY <2>1 DEF MountWillKnow
    <3>2. setBack = {}
      BY <3>1, <2>6
    <3>3. CASE t = kept
      BY <3>2, <3>3, <2>5, <1>t DEF MountWillKnow
    <3>4. CASE o = b
      BY <3>2, <3>4, <2>9, <1>t DEF UpFromMount
    <3> QED
      BY <3>3, <3>4, <2>5
  <2>16. NewestIsHeld'
    <3>1. SUFFICES ASSUME 0 \notin setBack', ~spilled', cutOff' = {}
                   PROVE  t = newest \/ \E o \in Bots : conf[o] = newest \/ newest \in ToSet(reports'[o])
      BY <2>1 DEF NewestIsHeld
    <3>2. 0 \notin setBack /\ ~spilled /\ cutOff = {} /\ kept <= t
      BY <3>1, <2>1, <2>6
    <3>3. kept = newest \/ \E o \in Bots : conf[o] = newest \/ newest \in ToSet(reports[o])
      BY <3>2, <1>t DEF NewestIsHeld
    <3>4. CASE kept = newest
      BY <3>2, <3>4, <2>9, <1>n
    <3> QED
      BY <3>3, <3>4, <2>4
  <2> QED
    BY <2>8, <2>10, <2>11, <2>12, <2>13, <2>14, <2>15, <2>16
<1>7. ASSUME NEW b \in Bots, RendersForRun(b) PROVE Kept
  <2>1. /\ rendered' \in [Bots -> SUBSET Issued]
        /\ \A o \in Bots : rendered[o] \subseteq rendered'[o] /\ rendered'[o] \subseteq rendered[o] \union {kept}
        /\ UNCHANGED <<kept, newest, online, applies, reports, spec, last, conf, slips, cutOff, spilled, setBack>>
    BY <1>7, <1>t DEF RendersForRun, DrivesTypeOK
  <2>2. DrivesTypeOK'
    BY <2>1, <1>t DEF DrivesTypeOK
  <2>3. TokensIssued' /\ ReportsFit' /\ UpFromMount' /\ RowWillKnow' /\ NewestIsHeld'
    BY <2>1, <1>t DEF TokensIssued, ReportsFit, UpFromMount, RowWillKnow, NewestIsHeld
  <2>4. DownFromRow' /\ MountWillKnow'
    BY SMTT(30), <2>1, <1>t, <1>n DEF DownFromRow, MountWillKnow
  <2> QED
    BY <2>2, <2>3, <2>4
<1>8. ASSUME NEW b \in Bots, NEW t \in Issued, PushesApply(b, t) PROVE Kept
  <2>1. /\ t \in rendered[b] /\ Len(applies[b]) < OutboxCap
        /\ rendered' = [rendered EXCEPT ![b] = @ \ {t}]
        /\ applies' = IF b \in online THEN [applies EXCEPT ![b] = Append(@, t)] ELSE applies
        /\ UNCHANGED <<kept, newest, online, reports, spec, last, conf, slips, cutOff, spilled, setBack>>
    BY <1>8 DEF PushesApply
  <2>2. /\ rendered' \in [Bots -> SUBSET Issued] /\ rendered'[b] = rendered[b] \ {t}
        /\ \A o \in Bots : o # b => rendered'[o] = rendered[o]
    BY <2>1, <1>t DEF DrivesTypeOK
  <2>3. /\ Append(applies[b], t) \in Seq(Issued) /\ Len(Append(applies[b], t)) = Len(applies[b]) + 1
        /\ ToSet(Append(applies[b], t)) = ToSet(applies[b]) \union {t}
    BY <1>n, AppendedIs
  <2>4. /\ applies' \in [Bots -> Seq(Issued)]
        /\ \A o \in Bots : o # b => applies'[o] = applies[o]
        /\ applies'[b] = IF b \in online THEN Append(applies[b], t) ELSE applies[b]
    BY <2>1, <2>3, <1>t DEF DrivesTypeOK
  <2>5. \A o \in Bots : Len(applies'[o]) <= OutboxCap
    BY <2>1, <2>3, <2>4, <1>t, <1>n DEF DrivesTypeOK
  <2>6. \A o \in Bots : /\ rendered'[o] \union ToSet(applies'[o]) \subseteq rendered[o] \union ToSet(applies[o])
                        /\ o \in online => rendered'[o] \union ToSet(applies'[o]) = rendered[o] \union ToSet(applies[o])
    BY <2>1, <2>2, <2>3, <2>4
  <2>7. DrivesTypeOK'
    BY <2>1, <2>2, <2>4, <2>5, <1>t DEF DrivesTypeOK
  <2>8. TokensIssued'
    BY <2>1, <2>6, <1>t DEF TokensIssued
  <2>9. ReportsFit' /\ UpFromMount' /\ RowWillKnow' /\ NewestIsHeld'
    BY <2>1, <1>t DEF ReportsFit, UpFromMount, RowWillKnow, NewestIsHeld
  <2>10. DownFromRow' /\ MountWillKnow'
    BY <2>1, <2>6, <1>t DEF DownFromRow, MountWillKnow
  <2> QED
    BY <2>7, <2>8, <2>9, <2>10
<1>9. ASSUME NEW b \in Bots, SessionLost(b) PROVE Kept
  <2>1. PICK k \in 0..Len(reports[b]) :
          /\ b \in online /\ slips < MaxSlips /\ slips' = slips + 1 /\ online' = online \ {b}
          /\ applies' = [applies EXCEPT ![b] = << >>]
          /\ reports' = [reports EXCEPT ![b] = SubSeq(@, k + 1, Len(@))]
          /\ cutOff' = IF \E i \in 1..k : reports[b][i] # last[b] THEN cutOff \union {b} ELSE cutOff
          /\ UNCHANGED <<kept, newest, rendered, spec, last, conf, spilled, setBack>>
    BY <1>9 DEF SessionLost
  <2> DEFINE rest == SubSeq(reports[b], k + 1, Len(reports[b]))
  <2>2. /\ rest \in Seq(Issued) /\ Len(rest) = Len(reports[b]) - k
        /\ ToSet(rest) \subseteq ToSet(reports[b])
        /\ \A x \in ToSet(reports[b]) : x \in ToSet(rest) \/ \E i \in 1..k : reports[b][i] = x
    <3>1. reports[b] \in Seq(Issued) /\ k \in 0..Len(reports[b]) /\ Len(reports[b]) \in Nat
      BY <1>n
    <3>2. /\ rest \in Seq(Issued) /\ Len(rest) = Len(reports[b]) - k
          /\ \A i \in 1..(Len(reports[b]) - k) : rest[i] = reports[b][i + k]
      BY <3>1
    <3> HIDE DEF rest
    <3>3. DOMAIN rest = 1..(Len(reports[b]) - k) /\ DOMAIN reports[b] = 1..Len(reports[b])
      BY <3>1, <3>2
    <3>4. ToSet(rest) \subseteq ToSet(reports[b])
      <4>1. ASSUME NEW i \in 1..(Len(reports[b]) - k) PROVE i + k \in 1..Len(reports[b])
        BY <3>1
      <4> QED
        BY <3>2, <3>3, <4>1 DEF ToSet
    <3>5. ASSUME NEW x \in ToSet(reports[b]) PROVE x \in ToSet(rest) \/ \E i \in 1..k : reports[b][i] = x
      <4>1. PICK j \in 1..Len(reports[b]) : reports[b][j] = x
        BY <3>3 DEF ToSet
      <4>2. CASE j <= k
        BY <3>1, <4>1, <4>2
      <4>3. CASE j > k
        <5>1. j - k \in 1..(Len(reports[b]) - k) /\ (j - k) + k = j
          BY <3>1, <4>3
        <5>2. rest[j - k] = x
          BY <3>2, <4>1, <5>1
        <5> QED
          BY <3>3, <5>1, <5>2 DEF ToSet
      <4> QED
        BY <3>1, <4>2, <4>3
    <3> QED
      BY <3>2, <3>4, <3>5
  <2>3. /\ reports' \in [Bots -> Seq(Issued)] /\ reports'[b] = rest
        /\ \A o \in Bots : o # b => reports'[o] = reports[o]
    BY <2>1, <2>2, <1>t DEF DrivesTypeOK
  <2> HIDE DEF rest
  <2>4. /\ applies' \in [Bots -> Seq(Issued)] /\ ToSet(applies'[b]) = {} /\ Len(applies'[b]) = 0
        /\ \A o \in Bots : o # b => applies'[o] = applies[o]
    <3>1. ToSet(<< >>) = {} /\ << >> \in Seq(Issued) /\ Len(<< >>) = 0
      BY DEF ToSet
    <3> QED
      BY <2>1, <3>1, <1>t DEF DrivesTypeOK
  <2>5. /\ \A o \in Bots : Len(reports'[o]) <= Len(reports[o]) /\ Len(reports'[o]) \in Nat
        /\ \A o \in Bots : Len(applies'[o]) <= OutboxCap
    <3>1. Len(rest) \in Nat /\ Len(rest) <= Len(reports[b])
      BY <2>2, <1>l
    <3>2. \A o \in Bots : Len(reports'[o]) <= Len(reports[o]) /\ Len(reports'[o]) \in Nat
      BY <3>1, <2>3, <1>l
    <3>3. \A o \in Bots : Len(applies'[o]) <= OutboxCap
      BY <2>4, <1>l
    <3> QED
      BY <3>2, <3>3
  <2>6. \A o \in Bots : /\ ToSet(reports'[o]) \subseteq ToSet(reports[o])
                        /\ ToSet(applies'[o]) \subseteq ToSet(applies[o])
                        /\ o # b => ToSet(reports'[o]) = ToSet(reports[o]) /\ ToSet(applies'[o]) = ToSet(applies[o])
    BY <2>2, <2>3, <2>4
  <2>7. DrivesTypeOK'
    <3>1. MaxSlips \in Nat /\ \A o \in Bots : Len(reports[o]) <= OutboxCap + MaxSlips
      BY <1>t DEF DrivesTypeOK
    <3>2. \A o \in Bots : Len(reports'[o]) <= OutboxCap + MaxSlips
      BY <3>1, <2>5, <1>n
    <3>3. slips' \in 0..MaxSlips
      BY <2>1, <1>l
    <3>4. cutOff' \subseteq Bots /\ online' \subseteq Bots
      BY <2>1, <1>t DEF DrivesTypeOK
    <3> QED
      BY <2>1, <2>3, <2>4, <2>5, <3>2, <3>3, <3>4, <1>t DEF DrivesTypeOK
  <2>8. TokensIssued'
    BY <2>1, <2>6, <1>t DEF TokensIssued
  <2>9. ReportsFit'
    <3>1. ASSUME NEW o \in Bots, o # b
          PROVE  /\ o \in online' => Len(reports'[o]) <= OutboxCap + slips'
                 /\ o \notin online' => Len(reports'[o]) + 1 <= OutboxCap + slips' /\ slips' >= 1
      <4>1. (o \in online' <=> o \in online) /\ slips' = slips + 1 /\ Len(reports'[o]) = Len(reports[o])
        BY <2>1, <2>3, <3>1
      <4> QED
        BY <4>1, <1>t, <1>l DEF ReportsFit
    <3>2. b \notin online' /\ Len(reports'[b]) + 1 <= OutboxCap + slips' /\ slips' >= 1
      <4>1. b \in online /\ slips' = slips + 1 /\ b \notin online'
        BY <2>1
      <4>2. Len(reports[b]) <= OutboxCap + slips /\ Len(reports'[b]) <= Len(reports[b]) /\ Len(reports'[b]) \in Nat
        BY <4>1, <2>5, <1>t DEF ReportsFit
      <4> QED
        BY <4>1, <4>2, <1>l
    <3> QED
      BY <3>1, <3>2 DEF ReportsFit
  <2>10. DownFromRow' /\ UpFromMount'
    BY <2>1, <2>6, <1>t DEF DownFromRow, UpFromMount
  <2>11. RowWillKnow' /\ MountWillKnow'
    BY <2>1, <2>6, <1>t DEF RowWillKnow, MountWillKnow
  <2>12. NewestIsHeld'
    <3>1. SUFFICES ASSUME 0 \notin setBack, ~spilled, cutOff' = {}
                   PROVE  kept = newest \/ \E o \in Bots : conf[o] = newest \/ newest \in ToSet(reports'[o])
      BY <2>1 DEF NewestIsHeld
    <3>2. cutOff = {} /\ \A i \in 1..k : reports[b][i] = last[b]
      BY <3>1, <2>1
    <3>3. kept = newest \/ \E o \in Bots : conf[o] = newest \/ newest \in ToSet(reports[o])
      BY <3>1, <3>2, <1>t DEF NewestIsHeld
    <3>4. ASSUME newest \in ToSet(reports[b]) PROVE newest \in ToSet(reports'[b]) \/ conf[b] = newest
      <4>1. newest \in ToSet(reports'[b]) \/ newest = last[b]
        BY <3>2, <3>4, <2>2, <2>3
      <4>2. last[b] <= conf[b] /\ conf[b] <= newest
        BY <1>t DEF TokensIssued
      <4> QED
        BY <4>1, <4>2, <1>n
    <3> QED
      BY <3>3, <3>4, <2>6
  <2> QED
    BY <2>7, <2>8, <2>9, <2>10, <2>11, <2>12
<1>10. ASSUME NEW b \in Bots, SessionOpens(b) PROVE Kept
  <2>1. /\ b \notin online /\ online' = online \union {b}
        /\ applies' = [applies EXCEPT ![b] = <<kept>>]
        /\ reports' = [reports EXCEPT ![b] = Snapshot(b) \o @]
        /\ UNCHANGED <<kept, newest, rendered, spec, last, conf, slips, cutOff, spilled, setBack>>
    BY <1>10 DEF SessionOpens
  <2>2. /\ Snapshot(b) \in Seq(Issued) /\ Len(Snapshot(b)) \in 0..1 /\ ToSet(Snapshot(b)) \subseteq {last[b]}
        /\ last[b] # spec[b] => last[b] \in ToSet(Snapshot(b))
    <3>1. last[b] \in Issued
      BY <1>t DEF DrivesTypeOK
    <3>2. ToSet(<< >>) = {} /\ << >> \in Seq(Issued) /\ Len(<< >>) = 0
      BY DEF ToSet
    <3>3. ToSet(<<last[b]>>) = {last[b]} /\ <<last[b]>> \in Seq(Issued) /\ Len(<<last[b]>>) = 1
      BY <3>1 DEF ToSet
    <3> QED
      BY <3>2, <3>3 DEF Snapshot
  <2>3. /\ Snapshot(b) \o reports[b] \in Seq(Issued)
        /\ Len(Snapshot(b) \o reports[b]) = Len(Snapshot(b)) + Len(reports[b])
        /\ ToSet(Snapshot(b) \o reports[b]) = ToSet(Snapshot(b)) \union ToSet(reports[b])
    <3> DEFINE h == Snapshot(b)
    <3> HIDE DEF h
    <3>1. h \in Seq(Issued) /\ reports[b] \in Seq(Issued)
      BY <2>2, <1>n DEF h
    <3>2. ToSet(h \o reports[b]) = ToSet(h) \union ToSet(reports[b])
      BY <3>1, ElementsOf
    <3>3. h \o reports[b] \in Seq(Issued) /\ Len(h \o reports[b]) = Len(h) + Len(reports[b])
      BY <3>1
    <3> QED
      BY <3>2, <3>3 DEF h
  <2>4. /\ reports' \in [Bots -> Seq(Issued)] /\ reports'[b] = Snapshot(b) \o reports[b]
        /\ \A o \in Bots : o # b => reports'[o] = reports[o]
    BY <2>1, <2>3, <1>t DEF DrivesTypeOK
  <2>5. /\ applies' \in [Bots -> Seq(Issued)] /\ ToSet(applies'[b]) = {kept} /\ Len(applies'[b]) = 1
        /\ \A o \in Bots : o # b => applies'[o] = applies[o]
    <3>1. kept \in Issued
      BY <1>t DEF DrivesTypeOK
    <3>2. ToSet(<<kept>>) = {kept} /\ <<kept>> \in Seq(Issued) /\ Len(<<kept>>) = 1
      BY <3>1 DEF ToSet
    <3> QED
      BY <2>1, <3>2, <1>t DEF DrivesTypeOK
  <2>6. /\ Len(reports'[b]) \in Nat /\ Len(reports'[b]) <= Len(reports[b]) + 1
        /\ \A o \in Bots : Len(applies'[o]) <= OutboxCap
    <3>1. Len(reports'[b]) = Len(Snapshot(b)) + Len(reports[b])
      BY <2>3, <2>4
    <3>2. \A o \in Bots : Len(applies'[o]) <= OutboxCap
      BY <2>5, <1>l
    <3>3. Len(Snapshot(b)) \in {0, 1}
      BY <2>2
    <3>n. Len(reports[b]) \in Nat
      BY <1>l
    <3>4. Len(reports'[b]) \in Nat /\ Len(reports'[b]) <= Len(reports[b]) + 1
      <4>1. CASE Len(Snapshot(b)) = 0
        BY <3>1, <3>n, <4>1
      <4>2. CASE Len(Snapshot(b)) = 1
        BY <3>1, <3>n, <4>2
      <4> QED
        BY <3>3, <4>1, <4>2
    <3> QED
      BY <3>2, <3>4
  <2>7. ReportsFit'
    BY <2>1, <2>4, <2>6, <1>t, <1>n DEF ReportsFit
  <2>8. DrivesTypeOK'
    <3>1. MaxSlips \in Nat /\ slips <= MaxSlips /\ \A o \in Bots : Len(reports[o]) <= OutboxCap + MaxSlips
      BY <1>t DEF DrivesTypeOK
    <3>2. \A o \in Bots : Len(reports'[o]) <= OutboxCap + MaxSlips
      BY <3>1, <2>1, <2>4, <2>6, <1>t, <1>n DEF ReportsFit
    <3> QED
      BY <2>1, <2>4, <2>5, <2>6, <3>2, <1>t DEF DrivesTypeOK
  <2>9. TokensIssued'
    <3>1. \A o \in Bots : /\ ToSet(applies'[o]) \subseteq ToSet(applies[o]) \union {kept}
                          /\ ToSet(reports'[o]) \subseteq ToSet(reports[o]) \union {last[o]}
      BY <2>2, <2>3, <2>4, <2>5
    <3>2. \A o \in Bots : last[o] <= newest
      BY <1>k
    <3>3. \A o \in Bots : \A t \in ToSet(applies'[o]) \union ToSet(reports'[o]) : t <= newest
      BY <3>1, <3>2, <1>k, <1>u
    <3> QED
      BY <2>1, <3>3, <1>t DEF TokensIssued
  <2>10. DownFromRow'
    BY <2>1, <2>5, <1>t, <1>n DEF DownFromRow
  <2>11. UpFromMount'
    BY <2>1, <2>2, <2>3, <2>4, <1>t, <1>n DEF UpFromMount
  <2>12. RowWillKnow' /\ MountWillKnow'
    BY <2>1, <2>2, <2>3, <2>4, <2>5, <1>t DEF RowWillKnow, MountWillKnow, DownFromRow
  <2>13. NewestIsHeld'
    BY <2>1, <2>3, <2>4, <1>t DEF NewestIsHeld
  <2> QED
    BY <2>7, <2>8, <2>9, <2>10, <2>11, <2>12, <2>13
<1>11. CASE UNCHANGED driveVars
  <2>1. UNCHANGED <<kept, newest, online, applies, reports, rendered, spec, last, conf,
                    slips, cutOff, spilled, setBack>>
    BY <1>11 DEF driveVars
  <2>2. DrivesTypeOK' /\ TokensIssued' /\ ReportsFit'
    BY <2>1, <1>t DEF DrivesTypeOK, TokensIssued, ReportsFit
  <2>3. DownFromRow' /\ UpFromMount' /\ RowWillKnow' /\ MountWillKnow' /\ NewestIsHeld'
    BY <2>1, <1>t DEF DownFromRow, UpFromMount, RowWillKnow, MountWillKnow, NewestIsHeld
  <2> QED
    BY <2>2, <2>3
<1> HIDE DEF Kept
<1> QED
  BY <1>1, <1>2, <1>3, <1>4, <1>5, <1>6, <1>7, <1>8, <1>9, <1>10, <1>11 DEF DrivesNext

(* Whatever is rendered, applied, refreshed, reported or cut off at the    *)
(* same time: mounts and row that are at rest agree on the token, and the  *)
(* newest one is kept, but where the histories of Drives excuse it.        *)
THEOREM DrivesSafeHolds == DrivesSpec => []DrivesSafe
  BY DrivesBegin, DrivesStep, DrivesAgree, PTL DEF DrivesSpec

-----------------------------------------------------------------------------
(* The collector of the Bot's memory.                                      *)

PartList == Seq([of : SUBSET Facts, upTo : Nat])

(* Events have places of their own below the next one, which moved on once *)
(* for each insert and at most once more for a moved row.                  *)
LogKnown ==
  /\ place \in [Facts -> Nat] /\ serial \in Nat \ {0} /\ filed \subseteq Facts
  /\ waived \subseteq Facts /\ skipped \subseteq Facts
  /\ \A e \in Facts : place[e] < serial
  /\ \A e, f \in Facts : place[e] # 0 /\ e # f => place[e] # place[f]
  /\ \A e \in filed : place[e] # 0
  /\ serial <= 1 + Cardinality({e \in Facts : place[e] # 0}) + Cardinality(waived)

(* One collection at a time, behind whose back the watermark stays.        *)
OneCollects ==
  /\ collecting \in BOOLEAN
  /\ collector \in [Collectors -> {"idle", "begun", "marked", "bounded", "loaded", "read"}]
  /\ memorySeq \in Nat /\ memorySeq < serial
  /\ behind \in [Collectors -> Nat] /\ upto \in [Collectors -> Nat]
  /\ \A c \in Collectors : behind[c] < serial /\ upto[c] < serial
  /\ \A c \in Collectors : collector[c] # "idle" => collecting
  /\ \A c, d \in Collectors : collector[c] # "idle" /\ collector[d] # "idle" => c = d
  /\ \A c \in Collectors : collector[c] \in {"marked", "bounded"} => behind[c] = memorySeq

(* The parts of a collection share no event; what is not yet read of them  *)
(* was never read, and what lies before the end of a part is in it, in one *)
(* before it, or was dealt with.                                           *)
PartsApart(ps) ==
  \A i, j \in DOMAIN ps : i # j => ps[i].of \intersect ps[j].of = {}
PartsInLog(ps, end) ==
  \A i \in DOMAIN ps : /\ ps[i].upTo <= end
                       /\ \A e \in ps[i].of : e \in waived \/ place[e] \in 1..ps[i].upTo
PartsUnread(ps, at) ==
  \A i \in DOMAIN ps : i # 1 \/ at = "loaded" =>
    \A e \in ps[i].of : taken[e] = 0 \/ e \in waived
PartsCover(ps) ==
  \A i \in DOMAIN ps : \A e \in filed :
    place[e] <= ps[i].upTo =>
      taken[e] > 0 \/ e \in skipped \/ \E j \in DOMAIN ps : j <= i /\ e \in ps[j].of
PartsKnown ==
  /\ parts \in [Collectors -> PartList] /\ taken \in [Facts -> Nat]
  /\ \A c \in Collectors : collector[c] \in {"loaded", "read"} =>
       /\ parts[c] # <<>> /\ PartsApart(parts[c]) /\ PartsInLog(parts[c], upto[c])
       /\ PartsUnread(parts[c], collector[c]) /\ PartsCover(parts[c])
       /\ collector[c] = "read" => \A e \in parts[c][1].of : taken[e] > 0 \/ e \in skipped

(* What was read is behind the watermark, or the watermark is about to     *)
(* pass it.                                                                *)
TakenKnown ==
  \A e \in Facts : taken[e] > 0 /\ e \notin waived =>
    /\ taken[e] = 1
    /\ \/ place[e] \in 1..memorySeq
       \/ \E c \in Collectors : collector[c] = "read" /\ e \in parts[c][1].of

CollectorInv == LogKnown /\ OneCollects /\ PartsKnown /\ TakenKnown /\ NothingPassedOver

-----------------------------------------------------------------------------
(* The greater, the lesser of two numbers.                                 *)
LEMMA OfTwo ==
  ASSUME NEW x \in Nat, NEW y \in Nat
  PROVE  /\ Max({x, y}) = IF x <= y THEN y ELSE x
         /\ Min({x, y}) = IF x <= y THEN x ELSE y
<1>1. \E k \in {x, y} : \A z \in {x, y} : k >= z
  BY DEF Max
<1>2. Max({x, y}) \in {x, y} /\ \A z \in {x, y} : Max({x, y}) >= z
  BY <1>1 DEF Max
<1>3. \E k \in {x, y} : \A z \in {x, y} : k <= z
  BY DEF Min
<1>4. Min({x, y}) \in {x, y} /\ \A z \in {x, y} : Min({x, y}) <= z
  BY <1>3 DEF Min
<1> QED
  BY <1>2, <1>4

(* Parts of p events: how many they are for n events, and where the next   *)
(* one begins.                                                             *)
LEMMA PartsFit ==
  ASSUME NEW n \in Nat \ {0}, NEW p \in Nat \ {0}, NEW k, k = (n + p - 1) \div p
  PROVE  /\ k \in Nat \ {0} /\ (k - 1) * p < n /\ n <= k * p
         /\ \A i \in 1..k : i * p \in Nat /\ i * p >= p /\ (i < k => i * p < n)
         /\ \A i, j \in 1..k : i < j => i * p <= (j - 1) * p
<1> DEFINE r == (n + p - 1) % p
<1>1. n + p - 1 = p * k + r /\ r \in 0..(p - 1) /\ k \in Int
  OBVIOUS
<1> HIDE DEF r
<1>2. k >= 1
  <2>1. CASE k <= 0
    <3>1. p * k <= 0
      BY <1>1, <2>1
    <3> QED
      BY <3>1, <1>1
  <2> QED
    BY <2>1, <1>1
<1>3. (k - 1) * p = p * k - p /\ k * p = p * k
  BY <1>1
<1>4. p * k \in Int /\ r \in Int
  BY <1>1
<1> DEFINE m == p * k
<1> HIDE DEF m
<1>5. (k - 1) * p < n /\ n <= k * p
  BY <1>1, <1>3, <1>4 DEF m
<1>6. ASSUME NEW a \in Nat, NEW b \in Nat, a <= b PROVE a * p <= b * p /\ a * p \in Nat
  <2>1. b * p = a * p + (b - a) * p
    BY <1>6
  <2>2. b - a \in Nat /\ (b - a) * p \in Nat /\ a * p \in Nat
    BY <1>6
  <2> QED
    BY <2>1, <2>2
<1>7. ASSUME NEW i \in 1..k PROVE i * p \in Nat /\ i * p >= p /\ (i < k => i * p < n)
  <2>1. 1 * p <= i * p /\ i * p \in Nat
    BY <1>1, <1>2, <1>6
  <2>2. ASSUME i < k PROVE i * p <= (k - 1) * p /\ (k - 1) * p \in Nat
    BY <2>2, <1>1, <1>6
  <2> QED
    BY <2>1, <2>2, <1>5
<1>8. ASSUME NEW i \in 1..k, NEW j \in 1..k, i < j PROVE i * p <= (j - 1) * p
  BY <1>8, <1>1, <1>6
<1> QED
  BY <1>1, <1>2, <1>5, <1>7, <1>8

(* How the events between watermark and end are cut: each part ends at its *)
(* last event, but the last one at the end, and before the parts after it. *)
LEMMA SplitIs ==
  ASSUME place \in [Facts -> Nat], NEW q \in Seq(Facts), q # <<>>, NEW end \in Nat,
         \A i, j \in DOMAIN q : i < j => place[q[i]] < place[q[j]],
         \A e \in ToSet(q) : place[e] <= end
  PROVE  LET ps == SplitEvents(q, end) IN
         /\ ps \in PartList /\ ps # <<>>
         /\ \A i \in DOMAIN ps : /\ ps[i].upTo <= end
                                 /\ \A e \in ps[i].of : e \in ToSet(q) /\ place[e] <= ps[i].upTo
         /\ \A i, j \in DOMAIN ps : \A e \in ps[j].of : place[e] <= ps[i].upTo => j <= i
<1> DEFINE n == Len(q)
           k == NParts(q)
           d == k - Min({k, PartLimit})
           lo(i) == (i - 1) * PartSize + 1
           hi(i) == Min({i * PartSize, n})
           ps == SplitEvents(q, end)
<1>p. PartSize \in Nat \ {0} /\ PartLimit \in Nat \ {0}
  BY CollectorBounds
<1>q. n \in Nat \ {0} /\ DOMAIN q = 1..n /\ \A m \in 1..n : q[m] \in Facts
  OBVIOUS
<1>n. \A m \in 1..n : q[m] \in ToSet(q) /\ place[q[m]] \in Nat
  BY <1>q DEF ToSet
<1>1. /\ k \in Nat \ {0}
      /\ \A i \in 1..k : i * PartSize \in Nat /\ i * PartSize >= PartSize /\ (i < k => i * PartSize < n)
      /\ \A i, j \in 1..k : i < j => i * PartSize <= (j - 1) * PartSize
      /\ n <= k * PartSize
  BY <1>p, <1>q, PartsFit DEF NParts
<1> HIDE DEF n, k
<1>2. ASSUME NEW i \in 1..k
      PROVE  /\ hi(i) \in 1..n /\ lo(i) \in Nat \ {0}
             /\ i < k => hi(i) = i * PartSize
  <2>1. i * PartSize \in Nat /\ i * PartSize >= 1
    BY <1>1, <1>p
  <2> DEFINE x == i * PartSize
  <2>2. lo(i) = x - PartSize + 1 /\ x >= PartSize
    BY <1>1, <1>p
  <2>3. i < k => x < n
    BY <1>1
  <2> HIDE DEF x
  <2>4. hi(i) = IF x <= n THEN x ELSE n
    BY <2>1, <1>q, OfTwo DEF x
  <2> QED
    BY <2>1, <2>2, <2>3, <2>4, <1>q, <1>p DEF x
<1>3. ASSUME NEW i \in 1..k, NEW j \in 1..k, i < j PROVE hi(i) < lo(j)
  <2>1. i * PartSize <= (j - 1) * PartSize /\ i < k /\ hi(i) = i * PartSize /\ i * PartSize \in Nat
    BY <1>1, <1>2, <1>3
  <2>2. (j - 1) * PartSize \in Int
    BY <1>1, <1>p
  <2> QED
    BY <2>1, <2>2
<1>4. ASSUME NEW i \in 1..k
      PROVE  Part(q, i, end) = [of |-> {q[m] : m \in lo(i)..hi(i)},
                                upTo |-> IF i = k THEN end ELSE place[q[hi(i)]]]
  <2>1. ToSet(SubSeq(q, lo(i), hi(i))) = {q[m] : m \in lo(i)..hi(i)}
    <3> DEFINE a == lo(i)
               b == hi(i)
    <3>1. a \in Nat \ {0} /\ b \in Nat /\ b <= Len(q)
      BY <1>2, <1>q DEF n
    <3> HIDE DEF a, b
    <3>2. ToSet(SubSeq(q, a, b)) = {q[m] : m \in a..b}
      BY <3>1, StretchIs
    <3> QED
      BY <3>2 DEF a, b
  <2> QED
    BY <2>1 DEF Part, k, n
<1>5. ps = [i \in 1..Min({k, PartLimit}) |-> Part(q, i + d, end)]
  BY DEF SplitEvents, k
<1> DEFINE l == Min({k, PartLimit})
<1>6. l \in 1..k /\ d = k - l /\ l \in Nat /\ 1 \in 1..l
  <2>1. l = IF k <= PartLimit THEN k ELSE PartLimit
    BY <1>1, <1>p, OfTwo
  <2> QED
    BY <2>1, <1>1, <1>p
<1> HIDE DEF l, d, lo, hi
<1>7. DOMAIN ps = 1..l /\ \A i \in 1..l : i + d \in 1..k /\ ps[i] = Part(q, i + d, end)
  BY <1>1, <1>5, <1>6 DEF l
<1> HIDE DEF ps
<1>8. ASSUME NEW i \in 1..k
      PROVE  /\ Part(q, i, end) \in [of : SUBSET Facts, upTo : Nat]
             /\ Part(q, i, end).upTo <= end
             /\ \A e \in Part(q, i, end).of : e \in ToSet(q) /\ place[e] <= Part(q, i, end).upTo
  <2> DEFINE P == Part(q, i, end)
  <2>1. P.of = {q[m] : m \in lo(i)..hi(i)} /\ P.upTo = IF i = k THEN end ELSE place[q[hi(i)]]
    BY <1>4
  <2>2. P = [of |-> P.of, upTo |-> P.upTo]
    BY <1>4
  <2> HIDE DEF P
  <2>3. \A m \in lo(i)..hi(i) : m \in 1..n /\ (m = hi(i) \/ m < hi(i))
    BY <1>2, <1>q
  <2>4. hi(i) \in 1..n /\ place[q[hi(i)]] \in Nat /\ place[q[hi(i)]] <= end
    BY <1>2, <1>n
  <2>5. P.upTo \in Nat /\ P.upTo <= end
    BY <2>1, <2>4
  <2>6. ASSUME NEW m \in lo(i)..hi(i) PROVE q[m] \in Facts /\ q[m] \in ToSet(q) /\ place[q[m]] <= P.upTo
    <3>1. m \in 1..n /\ place[q[m]] <= end /\ q[m] \in Facts /\ q[m] \in ToSet(q)
      BY <2>3, <1>n, <1>q
    <3>2. place[q[m]] <= place[q[hi(i)]]
      <4>1. CASE m = hi(i)
        BY <4>1, <2>4
      <4>2. CASE m < hi(i)
        <5>1. place[q[m]] < place[q[hi(i)]]
          BY <3>1, <4>2, <2>4, <1>q
        <5> QED
          BY <5>1, <3>1, <2>4, <1>n
      <4> QED
        BY <4>1, <4>2, <2>3
    <3> QED
      BY <3>1, <3>2, <2>1
  <2>7. P.of \subseteq Facts /\ \A e \in P.of : e \in ToSet(q) /\ place[e] <= P.upTo
    BY <2>1, <2>6
  <2> QED
    BY <2>2, <2>5, <2>7 DEF P
<1>9. ASSUME NEW i \in 1..k, NEW j \in 1..k, NEW e \in Part(q, j, end).of, i < j
      PROVE  ~(place[e] <= Part(q, i, end).upTo)
  <2>1. PICK m \in lo(j)..hi(j) : e = q[m]
    BY <1>4
  <2>2. hi(i) < m /\ m \in 1..n /\ hi(i) \in 1..n
    BY <1>2, <1>3, <1>9, <1>q
  <2>3. Part(q, i, end).upTo = place[q[hi(i)]]
    BY <1>4, <1>9
  <2>4. place[q[hi(i)]] < place[q[m]]
    BY <2>2, <1>q
  <2> QED
    BY <2>1, <2>2, <2>3, <2>4, <1>n
<1>10. ps \in PartList /\ ps # <<>>
  <2> DEFINE R == [of : SUBSET Facts, upTo : Nat]
  <2>1. \A i \in 1..l : ps[i] \in R
    BY <1>7, <1>8
  <2> HIDE DEF R
  <2>2. ps = [i \in 1..l |-> ps[i]]
    BY <1>5 DEF l, ps
  <2>3. ps \in [1..l -> R]
    BY <2>1, <2>2
  <2>4. ps \in Seq(R)
    BY <2>3, <1>6
  <2>5. ps # <<>>
    BY <1>6, <1>7
  <2> QED
    BY <2>4, <2>5 DEF PartList, R
<1>11. \A i \in DOMAIN ps : /\ ps[i].upTo <= end
                           /\ \A e \in ps[i].of : e \in ToSet(q) /\ place[e] <= ps[i].upTo
  BY <1>7, <1>8
<1>12. \A i, j \in DOMAIN ps : \A e \in ps[j].of : place[e] <= ps[i].upTo => j <= i
  <2> SUFFICES ASSUME NEW i \in 1..l, NEW j \in 1..l, NEW e \in ps[j].of, place[e] <= ps[i].upTo, i < j
               PROVE  FALSE
    <3>1. \A i, j \in 1..l : ~(i < j) => j <= i
      BY <1>6
    <3> QED
      BY <1>7, <3>1
  <2>1. i + d \in 1..k /\ j + d \in 1..k /\ i + d < j + d
    BY <1>7, <1>6, <1>1
  <2> QED
    BY <2>1, <1>7, <1>9
<1> QED
  BY <1>10, <1>11, <1>12 DEF ps

-----------------------------------------------------------------------------
(* At the start there is neither a row nor a collection.                   *)
LEMMA CollectorBegin == CollectorInit => CollectorInv
<1> SUFFICES ASSUME CollectorInit PROVE CollectorInv
  OBVIOUS
<1> USE DEF CollectorInit
<1>1. LogKnown
  <2>1. {e \in Facts : place[e] # 0} = {} /\ waived = {}
    OBVIOUS
  <2>2. Cardinality({}) = 0
    BY FS_EmptySet
  <2>3. Cardinality({e \in Facts : place[e] # 0}) = 0 /\ Cardinality(waived) = 0 /\ serial = 1
    BY <2>1, <2>2
  <2>4. serial <= 1 + Cardinality({e \in Facts : place[e] # 0}) + Cardinality(waived)
    BY ONLY <2>3
  <2> QED
    BY <2>4 DEF LogKnown
<1>2. OneCollects
  <2>1. \A c \in Collectors : collector[c] = "idle" /\ behind[c] = 0 /\ upto[c] = 0
    OBVIOUS
  <2>2. collector \in [Collectors -> {"idle", "begun", "marked", "bounded", "loaded", "read"}]
    OBVIOUS
  <2>3. behind \in [Collectors -> Nat] /\ upto \in [Collectors -> Nat]
    OBVIOUS
  <2>4. memorySeq = 0 /\ serial = 1 /\ collecting \in BOOLEAN
    OBVIOUS
  <2> QED
    BY ONLY <2>1, <2>2, <2>3, <2>4 DEF OneCollects
<1>3. PartsKnown
  <2>1. <<>> \in PartList
    BY DEF PartList
  <2> QED
    BY <2>1 DEF PartsKnown
<1>4. TakenKnown /\ NothingPassedOver
  BY DEF TakenKnown, NothingPassedOver
<1> QED
  BY <1>1, <1>2, <1>3, <1>4 DEF CollectorInv

(* A part of a collection.                                                 *)
LEMMA PartIs ==
  ASSUME NEW ps \in PartList
  PROVE  \A i \in DOMAIN ps : ps[i].of \subseteq Facts /\ ps[i].upTo \in Nat
<1> DEFINE R == [of : SUBSET Facts, upTo : Nat]
<1>1. ps \in Seq(R)
  BY DEF PartList
<1>2. \A x \in R : x.of \subseteq Facts /\ x.upTo \in Nat
  OBVIOUS
<1> HIDE DEF R
<1>3. \A i \in DOMAIN ps : ps[i] \in R
  BY <1>1
<1> QED
  BY <1>2, <1>3

(* What was given up or moved is a finite set, that only grows.            *)
LEMMA WaivedGrows ==
  ASSUME waived \in SUBSET Facts, waived' \in SUBSET Facts, waived \subseteq waived'
  PROVE  Cardinality(waived) \in Nat /\ Cardinality(waived') \in Nat /\ Cardinality(waived) <= Cardinality(waived')
<1>1. IsFiniteSet(Facts)
  BY FS_Interval, CollectorBounds DEF Facts
<1>2. IsFiniteSet(waived) /\ IsFiniteSet(waived')
  BY <1>1, FS_Subset
<1> QED
  BY <1>2, FS_Subset, FS_CardinalityType

(* The number of events with a place.                                      *)
LEMMA PlacedCount ==
  ASSUME NEW P \in SUBSET Facts
  PROVE  /\ IsFiniteSet(P) /\ Cardinality(P) \in 0..NFacts
         /\ \A e \in Facts \ P : Cardinality(P \union {e}) = Cardinality(P) + 1
<1>1. IsFiniteSet(Facts) /\ Cardinality(Facts) = NFacts
  BY FS_Interval, CollectorBounds DEF Facts
<1>2. IsFiniteSet(P) /\ Cardinality(P) <= NFacts
  BY <1>1, FS_Subset
<1>3. Cardinality(P) \in Nat
  BY <1>2, FS_CardinalityType
<1>4. \A e \in Facts \ P : Cardinality(P \union {e}) = Cardinality(P) + 1
  BY <1>2, FS_AddElement
<1> QED
  BY <1>2, <1>3, <1>4, CollectorBounds

(* A collection that ends leaves what it knew of the parts behind.         *)
LEMMA CollectionRests ==
  ASSUME CollectorInv, NEW c \in Collectors, Rests(c), UNCHANGED logVars,
         \A d \in Collectors : d # c => collector[d] = "idle",
         memorySeq' \in Nat, memorySeq' < serial,
         waived \subseteq waived', waived' \subseteq Facts, skipped' \subseteq Facts,
         taken' \in [Facts -> Nat],
         \A e \in Facts : taken'[e] > 0 /\ e \notin waived' =>
            taken'[e] = 1 /\ place[e] \in 1..memorySeq',
         NothingPassedOver'
  PROVE  CollectorInv'
<1>1. place' = place /\ serial' = serial /\ filed' = filed
  BY DEF logVars
<1>2. LogKnown'
  <2> DEFINE P == {e \in Facts : place[e] # 0}
  <2>1. /\ Cardinality(waived) \in Nat /\ Cardinality(waived') \in Nat
        /\ Cardinality(waived) <= Cardinality(waived')
    BY WaivedGrows DEF CollectorInv, LogKnown
  <2>2. Cardinality(P) \in Nat
    BY PlacedCount
  <2>3. serial <= 1 + Cardinality(P) + Cardinality(waived) /\ serial \in Nat
    BY DEF CollectorInv, LogKnown
  <2>4. serial <= 1 + Cardinality(P) + Cardinality(waived')
    BY <2>1, <2>2, <2>3
  <2>5. {e \in Facts : place'[e] # 0} = P
    BY <1>1
  <2> HIDE DEF P
  <2>6. (serial <= 1 + Cardinality({e \in Facts : place[e] # 0}) + Cardinality(waived))'
    BY <2>4, <2>5, <1>1
  <2> QED
    BY <1>1, <2>6 DEF CollectorInv, LogKnown
<1>3. \A d \in Collectors : collector'[d] = "idle"
  BY DEF Rests, CollectorInv, OneCollects
<1>4. OneCollects'
  <2>1. collecting' \in BOOLEAN
    BY DEF Rests
  <2>2. collector' \in [Collectors -> {"idle", "begun", "marked", "bounded", "loaded", "read"}]
    BY DEF Rests, CollectorInv, OneCollects
  <2>3. serial \in Nat \ {0}
    BY DEF CollectorInv, LogKnown
  <2>4. /\ behind' \in [Collectors -> Nat] /\ upto' \in [Collectors -> Nat]
        /\ \A d \in Collectors : behind'[d] < serial /\ upto'[d] < serial
    BY <2>3 DEF Rests, CollectorInv, OneCollects
  <2> QED
    BY <1>1, <1>3, <2>1, <2>2, <2>4 DEF OneCollects
<1>5. PartsKnown'
  <2>1. <<>> \in PartList
    BY DEF PartList
  <2>2. parts' \in [Collectors -> PartList]
    BY <2>1 DEF CollectorInv, PartsKnown, Rests
  <2> QED
    BY <2>2, <1>3 DEF PartsKnown
<1>6. TakenKnown'
  BY <1>1 DEF TakenKnown
<1> QED
  BY <1>2, <1>4, <1>5, <1>6 DEF CollectorInv

(* A step outside the collection: parts, watermark and reads stay.         *)
LEMMA InsertStep ==
  ASSUME CollectorInv, NEW e \in Facts, TakeSeq(e) PROVE CollectorInv'
<1> USE DEF CollectorInv
<1>1. /\ e \notin filed /\ place[e] = 0 /\ place' = [place EXCEPT ![e] = serial] /\ serial' = serial + 1
      /\ UNCHANGED <<filed, memorySeq, collecting, collector, behind, upto, parts, pastVars>>
  BY DEF TakeSeq, LogKnown
<1>2. \A f \in Facts : place'[f] = IF f = e THEN serial ELSE place[f]
  BY <1>1 DEF LogKnown
<1>3. LogKnown'
  <2> DEFINE P == {f \in Facts : place[f] # 0}
  <2>1. {f \in Facts : place'[f] # 0} = P \union {e} /\ e \notin P
    BY <1>1, <1>2 DEF LogKnown
  <2>2. Cardinality(P \union {e}) = Cardinality(P) + 1 /\ Cardinality(P) \in Nat
    BY <2>1, PlacedCount
  <2>3. Cardinality(waived) \in Nat
    BY PlacedCount DEF LogKnown
  <2>4. serial <= 1 + Cardinality(P) + Cardinality(waived) /\ serial \in Nat
    BY DEF LogKnown
  <2> HIDE DEF P
  <2>5. serial + 1 <= 1 + Cardinality(P \union {e}) + Cardinality(waived)
    BY <2>2, <2>3, <2>4
  <2>6. (serial <= 1 + Cardinality({f \in Facts : place[f] # 0}) + Cardinality(waived))'
    BY <2>1, <2>5, <1>1 DEF pastVars
  <2>7. /\ place' \in [Facts -> Nat] /\ serial' \in Nat \ {0} /\ filed' \subseteq Facts
        /\ waived' \subseteq Facts /\ skipped' \subseteq Facts
    BY <1>1 DEF LogKnown, pastVars
  <2>8. \A f \in Facts : place'[f] < serial'
    BY <1>1, <1>2 DEF LogKnown
  <2>9. \A f, g \in Facts : place'[f] # 0 /\ f # g => place'[f] # place'[g]
    BY <1>1, <1>2 DEF LogKnown
  <2>10. \A f \in filed' : place'[f] # 0
    BY <1>1, <1>2 DEF LogKnown
  <2> QED
    BY <2>6, <2>7, <2>8, <2>9, <2>10 DEF LogKnown
<1>4. OneCollects'
  BY <1>1 DEF OneCollects, LogKnown
<1>5. \A f \in filed : f # e /\ place'[f] = place[f]
  BY <1>1, <1>2 DEF LogKnown
<1>6. PartsKnown'
  <2> SUFFICES ASSUME NEW c \in Collectors, collector[c] \in {"loaded", "read"}
               PROVE  PartsInLog(parts[c], upto[c])' /\ PartsCover(parts[c])'
    BY <1>1 DEF PartsKnown, PartsApart, PartsUnread, pastVars
  <2>1. PartsInLog(parts[c], upto[c]) /\ PartsCover(parts[c]) /\ parts[c] \in PartList
    BY DEF PartsKnown
  <2>2. ASSUME NEW i \in DOMAIN parts[c], NEW f \in parts[c][i].of
        PROVE  f \in waived \/ place'[f] \in 1..parts[c][i].upTo
    <3>1. f \in Facts /\ (f \in waived \/ place[f] \in 1..parts[c][i].upTo)
      BY <2>1, PartIs DEF PartsInLog
    <3> QED
      BY <3>1, <1>1, <1>2
  <2>3. PartsInLog(parts[c], upto[c])'
    BY <2>1, <2>2, <1>1 DEF PartsInLog, pastVars
  <2>4. PartsCover(parts[c])'
    BY <2>1, <1>1, <1>5 DEF PartsCover, pastVars
  <2> QED
    BY <2>3, <2>4
<1>7. TakenKnown'
  <2> SUFFICES ASSUME NEW f \in Facts, taken[f] > 0, f \notin waived
               PROVE  /\ taken[f] = 1
                      /\ \/ place'[f] \in 1..memorySeq
                         \/ \E c \in Collectors : collector[c] = "read" /\ f \in parts[c][1].of
    BY <1>1 DEF TakenKnown, pastVars
  <2>1. taken[f] = 1
    BY DEF TakenKnown
  <2>2. CASE place[f] \in 1..memorySeq
    BY <2>1, <2>2, <1>1, <1>2
  <2>3. CASE \E c \in Collectors : collector[c] = "read" /\ f \in parts[c][1].of
    BY <2>1, <2>3
  <2> QED
    BY <2>2, <2>3 DEF TakenKnown
<1>8. NothingPassedOver'
  BY <1>1, <1>5 DEF NothingPassedOver, pastVars
<1> QED
  BY <1>3, <1>4, <1>6, <1>7, <1>8

(* A row that is committed behind the watermark, or behind a collection    *)
(* that has loaded, is late.                                               *)
LEMMA CommitStep ==
  ASSUME CollectorInv, NEW e \in Facts, CommitRow(e) PROVE CollectorInv'
<1> USE DEF CollectorInv
<1>1. /\ place[e] # 0 /\ e \notin filed /\ filed' = filed \union {e}
      /\ skipped' = IF place[e] <= memorySeq \/ Passed(e) THEN skipped \union {e} ELSE skipped
      /\ UNCHANGED <<place, serial, memorySeq, collecting, collector, behind, upto, parts, taken, waived>>
  BY DEF CommitRow
<1>2. LogKnown'
  <2>1. Cardinality({f \in Facts : place[f] # 0})' = Cardinality({f \in Facts : place[f] # 0})
    BY <1>1
  <2>2. (serial <= 1 + Cardinality({f \in Facts : place[f] # 0}) + Cardinality(waived))'
    BY <1>1 DEF LogKnown
  <2> QED
    BY <1>1, <2>2 DEF LogKnown
<1>3. OneCollects'
  BY <1>1 DEF OneCollects
<1>4. PartsKnown'
  <2> SUFFICES ASSUME NEW c \in Collectors, collector[c] \in {"loaded", "read"}
               PROVE  PartsCover(parts[c])'
                        /\ (collector[c] = "read" =>
                              \A f \in parts[c][1].of : taken[f] > 0 \/ f \in skipped')
    BY <1>1 DEF PartsKnown, PartsApart, PartsUnread, PartsInLog
  <2>1. /\ PartsInLog(parts[c], upto[c]) /\ PartsCover(parts[c]) /\ parts[c] \in PartList
        /\ collector[c] = "read" => \A f \in parts[c][1].of : taken[f] > 0 \/ f \in skipped
    BY DEF PartsKnown
  <2>2. skipped \subseteq skipped'
    BY <1>1
  <2>3. ASSUME NEW i \in DOMAIN parts[c], place[e] <= parts[c][i].upTo PROVE e \in skipped'
    <3>1. parts[c][i].upTo <= upto[c]
      BY <2>1 DEF PartsInLog
    <3>2. parts[c][i].upTo \in Nat
      BY <2>1, PartIs
    <3>3. upto[c] \in Nat /\ place[e] \in Nat
      BY DEF OneCollects, LogKnown
    <3>4. place[e] <= upto[c]
      BY <3>1, <3>2, <3>3, <2>3
    <3> QED
      BY <3>4, <1>1 DEF Passed
  <2>4. PartsCover(parts[c])'
    BY <2>1, <2>2, <2>3, <1>1 DEF PartsCover
  <2> QED
    BY <2>1, <2>2, <2>4
<1>5. TakenKnown'
  BY <1>1 DEF TakenKnown
<1>6. NothingPassedOver'
  BY <1>1 DEF NothingPassedOver
<1> QED
  BY <1>2, <1>3, <1>4, <1>5, <1>6

(* A row that moves is behind whatever a collection has in hand.           *)
LEMMA MoveStep ==
  ASSUME CollectorInv, NEW e \in Facts, MoveRow(e) PROVE CollectorInv'
<1> USE DEF CollectorInv
<1>1. /\ e \in filed /\ e \notin waived /\ place' = [place EXCEPT ![e] = serial] /\ serial' = serial + 1
      /\ waived' = waived \union {e}
      /\ UNCHANGED <<filed, memorySeq, collecting, collector, behind, upto, parts, taken, skipped>>
  BY DEF MoveRow
<1>2. \A f \in Facts : place'[f] = IF f = e THEN serial ELSE place[f]
  BY <1>1 DEF LogKnown
<1>3. LogKnown'
  <2> DEFINE P == {f \in Facts : place[f] # 0}
  <2>1. {f \in Facts : place'[f] # 0} = P
    BY <1>1, <1>2 DEF LogKnown
  <2>2. Cardinality(waived \union {e}) = Cardinality(waived) + 1 /\ Cardinality(waived) \in Nat
    BY <1>1, PlacedCount DEF LogKnown
  <2>3. Cardinality(P) \in Nat
    BY PlacedCount
  <2>4. serial <= 1 + Cardinality(P) + Cardinality(waived) /\ serial \in Nat
    BY DEF LogKnown
  <2> HIDE DEF P
  <2>5. serial + 1 <= 1 + Cardinality(P) + Cardinality(waived \union {e})
    BY <2>2, <2>3, <2>4
  <2>6. (serial <= 1 + Cardinality({f \in Facts : place[f] # 0}) + Cardinality(waived))'
    BY <2>1, <2>5, <1>1
  <2>7. /\ place' \in [Facts -> Nat] /\ serial' \in Nat \ {0} /\ filed' \subseteq Facts
        /\ waived' \subseteq Facts /\ skipped' \subseteq Facts
    BY <1>1 DEF LogKnown
  <2>8. \A f \in Facts : place'[f] < serial'
    BY <1>1, <1>2 DEF LogKnown
  <2>9. \A f, g \in Facts : place'[f] # 0 /\ f # g => place'[f] # place'[g]
    BY <1>1, <1>2 DEF LogKnown
  <2>10. \A f \in filed' : place'[f] # 0
    BY <1>1, <1>2 DEF LogKnown
  <2> QED
    BY <2>6, <2>7, <2>8, <2>9, <2>10 DEF LogKnown
<1>4. OneCollects'
  BY <1>1 DEF OneCollects, LogKnown
<1>5. memorySeq \in Nat /\ serial \in Nat /\ memorySeq < serial
  BY DEF OneCollects, LogKnown
<1>6. PartsKnown'
  <2> SUFFICES ASSUME NEW c \in Collectors, collector[c] \in {"loaded", "read"}
               PROVE  PartsInLog(parts[c], upto[c])' /\ PartsCover(parts[c])'
                        /\ PartsUnread(parts[c], collector[c])'
    BY <1>1 DEF PartsKnown, PartsApart
  <2>1. /\ PartsInLog(parts[c], upto[c]) /\ PartsCover(parts[c]) /\ parts[c] \in PartList
        /\ PartsUnread(parts[c], collector[c])
    BY DEF PartsKnown
  <2>2. upto[c] \in Nat /\ upto[c] < serial
    BY DEF OneCollects
  <2>3. \A i \in DOMAIN parts[c] : /\ parts[c][i].of \subseteq Facts /\ parts[c][i].upTo \in Nat
                                   /\ parts[c][i].upTo < serial
    <3> SUFFICES ASSUME NEW i \in DOMAIN parts[c]
                 PROVE  /\ parts[c][i].of \subseteq Facts /\ parts[c][i].upTo \in Nat
                        /\ parts[c][i].upTo < serial
      OBVIOUS
    <3>1. parts[c][i].of \subseteq Facts /\ parts[c][i].upTo \in Nat
      BY <2>1, PartIs
    <3>2. parts[c][i].upTo <= upto[c]
      BY <2>1 DEF PartsInLog
    <3> QED
      BY <3>1, <3>2, <2>2, <1>5
  <2>4. PartsInLog(parts[c], upto[c])'
    BY <2>1, <2>3, <1>1, <1>2 DEF PartsInLog
  <2>5. PartsUnread(parts[c], collector[c])'
    BY <2>1, <1>1 DEF PartsUnread
  <2>6. \A f \in filed : f \in Facts
    BY DEF LogKnown
  <2>7. ASSUME NEW i \in DOMAIN parts[c] PROVE ~(serial <= parts[c][i].upTo)
    BY <2>3, <1>5
  <2>8. PartsCover(parts[c])'
    BY <2>1, <2>6, <2>7, <1>1, <1>2 DEF PartsCover
  <2> QED
    BY <2>4, <2>5, <2>8
<1>7. TakenKnown'
  BY <1>1, <1>2 DEF TakenKnown
<1>8. NothingPassedOver'
  BY <1>1, <1>2, <1>5 DEF NothingPassedOver, LogKnown
<1> QED
  BY <1>3, <1>4, <1>6, <1>7, <1>8

-----------------------------------------------------------------------------
(* A collection that has no parts yet, before and after the step.          *)
LEMMA EarlyStep ==
  ASSUME CollectorInv, NEW c \in Collectors, UNCHANGED <<logVars, memorySeq, parts, pastVars>>,
         collector[c] \in {"idle", "begun", "marked"}, OneCollects',
         \A d \in Collectors : d # c => collector[d] = "idle" /\ collector'[d] = "idle",
         collector'[c] \in {"begun", "marked", "bounded"}
  PROVE  CollectorInv'
<1>1. /\ UNCHANGED <<place, serial, filed, memorySeq, parts, taken, waived, skipped>>
  BY DEF logVars, pastVars
<1>2. LogKnown'
  <2>1. {f \in Facts : place[f] # 0}' = {f \in Facts : place[f] # 0}
    BY <1>1
  <2>2. (serial <= 1 + Cardinality({f \in Facts : place[f] # 0}) + Cardinality(waived))'
    BY <1>1, <2>1 DEF CollectorInv, LogKnown
  <2> QED
    BY <1>1, <2>2 DEF CollectorInv, LogKnown
<1>3. \A d \in Collectors : collector'[d] \notin {"loaded", "read"} /\ collector[d] \notin {"loaded", "read"}
  OBVIOUS
<1>4. PartsKnown'
  BY <1>1, <1>3 DEF CollectorInv, PartsKnown
<1>5. TakenKnown' /\ NothingPassedOver'
  BY <1>1, <1>3 DEF CollectorInv, TakenKnown, NothingPassedOver
<1> QED
  BY <1>2, <1>4, <1>5 DEF CollectorInv

(* A collection begins when none goes on.                                  *)
LEMMA BeginStep ==
  ASSUME CollectorInv, NEW c \in Collectors, BeginCollect(c) PROVE CollectorInv'
<1>1. /\ ~collecting /\ collecting' = TRUE /\ collector' = [collector EXCEPT ![c] = "begun"]
      /\ UNCHANGED <<logVars, memorySeq, behind, upto, parts, pastVars>>
  BY DEF BeginCollect
<1>2. \A d \in Collectors : collector[d] = "idle" /\ collector'[d] = IF d = c THEN "begun" ELSE "idle"
  BY <1>1 DEF CollectorInv, OneCollects
<1>3. OneCollects'
  BY <1>1, <1>2 DEF CollectorInv, OneCollects, logVars
<1> QED
  BY <1>1, <1>2, <1>3, EarlyStep

(* It reads the watermark, which nobody else moves meanwhile.              *)
LEMMA WatermarkStep ==
  ASSUME CollectorInv, NEW c \in Collectors, ReadWatermark(c) PROVE CollectorInv'
<1>1. /\ collector[c] = "begun" /\ behind' = [behind EXCEPT ![c] = memorySeq]
      /\ collector' = [collector EXCEPT ![c] = "marked"]
      /\ UNCHANGED <<logVars, memorySeq, collecting, upto, parts, pastVars>>
  BY DEF ReadWatermark
<1>2. \A d \in Collectors : (d # c => collector[d] = "idle")
                            /\ collector'[d] = IF d = c THEN "marked" ELSE "idle"
  BY <1>1 DEF CollectorInv, OneCollects
<1>3. OneCollects'
  BY <1>1, <1>2 DEF CollectorInv, OneCollects, logVars
<1> QED
  BY <1>1, <1>2, <1>3, EarlyStep

(* It reads how far the log goes, or rests.                                *)
LEMMA MaxSeqStep ==
  ASSUME CollectorInv, NEW c \in Collectors, ReadMaxSeq(c) PROVE CollectorInv'
<1>1. /\ collector[c] = "marked"
      /\ UNCHANGED <<logVars, memorySeq, failures, relaunches, pastVars>>
  BY DEF ReadMaxSeq
<1>2. \A d \in Collectors : d # c => collector[d] = "idle"
  BY <1>1 DEF CollectorInv, OneCollects
<1>3. UNCHANGED <<place, serial, filed, memorySeq, taken, waived, skipped>>
  BY <1>1 DEF logVars, pastVars
<1>4. CASE Rests(c)
  <2>1. \A d \in Collectors : collector[d] # "read"
    BY <1>1, <1>2
  <2>2. \A e \in Facts : taken'[e] > 0 /\ e \notin waived' => taken'[e] = 1 /\ place[e] \in 1..memorySeq'
    BY <1>3, <2>1 DEF CollectorInv, TakenKnown
  <2>3. /\ memorySeq' \in Nat /\ memorySeq' < serial /\ waived \subseteq waived' /\ waived' \subseteq Facts
        /\ skipped' \subseteq Facts /\ taken' \in [Facts -> Nat] /\ NothingPassedOver'
    BY <1>3 DEF CollectorInv, LogKnown, OneCollects, PartsKnown, NothingPassedOver
  <2> QED
    BY <1>1, <1>2, <1>4, <2>2, <2>3, CollectionRests
<1>5. CASE /\ SeqsBehind(behind[c]) # {}
           /\ upto' = [upto EXCEPT ![c] = Max(SeqsBehind(behind[c]))]
           /\ collector' = [collector EXCEPT ![c] = "bounded"]
           /\ UNCHANGED <<collecting, behind, parts>>
  <2> DEFINE S == SeqsBehind(behind[c])
  <2>1. serial - 1 \in Nat /\ S \in SUBSET (0..(serial - 1))
    BY DEF CollectorInv, LogKnown, SeqsBehind
  <2>2. Max(S) \in 0..(serial - 1)
    <3> HIDE DEF S
    <3>1. Max(S) \in S
      BY <2>1, <1>5, MaxIs DEF S
    <3> QED
      BY <2>1, <3>1
  <2> HIDE DEF S
  <2>3. Max(S) \in Nat /\ Max(S) < serial
    <3>1. serial \in Nat
      BY DEF CollectorInv, LogKnown
    <3> QED
      BY <2>2, <3>1
  <2>4. upto' = [upto EXCEPT ![c] = Max(S)]
    BY <1>5 DEF S
  <2>5. \A d \in Collectors : collector'[d] = IF d = c THEN "bounded" ELSE "idle"
    BY <1>2, <1>5 DEF CollectorInv, OneCollects
  <2>6. OneCollects'
    BY <1>1, <1>3, <1>5, <2>3, <2>4, <2>5 DEF CollectorInv, OneCollects
  <2> QED
    BY <1>1, <1>2, <1>5, <2>5, <2>6, EarlyStep
<1> QED
  BY <1>4, <1>5 DEF ReadMaxSeq

(* The events of a collection in the order of the log.                     *)
LEMMA DeltaInOrder ==
  ASSUME CollectorInv, NEW c \in Collectors
  PROVE  LET q == InLogOrder(Delta(c)) IN
         /\ Delta(c) \subseteq filed /\ filed \subseteq Facts
         /\ q \in Seq(Facts) /\ ToSet(q) = Delta(c)
         /\ \A i, j \in DOMAIN q : i < j => place[q[i]] < place[q[j]]
<1> DEFINE D == Delta(c)
<1>1. D \subseteq filed /\ filed \subseteq Facts /\ place \in [Facts -> Nat]
  BY DEF Delta, CollectorInv, LogKnown
<1>2. \A e, f \in D : e # f => place[e] # place[f]
  BY <1>1 DEF CollectorInv, LogKnown
<1> HIDE DEF D
<1>3. IsFiniteSet(D) /\ D \in SUBSET Facts
  BY <1>1, PlacedCount
<1> DEFINE q == InLogOrder(D)
<1>4. /\ \E s : s \in InOrder(place, D)
      /\ \A s \in InOrder(place, D) : s \in Seq(D) /\ ToSet(s) = D
  BY <1>1, <1>2, <1>3, InOrderOf
<1>5. q \in InOrder(place, D)
  BY <1>4 DEF InLogOrder, InOrder
<1> HIDE DEF q
<1>6. q \in Seq(D) /\ ToSet(q) = D
  BY <1>4, <1>5
<1>7. q \in Seq(Facts)
  BY <1>6, <1>3, WiderSeq
<1> QED
  BY <1>1, <1>5, <1>6, <1>7 DEF q, D, InOrder

(* It loads the events between; those behind the watermark it read were    *)
(* dealt with, so what it loads nobody has read.                           *)
LEMMA LoadStep ==
  ASSUME CollectorInv, NEW c \in Collectors, LoadEvents(c) PROVE CollectorInv'
<1> DEFINE q == InLogOrder(Delta(c))
           cuts == SplitEvents(q, upto[c])
<1>1. /\ collector[c] = "bounded" /\ behind[c] = memorySeq
      /\ UNCHANGED <<logVars, failures, relaunches, taken, waived>>
  BY DEF LoadEvents, CollectorInv, OneCollects
<1>2. \A d \in Collectors : d # c => collector[d] = "idle"
  BY <1>1 DEF CollectorInv, OneCollects
<1>3. UNCHANGED <<place, serial, filed, taken, waived>>
  BY <1>1 DEF logVars
<1>4. /\ Delta(c) \subseteq filed /\ filed \subseteq Facts /\ q \in Seq(Facts) /\ ToSet(q) = Delta(c)
      /\ \A i, j \in DOMAIN q : i < j => place[q[i]] < place[q[j]]
  BY DeltaInOrder
<1>5. /\ place \in [Facts -> Nat] /\ memorySeq \in Nat /\ memorySeq < serial /\ serial \in Nat
      /\ upto[c] \in Nat /\ upto[c] < serial
  BY DEF CollectorInv, LogKnown, OneCollects
<1>6. Delta(c) = {e \in filed : memorySeq < place[e] /\ place[e] <= upto[c]}
  BY <1>1 DEF Delta
<1>7. \A e \in Facts : taken[e] > 0 /\ e \notin waived => taken[e] = 1 /\ place[e] \in 1..memorySeq
  BY <1>1, <1>2 DEF CollectorInv, TakenKnown
<1>8. \A e \in filed : place[e] <= memorySeq => taken[e] > 0 \/ e \in skipped
  BY DEF CollectorInv, NothingPassedOver
<1>9. CASE Advance(upto[c]) /\ Rests(c) /\ skipped' = skipped \union Delta(c)
  <2>1. memorySeq' = IF upto[c] <= memorySeq THEN memorySeq ELSE upto[c]
    BY <1>5, <1>9, OfTwo DEF Advance
  <2>2. memorySeq' \in Nat /\ memorySeq' < serial /\ memorySeq <= memorySeq'
    BY <1>5, <2>1
  <2>3. \A e \in Facts : taken'[e] > 0 /\ e \notin waived' => taken'[e] = 1 /\ place[e] \in 1..memorySeq'
    BY <1>3, <1>5, <1>7, <2>2
  <2>4. ASSUME NEW e \in filed, place[e] <= memorySeq' PROVE taken[e] > 0 \/ e \in skipped'
    <3>1. place[e] \in Nat
      BY <1>4, <1>5
    <3>2. CASE place[e] <= memorySeq
      BY <1>8, <1>9, <3>2
    <3>3. CASE memorySeq < place[e]
      BY <1>5, <1>6, <1>9, <2>1, <2>4, <3>1, <3>3
    <3> QED
      BY <3>1, <3>2, <3>3, <1>5
  <2>5. NothingPassedOver'
    BY <1>3, <2>4 DEF NothingPassedOver
  <2>6. waived \subseteq waived' /\ waived' \subseteq Facts /\ skipped' \subseteq Facts /\ taken' \in [Facts -> Nat]
    BY <1>3, <1>4, <1>9 DEF CollectorInv, LogKnown, PartsKnown
  <2> QED
    BY <1>1, <1>2, <1>9, <2>2, <2>3, <2>5, <2>6, CollectionRests
<1>10. CASE /\ Delta(c) \intersect Said # {}
            /\ parts' = [parts EXCEPT ![c] = cuts]
            /\ skipped' = skipped \union (Delta(c) \ Covered(cuts))
            /\ collector' = [collector EXCEPT ![c] = "loaded"]
            /\ UNCHANGED <<memorySeq, collecting, behind, upto>>
  <2>1. q # <<>> /\ \A e \in ToSet(q) : place[e] <= upto[c]
    <3>1. ToSet(q) # {} /\ \A e \in ToSet(q) : place[e] <= upto[c]
      BY <1>4, <1>6, <1>10
    <3>2. ToSet(<<>>) = {}
      BY DEF ToSet
    <3> QED
      BY <3>1, <3>2
  <2>2. /\ cuts \in PartList /\ cuts # <<>>
        /\ \A i \in DOMAIN cuts : /\ cuts[i].upTo <= upto[c]
                                  /\ \A e \in cuts[i].of : e \in ToSet(q) /\ place[e] <= cuts[i].upTo
        /\ \A i, j \in DOMAIN cuts : \A e \in cuts[j].of : place[e] <= cuts[i].upTo => j <= i
    <3> HIDE DEF q
    <3> QED
      BY <1>4, <1>5, <2>1, SplitIs
  <2> HIDE DEF cuts
  <2>k. \A i \in DOMAIN cuts : cuts[i].of \subseteq Facts /\ cuts[i].upTo \in Nat
    BY <2>2, PartIs
  <2>d. \A i, j \in DOMAIN cuts : i \in Nat /\ j \in Nat
    BY <2>2 DEF PartList
  <2>3. PartsApart(cuts)
    <3> SUFFICES ASSUME NEW i \in DOMAIN cuts, NEW j \in DOMAIN cuts, NEW e \in cuts[i].of, e \in cuts[j].of
                 PROVE  i = j
      BY DEF PartsApart
    <3>1. place[e] <= cuts[i].upTo /\ place[e] <= cuts[j].upTo
      BY <2>2
    <3>2. i <= j /\ j <= i
      BY <2>2, <3>1
    <3> QED
      BY <3>2, <2>d
  <2>4. PartsInLog(cuts, upto[c])
    <3> SUFFICES ASSUME NEW i \in DOMAIN cuts, NEW e \in cuts[i].of PROVE place[e] \in 1..cuts[i].upTo
      BY <2>2 DEF PartsInLog
    <3>1. e \in Delta(c) /\ place[e] <= cuts[i].upTo
      BY <2>2, <1>4
    <3>2. place[e] \in Nat /\ memorySeq < place[e] /\ cuts[i].upTo \in Nat
      BY <3>1, <1>4, <1>5, <1>6, <2>k
    <3> QED
      BY <3>1, <3>2, <1>5
  <2>5. PartsUnread(cuts, "loaded")
    <3> SUFFICES ASSUME NEW i \in DOMAIN cuts, NEW e \in cuts[i].of, e \notin waived PROVE taken[e] = 0
      BY DEF PartsUnread
    <3>1. e \in Facts /\ place[e] \in Nat /\ memorySeq < place[e]
      BY <2>2, <1>4, <1>5, <1>6
    <3>2. ~(taken[e] > 0)
      BY <1>5, <1>7, <3>1
    <3>3. taken[e] \in Nat
      BY <3>1 DEF CollectorInv, PartsKnown
    <3> QED
      BY <3>2, <3>3
  <2>6. ASSUME NEW i \in DOMAIN cuts, NEW e \in filed, place[e] <= cuts[i].upTo
        PROVE  taken[e] > 0 \/ e \in skipped' \/ \E j \in DOMAIN cuts : j <= i /\ e \in cuts[j].of
    <3>1. place[e] \in Nat /\ place[e] <= upto[c]
      BY <2>6, <1>4, <1>5, <2>2, <2>k
    <3>2. CASE place[e] <= memorySeq
      BY <1>8, <1>10, <3>2
    <3>3. CASE memorySeq < place[e] /\ e \notin Covered(cuts)
      <4>1. e \in Delta(c)
        BY <1>6, <3>1, <3>3
      <4> QED
        BY <4>1, <1>10, <3>3
    <3>4. CASE e \in Covered(cuts)
      <4>1. PICK j \in DOMAIN cuts : e \in cuts[j].of
        BY <3>4 DEF Covered
      <4> QED
        BY <4>1, <2>2, <2>6
    <3> QED
      BY <3>1, <3>2, <3>3, <3>4, <1>5
  <2> HIDE DEF q
  <2>7. \A d \in Collectors : collector'[d] = IF d = c THEN "loaded" ELSE "idle"
    BY <1>2, <1>10 DEF CollectorInv, OneCollects
  <2>8. LogKnown'
    <3>1. {f \in Facts : place[f] # 0}' = {f \in Facts : place[f] # 0}
      BY <1>3
    <3>2. (serial <= 1 + Cardinality({f \in Facts : place[f] # 0}) + Cardinality(waived))'
      BY <1>3, <3>1 DEF CollectorInv, LogKnown
    <3> QED
      BY <1>3, <1>4, <1>10, <3>2 DEF CollectorInv, LogKnown
  <2>9. OneCollects'
    BY <1>1, <1>3, <1>10, <2>7 DEF CollectorInv, OneCollects
  <2>10. parts'[c] = cuts /\ parts' \in [Collectors -> PartList]
    BY <1>10, <2>2 DEF CollectorInv, PartsKnown
  <2>11. PartsKnown'
    <3>1. PartsApart(parts[c])' /\ PartsInLog(parts[c], upto[c])'
      BY <2>3, <2>4, <2>10, <1>3, <1>10 DEF PartsApart, PartsInLog
    <3>2. PartsUnread(parts[c], collector[c])'
      BY <2>5, <2>7, <2>10, <1>3 DEF PartsUnread
    <3>3. PartsCover(parts[c])'
      BY <2>6, <2>10, <1>3 DEF PartsCover
    <3>4. taken' \in [Facts -> Nat]
      BY <1>3 DEF CollectorInv, PartsKnown
    <3> QED
      BY <2>2, <2>7, <2>10, <3>1, <3>2, <3>3, <3>4 DEF PartsKnown
  <2>12. TakenKnown'
    BY <1>3, <1>7, <1>10 DEF TakenKnown
  <2>13. NothingPassedOver'
    BY <1>3, <1>8, <1>10 DEF NothingPassedOver
  <2> QED
    BY <2>8, <2>9, <2>11, <2>12, <2>13 DEF CollectorInv
<1> QED
  BY <1>9, <1>10 DEF LoadEvents

-----------------------------------------------------------------------------
(* Where a collection stands that has parts to read: no other is begun,    *)
(* its first part is Head(parts[c]).                                       *)
LEMMA PartsAt ==
  ASSUME CollectorInv, NEW c \in Collectors, collector[c] \in {"loaded", "read"}
  PROVE  /\ \A d \in Collectors : d # c => collector[d] = "idle"
         /\ parts[c] \in PartList /\ parts[c] # <<>> /\ Head(parts[c]) = parts[c][1]
         /\ 1 \in DOMAIN parts[c] /\ \A i \in DOMAIN parts[c] : i \in Nat \ {0}
         /\ parts[c][1].of \subseteq Facts /\ parts[c][1].upTo \in Nat
         /\ parts[c][1].upTo <= upto[c] /\ upto[c] \in Nat /\ upto[c] < serial /\ serial \in Nat
         /\ PartsApart(parts[c]) /\ PartsInLog(parts[c], upto[c])
         /\ PartsUnread(parts[c], collector[c]) /\ PartsCover(parts[c])
         /\ collector[c] = "read" => \A e \in parts[c][1].of : taken[e] > 0 \/ e \in skipped
<1>1. \A d \in Collectors : d # c => collector[d] = "idle"
  BY DEF CollectorInv, OneCollects
<1>2. /\ parts[c] \in PartList /\ parts[c] # <<>>
      /\ PartsApart(parts[c]) /\ PartsInLog(parts[c], upto[c])
      /\ PartsUnread(parts[c], collector[c]) /\ PartsCover(parts[c])
      /\ collector[c] = "read" => \A e \in parts[c][1].of : taken[e] > 0 \/ e \in skipped
  BY DEF CollectorInv, PartsKnown
<1>3. /\ Head(parts[c]) = parts[c][1] /\ 1 \in DOMAIN parts[c]
      /\ \A i \in DOMAIN parts[c] : i \in Nat \ {0}
  BY <1>2 DEF PartList
<1>4. parts[c][1].of \subseteq Facts /\ parts[c][1].upTo \in Nat
  BY <1>2, <1>3, PartIs
<1>5. parts[c][1].upTo <= upto[c] /\ upto[c] \in Nat /\ upto[c] < serial /\ serial \in Nat
  BY <1>2, <1>3 DEF PartsInLog, CollectorInv, OneCollects, LogKnown
<1> QED
  BY <1>1, <1>2, <1>3, <1>4, <1>5

(* The facts of the first part are applied, and of no other event.         *)
LEMMA TakenIsPart ==
  ASSUME CollectorInv, NEW c \in Collectors, collector[c] \in {"loaded", "read"}, TakePart(c)
  PROVE  /\ taken' \in [Facts -> Nat]
         /\ \A e \in Facts : taken'[e] = IF e \in parts[c][1].of THEN taken[e] + 1 ELSE taken[e]
<1>1. Head(parts[c]) = parts[c][1] /\ taken \in [Facts -> Nat]
  BY PartsAt DEF CollectorInv, PartsKnown
<1> QED
  BY <1>1 DEF TakePart

(* The first part is read, or given up.                                    *)
LEMMA ReadStep ==
  ASSUME CollectorInv, NEW c \in Collectors, ApplyReply(c) \/ GiveUpPart(c) PROVE CollectorInv'
<1> DEFINE P == parts[c][1].of
<1>1. /\ collector[c] = "loaded" /\ collector' = [collector EXCEPT ![c] = "read"]
      /\ UNCHANGED <<logVars, memorySeq, collecting, behind, upto, parts, waived>>
  BY DEF ApplyReply, GiveUpPart
<1>2. UNCHANGED <<place, serial, filed, memorySeq, collecting, behind, upto, parts, waived>>
  BY <1>1 DEF logVars
<1>3. /\ \A d \in Collectors : d # c => collector[d] = "idle"
      /\ parts[c] \in PartList /\ parts[c] # <<>> /\ Head(parts[c]) = parts[c][1]
      /\ 1 \in DOMAIN parts[c] /\ P \subseteq Facts
      /\ PartsApart(parts[c]) /\ PartsInLog(parts[c], upto[c])
      /\ PartsUnread(parts[c], "loaded") /\ PartsCover(parts[c])
  BY <1>1, PartsAt
<1>4. /\ taken \in [Facts -> Nat] /\ skipped \subseteq Facts /\ filed \subseteq Facts
  BY DEF CollectorInv, PartsKnown, LogKnown
<1>5. /\ taken' \in [Facts -> Nat] /\ skipped' \subseteq Facts /\ skipped \subseteq skipped'
      /\ \A e \in Facts : taken'[e] = taken[e] \/ (e \in P /\ taken'[e] = taken[e] + 1)
      /\ \A e \in P : taken'[e] > 0 \/ e \in skipped'
  <2>1. CASE ApplyReply(c)
    <3>1. skipped' = skipped /\ TakePart(c)
      BY <2>1 DEF ApplyReply
    <3>2. /\ taken' \in [Facts -> Nat]
          /\ \A e \in Facts : taken'[e] = IF e \in P THEN taken[e] + 1 ELSE taken[e]
      BY <1>1, <3>1, TakenIsPart
    <3>3. \A e \in P : taken'[e] > 0
      BY <1>3, <1>4, <3>2
    <3> HIDE DEF P
    <3> QED
      BY <1>4, <3>1, <3>2, <3>3
  <2>2. CASE GiveUpPart(c)
    <3>1. skipped' = skipped \union P /\ taken' = taken
      BY <2>2, <1>3 DEF GiveUpPart
    <3> HIDE DEF P
    <3> QED
      BY <1>3, <1>4, <3>1
  <2> QED
    BY <2>1, <2>2
<1>6. \A d \in Collectors : collector'[d] = IF d = c THEN "read" ELSE "idle"
  BY <1>1, <1>3 DEF CollectorInv, OneCollects
<1>7. \A e \in Facts : taken[e] \in Nat /\ taken'[e] \in Nat /\ (taken[e] > 0 => taken'[e] > 0)
  <2>1. \A e \in Facts : taken[e] \in Nat /\ taken'[e] \in Nat
    BY <1>4, <1>5
  <2> QED
    BY <2>1, <1>5
<1>8. LogKnown'
  <2>1. {f \in Facts : place[f] # 0}' = {f \in Facts : place[f] # 0}
    BY <1>2
  <2>2. (serial <= 1 + Cardinality({f \in Facts : place[f] # 0}) + Cardinality(waived))'
    BY <1>2, <2>1 DEF CollectorInv, LogKnown
  <2> QED
    BY <1>2, <1>5, <2>2 DEF CollectorInv, LogKnown
<1>9. OneCollects'
  BY <1>1, <1>2, <1>6 DEF CollectorInv, OneCollects
<1>10. PartsKnown'
  <2>1. PartsApart(parts[c])' /\ PartsInLog(parts[c], upto[c])'
    BY <1>2, <1>3 DEF PartsApart, PartsInLog
  <2>2. PartsUnread(parts[c], collector[c])'
    <3>1. ASSUME NEW i \in DOMAIN parts[c], i # 1, NEW e \in parts[c][i].of PROVE taken'[e] = 0 \/ e \in waived
      <4>1. e \in Facts /\ e \notin P
        BY <3>1, <1>3, PartIs DEF PartsApart
      <4>2. taken'[e] = taken[e]
        BY <4>1, <1>5
      <4> QED
        BY <3>1, <4>2, <1>3 DEF PartsUnread
    <3> QED
      BY <3>1, <1>2, <1>6 DEF PartsUnread
  <2>3. PartsCover(parts[c])'
    BY <1>2, <1>3, <1>4, <1>5, <1>7 DEF PartsCover
  <2>4. parts' \in [Collectors -> PartList]
    BY <1>2 DEF CollectorInv, PartsKnown
  <2>5. (\A e \in parts[c][1].of : taken[e] > 0 \/ e \in skipped)'
    BY <1>2, <1>5
  <2> QED
    BY <1>2, <1>3, <1>5, <1>6, <2>1, <2>2, <2>3, <2>4, <2>5 DEF PartsKnown
<1>11. TakenKnown'
  <2> SUFFICES ASSUME NEW e \in Facts, taken'[e] > 0, e \notin waived
               PROVE  taken'[e] = 1 /\ (place[e] \in 1..memorySeq \/ e \in P)
    BY <1>2, <1>6 DEF TakenKnown
  <2>1. CASE e \in P
    <3>1. taken[e] = 0
      BY <2>1, <1>3 DEF PartsUnread
    <3> QED
      BY <2>1, <3>1, <1>5
  <2>2. CASE e \notin P
    <3>1. taken'[e] = taken[e]
      BY <2>2, <1>5
    <3>2. \A d \in Collectors : collector[d] # "read"
      BY <1>1, <1>3
    <3> HIDE DEF P
    <3> QED
      BY <3>1, <3>2 DEF CollectorInv, TakenKnown
  <2> QED
    BY <2>1, <2>2
<1>12. NothingPassedOver'
  BY <1>2, <1>4, <1>5, <1>7 DEF CollectorInv, NothingPassedOver
<1> QED
  BY <1>8, <1>9, <1>10, <1>11, <1>12 DEF CollectorInv

(* A provider error: what was applied of the first part is known.          *)
LEMMA FailStep ==
  ASSUME CollectorInv, NEW c \in Collectors, ProviderFails(c) PROVE CollectorInv'
<1> DEFINE P == parts[c][1].of
<1>1. /\ collector[c] = "loaded" /\ Rests(c) /\ UNCHANGED <<logVars, memorySeq, skipped>>
      /\ \/ UNCHANGED <<taken, waived>>
         \/ TakePart(c) /\ waived' = waived \union Head(parts[c]).of
  BY DEF ProviderFails
<1>2. /\ \A d \in Collectors : d # c => collector[d] = "idle"
      /\ Head(parts[c]) = parts[c][1] /\ P \subseteq Facts
  BY <1>1, PartsAt
<1>3. /\ taken \in [Facts -> Nat] /\ skipped \subseteq Facts /\ waived \subseteq Facts /\ filed \subseteq Facts
      /\ memorySeq \in Nat /\ memorySeq < serial
  BY DEF CollectorInv, PartsKnown, LogKnown, OneCollects
<1>4. /\ taken' \in [Facts -> Nat] /\ waived \subseteq waived' /\ waived' \subseteq Facts
      /\ \A e \in Facts : taken'[e] = taken[e] \/ (e \in P /\ e \in waived' /\ taken'[e] = taken[e] + 1)
  <2>1. CASE UNCHANGED <<taken, waived>>
    BY <1>3, <2>1
  <2>2. CASE TakePart(c) /\ waived' = waived \union Head(parts[c]).of
    <3>1. /\ taken' \in [Facts -> Nat]
          /\ \A e \in Facts : taken'[e] = IF e \in P THEN taken[e] + 1 ELSE taken[e]
      BY <1>1, <2>2, TakenIsPart
    <3>2. waived' = waived \union P
      BY <1>2, <2>2
    <3> HIDE DEF P
    <3> QED
      BY <1>2, <1>3, <3>1, <3>2
  <2> QED
    BY <1>1, <2>1, <2>2
<1>5. \A d \in Collectors : collector[d] # "read"
  BY <1>1, <1>2
<1>6. \A e \in Facts : taken'[e] > 0 /\ e \notin waived' => taken'[e] = 1 /\ place[e] \in 1..memorySeq'
  BY <1>1, <1>4, <1>5 DEF CollectorInv, TakenKnown
<1>7. NothingPassedOver'
  <2>1. filed' = filed /\ place' = place /\ memorySeq' = memorySeq /\ skipped' = skipped
    BY <1>1 DEF logVars
  <2>2. \A e \in Facts : taken[e] > 0 => taken'[e] > 0
    BY <1>3, <1>4
  <2> QED
    BY <1>3, <2>1, <2>2 DEF CollectorInv, NothingPassedOver
<1> QED
  BY <1>1, <1>2, <1>3, <1>4, <1>6, <1>7, CollectionRests

(* The watermark passes the first part, all of which was dealt with.       *)
LEMMA AdvanceStep ==
  ASSUME CollectorInv, NEW c \in Collectors, AdvanceMemorySeq(c) PROVE CollectorInv'
<1> DEFINE P == parts[c][1].of
           w == parts[c][1].upTo
<1>1. /\ collector[c] = "read" /\ Advance(Head(parts[c]).upTo)
      /\ UNCHANGED <<logVars, pastVars>>
  BY DEF AdvanceMemorySeq
<1>2. UNCHANGED <<place, serial, filed, taken, waived, skipped>>
  BY <1>1 DEF logVars, pastVars
<1>3. /\ \A d \in Collectors : d # c => collector[d] = "idle"
      /\ parts[c] \in PartList /\ parts[c] # <<>> /\ Head(parts[c]) = parts[c][1]
      /\ 1 \in DOMAIN parts[c] /\ \A i \in DOMAIN parts[c] : i \in Nat \ {0}
      /\ P \subseteq Facts /\ w \in Nat
      /\ w <= upto[c] /\ upto[c] \in Nat /\ upto[c] < serial /\ serial \in Nat
      /\ PartsApart(parts[c]) /\ PartsInLog(parts[c], upto[c])
      /\ PartsUnread(parts[c], "read") /\ PartsCover(parts[c])
      /\ \A e \in P : taken[e] > 0 \/ e \in skipped
  BY <1>1, PartsAt
<1>4. /\ taken \in [Facts -> Nat] /\ skipped \subseteq Facts /\ waived \subseteq Facts /\ filed \subseteq Facts
      /\ memorySeq \in Nat /\ memorySeq < serial /\ place \in [Facts -> Nat]
  BY DEF CollectorInv, PartsKnown, LogKnown, OneCollects
<1>5. memorySeq' = IF w <= memorySeq THEN memorySeq ELSE w
  BY <1>1, <1>3, <1>4, OfTwo DEF Advance
<1>6. memorySeq' \in Nat /\ memorySeq' < serial /\ memorySeq <= memorySeq' /\ w <= memorySeq'
  BY <1>3, <1>4, <1>5
<1>7. \A e \in Facts : taken[e] > 0 /\ e \notin waived => taken[e] = 1 /\ place[e] \in 1..memorySeq'
  <2> SUFFICES ASSUME NEW e \in Facts, taken[e] > 0, e \notin waived
               PROVE  taken[e] = 1 /\ place[e] \in 1..memorySeq'
    OBVIOUS
  <2>1. taken[e] = 1 /\ (place[e] \in 1..memorySeq \/ e \in P)
    BY <1>1, <1>3 DEF CollectorInv, TakenKnown
  <2>2. e \in P => place[e] \in 1..w
    BY <1>3 DEF PartsInLog
  <2> HIDE DEF P, w
  <2> QED
    BY <2>1, <2>2, <1>3, <1>4, <1>6
<1>8. ASSUME NEW e \in filed, place[e] <= memorySeq' PROVE taken[e] > 0 \/ e \in skipped
  <2>1. CASE place[e] <= memorySeq
    BY <2>1 DEF CollectorInv, NothingPassedOver
  <2>2. CASE place[e] <= w
    <3>1. taken[e] > 0 \/ e \in skipped \/ \E j \in DOMAIN parts[c] : j <= 1 /\ e \in parts[c][j].of
      BY <2>2, <1>3 DEF PartsCover
    <3>2. \A j \in DOMAIN parts[c] : j <= 1 => j = 1
      BY <1>3
    <3> QED
      BY <3>1, <3>2, <1>3
  <2> QED
    BY <2>1, <2>2, <1>5, <1>8
<1>9. NothingPassedOver'
  BY <1>2, <1>8 DEF NothingPassedOver
<1>10. CASE Rests(c)
  <2>1. \A e \in Facts : taken'[e] > 0 /\ e \notin waived' => taken'[e] = 1 /\ place[e] \in 1..memorySeq'
    BY <1>2, <1>7
  <2>2. waived \subseteq waived' /\ waived' \subseteq Facts /\ skipped' \subseteq Facts /\ taken' \in [Facts -> Nat]
    BY <1>2, <1>4
  <2> QED
    BY <1>1, <1>3, <1>6, <1>9, <1>10, <2>1, <2>2, CollectionRests
<1>11. CASE /\ Len(parts[c]) # 1 /\ parts' = [parts EXCEPT ![c] = Tail(@)]
            /\ collector' = [collector EXCEPT ![c] = "loaded"]
            /\ UNCHANGED <<collecting, behind, upto>>
  <2> DEFINE ps == Tail(parts[c])
  <2>1. /\ ps \in PartList /\ ps # <<>>
        /\ \A i \in DOMAIN ps : i \in Nat \ {0} /\ i + 1 \in DOMAIN parts[c] /\ ps[i] = parts[c][i + 1]
        /\ \A j \in DOMAIN parts[c] : j # 1 => j - 1 \in DOMAIN ps /\ parts[c][j] = ps[j - 1]
    <3> DEFINE R == [of : SUBSET Facts, upTo : Nat]
               s == parts[c]
    <3>1. s \in Seq(R) /\ s # <<>> /\ Len(s) # 1
      BY <1>3, <1>11 DEF PartList
    <3> HIDE DEF R, s
    <3>2. /\ Tail(s) \in Seq(R) /\ Len(Tail(s)) = Len(s) - 1 /\ Len(s) \in Nat \ {0, 1}
          /\ \A i \in DOMAIN Tail(s) : i + 1 \in DOMAIN s /\ Tail(s)[i] = s[i + 1]
          /\ DOMAIN Tail(s) = 1..(Len(s) - 1) /\ DOMAIN s = 1..Len(s)
      BY <3>1
    <3>3. Tail(s) # <<>>
      <4>1. Len(Tail(s)) # 0
        BY <3>2
      <4>2. Len(<<>>) = 0
        OBVIOUS
      <4> QED
        BY ONLY <4>1, <4>2
    <3>4. \A i \in DOMAIN Tail(s) : i \in Nat \ {0}
      BY <3>2
    <3>5. ASSUME NEW j \in DOMAIN s, j # 1 PROVE j - 1 \in DOMAIN Tail(s) /\ s[j] = Tail(s)[j - 1]
      <4>1. j - 1 \in 1..(Len(s) - 1) /\ (j - 1) + 1 = j
        BY <3>2, <3>5
      <4> QED
        BY <4>1, <3>2
    <3> QED
      BY <3>2, <3>3, <3>4, <3>5 DEF s, R, PartList
  <2>2. \A d \in Collectors : collector'[d] = IF d = c THEN "loaded" ELSE "idle"
    BY <1>3, <1>11 DEF CollectorInv, OneCollects
  <2>3. parts'[c] = ps /\ parts' \in [Collectors -> PartList]
    BY <1>11, <2>1 DEF CollectorInv, PartsKnown
  <2> HIDE DEF ps
  <2>4. LogKnown'
    <3>1. {f \in Facts : place[f] # 0}' = {f \in Facts : place[f] # 0}
      BY <1>2
    <3>2. (serial <= 1 + Cardinality({f \in Facts : place[f] # 0}) + Cardinality(waived))'
      BY <1>2, <3>1 DEF CollectorInv, LogKnown
    <3> QED
      BY <1>2, <3>2 DEF CollectorInv, LogKnown
  <2>5. OneCollects'
    <3>1. collector' \in [Collectors -> {"idle", "begun", "marked", "bounded", "loaded", "read"}]
      BY <1>11 DEF CollectorInv, OneCollects
    <3>2. /\ collecting' \in BOOLEAN /\ collecting'
          /\ behind' \in [Collectors -> Nat] /\ upto' \in [Collectors -> Nat]
          /\ \A d \in Collectors : behind'[d] < serial' /\ upto'[d] < serial'
      BY <1>1, <1>2, <1>11 DEF CollectorInv, OneCollects
    <3> QED
      BY <1>2, <1>6, <2>2, <3>1, <3>2 DEF OneCollects
  <2>6. PartsApart(ps)
    <3> SUFFICES ASSUME NEW i \in DOMAIN ps, NEW j \in DOMAIN ps, i # j
                 PROVE  ps[i].of \intersect ps[j].of = {}
      BY DEF PartsApart
    <3>1. i + 1 # j + 1
      BY <2>1
    <3> QED
      BY <2>1, <3>1, <1>3 DEF PartsApart
  <2>7. PartsInLog(ps, upto[c])
    BY <2>1, <1>3 DEF PartsInLog
  <2>8. PartsUnread(ps, "loaded")
    <3> SUFFICES ASSUME NEW i \in DOMAIN ps, NEW e \in ps[i].of PROVE taken[e] = 0 \/ e \in waived
      BY DEF PartsUnread
    <3>1. i + 1 \in DOMAIN parts[c] /\ i + 1 # 1 /\ e \in parts[c][i + 1].of
      BY <2>1
    <3> QED
      BY <3>1, <1>3 DEF PartsUnread
  <2>9. ASSUME NEW i \in DOMAIN ps, NEW e \in filed, place[e] <= ps[i].upTo
        PROVE  taken[e] > 0 \/ e \in skipped \/ \E j \in DOMAIN ps : j <= i /\ e \in ps[j].of
    <3>1. i + 1 \in DOMAIN parts[c] /\ place[e] <= parts[c][i + 1].upTo /\ i \in Nat
      BY <2>1, <2>9
    <3>2. taken[e] > 0 \/ e \in skipped \/ \E j \in DOMAIN parts[c] : j <= i + 1 /\ e \in parts[c][j].of
      BY <3>1, <1>3 DEF PartsCover
    <3>3. ASSUME NEW j \in DOMAIN parts[c], j <= i + 1, e \in parts[c][j].of
          PROVE  taken[e] > 0 \/ e \in skipped \/ \E m \in DOMAIN ps : m <= i /\ e \in ps[m].of
      <4>1. CASE j = 1
        BY <4>1, <3>3, <1>3
      <4>2. CASE j # 1
        <5>1. j - 1 \in DOMAIN ps /\ e \in ps[j - 1].of
          BY <4>2, <2>1, <3>3
        <5>2. j \in Nat
          BY <1>3
        <5>3. j - 1 <= i
          BY <5>2, <3>1, <3>3
        <5> QED
          BY <5>1, <5>3
      <4> QED
        BY <4>1, <4>2
    <3> QED
      BY <3>2, <3>3
  <2>10. PartsKnown'
    <3>1. PartsApart(parts[c])' /\ PartsInLog(parts[c], upto[c])'
      BY <2>3, <2>6, <2>7, <1>2, <1>11 DEF PartsApart, PartsInLog
    <3>2. PartsUnread(parts[c], collector[c])'
      BY <2>2, <2>3, <2>8, <1>2 DEF PartsUnread
    <3>3. PartsCover(parts[c])'
      BY <2>3, <2>9, <1>2 DEF PartsCover
    <3> QED
      BY <2>1, <2>2, <2>3, <3>1, <3>2, <3>3, <1>2, <1>4 DEF PartsKnown
  <2>11. TakenKnown'
    BY <1>2, <1>7 DEF TakenKnown
  <2> QED
    BY <2>4, <2>5, <2>10, <2>11, <1>9 DEF CollectorInv
<1> QED
  BY <1>10, <1>11 DEF AdvanceMemorySeq

(* A restart: what was applied and not passed yet is known.                *)
LEMMA RebootStep == ASSUME CollectorInv, Reboot PROVE CollectorInv'
<1> DEFINE reading == {d \in Collectors : collector[d] = "read"}
           W == UNION {Head(parts[c]).of : c \in reading}
<1>1. /\ collecting' = FALSE /\ collector' = [c \in Collectors |-> "idle"]
      /\ behind' = [c \in Collectors |-> 0] /\ upto' = [c \in Collectors |-> 0]
      /\ parts' = [c \in Collectors |-> <<>>] /\ waived' = waived \union W
      /\ UNCHANGED <<logVars, memorySeq, taken, skipped>>
  BY DEF Reboot
<1>2. UNCHANGED <<place, serial, filed, memorySeq, taken, skipped>>
  BY <1>1 DEF logVars
<1>3. \A c \in reading : Head(parts[c]) = parts[c][1] /\ parts[c][1].of \subseteq Facts
  BY PartsAt
<1>4. /\ W \subseteq Facts /\ \A c \in reading : parts[c][1].of \subseteq W
  BY <1>3
<1> HIDE DEF W
<1>5. waived \in SUBSET Facts /\ waived' \in SUBSET Facts /\ waived \subseteq waived'
  BY <1>1, <1>4 DEF CollectorInv, LogKnown
<1>6. LogKnown'
  <2> DEFINE P == {e \in Facts : place[e] # 0}
  <2>1. /\ Cardinality(waived) \in Nat /\ Cardinality(waived') \in Nat
        /\ Cardinality(waived) <= Cardinality(waived')
    BY <1>5, WaivedGrows
  <2>2. Cardinality(P) \in Nat
    BY PlacedCount
  <2>3. serial <= 1 + Cardinality(P) + Cardinality(waived) /\ serial \in Nat
    BY DEF CollectorInv, LogKnown
  <2>4. serial <= 1 + Cardinality(P) + Cardinality(waived')
    BY <2>1, <2>2, <2>3
  <2>5. {e \in Facts : place'[e] # 0} = P
    BY <1>2
  <2> HIDE DEF P
  <2>6. (serial <= 1 + Cardinality({e \in Facts : place[e] # 0}) + Cardinality(waived))'
    BY <2>4, <2>5, <1>2
  <2> QED
    BY <1>2, <1>5, <2>6 DEF CollectorInv, LogKnown
<1>7. \A c \in Collectors : collector'[c] = "idle" /\ behind'[c] = 0 /\ upto'[c] = 0
  BY <1>1
<1>8. OneCollects'
  <2>1. serial \in Nat \ {0} /\ memorySeq \in Nat /\ memorySeq < serial
    BY DEF CollectorInv, LogKnown, OneCollects
  <2>2. /\ collector' \in [Collectors -> {"idle", "begun", "marked", "bounded", "loaded", "read"}]
        /\ behind' \in [Collectors -> Nat] /\ upto' \in [Collectors -> Nat] /\ collecting' \in BOOLEAN
    BY <1>1
  <2> QED
    BY <1>2, <1>7, <2>1, <2>2 DEF OneCollects
<1>9. PartsKnown'
  <2>1. <<>> \in PartList
    BY DEF PartList
  <2>2. parts' \in [Collectors -> PartList] /\ taken' \in [Facts -> Nat]
    BY <1>1, <2>1 DEF CollectorInv, PartsKnown
  <2> QED
    BY <1>7, <2>2 DEF PartsKnown
<1>10. TakenKnown'
  BY <1>1, <1>2, <1>4 DEF CollectorInv, TakenKnown
<1>11. NothingPassedOver'
  BY <1>2 DEF CollectorInv, NothingPassedOver
<1> QED
  BY <1>6, <1>8, <1>9, <1>10, <1>11 DEF CollectorInv

(* One step of the log, of a collection or of the control plane keeps the  *)
(* invariant.                                                              *)
LEMMA CollectorStep == CollectorInv /\ [CollectorNext]_collectVars => CollectorInv'
<1> SUFFICES ASSUME CollectorInv, [CollectorNext]_collectVars PROVE CollectorInv'
  OBVIOUS
<1>1. CASE \E e \in Facts : TakeSeq(e) \/ CommitRow(e) \/ MoveRow(e)
  BY <1>1, InsertStep, CommitStep, MoveStep
<1>2. CASE \E c \in Collectors : BeginCollect(c) \/ CollectGoesOn(c) \/ ProviderFails(c)
  BY <1>2, BeginStep, WatermarkStep, MaxSeqStep, LoadStep, ReadStep, AdvanceStep, FailStep
     DEF CollectGoesOn
<1>3. CASE Reboot
  BY <1>3, RebootStep
<1>4. CASE UNCHANGED collectVars
  <2>1. /\ UNCHANGED <<place, serial, filed, memorySeq, collecting, collector, behind, upto, parts>>
        /\ UNCHANGED <<taken, waived, skipped>>
    BY <1>4 DEF collectVars
  <2>2. {e \in Facts : place[e] # 0}' = {e \in Facts : place[e] # 0}
    BY <2>1
  <2>3. (serial <= 1 + Cardinality({e \in Facts : place[e] # 0}) + Cardinality(waived))'
    BY <2>1, <2>2 DEF CollectorInv, LogKnown
  <2>4. LogKnown' /\ OneCollects'
    BY <2>1, <2>3 DEF CollectorInv, LogKnown, OneCollects
  <2>5. PartsKnown'
    BY <2>1 DEF CollectorInv, PartsKnown, PartsApart, PartsInLog, PartsUnread, PartsCover
  <2>6. TakenKnown' /\ NothingPassedOver'
    BY <2>1 DEF CollectorInv, TakenKnown, NothingPassedOver
  <2> QED
    BY <2>4, <2>5, <2>6 DEF CollectorInv
<1> QED
  BY <1>1, <1>2, <1>3, <1>4 DEF CollectorNext

(* Whatever is inserted, committed late, moved, collected, given up or cut *)
(* off at the same time, in parts of any size: each event is read at most  *)
(* once, and the watermark passes none that was not read, but for those    *)
(* the histories of Collector excuse.                                      *)
THEOREM CollectorSafeHolds == CollectorSpec => []CollectorSafe
<1>1. CollectorInv => CollectorSafe
  <2> SUFFICES ASSUME CollectorInv PROVE CollectorSafe
    OBVIOUS
  <2>1. serial \in Nat \ {0} /\ serial <= 2 * NFacts + 1
    <3> DEFINE P == {e \in Facts : place[e] # 0}
    <3>1. Cardinality(P) \in 0..NFacts /\ Cardinality(waived) \in 0..NFacts
      BY PlacedCount DEF CollectorInv, LogKnown
    <3>2. serial <= 1 + Cardinality(P) + Cardinality(waived) /\ serial \in Nat \ {0}
      BY DEF CollectorInv, LogKnown
    <3> HIDE DEF P
    <3> QED
      BY <3>1, <3>2, CollectorBounds
  <2>2. \A m \in Nat : m < serial => m \in 0..2 * NFacts
    BY <2>1, CollectorBounds
  <2>3. place \in [Facts -> 0..2 * NFacts]
    <3>1. \A e \in Facts : place[e] \in 0..2 * NFacts
      BY <2>2 DEF CollectorInv, LogKnown
    <3> QED
      BY <3>1 DEF CollectorInv, LogKnown
  <2>4. behind \in [Collectors -> 0..2 * NFacts] /\ upto \in [Collectors -> 0..2 * NFacts]
    <3>1. \A c \in Collectors : behind[c] \in 0..2 * NFacts /\ upto[c] \in 0..2 * NFacts
      BY <2>2 DEF CollectorInv, OneCollects
    <3> QED
      BY <3>1 DEF CollectorInv, OneCollects
  <2>5. memorySeq \in 0..2 * NFacts /\ serial \in 1..2 * NFacts + 1
    BY <2>1, <2>2, CollectorBounds DEF CollectorInv, OneCollects
  <2>6. CollectorTypeOK
    BY <2>3, <2>4, <2>5 DEF CollectorTypeOK, CollectorInv, LogKnown, OneCollects, PartsKnown
  <2>7. ReadAtMostOnce
    <3>1. \A e \in Facts : taken[e] \in Nat /\ (taken[e] > 0 /\ e \notin waived => taken[e] = 1)
      BY DEF CollectorInv, PartsKnown, TakenKnown
    <3> QED
      BY <3>1 DEF ReadAtMostOnce
  <2> QED
    BY <2>6, <2>7 DEF CollectorSafe, CollectorInv
<1> QED
  BY <1>1, CollectorBegin, CollectorStep, PTL DEF CollectorSpec

-----------------------------------------------------------------------------
(* What the run checks of the workspace as a whole.                        *)

(* An instance of MCServices is one of its services, and each of the       *)
(* others stays as it began: each began and moves as alone.                *)
LEMMA EachServiceIsAlone ==
  /\ Init => ChangesInit /\ HistoryInit
  /\ [Next]_vars => [ChangesNext]_changeVars /\ [HistoryNext]_historyVars
<1>1. Init => ChangesInit /\ HistoryInit
  BY DEF Init
<1>2. ASSUME Next PROVE [ChangesNext]_changeVars /\ [HistoryNext]_historyVars
  BY <1>2 DEF Next, Only
<1>3. ASSUME UNCHANGED vars PROVE UNCHANGED changeVars /\ UNCHANGED historyVars
  BY <1>3 DEF vars
<1> QED
  BY <1>1, <1>2, <1>3

(* What a run may have changed is named by it or by its snapshots, and     *)
(* what the snapshots hold is neither lost nor past restoring.             *)
THEOREM WorkspaceSafeHolds == Spec => []WorkspaceSafe
<1>1. ChangesInv => ChangesSafe
  BY DEF ChangesInv
<1>2. HistoryInv => HistorySafe
  BY DEF HistoryInv
<1> QED
  BY <1>1, <1>2, ChangesBegin, ChangesStep, HistoryBegins, HistoryStep, EachServiceIsAlone,
     PTL DEF Spec, WorkspaceSafe
=============================================================================

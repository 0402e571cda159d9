--------------------------- MODULE ApprovalsProofs ---------------------------
(***************************************************************************)
(* What holds of the approval gate for any number of calls, runs, votes,   *)
(* rule changes, stops and restarts: the types, that a slip that is shown  *)
(* has a caller, that an asked call goes on only after a person's yes and  *)
(* its receipt, and that a floor holds a call whatever is written while    *)
(* the call reads its rules.                                               *)
(*                                                                         *)
(* The invariant Inv follows an answer from the vote to the call: a vote   *)
(* is on a slip that exists, whose row is settled once the vote is saved   *)
(* and which has its receipt before it is delivered (BallotsKept); what a  *)
(* channel holds was cast, or sent by a stop that will still settle the    *)
(* row (Channels); what a call heard was cast (Heard).  Floor carries the  *)
(* bound of every step of a call's reading.  The same invariant shows that *)
(* Approvals implements Gate, step by step (GateImplemented).              *)
(***************************************************************************)
EXTENDS Approvals, TLAPS

Asking == {"register", "wait", "drop", "unask"}

(* A call has no slip before it asks and has one while it asks. *)
SlipWhenAsked ==
  \A c \in Calls :
    /\ pc[c] \in Reading \cup {"none", "judge", "create"} => slip[c] = "none"
    /\ pc[c] \in Asking => slip[c] # "none"

(* A vote is on a slip that exists; once saved it leaves no pending row, and *)
(* before it is delivered it has its receipt.                                *)
BallotKept(v) ==
  /\ vote[v].step # "none" => vote[v].call \in Calls /\ slip[vote[v].call] # "none"
  /\ vote[v].step \in {"rule", "receipt", "deliver", "cast"} =>
       slip[vote[v].call] # "pending"
  /\ vote[v].step \in {"deliver", "cast"} /\ runOf[vote[v].call] # NoRun =>
       <<vote[v].call, vote[v].ballot>> \in receipts
BallotsKept == \A v \in Votes : BallotKept(v)

RunsStarted ==
  /\ \A r \in live : runRow[r] # "none"
  /\ \A c \in Calls : runOf[c] # NoRun => runRow[runOf[c]] # "none"

(* Some vote that was delivered gave this answer to this call. *)
Cast(c, answer) ==
  \E v \in Votes : /\ vote[v].step = "cast"
                   /\ vote[v].call = c
                   /\ vote[v].ballot = answer

(* A channel that holds an answer has no other to come, and says where it   *)
(* is from.                                                                 *)
Channel(c) ==
  ch[c] # Unset =>
    /\ c \notin waiters
    /\ pc[c] \in {"wait", "drop", "unask", "denied"}
    /\ ch[c] = "canceled" => slip[c] # "pending" \/ StopWillReach(c)
    /\ ch[c] # "canceled" => Cast(c, ch[c])
Channels == \A c \in Calls : Channel(c)

HeardBy(c) ==
  /\ got[c] \notin {Unset, "canceled"} => Cast(c, got[c])
  /\ pc[c] = "allowed" /\ slip[c] # "none" => got[c] \in {"allow_once", "always"}
Heard == \A c \in Calls : HeardBy(c)

HasCaller(c) ==
  slip[c] = "pending" =>
    pc[c] \in {"register", "wait", "drop", "unask"} \/ StopWillReach(c)

(* What a call has read so far is no looser than the lowest each floor was. *)
Floor(c) ==
  /\ pc[c] \in {"own", "space"} => lowSpace[c] <= Rank(space)
  /\ pc[c] \in Reading => lowOp[c] <= Rank(LockedOp(op))
  /\ pc[c] = "op" => lowSpace[c] <= Rank(read[c].space)
  /\ pc[c] = "judge" => auto[c] /\ lowSpace[c] <= 1 /\ lowOp[c] <= 1
  /\ pc[c] \in Asking \cup {"create"} => lowSpace[c] <= 2 /\ lowOp[c] <= 2
  /\ pc[c] = "allowed" => lowSpace[c] <= HeldBack(c) /\ lowOp[c] <= HeldBack(c)
Floors == \A c \in Calls : Floor(c)

Inv ==
  /\ TypeOK /\ SlipWhenAsked /\ BallotsKept /\ RunsStarted
  /\ Channels /\ Heard /\ PendingHasCaller /\ Floors

USE DEF NoRun, Unset

-----------------------------------------------------------------------------
(* The layers.                                                             *)

(* Strictness is a rank from 0 to 3. *)
LEMMA StrictnessRange == \A m : Strictness(m) \in 0 .. 3
  BY DEF Strictness

(* The stricter of two modes is one of them and no looser than either. *)
LEMMA StricterHolds ==
  ASSUME NEW a, NEW b
  PROVE  /\ Stricter(a, b) \in {a, b}
         /\ Strictness(a) <= Strictness(Stricter(a, b))
         /\ Strictness(b) <= Strictness(Stricter(a, b))
  BY StrictnessRange DEF Stricter

(* A floor is a rank from 0 to 3 too. *)
LEMMA RankRange == \A m : Rank(m) \in 0 .. 3
  BY StrictnessRange DEF Rank

(* What is held at a floor is no looser than it was and no looser than it. *)
LEMMA HeldHolds ==
  ASSUME NEW val, NEW floor
  PROVE  /\ Strictness(val) <= Strictness(Held(val, floor))
         /\ Rank(floor) <= Strictness(Held(val, floor))
  BY StrictnessRange, StricterHolds DEF Held, Rank

(* The decision is no looser than the floors it was made from. *)
LEMMA DecisionHolds ==
  ASSUME NEW mine, NEW sp, NEW o
  PROVE  /\ Rank(sp) <= Strictness(Decision(mine, sp, o))
         /\ Rank(LockedOp(o)) <= Strictness(Decision(mine, sp, o))
<1> DEFINE held == Held(Nearest(mine, sp, o), sp)
<1>1. Rank(sp) <= Strictness(held)
  BY HeldHolds
<1>2. /\ Strictness(held) <= Strictness(Decision(mine, sp, o))
      /\ Rank(LockedOp(o)) <= Strictness(Decision(mine, sp, o))
  BY HeldHolds DEF Decision
<1> QED
  BY <1>1, <1>2, StrictnessRange, RankRange

-----------------------------------------------------------------------------
(* The initial state satisfies the invariant: nobody calls, nothing is asked. *)
LEMMA InvInit == Init => Inv
<1> SUFFICES ASSUME Init PROVE Inv
  OBVIOUS
<1>1. TypeOK
  BY DEF Init, TypeOK, Layer, Modes, NoStop, NoVote, NoRead, PCs, SlipState, Answers,
  Ballots,
      VoteSteps, Calls
<1>2. SlipWhenAsked /\ RunsStarted /\ Channels /\ Heard /\ PendingHasCaller
  BY DEF Init, SlipWhenAsked, RunsStarted, Channels, Channel, Heard, HeardBy,
  PendingHasCaller,
      Asking
<1>3. BallotsKept
  BY DEF Init, BallotsKept, BallotKept, NoVote
<1>4. Floors
  BY DEF Init, Floors, Floor, Reading, Asking
<1> QED
  BY <1>1, <1>2, <1>3, <1>4 DEF Inv

-----------------------------------------------------------------------------
(* A vote is saved over a slip that was asked. *)
LEMMA SaveVoteAnswers ==
  ASSUME Inv, NEW v \in Votes, SaveVote(v)
  PROVE  \E e \in Calls, b \in Ballots :
           slip[e] # "none" /\ slip' = [slip EXCEPT ![e] = b]
<1>1. vote \in [Votes -> [step : VoteSteps, call : Calls \cup {Unset}, ballot : Ballots]]
  BY DEF Inv, TypeOK
<1>2. BallotKept(v)
  BY DEF Inv, BallotsKept
<1>3. vote[v].ballot \in Ballots /\ vote[v].step = "save"
  BY <1>1 DEF SaveVote
<1>4. vote[v].call \in Calls /\ slip[vote[v].call] # "none"
  BY <1>2, <1>3 DEF BallotKept
<1> QED
  BY <1>3, <1>4 DEF SaveVote

(* The least a floor was stays a rank. *)
LEMMA LowestRange ==
  ASSUME NEW low \in [Calls -> 0 .. 3], NEW m
  PROVE  Lowest(low, Rank(m)) \in [Calls -> 0 .. 3]
  BY RankRange DEF Lowest

(* A vote's step keeps the type of the votes. *)
LEMMA VoteTypes ==
  ASSUME vote \in [Votes -> [step : VoteSteps, call : Calls \cup {Unset},
  ballot : Ballots]],
         NEW v \in Votes, NEW to \in VoteSteps, vote' = [vote EXCEPT ![v].step = to]
  PROVE  vote' \in [Votes -> [step : VoteSteps, call : Calls \cup {Unset},
  ballot : Ballots]]
<1>1. [vote[v] EXCEPT !.step = to]
        \in [step : VoteSteps, call : Calls \cup {Unset}, ballot : Ballots]
  OBVIOUS
<1> QED
  BY <1>1

(* The types after a call begins. *)
LEMMA StartTypes ==
  ASSUME Inv, NEW c \in Calls, NEW r \in Runs \cup {NoRun}, StartCall(c, r)
  PROVE  TypeOK'
<1>a. TypeOK
  BY DEF Inv
<1>1. pc' \in [Calls -> PCs] /\ runOf' \in [Calls -> Runs \cup {NoRun}]
  BY <1>a DEF TypeOK, StartCall, PCs
<1>2. Rank(space) \in 0 .. 3 /\ Rank(LockedOp(op)) \in 0 .. 3
  BY StrictnessRange, RankRange
<1>3. lowSpace' \in [Calls -> 0 .. 3] /\ lowOp' \in [Calls -> 0 .. 3]
  BY <1>a, <1>2 DEF TypeOK, StartCall
<1>4. waiters' \subseteq {d \in Calls : pc'[d] \in {"wait", "drop"}}
  BY <1>a DEF TypeOK, StartCall, slipVars
<1> QED
  BY <1>a, <1>1, <1>3, <1>4 DEF TypeOK, StartCall, ruleVars, runVars, slipVars

(* Every variable keeps its type; a waiter is a call that waits. *)
LEMMA TypeStep == Inv /\ [Next]_vars => TypeOK'
<1> SUFFICES ASSUME Inv, [Next]_vars PROVE TypeOK'
  OBVIOUS
<1>a. TypeOK
  BY DEF Inv
<1> USE DEF TypeOK, ruleVars, runVars, callVars, slipVars, histVars
<1>1. ASSUME NEW r \in Runs, NEW chat \in Chats, StartRun(r, chat) PROVE TypeOK'
  BY <1>a, <1>1 DEF StartRun
<1>2. ASSUME NEW r \in Runs, FinishRun(r) PROVE TypeOK'
  BY <1>a, <1>2 DEF FinishRun
<1>3. ASSUME NEW r \in Runs, TimeOut(r) PROVE TypeOK'
  BY <1>a, <1>3 DEF TimeOut
<1>4. ASSUME NEW scope \in Scopes, Stop(scope) PROVE TypeOK'
  <2>1. ch' \in [Calls -> Answers \cup {Unset}]
    BY <1>a, <1>4 DEF Stop, Answers
  <2>2. stopping' \in [step : {"none", "runs", "slips"},
                      scope : Chats \cup {NoChat, WholeBot}]
    BY <1>4, ScopesAssumption DEF Stop
  <2>3. waiters' \subseteq {c \in Calls : pc[c] \in {"wait", "drop"}}
    BY <1>a, <1>4 DEF Stop
  <2>4. live' \subseteq Runs /\ cancelled' \subseteq Runs /\ stops' \in Nat
    BY <1>a, <1>4 DEF Stop, Stopped
  <2> QED
    BY <1>a, <1>4, <2>1, <2>2, <2>3, <2>4 DEF Stop
<1>5. ASSUME StopRuns PROVE TypeOK'
  BY <1>a, <1>5 DEF StopRuns
<1>6. ASSUME StopSlips PROVE TypeOK'
  <2>1. slip' \in [Calls -> SlipState]
    BY <1>a, <1>6 DEF StopSlips, Interrupted, SlipState
  <2>2. stopping' \in [step : {"none", "runs", "slips"},
                      scope : Chats \cup {NoChat, WholeBot}]
    BY <1>6 DEF StopSlips, NoStop
  <2> QED
    BY <1>a, <1>6, <2>1, <2>2 DEF StopSlips
<1>7. ASSUME NEW c \in ToolCalls, NEW r \in Runs, ToolCall(c, r) PROVE TypeOK'
  <2>1. c \in Calls /\ r \in Runs \cup {NoRun} /\ StartCall(c, r)
    BY <1>7 DEF ToolCall, Calls
  <2> QED
    BY <2>1, StartTypes
<1>8. ASSUME NEW c \in RequestCalls, NEW r \in Runs \cup {NoRun}, RequestCall(c, r)
      PROVE  TypeOK'
  <2>1. c \in Calls /\ r \in Runs \cup {NoRun} /\ StartCall(c, r)
    BY <1>8 DEF RequestCall, Calls
  <2> QED
    BY <2>1, StartTypes
<1>9. ASSUME NEW c \in RequestCalls, LoseRequest(c) PROVE TypeOK'
  BY <1>a, <1>9 DEF LoseRequest
<1>10. ASSUME NEW c \in Calls, ReadOwn(c) PROVE TypeOK'
  BY <1>a, <1>10 DEF ReadOwn, PCs
<1>11. ASSUME NEW c \in Calls, ReadSpace(c) PROVE TypeOK'
  BY <1>a, <1>11 DEF ReadSpace, PCs
<1>12. ASSUME NEW c \in Calls, Decide(c) PROVE TypeOK'
  <2>1. pc' \in [Calls -> PCs]
    BY <1>a, <1>12 DEF Decide, After, PCs
  <2>2. auto' \in [Calls -> BOOLEAN]
    BY <1>a, <1>12 DEF Decide
  <2>3. read' \in [Calls -> [own : Layer, space : Layer]]
    BY <1>a, <1>12 DEF Decide, NoRead, Layer
  <2>4. waiters' \subseteq {d \in Calls : pc'[d] \in {"wait", "drop"}}
    BY <1>a, <1>12 DEF Decide
  <2> QED
    BY <1>a, <1>12, <2>1, <2>2, <2>3, <2>4 DEF Decide
<1>13. ASSUME NEW c \in Calls, Judge(c) PROVE TypeOK'
  BY <1>a, <1>13 DEF Judge, After, PCs
<1>14. ASSUME NEW c \in Calls, CreateSlip(c) PROVE TypeOK'
  BY <1>a, <1>14 DEF CreateSlip, PCs, SlipState
<1>15. ASSUME NEW c \in Calls, Register(c) PROVE TypeOK'
  BY <1>a, <1>15 DEF Register, PCs
<1>16. ASSUME NEW c \in Calls, Answer(c) PROVE TypeOK'
  <2>1. c \notin waiters
    BY <1>16 DEF Inv, Channels, Channel, Answer
  <2>2. pc' \in [Calls -> PCs] /\ ch' \in [Calls -> Answers \cup {Unset}]
    BY <1>a, <1>16 DEF Answer, PCs
  <2>3. got' \in [Calls -> Answers \cup {Unset}]
    BY <1>a, <1>16 DEF Answer
  <2>4. waiters' \subseteq {d \in Calls : pc'[d] \in {"wait", "drop"}}
    BY <1>a, <1>16, <2>1 DEF Answer
  <2> QED
    BY <1>a, <1>16, <2>2, <2>3, <2>4 DEF Answer
<1>17. ASSUME NEW c \in Calls, GiveUp(c) PROVE TypeOK'
  BY <1>a, <1>17 DEF GiveUp, PCs
<1>18. ASSUME NEW c \in Calls, DropWaiter(c) PROVE TypeOK'
  BY <1>a, <1>18 DEF DropWaiter, PCs
<1>19. ASSUME NEW c \in Calls, Unask(c) PROVE TypeOK'
  BY <1>a, <1>19 DEF Unask, PCs, SlipState, Answers
<1>20. ASSUME NEW v \in Votes, NEW c \in Calls, NEW b \in Ballots, Vote(v, c, b)
       PROVE  TypeOK'
  BY <1>a, <1>20 DEF Vote, VoteSteps
<1>21. ASSUME NEW v \in Votes, SaveVote(v) PROVE TypeOK'
  <2> PICK e \in Calls, b \in Ballots : slip[e] # "none" /\ slip' = [slip EXCEPT ![e] = b]
    BY <1>21, SaveVoteAnswers
  <2>1. slip' \in [Calls -> SlipState]
    BY <1>a DEF SlipState, Answers
  <2>2. vote' \in [Votes -> [step : VoteSteps, call : Calls \cup {Unset}, ballot : Ballots]]
    BY SMTT(30), <1>a, <1>21 DEF SaveVote, VoteSteps
  <2> QED
    BY <1>a, <1>21, <2>1, <2>2 DEF SaveVote
<1>22. ASSUME NEW v \in Votes, WriteRule(v) PROVE TypeOK'
  <2>1. vote' \in [Votes -> [step : VoteSteps, call : Calls \cup {Unset}, ballot : Ballots]]
    <3>1. vote' = [vote EXCEPT ![v].step = "receipt"] /\ "receipt" \in VoteSteps
      BY <1>22 DEF WriteRule, Step, VoteSteps
    <3> QED
      BY <1>a, <3>1, VoteTypes
  <2>2. own' \in Layer
    BY <1>22 DEF WriteRule, Layer, Modes
  <2> QED
    BY <1>a, <1>22, <2>1, <2>2 DEF WriteRule
<1>23. ASSUME NEW v \in Votes, WriteReceipt(v) PROVE TypeOK'
  <2>1. vote' \in [Votes -> [step : VoteSteps, call : Calls \cup {Unset}, ballot : Ballots]]
    <3>1. vote' = [vote EXCEPT ![v].step = "deliver"] /\ "deliver" \in VoteSteps
      BY <1>23 DEF WriteReceipt, Step, VoteSteps
    <3> QED
      BY <1>a, <3>1, VoteTypes
  <2>2. vote[v].ballot \in Ballots /\ vote[v].step = "receipt"
    BY <1>a, <1>23 DEF WriteReceipt, Step
  <2>3. vote[v].call \in Calls
    BY <2>2 DEF Inv, BallotsKept, BallotKept
  <2>4. receipts' \subseteq Calls \X Ballots
    BY <1>a, <1>23, <2>2, <2>3 DEF WriteReceipt
  <2> QED
    BY <1>a, <1>23, <2>1, <2>4 DEF WriteReceipt
<1>24. ASSUME NEW v \in Votes, Deliver(v) PROVE TypeOK'
  <2>1. vote' \in [Votes -> [step : VoteSteps, call : Calls \cup {Unset}, ballot : Ballots]]
    BY <1>a, <1>24 DEF Deliver, Step, VoteSteps
  <2>2. vote[v].ballot \in Answers
    BY <1>a DEF Answers
  <2>3. ch' \in [Calls -> Answers \cup {Unset}]
    BY <1>a, <1>24, <2>2 DEF Deliver
  <2>4. waiters' \subseteq {c \in Calls : pc[c] \in {"wait", "drop"}}
    BY <1>a, <1>24 DEF Deliver
  <2> QED
    BY <1>a, <1>24, <2>1, <2>3, <2>4 DEF Deliver
<1>25. ASSUME NEW m \in RuleModes, SetRuleCheck(m) PROVE TypeOK'
  <2>1. setting' \in Layer /\ changes' \in Nat
    BY <1>a, <1>25, ModesAssumption DEF SetRuleCheck, Layer
  <2> QED
    BY <1>a, <1>25, <2>1 DEF SetRuleCheck
<1>26. ASSUME SetRuleWrite PROVE TypeOK'
  BY <1>a, <1>26 DEF SetRuleWrite, Layer
<1>27. ASSUME NEW m \in RuleModes \cup {Unset}, SetSpaceRule(m) PROVE TypeOK'
  <2>1. space' \in Layer /\ changes' \in Nat
    BY <1>a, <1>27, ModesAssumption DEF SetSpaceRule, Layer
  <2>2. lowSpace' \in [Calls -> 0 .. 3]
    BY <1>a, <1>27, LowestRange DEF SetSpaceRule
  <2> QED
    BY <1>a, <1>27, <2>1, <2>2 DEF SetSpaceRule
<1>28. ASSUME NEW o \in [mode : RuleModes \cup {Unset}, locked : BOOLEAN],
              SetOperatorRule(o)
       PROVE  TypeOK'
  <2>1. op' \in [mode : Layer, locked : BOOLEAN] /\ changes' \in Nat
    BY <1>a, <1>28, ModesAssumption DEF SetOperatorRule, Layer
  <2>2. lowOp' \in [Calls -> 0 .. 3]
    BY <1>a, <1>28, LowestRange DEF SetOperatorRule
  <2> QED
    BY <1>a, <1>28, <2>1, <2>2 DEF SetOperatorRule
<1>29. ASSUME Restart PROVE TypeOK'
  <2>1. runRow' \in [Runs -> {"none", "running", "over"}]
    BY <1>a, <1>29 DEF Restart
  <2>2. pc' \in [Calls -> PCs]
    BY <1>a, <1>29 DEF Restart, PCs
  <2>3. slip' \in [Calls -> SlipState]
    BY <1>a, <1>29 DEF Restart, Interrupted, SlipState
  <2>4. vote' \in [Votes -> [step : VoteSteps, call : Calls \cup {Unset}, ballot : Ballots]]
    <3> SUFFICES ASSUME NEW v \in Votes
                 PROVE  (IF vote[v].step \in {"none", "cast"} THEN vote[v]
                         ELSE [vote[v] EXCEPT !.step = "lost"])
                          \in [step : VoteSteps, call : Calls \cup {Unset},
                          ballot : Ballots]
      BY <1>29 DEF Restart
    <3>1. vote[v] \in [step : VoteSteps, call : Calls \cup {Unset}, ballot : Ballots]
      BY <1>a
    <3> QED
      BY <3>1 DEF VoteSteps
  <2>5. /\ setting' \in Layer /\ crashes' \in Nat /\ live' = {} /\ cancelled' = {}
        /\ waiters' = {} /\ ch' \in [Calls -> Answers \cup {Unset}]
        /\ stopping' \in [step : {"none", "runs", "slips"},
                         scope : Chats \cup {NoChat, WholeBot}]
    BY <1>a, <1>29 DEF Restart, Layer, NoStop
  <2> QED
    BY <1>a, <1>29, <2>1, <2>2, <2>3, <2>4, <2>5 DEF Restart
<1>30. ASSUME PruneRules PROVE TypeOK'
  BY <1>a, <1>30 DEF PruneRules, Layer
<1>31. CASE UNCHANGED vars
  BY <1>a, <1>31 DEF vars
<1> HIDE DEF TypeOK
<1> QED
  BY <1>1, <1>2, <1>3, <1>4, <1>5, <1>6, <1>7, <1>8, <1>9, <1>10, <1>11, <1>12, <1>13,
     <1>14, <1>15, <1>16, <1>17, <1>18, <1>19, <1>20, <1>21, <1>22, <1>23, <1>24, <1>25,
     <1>26, <1>27, <1>28, <1>29, <1>30, <1>31
  DEF Next, RunStep, CallBegins, CallStep, VoteStep, RuleStep

(* Where a call has a slip and where it has none. *)
LEMMA SlipStep == Inv /\ [Next]_vars => SlipWhenAsked'
<1> SUFFICES ASSUME Inv, [Next]_vars PROVE SlipWhenAsked'
  OBVIOUS
<1>a. SlipWhenAsked /\ BallotsKept
  BY DEF Inv
<1>b. /\ pc \in [Calls -> PCs]
      /\ slip \in [Calls -> SlipState]
  BY DEF Inv, TypeOK
<1> USE DEF SlipWhenAsked, BallotsKept, BallotKept, ruleVars, runVars, callVars, slipVars,
            histVars
<1>1. ASSUME StopSlips PROVE SlipWhenAsked'
  BY <1>a, <1>b, <1>1 DEF StopSlips, Interrupted, Reading, Asking
<1>2. ASSUME NEW c \in ToolCalls, NEW r \in Runs, ToolCall(c, r) PROVE SlipWhenAsked'
  BY <1>a, <1>b, <1>2 DEF ToolCall, StartCall, Reading, Asking
<1>3. ASSUME NEW c \in RequestCalls, NEW r \in Runs \cup {NoRun}, RequestCall(c, r)
      PROVE  SlipWhenAsked'
  BY <1>a, <1>b, <1>3 DEF RequestCall, StartCall, Reading, Asking
<1>4. ASSUME NEW c \in Calls, ReadOwn(c) PROVE SlipWhenAsked'
  BY <1>a, <1>b, <1>4 DEF ReadOwn, Reading, Asking
<1>5. ASSUME NEW c \in Calls, ReadSpace(c) PROVE SlipWhenAsked'
  BY <1>a, <1>b, <1>5 DEF ReadSpace, Reading, Asking
<1>6. ASSUME NEW c \in Calls, Decide(c) PROVE SlipWhenAsked'
  BY <1>a, <1>b, <1>6 DEF Decide, After, Reading, Asking
<1>7. ASSUME NEW c \in Calls, Judge(c) PROVE SlipWhenAsked'
  BY <1>a, <1>b, <1>7 DEF Judge, After, Reading, Asking
<1>8. ASSUME NEW c \in Calls, CreateSlip(c) PROVE SlipWhenAsked'
  BY <1>a, <1>b, <1>8 DEF CreateSlip, Reading, Asking
<1>9. ASSUME NEW c \in Calls, Register(c) PROVE SlipWhenAsked'
  BY <1>a, <1>b, <1>9 DEF Register, Reading, Asking
<1>10. ASSUME NEW c \in Calls, Answer(c) PROVE SlipWhenAsked'
  BY <1>a, <1>b, <1>10 DEF Answer, Reading, Asking
<1>11. ASSUME NEW c \in Calls, GiveUp(c) PROVE SlipWhenAsked'
  BY <1>a, <1>b, <1>11 DEF GiveUp, Reading, Asking
<1>12. ASSUME NEW c \in Calls, DropWaiter(c) PROVE SlipWhenAsked'
  BY <1>a, <1>b, <1>12 DEF DropWaiter, Reading, Asking
<1>13. ASSUME NEW c \in Calls, Unask(c) PROVE SlipWhenAsked'
  BY <1>a, <1>b, <1>13 DEF Unask, Reading, Asking
<1>14. ASSUME NEW v \in Votes, SaveVote(v) PROVE SlipWhenAsked'
  <2> PICK e \in Calls, b \in Ballots : slip[e] # "none" /\ slip' = [slip EXCEPT ![e] = b]
    BY <1>14, SaveVoteAnswers
  <2> QED
    BY <1>a, <1>b, <1>14 DEF SaveVote, Reading, Asking, Ballots
<1>15. ASSUME Restart PROVE SlipWhenAsked'
  BY <1>a, <1>b, <1>15 DEF Restart, Inside, Interrupted, Reading, Asking
<1>16. CASE UNCHANGED <<pc, slip>>
  BY <1>a, <1>16 DEF Reading, Asking
<1> QED
  BY <1>1, <1>2, <1>3, <1>4, <1>5, <1>6, <1>7, <1>8, <1>9, <1>10, <1>11, <1>12, <1>13,
     <1>14, <1>15, <1>16
  DEF Next, RunStep, CallBegins, CallStep, VoteStep, RuleStep, vars, StartRun, FinishRun,
      TimeOut, Stop, StopRuns, LoseRequest, Vote, WriteRule, WriteReceipt, Deliver,
      SetRuleCheck, SetRuleWrite, PruneRules, SetSpaceRule, SetOperatorRule, Step

(* What a vote's step does to the record of a vote. *)
LEMMA VoteMoves ==
  ASSUME vote \in [Votes -> [step : VoteSteps, call : Calls \cup {Unset},
  ballot : Ballots]],
         NEW v \in Votes, NEW to, vote' = [vote EXCEPT ![v].step = to], NEW w \in Votes
  PROVE  /\ vote'[w].call = vote[w].call
         /\ vote'[w].ballot = vote[w].ballot
         /\ vote'[w].step = IF w = v THEN to ELSE vote[w].step
<1>1. vote'[w] = IF w = v THEN [vote[v] EXCEPT !.step = to] ELSE vote[w]
  OBVIOUS
<1>2. vote[v] \in [step : VoteSteps, call : Calls \cup {Unset}, ballot : Ballots]
  OBVIOUS
<1> QED
  BY <1>1, <1>2

(* A slip that was asked is never pending again, and stays its run's. *)
LEMMA AskedStays ==
  ASSUME Inv, [Next]_vars, NEW e \in Calls, slip[e] # "none"
  PROVE  /\ slip'[e] # "none"
         /\ slip[e] # "pending" => slip'[e] # "pending"
         /\ runOf'[e] = runOf[e]
<1> DEFINE Goal == /\ slip'[e] # "none"
                   /\ slip[e] # "pending" => slip'[e] # "pending"
                   /\ runOf'[e] = runOf[e]
<1> SUFFICES Goal
  OBVIOUS
<1>a. SlipWhenAsked /\ BallotsKept
  BY DEF Inv
<1>b. /\ slip \in [Calls -> SlipState]
      /\ runOf \in [Calls -> Runs \cup {NoRun}]
      /\ vote \in [Votes -> [step : VoteSteps, call : Calls \cup {Unset}, ballot : Ballots]]
  BY DEF Inv, TypeOK
<1>1. ASSUME NEW c \in Calls, NEW r, StartCall(c, r) PROVE Goal
  BY <1>a, <1>b, <1>1 DEF StartCall, SlipWhenAsked, slipVars
<1>2. ASSUME NEW c \in Calls, CreateSlip(c) PROVE Goal
  BY <1>a, <1>b, <1>2 DEF CreateSlip, SlipWhenAsked
<1>3. ASSUME NEW c \in Calls, Unask(c) PROVE Goal
  BY <1>b, <1>3 DEF Unask
<1>4. ASSUME StopSlips \/ Restart PROVE Goal
  BY <1>b, <1>4 DEF StopSlips, Restart, Interrupted, callVars
<1>5. ASSUME NEW v \in Votes, SaveVote(v) PROVE Goal
  <2>1. vote[v].call \in Calls /\ vote[v].ballot \in Ballots
    BY <1>a, <1>b, <1>5 DEF SaveVote, BallotsKept, BallotKept
  <2> QED
    BY <2>1, <1>b, <1>5 DEF SaveVote, Ballots, callVars
<1>6. CASE UNCHANGED <<slip, runOf>>
  BY <1>6
<1> QED
  BY <1>1, <1>2, <1>3, <1>4, <1>5, <1>6
  DEF Next, RunStep, CallBegins, CallStep, VoteStep, RuleStep, vars, ruleVars, runVars,
      callVars, slipVars, histVars, Calls, StartRun, FinishRun, TimeOut, Stop, StopRuns,
      ToolCall, RequestCall, LoseRequest, ReadOwn, ReadSpace, Decide, Judge, Register,
      Answer, GiveUp, DropWaiter, Vote, WriteRule, WriteReceipt, Deliver, SetRuleCheck,
      SetRuleWrite, PruneRules, SetSpaceRule, SetOperatorRule

(* Votes are saved, then receipted, then delivered. *)
LEMMA BallotsStep == Inv /\ [Next]_vars => BallotsKept'
<1> SUFFICES ASSUME Inv, [Next]_vars, NEW w \in Votes PROVE BallotKept(w)'
  BY DEF BallotsKept
<1>V. BallotKept(w)
  BY DEF Inv, BallotsKept
<1>b. /\ vote \in [Votes -> [step : VoteSteps, call : Calls \cup {Unset}, ballot : Ballots]]
      /\ slip \in [Calls -> SlipState]
  BY DEF Inv, TypeOK
<1>A. vote[w].step # "none" =>
        LET e == vote[w].call
        IN /\ e \in Calls
           /\ slip'[e] # "none"
           /\ slip[e] # "pending" => slip'[e] # "pending"
           /\ runOf'[e] = runOf[e]
  BY <1>V, AskedStays DEF BallotKept
<1>1. ASSUME NEW v \in Votes, NEW c \in Calls, NEW b \in Ballots, Vote(v, c, b)
      PROVE  BallotKept(w)'
  <2>1. CASE w = v
    <3>1. vote'[w] = [step |-> "save", call |-> c, ballot |-> b]
      BY <1>b, <1>1, <2>1 DEF Vote
    <3> QED
      BY <3>1, <1>1 DEF Vote, BallotKept, callVars
  <2>2. CASE w # v
    <3>1. vote'[w] = vote[w]
      BY <1>b, <1>1, <2>2 DEF Vote
    <3> QED
      BY <3>1, <1>V, <1>1 DEF Vote, BallotKept, callVars
  <2> QED
    BY <2>1, <2>2
<1>2. ASSUME NEW v \in Votes, SaveVote(v) PROVE BallotKept(w)'
  <2> DEFINE to == IF vote[v].ballot = "always" THEN "rule" ELSE "receipt"
  <2>1. vote' = [vote EXCEPT ![v].step = to] /\ receipts' = receipts
    BY <1>2 DEF SaveVote
  <2>2. /\ vote'[w].call = vote[w].call /\ vote'[w].ballot = vote[w].ballot
        /\ vote'[w].step = IF w = v THEN to ELSE vote[w].step
    <3> HIDE DEF to
    <3> QED
      BY <1>b, <2>1, VoteMoves
  <2>3. w = v => vote[w].step # "none" /\ slip'[vote[w].call] # "pending"
    BY <1>b, <1>2, <1>A DEF SaveVote, Ballots
  <2> QED
    BY <1>V, <1>A, <2>1, <2>2, <2>3 DEF BallotKept
<1>3. ASSUME NEW v \in Votes, WriteRule(v) PROVE BallotKept(w)'
  <2>1. /\ vote'[w].call = vote[w].call /\ vote'[w].ballot = vote[w].ballot
        /\ vote'[w].step = IF w = v THEN "receipt" ELSE vote[w].step
    BY <1>b, <1>3, VoteMoves DEF WriteRule, Step
  <2> QED
    BY <1>V, <1>A, <2>1, <1>3 DEF WriteRule, Step, BallotKept
<1>4. ASSUME NEW v \in Votes, WriteReceipt(v) PROVE BallotKept(w)'
  <2>1. /\ vote'[w].call = vote[w].call /\ vote'[w].ballot = vote[w].ballot
        /\ vote'[w].step = IF w = v THEN "deliver" ELSE vote[w].step
    BY <1>b, <1>4, VoteMoves DEF WriteReceipt, Step
  <2>2. receipts \subseteq receipts'
    BY <1>4 DEF WriteReceipt
  <2>3. w = v /\ runOf[vote[w].call] # NoRun => <<vote[w].call,
  vote[w].ballot>> \in receipts'
    BY <1>4 DEF WriteReceipt
  <2>4. w = v => vote[w].step = "receipt"
    BY <1>4 DEF WriteReceipt, Step
  <2> QED
    BY <1>V, <1>A, <2>1, <2>2, <2>3, <2>4 DEF BallotKept
<1>5. ASSUME NEW v \in Votes, Deliver(v) PROVE BallotKept(w)'
  <2>1. /\ vote'[w].call = vote[w].call /\ vote'[w].ballot = vote[w].ballot
        /\ vote'[w].step = IF w = v THEN "cast" ELSE vote[w].step
    BY <1>b, <1>5, VoteMoves DEF Deliver, Step
  <2>2. w = v => vote[w].step = "deliver"
    BY <1>5 DEF Deliver, Step
  <2> QED
    BY <1>V, <1>A, <2>1, <2>2, <1>5 DEF Deliver, BallotKept
<1>6. ASSUME Restart PROVE BallotKept(w)'
  <2>1. vote'[w] = IF vote[w].step \in {"none", "cast"} THEN vote[w]
                   ELSE [vote[w] EXCEPT !.step = "lost"]
    BY <1>6 DEF Restart
  <2>2. vote[w] \in [step : VoteSteps, call : Calls \cup {Unset}, ballot : Ballots]
    BY <1>b
  <2>3. /\ vote'[w].call = vote[w].call /\ vote'[w].ballot = vote[w].ballot
        /\ vote'[w].step \in {"none", "cast", "lost"}
        /\ vote'[w].step = "cast" => vote[w].step = "cast"
        /\ vote'[w].step # "none" => vote[w].step # "none"
    BY <2>1, <2>2
  <2>4. receipts' = receipts
    BY <1>6 DEF Restart
  <2> QED
    BY <1>V, <1>A, <2>3, <2>4 DEF BallotKept
<1>7. CASE UNCHANGED <<vote, receipts>>
  BY <1>V, <1>A, <1>7 DEF BallotKept
<1> QED
  BY <1>1, <1>2, <1>3, <1>4, <1>5, <1>6, <1>7
  DEF Next, RunStep, CallBegins, CallStep, VoteStep, RuleStep, vars, ruleVars, runVars,
      callVars, slipVars, histVars, StartRun, FinishRun, TimeOut, Stop, StopRuns, StopSlips,
      ToolCall, RequestCall, StartCall, LoseRequest, ReadOwn, ReadSpace, Decide, Judge,
      CreateSlip, Register, Answer, GiveUp, DropWaiter, Unask, SetRuleCheck, SetRuleWrite,
      PruneRules, SetSpaceRule, SetOperatorRule


(* Calls belong to runs that were started. *)
LEMMA RunsStep == Inv /\ [Next]_vars => RunsStarted'
<1> SUFFICES ASSUME Inv, [Next]_vars PROVE RunsStarted'
  OBVIOUS
<1>a. RunsStarted
  BY DEF Inv
<1>b. /\ runOf \in [Calls -> Runs \cup {NoRun}]
      /\ runRow \in [Runs -> {"none", "running", "over"}]
      /\ live \subseteq Runs
  BY DEF Inv, TypeOK
<1> USE DEF RunsStarted, ruleVars, runVars, callVars, slipVars, histVars
<1>1. ASSUME NEW r \in Runs, NEW chat \in Chats, StartRun(r, chat) PROVE RunsStarted'
  BY <1>a, <1>b, <1>1 DEF StartRun
<1>2. ASSUME NEW r \in Runs, FinishRun(r) PROVE RunsStarted'
  BY <1>a, <1>b, <1>2 DEF FinishRun
<1>3. ASSUME NEW scope \in Scopes, Stop(scope) PROVE RunsStarted'
  BY <1>a, <1>b, <1>3 DEF Stop, Released, Stopped
<1>4. ASSUME StopRuns PROVE RunsStarted'
  BY <1>a, <1>b, <1>4 DEF StopRuns
<1>5. ASSUME NEW c \in ToolCalls, NEW r \in Runs, ToolCall(c, r) PROVE RunsStarted'
  BY <1>a, <1>b, <1>5 DEF ToolCall, StartCall
<1>6. ASSUME NEW c \in RequestCalls, NEW r \in Runs \cup {NoRun}, RequestCall(c, r)
      PROVE  RunsStarted'
  BY <1>a, <1>b, <1>6 DEF RequestCall, StartCall
<1>7. ASSUME Restart PROVE RunsStarted'
  BY <1>a, <1>b, <1>7 DEF Restart, Inside, Interrupted
<1>8. CASE UNCHANGED <<runOf, runRow, live>>
  BY <1>a, <1>8
<1> QED
  BY <1>1, <1>2, <1>3, <1>4, <1>5, <1>6, <1>7, <1>8
  DEF Next, RunStep, CallBegins, CallStep, VoteStep, RuleStep, vars, TimeOut, StopSlips,
      LoseRequest, ReadOwn, ReadSpace, Decide, Judge, CreateSlip, Register, Answer, GiveUp,
      DropWaiter, Unask, Vote, SaveVote, WriteRule, WriteReceipt, Deliver, SetRuleCheck,
      SetRuleWrite, PruneRules, SetSpaceRule, SetOperatorRule, Step

(* A vote that was cast stays cast: history is not rewritten. *)
LEMMA CastStays ==
  ASSUME Inv, [Next]_vars, NEW c, NEW answer, Cast(c, answer)
  PROVE  Cast(c, answer)'
<1> PICK v \in Votes : vote[v].step = "cast" /\ vote[v].call = c /\ vote[v].ballot = answer
  BY DEF Cast
<1> SUFFICES vote'[v] = vote[v]
  BY DEF Cast
<1>b. vote \in [Votes -> [step : VoteSteps, call : Calls \cup {Unset}, ballot : Ballots]]
  BY DEF Inv, TypeOK
<1>1. ASSUME NEW w \in Votes, NEW e \in Calls, NEW b \in Ballots, Vote(w, e, b)
      PROVE  vote'[v] = vote[v]
  <2>1. w # v
    <3>1. vote[w].step = "none"
      <4>1. vote[w] = NoVote
        BY <1>1 DEF Vote
      <4> QED
        BY <4>1 DEF NoVote
    <3> QED
      BY <3>1
  <2> QED
    BY <1>b, <1>1, <2>1 DEF Vote
<1>2. ASSUME NEW w \in Votes, VoteStep(w) PROVE vote'[v] = vote[v]
  BY <1>b, <1>2 DEF VoteStep, SaveVote, WriteRule, WriteReceipt, Deliver, Step
<1>3. ASSUME Restart PROVE vote'[v] = vote[v]
  BY <1>b, <1>3 DEF Restart
<1>4. CASE UNCHANGED vote
  BY <1>4
<1> QED
  BY <1>1, <1>2, <1>3, <1>4
  DEF Next, RunStep, CallBegins, CallStep, RuleStep, vars, ruleVars, runVars, callVars,
      slipVars, histVars, StartRun, FinishRun, TimeOut, Stop, StopRuns, StopSlips, ToolCall,
      RequestCall, StartCall, LoseRequest, ReadOwn, ReadSpace, Decide, Judge, CreateSlip,
      Register, Answer, GiveUp, DropWaiter, Unask, SetRuleCheck, SetRuleWrite,
      PruneRules, SetSpaceRule,
      SetOperatorRule

(* What a channel holds was cast by a vote or sent by a stop on its way. *)
LEMMA ChannelStep == Inv /\ [Next]_vars => Channels'
<1> SUFFICES ASSUME Inv, [Next]_vars, NEW d \in Calls PROVE Channel(d)'
  BY DEF Channels
<1>C. Channel(d)
  BY DEF Inv, Channels
<1>R. RunsStarted
  BY DEF Inv
<1>S. SlipWhenAsked
  BY DEF Inv
<1>V. BallotsKept
  BY DEF Inv
<1>T. \A answer : Cast(d, answer) => Cast(d, answer)'
  BY CastStays
<1>b. /\ ch \in [Calls -> Answers \cup {Unset}]
      /\ \A w \in waiters : w \in Calls /\ pc[w] \in {"wait", "drop"}
      /\ pc \in [Calls -> PCs]
      /\ slip \in [Calls -> SlipState]
      /\ stopping \in [step : {"none", "runs", "slips"}, scope : Chats \cup {NoChat,
                                                    WholeBot}]
      /\ runOf \in [Calls -> Runs \cup {NoRun}]
      /\ chatOf \in [Runs -> Chats \cup {NoChat}]
      /\ vote \in [Votes -> [step : VoteSteps, call : Calls \cup {Unset}, ballot : Ballots]]
      /\ runRow \in [Runs -> {"none", "running", "over"}]
  BY DEF Inv, TypeOK
<1>1. ASSUME NEW r \in Runs, NEW chat \in Chats, StartRun(r, chat) PROVE Channel(d)'
  BY <1>C, <1>R, <1>T, <1>b, <1>1
  DEF Channel, RunsStarted, StopWillReach, InScope, StartRun, ruleVars, callVars, slipVars,
      histVars
<1>2. ASSUME NEW scope \in Scopes, Stop(scope) PROVE Channel(d)'
  <2>1. CASE d \in Released(scope) /\ ch[d] = Unset
    <3>1. ch'[d] = "canceled" /\ d \notin waiters' /\ d \in waiters
      BY <1>2, <2>1 DEF Stop, Released
    <3>2. scope = WholeBot \/ (runOf[d] \in live /\ chatOf[runOf[d]] = scope)
      BY <2>1 DEF Released, Stopped
    <3>3. runOf[d] \in live => runOf[d] # NoRun
      <4>1. live \subseteq 1 .. NRuns
        BY DEF Inv, TypeOK, Runs
      <4> QED
        BY <4>1, RunsAssumption
    <3>4. StopWillReach(d)'
      BY <1>2, <3>2, <3>3 DEF Stop, StopWillReach, InScope, callVars
    <3> QED
      BY <1>2, <1>b, <3>1, <3>4 DEF Stop, Channel, callVars
  <2>2. CASE ~(d \in Released(scope) /\ ch[d] = Unset)
    <3>1. ch'[d] = ch[d] /\ pc' = pc /\ slip' = slip /\ waiters' \subseteq waiters
      BY <1>2, <2>2 DEF Stop, callVars
    <3>2. ~StopWillReach(d)
      BY <1>2 DEF Stop, NoStop, StopWillReach
    <3> QED
      BY <1>C, <1>T, <3>1, <3>2 DEF Channel
  <2> QED
    BY <2>1, <2>2
<1>3. ASSUME StopRuns PROVE Channel(d)'
  BY <1>C, <1>T, <1>b, <1>3
  DEF Channel, StopWillReach, InScope, StopRuns, ruleVars, callVars, slipVars, histVars
<1>4. ASSUME StopSlips PROVE Channel(d)'
  BY <1>C, <1>T, <1>b, <1>4
  DEF Channel, StopWillReach, InScope, StopSlips, Interrupted, ruleVars, callVars, histVars
<1>5. ASSUME NEW c \in ToolCalls, NEW r \in Runs, ToolCall(c, r) PROVE Channel(d)'
  BY <1>C, <1>T, <1>b, <1>5
  DEF Channel, StopWillReach, InScope, ToolCall, StartCall, ruleVars, runVars, slipVars
<1>6. ASSUME NEW c \in RequestCalls, NEW r \in Runs \cup {NoRun}, RequestCall(c, r)
      PROVE  Channel(d)'
  BY <1>C, <1>T, <1>b, <1>6
  DEF Channel, StopWillReach, InScope, RequestCall, StartCall, ruleVars, runVars, slipVars
<1>7. ASSUME NEW c \in Calls, ReadOwn(c) PROVE Channel(d)'
  BY <1>C, <1>T, <1>b, <1>7
  DEF Channel, StopWillReach, InScope, ReadOwn, ruleVars, runVars, slipVars, histVars
<1>8. ASSUME NEW c \in Calls, ReadSpace(c) PROVE Channel(d)'
  BY <1>C, <1>T, <1>b, <1>8
  DEF Channel, StopWillReach, InScope, ReadSpace, ruleVars, runVars, slipVars, histVars
<1>9. ASSUME NEW c \in Calls, Decide(c) PROVE Channel(d)'
  BY <1>C, <1>T, <1>b, <1>9
  DEF Channel, StopWillReach, InScope, Decide, After, ruleVars, runVars, slipVars, histVars
<1>10. ASSUME NEW c \in Calls, Judge(c) PROVE Channel(d)'
  BY <1>C, <1>T, <1>b, <1>10
  DEF Channel, StopWillReach, InScope, Judge, After, ruleVars, runVars, slipVars, histVars
<1>11. ASSUME NEW c \in Calls, CreateSlip(c) PROVE Channel(d)'
  BY <1>C, <1>T, <1>b, <1>11
  DEF Channel, StopWillReach, InScope, CreateSlip, ruleVars, runVars, histVars
<1>12. ASSUME NEW c \in Calls, Register(c) PROVE Channel(d)'
  BY <1>C, <1>T, <1>b, <1>12
  DEF Channel, StopWillReach, InScope, Register, ruleVars, runVars, histVars
<1>13. ASSUME NEW c \in Calls, Answer(c) PROVE Channel(d)'
  BY <1>C, <1>T, <1>b, <1>13
  DEF Channel, StopWillReach, InScope, Answer, ruleVars, runVars, histVars
<1>14. ASSUME NEW c \in Calls, GiveUp(c) PROVE Channel(d)'
  BY <1>C, <1>T, <1>b, <1>14
  DEF Channel, StopWillReach, InScope, GiveUp, ruleVars, runVars, slipVars, histVars
<1>15. ASSUME NEW c \in Calls, DropWaiter(c) PROVE Channel(d)'
  BY <1>C, <1>T, <1>b, <1>15
  DEF Channel, StopWillReach, InScope, DropWaiter, ruleVars, runVars, histVars
<1>16. ASSUME NEW c \in Calls, Unask(c) PROVE Channel(d)'
  BY <1>C, <1>T, <1>b, <1>16
  DEF Channel, StopWillReach, InScope, Unask, ruleVars, runVars, histVars
<1>17. ASSUME NEW v \in Votes, SaveVote(v) PROVE Channel(d)'
  <2> PICK e \in Calls, b \in Ballots : slip[e] # "none" /\ slip' = [slip EXCEPT ![e] = b]
    BY <1>17, SaveVoteAnswers
  <2> QED
    BY <1>C, <1>T, <1>b, <1>17
    DEF Channel, StopWillReach, InScope, SaveVote, Ballots, runVars, callVars
<1>18. ASSUME NEW v \in Votes, Deliver(v) PROVE Channel(d)'
  <2>1. CASE vote[v].call = d /\ d \in waiters /\ ch[d] = Unset
    <3>1. ch'[d] = vote[v].ballot /\ d \notin waiters' /\ pc'[d] \in {"wait", "drop"}
      BY <1>18, <1>b, <2>1 DEF Deliver, callVars
    <3>2. /\ vote'[v].step = "cast" /\ vote'[v].call = d
          /\ vote'[v].ballot = vote[v].ballot /\ vote[v].ballot \in Ballots
      <4>1. vote' = [vote EXCEPT ![v].step = "cast"]
        BY <1>18 DEF Deliver, Step
      <4>2. vote[v].ballot \in Ballots
        BY <1>b
      <4>3. /\ vote'[v].call = vote[v].call /\ vote'[v].ballot = vote[v].ballot
            /\ vote'[v].step = "cast"
        BY <1>b, <4>1, VoteMoves
      <4> QED
        BY <2>1, <4>2, <4>3
    <3>3. Cast(d, vote[v].ballot)'
      BY <3>2 DEF Cast
    <3> QED
      BY <3>1, <3>2, <3>3 DEF Channel, Ballots
  <2>2. CASE ~(vote[v].call = d /\ d \in waiters /\ ch[d] = Unset)
    <3>1. ch'[d] = ch[d] /\ waiters' \subseteq waiters
      BY <1>18, <1>b, <2>2 DEF Deliver
    <3> QED
      BY <1>C, <1>T, <1>18, <3>1
      DEF Channel, StopWillReach, InScope, Deliver, runVars, callVars
  <2> QED
    BY <2>1, <2>2
<1>19. ASSUME Restart PROVE Channel(d)'
  BY <1>C, <1>T, <1>b, <1>19
  DEF Channel, StopWillReach, InScope, Restart, Inside, Interrupted
<1>20. CASE UNCHANGED <<ch, waiters, pc, slip, stopping, runOf, chatOf>>
  BY <1>C, <1>T, <1>20 DEF Channel, StopWillReach, InScope
<1> QED
  BY <1>1, <1>2, <1>3, <1>4, <1>5, <1>6, <1>7, <1>8, <1>9, <1>10, <1>11, <1>12, <1>13,
     <1>14, <1>15, <1>16, <1>17, <1>18, <1>19, <1>20
  DEF Next, RunStep, CallBegins, CallStep, VoteStep, RuleStep, vars, ruleVars, runVars,
      callVars, slipVars, histVars, FinishRun, TimeOut, LoseRequest, Vote, WriteRule,
      WriteReceipt, SetRuleCheck, SetRuleWrite, PruneRules, SetSpaceRule,
      SetOperatorRule, Step

(* What a call heard was cast. *)
LEMMA HeardStep == Inv /\ [Next]_vars => Heard'
<1> SUFFICES ASSUME Inv, [Next]_vars, NEW d \in Calls PROVE HeardBy(d)'
  BY DEF Heard
<1>C. Channel(d)
  BY DEF Inv, Channels
<1>H. HeardBy(d)
  BY DEF Inv, Heard
<1>S. SlipWhenAsked
  BY DEF Inv
<1>V. BallotsKept
  BY DEF Inv
<1>T. \A answer : Cast(d, answer) => Cast(d, answer)'
  BY CastStays
<1>b. /\ got \in [Calls -> Answers \cup {Unset}]
      /\ pc \in [Calls -> PCs]
      /\ slip \in [Calls -> SlipState]
      /\ ch \in [Calls -> Answers \cup {Unset}]
      /\ vote \in [Votes -> [step : VoteSteps, call : Calls \cup {Unset}, ballot : Ballots]]
  BY DEF Inv, TypeOK
<1>1. ASSUME StopSlips PROVE HeardBy(d)'
  BY <1>H, <1>T, <1>b, <1>1
  DEF HeardBy, Asking, StopSlips, Interrupted, ruleVars, callVars, histVars
<1>2. ASSUME NEW c \in ToolCalls, NEW r \in Runs, ToolCall(c, r) PROVE HeardBy(d)'
  BY <1>H, <1>T, <1>b, <1>2
  DEF HeardBy, Asking, ToolCall, StartCall, ruleVars, runVars, slipVars
<1>3. ASSUME NEW c \in RequestCalls, NEW r \in Runs \cup {NoRun}, RequestCall(c, r)
      PROVE  HeardBy(d)'
  BY <1>H, <1>T, <1>b, <1>3
  DEF HeardBy, Asking, RequestCall, StartCall, ruleVars, runVars, slipVars
<1>4. ASSUME NEW c \in Calls, ReadOwn(c) PROVE HeardBy(d)'
  BY <1>H, <1>T, <1>b, <1>4
  DEF HeardBy, Asking, ReadOwn, ruleVars, runVars, slipVars, histVars
<1>5. ASSUME NEW c \in Calls, ReadSpace(c) PROVE HeardBy(d)'
  BY <1>H, <1>T, <1>b, <1>5
  DEF HeardBy, Asking, ReadSpace, ruleVars, runVars, slipVars, histVars
<1>6. ASSUME NEW c \in Calls, Decide(c) PROVE HeardBy(d)'
  BY <1>H, <1>S, <1>T, <1>b, <1>6
  DEF HeardBy, SlipWhenAsked, Asking, Decide, After, Reading, ruleVars, runVars, slipVars,
      histVars
<1>7. ASSUME NEW c \in Calls, Judge(c) PROVE HeardBy(d)'
  BY <1>H, <1>S, <1>T, <1>b, <1>7
  DEF HeardBy, SlipWhenAsked, Asking, Judge, After, ruleVars, runVars, slipVars, histVars
<1>8. ASSUME NEW c \in Calls, CreateSlip(c) PROVE HeardBy(d)'
  BY <1>H, <1>S, <1>T, <1>b, <1>8
  DEF HeardBy, SlipWhenAsked, Asking, CreateSlip, ruleVars, runVars, histVars
<1>9. ASSUME NEW c \in Calls, Register(c) PROVE HeardBy(d)'
  BY <1>H, <1>T, <1>b, <1>9 DEF HeardBy, Asking, Register, ruleVars, runVars, histVars
<1>10. ASSUME NEW c \in Calls, Answer(c) PROVE HeardBy(d)'
  BY <1>H, <1>C, <1>T, <1>b, <1>10
  DEF HeardBy, Channel, Asking, Answer, Granted, Answers, Ballots, ruleVars, runVars,
      histVars
<1>11. ASSUME NEW c \in Calls, GiveUp(c) PROVE HeardBy(d)'
  BY <1>H, <1>T, <1>b, <1>11
  DEF HeardBy, Asking, GiveUp, ruleVars, runVars, slipVars, histVars
<1>12. ASSUME NEW c \in Calls, DropWaiter(c) PROVE HeardBy(d)'
  BY <1>H, <1>T, <1>b, <1>12 DEF HeardBy, Asking, DropWaiter, ruleVars, runVars, histVars
<1>13. ASSUME NEW c \in Calls, Unask(c) PROVE HeardBy(d)'
  BY <1>H, <1>T, <1>b, <1>13 DEF HeardBy, Asking, Unask, ruleVars, runVars, histVars
<1>14. ASSUME NEW v \in Votes, SaveVote(v) PROVE HeardBy(d)'
  <2> PICK e \in Calls, b \in Ballots : slip[e] # "none" /\ slip' = [slip EXCEPT ![e] = b]
    BY <1>14, SaveVoteAnswers
  <2> QED
    BY <1>H, <1>T, <1>b, <1>14 DEF HeardBy, SaveVote, callVars
<1>15. ASSUME Restart PROVE HeardBy(d)'
  BY <1>H, <1>T, <1>b, <1>15 DEF HeardBy, Asking, Restart, Inside, Interrupted
<1>16. CASE UNCHANGED <<got, pc, slip>>
  BY <1>H, <1>T, <1>16 DEF HeardBy, Asking
<1> QED
  BY <1>1, <1>2, <1>3, <1>4, <1>5, <1>6, <1>7, <1>8, <1>9, <1>10, <1>11, <1>12, <1>13,
     <1>14, <1>15, <1>16
  DEF Next, RunStep, CallBegins, CallStep, VoteStep, RuleStep, vars, ruleVars, runVars,
      callVars, slipVars, histVars, StartRun, FinishRun, TimeOut, Stop, StopRuns,
      LoseRequest, Vote, WriteRule, WriteReceipt, Deliver, SetRuleCheck, SetRuleWrite,
      PruneRules, SetSpaceRule, SetOperatorRule, Step

(* A slip that is shown has a caller. *)
LEMMA CallerStep == Inv /\ [Next]_vars => PendingHasCaller'
<1> SUFFICES ASSUME Inv, [Next]_vars, NEW d \in Calls PROVE HasCaller(d)'
  BY DEF PendingHasCaller, HasCaller
<1>C. Channel(d)
  BY DEF Inv, Channels
<1>P. HasCaller(d)
  BY DEF Inv, PendingHasCaller, HasCaller
<1>R. RunsStarted
  BY DEF Inv
<1>S. SlipWhenAsked
  BY DEF Inv
<1>b. /\ pc \in [Calls -> PCs]
      /\ slip \in [Calls -> SlipState]
      /\ stopping \in [step : {"none", "runs", "slips"}, scope : Chats \cup {NoChat,
                                                    WholeBot}]
      /\ runOf \in [Calls -> Runs \cup {NoRun}]
      /\ chatOf \in [Runs -> Chats \cup {NoChat}]
      /\ ch \in [Calls -> Answers \cup {Unset}]
      /\ runRow \in [Runs -> {"none", "running", "over"}]
      /\ vote \in [Votes -> [step : VoteSteps, call : Calls \cup {Unset}, ballot : Ballots]]
  BY DEF Inv, TypeOK
<1>1. ASSUME NEW r \in Runs, NEW chat \in Chats, StartRun(r, chat) PROVE HasCaller(d)'
  BY <1>P, <1>R, <1>b, <1>1
  DEF HasCaller, RunsStarted, StopWillReach, InScope, StartRun, ruleVars, callVars,
      slipVars, histVars
<1>2. ASSUME NEW scope \in Scopes, Stop(scope) PROVE HasCaller(d)'
  BY <1>P, <1>b, <1>2
  DEF HasCaller, StopWillReach, InScope, Stop, Released, Stopped, NoStop, ruleVars, callVars
<1>3. ASSUME StopRuns PROVE HasCaller(d)'
  BY <1>P, <1>b, <1>3
  DEF HasCaller, StopWillReach, InScope, StopRuns, ruleVars, callVars, slipVars, histVars
<1>4. ASSUME StopSlips PROVE HasCaller(d)'
  BY <1>P, <1>b, <1>4
  DEF HasCaller, StopWillReach, InScope, StopSlips, Interrupted, ruleVars, callVars,
      histVars
<1>5. ASSUME NEW c \in ToolCalls, NEW r \in Runs, ToolCall(c, r) PROVE HasCaller(d)'
  BY <1>P, <1>S, <1>b, <1>5
  DEF HasCaller, SlipWhenAsked, StopWillReach, InScope, ToolCall, StartCall, Reading,
      ruleVars, runVars, slipVars
<1>6. ASSUME NEW c \in RequestCalls, NEW r \in Runs \cup {NoRun}, RequestCall(c, r)
      PROVE  HasCaller(d)'
  BY <1>P, <1>S, <1>b, <1>6
  DEF HasCaller, SlipWhenAsked, StopWillReach, InScope, RequestCall, StartCall, Reading,
      ruleVars, runVars, slipVars
<1>7. ASSUME NEW c \in Calls, ReadOwn(c) PROVE HasCaller(d)'
  BY <1>P, <1>b, <1>7
  DEF HasCaller, StopWillReach, InScope, ReadOwn, ruleVars, runVars, slipVars, histVars
<1>8. ASSUME NEW c \in Calls, ReadSpace(c) PROVE HasCaller(d)'
  BY <1>P, <1>b, <1>8
  DEF HasCaller, StopWillReach, InScope, ReadSpace, ruleVars, runVars, slipVars, histVars
<1>9. ASSUME NEW c \in Calls, Decide(c) PROVE HasCaller(d)'
  BY <1>P, <1>b, <1>9
  DEF HasCaller, StopWillReach, InScope, Decide, After, ruleVars, runVars, slipVars,
      histVars
<1>10. ASSUME NEW c \in Calls, Judge(c) PROVE HasCaller(d)'
  BY <1>P, <1>b, <1>10
  DEF HasCaller, StopWillReach, InScope, Judge, After, ruleVars, runVars, slipVars, histVars
<1>11. ASSUME NEW c \in Calls, CreateSlip(c) PROVE HasCaller(d)'
  BY <1>P, <1>b, <1>11
  DEF HasCaller, StopWillReach, InScope, CreateSlip, ruleVars, runVars, histVars
<1>12. ASSUME NEW c \in Calls, Register(c) PROVE HasCaller(d)'
  BY <1>P, <1>b, <1>12
  DEF HasCaller, StopWillReach, InScope, Register, ruleVars, runVars, histVars
<1>13. ASSUME NEW c \in Calls, Answer(c) PROVE HasCaller(d)'
  <2>1. Cast(d, ch[d]) => slip[d] # "pending"
    BY DEF Cast, Inv, BallotsKept, BallotKept
  <2>2. c = d => (slip[d] # "pending" \/ StopWillReach(d))
    BY <1>C, <1>13, <2>1 DEF Channel, Answer
  <2> QED
    BY <1>P, <1>b, <1>13, <2>2 DEF HasCaller, StopWillReach, InScope, Answer, runVars
<1>14. ASSUME NEW c \in Calls, GiveUp(c) PROVE HasCaller(d)'
  BY <1>P, <1>b, <1>14
  DEF HasCaller, StopWillReach, InScope, GiveUp, ruleVars, runVars, slipVars, histVars
<1>15. ASSUME NEW c \in Calls, DropWaiter(c) PROVE HasCaller(d)'
  BY <1>P, <1>b, <1>15
  DEF HasCaller, StopWillReach, InScope, DropWaiter, ruleVars, runVars, histVars
<1>16. ASSUME NEW c \in Calls, Unask(c) PROVE HasCaller(d)'
  BY <1>P, <1>b, <1>16
  DEF HasCaller, StopWillReach, InScope, Unask, ruleVars, runVars, histVars
<1>17. ASSUME NEW v \in Votes, SaveVote(v) PROVE HasCaller(d)'
  BY <1>P, <1>b, <1>17
  DEF HasCaller, StopWillReach, InScope, SaveVote, Ballots, ruleVars, runVars, callVars,
      histVars
<1>18. ASSUME Restart PROVE HasCaller(d)'
  BY <1>P, <1>b, <1>18 DEF HasCaller, StopWillReach, InScope, Restart, Inside, Interrupted
<1>19. CASE UNCHANGED <<pc, slip, stopping, runOf, chatOf>>
  BY <1>P, <1>19 DEF HasCaller, StopWillReach, InScope
<1> QED
  BY <1>1, <1>2, <1>3, <1>4, <1>5, <1>6, <1>7, <1>8, <1>9, <1>10, <1>11, <1>12, <1>13,
     <1>14, <1>15, <1>16, <1>17, <1>18, <1>19
  DEF Next, RunStep, CallBegins, CallStep, VoteStep, RuleStep, vars, ruleVars, runVars,
      callVars, slipVars, histVars, FinishRun, TimeOut, LoseRequest, Vote, WriteRule,
      WriteReceipt, Deliver, SetRuleCheck, SetRuleWrite, PruneRules, SetSpaceRule,
      SetOperatorRule, Step

(* How far each call is held back at each step. *)
LEMMA FloorStep == Inv /\ [Next]_vars => Floors'
<1> SUFFICES ASSUME Inv, [Next]_vars, NEW d \in Calls PROVE Floor(d)'
  BY DEF Floors
<1>F. Floor(d)
  BY DEF Inv, Floors
<1>S. SlipWhenAsked
  BY DEF Inv
<1>V. BallotsKept
  BY DEF Inv
<1>b. /\ pc \in [Calls -> PCs]
      /\ read \in [Calls -> [own : Layer, space : Layer]]
      /\ auto \in [Calls -> BOOLEAN]
      /\ slip \in [Calls -> SlipState]
      /\ lowSpace \in [Calls -> 0 .. 3]
      /\ lowOp \in [Calls -> 0 .. 3]
      /\ vote \in [Votes -> [step : VoteSteps, call : Calls \cup {Unset}, ballot : Ballots]]
  BY DEF Inv, TypeOK
<1>t. /\ pc \in [Calls -> PCs]
      /\ lowSpace \in [Calls -> 0 .. 3]
      /\ lowOp \in [Calls -> 0 .. 3]
  BY <1>b
<1>n. lowSpace[d] \in 0 .. 3 /\ lowOp[d] \in 0 .. 3
  BY <1>t
<1>1. ASSUME StopSlips PROVE Floor(d)'
  BY <1>F, <1>b, <1>1
  DEF Floor, HeldBack, Reading, Asking, StopSlips, Interrupted, ruleVars, callVars, histVars
<1>2. ASSUME NEW c \in ToolCalls, NEW r \in Runs, ToolCall(c, r) PROVE Floor(d)'
  <2>1. Rank(space) \in Nat /\ Rank(LockedOp(op)) \in Nat
    BY StrictnessRange, RankRange
  <2>2. c \in Calls /\ StartCall(c, r)
    BY <1>2 DEF ToolCall, Calls
  <2>3. CASE c = d
    <3>1. /\ pc'[d] = "own" /\ lowSpace'[d] = Rank(space)
          /\ lowOp'[d] = Rank(LockedOp(op)) /\ space' = space /\ op' = op
      BY <1>t, <2>2, <2>3 DEF StartCall, ruleVars
    <3>2. lowSpace'[d] <= Rank(space') /\ lowOp'[d] <= Rank(LockedOp(op'))
      BY <2>1, <3>1
    <3>3. Rank(space') = Rank(space)' /\ LockedOp(op') = LockedOp(op)'
      BY DEF LockedOp
    <3> QED
      BY <3>1, <3>2, <3>3 DEF Floor, Reading, Asking, LockedOp
  <2>4. CASE c # d
    <3>1. /\ pc'[d] = pc[d] /\ lowSpace'[d] = lowSpace[d] /\ lowOp'[d] = lowOp[d]
      BY <1>t, <2>2, <2>4 DEF StartCall
    <3> QED
      BY <1>F, <2>2, <3>1 DEF Floor, HeldBack, LockedOp, StartCall, ruleVars, slipVars
  <2> QED
    BY <2>3, <2>4
<1>3. ASSUME NEW c \in RequestCalls, NEW r \in Runs \cup {NoRun}, RequestCall(c, r)
      PROVE  Floor(d)'
  <2>1. Rank(space) \in Nat /\ Rank(LockedOp(op)) \in Nat
    BY StrictnessRange, RankRange
  <2>2. c \in Calls /\ StartCall(c, r)
    BY <1>3 DEF RequestCall, Calls
  <2>3. CASE c = d
    <3>1. /\ pc'[d] = "own" /\ lowSpace'[d] = Rank(space)
          /\ lowOp'[d] = Rank(LockedOp(op)) /\ space' = space /\ op' = op
      BY <1>t, <2>2, <2>3 DEF StartCall, ruleVars
    <3>2. lowSpace'[d] <= Rank(space') /\ lowOp'[d] <= Rank(LockedOp(op'))
      BY <2>1, <3>1
    <3>3. Rank(space') = Rank(space)' /\ LockedOp(op') = LockedOp(op)'
      BY DEF LockedOp
    <3> QED
      BY <3>1, <3>2, <3>3 DEF Floor, Reading, Asking, LockedOp
  <2>4. CASE c # d
    <3>1. /\ pc'[d] = pc[d] /\ lowSpace'[d] = lowSpace[d] /\ lowOp'[d] = lowOp[d]
      BY <1>t, <2>2, <2>4 DEF StartCall
    <3> QED
      BY <1>F, <2>2, <3>1 DEF Floor, HeldBack, LockedOp, StartCall, ruleVars, slipVars
  <2> QED
    BY <2>3, <2>4
<1>4. ASSUME NEW c \in Calls, ReadOwn(c) PROVE Floor(d)'
  BY <1>F, <1>b, <1>4
  DEF Floor, HeldBack, Reading, Asking, ReadOwn, ruleVars, runVars, slipVars, histVars
<1>5. ASSUME NEW c \in Calls, ReadSpace(c) PROVE Floor(d)'
  BY <1>F, <1>b, <1>5
  DEF Floor, HeldBack, Reading, Asking, ReadSpace, ruleVars, runVars, slipVars, histVars
<1>6. ASSUME NEW c \in Calls, Decide(c) PROVE Floor(d)'
  <2> DEFINE m == Decision(read[c].own, read[c].space, op)
  <2>1. /\ Rank(read[c].space) <= Strictness(m)
        /\ Rank(LockedOp(op)) <= Strictness(m)
    BY DecisionHolds
  <2>2. /\ pc'[c] = After(m) /\ auto'[c] = (m = "auto")
        /\ slip' = slip /\ lowSpace' = lowSpace /\ lowOp' = lowOp
        /\ pc[c] = "op"
    BY <1>6, <1>b DEF Decide, slipVars, histVars
  <2> HIDE DEF m
  <2>3. CASE c = d
    <3>1. lowSpace[d] <= Strictness(m) /\ lowOp[d] <= Strictness(m)
      <4>1. lowSpace[d] <= Rank(read[d].space) /\ lowOp[d] <= Rank(LockedOp(op))
        BY <1>F, <2>2, <2>3 DEF Floor, Reading
      <4>2. /\ lowSpace[d] \in Nat /\ lowOp[d] \in Nat /\ Strictness(m) \in Nat
            /\ Rank(read[d].space) \in Nat /\ Rank(LockedOp(op)) \in Nat
        BY <1>n, StrictnessRange, RankRange
      <4> QED
        BY <2>1, <2>3, <4>1, <4>2
    <3>2. /\ m = "allow" => Strictness(m) = 0
          /\ m = "auto" => Strictness(m) = 1
          /\ m \notin {"allow", "auto", "deny"} => Strictness(m) <= 2
      BY DEF Strictness
    <3>3. lowSpace[d] \in Nat /\ lowOp[d] \in Nat
      BY <1>n
    <3>4. slip[d] = "none"
      BY <2>2, <2>3 DEF Inv, SlipWhenAsked, Reading
    <3>5. /\ pc'[d] = After(m) /\ auto'[d] = (m = "auto") /\ slip'[d] = "none"
          /\ lowSpace'[d] = lowSpace[d] /\ lowOp'[d] = lowOp[d]
      BY <2>2, <2>3, <3>4
    <3>6. CASE m = "allow"
      BY <3>1, <3>2, <3>3, <3>5, <3>6 DEF Floor, HeldBack, Reading, Asking, After
    <3>7. CASE m = "auto"
      BY <3>1, <3>2, <3>3, <3>5, <3>7 DEF Floor, HeldBack, Reading, Asking, After
    <3>8. CASE m = "deny"
      BY <3>5, <3>8 DEF Floor, Reading, Asking, After
    <3>9. CASE m \notin {"allow", "auto", "deny"}
      <4>1. Strictness(m) \in Nat
        BY StrictnessRange, RankRange
      <4> QED
        BY <3>1, <3>2, <3>3, <3>5, <3>9, <4>1 DEF Floor, HeldBack, Reading, Asking, After
    <3> QED
      BY <3>6, <3>7, <3>8, <3>9
  <2>4. CASE c # d
    BY <1>F, <1>b, <1>6, <2>4
    DEF Floor, HeldBack, Reading, Asking, Decide, ruleVars, slipVars, histVars
  <2> QED
    BY <2>3, <2>4
<1>7. ASSUME NEW c \in Calls, Judge(c) PROVE Floor(d)'
  <2>1. CASE c = d
    <3>1. slip[d] = "none" /\ auto[d] /\ lowSpace[d] <= 1 /\ lowOp[d] <= 1
      BY <1>F, <1>7, <2>1 DEF Inv, SlipWhenAsked, Floor, Judge
    <3>2. pc'[d] \in {"allowed", "denied", "create"}
      BY <1>b, <1>7, <2>1 DEF Judge, After
    <3> QED
      BY <1>n, <1>7, <3>1, <3>2
      DEF Floor, HeldBack, Reading, Asking, Judge, slipVars, histVars
  <2>2. CASE c # d
    BY <1>F, <1>b, <1>7, <2>2
    DEF Floor, HeldBack, Reading, Asking, Judge, ruleVars, slipVars, histVars
  <2> QED
    BY <2>1, <2>2
<1>8. ASSUME NEW c \in Calls, CreateSlip(c) PROVE Floor(d)'
  BY <1>F, <1>b, <1>8
  DEF Floor, HeldBack, Reading, Asking, CreateSlip, ruleVars, runVars, histVars
<1>9. ASSUME NEW c \in Calls, Register(c) PROVE Floor(d)'
  BY <1>F, <1>b, <1>9
  DEF Floor, HeldBack, Reading, Asking, Register, ruleVars, runVars, histVars
<1>10. ASSUME NEW c \in Calls, Answer(c) PROVE Floor(d)'
  BY <1>F, <1>S, <1>b, <1>10
  DEF Floor, SlipWhenAsked, HeldBack, Reading, Asking, Answer, ruleVars, runVars, histVars
<1>11. ASSUME NEW c \in Calls, GiveUp(c) PROVE Floor(d)'
  BY <1>F, <1>b, <1>11
  DEF Floor, HeldBack, Reading, Asking, GiveUp, ruleVars, runVars, slipVars, histVars
<1>12. ASSUME NEW c \in Calls, DropWaiter(c) PROVE Floor(d)'
  BY <1>F, <1>b, <1>12
  DEF Floor, HeldBack, Reading, Asking, DropWaiter, ruleVars, runVars, histVars
<1>13. ASSUME NEW c \in Calls, Unask(c) PROVE Floor(d)'
  BY <1>F, <1>b, <1>13
  DEF Floor, HeldBack, Reading, Asking, Unask, ruleVars, runVars, histVars
<1>14. ASSUME NEW v \in Votes, SaveVote(v) PROVE Floor(d)'
  <2> PICK e \in Calls, b \in Ballots : slip[e] # "none" /\ slip' = [slip EXCEPT ![e] = b]
    BY <1>14, SaveVoteAnswers
  <2>1. slip'[d] = "none" <=> slip[d] = "none"
    BY <1>b DEF Ballots
  <2> QED
    BY <1>F, <1>14, <2>1
    DEF Floor, HeldBack, Reading, SaveVote, ruleVars, callVars, histVars
<1>15. ASSUME NEW m \in RuleModes \cup {Unset}, SetSpaceRule(m) PROVE Floor(d)'
  <2>1. /\ lowSpace'[d] <= lowSpace[d] /\ lowSpace'[d] \in Nat
        /\ pc[d] \in Reading => lowSpace'[d] <= Rank(space)'
    <3>1. Rank(space') \in Nat
      BY StrictnessRange, RankRange
    <3> QED
      BY <1>n, <1>15, <3>1 DEF SetSpaceRule, Lowest, LockedOp
  <2>2. lowSpace[d] \in Nat /\ HeldBack(d) \in Nat /\ Rank(read[d].space) \in Nat
    <3>1. HeldBack(d) \in Nat
      BY DEF HeldBack
    <3>2. Rank(read[d].space) \in Nat
      BY StrictnessRange, RankRange
    <3> QED
      BY <1>n, <3>1, <3>2
  <2> QED
    BY <1>F, <1>15, <2>1, <2>2
    DEF Floor, HeldBack, Reading, Asking, SetSpaceRule, callVars, slipVars
<1>16. ASSUME NEW o \in [mode : RuleModes \cup {Unset}, locked : BOOLEAN],
              SetOperatorRule(o)
       PROVE  Floor(d)'
  <2>1. /\ lowOp'[d] <= lowOp[d] /\ lowOp'[d] \in Nat
        /\ pc[d] \in Reading => lowOp'[d] <= Rank(LockedOp(op))'
    <3>1. Rank(LockedOp(o)) \in Nat
      BY StrictnessRange, RankRange
    <3> QED
      BY <1>n, <1>16, <3>1 DEF SetOperatorRule, Lowest, LockedOp
  <2>2. lowOp[d] \in Nat /\ HeldBack(d) \in Nat /\ Rank(read[d].space) \in Nat
    <3>1. HeldBack(d) \in Nat
      BY DEF HeldBack
    <3>2. Rank(read[d].space) \in Nat
      BY StrictnessRange, RankRange
    <3> QED
      BY <1>n, <3>1, <3>2
  <2> QED
    BY <1>F, <1>16, <2>1, <2>2
    DEF Floor, HeldBack, Reading, Asking, SetOperatorRule, callVars, slipVars
<1>17. ASSUME Restart PROVE Floor(d)'
  BY <1>F, <1>b, <1>17 DEF Floor, HeldBack, Reading, Asking, Restart, Inside, Interrupted
<1>18. CASE UNCHANGED <<pc, read, auto, slip, lowSpace, lowOp, space, op>>
  BY <1>F, <1>18 DEF Floor, HeldBack, Reading, Asking
<1> QED
  BY <1>1, <1>2, <1>3, <1>4, <1>5, <1>6, <1>7, <1>8, <1>9, <1>10, <1>11, <1>12, <1>13,
     <1>14, <1>15, <1>16, <1>17, <1>18
  DEF Next, RunStep, CallBegins, CallStep, VoteStep, RuleStep, vars, ruleVars, runVars,
      callVars, slipVars, histVars, StartRun, FinishRun, TimeOut, Stop, StopRuns,
      LoseRequest, Vote, WriteRule, WriteReceipt, Deliver, SetRuleCheck, SetRuleWrite,
      PruneRules, Step

-----------------------------------------------------------------------------
(* The invariant holds in every state of every behaviour. *)
THEOREM InvHolds == Spec => []Inv
<1>1. Inv /\ [Next]_vars => Inv'
  BY TypeStep, SlipStep, BallotsStep, RunsStep, ChannelStep,
     HeardStep, CallerStep, FloorStep DEF Inv
<1> QED
  BY InvInit, <1>1, PTL DEF Spec

(* Every variable keeps its type and no waiter outlives its call (the map   *)
(* App.approvals is emptied by votes, stops and cancelled calls alike).     *)
THEOREM TypeCorrect == Spec => []TypeOK
<1>1. Inv => TypeOK
  BY DEF Inv
<1> QED
  BY InvHolds, <1>1, PTL

(* A slip that ListApprovals shows has a call that waits for it, or a stop  *)
(* that is about to settle it, whatever votes, stops and restarts there are. *)
THEOREM PendingHasCallerHolds == Spec => []PendingHasCaller
<1>1. Inv => PendingHasCaller
  BY DEF Inv
<1> QED
  BY InvHolds, <1>1, PTL

(* AuthorizeAction lets an asked call go on only after a person granted it. *)
THEOREM AskedNeedsYesHolds == Spec => []AskedNeedsYes
<1>1. Inv => AskedNeedsYes
  BY DEF Inv, Heard, HeardBy, Cast, AskedNeedsYes, Granted
<1> QED
  BY InvHolds, <1>1, PTL

(* emitDecision writes the vote before the call that waited for it resumes. *)
THEOREM ReceiptFirstHolds == Spec => []ReceiptFirst
<1>1. Inv => ReceiptFirst
  <2> SUFFICES ASSUME Inv, NEW c \in Calls, got[c] \in Ballots, runOf[c] # NoRun
               PROVE  <<c, got[c]>> \in receipts
    BY DEF ReceiptFirst
  <2>1. Cast(c, got[c])
    BY DEF Inv, Heard, HeardBy, Ballots
  <2> QED
    BY <2>1 DEF Cast, Inv, BallotsKept, BallotKept
<1> QED
  BY InvHolds, <1>1, PTL

(* layer: a floor that stood while a call read its rules holds that call,   *)
(* whatever is written between its three reads.                             *)
THEOREM NeverBelowFloorHolds == Spec => []NeverBelowFloor
<1>1. Inv => NeverBelowFloor
  <2> SUFFICES ASSUME Inv, NEW c \in Calls, pc[c] = "allowed"
               PROVE  HeldBack(c) >= lowSpace[c] /\ HeldBack(c) >= lowOp[c]
    BY DEF NeverBelowFloor
  <2>1. lowSpace[c] <= HeldBack(c) /\ lowOp[c] <= HeldBack(c)
    BY DEF Inv, Floors, Floor
  <2>2. HeldBack(c) \in Nat /\ lowSpace[c] \in Nat /\ lowOp[c] \in Nat
    <3>1. lowSpace \in [Calls -> 0 .. 3] /\ lowOp \in [Calls -> 0 .. 3]
      BY DEF Inv, TypeOK
    <3> QED
      BY <3>1 DEF HeldBack
  <2> QED
    BY <2>1, <2>2
<1> QED
  BY InvHolds, <1>1, PTL

-----------------------------------------------------------------------------
(* The approval gate implements Gate: from the invariant above, every step *)
(* of Approvals is a step of Gate or changes nothing Gate speaks of.       *)

(* What Gate sees of a call. *)
Unseen(c) == /\ Stage(c)' = Stage(c)
             /\ Told(c)' = Told(c)
             /\ Demanded(c)' = Demanded(c)

(* A step nobody sees is a stutter of Gate. *)
LEMMA UnseenStutters ==
  ASSUME \A c \in Calls : Unseen(c)
  PROVE  UNCHANGED GateSeen!vars
BY DEF Unseen, GateSeen!vars

(* A step in which one call moves and nothing else is seen is a move. *)
LEMMA OneMoves ==
  ASSUME NEW c \in Calls, NEW from, NEW to, Stage(c) = from, Stage(c)' = to,
         \A d \in Calls : Told(d)' = Told(d) /\ Demanded(d)' = Demanded(d),
         \A d \in Calls \ {c} : Stage(d)' = Stage(d)
  PROVE  GateSeen!Move(c, from, to)
BY DEF GateSeen!Move

(* What calls were told depends on the votes that were cast. *)
LEMMA ToldStays ==
  ASSUME Inv, NEW v \in Votes, NEW to, vote' = [vote EXCEPT ![v].step = to],
         vote[v].step # "cast", to # "cast", NEW c \in Calls
  PROVE  Told(c)' = Told(c)
<1>1. \A w \in Votes : /\ vote'[w].call = vote[w].call
                       /\ vote'[w].ballot = vote[w].ballot
                       /\ vote'[w].step = IF w = v THEN to ELSE vote[w].step
  BY VoteMoves DEF Inv, TypeOK
<1>2. \A w \in Votes : vote'[w].step = "cast" <=> vote[w].step = "cast"
  BY <1>1
<1> QED
  BY <1>1, <1>2 DEF Told

LEMMA GateInit == Init => GateSeen!Init
<1> SUFFICES ASSUME Init PROVE GateSeen!Init
  OBVIOUS
<1>1. \A c \in Calls : Stage(c) = "out" /\ Told(c) = {} /\ Demanded(c) = 0
  <2> TAKE c \in Calls
  <2>1. Stage(c) = "out"
    <3>1. pc[c] = "none"
      BY DEF Init
    <3> QED
      BY <3>1 DEF Stage, Reading
  <2>2. Told(c) = {}
    BY DEF Init, Told, NoVote
  <2>3. Demanded(c) = 0
    BY DEF Init, Demanded
  <2> QED
    BY <2>1, <2>2, <2>3
<1> QED
  BY <1>1 DEF GateSeen!Init

(* A call enters the gate with the floors that stand. *)
LEMMA EnterSeen ==
  ASSUME Inv, NEW c \in Calls, NEW r \in Runs \cup {NoRun}, StartCall(c, r)
  PROVE  GateSeen!Enter(c)
<1>t. pc \in [Calls -> PCs] /\ lowSpace \in [Calls -> 0 .. 3] /\ lowOp \in [Calls -> 0 .. 3]
  BY DEF Inv, TypeOK
<1>1. Stage(c) = "out" /\ Stage(c)' = "reading"
  BY <1>t DEF StartCall, Stage, Reading
<1>2. \A d \in Calls \ {c} : Stage(d)' = Stage(d) /\ Demanded(d)' = Demanded(d)
  BY <1>t DEF StartCall, Stage, Demanded
<1>3. \A d \in Calls : Told(d)' = Told(d)
  BY DEF StartCall, slipVars, Told
<1>4. Demanded(c)' \in 0 .. 3
  <2>1. Rank(space) \in 0 .. 3 /\ Rank(LockedOp(op)) \in 0 .. 3
    BY RankRange
  <2> QED
    BY <2>1, <1>t DEF StartCall, Demanded
<1> QED
  BY <1>1, <1>2, <1>3, <1>4 DEF GateSeen!Enter

(* The decision is made: through, to the model, to a person, or refused. *)
LEMMA DecideSeen ==
  ASSUME Inv, NEW c \in Calls, Decide(c)
  PROVE  GateSeen!LetThrough(c) \/ GateSeen!PutToModel(c) \/ GateSeen!Ask(c) \/ GateSeen!Refuse(c)
<1> DEFINE m == Decision(read[c].own, read[c].space, op)
<1>t. /\ pc \in [Calls -> PCs]
      /\ lowSpace[c] \in 0 .. 3 /\ lowOp[c] \in 0 .. 3
  BY DEF Inv, TypeOK
<1>1. /\ pc[c] = "op" /\ pc' = [pc EXCEPT ![c] = After(m)]
      /\ UNCHANGED <<vote, lowSpace, lowOp>>
  BY DEF Decide, slipVars, histVars
<1>2. Demanded(c) <= Strictness(m)
  <2>1. /\ Rank(read[c].space) <= Strictness(m)
        /\ Rank(LockedOp(op)) <= Strictness(m)
    BY DecisionHolds
  <2>2. lowSpace[c] <= Rank(read[c].space) /\ lowOp[c] <= Rank(LockedOp(op))
    BY <1>1 DEF Inv, Floors, Floor, Reading
  <2>3. Rank(read[c].space) \in Nat /\ Rank(LockedOp(op)) \in Nat /\ Strictness(m) \in Nat
    BY RankRange, StrictnessRange
  <2> HIDE DEF m
  <2> QED
    BY <2>1, <2>2, <2>3, <1>t DEF Demanded
<1>3. Stage(c) = "reading"
  BY <1>1 DEF Stage, Reading
<1>4. \A d \in Calls : Told(d)' = Told(d) /\ Demanded(d)' = Demanded(d)
  BY <1>1 DEF Told, Demanded
<1>5. \A d \in Calls \ {c} : Stage(d)' = Stage(d)
  BY <1>1, <1>t DEF Stage
<1>6. pc'[c] = After(m)
  BY <1>1, <1>t
<1>d. Demanded(c) \in Nat
  BY <1>t DEF Demanded
<1> HIDE DEF m
<1>7. CASE m = "allow"
  <2>1. Stage(c)' = "passed" /\ Demanded(c) = 0
    BY <1>2, <1>6, <1>7, <1>d DEF Stage, After, Strictness, Reading
  <2> QED
    BY <1>3, <1>4, <1>5, <2>1, OneMoves DEF GateSeen!LetThrough
<1>8. CASE m = "auto"
  <2>1. Stage(c)' = "judging" /\ Demanded(c) <= 1
    BY <1>2, <1>6, <1>8, <1>d DEF Stage, After, Strictness, Reading
  <2> QED
    BY <1>3, <1>4, <1>5, <2>1, OneMoves DEF GateSeen!PutToModel
<1>9. CASE m = "deny"
  <2>1. Stage(c)' = "refused"
    BY <1>6, <1>9 DEF Stage, After, Reading
  <2> QED
    BY <1>3, <1>4, <1>5, <2>1, OneMoves DEF GateSeen!Refuse, GateSeen!Within
<1>10. CASE m \notin {"allow", "auto", "deny"}
  <2>1. Stage(c)' = "asking" /\ Demanded(c) <= 2
    BY <1>2, <1>6, <1>10, <1>d DEF Stage, After, Strictness, Reading
  <2> QED
    BY <1>3, <1>4, <1>5, <2>1, OneMoves DEF GateSeen!Ask
<1> QED
  BY <1>7, <1>8, <1>9, <1>10

(* The model lets a call through, refuses it or leaves it to a person. *)
LEMMA JudgeSeen ==
  ASSUME Inv, NEW c \in Calls, Judge(c)
  PROVE  GateSeen!ModelLets(c) \/ GateSeen!Ask(c) \/ GateSeen!Refuse(c)
<1>t. pc \in [Calls -> PCs] /\ lowSpace[c] \in 0 .. 3 /\ lowOp[c] \in 0 .. 3
  BY DEF Inv, TypeOK
<1>1. Stage(c) = "judging" /\ Demanded(c) <= 2
  <2>1. lowSpace[c] <= 1 /\ lowOp[c] <= 1
    BY DEF Judge, Inv, Floors, Floor
  <2> QED
    BY <2>1, <1>t DEF Judge, Stage, Demanded, Reading
<1>2. \A d \in Calls : Told(d)' = Told(d) /\ Demanded(d)' = Demanded(d)
  BY DEF Judge, slipVars, histVars, Told, Demanded
<1>3. \A d \in Calls \ {c} : Stage(d)' = Stage(d)
  BY <1>t DEF Judge, Stage
<1>4. Stage(c)' \in {"passed", "asking", "refused"}
  BY <1>t DEF Judge, Stage, After, Reading
<1> QED
  BY <1>1, <1>2, <1>3, <1>4, OneMoves
  DEF GateSeen!ModelLets, GateSeen!Ask, GateSeen!Refuse, GateSeen!Within

(* A call resumes with its answer: it goes on only on a yes that was cast. *)
LEMMA AnswerSeen ==
  ASSUME Inv, NEW c \in Calls, Answer(c)
  PROVE  GateSeen!Grant(c) \/ GateSeen!Refuse(c)
<1>t. pc \in [Calls -> PCs] /\ ch[c] \in Answers \cup {Unset}
  BY DEF Inv, TypeOK
<1>1. Stage(c) = "asking"
  BY DEF Answer, Stage, Reading
<1>2. \A d \in Calls : Told(d)' = Told(d) /\ Demanded(d)' = Demanded(d)
  BY DEF Answer, histVars, Told, Demanded
<1>3. \A d \in Calls \ {c} : Stage(d)' = Stage(d)
  BY <1>t DEF Answer, Stage
<1>4. CASE Granted(ch[c])
  <2>1. Stage(c)' = "passed"
    BY <1>t, <1>4 DEF Answer, Stage, Reading
  <2>2. ch[c] \in {"allow_once", "always"} /\ Cast(c, ch[c])
    BY <1>t, <1>4 DEF Granted, Answers, Ballots, Inv, Channels, Channel
  <2>3. Told(c) \cap {"allow_once", "always"} # {}
    BY <2>2 DEF Cast, Told
  <2> QED
    BY <1>1, <1>2, <1>3, <2>1, <2>3, OneMoves DEF GateSeen!Grant
<1>5. CASE ~Granted(ch[c])
  <2>1. Stage(c)' = "refused"
    BY <1>t, <1>5 DEF Answer, Stage, Reading
  <2> QED
    BY <1>1, <1>2, <1>3, <2>1, OneMoves DEF GateSeen!Refuse, GateSeen!Within
<1> QED
  BY <1>4, <1>5

LEMMA UnaskSeen ==
  ASSUME Inv, NEW c \in Calls, Unask(c)
  PROVE  GateSeen!Refuse(c)
<1>t. pc \in [Calls -> PCs]
  BY DEF Inv, TypeOK
<1>1. Stage(c) = "asking" /\ Stage(c)' = "refused"
  BY <1>t DEF Unask, Stage, Reading
<1>2. \A d \in Calls : Told(d)' = Told(d) /\ Demanded(d)' = Demanded(d)
  BY DEF Unask, histVars, Told, Demanded
<1>3. \A d \in Calls \ {c} : Stage(d)' = Stage(d)
  BY <1>t DEF Unask, Stage
<1> QED
  BY <1>1, <1>2, <1>3, OneMoves DEF GateSeen!Refuse, GateSeen!Within

(* A vote that is delivered tells its call, whether or not it still listens. *)
LEMMA DeliverSeen ==
  ASSUME Inv, NEW v \in Votes, Deliver(v)
  PROVE  \E c \in Calls, answer \in Ballots : GateSeen!Tell(c, answer)
<1>t. /\ vote \in [Votes -> [step : VoteSteps, call : Calls \cup {Unset}, ballot : Ballots]]
      /\ pc \in [Calls -> PCs]
  BY DEF Inv, TypeOK
<1>1. PICK c \in Calls, b \in Ballots :
        vote[v].call = c /\ vote[v].ballot = b /\ slip[c] # "none"
  BY <1>t DEF Deliver, Step, Inv, BallotsKept, BallotKept
<1>2. Stage(c) \in {"asking", "passed", "refused"}
  BY <1>1, <1>t DEF Inv, SlipWhenAsked, Stage, Reading, PCs
<1>3. \A w \in Votes : /\ vote'[w].call = vote[w].call
                       /\ vote'[w].ballot = vote[w].ballot
                       /\ vote'[w].step = IF w = v THEN "cast" ELSE vote[w].step
  BY <1>t, VoteMoves DEF Deliver, Step
<1>4. \A d \in Calls : Told(d)' = IF d = c THEN Told(d) \cup {b} ELSE Told(d)
  BY <1>1, <1>3 DEF Told, Deliver, Step
<1>5. \A d \in Calls : Stage(d)' = Stage(d) /\ Demanded(d)' = Demanded(d)
  BY DEF Deliver, callVars, histVars, Stage, Demanded
<1>6. [d \in Calls |-> Told(d)]' = [[d \in Calls |-> Told(d)] EXCEPT ![c] = @ \cup {b}]
  BY <1>4
<1>7. GateSeen!Tell(c, b)
  BY <1>2, <1>5, <1>6 DEF GateSeen!Tell
<1> QED
  BY <1>7

(* A floor is changed while calls read. *)
LEMMA FloorSeen ==
  ASSUME Inv, UNCHANGED <<callVars, slipVars>>,
         lowSpace' \in [Calls -> 0 .. 3], lowOp' \in [Calls -> 0 .. 3],
         \A c \in Calls : /\ lowSpace'[c] <= lowSpace[c] /\ lowOp'[c] <= lowOp[c]
                          /\ pc[c] \notin Reading => lowSpace'[c] = lowSpace[c] /\ lowOp'[c] = lowOp[c]
  PROVE  GateSeen!Relent
<1>t. /\ lowSpace \in [Calls -> 0 .. 3] /\ lowOp \in [Calls -> 0 .. 3]
  BY DEF Inv, TypeOK
<1>1. \A d \in Calls : Stage(d)' = Stage(d) /\ Told(d)' = Told(d)
  BY DEF callVars, slipVars, Stage, Told
<1>2. \A d \in Calls : /\ Demanded(d)' \in 0 .. 3 /\ Demanded(d)' <= Demanded(d)
                       /\ Demanded(d) \in 0 .. 3
  <2> TAKE d \in Calls
  <2>1. lowSpace[d] \in 0 .. 3 /\ lowOp[d] \in 0 .. 3 /\ lowSpace'[d] \in 0 .. 3 /\ lowOp'[d] \in 0 .. 3
    BY <1>t
  <2>2. lowSpace'[d] <= lowSpace[d] /\ lowOp'[d] <= lowOp[d]
    OBVIOUS
  <2> QED
    BY <2>1, <2>2 DEF Demanded
<1>3. \A d \in Calls : Stage(d) # "reading" => Demanded(d)' = Demanded(d)
  <2> TAKE d \in Calls
  <2>1. pc[d] \in Reading => Stage(d) = "reading"
    BY DEF Stage, Reading
  <2> QED
    BY <2>1 DEF Demanded
<1> QED
  BY <1>1, <1>2, <1>3 DEF GateSeen!Relent

LEMMA RestartSeen ==
  ASSUME Inv, Restart
  PROVE  GateSeen!Down
<1>t. /\ vote \in [Votes -> [step : VoteSteps, call : Calls \cup {Unset}, ballot : Ballots]]
      /\ pc \in [Calls -> PCs]
  BY DEF Inv, TypeOK
<1>1. \A d \in Calls : Stage(d)' = IF Stage(d) \in GateSeen!Within THEN "refused" ELSE Stage(d)
  BY <1>t DEF Restart, Inside, Over, Stage, Reading, GateSeen!Within, PCs
<1>2. \A w \in Votes : /\ vote'[w].call = vote[w].call
                       /\ vote'[w].ballot = vote[w].ballot
                       /\ vote'[w].step = "cast" <=> vote[w].step = "cast"
  BY <1>t DEF Restart
<1>3. \A d \in Calls : Told(d)' = Told(d)
  BY <1>2 DEF Told
<1>4. \A d \in Calls : Demanded(d)' = Demanded(d)
  BY DEF Restart, Demanded
<1> QED
  BY <1>1, <1>3, <1>4 DEF GateSeen!Down

(* Every step is a step of Gate or is not seen. *)
LEMMA GateStep == Inv /\ [Next]_vars => [GateSeen!Next]_(GateSeen!vars)
<1> SUFFICES ASSUME Inv, [Next]_vars PROVE GateSeen!Next \/ UNCHANGED GateSeen!vars
  OBVIOUS
<1>t. /\ pc \in [Calls -> PCs]
      /\ vote \in [Votes -> [step : VoteSteps, call : Calls \cup {Unset}, ballot : Ballots]]
      /\ lowSpace \in [Calls -> 0 .. 3] /\ lowOp \in [Calls -> 0 .. 3]
  BY DEF Inv, TypeOK
<1>1. CASE UNCHANGED <<pc, vote, lowSpace, lowOp>>
  BY <1>1, UnseenStutters DEF Unseen, Stage, Told, Demanded
<1>2. ASSUME NEW c \in ToolCalls, NEW r \in Runs, ToolCall(c, r) PROVE GateSeen!Next
  BY <1>2, EnterSeen DEF ToolCall, Calls, GateSeen!Next
<1>3. ASSUME NEW c \in RequestCalls, NEW r \in Runs \cup {NoRun}, RequestCall(c, r)
      PROVE  GateSeen!Next
  BY <1>3, EnterSeen DEF RequestCall, Calls, GateSeen!Next
<1>4. ASSUME NEW c \in Calls, ReadOwn(c) \/ ReadSpace(c) \/ Register(c) \/ GiveUp(c)
                              \/ CreateSlip(c) \/ DropWaiter(c)
      PROVE  UNCHANGED GateSeen!vars
  <2>1. \A d \in Calls : Stage(d)' = Stage(d)
    BY <1>4, <1>t
    DEF ReadOwn, ReadSpace, Register, GiveUp, CreateSlip, DropWaiter, Stage, Reading
  <2>2. UNCHANGED <<vote, lowSpace, lowOp>>
    BY <1>4
    DEF ReadOwn, ReadSpace, Register, GiveUp, CreateSlip, DropWaiter, slipVars, histVars
  <2> QED
    BY <2>1, <2>2, UnseenStutters DEF Unseen, Told, Demanded
<1>5. ASSUME NEW c \in Calls, Decide(c) PROVE GateSeen!Next
  BY <1>5, DecideSeen DEF GateSeen!Next
<1>6. ASSUME NEW c \in Calls, Judge(c) PROVE GateSeen!Next
  BY <1>6, JudgeSeen DEF GateSeen!Next
<1>7. ASSUME NEW c \in Calls, Answer(c) PROVE GateSeen!Next
  BY <1>7, AnswerSeen DEF GateSeen!Next
<1>8. ASSUME NEW c \in Calls, Unask(c) PROVE GateSeen!Next
  BY <1>8, UnaskSeen DEF GateSeen!Next
<1>9. ASSUME NEW v \in Votes, NEW c \in Calls, NEW b \in Ballots, Vote(v, c, b)
      PROVE  UNCHANGED GateSeen!vars
  <2>1. \A w \in Votes \ {v} : vote'[w] = vote[w]
    BY <1>9, <1>t DEF Vote
  <2>2. vote[v].step # "cast" /\ vote'[v].step # "cast"
    BY <1>9, <1>t DEF Vote, NoVote
  <2>3. \A d \in Calls : Told(d)' = Told(d)
    BY <2>1, <2>2 DEF Told
  <2>4. UNCHANGED <<pc, lowSpace, lowOp>>
    BY <1>9 DEF Vote, callVars, histVars
  <2> QED
    BY <2>3, <2>4, UnseenStutters DEF Unseen, Stage, Demanded
<1>10. ASSUME NEW v \in Votes, SaveVote(v) \/ WriteRule(v) \/ WriteReceipt(v)
       PROVE  UNCHANGED GateSeen!vars
  <2>1. PICK to : /\ vote' = [vote EXCEPT ![v].step = to]
                  /\ vote[v].step # "cast" /\ to # "cast"
    BY <1>10 DEF SaveVote, WriteRule, WriteReceipt, Step
  <2>2. \A d \in Calls : Told(d)' = Told(d)
    BY <2>1, ToldStays
  <2>3. UNCHANGED <<pc, lowSpace, lowOp>>
    BY <1>10 DEF SaveVote, WriteRule, WriteReceipt, callVars, histVars
  <2> QED
    BY <2>2, <2>3, UnseenStutters DEF Unseen, Stage, Demanded
<1>11. ASSUME NEW v \in Votes, Deliver(v) PROVE GateSeen!Next
  BY <1>11, DeliverSeen DEF GateSeen!Next
<1>12. ASSUME NEW m \in RuleModes \cup {Unset}, SetSpaceRule(m) PROVE GateSeen!Next
  <2>1. Rank(m) \in 0 .. 3
    BY RankRange
  <2>2. /\ UNCHANGED <<callVars, slipVars, lowOp>>
        /\ lowSpace' = Lowest(lowSpace, Rank(m))
    BY <1>12 DEF SetSpaceRule
  <2>3. \A c \in Calls : lowSpace'[c] = IF pc[c] \in Reading /\ Rank(m) < lowSpace[c]
                                        THEN Rank(m) ELSE lowSpace[c]
    BY <2>2 DEF Lowest
  <2>4. /\ lowSpace' \in [Calls -> 0 .. 3] /\ lowOp' \in [Calls -> 0 .. 3]
        /\ \A c \in Calls : lowSpace'[c] <= lowSpace[c] /\ lowOp'[c] <= lowOp[c]
    BY <1>t, <2>1, <2>2, <2>3 DEF Lowest
  <2>5. GateSeen!Relent
    BY <2>2, <2>3, <2>4, FloorSeen
  <2> QED
    BY <2>5 DEF GateSeen!Next
<1>13. ASSUME NEW o \in [mode : RuleModes \cup {Unset}, locked : BOOLEAN], SetOperatorRule(o)
       PROVE  GateSeen!Next
  <2> DEFINE n == Rank(LockedOp(o))
  <2>1. n \in 0 .. 3
    BY RankRange
  <2>2. /\ UNCHANGED <<callVars, slipVars, lowSpace>>
        /\ lowOp' = Lowest(lowOp, n)
    BY <1>13 DEF SetOperatorRule
  <2> HIDE DEF n
  <2>3. \A c \in Calls : lowOp'[c] = IF pc[c] \in Reading /\ n < lowOp[c]
                                     THEN n ELSE lowOp[c]
    BY <2>2 DEF Lowest
  <2>4. /\ lowSpace' \in [Calls -> 0 .. 3] /\ lowOp' \in [Calls -> 0 .. 3]
        /\ \A c \in Calls : lowSpace'[c] <= lowSpace[c] /\ lowOp'[c] <= lowOp[c]
    BY <1>t, <2>1, <2>2, <2>3 DEF Lowest
  <2>5. GateSeen!Relent
    BY <2>2, <2>3, <2>4, FloorSeen
  <2> QED
    BY <2>5 DEF GateSeen!Next
<1>14. ASSUME Restart PROVE GateSeen!Next
  BY <1>14, RestartSeen DEF GateSeen!Next
<1> QED
  BY <1>1, <1>2, <1>3, <1>4, <1>5, <1>6, <1>7, <1>8, <1>9, <1>10, <1>11, <1>12, <1>13, <1>14
  DEF Next, RunStep, CallBegins, CallStep, VoteStep, RuleStep, vars, ruleVars, runVars,
      callVars, slipVars, histVars, StartRun, FinishRun, TimeOut, Stop, StopRuns, StopSlips,
      LoseRequest, SetRuleCheck, SetRuleWrite, PruneRules

-----------------------------------------------------------------------------
(* AuthorizeAction, DecideApproval, cancelRuns and the writers of the rules *)
(* implement Gate: who goes on, and on whose word, does not depend on how   *)
(* their steps interleave.                                                  *)
THEOREM GateImplemented == Spec => ImplementsGate
BY GateInit, GateStep, InvHolds, PTL DEF Spec, ImplementsGate, GateSeen!Spec
=============================================================================

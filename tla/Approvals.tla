------------------------------ MODULE Approvals ------------------------------
(***************************************************************************)
(* The gate every action of a Bot passes: the layered rules decide whether *)
(* a call goes on, is refused, is put to a model or waits for a person,    *)
(* while people vote, change the rules and stop runs and the control plane *)
(* restarts.                                                               *)
(* Code: internal/app/connectors_call.go (AuthorizeAction), secrets.go     *)
(* (DecideApproval), app.go (cancelRuns, recoverOrphans), worker.go        *)
(* (callRun, ruleDecision), operator.go and rules.go (the layers).         *)
(*                                                                         *)
(* One action of one connector: its rules are one row per layer.  Every    *)
(* read and write of the database is a step of its own, every section      *)
(* under App.mu one step.                                                  *)
(***************************************************************************)
EXTENDS Naturals

CONSTANTS
  ToolCalls,     \* calls made by a run's own goroutine, under its context
  RequestCalls,  \* calls that code in the box makes, under their request's
  NRuns,         \* runs, numbered as they are started
  Chats,         \* conversations of the Bot
  Scopes,        \* what is stopped: conversations, the whole Bot
  NVotes,        \* bound: votes people cast
  MaxChanges,    \* bound: changes of the rules
  MaxStops,      \* bound: stops of a conversation or of the Bot
  MaxCrashes,    \* bound: restarts of the control plane
  Fallback,      \* the mode in effect with no rule on any layer
  RuleModes      \* bound: the modes people set rules to

Modes == {"allow", "auto", "ask", "deny"}

WholeBot == "whole bot"
NoChat   == "no chat"

ASSUME CallsAssumption    == ToolCalls \cap RequestCalls = {}
ASSUME RunsAssumption     == NRuns \in Nat
ASSUME ScopesAssumption   == Scopes \subseteq Chats \cup {WholeBot}
ASSUME VotesAssumption    == NVotes \in Nat
ASSUME BoundsAssumption   == {MaxChanges, MaxStops, MaxCrashes} \subseteq Nat
ASSUME ModesAssumption    == Fallback \in Modes /\ RuleModes \subseteq Modes

Calls == ToolCalls \cup RequestCalls
Runs  == 1 .. NRuns
NoRun == 0
Votes == 1 .. NVotes

Unset == "unset"   \* the empty string of Go
Layer == Modes \cup {Unset}

VARIABLES
  (* The rules: the owner's row, the Workspace's floor, the operator's row. *)
  own, space, op,
  setting,    \* the mode a SetRule in progress has checked
  (* Runs, as far as approvals look at them. *)
  chatOf,     \* the run's conversation
  runRow,     \* Run.status
  live,       \* App.runs
  cancelled,  \* runs whose context is cancelled
  stopping,   \* cancelRuns in progress
  (* Calls inside AuthorizeAction. *)
  pc,         \* where the call is
  runOf,      \* the run it is attributed to
  read,       \* the layers it has read so far
  auto,       \* the decision it read was Auto
  lost,       \* requests whose caller went away
  got,        \* what came out of its channel
  (* Slips. *)
  slip,       \* Approval.Status
  waiters,    \* App.approvals
  ch,         \* the waiter's channel, of capacity one
  vote,       \* DecideApproval: the votes cast, and how far each is
  receipts,   \* decision events in the run log
  (* History. *)
  lowSpace,   \* the least the Workspace's floor was while the call read
  lowOp,      \* the same of the operator's locked row
  changes, stops, crashes

ruleVars == <<own, space, op, setting>>
runVars  == <<chatOf, runRow, live, cancelled, stopping>>
callVars == <<pc, runOf, read, auto, lost, got>>
slipVars == <<slip, waiters, ch, vote, receipts>>
histVars == <<lowSpace, lowOp, changes, stops, crashes>>
vars     == <<ruleVars, runVars, callVars, slipVars, histVars>>

Ballots   == {"allow_once", "always", "deny"}
Answers   == Ballots \cup {"canceled"}
SlipState == {"none", "pending", "interrupted"} \cup Answers
PCs       == {"none", "own", "space", "op", "judge", "create", "register",
              "wait", "drop", "unask", "allowed", "denied"}
Reading   == {"own", "space", "op"}
Over      == {"allowed", "denied"}
VoteSteps == {"none", "save", "rule", "receipt", "deliver", "cast", "lost"}

GrantedUnlessDenied(answer) == answer # "deny"  \* mutant: a stop grants
Granted(answer) == answer \notin {"deny", "canceled", Unset}

-----------------------------------------------------------------------------
(* The layers. *)

(* A mode nobody knows ranks as ask. *)
Strictness(m) == CASE m = "allow" -> 0 [] m = "auto" -> 1 [] m = "deny" -> 3
                   [] OTHER -> 2
Stricter(a, b) == IF Strictness(b) > Strictness(a) THEN b ELSE a
Looser(a, b)   == Strictness(a) < Strictness(b)

LockedOp(o) == IF o.locked THEN o.mode ELSE Unset

(* The nearest layer with a word speaks; a locked one is a floor. *)
Nearest(mine, sp, o) ==
  IF mine # Unset THEN mine
  ELSE IF sp # Unset THEN sp
  ELSE IF o.mode # Unset THEN o.mode ELSE Fallback

(* How much a floor holds back; none holds nothing. *)
Rank(floor) == IF floor = Unset THEN 0 ELSE Strictness(floor)

Held(val, floor) == IF floor = Unset THEN val ELSE Stricter(val, floor)

DecisionUnlocked(mine, sp, o) == Nearest(mine, sp, o)  \* mutant: no floors
Decision(mine, sp, o) == Held(Held(Nearest(mine, sp, o), sp), LockedOp(o))

-----------------------------------------------------------------------------
NoStop == [step |-> "none", scope |-> NoChat]
NoRead == [own |-> Unset, space |-> Unset]
NoVote == [step |-> "none", call |-> Unset, ballot |-> "deny"]

Init ==
  /\ own = Unset /\ space = Unset
  /\ op = [mode |-> Unset, locked |-> FALSE]
  /\ setting   = Unset
  /\ chatOf    = [r \in Runs |-> NoChat]
  /\ runRow    = [r \in Runs |-> "none"]
  /\ live      = {}
  /\ cancelled = {}
  /\ stopping  = NoStop
  /\ pc        = [c \in Calls |-> "none"]
  /\ runOf     = [c \in Calls |-> NoRun]
  /\ read      = [c \in Calls |-> NoRead]
  /\ auto      = [c \in Calls |-> FALSE]
  /\ lost      = {}
  /\ got       = [c \in Calls |-> Unset]
  /\ slip      = [c \in Calls |-> "none"]
  /\ waiters   = {}
  /\ ch        = [c \in Calls |-> Unset]
  /\ vote      = [v \in Votes |-> NoVote]
  /\ receipts  = {}
  /\ lowSpace  = [c \in Calls |-> 0]
  /\ lowOp     = [c \in Calls |-> 0]
  /\ changes   = 0
  /\ stops     = 0
  /\ crashes   = 0

-----------------------------------------------------------------------------
(* Runs.  The run engine's own module says how they start and end; here a  *)
(* conversation has one live run at a time and a run ends when no call of  *)
(* its goroutine is inside the gate.                                       *)

StartRun(r, chat) ==
  /\ runRow[r] = "none"
  /\ \A q \in 1 .. r - 1 : runRow[q] # "none"
  /\ \A q \in live : chatOf[q] # chat
  /\ chatOf' = [chatOf EXCEPT ![r] = chat]
  /\ runRow' = [runRow EXCEPT ![r] = "running"]
  /\ live' = live \cup {r}
  /\ UNCHANGED <<ruleVars, cancelled, stopping, callVars, slipVars, histVars>>

Inside(c) == pc[c] \notin Over \cup {"none"}

FinishRun(r) ==
  /\ r \in live
  /\ \A c \in ToolCalls : runOf[c] = r => ~Inside(c)
  /\ runRow' = [runRow EXCEPT ![r] = "over"]
  /\ live' = live \ {r}
  /\ UNCHANGED <<ruleVars, chatOf, cancelled, stopping, callVars, slipVars,
                 histVars>>

(* A run's deadline ends its context; nobody else is told. *)
TimeOut(r) ==
  /\ r \in live \ cancelled
  /\ cancelled' = cancelled \cup {r}
  /\ UNCHANGED <<ruleVars, chatOf, runRow, live, stopping, callVars, slipVars,
                 histVars>>

(* cancelRuns.  Under App.mu: the runs' contexts and the waiters of their  *)
(* calls; after it the rows of the runs, then those of the slips.          *)
Stopped(scope) == {r \in live : scope = WholeBot \/ chatOf[r] = scope}
Released(scope) == {c \in waiters : scope = WholeBot \/ runOf[c] \in Stopped(scope)}

Stop(scope) ==
  /\ stopping = NoStop
  /\ stops < MaxStops
  /\ stops' = stops + 1
  /\ cancelled' = cancelled \cup Stopped(scope)
  /\ live' = live \ Stopped(scope)
  /\ ch' = [c \in Calls |-> IF c \in Released(scope) /\ ch[c] = Unset
                            THEN "canceled" ELSE ch[c]]
  /\ waiters' = waiters \ Released(scope)
  /\ stopping' = [step |-> "runs", scope |-> scope]
  /\ UNCHANGED <<ruleVars, chatOf, runRow, callVars, slip, vote, receipts,
                 lowSpace,
                 lowOp, changes, crashes>>

InScope(r, scope) == scope = WholeBot \/ (r # NoRun /\ chatOf[r] = scope)

StopRuns ==
  /\ stopping.step = "runs"
  /\ runRow' = [r \in Runs |->
                  IF runRow[r] = "running" /\ InScope(r, stopping.scope)
                  THEN "over" ELSE runRow[r]]
  /\ stopping' = [stopping EXCEPT !.step = "slips"]
  /\ UNCHANGED <<ruleVars, chatOf, live, cancelled, callVars, slipVars, histVars>>

InterruptedNone(S) == slip    \* mutant: the rows are left as they are
Interrupted(S) == [c \in Calls |-> IF c \in S /\ slip[c] = "pending"
                                   THEN "interrupted" ELSE slip[c]]

StopSlips ==
  /\ stopping.step = "slips"
  /\ slip' = Interrupted({c \in Calls : InScope(runOf[c], stopping.scope)})
  /\ stopping' = NoStop
  /\ UNCHANGED <<ruleVars, chatOf, runRow, live, cancelled, callVars, waiters,
                 ch, vote, receipts, histVars>>

-----------------------------------------------------------------------------
(* Calls. *)

StartCall(c, r) ==
  /\ pc[c] = "none"
  /\ pc' = [pc EXCEPT ![c] = "own"]
  /\ runOf' = [runOf EXCEPT ![c] = r]
  /\ lowSpace' = [lowSpace EXCEPT ![c] = Rank(space)]
  /\ lowOp' = [lowOp EXCEPT ![c] = Rank(LockedOp(op))]
  /\ UNCHANGED <<ruleVars, runVars, read, auto, lost, got, slipVars, changes,
                 stops, crashes>>

(* A tool call of a live run's turn; one at a time. *)
ToolCall(c, r) ==
  /\ c \in ToolCalls
  /\ r \in live
  /\ \A d \in ToolCalls : runOf[d] = r => ~Inside(d)
  /\ StartCall(c, r)

(* callRun: a call from the box names a run; it counts only while the row  *)
(* says running, else the call is an orphan.                               *)
RequestCall(c, r) ==
  /\ c \in RequestCalls
  /\ r # NoRun => runRow[r] = "running"
  /\ StartCall(c, r)

ReadOwn(c) ==
  /\ pc[c] = "own"
  /\ read' = [read EXCEPT ![c].own = own]
  /\ pc' = [pc EXCEPT ![c] = "space"]
  /\ UNCHANGED <<ruleVars, runVars, runOf, auto, lost, got, slipVars, histVars>>

ReadSpace(c) ==
  /\ pc[c] = "space"
  /\ read' = [read EXCEPT ![c].space = space]
  /\ pc' = [pc EXCEPT ![c] = "op"]
  /\ UNCHANGED <<ruleVars, runVars, runOf, auto, lost, got, slipVars, histVars>>

After(m) == CASE m = "allow" -> "allowed" [] m = "deny" -> "denied"
              [] m = "auto"  -> "judge"   [] OTHER -> "create"

Decide(c) ==
  LET m == Decision(read[c].own, read[c].space, op)
  IN /\ pc[c] = "op"
     /\ auto' = [auto EXCEPT ![c] = (m = "auto")]
     /\ read' = [read EXCEPT ![c] = NoRead]
     /\ pc' = [pc EXCEPT ![c] = After(m)]
     /\ UNCHANGED <<ruleVars, runVars, runOf, lost, got, slipVars, histVars>>

(* Judge: the model says allow or deny, or anything else asks. *)
Judge(c) ==
  /\ pc[c] = "judge"
  /\ \E m \in {"allow", "deny", "ask"} : pc' = [pc EXCEPT ![c] = After(m)]
  /\ UNCHANGED <<ruleVars, runVars, runOf, read, auto, lost, got, slipVars,
                 histVars>>

CreateSlip(c) ==
  /\ pc[c] = "create"
  /\ slip' = [slip EXCEPT ![c] = "pending"]
  /\ pc' = [pc EXCEPT ![c] = "register"]
  /\ UNCHANGED <<ruleVars, runVars, runOf, read, auto, lost, got, waiters, ch,
                 vote, receipts, histVars>>

Register(c) ==
  /\ pc[c] = "register"
  /\ waiters' = waiters \cup {c}
  /\ pc' = [pc EXCEPT ![c] = "wait"]
  /\ UNCHANGED <<ruleVars, runVars, runOf, read, auto, lost, got, slip, ch,
                 vote, receipts, histVars>>

(* The answer and the end of the context may both be there: either is taken. *)
Answer(c) ==
  /\ pc[c] = "wait"
  /\ ch[c] # Unset
  /\ ch' = [ch EXCEPT ![c] = Unset]
  /\ got' = [got EXCEPT ![c] = ch[c]]
  /\ pc' = [pc EXCEPT ![c] = IF Granted(ch[c]) THEN "allowed" ELSE "denied"]
  /\ UNCHANGED <<ruleVars, runVars, runOf, read, auto, lost, slip, waiters,
                 vote, receipts, histVars>>

ContextOver(c) == IF c \in ToolCalls THEN runOf[c] \in cancelled ELSE c \in lost

GiveUpLost(c) ==    \* mutant: only the request's own end is noticed
  /\ pc[c] = "wait"
  /\ c \in lost
  /\ pc' = [pc EXCEPT ![c] = "drop"]
  /\ UNCHANGED <<ruleVars, runVars, runOf, read, auto, lost, got, slipVars,
                 histVars>>

GiveUp(c) ==
  /\ pc[c] = "wait"
  /\ ContextOver(c)
  /\ pc' = [pc EXCEPT ![c] = "drop"]
  /\ UNCHANGED <<ruleVars, runVars, runOf, read, auto, lost, got, slipVars,
                 histVars>>

DropWaiter(c) ==
  /\ pc[c] = "drop"
  /\ waiters' = waiters \ {c}
  /\ pc' = [pc EXCEPT ![c] = "unask"]
  /\ UNCHANGED <<ruleVars, runVars, runOf, read, auto, lost, got, slip, ch,
                 vote, receipts, histVars>>

Unask(c) ==
  /\ pc[c] = "unask"
  /\ slip' = [slip EXCEPT ![c] = IF @ = "pending" THEN "canceled" ELSE @]
  /\ pc' = [pc EXCEPT ![c] = "denied"]
  /\ UNCHANGED <<ruleVars, runVars, runOf, read, auto, lost, got, waiters, ch,
                 vote, receipts, histVars>>

(* The process in the box that asked is gone. *)
LoseRequest(c) ==
  /\ c \in RequestCalls \ lost
  /\ pc[c] = "wait"
  /\ lost' = lost \cup {c}
  /\ UNCHANGED <<ruleVars, runVars, pc, runOf, read, auto, got, slipVars,
                 histVars>>

-----------------------------------------------------------------------------
(* Votes: DecideApproval.  A person answers a slip they have seen, whatever *)
(* its status is by now.  always is the managers' and not for an Auto slip. *)

Vote(v, c, ballot) ==
  /\ vote[v] = NoVote
  /\ \A w \in 1 .. v - 1 : vote[w] # NoVote
  /\ slip[c] # "none"
  /\ ballot \in Ballots
  /\ ballot = "always" => ~auto[c]
  /\ vote' = [vote EXCEPT ![v] = [step |-> "save", call |-> c, ballot |-> ballot]]
  /\ UNCHANGED <<ruleVars, runVars, callVars, slip, waiters, ch, receipts,
                 histVars>>

Step(v, from, to) ==
  /\ vote[v].step = from
  /\ vote' = [vote EXCEPT ![v].step = to]

SaveVote(v) ==
  LET c == vote[v].call
  IN /\ vote[v].step = "save"
     /\ slip' = [slip EXCEPT ![c] = vote[v].ballot]
     /\ vote' = [vote EXCEPT ![v].step =
                   IF vote[v].ballot = "always" THEN "rule" ELSE "receipt"]
     /\ UNCHANGED <<ruleVars, runVars, callVars, waiters, ch, receipts, histVars>>

WriteRule(v) ==
  /\ Step(v, "rule", "receipt")
  /\ own' = "allow"
  /\ UNCHANGED <<space, op, setting, runVars, callVars, slip, waiters, ch,
                 receipts, histVars>>

WriteNoReceipt(v) ==    \* mutant: the receipt is forgotten
  /\ Step(v, "receipt", "deliver")
  /\ UNCHANGED <<ruleVars, runVars, callVars, slip, waiters, ch, receipts,
                 histVars>>

(* emitDecision: an orphan's slip belongs to no thread. *)
WriteReceipt(v) ==
  LET c == vote[v].call
  IN /\ Step(v, "receipt", "deliver")
     /\ receipts' = IF runOf[c] = NoRun THEN receipts
                    ELSE receipts \cup {<<c, vote[v].ballot>>}
     /\ UNCHANGED <<ruleVars, runVars, callVars, slip, waiters, ch, histVars>>

DeliverPending(v) ==    \* mutant: an answered slip is not delivered
  LET c == vote[v].call
  IN /\ Step(v, "deliver", "cast")
     /\ ch' = [ch EXCEPT ![c] = IF c \in waiters /\ slip[c] = "pending"
                                THEN vote[v].ballot ELSE @]
     /\ waiters' = waiters \ {c}
     /\ UNCHANGED <<ruleVars, runVars, callVars, slip, receipts, histVars>>

DeliverOften(v) ==    \* mutant: the waiter stays for the next vote
  LET c == vote[v].call
  IN /\ Step(v, "deliver", "cast")
     /\ ch' = [ch EXCEPT ![c] = IF c \in waiters /\ @ = Unset
                                THEN vote[v].ballot ELSE @]
     /\ UNCHANGED <<ruleVars, runVars, callVars, slip, waiters, receipts, histVars>>

Deliver(v) ==
  LET c == vote[v].call
  IN /\ Step(v, "deliver", "cast")
     /\ ch' = [ch EXCEPT ![c] = IF c \in waiters /\ @ = Unset
                                THEN vote[v].ballot ELSE @]
     /\ waiters' = waiters \ {c}
     /\ UNCHANGED <<ruleVars, runVars, callVars, slip, receipts, histVars>>

-----------------------------------------------------------------------------
(* The rules are changed.  SetRule looks at the floors, then writes; the   *)
(* floors themselves are one row each.                                     *)

Lowest(low, now) ==
  [c \in Calls |-> IF pc[c] \in Reading /\ now < low[c] THEN now ELSE low[c]]

SetRuleCheck(m) ==
  /\ setting = Unset
  /\ changes < MaxChanges
  /\ space # Unset => ~Looser(m, space)
  /\ LockedOp(op) # Unset => ~Looser(m, LockedOp(op))
  /\ setting' = m
  /\ changes' = changes + 1
  /\ UNCHANGED <<own, space, op, runVars, callVars, slipVars, lowSpace, lowOp,
                 stops, crashes>>

SetRuleWrite ==
  /\ setting # Unset
  /\ own' = setting
  /\ setting' = Unset
  /\ UNCHANGED <<space, op, runVars, callVars, slipVars, histVars>>

(* The rule's connector or secret is deleted, and its rules with it. *)
PruneRules ==
  /\ changes < MaxChanges
  /\ own' = Unset
  /\ changes' = changes + 1
  /\ UNCHANGED <<space, op, setting, runVars, callVars, slipVars, lowSpace, lowOp,
                 stops, crashes>>

SetSpaceRule(m) ==
  /\ changes < MaxChanges
  /\ m # "allow"
  /\ space' = m
  /\ changes' = changes + 1
  /\ lowSpace' = Lowest(lowSpace, Rank(m))
  /\ UNCHANGED <<own, op, setting, runVars, callVars, slipVars, lowOp,
                 stops, crashes>>

SetOperatorRule(o) ==
  /\ changes < MaxChanges
  /\ o.mode = Unset => ~o.locked
  /\ op' = o
  /\ changes' = changes + 1
  /\ lowOp' = Lowest(lowOp, Rank(LockedOp(o)))
  /\ UNCHANGED <<own, space, setting, runVars, callVars, slipVars, lowSpace,
                 stops, crashes>>

-----------------------------------------------------------------------------
(* The control plane restarts: what was in memory is gone, recoverOrphans  *)
(* settles the rows before it serves.                                      *)
Restart ==
  /\ crashes < MaxCrashes
  /\ crashes' = crashes + 1
  /\ setting' = Unset
  /\ live' = {}
  /\ cancelled' = {}
  /\ stopping' = NoStop
  /\ runRow' = [r \in Runs |-> IF runRow[r] = "running" THEN "over" ELSE runRow[r]]
  /\ pc' = [c \in Calls |-> IF Inside(c) THEN "denied" ELSE pc[c]]
  /\ slip' = Interrupted(Calls)
  /\ waiters' = {}
  /\ ch' = [c \in Calls |-> Unset]
  /\ vote' = [v \in Votes |-> IF vote[v].step \in {"none", "cast"} THEN vote[v]
                              ELSE [vote[v] EXCEPT !.step = "lost"]]
  /\ UNCHANGED <<own, space, op, chatOf, runOf, read, auto, lost, got, receipts,
                 lowSpace, lowOp, changes, stops>>

-----------------------------------------------------------------------------
CallStep(c) ==
  \/ ReadOwn(c) \/ ReadSpace(c) \/ Decide(c) \/ Judge(c)
  \/ CreateSlip(c) \/ Register(c)
  \/ Answer(c) \/ GiveUp(c) \/ DropWaiter(c) \/ Unask(c)

VoteStep(v) == SaveVote(v) \/ WriteRule(v) \/ WriteReceipt(v) \/ Deliver(v)

RunStep ==
  \/ \E r \in Runs, chat \in Chats : StartRun(r, chat)
  \/ \E r \in Runs : (FinishRun(r) \/ TimeOut(r))
  \/ \E scope \in Scopes : Stop(scope)
  \/ StopRuns \/ StopSlips

CallBegins ==
  \/ \E c \in ToolCalls, r \in Runs : ToolCall(c, r)
  \/ \E c \in RequestCalls, r \in Runs \cup {NoRun} : RequestCall(c, r)
  \/ \E c \in RequestCalls : LoseRequest(c)

RuleStep ==
  \/ \E m \in RuleModes : SetRuleCheck(m)
  \/ SetRuleWrite \/ PruneRules
  \/ \E m \in RuleModes \cup {Unset} : SetSpaceRule(m)
  \/ \E o \in [mode : RuleModes \cup {Unset}, locked : BOOLEAN] : SetOperatorRule(o)

Next ==
  \/ RunStep
  \/ CallBegins
  \/ \E c \in Calls : CallStep(c)
  \/ \E v \in Votes, c \in Calls, b \in Ballots : Vote(v, c, b)
  \/ \E v \in Votes : VoteStep(v)
  \/ RuleStep
  \/ Restart

Spec == Init /\ [][Next]_vars

(* A call's goroutine and a vote's handler run on; people, runs and         *)
(* processes in the box owe nothing.                                        *)
FairSpec ==
  /\ Spec
  /\ \A c \in Calls : WF_vars(CallStep(c))
  /\ \A v \in Votes : WF_vars(VoteStep(v))

-----------------------------------------------------------------------------
(* Properties. *)

(* Every variable keeps its type, and App.approvals holds only calls that *)
(* wait: no waiter outlives its call.                                     *)
TypeOK ==
  /\ own \in Layer /\ space \in Layer /\ setting \in Layer
  /\ op \in [mode : Layer, locked : BOOLEAN]
  /\ chatOf \in [Runs -> Chats \cup {NoChat}]
  /\ runRow \in [Runs -> {"none", "running", "over"}]
  /\ live \subseteq Runs
  /\ cancelled \subseteq Runs
  /\ stopping \in [step : {"none", "runs", "slips"},
                   scope : Chats \cup {NoChat, WholeBot}]
  /\ pc \in [Calls -> PCs]
  /\ runOf \in [Calls -> Runs \cup {NoRun}]
  /\ read \in [Calls -> [own : Layer, space : Layer]]
  /\ auto \in [Calls -> BOOLEAN]
  /\ lost \subseteq RequestCalls
  /\ got \in [Calls -> Answers \cup {Unset}]
  /\ slip \in [Calls -> SlipState]
  /\ waiters \subseteq {c \in Calls : pc[c] \in {"wait", "drop"}}
  /\ ch \in [Calls -> Answers \cup {Unset}]
  /\ vote \in [Votes -> [step : VoteSteps, call : Calls \cup {Unset},
                         ballot : Ballots]]
  /\ receipts \subseteq Calls \X Ballots
  /\ lowSpace \in [Calls -> 0 .. 3]
  /\ lowOp \in [Calls -> 0 .. 3]
  /\ changes \in Nat /\ stops \in Nat /\ crashes \in Nat

StopWillReach(c) ==
  stopping.step \in {"runs", "slips"} /\ InScope(runOf[c], stopping.scope)

(* A slip that is shown has a caller: no row stays pending after its call  *)
(* has returned, unless the stop that ended the call is about to settle it *)
(* (ListApprovals shows pending rows; cancelRuns, AuthorizeAction's        *)
(* cancelled path and recoverOrphans settle them).                         *)
PendingHasCaller ==
  \A c \in Calls : slip[c] = "pending" =>
    pc[c] \in {"register", "wait", "drop", "unask"} \/ StopWillReach(c)

(* A call that had to ask goes on only after a person granted it, by a vote *)
(* on this very slip that was saved first.                                  *)
AskedNeedsYes ==
  \A c \in Calls : pc[c] = "allowed" /\ slip[c] # "none" =>
    \E v \in Votes : /\ vote[v].call = c
                     /\ Granted(vote[v].ballot)
                     /\ vote[v].step \in {"cast", "lost"}

(* emitDecision: the vote is in the thread before the tool that waited for *)
(* it resumes.                                                             *)
ReceiptFirst ==
  \A c \in Calls : got[c] \in Ballots /\ runOf[c] # NoRun => <<c, got[c]>> \in receipts

(* How far a call was held back: let through, judged, or asked about. *)
HeldBack(c) ==
  IF slip[c] # "none" THEN 2 ELSE IF auto[c] THEN 1 ELSE 0

(* A floor that stood while a call read its rules holds that call, however *)
(* the three reads, the owner's unsynchronised writes and an "always" vote *)
(* that looks at no floor interleave (layer: a locked layer is a floor).   *)
NeverBelowFloor ==
  \A c \in Calls : pc[c] = "allowed" =>
    HeldBack(c) >= lowSpace[c] /\ HeldBack(c) >= lowOp[c]

(* A call that waits for a person, of a run nobody stopped and of a caller *)
(* that is still there, can be answered: its slip is shown, or a vote or a *)
(* stop on its way settles it (DESIGN.md: every approval also waits on the *)
(* Dashboard; ListApprovals shows the pending rows).                       *)
WaitsForAnswer(c) ==
  pc[c] = "wait" /\ ch[c] = Unset /\ ~ContextOver(c) /\ runOf[c] \notin cancelled

AskedIsListed ==
  \A c \in Calls : WaitsForAnswer(c) =>
    \/ slip[c] = "pending"
    \/ StopWillReach(c)
    \/ \E v \in Votes : vote[v].call = c /\ vote[v].step \in {"rule", "receipt", "deliver"}

(* A vote on a slip whose call waits resumes it, whoever else votes, stops *)
(* or restarts meanwhile (DecideApproval, AuthorizeAction).                *)
VoteResumes ==
  \A c \in Calls, v \in Votes :
    (pc[c] = "wait" /\ c \in waiters /\ vote[v].call = c /\ vote[v].step = "save")
      ~> pc[c] \in Over

(* A tool call of a stopped run leaves the gate (cancelRuns, ctx.Done). *)
StoppedCallEnds ==
  \A c \in ToolCalls : (runOf[c] \in cancelled /\ Inside(c)) ~> ~Inside(c)

(* Nobody waits at the gate after the answer or the stop that ends it.     *)
WaitEnds == VoteResumes /\ StoppedCallEnds

-----------------------------------------------------------------------------
(* The gate as its callers see it: the stage of each call, the answers it   *)
(* was given and the least the floors demanded of it.                       *)
Stage(c) ==
  CASE pc[c] = "none"       -> "out"
    [] pc[c] \in Reading    -> "reading"
    [] pc[c] = "judge"      -> "judging"
    [] pc[c] = "allowed"    -> "passed"
    [] pc[c] = "denied"     -> "refused"
    [] OTHER                -> "asking"

Told(c) == {vote[v].ballot : v \in {w \in Votes : vote[w].step = "cast" /\ vote[w].call = c}}

Demanded(c) == IF lowOp[c] > lowSpace[c] THEN lowOp[c] ELSE lowSpace[c]

GateSeen == INSTANCE Gate WITH
  Answers <- Ballots,
  Yes     <- {"allow_once", "always"},
  state   <- [c \in Calls |-> Stage(c)],
  said    <- [c \in Calls |-> Told(c)],
  demand  <- [c \in Calls |-> Demanded(c)]

(* AuthorizeAction, DecideApproval, cancelRuns and the layers together keep *)
(* what Gate promises: every step of the rows, channels, votes, stops and   *)
(* restarts is one of its steps or none.                                    *)
ImplementsGate == GateSeen!Spec
=============================================================================

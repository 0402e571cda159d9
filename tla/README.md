# Verification of the Silo control plane

TLA+ specifications of the control plane of Silo (`src/internal/app` and the
packages it talks to: the worker's hub, the egress gateway, the drive host, the
connectors, the console's stream), the TLC configurations that check them on
small instances, and TLAPS proofs of what should hold for any number of
conversations, runs, calls, votes, subagents, sessions, dials, viewers, boxes,
sign-ins and firings.

Contents: [1 The system](#1-the-system) · [2 Modules](#2-modules) ·
[3 The run engine](#3-the-run-engine) · [4 The approval gate](#4-the-approval-gate) ·
[5 Subagents](#5-subagents) · [6 Links](#6-links) · [7 Services](#7-services) ·
[8 What is proved](#8-what-is-proved) ·
[9 Disagreements](#9-disagreements-between-code-and-docs) ·
[10 Limits](#10-what-is-not-modelled) · [11 Plan](#11-plan) · [12 Running](#12-running)

## 1 The system

Silo runs Bots. A Bot is a container with a worker process, driven by one Go
control plane that keeps everything lasting in Postgres and the rest in memory.
People talk to a Bot from a web or iOS console, from channels (chat services,
mail, voice) or through automations. A *conversation* (chat) is a list of *runs*;
a run is a goroutine that alternates model turns and tool calls and writes an
append-only *event log*, from which the console shows the thread and the next
run rebuilds the model's context.

| Component | State it keeps | Operations | Hard behaviour | What makes it correct |
|---|---|---|---|---|
| **Run engine** `agent.go`, `messages.go`, `app.go` | `App.runs`, `App.ending`, `convMu`; `liveRun` (inbox, closed, turn); `runs` rows | StartRun, StartOrInject, StartIfIdle, runLoop, finish, StopRun, EditMessage, DeleteMessage, recoverOrphans | goroutine per run, messages and stops at any step, restart between any two | one live run per conversation; every accepted message read once, in order; rows and threads end, and agree |
| **Run log and replay** `agent_history.go`, `agent_events.go`, `compact.go` | `run_events` (serial `seq`, `meta`) | Emit, move behind, truncate, replay, compact | two runs write one log; anchors read before a model call | replay gives what the model was sent; no message skipped |
| **Slash commands** `commands.go` | the same | clear, wipe, compact, … | run beside a live run | a wipe leaves nothing |
| **Subagents** `subagents*.go` | `subagents` rows, wake channels and timers | spawn, message, stop, status, sleep, afterRun, wakeLead | reports debounced 750 ms, marked before they are delivered | each report reaches its lead once; none is left without a wake |
| **Approvals** `connectors_call.go`, `secrets.go` | `approvals` rows, `App.approvals` | AuthorizeAction, DecideApproval, ListApprovals | a row and an in-memory channel; votes, stops, timeouts race | no action without a yes; no slip without a caller |
| **Approval judge** `approval/` | none | Judge | a model that fails asks | never looser than ask on failure |
| **Rule layers** `operator.go`, `rules.go`, `space_rules.go`, `security/layers.go` | `rules`, `space_rules`, `operator_rules` | ruleDecision, SetRule, … | three queries beside writers; star rows | a floor holds |
| **Tool engine** `tool/tool.go`, `tools.go` | none | Run | gates, then the handler, then the output filter | the gates come first |
| **Worker sessions** `hub/hub.go`, `hub/tunnel.go`, `worker.go`, `vnc.go` | session per Bot, queue, waiting calls, lanes, tunnels | Attach, Detach, Drop, ExecResult, Resolve, FailAll, viewers and dials | a reconnect replaces the session; late and lost results; a dial given up as it is claimed | each call returns, at most one answer, none blocks under the lock |
| **Bot lifecycle** `bots.go`, `ui.go`, `containers.go` | lock per Bot, `bots` row, container, certificate | ensureRunning, live, haltBot, takeDown, dropBot, UpdateBot | slow Docker calls that fail, rows saved whole and late | row, container and worker agree between operations |
| **Automations** `automation/` | `automations` rows, log chats | FireDue, update, delete, Reschedule | a firing beside its edit; restart | a due slot fires once, an awake automation has a next slot |
| **Knowledge, memory** `knowledge/`, `memory/`, `collect.go` | documents, watermark | sync, collect | watermark beside rows that commit late or move | nothing read twice or passed over |
| **Changes** `changes/`, worker `history.go` | runs at work, snapshots, checkpoints | Begin, End, checkpoint, restore | snapshots of runs side by side; a restore that fails half-way | a write carries its run's name; nothing is lost by undoing |
| **Connectors** `connector/` | tokens per connection | call, refresh, OAuth sign-in | two sessions refresh one single-use token | the row keeps the newest token |
| **Channels, mail** `channel/`, `channels/`, `mailbox/` | workers, clients, lanes, seen ids | start, stop, update, deliver, send | at-least-once platforms; a successor beside its predecessor | a message enters once and in order |
| **Voice calls** `voice/` | call, turns, outbox, subscription | listen, follow, interrupt, end | four goroutines, a person speaking over a reply | nothing stale is said, the call ends |
| **Egress gateway** `egress/`, `internal/egress/` | policy, sessions, reports | Apply, Session, report | versions in flight over sessions that overlap | the newest policy wins, no report is filed twice |
| **Drives** `drive/`, `internal/drivehost/` | sign-in token in row, sidecar, rclone | apply, watch, refresh, restart | three holders of one token | they agree when all has arrived |
| **Search** `internal/search/` | breaker, bucket, cache | query | half-open probes | a probe at a time |
| **Sign-in, accounts** `auth/`, `account/`, `access/` | throttle, sessions | sign in | counter under load | limit holds |
| **Event bus** `app.go` | subscribers | Emit, subscribe | slow subscribers are cut | a viewer sees order or is cut |
| **Models** `internal/llm/`, `models/` | none | Stream | providers | outside |
| **Worker process** `cmd/silo-worker` | processes | exec, files, history | mostly I/O | partly with its sessions |
| **Console** `web/`, iOS | the thread it shows | useRunStream, chatBusy | reconnects, resets, moved messages | shows the log |
| **Artifacts, dashboard, feed** | rows, files | simple handlers | none | outside |

How they meet: people, channels, automations and subagents enter conversations
only through `StartOrInject` / `StartIfIdle` / `StartRun`. Runs call tools through
the tool engine, whose gate is `AuthorizeAction`; code in the container reaches
the same gate through the worker's API (`GetSecret`, `CallTool`). A tool that
needs the box waits for `ensureRunning` and then for an `ExecResult` of the
worker's session. Stops go through `cancelRuns`, which touches runs, their rows,
waiting approvals and, for a whole Bot, subagents. Whatever a run writes is
published on the event bus, from which consoles and calls follow it. Shared
memory is guarded by `App.mu` (short sections), `App.convMu` (a whole request),
`liveRun.injecting` and `liveRun.turnMu`, and a mutex of each service's own. The
database has no transactions around these sequences: each statement is a step.

The hazards of this code, each at its line, are in `PROJECT.json` under
`hazards`, with the properties that watch them and what those exempt.

## 2 Modules

| Module | What it is |
|---|---|
| `RunLog` | Constant module: the log of a conversation as a sequence of events, its order, truncation and replay. Operators only, shared by the engine. |
| `RunEngine`, `MCRunEngine` | State machine of the run engine over `RunLog`, and its instances |
| `RunEngineProofs` | theorems about it: the operators on a log, the control state, outcomes, data, places, cuts, what is read |
| `ConversationProofs` | the same engine where nobody disturbs it: order, rest, nothing forgotten or overtaken, replay |
| `Gate` | Abstract: a call is asked, told, demanded of by floors, and passes or is refused |
| `Approvals`, `MCApprovals` | State machine of the approval gate, its rule layers, votes and stops; implements `Gate` |
| `ApprovalsProofs` | theorems about it, and the refinement |
| `Subagents`, `MCSubagents` | A lead and its subagents: rows, runs, tool calls, nudges, wakes |
| `SubagentsProofs` | theorems about it |
| `Sessions`, `Lanes`, `Dials` | A worker's session and its calls; its desktop lane; its tunnels |
| `Viewers` | A console's stream of a run log over the event bus |
| `Egress`, `Reports` | The gateway's policy, down; its reports, up |
| `Channels`, `Voice` | A chat channel's workers and messages; a voice call |
| `MCLinks` | these eight in one run (section 6) |
| `Boxes` | A Bot's row, container and worker |
| `Automations`, `Tokens`, `Drives` | schedules; a connection's token; a drive's token |
| `Changes`, `History`, `Collector` | who changed the workspace; checkpoints and restore; the memory collector |
| `MCServices` | these seven in one run (section 7) |
| `WorkerProofs` | theorems about `Sessions`, `Lanes`, `Dials` |
| `LinksProofs` | theorems about `Viewers`, `Egress`, `Reports`, `Channels`, `Voice` |
| `ServicesProofs` | theorems about `Boxes`, `Automations`, `Tokens`, `Drives`, `Changes`, `History`, `Collector` |
| `SequenceFacts` | lemmas about queues that several of these cite |

Definitions that follow an action with a slight change (a dropped guard, a
missing reset, a swapped order) are plausible bugs: each property is broken by
one of them (`PROJECT.json`, `mutants`). A property that is a conjunction of
named parts is listed with one of them; further alternatives in the modules
break the other parts.

Granularity: a section under a mutex that does not wait inside is one step; every
database statement, Docker call, network message or channel operation that
another actor can come before or after is its own step; a section under `convMu`
is *not* one step, since stops, restarts and run goroutines do not take it.

Variables marked "history" in a module are not in the code: they record what a
property needs to tell apart, most of them the circumstance under which the
code is known not to keep a promise (section 9), so that the property can say
exactly what it exempts.

## 3 The run engine

### State

| Variable | Code |
|---|---|
| `log[c]` | the chat's `run_events` in `seq` order; `MoveBehind` is the `UPDATE … seq = nextval` |
| `row[r]`, `req[r]` | `Run.status` and what the run was started with |
| `live`, `ending` | `App.runs`, `App.ending` |
| `conv` | the holder of `App.convMu`: its operation and how far it is |
| `stopping` | `StopRun` between releasing `App.mu` and updating the rows |
| `cancelled` | contexts that ended |
| `inbox`, `closed` | `liveRun.inbox` (a channel of `InboxCap`), `liveRun.closed` |
| `taken` | messages `drainInbox` has received and not yet moved and read |
| `turn`, `endTurn` | `liveRun.stopTurn`/`turnCut`, `liveRun.endTurn` |
| `pc`, `hist`, `verdict`, `why`, `anchor`, `turns` | the goroutine's own variables (`msgs` is `hist`) |
| `sent`, `crashes`, `seen`, `sealed`, `wiped` | bounds and history for the properties |

### Actions

* **Requests under `convMu`** – `Send` (StartOrInject and StartIfIdle), `CompactChat`, `Clear`,
  `Edit`, `Delete`, `Wipe` begin; then `Look`, `InjectFind`, `InjectPush`,
  `InjectRefused`, `Recheck`, `StartCreate`, `StartRefused`, `StartTrack` (messages), and `CutCancel`, `CutRows`,
  `CutWaited` or `CutDeadline`, `Truncate`, `WipeDelete` (cuts).
* **Stops** – `Stop`, then `StopRows`; `TimeOut`. They do not take `convMu`.
* **The goroutine** – `Open`, `OpenCompact`, `NoModel`; `DrainTake`,
  `DrainMove` (one message at a time), `Drained`; `Check`; `CompactAnchor`,
  `CompactDone`/`CompactFailed`, `Fold`; `TurnOpen`, `Commit`, `Reply`,
  `StreamFailed`, `Overflow`, `Erred`; `Close` (the last look); `ToolTurn`,
  `ToolTalks`, `ToolAsks`, `ToolReturn`, `TurnEnd`; `SayStopped`, and `finish`
  as `SetStatus`, `Untrack`, `EmitDone`, `Exit`. A tool that writes in another
  conversation takes `convMu` by `ToolSend`/`ToolSendsNothing`.
* **`Restart`** – memory is gone; `recoverOrphans` marks rows and adds done events.

### Runs and bounds

`Features` selects which parts of the environment a run explores together; all
share the core (messages, turns, finishing). Two runs are enough for every pair
of neighbours in a conversation, and let a cut find one ending or over beside one that
is live; three messages (two beside cuts and stops) give one that opens a run, one that
is injected and one that finds the inbox full or closed. `InboxCap = 1`
makes a full inbox happen with two messages; summaries need two in the inbox.

| Run | Features | Checks | States |
|---|---|---|---|
| `RunEngineChat` | spoken, ask | `EngineSafe`, `ClosedInboxIsEmpty`, `MessagesRead`, `ReplayExact`, `AcceptedIsRead` | 29,403 |
| `RunEngineStop` | stop, timeout, error, compact, clear, wipe, one restart | `OneLiveRun`, `RunningHasRunner`, `RowTellsOutcome` | 644,191 |
| `RunEngineCut` | talk, edit, 2 conversations | `TalkEnds`, `CutIsFinal` | 203,701 |
| `RunEngineSummary` | auto, overflow, inbox of 2 | `NoMessageForgotten`, `NoOvertaking` | 15,587 |

`EngineSafe` is the type invariant with `IdleIsNotBusy` (a conversation nobody
works in does not show as busy); `MessagesRead` is `DoneReadAll` (a run that
ends by its own reply read all it accepted) with `ReadInOrder`: with `/compact` the
former does not hold (section 9), so the run leaves it out;
`CutIsFinal` says that a run which was over when a history was cut writes nothing into
it any more, and leaves out those the cut gave up waiting for; `AcceptedIsRead`
is `AcceptedBeforeLastLook` (no message is accepted after the last look) with the
liveness `InjectedIsRead`; `TalkEnds` is `LockIsReleased` with `StopEnds`.

`RowTellsOutcome`: once a run has set its status its row says how it ended, and
still does when it is over, although a stop whose rows are written behind
`App.mu`, or that came before the run was tracked, may mark a run stopped that goes
on and answers: `finish` comes after it. Only a restart between a run's status and its end
is exempt (section 9). A deleted row is "gone".

Deadlock is not checked: an idle control plane waits for a message.

### Fairness

`RunEngineChat` and `RunEngineCut` use `FairSpec`: weak fairness of the lock's holder, of
every goroutine's own work and of `StopRows` (Go schedules runnable goroutines
and handlers), strong fairness of a tool waiting for `convMu` (`sync.Mutex` hands
over in order once it is in starvation mode). People, channels, deadlines and
failures are not fair. The five-second deadline of a cut (`CutDeadline`) may pass for
any run that is still at work, however it is slow to unwind; it is the only way out
for one whose tool waits for the lock the cut holds.

## 4 The approval gate

Every action of a Bot goes through `AuthorizeAction`: the three rule layers
(owner, Workspace, operator) give allow, auto, ask or deny; auto asks a model; ask
creates a *slip* (`approvals` row), registers a waiter in `App.approvals` and parks
on its channel. `DecideApproval` saves the vote over the slip, may write the
owner's rule, writes a receipt into the thread and hands the vote to the waiter.
`cancelRuns` takes waiters under `App.mu` and settles rows after it.

### State

| Variable | Code |
|---|---|
| `own`, `space`, `op` | the decision of the owner's `Rule`, the `SpaceRule`, the `OperatorRule` (with `Locked`) of one action |
| `setting` | `SetRule` between its check and its write |
| `chatOf`, `runRow`, `live`, `cancelled`, `stopping` | runs as far as approvals look at them, and `cancelRuns` in progress |
| `pc`, `runOf`, `read`, `auto`, `lost`, `got` | a call inside `AuthorizeAction` |
| `slip`, `waiters`, `ch` | `Approval.Status`, `App.approvals`, `waiter.ch` (capacity one) |
| `vote`, `receipts` | `DecideApproval` in progress, the decision events |
| `lowSpace`, `lowOp` | history: the least each floor demanded while a call was reading |

`ToolCalls` run under their run's context, `RequestCalls` (GetSecret, CallTool
from the container) under their HTTP request's, which is the difference that
matters when a run ends. A call's reads of the three layers, the slip's row, its
waiter, and its four ways out are separate steps; so are a vote's save, rule,
receipt and delivery, and a stop's three parts. When the answer and the end of the context are
both there, Go's `select` takes either.

### The abstract gate

`Gate` has a state for each call (out, reading, judging, asking, passed,
refused), what people told it, and what the floors demanded while it read. A
call passes out of reading only if no floor demanded more than allow, out of
judging only if none demanded more than auto, out of asking only if somebody said yes;
a floor that is
lowered while a call reads holds it to the lower one only, and what people say
comes while it asks or too late.
`Approvals` implements it: `Stage(c)` maps the call's program counter, `Told(c)` the
ballots cast on its slip, `Demanded(c)` the higher of the two floors
(`ImplementsGate`, checked by `Approvals` and proved in `ApprovalsProofs`). The rows,
waiters, channels, receipts, stops and restarts of the code are thereby shown to be details: none
of them lets a call pass another way.

### Runs and bounds

| Run | Instance | Checks | States |
|---|---|---|---|
| `Approvals` | one tool call, two votes, two stops (conversation, whole Bot), one restart | `TypeOK`, `PendingHasCaller`, `AskedNeedsYes`, `ReceiptFirst`, `ImplementsGate`, `WaitEnds` | 179,024 |
| `ApprovalsRules` | two calls from the box, one vote, two changes of rules among auto and deny, locked or not | `NeverBelowFloor` | 653,477 |

One call is enough for the races on a slip: calls share no state but `App.approvals`, which is
keyed by slip, and the stop, which treats each alike. Two votes are one more than
the channel holds. For the rules, two calls are needed: the first is answered
"always" while the second reads; two changes put one before and one after the
reads. The proofs of section 8 do away with these bounds.

Fairness (`Approvals` only): a call's goroutine and a vote's handler run on (weak
fairness). People, runs, stops and processes in the box owe nothing: in
particular a call may wait for ever for a person. `WaitEnds` is `VoteResumes` (a
delivered vote ends the wait) with `StoppedCallEnds`.

What is simplified: one action of one connector with no star rows and no output
side; one stop in progress at a time; `mayAnswer` (a refused vote changes
nothing); a vote "always" of somebody who is not a manager is an
`allow_once`; a run starts and ends in one step each (section 3 has the steps)
and does not end while a call of its own goroutine is in the gate; a request is
lost only while it waits for a person, the only place that looks.

## 5 Subagents

A lead conversation spawns subagents, each a conversation of its own with one run
at a time. When a subagent's run ends, `afterRun` writes its result, nudges
the lead's live run through its wake channel, and arms a timer: 750 ms later `wakeLead` marks the
unread results as reported and starts a run of the lead that carries them, unless the lead
works already; a lead that ends asks for the same. The lead sleeps on its
wake channel, looks at results (`agent_status`), stops subagents, or is stopped itself.

| Variable | Code |
|---|---|
| `row` | the `subagents` rows: status, reported, and whose result they hold |
| `work` | the subagents' runs, from StartRun to the end of afterRun |
| `lead`, `call` | the lead's runs, and the tool call each is in |
| `wake` | `liveRun.wake` (a channel of eight; the model keeps whether a nudge waits in it) |
| `timer`, `due`, `waker` | `App.wakeTimers`; fired timers that wait for `convMu`; the `wakeLead` that has it |
| `hand` | a stop, a Bot's stop or a deletion under way |
| `chat` | the lead's row exists |
| `opened`, `shown`, `passed`, `lapse`, `failed` | history: results that opened a lead's run, that `agent_status` gave one, that the code passed over; that nothing looks for results any more; starts that failed |

`Subagents` (two subagents, two runs of theirs, two lead runs, three tool calls, one upset: a
failed start or a restart; 487,909 states) checks `OneLead` (one live run of the lead, although
people, `wakeLead` and the engine start them), `ToldOnce` (no result is brought by
two wakes), `NoLostWakeup` (a sleeper with news has its nudge, or it is on its way), `RunningIsBacked`,
`WakeIsOwed` (whenever a result is unread, something is under way that will look for it)
and the liveness `ResultReachesLead`: a result posted for the lead opens a run of it or
is given to one by `agent_status`, unless it is *passed over* – its subagent is messaged
again before it was read, a later result of the subagent replaces it, or a wake or an
`agent_status` marks it that had read an older one or answered a run already cut – or the
lead was stopped, its start failed, the control plane restarted or the chat is deleted.
Two runs let a subagent be resumed while its first result is
unread, or two subagents finish at once; `MaxDue = 1` a timer fire while another wake works.
A deleted subagent's number is used again only when no run or call of it is left.
Fairness: goroutines, timers and requests of the system go on; people
and models owe nothing.

## 6 Links

`MCLinks` explores eight state machines in one run: a variable `service` picks
one at the start, and the others stay as they began. They share no state in the
code (beside the session that ends them all), so each is explored as
if it were alone, with its own weak fairness; 735,552 states together. The
invariants of each are checked in every state; a liveness property of a machine is
stated so that it holds of the machine's initial state, or only for its own service.

| Module | Variables and the code | Actions |
|---|---|---|
| `Sessions` | `hub` (Hub.m), `session`, `stream`, `link` (what the worker believes), `queue` (Session.Send), `expected` (Session.wait), `call`/`at`/`reply` (ExecResult and its buffered channel), `job`/`halt` (the worker's command and its cancel), `coming` (answers in flight) | Attach, Detach, Drop, CloseAll/FailAll; Expect, send, wait, give up, cancel; the worker's loop; Resolve; a network that cuts |
| `Lanes` | `leave`, `pipes`, `ping` (the lane), viewers, feeds of the worker, frames pushed | viewers enter and leave, streams begin, serve, end; a push that finds the lane left |
| `Dials` | `listed` (Session.tunnels), `dial`, `claim`, `handed` (the buffered channel), `conn`, `drained` | DialTunnel, ClaimTunnel, deliver, abandonTunnel, the session's death |
| `Viewers` | `place`/`nextSeq`/`stage` (rows and emitters), `sub`/`bus` (subscription), `relay`/`anchor`/`sentIds` (StreamRun), `wire`, `thread` (useRunStream) | Emit's insert and publish, MoveBehind, truncation and its reset; subscribe, anchor, replay, follow, cut; read, reset, reconnect |
| `Egress` | `policy`, `owes`, `hubLink`, `sender`/`dirty`/`rendered` (Service.Session), `down`, `receiver`, `state`/`guard` (Gateway) | a change and its Apply, put, poke, render, send, end; dial, break, receive, install; the 30 s tick |
| `Reports` | `events` (Reporter), `uplink`, `flushing`/`batch`, `up` | record, drain, send, put back, drop the oldest; sessions that break |
| `Channels` | `row`, `editor`/`wants`, `cancels` (Service.cancel), `worker`, `client`, `seen`, `lane` | UpdateChannel/DeleteChannel and startChannel, a worker's start and deferred end (which takes the connection and what was seen from whoever has them now), a delivery and its repeat, a lane with a file fetched |
| `Voice` | `callState`, `reader`, `turns`, `listener`, `feedOf`, `follower`, `open`, `muted`, `outbox` | browser turns and interrupts, flush and mute, handing a turn to the chat, the bus, the follower's check and say, the ways a call ends |

What it checks:

| Property | Says |
|---|---|
| `SessionsSafe` | the Hub knows the open session however late an older stream ends; who answers under `Session.mu` finds room in every channel |
| `LanesSafe` | the newest viewer owns the lane |
| `DialsSafe` | no open connection into the box without an owner |
| `ViewersSafe` | a tab misses no event over any number of reconnections, shows nothing deleted, each once and in the log's order |
| `GatewaySafe` | `EgressSafe`: no change of policy is left unmarked on an open session, what the gateway decides by is never older than it was and of one apply; `ReportsSafe`: every report is in one place |
| `PeopleSafe` | `ChannelsSafe`: no worker runs that nobody can stop, a message is handed in order and once, unless what was seen was forgotten (`forgot`); `VoiceSafe`: nothing stale is queued to be said, nothing else goes unsaid, turns are dealt with before the call ends |
| `WaitsEnd` | `CallsEnd`, `PushReturns`, `OrphanCloses`, `InboundIsHanded`, `CallIsOver`: whoever waits is answered |
| `FollowersCatchUp` | `ViewerIsServed`, `ReportsGoUp`, `ViewerCatchesUp`, `GatewayCatchesUp`: whoever follows catches up |

Bounds: two sessions, calls, viewers, streams, dials, editors, answers, pieces,
turns and policies give a successor beside its predecessor; three events with one that
moves give an anchor with something before, at and behind it; three links and
uplinks let a session break twice; queues of one or two overflow.

Fairness: goroutines go on, a worker and a gateway dial again, a console
reconnects, the tick of the gateway comes. Networks, people, editors and
providers owe nothing; what breaks is bounded, so that there is a time without breaks
in which to catch up.

## 7 Services

`MCServices` explores seven machines the same way (637,169 states).

| Module | Variables and the code | Actions |
|---|---|---|
| `Boxes` | `row`, `copy` (what each operation holds of it), `box`/`running`/`rotated` (Docker), `linked` (the worker's stream), `heard` (Hub), `holder` (lockBot), `op`/`step` | ensureRunning step by step (dropStaleCA, trust, liveLocked, start, create, boot, save), live, haltBot, takeDown, dropBot, UpdateBot; worker sign-in, Docker's failures, rotation, restart |
| `Automations` | `now`, the row, `fire`/`slot` (FireDue), `edit`/`was`/`patch` (UpdateAutomation), `logged` | read due, claim, fire; read, patch, next slot, save; delete; Reschedule |
| `Tokens` | `cell`/`locked` (the shared cell), `stored`, `lent`, `provider`, `caller`/`got`, `signing` | Token(): lock, read, refresh, save; sign-ins; restart |
| `Changes` | `joined`, `ready`, `others`, `turn` (botState), tools and runs; `dirty` (whose writes no snapshot holds), `indexing` (the last checkpoint is partial); `owner`, `working` (RestoreChange) | Begin, its opening snapshot, End; the pane's look, which names nobody; a restore's two snapshots; snapshots that fail, are partial or leave writes |
| `History` | `disk`, `index`, `refs`, the restore's `stage`, `target`, `todo`, `undo` | writes; snapshots that add up to a budget, whose `git add` may get less, with stubs for some of the large files; expiry; looks; restore file by file |
| `Drives` | `kept` (row), `spec`/`last` (sidecar), `conf` (rclone), `applies`, `reports`, `rendered` | refresh, watch, exit, apply, report, sign in again, sessions lost |
| `Collector` | `place`/`filed` (rows), `memorySeq`, `collecting`, `collector`/`behind`/`upto`/`parts` | begin, read the watermark and the end, load, parts, advance; failures, restart |

| Property | Says |
|---|---|
| `BoxesSafe` | what ensureRunning just made is not removed as a stranger's (`FreshBoxKept`), between operations the row knows the token of the box there is, a connected worker is heard |
| `AutomationsSafe` | a firing is claimed only of a row that is due, an awake automation has a next slot |
| `TokensSafe` | the row keeps the last token of its family, no refresh is sent with a dead one |
| `WorkspaceSafe` | `ChangesSafe`: every write shown carries its run's name, unless the run's closing snapshot failed or left writes, or it overtook somebody's reading of who works; `HistorySafe`: a restore loses at most what its own snapshot did not get (`unkept`), can be undone, and puts back what it was asked for |
| `DrivesSafe` | when all has arrived the row and every sidecar agree, and know the newest token |
| `CollectorSafe` | each event is read once, and none is passed over |
| `ServicesGoOn` | `EnsuredConnects`, `DueIsFired`, `RunLeaves`, `CollectorCatchesUp` |

Bounds: three operations on a box are a maker, one that takes it down and one
that read the row before; two containers give a stranger; one fault of Docker. Two
edits of an automation and three ticks; two sign-ins and two sessions with one
restart; two runs of two tools, one restore and one snapshot that fails or leaves writes;
two files with two contents, a checkpoint budget of one, one stub, one add that fails; three events in parts of one with a
limit of two parts; two Bots with one drive, queues of one, two lost sessions.

Fairness: operations that began go on, the scheduler ticks, the sweep of the
collector comes, mutexes are handed on. Docker's faults, restarts and providers'
errors are bounded.

## 8 What is proved

For every value of the constants, under the assumptions named in the modules (bounds are
naturals, channels have room for one, `Chats` is not empty, `Features` are names of
features; for the gate: `NRuns` is a natural, `Scopes` are conversations or the whole
Bot, `Fallback` and `RuleModes` are modes; for automations: `Schedules` is a finite set
of naturals with 0 for none). Every safety property that a passing run checks is stated
by a theorem, some of them under a hypothesis named below.

| Theorem | Module | Establishes |
|---|---|---|
| `ControlTypeCorrect`, `TypeCorrect` | `RunEngineProofs` | types of the control state; of every variable, the log and the histories too |
| `OneLiveRunHolds` | | never two live runs in a conversation |
| `ClosedInboxIsEmptyHolds` | | a closed inbox holds nothing |
| `RunningHasRunnerHolds` | | a row that says running has somebody to end it |
| `RowTellsOutcomeHolds` | | a run's row says how it ended |
| `CutIsFinalHolds` | | no run that was over when a history was cut writes into it any more |
| `DoneReadAllHolds` | | a run that ends done has had all it was handed read; where nobody asks for a summary (`"compact" \notin Features`) |
| `MessagesReadHolds` | `ConversationProofs` | that, and in the order they were sent, each at most once; undisturbed |
| `EngineSafeHolds` | | an idle conversation does not show as busy; undisturbed |
| `NoMessageForgottenHolds` | | an unread message waits for a run or is in what the log replays to; undisturbed |
| `NoOvertakingHolds` | | no message is read before an older one of its conversation; undisturbed |
| `ReplayExactHolds` | | what a run sends the model is what its log replays to; undisturbed and without automatic summaries |
| `TypeCorrect` | `ApprovalsProofs` | types; `App.approvals` holds only calls that wait |
| `PendingHasCallerHolds` | | a slip that is shown has a caller, or a stop about to settle it |
| `AskedNeedsYesHolds` | | an asked call goes on only after a saved yes on this slip |
| `ReceiptFirstHolds` | | the receipt is in the log before the call resumes |
| `NeverBelowFloorHolds` | | what a floor demanded while a call read holds the call |
| `GateImplemented` | | `Approvals` implements `Gate` |
| `TypeCorrect` | `SubagentsProofs` | types of rows, runs, calls and wakes |
| `OneLeadHolds` | | one live run of the lead |
| `NoLostWakeupHolds` | | a sleeping lead with news has its nudge |
| `WakeIsOwedHolds` | | an unread result has somebody who will look |
| `ToldOnceHolds` | | no wake brings a result that an earlier one brought |
| `RunningIsBackedHolds` | | a row that says running has a run, a call about to start one, or a start that failed |
| `SessionsSafeHolds` | `WorkerProofs` | the Hub knows the open session, nobody blocks under its lock |
| `LanesSafeHolds` | | the newest viewer owns the lane |
| `DialsSafeHolds` | | no open connection without an owner |
| `ViewersSafeHolds` | `LinksProofs` | a tab with nothing on its way shows every row, in order |
| `GatewaySafeHolds` | | a gateway is owed the policy it lacks; a report is in one place |
| `PeopleSafeHolds` | | messages of a channel in order, and once while what was seen is kept; nothing that was cut is said |
| `BoxesSafeHolds` | `ServicesProofs` | row, container and worker agree between operations |
| `TokensSafeHolds` | | the row keeps the newest token |
| `AutomationsSafeHolds` | | only due rows fire, awake ones have a next slot |
| `WorkspaceSafeHolds` | | changes are put down to their runs; what a restore replaces can be had back, as far as its snapshot got it |
| `DrivesSafeHolds` | | row and mounts agree on the newest token once all has arrived |
| `CollectorSafeHolds` | | each event is read at most once, none is passed over |

The properties of a module exempt, by a history variable, what the code is known not to
keep (section 9); the theorems state them as the runs check them. Six theorems also
have a hypothesis on `Features`:

* `"compact" \notin Features` (`DoneReadAllHolds`): `/compact` folds a message sent
  meanwhile into its summary without answering it.
* `Undisturbed`: any of clear, automatic summary, overflow, spoken cut, question and
  tools that write elsewhere, but no stop, timeout, failure, edit, deletion, `/compact`
  or restart. A run that is stopped or fails does not close its inbox, so that a message
  may find its way there, and its event into the log, behind the run's last word; cuts
  remove events of runs that are not at work; a restart may come between a run's row and
  its `done`.
* `Unsummed`, which adds that no run sums up on its own: a summary's anchor may be the
  late `done` of an earlier run, and replay then repeats what the summary stands for
  (TLC shows it for `ReplayExact` when `auto` is added to `RunEngineChat`).

Each hypothesis holds of the run that checks the property.

No property is inductive alone. The strengthenings, with what each part is for:

* **Logs.** `Keep`, `Ordered` and `Replay` are recursive functions or folds. What they
  return for every log is proved by induction over a set of numbers (`NumbersUpTo`,
  `StepByStep`): a set that has 0 and, with every number below a bound, the next one,
  has all up to the bound. So an ordered log has the events of the log, run by run
  (`OrderedIs`), a message moved behind the others leaves these in their order
  (`MovesIs`), and a replay tells what is behind the last clear and summary
  (`ReplayIs`).
* **Run engine.** `Lock` (what the holder of `convMu` works on), `Alone` (between the
  last look for a live run and tracking the new one the conversation has none, which is
  what the lock is for), `HasRow` (a live run has a row, so no new run takes its number)
  and `Stages` (a goroutine that sets its status has decided one; a committed turn is
  within its bound). One lemma for each group of actions shows that it is kept. For
  outcomes, `Rowless` is added: a run without a row does nothing, and the run whose tool
  holds the lock has one. For the data, `LogInv` says that each event is of a run with a
  row in that conversation; `Authored`, who writes in a step.
* **Places and cuts.** `PlaceInv`: who is tracked is at work, an unstopped run is live
  until its last look, runs are numbered in the order of their rows, only the newest run
  of a conversation is live or found by a message. `CutInv`: whoever was over when a cut
  came is at rest, and nothing finds it again.
* **What is read.** `ReadInv`: from its opening on, each message a run was handed waits
  for it, is in its history or has been read; a run that is done has none waiting and
  can be found by none.
* **Order.** `OrderInv`: a message belongs to one run, those of a later run were sent
  later (`Dealt`); what waits for a run waits in that order, behind all it was handed
  before (`InLine`); its messages lie in the log in that order, but those a drain has
  yet to move (`LogOrder`); a history tells messages of its run and of earlier ones,
  none that waits (`Histories`).
* **Rest.** `Ended`: behind whatever a run has opened in a thread it has said that it is
  over.
* **Forgotten, overtaken.** `WellDone`: an undisturbed run ends well. `Latest`: a
  message that a summary of its run comes behind is no longer in the history by itself,
  so it was read with what is summed up. An older unread message would be of the same
  run, where it waits in line, or of an earlier one, which is done and has read it.
* **Replay.** `Shows` says that a list of items shows a set of places of the log, each
  once, in the readers' order; `ShownOnce`, that there is one such list. The run's text
  and the replay both show what a reader sees but for what waits to be drained (`Exact`,
  `KeptShows`), so they are equal. `AnsweredAll` and `AskedAll` are needed because
  replay drops a result that does not come right behind its turn: only messages that
  wait, and will move, come between.
* **Gate.** The invariant follows an answer from the vote to the call: a vote is on a
  slip that exists, whose row is settled once the vote is saved and which has its
  receipt before delivery (`BallotsKept`); what is in a channel was cast by such a vote,
  or sent by a stop that will still settle the row (`Channels`); what a call heard was
  cast (`Heard`). `Floors` carries, for each step of the reading, the bound already read
  and the bound still to be read; its key lemma `DecisionHolds` is about the layers
  alone: the decision is at least as strict as the Workspace's floor and as the locked
  operator row. Together with "allow only from allow, judged at least auto, slip at
  least ask" it gives `NeverBelowFloor` although an "always" vote and a racing `SetRule`
  write the owner's rule below a floor: the rule is written, but the layers hold the
  call. The refinement uses the same invariant: each step of `Approvals` from a state
  that satisfies it is a step of `Gate` or none (`GateStep`, with one lemma for each
  kind of step that `Gate` can see).
* **Subagents.** `WakerAlone` (nobody starts a run of the lead between `wakeLead`'s look
  and its start), `CallsRun` (only a run at work is in a call), `EndKnown` (a run that
  reports knows how it ended), `ResultsKnown` (a result is of a run that has posted it),
  `NewsUntold` (what a row offers, and what a wake carries, no wake has told).
* **Worker.** Dials: `DialKnown` – while a dial is listed nobody has claimed it, and
  whoever claims it finds a dialer, or the goroutine of `abandonTunnel` that will close
  what is delivered. Lanes: viewers come in turn (`InTurn`). Sessions: `OnStream` (what
  is on a queue, at the worker or on its way back is of a call on a known stream) and
  `FreshIsSilent` (nobody has answered a call that does not expect it yet), from which
  the buffered channel of one has room for the one answer.
* **Links.** Egress: one session at a time (`LinksInTurn`) and versions that never fall
  from the database over the stream to the guard (`VersionsGrow`, `FlightGrows`).
  Reports: each event is in one place (`EventsApart`), and who holds a batch will put it
  back or has handed it on (`BatchHasFlush`). Channels: while edits do not cross, who
  stopped the worker finds none (`EditsAlone`); delivered, waiting and handled messages
  follow one another (`LineKept`). Voice: the feed holds whole turns (`FeedInOrder`),
  the follower knows which is cut (`FollowerKnows`), and a piece of a cut turn is about
  to be cleared or will not pass (`CutIsCaught`). Viewers: what a stream has yet to tell
  its tab is on the wire or the bus or a reset comes (`StreamKnows`, `NothingSkipped`,
  `ResetComes`).
* **Boxes.** `LockHeld` (who is between lock and unlock is the holder), `CopiesKnow`
  (whoever reads the row under the lock has its token, unless a whole row was saved over
  a newer one beside it), `TokenKnown` (the row has the box's token, unless the box is
  being made, and then its maker has it from the moment it runs) and `StreamKnown` (a
  stream is of the box that runs, and heard while nobody takes the box down).
* **Services.** Tokens: `LockGuards`, `FamiliesKnown`, `InStep` – between the provider's
  answer and the row the provider is one token ahead, and stays so only if that answer
  is lost. Automations: `SlotIsRow` – while a firing waits to be claimed, a row that
  still shows the slot it was read for is the row that was read, since every change of
  what decides about it moves the slot; that is why the claim's `WHERE next_run_at = ?`
  is enough. Changes: who snapshots has the turn (`TurnHeld`), and writes no snapshot
  holds are of runs that will close (`DirtyKnown`). History: what a restore has put back
  and what it has not (`RestoreKnown`). Drives: tokens go down from the row and up from
  a mount (`DownFromRow`, `UpFromMount`), and the newest is always held somewhere
  (`NewestIsHeld`). Collector: one at a time (`OneCollects`), whose parts cover what
  lies behind the watermark (`PartsKnown`, `TakenKnown`).

**Only model-checked:** all liveness (`AcceptedIsRead`, `TalkEnds`, `WaitEnds`,
`ResultReachesLead`, `WaitsEnd`, `FollowersCatchUp`, `ServicesGoOn`), and with it every
ENABLED, which is out of the prover's reach; and what runs say under features that the
hypotheses above leave out, where the properties hold with exemptions that the runs' own
features express.

## 9 Disagreements between code and docs

With a run that TLC finds violated:

| Run | What happens | What the repository says |
|---|---|---|
| `FindingDeletedReturns` | `UpdateBot` saves the whole row it read without the Bot's lock (`ui.go:289`); when `dropBot` erased the row in between, the save inserts it again. | `ui.go:383-384`: "dropBot deletes a Bot for good: its box, everything it has in the database, and its files." |
| `FindingChannelMute` | `startChannel` does not wait for the worker it cancels; that worker's deferred `dropClient` (`telegram.go:141`, `783-790`; also `discord.go:143`, `627`, `whatsapp.go:193`) then takes its successor's connection out of the map: messages are received, none can be sent. | `channel.go:266-267`: "It is safe to call when already running: the old worker is cancelled first." |
| `FindingRestoreLoses` | A restore refuses a snapshot that is partial, not one whose `git add` failed (`history.go:919`, `334-337`): files without a copy are replaced. So are large ones beyond `checkpointMaxLarge`, which get no stub (`history.go:310`). | `history.go:892-893`: "what is about to be replaced is in the history first, so a restore can itself be undone" |

The properties that follow are defined in the modules and violated by the code
as it is. No run lists them (`DoneReadAll` is listed where nobody asks for a summary);
TLC shows each when it is added to the configuration of the run named, with the bounds
or features named:

| Property | Run and bounds | What happens | What the repository says |
|---|---|---|---|
| `DoneReadAll` | `RunEngineChat` with `compact` | `drainInbox` joins the first message sent while `/compact` wrote its summary to the summary's text (`agent.go:175-176`); the run then compares lengths (`agent.go:532-536`) and ends done: with just one, no model answers it. | `messages.go:283-284`: "A message sent while it runs is injected and answered after the summary." |
| `AskedIsListed` | `Approvals`, `ToolCalls = {}`, `RequestCalls = {t1}` | A stop settles the slips of every run of the conversation but tells only the waiters of the live ones: a call from the container whose run ended a moment before keeps waiting on a slip nobody is shown (`app.go:731`, `746-750`). | `DESIGN.md:505`: "every approval also waits on the Dashboard" |
| `WipedIsGone` | `RunEngineStop` | `/wipe` lists the events to delete before it stops the live run; what that run writes meanwhile stays (`commands.go:134`). | `commands.go:146`: "Delete %s (%d %s) for good?" |
| `OneEach` | `Subagents`, `NCalls = 4` | `spawn_agent` writes the subagent's row and then waits for `convMu`. When its own run was stopped and a new run of the lead messages the subagent first, `messageSubagent` starts its run, and `spawnAgent` then starts a second one without looking (`subagents_tools.go:215-216`). | `agent.go:852-854`: "A second run beside it would interleave the conversation" |
| `LiveLimit` | `Subagents`, `MaxLive = 1`, `NRuns = 3`, `NCalls = 4` | The limit is counted before the call waits for a person and the row is written; messaging a finished subagent does not look at it either. | `subagents_tools.go:183-184`: "at most %d subagents may run at once" |
| `StopIsQuiet` | `Subagents` | A result posted between the stop's look and its UPDATE becomes news. | `subagents.go:125`: "stopSubagents stops every live subagent of a lead chat without waking it." |
| `SeenIsShown` | `Subagents` | `agent_status` read the row before the result was posted, and marks that result as seen. | `subagents_tools.go:247-248`: "Reading it marks the result seen." |
| `ServesOneViewer` | `Links` | The worker's stream reads the lane's pipes, and later whose leaving ends it (`worker.go:190`, `198`): a viewer that began in between is watched, and the input of the one it replaced is forwarded. | `hub.go:33-34`: "The newest viewer owns it" |
| `LentByItsOwner` | `Services` | Two sign-ins of one connection: the row may hold the one's token and the other's name (`connector/oauth.go:78-87`). | `connector/oauth.go:89`: "The sign-in is now the connection's, lent by whoever made it." |
| `MountIsKept` | `Services` | An older set that was rendered first and pushed last restarts a mount on an older token. | `drivehost/supervisor.go:103-104`: "a CP restart must not unmount the Bot's drives" |

Met while modelling, and exempt in the properties by a history variable or a
feature that is not combined:

*Run engine*

* A compaction anchors at the highest `seq` of the chat, which may be the `done` of
  an earlier run written late; in run order that lies before this run's messages, and
  replay repeats them after the summary (`compact.go:144`; `compact.go:18-19`,
  `agent.go:511-512`).
* A cut waits five seconds for the runs at work; one that is slower – in a tool, a
  provider's or a database call, or waiting for the `convMu` the cut holds – writes
  after the truncation (`messages.go:186`;
  `messages.go:163-164`: "history truncation is not raced by a final write").
* `finish` updates the row before it writes `done`. A restart in between leaves a
  row `recoverOrphans` does not look at and a thread that shows as working, though
  `app.go:418-419` says replayed history never leaves the client spinning. The same
  holds of a run a stop marked before the restart.
* A stopped run is no longer the live one but still writes "Stopped." and its last
  events, beside the next run's reading of the context.
* A message injected into a run that was stopped and not yet read is before the next
  summary's anchor, and is skipped by replay unread.
* Only a run that ends by its own reply takes a last look: one that fails, is
  stopped or only compacts accepts messages into an inbox nobody reads any more
  (`app.go:139-142` describes `closed`).
* Editing a message that was injected into a run cuts that run's events from
  there, its `done` included, so the run counts as busy (`messages.go:79`).
* A stop between StartRun's row and its tracking finds no live run: it marks the
  row, and the run starts after it (`ui.go:567`).

*Gate*

* A vote between a slip's row and its waiter (`connectors_call.go:123-126`) is saved
  and receipted but wakes nobody; a second vote is needed, on a slip that is no
  longer listed.
* A second vote overwrites the row of a slip that was denied or stopped and leaves
  its own receipt: the thread may say "allowed" of a call that was refused. The call
  itself follows the answer it was given (`AskedNeedsYes`).
* An action's own row with no decision on the side asked hides the connector's `*`
  row and the floor it holds (`operator.go:99`); star rows are not modelled.

*Subagents*

* An older run of a subagent that ends late overwrites a newer result.
* A person who keeps writing postpones the report for as long.
* A StartRun that fails leaves the row running (`subagents_tools.go:239`).
* A restart between `WakeMarks` and `WakeStarts` loses the marked reports
  (`subagents_wake.go:59`).
* A result nobody has read is marked reported, and told to nobody, when its subagent is
  messaged again (`subagents_tools.go:239`), and when `wakeLead` or `agent_status`, which
  mark by id, had read an older result of it (`subagents_wake.go:51-59`,
  `subagents_tools.go:292`).

*Links*

* A command's cancel is dropped when the queue is full (`hub.go:358`) or overtakes
  its command in the worker; the job runs on. So does one whose caller was told
  ErrClosed. `Hub.Drop` leaves the stream up.
* A console that reconnects behind an event which was published before an older one was
  never gets the older one; one disconnected during a truncation misses the reset
  (`useRunStream.ts:52-54`, `ui.go:599-601`); one anchored at a message that then
  moves loses what it passed.
* The gateway: a rendering that fails loses the mark until the 30 s tick; the late
  `put` of a broken session displaces a newer one; the receiver of an ended session may
  apply after its successor's (`egress.go:592-596`).
* Channels: two updates at once leave a worker nobody can cancel
  (`channel.go:266-267`); a late `dropClient` also erases what its successor has seen
  (`telegram.go:787`), so that a repeated message may be handed on twice; an old
  worker's late status replaces the new one's; a message in flight recreates the
  chat of a deleted channel.
* Voice: a follower that the bus cuts off leaves the call open but deaf (`call.go`,
  504-507); pieces slip in between a flush and the mute; a turn that comes after the listener drained is
  lost (`call.go:411-412`: "down to the last one"); a stale `LiveRunID` leaves the
  state "thinking".

*Services*

* Boxes: whole rows saved outside the lock put back an older token or container
  (`ui.go:289`, `368`, `admin_containers.go:332`, `399`, `containers.go:116`;
  `bots.go:26-28`); `ensureRunning`'s own save undoes an edit beside it; a Docker
  call that fails after `Hub.Drop` leaves a box that works and is not heard
  (`bots.go:84`, `208`); `dropBot` deletes the chats (`ui.go:398`) through which it
  then looks for task items (`ui.go:407`).
* Automations: two updates at once can leave an awake automation without a next slot
  (`automation.go:343`, `353-354`); a firing claimed before a deletion recreates the log
  chat.
* Changes: who else works is read before the wait for the turn
  (`changes.go:124-133`), and by a restore before its call (`changes.go:449`). A closing
  snapshot whose `git add` failed, or that is partial, answers without an error; the
  writes it left are in somebody else's change. While the history is still indexing,
  the pane's looks take checkpoints that name nobody (`history.go:588-589`).
* History: a program that writes during a restore.
* Drives: a refresh of an old sign-in that arrives late replaces the new one's
  token; rclone's last refresh is lost when it exits before it was polled.
* Collector: a person who collects while a run reads an injected message reads it
  again after it moved (`collect.go:26-28`: "Each event is read at most once"); a
  row that commits behind what was read is passed over; a failure after the facts of
  a part were saved reads them again.

## 10 What is not modelled

The map names a small share of all lines, because most of the repository is not
control logic of its own: generated protobuf and connect code (`src/gen`, by far
the largest part), adapters of chat platforms, models, search engines and cloud
drives, the web and iOS consoles' rendering, SQL schemas and queries, and handlers
that read a row and return it. Nothing in those waits, races or fails in a way that a
state machine would say more about than the code; where they have a step that
matters (a commit, a publish, a worker's deferred cleanup), that step is in a
module. Components without a module: the tool engine (gates, handler, filter, in
that order, in one goroutine), search (a breaker and a bucket under one mutex), sign-in and accounts (lookups, a
counter), models and providers, artifacts and the dashboard.

Inside the modelled components:

* Run engine: `Shutdown` and `cancelBot` on runs; firings of automations with a
  history of their own; several tool calls in a turn (one is made); streamed
  pieces, usage, status notes, pixels, cleared tool results; reports that join
  the message before them (StartIfIdle writes a user message here); diverging
  and moving chats; reanchoring summaries at streamed events;
  `StopRun` with no running row. `recoverOrphans` is one step: it runs before the
  server listens. Of the subagents' tools only `messageSubagent` is here, as the
  tool that writes in another conversation.
* Gate: see section 4. Deleting the Bot while a call waits, the audit trail and the
  push to the console are left out.
* Subagents: the task board, the texts of reports, channels a lead answers on.
* Links: payloads; two handlers of one lane's stream at once; Detach and Drop
  delete and close in one step each; rooms, pairing and sending of channels,
  polls of mailboxes; encoding and speech of calls; the verdicts of the egress
  guard, certificates, audit rows.
* Services: failing saves of a Bot's row, images, limits, the idle sweep; firing by hand and
  hooks; MCP sessions; a tool whose context ends while it waits for another's opening
  snapshot; a worker that finishes a snapshot its caller gave up on, and more than one
  restore beside runs (`Changes`); checkpoints that expire by age; mounts' processes, cache and journal of drives;
  the knowledge index, recall and ranking.
* Text, formats, prompts, model output: choices, where control depends on them.

## 11 Plan

1. **Conversation, abstract**: a queue of accepted messages and who answers them;
   `RunEngine` implements it where no stop or cut happens.
2. **Rules**: star rows and the output side as pure functions beside a reference
   definition ("strictest of what applies"), with lemmas for all rows.
3. **Proofs** of the run engine's properties for runs that are stopped or fail, with the
   messages such runs leave behind named by a history variable.
4. Smaller machines: the search breaker and bucket, the sign-in throttle, the
   drive's journal.

## 12 Running

```
tlc -workers 2 -config RunEngineChat.cfg MCRunEngine
tlc -workers 2 -config Approvals.cfg MCApprovals
tlc -workers 2 -config Subagents.cfg MCSubagents
tlc -workers 2 -config Links.cfg MCLinks
tlc -workers 2 -config Services.cfg MCServices
tlc -workers 2 -config FindingChannelMute.cfg Channels
tlc -workers 2 -config FindingRestoreLoses.cfg History
tlapm WorkerProofs.tla
```

Most runs take seconds to a minute, `Approvals` and `Subagents` one
to two minutes, `RunEngineCut`, `Links` and `Services` about three; a proof from one to a few minutes, those of
`RunEngineProofs` and `ConversationProofs` about ten each. `tlapm` is called the same way for
the seven `*Proofs` modules and `SequenceFacts`.

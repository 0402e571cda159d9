------------------------------ MODULE RunEngine ------------------------------
(***************************************************************************)
(* The run engine of the control plane: how a message starts a run or is   *)
(* handed to the one already live, what the run's goroutine does with it,  *)
(* how runs are stopped, edited away, wiped and finished, and what a       *)
(* restart of the control plane leaves behind.                             *)
(* Code: internal/app/agent.go, app.go, messages.go, commands.go.          *)
(*                                                                         *)
(* Actors: the holder of convMu (one request at a time: a person's or a    *)
(* tool's), the stop requests, which do not take convMu, and the goroutine *)
(* of every run.  App.mu, liveRun.injecting and liveRun.turnMu protect     *)
(* short sections without waiting inside: each section is one step here.   *)
(***************************************************************************)
EXTENDS RunLog

CONSTANTS
  Chats,       \* conversations of the Bot
  InboxCap,    \* capacity of a live run's inbox channel (32 in the code)
  MaxTurns,    \* bound: tool turns per run
  MaxCrashes,  \* bound: restarts of the control plane
  Features     \* which of FeatureNames a configuration explores

(* stop: StopRun.  timeout: a run's time is up.  edit, wipe, clear: history  *)
(* is cut.  compact: a summary is asked for.  auto: a run summarizes before *)
(* a turn.  overflow: the provider refuses a request as too long.  error: a *)
(* model or provider fails.  spoken: a message spoken in a call cuts the    *)
(* turn being written.  ask: a tool hands the conversation to the human     *)
(* (EndTurn).  talk: a tool writes in another conversation.                 *)
FeatureNames == {"stop", "timeout", "edit", "wipe", "clear", "compact", "auto", "overflow",
                 "error", "spoken", "ask", "talk"}

ASSUME ChatsAssumption      == Chats # {}
ASSUME InboxCapAssumption   == InboxCap \in Nat \ {0}
ASSUME MaxTurnsAssumption   == MaxTurns \in Nat
ASSUME MaxCrashesAssumption == MaxCrashes \in Nat
ASSUME FeaturesAssumption   == Features \subseteq FeatureNames

Has(f) == f \in Features

VARIABLES
  (* The database. *)
  log,        \* log[c]: the events of chat c, in seq order
  row,        \* row[r]: Run.status, "none" before and "gone" after the row
  req,        \* req[r]: the request run r was created for
  (* App, under App.mu and convMu. *)
  live,       \* App.runs: the runs that are their conversation's live run
  ending,     \* App.ending: untracked, their goroutine not gone yet
  conv,       \* who holds convMu and how far the request is
  stopping,   \* chats whose StopRun has yet to write the rows' status
  (* liveRun and the goroutine's own variables. *)
  cancelled,  \* runs whose context is cancelled
  closed,     \* liveRun.closed
  inbox,      \* liveRun.inbox
  taken,      \* drainInbox: taken from the inbox, not yet moved and read
  turn,       \* liveRun.stopTurn/turnCut: is the turn open, cut, committed
  endTurn,    \* liveRun.endTurn
  pc,         \* where the goroutine is
  hist,       \* msgs: the history the model is sent
  verdict,    \* the status finish was called with
  why,        \* what a compaction in progress is for
  anchor,     \* the anchor a compaction in progress has read
  turns,      \* tool turns so far
  (* The environment and history. *)
  sent,       \* messages sent so far
  crashes,    \* restarts so far
  seen,       \* messages some model has read, in a turn or a transcript
  sealed,     \* runs at rest when an edit cut their conversation
  wiped       \* runs whose conversation was wiped

dbVars   == <<log, row, req>>
appVars  == <<live, ending, conv, stopping>>
runVars  == <<cancelled, closed, inbox, taken, turn, endTurn, pc, hist,
              verdict, why, anchor, turns>>
histVars == <<sent, crashes, seen, sealed, wiped>>
vars     == <<dbVars, appVars, runVars, histVars>>

NoChat == "no chat"

RowStatus == {"none", "running", "done", "error", "stopped", "interrupted",
              "gone"}
Verdicts  == {"none", "done", "error", "stopped"}
Reasons   == {"none", "manual", "auto", "overflow"}
TurnState == {"none", "open", "cut", "committed"}

Requests == {"chat", "compact", "command"}
NoRequest == [chat |-> NoChat, kind |-> "chat", msg |-> NoMsg]
RequestType == [chat : Chats \cup {NoChat}, kind : Requests,
                msg : Msgs \cup {NoMsg}]

(* A goroutine: not started, at each of its steps, gone. *)
PCs == {"none", "begin", "drain", "move", "check", "turn", "stream", "erred",
        "close", "closeMute", "tool", "toolWait", "toolBack", "toolEnd",
        "anchor", "summary", "fold", "stopped", "setStatus", "untrack",
        "emitDone", "exit", "over"}

(* convMu's holder: "free", then the steps of the request that holds it. *)
Steps == {"free", "look", "find", "push", "recheck", "create", "track",
          "cancel", "rows", "wait", "truncate"}
Ops   == {"none", "chat", "idle", "compact", "edit", "delete", "wipe",
          "wipePart"}

Free == [step |-> "free", by |-> NoRun, op |-> "none", chat |-> NoChat,
         msg |-> NoMsg, old |-> NoMsg, run |-> NoRun, wait |-> {}, snap |-> {}]

Asked(by, op, c, m) ==
  [step |-> "look", by |-> by, op |-> op, chat |-> c, msg |-> m,
   old |-> NoMsg, run |-> NoRun, wait |-> {}, snap |-> {}]

-----------------------------------------------------------------------------
Init ==
  /\ log       = [c \in Chats |-> << >>]
  /\ row       = [r \in Runs |-> "none"]
  /\ req       = [r \in Runs |-> NoRequest]
  /\ live      = {}
  /\ ending    = {}
  /\ conv      = Free
  /\ stopping  = {}
  /\ cancelled = {}
  /\ closed    = {}
  /\ inbox     = [r \in Runs |-> << >>]
  /\ taken     = [r \in Runs |-> << >>]
  /\ turn      = [r \in Runs |-> "none"]
  /\ endTurn   = {}
  /\ pc        = [r \in Runs |-> "none"]
  /\ hist      = [r \in Runs |-> << >>]
  /\ verdict   = [r \in Runs |-> "none"]
  /\ why       = [r \in Runs |-> "none"]
  /\ anchor    = [r \in Runs |-> NoEvent]
  /\ turns     = [r \in Runs |-> 0]
  /\ sent      = 0
  /\ crashes   = 0
  /\ seen      = {}
  /\ sealed    = {}
  /\ wiped     = {}

RunsOf(c) == {r \in Runs : req[r].chat = c}
Live(c)   == live \cap RunsOf(c)
Tracked(c) == (live \cup ending) \cap RunsOf(c)
NewRun(r) == row[r] = "none" /\ \A q \in 1 .. r - 1 : row[q] # "none"

(* Events are read through their run's row: one written for a run whose row *)
(* is gone is in the table, but no reader ever sees it.                     *)
Written(r, kind, msg, after) ==
  LET c == req[r].chat
  IN IF row[r] = "gone" THEN log
     ELSE [log EXCEPT ![c] = Append(@, NewEvent(@, r, kind, msg, after))]

Emit(r, kind) == log' = Written(r, kind, NoMsg, NoEvent)

-----------------------------------------------------------------------------
(* Requests under convMu.                                                  *)

(* The end of a request: the lock is released; a tool that took it returns. *)
Release ==
  /\ conv' = Free
  /\ pc' = IF conv.by = NoRun THEN pc ELSE [pc EXCEPT ![conv.by] = "toolBack"]

(* StartOrInject and StartIfIdle: a message, from a person, a channel, an  *)
(* automation or another run's tool.                                       *)
Send(c, op) ==
  /\ conv = Free
  /\ sent < NMsgs
  /\ op \in {"chat", "idle"}
  /\ sent' = sent + 1
  /\ conv' = Asked(NoRun, op, c, sent + 1)
  /\ UNCHANGED <<dbVars, live, ending, stopping, runVars, crashes, seen,
                 sealed, wiped>>

ToolSend(r, c) ==
  /\ conv = Free
  /\ pc[r] = "toolWait"
  /\ c # req[r].chat
  /\ sent < NMsgs
  /\ sent' = sent + 1
  /\ conv' = Asked(r, "chat", c, sent + 1)
  /\ UNCHANGED <<dbVars, live, ending, stopping, runVars, crashes, seen,
                 sealed, wiped>>

(* The bound on messages is used up: the tool takes and releases the lock. *)
ToolSendsNothing(r) ==
  /\ conv = Free
  /\ pc[r] = "toolWait"
  /\ sent = NMsgs
  /\ pc' = [pc EXCEPT ![r] = "toolBack"]
  /\ UNCHANGED <<dbVars, appVars, cancelled, closed, inbox, taken, turn,
                 endTurn, hist, verdict, why, anchor, turns, histVars>>

CompactAnyTime(c) ==    \* mutant: a summary beside a running reply
  /\ Has("compact")
  /\ conv = Free
  /\ Len(ContextOf(log[c])) >= 2
  /\ conv' = [Asked(NoRun, "compact", c, NoMsg) EXCEPT !.step = "create"]
  /\ UNCHANGED <<dbVars, live, ending, stopping, runVars, histVars>>

(* compactChat: refused while a reply runs or with nothing to summarize. *)
CompactChat(c) ==
  /\ Has("compact")
  /\ conv = Free
  /\ Live(c) = {}
  /\ Len(ContextOf(log[c])) >= 2
  /\ conv' = [Asked(NoRun, "compact", c, NoMsg) EXCEPT !.step = "create"]
  /\ UNCHANGED <<dbVars, live, ending, stopping, runVars, histVars>>

(* startOrInjectLocked: LiveRunID.  StartIfIdle refuses a live run. *)
Look ==
  /\ conv.step = "look"
  /\ LET here == Live(conv.chat)
     IN \/ /\ here = {}
           /\ conv' = [conv EXCEPT !.step = "create"]
           /\ UNCHANGED pc
        \/ /\ here # {} /\ conv.op = "idle"
           /\ Release
        \/ /\ conv.op # "idle"
           /\ \E r \in here : conv' = [conv EXCEPT !.step = "find", !.run = r]
           /\ UNCHANGED pc
  /\ UNCHANGED <<dbVars, live, ending, stopping, cancelled, closed, inbox,
                 taken, turn, endTurn, hist, verdict, why, anchor, turns,
                 histVars>>

(* inject: the run is looked up again, before its inbox is locked. *)
InjectFind ==
  /\ conv.step = "find"
  /\ conv' = [conv EXCEPT !.step = IF conv.run \in live THEN "push" ELSE "recheck"]
  /\ UNCHANGED <<dbVars, live, ending, stopping, runVars, histVars>>

RoomAfterClose(r) == Len(inbox[r]) < InboxCap    \* mutant: closed not looked at
RoomUnbounded(r)  == r \notin closed             \* mutant: the channel never full
Room(r) == r \notin closed /\ Len(inbox[r]) < InboxCap

(* inject, under lr.injecting: queued and recorded together.  A spoken     *)
(* message cuts the turn being written (cutTurn).                          *)
InjectPush ==
  LET r == conv.run
  IN /\ conv.step = "push"
     /\ Room(r)
     /\ inbox' = [inbox EXCEPT ![r] = Append(@, conv.msg)]
     /\ log' = Written(r, "user", conv.msg, NoEvent)
     /\ \E spoken \in BOOLEAN :
          /\ spoken => Has("spoken")
          /\ turn' = IF spoken /\ turn[r] = "open"
                     THEN [turn EXCEPT ![r] = "cut"] ELSE turn
     /\ Release
     /\ UNCHANGED <<row, req, live, ending, stopping, cancelled, closed, taken,
                    endTurn, hist, verdict, why, anchor, turns, histVars>>

InjectRefused ==
  /\ conv.step = "push"
  /\ ~Room(conv.run)
  /\ conv' = [conv EXCEPT !.step = "recheck"]
  /\ UNCHANGED <<dbVars, live, ending, stopping, runVars, histVars>>

RecheckBlind ==    \* mutant: a refused message always starts a run
  /\ conv.step = "recheck"
  /\ conv' = [conv EXCEPT !.step = "create"]
  /\ UNCHANGED <<dbVars, live, ending, stopping, runVars, histVars>>

(* Refused: ErrBusy while a run is still live, else a new run. *)
Recheck ==
  /\ conv.step = "recheck"
  /\ \/ /\ Live(conv.chat) # {}
        /\ Release
     \/ /\ Live(conv.chat) = {}
        /\ conv' = [conv EXCEPT !.step = "create"]
        /\ UNCHANGED pc
  /\ UNCHANGED <<dbVars, live, ending, stopping, cancelled, closed, inbox,
                 taken, turn, endTurn, hist, verdict, why, anchor, turns,
                 histVars>>

(* StartRun: the row is created, then the run is tracked and started. *)
StartCreate(r) ==
  /\ conv.step = "create"
  /\ NewRun(r)
  /\ row' = [row EXCEPT ![r] = "running"]
  /\ req' = [req EXCEPT ![r] =
               [chat |-> conv.chat, msg |-> conv.msg,
                kind |-> IF conv.op = "compact" THEN "compact" ELSE "chat"]]
  /\ conv' = [conv EXCEPT !.step = "track", !.run = r]
  /\ UNCHANGED <<log, live, ending, stopping, runVars, histVars>>

(* An unknown Bot, a disabled owner, a failed insert; also the bound NRuns. *)
StartRefused ==
  /\ conv.step = "create"
  /\ Release
  /\ UNCHANGED <<dbVars, live, ending, stopping, cancelled, closed, inbox,
                 taken, turn, endTurn, hist, verdict, why, anchor, turns,
                 histVars>>

StartTrack ==
  LET r == conv.run
  IN /\ conv.step = "track"
     /\ live' = live \cup {r}
     /\ conv' = Free
     /\ pc' = IF conv.by = NoRun THEN [pc EXCEPT ![r] = "begin"]
              ELSE [pc EXCEPT ![r] = "begin", ![conv.by] = "toolBack"]
     /\ UNCHANGED <<dbVars, ending, stopping, cancelled, closed, inbox, taken,
                    turn, endTurn, hist, verdict, why, anchor, turns, histVars>>

-----------------------------------------------------------------------------
(* Edit, delete and wipe: under convMu, the conversation's runs are stopped *)
(* and waited for (StopChatLive) before its history is cut.                 *)

CutLiveOnly(op, c, m, old, snap) ==    \* mutant: runs still ending not waited for
  LET wait == Live(c)
  IN conv' = [Asked(NoRun, op, c, m) EXCEPT
                !.step = IF wait = {} THEN "truncate" ELSE "cancel",
                !.old = old, !.wait = wait, !.snap = snap]

Cut(op, c, m, old, snap) ==
  LET wait == Tracked(c)
  IN conv' = [Asked(NoRun, op, c, m) EXCEPT
                !.step = IF wait = {} THEN "truncate" ELSE "cancel",
                !.old = old, !.wait = wait, !.snap = snap]

(* EditMessage: only the last user message; the new text is a new message. *)
Edit(c) ==
  /\ Has("edit")
  /\ conv = Free
  /\ sent < NMsgs
  /\ LastUserMsg(log[c]) # NoMsg
  /\ sent' = sent + 1
  /\ Cut("edit", c, sent + 1, LastUserMsg(log[c]), {})
  /\ UNCHANGED <<dbVars, live, ending, stopping, runVars, crashes, seen,
                 sealed, wiped>>

(* DeleteMessage. *)
Delete(c) ==
  /\ Has("edit")
  /\ conv = Free
  /\ LastUserMsg(log[c]) # NoMsg
  /\ Cut("delete", c, NoMsg, LastUserMsg(log[c]), {})
  /\ UNCHANGED <<dbVars, live, ending, stopping, runVars, histVars>>

(* cmdWipe, of the whole chat or of its end (since the last clear, the last *)
(* exchange): what to delete is read before the runs are stopped.           *)
WipeStarts(evs, op) ==
  IF op = "wipe" THEN {1}
  ELSE {Max({0} \cup At(evs, "context_cleared")) + 1, Max({0} \cup At(evs, "user"))} \ {0}

Wipe(c, op) ==
  /\ Has("wipe")
  /\ conv = Free
  /\ \E r \in Runs : NewRun(r)    \* bound: a run is left for the marker
  /\ LET evs == Ordered(log[c])
     IN \E from \in WipeStarts(evs, op) :
          /\ \E i \in from .. Len(evs) : evs[i].kind \in {"user", "assistant"}
          /\ Cut(op, c, NoMsg, NoMsg, ToSet(SubSeq(evs, from, Len(evs))))
  /\ UNCHANGED <<dbVars, live, ending, stopping, runVars, histVars>>

(* cancelRuns, its section under App.mu. *)
Cancelled(c) ==
  /\ cancelled' = cancelled \cup Live(c)
  /\ live' = live \ Live(c)
  /\ ending' = ending \cup Live(c)

(* cancelRuns, its update of the rows still running. *)
RowsStopped(c) ==
  row' = [r \in Runs |-> IF r \in RunsOf(c) /\ row[r] = "running"
                         THEN "stopped" ELSE row[r]]

CutCancel ==
  /\ conv.step = "cancel"
  /\ Cancelled(conv.chat)
  /\ conv' = [conv EXCEPT !.step = "rows"]
  /\ UNCHANGED <<dbVars, stopping, closed, inbox, taken, turn, endTurn, pc,
                 hist, verdict, why, anchor, turns, histVars>>

CutRows ==
  /\ conv.step = "rows"
  /\ RowsStopped(conv.chat)
  /\ conv' = [conv EXCEPT !.step = "wait"]
  /\ UNCHANGED <<log, req, live, ending, stopping, runVars, histVars>>

CutWaited ==
  /\ conv.step = "wait"
  /\ \A r \in conv.wait : pc[r] = "over"
  /\ conv' = [conv EXCEPT !.step = "truncate"]
  /\ UNCHANGED <<dbVars, live, ending, stopping, runVars, histVars>>

CutWithoutDeadline == FALSE    \* mutant: the wait has no end of its own

(* The five-second deadline of the wait.  It passes for whichever run is    *)
(* slow to unwind: one whose tool waits for the lock this very request     *)
(* holds, and as well one in a slow tool, provider or database call.       *)
CutDeadline ==
  /\ conv.step = "wait"
  /\ \E r \in conv.wait : pc[r] # "over"
  /\ conv' = [conv EXCEPT !.step = "truncate"]
  /\ UNCHANGED <<dbVars, live, ending, stopping, runVars, histVars>>

(* truncateChatFrom and deleteChatEvents: the events, then the runs that   *)
(* had some of them and have none left.                                    *)
Wiping == conv.op \in {"wipe", "wipePart"}

Emptied(c, kept) == {e.run : e \in ToSet(log[c])} \ {e.run : e \in ToSet(kept)}
Begun(c)         == {r \in RunsOf(c) : row[r] # "none"}

(* The runs the wait was for and gave up on: at work although the cut comes. *)
Outlasting == {r \in conv.wait : pc[r] # "over"}

Truncate ==
  LET c == conv.chat
  IN /\ conv.step = "truncate"
     /\ ~Wiping
     /\ \E evs \in {Ordered(log[c])} : \E kept \in {TruncateFrom(log[c], evs, conv.old)} :
          /\ log' = [log EXCEPT ![c] = kept]
          /\ row' = [r \in Runs |-> IF r \in Emptied(c, kept) THEN "gone" ELSE row[r]]
     /\ sealed' = sealed \cup (Begun(c) \ Outlasting)
     /\ IF conv.op = "edit"
        THEN conv' = Asked(NoRun, "chat", c, conv.msg)
        ELSE conv' = Free
     /\ UNCHANGED <<req, live, ending, stopping, runVars, sent, crashes, seen,
                    wiped>>

(* commandEvent: what a command leaves in the log is an event of a run of   *)
(* its own, born done.                                                      *)
CommandEvent(c, r, kept, kind) ==
  /\ NewRun(r)
  /\ req' = [req EXCEPT ![r] = [chat |-> c, kind |-> "command", msg |-> NoMsg]]
  /\ log' = [log EXCEPT ![c] = Append(kept, NewEvent(kept, r, kind, NoMsg, NoEvent))]

WipeDelete(r) ==
  LET c == conv.chat
  IN /\ conv.step = "truncate"
     /\ Wiping
     /\ \E kept \in {Keep(log[c], ToSet(log[c]) \ conv.snap)} :
          /\ CommandEvent(c, r, kept, "wiped")
          /\ row' = [q \in Runs |-> IF q = r THEN "done"
                                   ELSE IF q \in Emptied(c, kept) THEN "gone" ELSE row[q]]
     /\ wiped' = IF conv.op = "wipe" THEN wiped \cup Begun(c) ELSE wiped
     /\ conv' = Free
     /\ UNCHANGED <<live, ending, stopping, runVars, sent, crashes, seen, sealed>>

(* cmdClear: refused while a reply runs or with nothing in the context. *)
Clear(c, r) ==
  /\ Has("clear")
  /\ conv = Free
  /\ Live(c) = {}
  /\ ContextOf(log[c]) # << >>
  /\ CommandEvent(c, r, log[c], "context_cleared")
  /\ row' = [row EXCEPT ![r] = "done"]
  /\ UNCHANGED <<appVars, runVars, histVars>>

-----------------------------------------------------------------------------
(* StopRun: does not take convMu.  A stop with no row running changes      *)
(* nothing and is left out.                                                *)

Stop(c) ==
  /\ Has("stop")
  /\ c \notin stopping
  /\ \E r \in RunsOf(c) : row[r] = "running"
  /\ Cancelled(c)
  /\ stopping' = stopping \cup {c}
  /\ UNCHANGED <<dbVars, conv, closed, inbox, taken, turn, endTurn, pc, hist,
                 verdict, why, anchor, turns, histVars>>

StopRows(c) ==
  /\ c \in stopping
  /\ RowsStopped(c)
  /\ stopping' = stopping \ {c}
  /\ UNCHANGED <<log, req, live, ending, conv, runVars, histVars>>

(* runContext: the deadline cancels the run, which stays the live one. *)
TimeOut(r) ==
  /\ Has("timeout")
  /\ pc[r] \notin {"none", "over"}
  /\ cancelled' = cancelled \cup {r}
  /\ UNCHANGED <<dbVars, appVars, closed, inbox, taken, turn, endTurn, pc, hist,
                 verdict, why, anchor, turns, histVars>>

-----------------------------------------------------------------------------
(* The goroutine of a run: runLoop.                                        *)

Goto(r, where) == pc' = [pc EXCEPT ![r] = where]

(* finish is next, with this status. *)
Finish(r, status) ==
  /\ Goto(r, "setStatus")
  /\ verdict' = [verdict EXCEPT ![r] = status]

(* The model the conversation wants cannot be had. *)
NoModel(r) ==
  /\ Has("error")
  /\ pc[r] = "begin"
  /\ Emit(r, "error")
  /\ Finish(r, "error")
  /\ UNCHANGED <<row, req, appVars, cancelled, closed, inbox, taken, turn,
                 endTurn, hist, why, anchor, turns, histVars>>

OpenUnsettled(r) ==    \* mutant: the inbox keeps what the context already holds
  LET c == req[r].chat
      opened == Written(r, "user", req[r].msg, NoEvent)[c]
  IN /\ pc[r] = "begin"
     /\ req[r].kind = "chat"
     /\ log' = [log EXCEPT ![c] = opened]
     /\ hist' = [hist EXCEPT ![r] = ContextOf(log'[c])]
     /\ Goto(r, "drain")
     /\ UNCHANGED <<row, req, appVars, cancelled, closed, inbox, taken, turn,
                    endTurn, verdict, why, anchor, turns, histVars>>

(* The opening, under lr.injecting: the message that started the run is    *)
(* recorded, what was injected before it moves behind it, and the context  *)
(* is read.                                                                *)
Open(r) ==
  LET c == req[r].chat
  IN /\ pc[r] = "begin"
     /\ req[r].kind = "chat"
     /\ \E opened \in {MoveAllBehind(Written(r, "user", req[r].msg, NoEvent)[c], inbox[r])} :
          /\ log' = [log EXCEPT ![c] = opened]
          /\ \E evs \in {Ordered(opened)} : hist' = [hist EXCEPT ![r] = Replay(evs)]
     /\ inbox' = [inbox EXCEPT ![r] = << >>]
     /\ Goto(r, "drain")
     /\ UNCHANGED <<row, req, appVars, cancelled, closed, taken, turn, endTurn,
                    verdict, why, anchor, turns, histVars>>

OpenCompact(r) ==
  /\ pc[r] = "begin"
  /\ req[r].kind = "compact"
  /\ hist' = [hist EXCEPT ![r] = ContextOf(log[req[r].chat])]
  /\ why' = [why EXCEPT ![r] = "manual"]
  /\ Goto(r, "anchor")
  /\ UNCHANGED <<dbVars, appVars, cancelled, closed, inbox, taken, turn,
                 endTurn, verdict, anchor, turns, histVars>>

DrainLast(r) ==    \* mutant: only the newest waiting message is kept
  /\ pc[r] = "drain"
  /\ taken' = [taken EXCEPT ![r] = IF inbox[r] = << >> THEN @ ELSE <<Last(inbox[r])>>]
  /\ inbox' = [inbox EXCEPT ![r] = << >>]
  /\ why' = [why EXCEPT ![r] = "none"]
  /\ Goto(r, "move")
  /\ UNCHANGED <<dbVars, appVars, cancelled, closed, turn, endTurn, hist,
                 verdict, anchor, turns, histVars>>

(* drainInbox: the messages are taken under lr.injecting, then their events *)
(* move behind the log one by one and the model's history grows.            *)
DrainTake(r) ==
  /\ pc[r] = "drain"
  /\ taken' = [taken EXCEPT ![r] = inbox[r]]
  /\ inbox' = [inbox EXCEPT ![r] = << >>]
  /\ why' = [why EXCEPT ![r] = "none"]
  /\ Goto(r, "move")
  /\ UNCHANGED <<dbVars, appVars, cancelled, closed, turn, endTurn, hist,
                 verdict, anchor, turns, histVars>>

DrainInPlace(r) ==    \* mutant: the events keep the seq they were written with
  LET m == Head(taken[r])
  IN /\ pc[r] = "move"
     /\ taken[r] # << >>
     /\ hist' = [hist EXCEPT ![r] = Append(@, UserItem(r, m))]
     /\ taken' = [taken EXCEPT ![r] = Tail(@)]
     /\ UNCHANGED <<dbVars, appVars, cancelled, closed, inbox, turn, endTurn,
                    pc, verdict, why, anchor, turns, histVars>>

DrainMove(r) ==
  LET m == Head(taken[r])
      c == req[r].chat
  IN /\ pc[r] = "move"
     /\ taken[r] # << >>
     /\ log' = [log EXCEPT ![c] = MoveBehind(@, m)]
     /\ hist' = [hist EXCEPT ![r] = Append(@, UserItem(r, m))]
     /\ taken' = [taken EXCEPT ![r] = Tail(@)]
     /\ UNCHANGED <<row, req, appVars, cancelled, closed, inbox, turn, endTurn,
                    pc, verdict, why, anchor, turns, histVars>>

Drained(r) ==
  /\ pc[r] = "move"
  /\ taken[r] = << >>
  /\ Goto(r, "check")
  /\ UNCHANGED <<dbVars, appVars, cancelled, closed, inbox, taken, turn,
                 endTurn, hist, verdict, why, anchor, turns, histVars>>

(* stopped, checked before a turn; then the turn, or a compaction first. *)
Check(r) ==
  /\ pc[r] = "check"
  /\ \/ r \in cancelled /\ Goto(r, "stopped") /\ UNCHANGED why
     \/ r \notin cancelled /\ Goto(r, "turn") /\ UNCHANGED why
     \/ /\ Has("auto") /\ r \notin cancelled
        /\ why[r] = "none" /\ Len(hist[r]) > 1
        /\ why' = [why EXCEPT ![r] = "auto"]
        /\ Goto(r, "anchor")
  /\ UNCHANGED <<dbVars, appVars, cancelled, closed, inbox, taken, turn,
                 endTurn, hist, verdict, anchor, turns, histVars>>

(* compact: the anchor is the last event written so far. *)
CompactAnchor(r) ==
  /\ pc[r] = "anchor"
  /\ anchor' = [anchor EXCEPT ![r] = LastEventId(log[req[r].chat])]
  /\ Emit(r, "compacting")
  /\ Goto(r, "summary")
  /\ UNCHANGED <<row, req, appVars, cancelled, closed, inbox, taken, turn,
                 endTurn, hist, verdict, why, turns, histVars>>

AfterSummary == [manual |-> "fold", auto |-> "check", overflow |-> "turn"]

(* The summary replaces the history, whose transcript a model has read. *)
CompactDone(r) ==
  /\ pc[r] = "summary"
  /\ log' = Written(r, "compaction", NoMsg, anchor[r])
  /\ hist' = [hist EXCEPT ![r] = <<SummaryItem(r, NoMsg)>>]
  /\ seen' = seen \cup MsgsIn(hist[r])
  /\ anchor' = [anchor EXCEPT ![r] = NoEvent]
  /\ Goto(r, AfterSummary[why[r]])
  /\ UNCHANGED <<row, req, appVars, cancelled, closed, inbox, taken, turn,
                 endTurn, verdict, why, turns, sent, crashes, sealed, wiped>>

(* The summary failed: a manual compaction is over; an automatic one is    *)
(* given up and the turn goes on; after an overflow the turn's error stands. *)
CompactFailed(r) ==
  /\ pc[r] = "summary"
  /\ r \in cancelled \/ Has("error")
  /\ anchor' = [anchor EXCEPT ![r] = NoEvent]
  /\ log' = IF r \notin cancelled /\ why[r] # "manual"
            THEN Written(r, "error", NoMsg, NoEvent) ELSE log
  /\ IF why[r] = "auto" THEN Goto(r, "check") ELSE Goto(r, "erred")
  /\ UNCHANGED <<row, req, appVars, cancelled, closed, inbox, taken, turn,
                 endTurn, hist, verdict, why, turns, histVars>>

(* After a manual compaction the inbox is drained, its first message folded *)
(* into the summary, and the run goes on only if the history got longer.    *)
Fold(r) ==
  LET c   == req[r].chat
      got == [i \in DOMAIN inbox[r] |-> UserItem(r, inbox[r][i])]
      out == hist[r]
      msgs == FoldFirst(Head(out), got)
  IN /\ pc[r] = "fold"
     /\ inbox' = [inbox EXCEPT ![r] = << >>]
     /\ log' = [log EXCEPT ![c] = MoveAllBehind(@, inbox[r])]
     /\ hist' = [hist EXCEPT ![r] = msgs]
     /\ IF Len(msgs) = Len(out)
        THEN Finish(r, "done")
        ELSE Goto(r, "drain") /\ UNCHANGED verdict
     /\ UNCHANGED <<row, req, appVars, cancelled, closed, taken, turn, endTurn,
                    why, anchor, turns, histVars>>

(* streamTurn: the request goes out with the history as it is. *)
TurnOpen(r) ==
  /\ pc[r] = "turn"
  /\ turn' = [turn EXCEPT ![r] = "open"]
  /\ seen' = seen \cup MsgsIn(hist[r])
  /\ Goto(r, "stream")
  /\ UNCHANGED <<dbVars, appVars, cancelled, closed, inbox, taken, endTurn,
                 hist, verdict, why, anchor, turns, sent, crashes, sealed, wiped>>

(* commitTurn: the turn's first tool call; from here it is not cut. *)
Commit(r) ==
  /\ pc[r] = "stream"
  /\ turn[r] = "open"
  /\ turns[r] < MaxTurns
  /\ turn' = [turn EXCEPT ![r] = "committed"]
  /\ UNCHANGED <<dbVars, appVars, cancelled, closed, inbox, taken, endTurn, pc,
                 hist, verdict, why, anchor, turns, histVars>>

(* A turn without tool calls: a reply, or what a cut turn had written, which *)
(* may be nothing.  It is recorded; the inbox decides whether the run ends.  *)
Reply(r) ==
  /\ pc[r] = "stream"
  /\ turn[r] \in {"open", "cut"}
  /\ \/ Emit(r, "assistant") /\ Goto(r, "close")
     \/ turn[r] = "cut" /\ UNCHANGED log /\ Goto(r, "closeMute")
  /\ turn' = [turn EXCEPT ![r] = "none"]
  /\ UNCHANGED <<row, req, appVars, cancelled, closed, inbox, taken, endTurn,
                 hist, verdict, why, anchor, turns, histVars>>

(* The provider failed, or the run was stopped while it wrote. *)
StreamFailed(r) ==
  /\ pc[r] = "stream"
  /\ turn[r] # "cut"
  /\ r \in cancelled \/ Has("error")
  /\ turn' = [turn EXCEPT ![r] = "none"]
  /\ Goto(r, "erred")
  /\ UNCHANGED <<dbVars, appVars, cancelled, closed, inbox, taken, endTurn,
                 hist, verdict, why, anchor, turns, histVars>>

(* Refused as too long: one compaction, then one retry. *)
Overflow(r) ==
  /\ Has("overflow")
  /\ pc[r] = "stream"
  /\ turn[r] = "open"
  /\ why[r] # "overflow"
  /\ Len(hist[r]) > 1
  /\ r \notin cancelled
  /\ turn' = [turn EXCEPT ![r] = "none"]
  /\ why' = [why EXCEPT ![r] = "overflow"]
  /\ Goto(r, "anchor")
  /\ UNCHANGED <<dbVars, appVars, cancelled, closed, inbox, taken, endTurn,
                 hist, verdict, anchor, turns, histVars>>

Erred(r) ==
  /\ pc[r] = "erred"
  /\ IF r \in cancelled
     THEN Goto(r, "stopped") /\ UNCHANGED <<log, verdict>>
     ELSE Emit(r, "error") /\ Finish(r, "error")
  /\ UNCHANGED <<row, req, appVars, cancelled, closed, inbox, taken, turn,
                 endTurn, hist, why, anchor, turns, histVars>>

CloseUnlooked(r) ==    \* mutant: closed whatever waits
  /\ closed' = closed \cup {r}
  /\ live' = live \ {r}
  /\ ending' = IF r \in live THEN ending \cup {r} ELSE ending
  /\ Finish(r, "done")

CloseLeftOpen(r) ==    \* mutant: the last look leaves the inbox open
  /\ inbox[r] = << >>
  /\ UNCHANGED <<closed, live, ending>>
  /\ Finish(r, "done")

(* closeInbox: an empty inbox is closed and the run no longer the live one. *)
CloseInbox(r) ==
  /\ inbox[r] = << >>
  /\ closed' = closed \cup {r}
  /\ live' = live \ {r}
  /\ ending' = IF r \in live THEN ending \cup {r} ELSE ending
  /\ Finish(r, "done")

Close(r) ==
  /\ pc[r] \in {"close", "closeMute"}
  /\ \/ CloseInbox(r) /\ UNCHANGED hist
     \/ /\ inbox[r] # << >>
        /\ hist' = IF pc[r] = "close"
                   THEN [hist EXCEPT ![r] = Append(@, AssistantItem(r))] ELSE hist
        /\ Goto(r, "drain")
        /\ UNCHANGED <<closed, live, ending, verdict>>
  /\ UNCHANGED <<dbVars, conv, stopping, cancelled, inbox, taken, turn,
                 endTurn, why, anchor, turns, histVars>>

(* A turn that called a tool is kept in the log before the tool runs. *)
ToolTurn(r) ==
  /\ pc[r] = "stream"
  /\ turn[r] = "committed"
  /\ Emit(r, "turn")
  /\ hist' = [hist EXCEPT ![r] = Append(@, TurnItem(r))]
  /\ turn' = [turn EXCEPT ![r] = "none"]
  /\ turns' = [turns EXCEPT ![r] = @ + 1]
  /\ Goto(r, "tool")
  /\ UNCHANGED <<row, req, appVars, cancelled, closed, inbox, taken, endTurn,
                 verdict, why, anchor, histVars>>

(* The tool writes in another conversation: it needs convMu and waits for   *)
(* it without looking at its context (messageSubagent).                     *)
ToolTalks(r) ==
  /\ Has("talk")
  /\ pc[r] = "tool"
  /\ Goto(r, "toolWait")
  /\ UNCHANGED <<dbVars, appVars, cancelled, closed, inbox, taken, turn,
                 endTurn, hist, verdict, why, anchor, turns, histVars>>

(* The tool hands the conversation to the human while the run is tracked. *)
ToolAsks(r) ==
  /\ Has("ask")
  /\ pc[r] = "tool"
  /\ r \in live
  /\ endTurn' = endTurn \cup {r}
  /\ Goto(r, "toolBack")
  /\ UNCHANGED <<dbVars, appVars, cancelled, closed, inbox, taken, turn, hist,
                 verdict, why, anchor, turns, histVars>>

(* The tool returned: a stopped run drops the result. *)
ToolReturn(r) ==
  /\ pc[r] \in {"tool", "toolBack"}
  /\ \/ r \in cancelled /\ Goto(r, "stopped") /\ UNCHANGED <<log, hist>>
     \/ /\ r \notin cancelled
        /\ Emit(r, "tool_result")
        /\ hist' = [hist EXCEPT ![r] = Append(@, ResultItem(r))]
        /\ Goto(r, "toolEnd")
  /\ UNCHANGED <<row, req, appVars, cancelled, closed, inbox, taken, turn,
                 endTurn, verdict, why, anchor, turns, histVars>>

(* After the calls: a turn that was handed over ends the run, unless a     *)
(* message is already waiting.                                             *)
TurnEnd(r) ==
  /\ pc[r] = "toolEnd"
  /\ endTurn' = IF r \in live THEN endTurn \ {r} ELSE endTurn
  /\ \/ /\ r \in live \cap endTurn
        /\ CloseInbox(r)
     \/ /\ r \notin live \cap endTurn \/ inbox[r] # << >>
        /\ Goto(r, "drain")
        /\ UNCHANGED <<closed, live, ending, verdict>>
  /\ UNCHANGED <<dbVars, conv, stopping, cancelled, inbox, taken, turn, hist,
                 why, anchor, turns, histVars>>

(* stopped: the last word, then finish. *)
SayStopped(r) ==
  /\ pc[r] = "stopped"
  /\ Emit(r, "assistant")
  /\ Finish(r, "stopped")
  /\ UNCHANGED <<row, req, appVars, cancelled, closed, inbox, taken, turn,
                 endTurn, hist, why, anchor, turns, histVars>>

SetStatusOfRunning(r) ==    \* mutant: only a row that says running is set
  /\ pc[r] = "setStatus"
  /\ row' = [row EXCEPT ![r] = IF @ = "running" THEN verdict[r] ELSE @]
  /\ Goto(r, "untrack")
  /\ UNCHANGED <<log, req, appVars, cancelled, closed, inbox, taken, turn,
                 endTurn, hist, verdict, why, anchor, turns, histVars>>

(* finish: the row, untrackRun, the done event; then the deferred runExited. *)
SetStatus(r) ==
  /\ pc[r] = "setStatus"
  /\ row' = [row EXCEPT ![r] = IF @ = "gone" THEN @ ELSE verdict[r]]
  /\ Goto(r, "untrack")
  /\ UNCHANGED <<log, req, appVars, cancelled, closed, inbox, taken, turn,
                 endTurn, hist, verdict, why, anchor, turns, histVars>>

Untrack(r) ==
  /\ pc[r] = "untrack"
  /\ live' = live \ {r}
  /\ ending' = IF r \in live THEN ending \cup {r} ELSE ending
  /\ Goto(r, "emitDone")
  /\ UNCHANGED <<dbVars, conv, stopping, cancelled, closed, inbox, taken, turn,
                 endTurn, hist, verdict, why, anchor, turns, histVars>>

DoneUnsaid(r) ==    \* mutant: finish without its done event
  /\ pc[r] = "emitDone"
  /\ Goto(r, "exit")
  /\ UNCHANGED <<dbVars, appVars, cancelled, closed, inbox, taken, turn,
                 endTurn, hist, verdict, why, anchor, turns, histVars>>

EmitDone(r) ==
  /\ pc[r] = "emitDone"
  /\ Emit(r, "done")
  /\ Goto(r, "exit")
  /\ UNCHANGED <<row, req, appVars, cancelled, closed, inbox, taken, turn,
                 endTurn, hist, verdict, why, anchor, turns, histVars>>

Exit(r) ==
  /\ pc[r] = "exit"
  /\ live' = live \ {r}
  /\ ending' = ending \ {r}
  /\ hist' = [hist EXCEPT ![r] = << >>]
  /\ Goto(r, "over")
  /\ UNCHANGED <<dbVars, conv, stopping, cancelled, closed, inbox, taken, turn,
                 endTurn, verdict, why, anchor, turns, histVars>>

-----------------------------------------------------------------------------
(* A restart: memory is gone, then recoverOrphans ends the rows that still  *)
(* say running, each with a done event unless it has one.                   *)

NoOrphan(r) == FALSE    \* mutant: the rows left running are not looked for
Orphan(r) == row[r] = "running"
HasDone(r) == \E i \in DOMAIN log[req[r].chat] :
                LET e == log[req[r].chat][i] IN e.run = r /\ e.kind = "done"

Restart ==
  /\ crashes < MaxCrashes
  /\ crashes' = crashes + 1
  /\ log' = [c \in Chats |->
       LET left == Keep([r \in Runs |-> r], {r \in RunsOf(c) : Orphan(r) /\ ~HasDone(r)})
       IN log[c] \o [i \in DOMAIN left |->
                       NewEvent(log[c], left[i], "done", NoMsg, NoEvent)]]
  /\ row'       = [r \in Runs |-> IF Orphan(r) THEN "interrupted" ELSE row[r]]
  /\ pc'        = [r \in Runs |-> IF pc[r] = "none" THEN "none" ELSE "over"]
  /\ live'      = {}
  /\ ending'    = {}
  /\ conv'      = Free
  /\ stopping'  = {}
  /\ cancelled' = {}
  /\ closed'    = {}
  /\ endTurn'   = {}
  /\ inbox'     = [r \in Runs |-> << >>]
  /\ taken'     = [r \in Runs |-> << >>]
  /\ turn'      = [r \in Runs |-> "none"]
  /\ hist'      = [r \in Runs |-> << >>]
  /\ anchor'    = [r \in Runs |-> NoEvent]
  /\ UNCHANGED <<req, verdict, why, turns, sent, seen, sealed, wiped>>

-----------------------------------------------------------------------------
Request ==
  \/ \E c \in Chats :
       \/ \E op \in {"chat", "idle"} : Send(c, op)
       \/ CompactChat(c)
       \/ \E r \in Runs : Clear(c, r)
       \/ Edit(c) \/ Delete(c)
       \/ \E op \in {"wipe", "wipePart"} : Wipe(c, op)
       \/ Stop(c)
  \/ \E r \in Runs : TimeOut(r)

Holder ==
  \/ Look \/ InjectFind \/ InjectPush \/ InjectRefused \/ Recheck
  \/ (\E r \in Runs : StartCreate(r)) \/ StartRefused \/ StartTrack
  \/ CutCancel \/ CutRows \/ CutWaited \/ CutDeadline
  \/ Truncate \/ (\E r \in Runs : WipeDelete(r))

(* What a run's goroutine does by itself, a provider's answer included. *)
Work(r) ==
  \/ NoModel(r) \/ Open(r) \/ OpenCompact(r)
  \/ DrainTake(r) \/ DrainMove(r) \/ Drained(r) \/ Check(r)
  \/ CompactAnchor(r) \/ CompactDone(r) \/ CompactFailed(r) \/ Fold(r)
  \/ TurnOpen(r) \/ Commit(r) \/ Reply(r) \/ StreamFailed(r) \/ Overflow(r)
  \/ Erred(r) \/ Close(r)
  \/ ToolTurn(r) \/ ToolTalks(r) \/ ToolAsks(r) \/ ToolReturn(r) \/ TurnEnd(r)
  \/ SayStopped(r) \/ SetStatus(r) \/ Untrack(r) \/ EmitDone(r) \/ Exit(r)

(* A tool that waits for convMu gets it. *)
ToolLocks(r) == ToolSendsNothing(r) \/ \E c \in Chats : ToolSend(r, c)

Next ==
  \/ Request
  \/ Holder
  \/ \E r \in Runs : Work(r) \/ ToolLocks(r)
  \/ \E c \in Chats : StopRows(c)
  \/ Restart

Spec == Init /\ [][Next]_vars

(* Goroutines and request handlers are scheduled; a sync.Mutex does not     *)
(* starve a waiter (its starvation mode hands the lock over in order).      *)
(* People, channels and failures are not fair: nothing makes them happen.   *)
Fairness ==
  /\ WF_vars(Holder)
  /\ \A r \in Runs : WF_vars(Work(r)) /\ SF_vars(ToolLocks(r))
  /\ \A c \in Chats : WF_vars(StopRows(c))

FairSpec == Spec /\ Fairness

-----------------------------------------------------------------------------
(* Properties.                                                             *)

HolderType(v) ==
  /\ v = [step |-> v.step, by |-> v.by, op |-> v.op, chat |-> v.chat,
          msg |-> v.msg, old |-> v.old, run |-> v.run, wait |-> v.wait,
          snap |-> v.snap]
  /\ v.step \in Steps /\ v.op \in Ops
  /\ v.by \in Runs \cup {NoRun} /\ v.run \in Runs \cup {NoRun}
  /\ v.chat \in Chats \cup {NoChat} /\ v.msg \in Msgs \cup {NoMsg}
  /\ v.wait \subseteq Runs

(* The control state: who is live, who holds the lock, where everyone is. *)
ControlTypeOK ==
  /\ row \in [Runs -> RowStatus]
  /\ req \in [Runs -> RequestType]
  /\ live \subseteq Runs /\ ending \subseteq Runs
  /\ HolderType(conv)
  /\ stopping \subseteq Chats
  /\ cancelled \subseteq Runs /\ closed \subseteq Runs /\ endTurn \subseteq Runs
  /\ inbox \in [Runs -> Seq(Msgs)] /\ \A r \in Runs : Len(inbox[r]) <= InboxCap
  /\ taken \in [Runs -> Seq(Msgs)]
  /\ turn \in [Runs -> TurnState]
  /\ pc \in [Runs -> PCs]
  /\ verdict \in [Runs -> Verdicts]
  /\ why \in [Runs -> Reasons]
  /\ turns \in [Runs -> 0 .. MaxTurns]
  /\ sent \in 0 .. NMsgs /\ crashes \in 0 .. MaxCrashes
  /\ sealed \subseteq Runs /\ wiped \subseteq Runs

(* What is read from and written to the log. *)
DataTypeOK ==
  /\ log \in [Chats -> Seq(Event)]
  /\ hist \in [Runs -> Seq(Item)]
  /\ anchor \in [Runs -> EventIds]
  /\ seen \subseteq Msgs
  /\ conv.old \in Msgs \cup {NoMsg} /\ conv.snap \subseteq Event

(* Every variable has its type, and no inbox holds more than its channel. *)
TypeOK == ControlTypeOK /\ DataTypeOK

(* A conversation never has two live runs: a second one beside the first    *)
(* would interleave the conversation (startOrInjectLocked).                 *)
OneLiveRun ==
  \A r, q \in live : req[r].chat = req[q].chat => r = q

(* The inbox of a run that closed it holds nothing: a message that arrives  *)
(* after the last look starts a new run instead (closeInbox).               *)
ClosedInboxIsEmpty ==
  \A r \in closed : inbox[r] = << >>

Finishing == {"setStatus", "untrack", "emitDone", "exit", "over"}

(* A run that finished "done" has read every message it accepted: one sent  *)
(* while a reply is written is answered, not only kept (closeInbox).  It    *)
(* does not hold where /compact is used: a run that is only a summary folds *)
(* the one message sent meanwhile into it and ends (drainInbox, runAgent).  *)
DoneReadAll ==
  \A r \in Runs :
    verdict[r] = "done" /\ pc[r] \in Finishing =>
      \A c \in Chats : \A i \in DOMAIN log[c] :
        log[c][i].run = r /\ log[c][i].kind = "user" => log[c][i].msg \in seen

(* The log without the messages run r was handed and has not read yet. *)
Unread(r) == ToSet(inbox[r]) \cup ToSet(taken[r])
ReadBy(r, s) ==
  Keep(s, {e \in ToSet(s) : ~(e.run = r /\ e.kind = "user" /\ e.msg \in Unread(r))})

(* What the live run sends the model is what replaying the log gives, so    *)
(* that a later run continues the same prompt (runLoop, replayEvents).      *)
ReplayExact ==
  \A r \in live :
    pc[r] = "stream" => hist[r] = ContextOf(ReadBy(r, log[req[r].chat]))

(* Messages reach the model in the order they were sent, each at most once  *)
(* in a history: injection before the opening, into a turn and while a      *)
(* drain moves its events keep the order (settleInbox, drainInbox).         *)
ReadInOrder ==
  \A r \in Runs :
    LET told == {i \in DOMAIN hist[r] : hist[r][i].msg # NoMsg}
    IN \A i, j \in told : i < j => hist[r][i].msg < hist[r][j].msg

(* A message in the log that no model has read is in the context of the     *)
(* next run, or still due to be read by this one: no compaction skips it    *)
(* (cutAtCompaction).                                                       *)
Due == UNION {Unread(r) : r \in {q \in Runs : pc[q] \notin Finishing}}

NoMessageForgotten ==
  \A c \in Chats :
    LET evs == SinceClear(Ordered(log[c]))
    IN \A i \in At(evs, "user") :
         evs[i].msg \in seen \cup Due \cup MsgsIn(Replay(evs))

(* When nothing works on a conversation, its thread does not show it        *)
(* working: every run that opened there has ended there (ensureTerminalEvent). *)
AtRest(c) ==
  /\ conv.chat # c
  /\ c \notin stopping
  /\ \A r \in RunsOf(c) : pc[r] \in {"none", "over"}

IdleIsNotBusy ==
  \A c \in Chats : AtRest(c) => BusyRuns(log[c]) = {}

(* What an accepted message can count on: it is read before its run is      *)
(* done, and behind what was sent before it.                                *)
MessagesRead == DoneReadAll /\ ReadInOrder

(* What holds of the engine's variables and of the thread it leaves behind. *)
EngineSafe == TypeOK /\ IdleIsNotBusy

(* A row that says running belongs to a run being started or still at work: *)
(* no run is left running in the database with nobody to end it.            *)
RunningHasRunner ==
  \A r \in Runs : row[r] = "running" =>
    \/ conv.step = "track" /\ conv.run = r
    \/ pc[r] \in PCs \ {"none", "untrack", "emitDone", "exit", "over"}

(* In the end a run's row says how the run ended, although a stop that had  *)
(* already let go of App.mu, or that came before the run was tracked, may   *)
(* mark a run stopped that goes on and answers (finish, cancelRuns); only a *)
(* restart may come before the end.                                         *)
RowTellsOutcome ==
  \A r \in Runs :
    /\ pc[r] \in {"untrack", "emitDone", "exit"} => row[r] \in {verdict[r], "gone"}
    /\ pc[r] = "over" /\ crashes = 0 => row[r] \in {verdict[r], "gone"}

(* After a wipe of the whole chat nothing of it is left (cmdWipe). *)
WipedIsGone ==
  \A c \in Chats : \A i \in DOMAIN log[c] : log[c][i].run \notin wiped

EventsOf(r, s) == {s[i] : i \in {j \in DOMAIN s : s[j].run = r}}

(* Once an edit or a deletion has cut a conversation, every run that had    *)
(* begun there before writes nothing more into any log: the cut has waited  *)
(* for the live one and for those that were only ending (StopChatLive).     *)
(* Exempt are the runs still at work when the five seconds of the wait were *)
(* over; they write after the cut.                                          *)
CutIsFinal ==
  [][\A r \in sealed : \A c \in Chats :
       EventsOf(r, log'[c]) \subseteq EventsOf(r, log[c])]_vars

(* A run accepts messages only before its last look at the inbox            *)
(* (liveRun.closed).                                                        *)
AcceptedBeforeLastLook ==
  [][\A r \in Runs : Len(inbox'[r]) > Len(inbox[r]) => pc[r] \notin Finishing]_vars

(* No message overtakes an older one of its conversation: when a model      *)
(* first reads it, every message accepted before it and still in the log    *)
(* has been read too, by whichever run (drainInbox, contextFromDB).         *)
InLog(c) == {log[c][i].msg : i \in At(log[c], "user")}

NoOvertaking ==
  [][\A c \in Chats : \A m \in (seen' \ seen) \cap InLog(c) :
       \A older \in InLog(c) : older < m => older \in seen']_vars

(* A message handed to a live run is read by a model, where no run is       *)
(* stopped or fails: the last look never leaves one behind (closeInbox).    *)
InjectedIsRead ==
  \A m \in Msgs :
    (\E r \in Runs : m \in ToSet(inbox[r])) ~>
      \/ m \in seen
      \/ \E r \in Runs : r \in cancelled \/ verdict[r] \in {"error", "stopped"}

(* convMu is always given back, whatever the holder waits for. *)
LockIsReleased == conv # Free ~> conv = Free

(* A stopped run's goroutine exits, whatever it was doing. *)
StopEnds == \A r \in Runs : r \in cancelled ~> pc[r] = "over"

(* Nobody waits for ever on an edit that waits for a run that waits for    *)
(* the edit's lock.                                                        *)
TalkEnds == LockIsReleased /\ StopEnds

(* A message a run accepted came before its last look, and is read.        *)
AcceptedIsRead == AcceptedBeforeLastLook /\ InjectedIsRead
=============================================================================

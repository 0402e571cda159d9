------------------------- MODULE ConversationProofs -------------------------
(***************************************************************************)
(* What a conversation can count on, for any number of conversations, runs *)
(* and messages and any inbox capacity.                                    *)
(*                                                                         *)
(* Messages are read in the order they were sent (OrderInv): a message belongs *)
(* to one run, those of a later run of the conversation were sent later    *)
(* (Dealt); what waits for a run waits in that order, behind all the run was *)
(* handed before (InLine); the messages of a run lie in its log in that order, *)
(* but those a drain has yet to move (LogOrder); and a history tells messages *)
(* of its run and of the runs before it, none that waits (Histories).      *)
(*                                                                         *)
(* At rest nothing is open (Ended): behind whatever a run has opened in a  *)
(* thread it has said that it is over.                                     *)
(*                                                                         *)
(* No message is forgotten: every run ends well (WellDone), and a message that *)
(* a compaction of its run comes behind is no longer in the run's history by *)
(* itself (Latest), so a model has read it with the transcript summed up.  *)
(* With the order of what waits, no message overtakes an older one.        *)
(*                                                                         *)
(* These are of runs nobody disturbs (Undisturbed): a run that is stopped or *)
(* fails ends without closing its inbox, so that a message may still be    *)
(* written behind its last event, and a cut or a restart takes away or adds *)
(* events of runs that are not at work.                                    *)
(*                                                                         *)
(* What a run sends the model is what replaying its conversation gives     *)
(* (ReplayExact): both show (Shows) the same places of the log, those a reader *)
(* sees and that do not wait to be drained (Waiting), each once and in the *)
(* readers' order, and a list that does so is the only one (ShownOnce).  A *)
(* result comes right behind its turn but for messages that wait (AnsweredAll, *)
(* AskedAll), so that replay keeps it.  This is of undisturbed runs that do *)
(* not sum up (Unsummed): a summary's anchor may be a late event of an earlier *)
(* run, and replay then repeats what the summary stands for.               *)
(***************************************************************************)
EXTENDS RunEngineProofs

USE DEF Runs, Msgs, NoMsg, NoRun
USE NRunsAssumption, NMsgsAssumption, InboxCapAssumption, MaxTurnsAssumption,
    MaxCrashesAssumption

-----------------------------------------------------------------------------
(* Where nobody stops a run, cuts a history, fails or restarts.            *)

Undisturbed ==
  Features \subseteq {"clear", "auto", "overflow", "spoken", "ask", "talk"} /\ MaxCrashes = 0

(* The stages of a request that still carries its message. *)
Underway == {"look", "find", "push", "recheck", "create"}

(* No run is stopped, fails or loses its row, and a run ends only with its  *)
(* inbox closed.                                                            *)
Calm ==
  /\ cancelled = {} /\ stopping = {}
  /\ conv.step \in Underway \cup {"free", "track"}
  /\ \A r \in Runs : /\ row[r] # "gone" /\ pc[r] \notin {"erred", "stopped"}
                     /\ pc[r] \in Finishing => r \in closed

(* A message is sent. *)
Asks ==
  /\ UNCHANGED <<log, row, req, inbox, taken, hist, pc>>
  /\ conv.step = "free" /\ sent < NMsgs
  /\ sent' = sent + 1 /\ conv'.step = "look" /\ conv'.msg = sent + 1

(* Nothing happens to the messages, the log and the rows. *)
Rests ==
  /\ UNCHANGED <<log, row, req, inbox, taken, hist, sent>>
  /\ conv'.step \in Underway => conv.step \in Underway /\ conv'.msg = conv.msg
  /\ \A q \in Runs : \/ pc'[q] = pc[q]
                     \/ pc[q] = "toolWait" /\ pc'[q] = "toolBack"
                     \/ conv.step = "track" /\ q = conv.run /\ pc[q] = "none" /\ pc'[q] = "begin"

(* What happens undisturbed, goroutines aside. *)
LEMMA CalmOthers ==
  ASSUME Undisturbed, Inv, PlaceInv, Calm, [Next]_vars
  PROVE  \/ \E r \in Runs : Work(r)
         \/ InjectPush
         \/ \E r \in Runs : StartCreate(r)
         \/ \E c \in Chats, r \in Runs : Clear(c, r)
         \/ (Asks \/ Rests) /\ Calm'
<1> USE DEF dbVars, appVars, runVars, histVars
<1>t. /\ pc \in [Runs -> PCs] /\ row \in [Runs -> RowStatus]
      /\ conv = [step |-> conv.step, by |-> conv.by, op |-> conv.op, chat |-> conv.chat,
                 msg |-> conv.msg, old |-> conv.old, run |-> conv.run,
                 wait |-> conv.wait, snap |-> conv.snap]
      /\ conv.by # NoRun => conv.by \in Runs /\ pc[conv.by] = "toolWait"
      /\ conv.step = "track" => conv.run \in Runs /\ pc[conv.run] = "none"
      /\ crashes \in 0 .. MaxCrashes
  BY DEF Inv, ControlTypeOK, HolderType, Lock, PlaceInv, Calls, Found
<1>s. ASSUME UNCHANGED <<row, cancelled, stopping, closed>>, conv'.step \in Underway \cup {"free", "track"},
             \A q \in Runs : \/ pc'[q] = pc[q]
                             \/ pc[q] = "toolWait" /\ pc'[q] = "toolBack"
                             \/ conv.step = "track" /\ q = conv.run /\ pc[q] = "none" /\ pc'[q] = "begin"
      PROVE  Calm'
  BY <1>s DEF Calm, Finishing
<1>r. ASSUME Release, UNCHANGED <<log, row, req, inbox, taken, hist, sent, cancelled, stopping, closed>>
      PROVE  Rests /\ Calm'
  <2>1. \A q \in Runs : pc'[q] = pc[q] \/ (pc[q] = "toolWait" /\ pc'[q] = "toolBack")
    BY <1>r, <1>t DEF Release
  <2>2. conv'.step = "free"
    BY <1>r DEF Release, Free
  <2> QED
    BY <1>r, <1>s, <2>1, <2>2 DEF Rests, Underway
<1>u. ASSUME UNCHANGED <<log, row, req, inbox, taken, hist, sent, cancelled, stopping, closed, pc>>,
             conv'.step \in Underway \cup {"free", "track"},
             conv'.step \in Underway => conv.step \in Underway /\ conv'.msg = conv.msg
      PROVE  Rests /\ Calm'
  BY <1>s, <1>u DEF Rests
<1>a. ASSUME NEW by \in Runs \cup {NoRun}, NEW op, NEW c, conv = Free, sent < NMsgs, sent' = sent + 1,
             conv' = Asked(by, op, c, sent + 1),
             UNCHANGED <<log, row, req, inbox, taken, hist, cancelled, stopping, closed, pc>>
      PROVE  Asks /\ Calm'
  <2>1. conv'.step = "look" /\ conv'.msg = sent + 1 /\ conv.step = "free"
    BY <1>a DEF Asked, Free
  <2> QED
    BY <1>a, <1>s, <2>1 DEF Asks, Underway
<1>h. ~Has("stop") /\ ~Has("timeout") /\ ~Has("edit") /\ ~Has("wipe") /\ ~Has("compact")
  BY DEF Has, Undisturbed
<1>1. CASE Request
  <2>1. ASSUME NEW c \in Chats, NEW op \in {"chat", "idle"}, Send(c, op) PROVE Asks /\ Calm'
    BY <1>a, <2>1 DEF Send
  <2>2. ASSUME NEW c \in Chats, \/ CompactChat(c) \/ Edit(c) \/ Delete(c) \/ Stop(c)
                               \/ \E op \in {"wipe", "wipePart"} : Wipe(c, op)
        PROVE  FALSE
    BY <1>h, <2>2 DEF CompactChat, Edit, Delete, Stop, Wipe
  <2>3. ASSUME NEW r \in Runs, TimeOut(r) PROVE FALSE
    BY <1>h, <2>3 DEF TimeOut
  <2> QED
    BY <1>1, <2>1, <2>2, <2>3 DEF Request
<1>2. CASE Holder
  <2>1. CASE Look
    <3>1. CASE Release
      BY <1>r, <2>1, <3>1 DEF Look
    <3>2. CASE ~Release
      <4>1. conv'.msg = conv.msg /\ conv'.step \in {"create", "find"} /\ conv.step = "look" /\ pc' = pc
        BY <1>t, <2>1, <3>2 DEF Look
      <4> QED
        BY <1>u, <2>1, <4>1 DEF Look, Underway
    <3> QED
      BY <3>1, <3>2
  <2>2. CASE InjectFind \/ InjectRefused
    <3>1. conv'.msg = conv.msg /\ conv'.step \in {"push", "recheck"} /\ conv.step \in {"find", "push"}
      BY <1>t, <2>2 DEF InjectFind, InjectRefused
    <3> QED
      BY <1>u, <2>2, <3>1 DEF InjectFind, InjectRefused, Underway
  <2>3. CASE Recheck
    <3>1. CASE Release
      BY <1>r, <2>3, <3>1 DEF Recheck
    <3>2. CASE ~Release
      <4>1. conv'.msg = conv.msg /\ conv'.step = "create" /\ conv.step = "recheck" /\ pc' = pc
        BY <1>t, <2>3, <3>2 DEF Recheck
      <4> QED
        BY <1>u, <2>3, <4>1 DEF Recheck, Underway
    <3> QED
      BY <3>1, <3>2
  <2>4. CASE StartRefused
    BY <1>r, <2>4 DEF StartRefused
  <2>5. CASE StartTrack
    <3>1. /\ UNCHANGED <<log, row, req, inbox, taken, hist, sent, cancelled, stopping, closed>>
          /\ conv'.step = "free" /\ conv.step = "track" /\ conv.run \in Runs /\ pc[conv.run] = "none"
          /\ pc' = IF conv.by = NoRun THEN [pc EXCEPT ![conv.run] = "begin"]
                   ELSE [pc EXCEPT ![conv.run] = "begin", ![conv.by] = "toolBack"]
      BY <1>t, <2>5 DEF StartTrack, Free
    <3>2. \A q \in Runs : \/ pc'[q] = pc[q]
                          \/ pc[q] = "toolWait" /\ pc'[q] = "toolBack"
                          \/ q = conv.run /\ pc[q] = "none" /\ pc'[q] = "begin"
      <4>1. CASE conv.by = NoRun
        <5>1. pc' = [pc EXCEPT ![conv.run] = "begin"]
          BY <3>1, <4>1
        <5> QED
          BY <1>t, <3>1, <5>1
      <4>2. CASE conv.by # NoRun
        <5>1. pc' = [pc EXCEPT ![conv.run] = "begin", ![conv.by] = "toolBack"]
          BY <3>1, <4>2
        <5> QED
          BY <1>t, <3>1, <4>2, <5>1
      <4> QED
        BY <4>1, <4>2
    <3> QED
      BY <1>s, <3>1, <3>2 DEF Rests, Underway
  <2>6. ~CutCancel /\ ~CutRows /\ ~CutWaited /\ ~CutDeadline /\ ~Truncate /\ \A r \in Runs : ~WipeDelete(r)
    BY DEF CutCancel, CutRows, CutWaited, CutDeadline, Truncate, WipeDelete, Calm, Underway
  <2> QED
    BY <1>2, <2>1, <2>2, <2>3, <2>4, <2>5, <2>6 DEF Holder
<1>3. ASSUME NEW r \in Runs, ToolLocks(r) PROVE (Asks \/ Rests) /\ Calm'
  <2>1. ASSUME NEW c \in Chats, ToolSend(r, c) PROVE Asks /\ Calm'
    BY <1>a, <2>1 DEF ToolSend
  <2>2. CASE ToolSendsNothing(r)
    <3>1. /\ \A q \in Runs : pc'[q] = pc[q] \/ (pc[q] = "toolWait" /\ pc'[q] = "toolBack")
          /\ UNCHANGED <<log, row, req, inbox, taken, hist, sent, cancelled, stopping, closed, conv>>
      BY <1>t, <2>2 DEF ToolSendsNothing
    <3> QED
      BY <1>s, <3>1 DEF Rests, Calm
  <2> QED
    BY <1>3, <2>1, <2>2 DEF ToolLocks
<1>4. ASSUME NEW c \in Chats, StopRows(c) PROVE FALSE
  BY <1>4 DEF StopRows, Calm
<1>5. ~Restart
  BY <1>t DEF Restart, Undisturbed
<1>6. CASE UNCHANGED vars
  BY <1>6, <1>u DEF vars, Calm
<1> QED
  BY <1>1, <1>2, <1>3, <1>4, <1>5, <1>6 DEF Next

(* A goroutine speaks: what waits for it stays, no message is written, and *)
(* its history gets no message and keeps all or none of it.                *)
Utters(r) ==
  /\ UNCHANGED <<inbox, taken>>
  /\ log' = log \/ \E kind \in Kinds \ {"user"} : Writes(r, kind, NoMsg)
  /\ \/ hist'[r] = hist[r]
     \/ \E it \in Item : it.msg = NoMsg /\ hist'[r] = Append(hist[r], it)
     \/ MsgsIn(hist'[r]) = {}

(* No run fails or is stopped by its goroutine, and its last look is before *)
(* its end.                                                                *)
LEMMA CalmStages ==
  ASSUME Undisturbed, Inv, Unasked, Calm, NEW r \in Runs, Work(r)
  PROVE  /\ pc'[r] \notin {"erred", "stopped"}
         /\ pc'[r] \in Finishing => r \in closed'
<1> USE DEF dbVars, appVars, runVars, histVars, Goto, Finish, Finishing
<1>t. /\ pc \in [Runs -> PCs] /\ why \in [Runs -> Reasons]
      /\ cancelled = {} /\ pc[r] \notin {"erred", "stopped"} /\ (pc[r] \in Finishing => r \in closed)
      /\ ~Has("error") /\ req[r].kind # "compact" /\ why[r] # "manual" /\ pc[r] # "fold"
  BY DEF Inv, ControlTypeOK, Calm, Undisturbed, Has, Unasked
<1>1. CASE NoModel(r) \/ OpenCompact(r) \/ Fold(r) \/ CompactFailed(r) \/ StreamFailed(r) \/ Erred(r)
           \/ SayStopped(r)
  BY <1>1, <1>t DEF NoModel, OpenCompact, Fold, CompactFailed, StreamFailed, Erred, SayStopped
<1>2. CASE Open(r) \/ DrainTake(r) \/ DrainMove(r) \/ Drained(r)
  BY <1>2, <1>t DEF Open, DrainTake, DrainMove, Drained
<1>3. CASE Check(r) \/ CompactAnchor(r) \/ Overflow(r)
  BY <1>3, <1>t DEF Check, CompactAnchor, Overflow
<1>4. CASE CompactDone(r)
  <2>1. pc[r] = "summary" /\ pc' = [pc EXCEPT ![r] = AfterSummary[why[r]]]
    BY <1>4 DEF CompactDone
  <2>2. why[r] \in {"auto", "overflow"}
    BY <2>1, <1>t DEF Inv, Stages, Reasons
  <2> QED
    BY <2>1, <2>2, <1>t DEF AfterSummary
<1>5. CASE TurnOpen(r) \/ Commit(r) \/ Reply(r)
  BY <1>5, <1>t DEF TurnOpen, Commit, Reply
<1>6. CASE Close(r) \/ TurnEnd(r)
  <2>1. \/ CloseInbox(r) /\ closed' = closed \cup {r} /\ pc' = [pc EXCEPT ![r] = "setStatus"]
        \/ pc' = [pc EXCEPT ![r] = "drain"]
    BY <1>6 DEF Close, TurnEnd, CloseInbox
  <2> QED
    BY <2>1, <1>t
<1>7. CASE ToolTurn(r) \/ ToolTalks(r) \/ ToolAsks(r) \/ ToolReturn(r)
  BY <1>7, <1>t DEF ToolTurn, ToolTalks, ToolAsks, ToolReturn
<1>8. CASE SetStatus(r) \/ Untrack(r) \/ EmitDone(r) \/ Exit(r)
  BY <1>8, <1>t DEF SetStatus, Untrack, EmitDone, Exit
<1> QED
  BY <1>1, <1>2, <1>3, <1>4, <1>5, <1>6, <1>7, <1>8 DEF Work

(* Goroutines leave the calm. *)
LEMMA CalmWorks ==
  ASSUME Undisturbed, Inv, Unasked, Calm, NEW r \in Runs, Work(r)
  PROVE  Calm'
<1>1. UNCHANGED <<conv, stopping, cancelled>>
  BY WorkLeaves
<1>2. \A q \in Runs : row'[q] # "gone"
  <2>1. CASE row' = row
    BY <2>1 DEF Calm
  <2>2. CASE SetStatus(r)
    <3>1. row' = [row EXCEPT ![r] = IF @ = "gone" THEN @ ELSE verdict[r]] /\ row[r] # "gone"
      BY <2>2 DEF SetStatus, Calm
    <3>2. verdict[r] \in Verdicts /\ row \in [Runs -> RowStatus]
      BY DEF Inv, ControlTypeOK
    <3> QED
      BY <3>1, <3>2 DEF Calm, Verdicts
  <2> QED
    BY <2>1, <2>2, WorkOwnRow
<1>3. \A q \in Runs : /\ pc'[q] \notin {"erred", "stopped"}
                      /\ pc'[q] \in Finishing => q \in closed'
  <2> SUFFICES ASSUME NEW q \in Runs
               PROVE  pc'[q] \notin {"erred", "stopped"} /\ (pc'[q] \in Finishing => q \in closed')
    OBVIOUS
  <2>1. CASE q = r
    BY <2>1, CalmStages
  <2>2. CASE q # r
    BY <2>2, WorkOwnStage, WorkOwnPlace DEF Calm
  <2> QED
    BY <2>1, <2>2
<1> QED
  BY <1>1, <1>2, <1>3 DEF Calm

(* What a goroutine does undisturbed. *)
LEMMA CalmTells ==
  ASSUME Undisturbed, Inv, Outcome, LogInv, Unasked, Calm, NEW r \in Runs, Work(r)
  PROVE  \/ Open(r)
         \/ DrainTake(r)
         \/ DrainMove(r) /\ Moves(req[r].chat, {Head(taken[r])})
         \/ Utters(r)
<1> SUFFICES ASSUME ~Open(r), ~DrainTake(r), ~DrainMove(r) PROVE Utters(r)
  <2>1. ASSUME DrainMove(r) PROVE Moves(req[r].chat, {Head(taken[r])})
    <3>1. LogTyped /\ OfChat /\ Work(r)
      BY <2>1 DEF LogInv, DataInv, DataTypeOK, LogTyped, Work
    <3>2. row[r] # "none" /\ req[r].chat \in Chats
      <4>1. pc[r] = "move"
        BY <2>1 DEF DrainMove
      <4> QED
        BY <3>1, <4>1 DEF Outcome, Rowless, OfChat
    <3> QED
      BY <2>1, <3>1, <3>2, MovesIs DEF DrainMove
  <2> QED
    BY <2>1
<1> USE DEF dbVars, appVars, runVars, histVars, Goto, Finish
<1>t. /\ inbox \in [Runs -> Seq(Msgs)] /\ taken \in [Runs -> Seq(Msgs)] /\ pc \in [Runs -> PCs]
      /\ hist \in [Runs -> Seq(Item)] /\ hist[r] \in Seq(Item)
      /\ ~Has("error") /\ req[r].kind # "compact" /\ pc[r] # "fold"
  BY DEF Inv, ControlTypeOK, LogInv, DataInv, DataTypeOK, Undisturbed, Has, Unasked
<1>l. log' = log \/ \E kind \in Kinds \ {"user"} : Writes(r, kind, NoMsg)
  <2>1. WorkLog(r)
    BY WorkOnLog DEF LogInv, DataInv, DataTypeOK, LogTyped, AnchorTyped
  <2>2. ~Fold(r)
    BY <1>t DEF Fold
  <2> QED
    BY <2>1, <2>2, SpeaksKinds DEF WorkLog
<1>i. \A it \in {AssistantItem(r), TurnItem(r), ResultItem(r)} : it \in Item /\ it.msg = NoMsg
  <2>1. AssistantItem(r).msg = NoMsg /\ TurnItem(r).msg = NoMsg /\ ResultItem(r).msg = NoMsg
    BY DEF AssistantItem, TurnItem, ResultItem
  <2> QED
    BY <2>1, ItemsAre
<1>u. UNCHANGED <<inbox, taken>>
  <2>1. CASE NoModel(r) \/ OpenCompact(r) \/ Fold(r)
    BY <2>1, <1>t DEF NoModel, OpenCompact, Fold
  <2>2. CASE Drained(r) \/ Check(r) \/ CompactAnchor(r) \/ CompactDone(r) \/ CompactFailed(r)
    BY <2>2 DEF Drained, Check, CompactAnchor, CompactDone, CompactFailed
  <2>3. CASE TurnOpen(r) \/ Commit(r) \/ Reply(r) \/ StreamFailed(r) \/ Overflow(r) \/ Erred(r) \/ Close(r)
    BY <2>3 DEF TurnOpen, Commit, Reply, StreamFailed, Overflow, Erred, Close
  <2>4. CASE ToolTurn(r) \/ ToolTalks(r) \/ ToolAsks(r) \/ ToolReturn(r) \/ TurnEnd(r) \/ SayStopped(r)
    BY <2>4 DEF ToolTurn, ToolTalks, ToolAsks, ToolReturn, TurnEnd, SayStopped
  <2>5. CASE SetStatus(r) \/ Untrack(r) \/ EmitDone(r) \/ Exit(r)
    BY <2>5 DEF SetStatus, Untrack, EmitDone, Exit
  <2> QED
    BY <2>1, <2>2, <2>3, <2>4, <2>5 DEF Work
<1>h. \/ hist'[r] = hist[r]
      \/ \E it \in Item : it.msg = NoMsg /\ hist'[r] = Append(hist[r], it)
      \/ MsgsIn(hist'[r]) = {}
  <2>1. CASE NoModel(r) \/ OpenCompact(r) \/ Fold(r)
    BY <2>1, <1>t DEF NoModel, OpenCompact, Fold
  <2>2. CASE Drained(r) \/ Check(r) \/ CompactAnchor(r) \/ CompactFailed(r)
    BY <2>2 DEF Drained, Check, CompactAnchor, CompactFailed
  <2>3. CASE CompactDone(r)
    <3>1. hist'[r] = <<SummaryItem(r, NoMsg)>>
      BY <2>3, <1>t DEF CompactDone
    <3>2. SummaryItem(r, NoMsg).msg = NoMsg
      BY DEF SummaryItem
    <3>3. MsgsIn(<<SummaryItem(r, NoMsg)>>) = {}
      BY <3>2 DEF MsgsIn
    <3> QED
      BY <3>1, <3>3
  <2>4. CASE TurnOpen(r) \/ Commit(r) \/ Reply(r) \/ StreamFailed(r) \/ Overflow(r) \/ Erred(r)
    BY <2>4 DEF TurnOpen, Commit, Reply, StreamFailed, Overflow, Erred
  <2>5. CASE Close(r)
    <3>1. hist' = hist \/ hist' = [hist EXCEPT ![r] = Append(@, AssistantItem(r))]
      BY <2>5 DEF Close
    <3> QED
      BY <3>1, <1>t, <1>i
  <2>6. CASE ToolTurn(r)
    <3>1. hist' = [hist EXCEPT ![r] = Append(@, TurnItem(r))]
      BY <2>6 DEF ToolTurn
    <3> QED
      BY <3>1, <1>t, <1>i
  <2>7. CASE ToolReturn(r)
    <3>1. hist' = hist \/ hist' = [hist EXCEPT ![r] = Append(@, ResultItem(r))]
      BY <2>7 DEF ToolReturn
    <3> QED
      BY <3>1, <1>t, <1>i
  <2>8. CASE ToolTalks(r) \/ ToolAsks(r) \/ TurnEnd(r) \/ SayStopped(r) \/ SetStatus(r) \/ Untrack(r)
             \/ EmitDone(r)
    BY <2>8 DEF ToolTalks, ToolAsks, TurnEnd, SayStopped, SetStatus, Untrack, EmitDone
  <2>9. CASE Exit(r)
    <3>1. hist'[r] = << >>
      BY <2>9, <1>t DEF Exit
    <3>2. MsgsIn(<< >>) = {}
      BY DEF MsgsIn
    <3> QED
      BY <3>1, <3>2
  <2> QED
    BY <2>1, <2>2, <2>3, <2>4, <2>5, <2>6, <2>7, <2>8, <2>9 DEF Work
<1> QED
  BY <1>l, <1>u, <1>h DEF Utters

-----------------------------------------------------------------------------
(* The messages of a run: the one it was created for and those handed to it. *)

Handed(r) ==
  IF row[r] = "none" THEN {} ELSE ({req[r].msg} \cup MessagesOf(r)) \ {NoMsg}

(* What every step that is not disturbed starts from. *)
Before == /\ Inv /\ Outcome /\ LogInv /\ PlaceInv /\ Calm
          /\ Unasked /\ Worded /\ TakenOnMove /\ Unopened

(* Run r's event, written behind the others. *)
Adds(r, kind, m) ==
  \E e \in Event : /\ e.run = r /\ e.kind = kind /\ e.msg = m
                   /\ log' = [log EXCEPT ![req[r].chat] = Append(@, e)]

(* The opening writes the run's message, and what waits goes behind it. *)
Opened(r, e, t, h) ==
  /\ e.run = r /\ e.kind = "user" /\ e.msg = req[r].msg
  /\ log' = [log EXCEPT ![req[r].chat] = t]
  /\ hist' = [hist EXCEPT ![r] = Replay(Ordered(t))]
  /\ ToSet(t) = ToSet(log[req[r].chat]) \cup {e}
  /\ Rearranged(t, Append(log[req[r].chat], e), h,
                UserEvents(Append(log[req[r].chat], e), ToSet(inbox[r])))

(* The events of a conversation and one more. *)
LEMMA OneMore ==
  ASSUME NEW s \in Seq(Event), NEW e \in Event
  PROVE  /\ Append(s, e) \in Seq(Event) /\ ToSet(Append(s, e)) = ToSet(s) \cup {e}
         /\ DOMAIN Append(s, e) = DOMAIN s \cup {Len(s) + 1} /\ DOMAIN s = 1 .. Len(s)
         /\ \A i \in DOMAIN s : Append(s, e)[i] = s[i] /\ i < Len(s) + 1
         /\ Append(s, e)[Len(s) + 1] = e /\ Len(s) \in Nat
<1>1. /\ Append(s, e) \in Seq(Event) /\ DOMAIN s = 1 .. Len(s)
      /\ DOMAIN Append(s, e) = 1 .. Len(s) + 1
      /\ \A i \in 1 .. Len(s) : Append(s, e)[i] = s[i]
      /\ Append(s, e)[Len(s) + 1] = e /\ Len(s) \in Nat
  OBVIOUS
<1>2. 1 .. Len(s) + 1 = (1 .. Len(s)) \cup {Len(s) + 1} /\ \A i \in 1 .. Len(s) : i < Len(s) + 1
  BY <1>1
<1>3. ToSet(Append(s, e)) = ToSet(s) \cup {e}
  BY ElementsOf
<1> QED
  BY <1>1, <1>2, <1>3

(* A message is written to its run's conversation. *)
LEMMA PushAdds ==
  ASSUME Before, InjectPush
  PROVE  /\ Adds(conv.run, "user", conv.msg)
         /\ conv.run \in Runs /\ row[conv.run] # "none" /\ req[conv.run].chat \in Chats
<1>1. LogTyped /\ OfChat /\ Placed /\ Holder
  BY DEF Before, LogInv, DataInv, DataTypeOK, LogTyped, Holder
<1>2. conv.run \in Runs /\ conv.step = "push" /\ row[conv.run] \notin {"none", "gone"} /\ conv.msg \in Msgs
  BY <1>1, PushIs DEF Before, Placed, Calm
<1>3. req[conv.run].chat \in Chats
  BY <1>1, <1>2 DEF OfChat
<1>4. Writes(conv.run, "user", conv.msg)
  <2>1. "user" \in Kinds /\ NoEvent \in EventIds
    BY DEF NoEvent, EventIds, Kinds
  <2>2. log' = Written(conv.run, "user", conv.msg, NoEvent)
    BY DEF InjectPush
  <2> QED
    BY <1>1, <1>2, <1>3, <2>1, <2>2, WrittenIs
<1> QED
  BY <1>2, <1>3, <1>4 DEF Writes, Adds

(* The opening, as a step on the log. *)
LEMMA OpenIs ==
  ASSUME Before, NEW r \in Runs, Open(r)
  PROVE  /\ req[r].chat \in Chats /\ row[r] # "none" /\ req[r].msg \in Msgs
         /\ pc[r] = "begin" /\ pc' = [pc EXCEPT ![r] = "drain"]
         /\ inbox' = [inbox EXCEPT ![r] = << >>] /\ UNCHANGED <<row, req, taken>>
         /\ \E e \in Event, t \in Seq(Event) : \E h : Opened(r, e, t, h)
<1> DEFINE c == req[r].chat
<1>1. /\ LogTyped /\ OfChat /\ row[r] \notin {"none", "gone"} /\ c \in Chats /\ req[r].msg \in Msgs
      /\ pc[r] = "begin" /\ pc' = [pc EXCEPT ![r] = "drain"]
      /\ inbox' = [inbox EXCEPT ![r] = << >>] /\ UNCHANGED <<row, req, taken>>
  <2>1. /\ pc[r] = "begin" /\ pc' = [pc EXCEPT ![r] = "drain"] /\ req[r].kind = "chat"
        /\ inbox' = [inbox EXCEPT ![r] = << >>] /\ UNCHANGED <<row, req, taken>>
    BY DEF Open, Goto
  <2>2. row[r] \notin {"none", "gone"}
    BY <2>1 DEF Before, Outcome, Rowless, Calm
  <2>3. LogTyped /\ OfChat
    BY DEF Before, LogInv, DataInv, DataTypeOK, LogTyped
  <2> QED
    BY <2>1, <2>2, <2>3 DEF OfChat, Before, Worded
<1>2. PICK w \in Seq(Event), t \in Seq(Event) :
        /\ w = Written(r, "user", req[r].msg, NoEvent)[c]
        /\ t = MoveAllBehind(w, inbox[r])
        /\ log' = [log EXCEPT ![c] = t]
        /\ hist' = [hist EXCEPT ![r] = Replay(Ordered(t))]
  BY <1>1, OpenTyped
<1> DEFINE e == NewEvent(log[c], r, "user", req[r].msg, NoEvent)
<1>3. log[c] \in Seq(Event)
  BY <1>1 DEF LogTyped
<1>4. e \in Event /\ e.run = r /\ e.kind = "user" /\ e.msg = req[r].msg
  <2>1. "user" \in Kinds /\ NoEvent \in EventIds /\ req[r].msg \in Msgs \cup {NoMsg}
    BY <1>1 DEF NoEvent, EventIds, Kinds
  <2> QED
    BY <1>3, <2>1, NewEventIs
<1>5. w = Append(log[c], e)
  BY <1>1, <1>2 DEF Written, LogTyped
<1> HIDE DEF e
<1>6. ToSet(t) = ToSet(w) /\ \E h : Rearranged(t, w, h, UserEvents(w, ToSet(inbox[r])))
  BY <1>2, MovedIs
<1>7. ToSet(w) = ToSet(log[c]) \cup {e}
  BY <1>3, <1>4, <1>5, OneMore
<1>8. PICK h : Rearranged(t, w, h, UserEvents(w, ToSet(inbox[r])))
  BY <1>6
<1>9. Opened(r, e, t, h)
  BY <1>2, <1>4, <1>5, <1>6, <1>7, <1>8 DEF Opened
<1> QED
  BY <1>1, <1>4, <1>9

(* Event e goes to the end of conversation c. *)
Puts(c, e) == log' = [log EXCEPT ![c] = Append(@, e)]

(* A clear leaves its event. *)
LEMMA ClearPuts ==
  ASSUME Before, NEW c \in Chats, NEW r \in Runs, Clear(c, r)
  PROVE  /\ \E e \in Event : e.run = r /\ e.kind = "context_cleared" /\ Puts(c, e)
         /\ NewRun(r) /\ row' = [row EXCEPT ![r] = "done"]
         /\ req' = [req EXCEPT ![r] = [chat |-> c, kind |-> "command", msg |-> NoMsg]]
         /\ UNCHANGED <<inbox, taken, hist, pc, conv, sent>> /\ conv.step = "free"
<1>1. log[c] \in Seq(Event)
  BY DEF Before, LogInv, DataInv, DataTypeOK
<1> DEFINE e == NewEvent(log[c], r, "context_cleared", NoMsg, NoEvent)
<1>2. e \in Event /\ e.run = r /\ e.kind = "context_cleared"
  <2>1. "context_cleared" \in Kinds /\ NoEvent \in EventIds
    BY DEF Kinds, NoEvent, EventIds
  <2> QED
    BY <1>1, <2>1, NewEventIs
<1>3. log' = [log EXCEPT ![c] = Append(log[c], e)]
  BY DEF Clear, CommandEvent
<1> HIDE DEF e
<1>4. Puts(c, e)
  BY <1>3 DEF Puts
<1>5. /\ NewRun(r) /\ row' = [row EXCEPT ![r] = "done"]
      /\ req' = [req EXCEPT ![r] = [chat |-> c, kind |-> "command", msg |-> NoMsg]]
      /\ UNCHANGED <<inbox, taken, hist, pc, conv, sent>> /\ conv.step = "free"
  BY DEF Clear, CommandEvent, appVars, runVars, histVars, Free
<1> QED
  BY <1>2, <1>4, <1>5

(* What an undisturbed step does to the log. *)
LEMMA LogSteps ==
  ASSUME Undisturbed, Before, [Next]_vars
  PROVE  \/ log' = log
         \/ \E c \in Chats, e \in Event : e.kind # "user" /\ Puts(c, e)
         \/ InjectPush /\ \E e \in Event : /\ e.run = conv.run /\ e.kind = "user" /\ e.msg = conv.msg
                                           /\ Puts(req[conv.run].chat, e)
         \/ \E r \in Runs : DrainMove(r) /\ Moves(req[r].chat, {Head(taken[r])})
         \/ \E r \in Runs : Open(r)
<1>1. ASSUME NEW r \in Runs, Work(r), ~Open(r), ~(DrainMove(r) /\ Moves(req[r].chat, {Head(taken[r])}))
      PROVE  log' = log \/ \E c \in Chats, e \in Event : e.kind # "user" /\ Puts(c, e)
  <2>1. DrainTake(r) \/ Utters(r)
    BY <1>1, CalmTells DEF Before
  <2>2. CASE DrainTake(r)
    BY <2>2 DEF DrainTake, dbVars
  <2>3. CASE Utters(r)
    <3>1. log' = log \/ \E kind \in Kinds \ {"user"} : Writes(r, kind, NoMsg)
      BY <2>3 DEF Utters
    <3>2. req[r].chat \in Chats
      BY <1>1, WorkOnLog DEF Before, LogInv, DataInv, DataTypeOK, LogTyped, AnchorTyped
    <3> QED
      BY <3>1, <3>2 DEF Writes, Puts
  <2> QED
    BY <2>1, <2>2, <2>3
<1>2. CASE InjectPush
  BY <1>2, PushAdds DEF Adds, Puts
<1>3. ASSUME NEW r \in Runs, StartCreate(r) PROVE log' = log
  BY <1>3 DEF StartCreate
<1>4. ASSUME NEW c \in Chats, NEW r \in Runs, Clear(c, r)
      PROVE  \E e \in Event : e.kind # "user" /\ Puts(c, e)
  BY <1>4, ClearPuts
<1>5. CASE Asks \/ Rests
  BY <1>5 DEF Asks, Rests
<1>6. \/ \E r \in Runs : Work(r)
      \/ InjectPush
      \/ \E r \in Runs : StartCreate(r)
      \/ \E c \in Chats, r \in Runs : Clear(c, r)
      \/ Asks \/ Rests
  BY CalmOthers DEF Before
<1> QED
  BY <1>1, <1>2, <1>3, <1>4, <1>5, <1>6

(* No event is lost. *)
LEMMA NothingLost ==
  ASSUME Undisturbed, Before, [Next]_vars
  PROVE  EventsNow \subseteq EventsNow'
<1>1. log \in [Chats -> Seq(Event)]
  BY DEF Before, LogInv, DataInv, DataTypeOK
<1> SUFFICES ASSUME NEW d \in Chats PROVE ToSet(log[d]) \subseteq ToSet(log'[d])
  BY DEF EventsNow
<1>2. ASSUME NEW c \in Chats, NEW e \in Event, Puts(c, e) PROVE ToSet(log[d]) \subseteq ToSet(log'[d])
  <2>1. log'[d] = log[d] \/ log'[d] = Append(log[d], e)
    BY <1>1, <1>2 DEF Puts
  <2>2. log[d] \in Seq(Event)
    BY <1>1
  <2>3. ToSet(Append(log[d], e)) = ToSet(log[d]) \cup {e}
    BY <2>2, OneMore
  <2> QED
    BY <2>1, <2>3
<1>3. ASSUME NEW r \in Runs, Moves(req[r].chat, {Head(taken[r])}) PROVE ToSet(log[d]) \subseteq ToSet(log'[d])
  BY <1>1, <1>3 DEF Moves
<1>4. ASSUME NEW r \in Runs, Open(r) PROVE ToSet(log[d]) \subseteq ToSet(log'[d])
  <2>1a. PICK e \in Event, t \in Seq(Event) : \E k : Opened(r, e, t, k)
    BY <1>4, OpenIs
  <2>1. PICK h : e \in Event /\ t \in Seq(Event) /\ Opened(r, e, t, h)
    BY <2>1a
  <2>2. log' = [log EXCEPT ![req[r].chat] = t] /\ ToSet(t) = ToSet(log[req[r].chat]) \cup {e}
    BY <2>1 DEF Opened
  <2> QED
    BY <1>1, <2>2
<1>5. CASE InjectPush /\ \E e \in Event : /\ e.run = conv.run /\ e.kind = "user" /\ e.msg = conv.msg
                                          /\ Puts(req[conv.run].chat, e)
  <2>1. req[conv.run].chat \in Chats
    BY <1>5, PushAdds
  <2> QED
    BY <1>2, <1>5, <2>1
<1> QED
  BY <1>2, <1>3, <1>4, <1>5, LogSteps

(* A run keeps the messages it was handed. *)
LEMMA HandedStays ==
  ASSUME Undisturbed, Before, [Next]_vars, NEW q \in Runs
  PROVE  Handed(q) \subseteq Handed(q)'
<1>1. Stay
  BY RowsStay DEF Before, LogInv
<1>2. MessagesOf(q) \subseteq MessagesOf(q)'
  BY NothingLost DEF MessagesOf
<1> QED
  BY <1>1, <1>2 DEF Handed, Stay

(* Which steps give a run its row. *)
LEMMA RowComes ==
  ASSUME Undisturbed, Before, [Next]_vars, NEW q \in Runs, row[q] = "none", row'[q] # "none"
  PROVE  StartCreate(q) \/ \E c \in Chats : Clear(c, q)
<1>1. ASSUME NEW r \in Runs, Work(r) PROVE FALSE
  <2>1. pc[r] # "none"
    BY <1>1, WorkWorks DEF Before, AtWork
  <2>2. row[r] # "none"
    BY <2>1 DEF Before, Outcome, Rowless
  <2> QED
    BY <1>1, <2>2, WorkOwnRow DEF Before
<1>2. CASE InjectPush
  BY <1>2 DEF InjectPush
<1>3. ASSUME NEW r \in Runs, StartCreate(r) PROVE r = q
  BY <1>3 DEF StartCreate, Before, Inv, ControlTypeOK
<1>4. ASSUME NEW c \in Chats, NEW r \in Runs, Clear(c, r) PROVE r = q
  BY <1>4 DEF Clear, Before, Inv, ControlTypeOK
<1>5. CASE Asks \/ Rests
  BY <1>5 DEF Asks, Rests
<1>6. \/ \E r \in Runs : Work(r)
      \/ InjectPush
      \/ \E r \in Runs : StartCreate(r)
      \/ \E c \in Chats, r \in Runs : Clear(c, r)
      \/ Asks \/ Rests
  BY CalmOthers DEF Before
<1> QED
  BY <1>1, <1>2, <1>3, <1>4, <1>5, <1>6

(* A run is handed the message the lock is held for, and no other. *)
LEMMA HandedGrows ==
  ASSUME Undisturbed, Before, [Next]_vars, NEW q \in Runs, NEW m \in Handed(q)', m \notin Handed(q)
  PROVE  m = conv.msg /\ ((InjectPush /\ q = conv.run) \/ StartCreate(q))
<1>1. row'[q] # "none" /\ m # NoMsg /\ (m = req'[q].msg \/ m \in MessagesOf(q)')
  BY DEF Handed
<1>2. Inv /\ Outcome /\ LogInv
  BY DEF Before
<1>3. CASE row[q] # "none"
  <2>1. req'[q] = req[q]
    BY <1>2, <1>3, RowsStay DEF LogInv, Stay
  <2>2. m \notin MessagesOf(q) /\ m # req[q].msg
    BY <1>1, <1>3 DEF Handed
  <2>3. m \in MessagesOf(q)'
    BY <1>1, <2>1, <2>2
  <2> QED
    BY <1>2, <2>2, <2>3, MessagesOfGrows
<1>4. CASE row[q] = "none"
  <2>1. MessagesOf(q) = {}
    BY <1>2, <1>4 DEF LogInv, LogRuns, MessagesOf, EventsNow
  <2>2. ~Open(q)
    BY <1>4, OpenIs
  <2>3. m \in MessagesOf(q)' => m = conv.msg /\ InjectPush /\ q = conv.run
    BY <1>2, <2>1, <2>2, MessagesOfGrows
  <2>4. CASE StartCreate(q)
    <3>1. req'[q].msg = conv.msg
      BY <2>4 DEF StartCreate, Before, Inv, ControlTypeOK
    <3> QED
      BY <1>1, <2>3, <2>4, <3>1
  <2>5. ASSUME NEW c \in Chats, Clear(c, q)
        PROVE  m = conv.msg /\ ((InjectPush /\ q = conv.run) \/ StartCreate(q))
    <3>0. /\ req' = [req EXCEPT ![q] = [chat |-> c, kind |-> "command", msg |-> NoMsg]]
          /\ req \in [Runs -> RequestType]
      BY <2>5, ClearPuts DEF Before, Inv, ControlTypeOK
    <3>1. req'[q].msg = NoMsg
      BY <3>0
    <3> QED
      BY <1>1, <2>3, <3>1
  <2> QED
    BY <1>1, <1>4, <2>4, <2>5, RowComes
<1> QED
  BY <1>3, <1>4

(* Whose a message is: messages are numbered as they are sent, each belongs *)
(* to one run or to the request that holds the lock, those of a later run  *)
(* were sent later, and what waits for a run is in its log.                *)
Numbers == \A r \in Runs : Handed(r) \subseteq 1 .. sent
Logged  == \A r \in Runs : Unread(r) \subseteq MessagesOf(r)
Carried ==
  conv.step \in Underway =>
    conv.msg = sent /\ conv.msg \in Msgs /\ \A r \in Runs : conv.msg \notin Handed(r)
Apart == \A q, r \in Runs : q # r => Handed(q) \cap Handed(r) = {}
InTurn ==
  \A q, r \in Runs : q < r /\ req[q].chat = req[r].chat =>
    \A m \in Handed(q), k \in Handed(r) : m < k

Dealt == Numbers /\ Logged /\ Carried /\ Apart /\ InTurn

(* What an undisturbed step does to what waits for a run. *)
LEMMA QueueSteps ==
  ASSUME Undisturbed, Before, [Next]_vars, NEW q \in Runs
  PROVE  \/ inbox'[q] = inbox[q] /\ taken'[q] = taken[q]
         \/ /\ InjectPush /\ q = conv.run
            /\ inbox'[q] = Append(inbox[q], conv.msg) /\ taken'[q] = taken[q]
         \/ DrainTake(q) /\ taken[q] = << >> /\ taken'[q] = inbox[q] /\ inbox'[q] = << >>
         \/ DrainMove(q) /\ taken[q] # << >> /\ taken'[q] = Tail(taken[q]) /\ inbox'[q] = inbox[q]
         \/ Open(q) /\ inbox'[q] = << >> /\ taken'[q] = taken[q] /\ taken[q] = << >>
<1>t. inbox \in [Runs -> Seq(Msgs)] /\ taken \in [Runs -> Seq(Msgs)]
  BY DEF Before, Inv, ControlTypeOK
<1>1. CASE ~\E r \in Runs : Work(r)
  <2>1. CASE InjectPush
    <3>1. taken' = taken /\ inbox' = [inbox EXCEPT ![conv.run] = Append(@, conv.msg)]
      BY <2>1 DEF InjectPush
    <3> QED
      BY <2>1, <3>1, <1>t
  <2>2. ASSUME NEW r \in Runs, StartCreate(r) PROVE inbox' = inbox /\ taken' = taken
    BY <2>2 DEF StartCreate, runVars
  <2>3. ASSUME NEW c \in Chats, NEW r \in Runs, Clear(c, r) PROVE inbox' = inbox /\ taken' = taken
    BY <2>3, ClearPuts
  <2>4. CASE Asks \/ Rests
    BY <2>4 DEF Asks, Rests
  <2>5. \/ InjectPush
        \/ \E r \in Runs : StartCreate(r)
        \/ \E c \in Chats, r \in Runs : Clear(c, r)
        \/ Asks \/ Rests
    BY <1>1, CalmOthers DEF Before
  <2> QED
    BY <2>1, <2>2, <2>3, <2>4, <2>5
<1>2. ASSUME NEW r \in Runs, Work(r), r # q PROVE inbox'[q] = inbox[q] /\ taken'[q] = taken[q]
  BY <1>2, WorkOwnQueue DEF Before, LogInv
<1>3. CASE Work(q)
  <2>1. CASE Open(q)
    <3>1. pc[q] = "begin" /\ inbox' = [inbox EXCEPT ![q] = << >>] /\ taken' = taken
      BY <2>1, OpenIs
    <3> QED
      BY <2>1, <3>1, <1>t DEF Before, TakenOnMove
  <2>2. CASE DrainTake(q)
    <3>1. /\ pc[q] = "drain" /\ inbox' = [inbox EXCEPT ![q] = << >>]
          /\ taken' = [taken EXCEPT ![q] = inbox[q]]
      BY <2>2 DEF DrainTake
    <3> QED
      BY <2>2, <3>1, <1>t DEF Before, TakenOnMove
  <2>3. CASE DrainMove(q)
    <3>1. taken[q] # << >> /\ inbox' = inbox /\ taken' = [taken EXCEPT ![q] = Tail(@)]
      BY <2>3 DEF DrainMove
    <3> QED
      BY <2>3, <3>1, <1>t
  <2>4. CASE Utters(q)
    BY <2>4 DEF Utters
  <2> QED
    BY <1>3, <2>1, <2>2, <2>3, <2>4, CalmTells DEF Before
<1> QED
  BY <1>1, <1>2, <1>3

(* What waits for a run waited for it before, or is pushed. *)
LEMMA UnreadSteps ==
  ASSUME Undisturbed, Before, [Next]_vars, NEW q \in Runs
  PROVE  \/ InjectPush /\ q = conv.run /\ Unread(q)' = Unread(q) \cup {conv.msg}
         \/ DrainMove(q)
         \/ Open(q) /\ Unread(q)' = {}
         \/ Unread(q)' = Unread(q)
<1>t. inbox[q] \in Seq(Msgs) /\ taken[q] \in Seq(Msgs) /\ ToSet(<< >>) = {}
  BY ElementsOf DEF Before, Inv, ControlTypeOK
<1>1. CASE inbox'[q] = inbox[q] /\ taken'[q] = taken[q]
  BY <1>1 DEF Unread
<1>2. CASE InjectPush /\ q = conv.run /\ inbox'[q] = Append(inbox[q], conv.msg) /\ taken'[q] = taken[q]
  BY <1>2, PushIs DEF Unread, Before
<1>3. CASE DrainTake(q) /\ taken[q] = << >> /\ taken'[q] = inbox[q] /\ inbox'[q] = << >>
  BY <1>3, <1>t DEF Unread
<1>4. CASE Open(q) /\ inbox'[q] = << >> /\ taken'[q] = taken[q] /\ taken[q] = << >>
  BY <1>4, <1>t DEF Unread
<1> QED
  BY <1>1, <1>2, <1>3, <1>4, QueueSteps

(* A drain takes the first of what was taken. *)
LEMMA DrainIs ==
  ASSUME Before, NEW q \in Runs, DrainMove(q)
  PROVE  /\ Head(taken[q]) \in Msgs /\ Head(taken[q]) \in Unread(q) /\ pc[q] = "move" /\ pc' = pc
         /\ taken[q] # << >> /\ taken'[q] = Tail(taken[q]) /\ inbox'[q] = inbox[q]
         /\ Unread(q) = Unread(q)' \cup {Head(taken[q])}
         /\ hist'[q] = Append(hist[q], UserItem(q, Head(taken[q])))
         /\ UserItem(q, Head(taken[q])) \in Item /\ UserItem(q, Head(taken[q])).msg = Head(taken[q])
<1>1. /\ pc[q] = "move" /\ pc' = pc /\ taken[q] # << >> /\ inbox' = inbox
      /\ taken' = [taken EXCEPT ![q] = Tail(@)]
      /\ hist' = [hist EXCEPT ![q] = Append(@, UserItem(q, Head(taken[q])))]
  BY DEF DrainMove, runVars
<1>2. inbox \in [Runs -> Seq(Msgs)] /\ taken \in [Runs -> Seq(Msgs)] /\ hist \in [Runs -> Seq(Item)]
  BY DEF Before, Inv, ControlTypeOK, LogInv, DataInv, DataTypeOK
<1>3. taken[q] \in Seq(Msgs) /\ taken'[q] = Tail(taken[q]) /\ inbox'[q] = inbox[q]
      /\ hist'[q] = Append(hist[q], UserItem(q, Head(taken[q])))
  BY <1>1, <1>2
<1>4. Head(taken[q]) \in Msgs /\ ToSet(taken[q]) = ToSet(Tail(taken[q])) \cup {Head(taken[q])}
  BY <1>1, <1>3, HeadAndTail
<1>5. Unread(q) = Unread(q)' \cup {Head(taken[q])}
  BY <1>3, <1>4 DEF Unread
<1> DEFINE m == Head(taken[q])
<1>6. m \in Msgs
  BY <1>4
<1> HIDE DEF m
<1>7. UserItem(q, m) \in Item /\ UserItem(q, m).msg = m
  BY <1>6, ItemsAre DEF UserItem
<1> QED
  BY <1>1, <1>3, <1>4, <1>5, <1>7 DEF m

(* A message that is handed over is no longer carried. *)
LEMMA HandsOver ==
  ASSUME Before, InjectPush \/ \E r \in Runs : StartCreate(r)
  PROVE  conv.step \in Underway /\ conv'.step \notin Underway
<1>1. conv \in {v \in {conv} : HolderType(v)}
  BY DEF Before, Inv, ControlTypeOK
<1>2. CASE InjectPush
  BY <1>2 DEF InjectPush, Release, Free, Underway
<1>3. ASSUME NEW r \in Runs, StartCreate(r) PROVE conv.step \in Underway /\ conv'.step \notin Underway
  <2>1. conv.step = "create" /\ conv'.step = "track"
    BY <1>1, <1>3 DEF StartCreate, HolderType
  <2> QED
    BY <2>1 DEF Underway
<1> QED
  BY <1>2, <1>3

(* Messages are counted as they are sent. *)
LEMMA SentGrows ==
  ASSUME Undisturbed, Before, [Next]_vars
  PROVE  sent \in Nat /\ sent' \in Nat /\ sent <= sent'
<1>1. sent \in 0 .. NMsgs
  BY DEF Before, Inv, ControlTypeOK
<1>2. sent' = sent \/ sent' = sent + 1
  <2>1. ASSUME NEW r \in Runs, Work(r) PROVE sent' = sent
    BY <2>1, WorkLeaves DEF Before
  <2>2. ASSUME InjectPush \/ \E r \in Runs : StartCreate(r) PROVE sent' = sent
    BY <2>2 DEF InjectPush, StartCreate, histVars
  <2>3. ASSUME NEW c \in Chats, NEW r \in Runs, Clear(c, r) PROVE sent' = sent
    BY <2>3, ClearPuts
  <2>4. CASE Asks \/ Rests
    BY <2>4 DEF Asks, Rests
  <2> QED
    BY <2>1, <2>2, <2>3, <2>4, CalmOthers DEF Before
<1> QED
  BY <1>1, <1>2

(* Numbers stay below the number sent. *)
LEMMA NumbersKept ==
  ASSUME Undisturbed, Before, Dealt, [Next]_vars
  PROVE  Numbers'
<1> SUFFICES ASSUME NEW q \in Runs, NEW m \in Handed(q)' PROVE m \in 1 .. sent'
  BY DEF Numbers
<1>1. m \in 1 .. sent
  <2>1. CASE m \in Handed(q)
    BY <2>1 DEF Dealt, Numbers
  <2>2. CASE m \notin Handed(q)
    <3>1. m = conv.msg /\ conv.step \in Underway
      BY <2>2, HandedGrows, HandsOver
    <3> QED
      BY <3>1 DEF Dealt, Carried
  <2> QED
    BY <2>1, <2>2
<1> QED
  BY <1>1, SentGrows

(* What waits for a run is in its log. *)
LEMMA LoggedKept ==
  ASSUME Undisturbed, Before, Dealt, [Next]_vars
  PROVE  Logged'
<1> SUFFICES ASSUME NEW q \in Runs PROVE Unread(q)' \subseteq MessagesOf(q)'
  BY DEF Logged
<1>1. Unread(q) \subseteq MessagesOf(q)'
  BY NothingLost DEF Dealt, Logged, MessagesOf
<1>2. CASE InjectPush /\ q = conv.run /\ Unread(q)' = Unread(q) \cup {conv.msg}
  <2>1. PICK e \in Event : /\ e.run = q /\ e.kind = "user" /\ e.msg = conv.msg
                           /\ log' = [log EXCEPT ![req[q].chat] = Append(@, e)]
    BY <1>2, PushAdds DEF Adds
  <2>2. req[q].chat \in Chats /\ log \in [Chats -> Seq(Event)]
    BY <1>2, PushAdds DEF Before, LogInv, DataInv, DataTypeOK
  <2>3. log'[req[q].chat] = Append(log[req[q].chat], e) /\ log[req[q].chat] \in Seq(Event)
    BY <2>1, <2>2
  <2>4. e \in ToSet(log'[req[q].chat])
    <3>1. ToSet(Append(log[req[q].chat], e)) = ToSet(log[req[q].chat]) \cup {e}
      BY <2>3, OneMore
    <3> QED
      BY <2>3, <3>1
  <2>5. e \in EventsNow'
    BY <2>2, <2>4 DEF EventsNow
  <2>6. conv.msg \in MessagesOf(q)'
    BY <2>1, <2>5 DEF MessagesOf
  <2> QED
    BY <1>1, <1>2, <2>6
<1>3. CASE DrainMove(q)
  BY <1>1, <1>3, DrainIs
<1> QED
  BY <1>1, <1>2, <1>3, UnreadSteps

(* The message that is carried is the newest and nobody's. *)
LEMMA CarriedKept ==
  ASSUME Undisturbed, Before, Dealt, [Next]_vars
  PROVE  Carried'
<1> SUFFICES ASSUME conv'.step \in Underway
             PROVE  conv'.msg = sent' /\ conv'.msg \in Msgs /\ \A q \in Runs : conv'.msg \notin Handed(q)'
  BY DEF Carried
<1>1. \A q \in Runs : Handed(q)' \subseteq Handed(q)
  BY HandedGrows, HandsOver
<1>2. CASE conv.step \in Underway /\ conv'.msg = conv.msg /\ sent' = sent
  BY <1>1, <1>2 DEF Dealt, Carried
<1>3. ASSUME NEW r \in Runs, Work(r) PROVE conv.step \in Underway /\ conv'.msg = conv.msg /\ sent' = sent
  BY <1>3, WorkLeaves DEF Before
<1>4. ASSUME NEW c \in Chats, NEW r \in Runs, Clear(c, r)
      PROVE  conv.step \in Underway /\ conv'.msg = conv.msg /\ sent' = sent
  BY <1>4, ClearPuts
<1>5. CASE Rests
  BY <1>2, <1>5 DEF Rests
<1>6. CASE Asks
  <2>1. conv'.msg = sent + 1 /\ sent' = sent + 1 /\ sent \in 0 .. NMsgs /\ sent < NMsgs
    BY <1>6 DEF Asks, Before, Inv, ControlTypeOK
  <2>2. \A q \in Runs : sent + 1 \notin Handed(q)
    BY <2>1 DEF Dealt, Numbers
  <2> QED
    BY <1>1, <2>1, <2>2
<1> QED
  BY <1>2, <1>3, <1>4, <1>5, <1>6, HandsOver, CalmOthers DEF Before

(* Nobody is handed another run's message, and none that is older than     *)
(* those of a run before it.                                               *)
LEMMA TurnsKept ==
  ASSUME Undisturbed, Before, Dealt, [Next]_vars
  PROVE  Apart' /\ InTurn'
<1>0. /\ \A q \in Runs : Handed(q) \subseteq 1 .. sent
      /\ conv.step \in Underway => conv.msg = sent /\ \A q \in Runs : conv.msg \notin Handed(q)
  BY DEF Dealt, Numbers, Carried
<1>1. \A q \in Runs : \A m \in Handed(q)' :
        \/ m \in Handed(q)
        \/ /\ m = sent /\ \A p \in Runs : sent \notin Handed(p)
           /\ (InjectPush /\ q = conv.run) \/ StartCreate(q)
  BY <1>0, HandedGrows, HandsOver
<1>2. \A q, p \in Runs : ((InjectPush /\ q = conv.run) \/ StartCreate(q))
                         /\ ((InjectPush /\ p = conv.run) \/ StartCreate(p)) => q = p
  <2>1. \A q, p \in Runs : StartCreate(q) /\ StartCreate(p) => q = p
    <3> SUFFICES ASSUME NEW q \in Runs, NEW p \in Runs, StartCreate(q), StartCreate(p) PROVE q = p
      OBVIOUS
    <3>1. conv = [step |-> conv.step, by |-> conv.by, op |-> conv.op, chat |-> conv.chat,
                  msg |-> conv.msg, old |-> conv.old, run |-> conv.run,
                  wait |-> conv.wait, snap |-> conv.snap]
      BY DEF Before, Inv, ControlTypeOK, HolderType
    <3>2. conv' = [conv EXCEPT !.step = "track", !.run = q] /\ conv' = [conv EXCEPT !.step = "track", !.run = p]
      BY DEF StartCreate
    <3>3. conv'.run = q
      BY <3>1, <3>2
    <3>4. conv'.run = p
      BY <3>1, <3>2
    <3> QED
      BY <3>3, <3>4
  <2>2. \A q \in Runs : ~(InjectPush /\ StartCreate(q))
    BY DEF InjectPush, StartCreate
  <2> QED
    BY <2>1, <2>2
<1>3. Apart'
  BY <1>1, <1>2 DEF Dealt, Apart
<1>4. InTurn'
  <2> SUFFICES ASSUME NEW q \in Runs, NEW p \in Runs, q < p, req'[q].chat = req'[p].chat,
                      NEW m \in Handed(q)', NEW k \in Handed(p)'
               PROVE  m < k
    BY DEF InTurn
  <2>1. Stay
    BY RowsStay DEF Before, LogInv
  <2>2. CASE m \in Handed(q) /\ k \in Handed(p)
    <3>1. row[q] # "none" /\ row[p] # "none"
      BY <2>2 DEF Handed
    <3>2. req[q].chat = req[p].chat
      BY <2>1, <3>1 DEF Stay
    <3> QED
      BY <2>2, <3>2 DEF Dealt, InTurn
  <2>3. CASE m \in Handed(q) /\ k \notin Handed(p)
    <3>1. k = sent /\ m # sent
      BY <1>1, <2>3
    <3>2. m \in 1 .. sent /\ sent \in Nat
      BY <1>0, <2>3, SentGrows
    <3> QED
      BY <3>1, <3>2
  <2>4. CASE m \notin Handed(q) /\ k \in Handed(p)
    <3>1. row[p] # "none"
      BY <2>4 DEF Handed
    <3>2. CASE InjectPush /\ q = conv.run
      <4>1. row[q] # "none" /\ Youngest(q)
        BY <3>2, PushAdds DEF Before, PlaceInv, Newest, InjectPush
      <4>2. req[q].chat = req[p].chat
        BY <2>1, <3>1, <4>1 DEF Stay
      <4> QED
        BY <3>1, <4>1, <4>2 DEF Youngest
    <3>3. CASE StartCreate(q)
      <4>1. row[q] = "none"
        BY <3>3 DEF StartCreate, NewRun
      <4> QED
        BY <3>1, <4>1 DEF Before, PlaceInv, Numbered
    <3> QED
      BY <1>1, <2>4, <3>2, <3>3
  <2>5. CASE m \notin Handed(q) /\ k \notin Handed(p)
    BY <1>1, <1>2, <2>5
  <2> QED
    BY <2>2, <2>3, <2>4, <2>5
<1> QED
  BY <1>3, <1>4

(* Every step keeps whose the messages are. *)
LEMMA DealtKept ==
  ASSUME Undisturbed, Before, Dealt, [Next]_vars
  PROVE  Dealt'
BY NumbersKept, LoggedKept, CarriedKept, TurnsKept DEF Dealt

-----------------------------------------------------------------------------
(* What waits for a run waits in the order it was sent, behind all that the *)
(* run has read or moved to its history, and behind the message that       *)
(* started it.                                                             *)
Ascending(q) == \A i, j \in DOMAIN q : i < j => q[i] < q[j]
QueuesInLine ==
  \A r \in Runs : /\ Ascending(taken[r]) /\ Ascending(inbox[r])
                  /\ \A m \in ToSet(taken[r]), k \in ToSet(inbox[r]) : m < k
UnreadLast ==
  \A r \in Runs : /\ \A m \in Handed(r) \ Unread(r), k \in Unread(r) : m < k
                  /\ row[r] # "none" => req[r].msg \notin Unread(r)
InLine == QueuesInLine /\ UnreadLast

(* A number behind smaller ones, and a list without its first. *)
LEMMA AscendingIs ==
  ASSUME NEW q \in Seq(Msgs), Ascending(q)
  PROVE  /\ Ascending(<< >>)
         /\ \A m \in Msgs : (\A k \in ToSet(q) : k < m) => Ascending(Append(q, m))
         /\ q # << >> => Ascending(Tail(q)) /\ \A k \in ToSet(Tail(q)) : Head(q) < k
<1>1. Ascending(<< >>)
  BY DEF Ascending
<1>2. ASSUME NEW m \in Msgs, \A k \in ToSet(q) : k < m PROVE Ascending(Append(q, m))
  <2>1. /\ Len(q) \in Nat /\ DOMAIN q = 1 .. Len(q)
        /\ \A i \in DOMAIN Append(q, m) : \/ i \in DOMAIN q /\ Append(q, m)[i] = q[i]
                                          \/ i = Len(q) + 1 /\ Append(q, m)[i] = m
    BY AppendedIs
  <2>2. \A i \in DOMAIN q : q[i] < m
    BY <1>2 DEF ToSet
  <2> SUFFICES ASSUME NEW i \in DOMAIN Append(q, m), NEW j \in DOMAIN Append(q, m), i < j
               PROVE  Append(q, m)[i] < Append(q, m)[j]
    BY DEF Ascending
  <2>3. i \in DOMAIN q /\ Append(q, m)[i] = q[i]
    BY <2>1
  <2>4. CASE j \in DOMAIN q
    <3>1. Append(q, m)[j] = q[j]
      BY <2>1, <2>4
    <3> QED
      BY <2>3, <2>4, <3>1 DEF Ascending
  <2>5. CASE j \notin DOMAIN q
    BY <2>1, <2>2, <2>3, <2>5
  <2> QED
    BY <2>4, <2>5
<1>3. ASSUME q # << >> PROVE Ascending(Tail(q)) /\ \A k \in ToSet(Tail(q)) : Head(q) < k
  <2>1. /\ Tail(q) \in Seq(Msgs) /\ Head(q) = q[1] /\ 1 \in DOMAIN q
        /\ \A i \in DOMAIN Tail(q) : i \in Nat /\ i + 1 \in DOMAIN q /\ Tail(q)[i] = q[i + 1]
    BY <1>3, HeadAndTail
  <2>2. DOMAIN Tail(q) = 1 .. Len(Tail(q))
    BY <2>1
  <2>3. ASSUME NEW i \in DOMAIN Tail(q), NEW j \in DOMAIN Tail(q), i < j
        PROVE  Tail(q)[i] < Tail(q)[j]
    <3>1. i + 1 \in DOMAIN q /\ j + 1 \in DOMAIN q /\ i + 1 < j + 1
      BY <2>1, <2>3
    <3>2. q[i + 1] < q[j + 1]
      BY <3>1 DEF Ascending
    <3> QED
      BY <2>1, <3>2
  <2>4. ASSUME NEW i \in DOMAIN Tail(q) PROVE Head(q) < Tail(q)[i]
    <3>1. i + 1 \in DOMAIN q /\ 1 < i + 1
      BY <2>1, <2>2
    <3>2. q[1] < q[i + 1]
      BY <2>1, <3>1 DEF Ascending
    <3> QED
      BY <2>1, <3>2
  <2> QED
    BY <2>3, <2>4 DEF Ascending, ToSet
<1> QED
  BY <1>1, <1>2, <1>3

(* What waits for a run was handed to it, so the run has a row. *)
LEMMA UnreadHanded ==
  ASSUME Before, Logged, NEW r \in Runs
  PROVE  Unread(r) \subseteq Handed(r) /\ (row[r] = "none" => Unread(r) = {})
<1>1. Unread(r) \subseteq MessagesOf(r) /\ NoMsg \notin MessagesOf(r)
  BY DEF Logged, Before, Worded
<1>2. row[r] = "none" => MessagesOf(r) = {}
  BY DEF Before, LogInv, LogRuns, MessagesOf, EventsNow
<1> QED
  BY <1>1, <1>2 DEF Handed

(* A message that is pushed is newer than all its run was handed. *)
LEMMA PushIsNewest ==
  ASSUME Before, Dealt, InjectPush
  PROVE  /\ conv.run \in Runs /\ conv.msg \in Msgs /\ conv.msg \notin Handed(conv.run)
         /\ \A m \in Handed(conv.run) : m < conv.msg
<1>1. conv.run \in Runs /\ conv.step \in Underway
  BY PushIs, HandsOver DEF Before
<1>2. conv.msg = sent /\ conv.msg \in Msgs /\ conv.msg \notin Handed(conv.run)
      /\ Handed(conv.run) \subseteq 1 .. sent
  BY <1>1 DEF Dealt, Carried, Numbers
<1> QED
  BY <1>1, <1>2

(* Every step keeps the queues in line (inject, drainInbox). *)
LEMMA QueuesInLineKept ==
  ASSUME Undisturbed, Before, Dealt, InLine, [Next]_vars
  PROVE  QueuesInLine'
<1> SUFFICES ASSUME NEW q \in Runs
             PROVE  /\ Ascending(taken'[q]) /\ Ascending(inbox'[q])
                    /\ \A m \in ToSet(taken'[q]), k \in ToSet(inbox'[q]) : m < k
  BY DEF QueuesInLine, Ascending
<1>1. inbox[q] \in Seq(Msgs) /\ taken[q] \in Seq(Msgs)
  BY DEF Before, Inv, ControlTypeOK
<1>2. /\ Ascending(taken[q]) /\ Ascending(inbox[q])
      /\ \A m \in ToSet(taken[q]), k \in ToSet(inbox[q]) : m < k
  BY DEF InLine, QueuesInLine
<1>3. ToSet(<< >>) = {} /\ Ascending(<< >>)
  BY <1>1, <1>2, ElementsOf, AscendingIs
<1>4. CASE inbox'[q] = inbox[q] /\ taken'[q] = taken[q]
  BY <1>2, <1>4
<1>5. CASE InjectPush /\ q = conv.run /\ inbox'[q] = Append(inbox[q], conv.msg) /\ taken'[q] = taken[q]
  <2>1. conv.msg \in Msgs /\ \A m \in Unread(q) : m < conv.msg
    BY <1>5, PushIsNewest, UnreadHanded DEF Dealt
  <2>2. ToSet(inbox'[q]) = ToSet(inbox[q]) \cup {conv.msg}
    BY <1>5, PushIs DEF Before
  <2>3. Ascending(inbox'[q])
    BY <1>1, <1>2, <1>5, <2>1, AscendingIs DEF Unread
  <2> QED
    BY <1>2, <1>5, <2>1, <2>2, <2>3 DEF Unread
<1>6. CASE taken[q] = << >> /\ taken'[q] = inbox[q] /\ inbox'[q] = << >>
  BY <1>2, <1>3, <1>6
<1>7. CASE taken[q] # << >> /\ taken'[q] = Tail(taken[q]) /\ inbox'[q] = inbox[q]
  <2>1. ToSet(Tail(taken[q])) \subseteq ToSet(taken[q])
    BY <1>1, <1>7, HeadAndTail
  <2> QED
    BY <1>1, <1>2, <1>7, <2>1, AscendingIs
<1>8. CASE inbox'[q] = << >> /\ taken'[q] = taken[q] /\ taken[q] = << >>
  BY <1>3, <1>8
<1> QED
  BY <1>4, <1>5, <1>6, <1>7, <1>8, QueueSteps

(* Every step leaves what waits for a run behind what the run was handed   *)
(* before (inject, settleInbox, drainInbox).                               *)
LEMMA UnreadLastKept ==
  ASSUME Undisturbed, Before, Dealt, InLine, [Next]_vars
  PROVE  UnreadLast'
<1> SUFFICES ASSUME NEW q \in Runs
             PROVE  /\ \A m \in Handed(q)' \ Unread(q)', k \in Unread(q)' : m < k
                    /\ row'[q] # "none" => req'[q].msg \notin Unread(q)'
  BY DEF UnreadLast
<1>1. /\ \A m \in Handed(q) \ Unread(q), k \in Unread(q) : m < k
      /\ row[q] # "none" => req[q].msg \notin Unread(q)
  BY DEF InLine, UnreadLast
<1>2. Unread(q) \subseteq Handed(q) /\ (row[q] = "none" => Unread(q) = {})
  BY UnreadHanded DEF Dealt
<1>3. row[q] # "none" => req'[q] = req[q]
  BY RowsStay DEF Before, LogInv, Stay
<1>4. \A m \in Handed(q)' : m \in Handed(q) \/ (m = conv.msg /\ ((InjectPush /\ q = conv.run) \/ StartCreate(q)))
  BY HandedGrows
<1>5. CASE InjectPush /\ q = conv.run /\ Unread(q)' = Unread(q) \cup {conv.msg}
  <2>1. /\ conv.msg \in Msgs /\ conv.msg \notin Handed(q) /\ \A m \in Handed(q) : m < conv.msg
        /\ row[q] # "none"
    BY <1>5, PushIsNewest, PushAdds
  <2>2. req[q].msg # conv.msg
    BY <2>1 DEF Handed
  <2>3. \A m \in Handed(q)' \ Unread(q)' : m \in Handed(q) \ Unread(q)
    BY <1>4, <1>5
  <2> QED
    BY <1>1, <1>3, <1>5, <2>1, <2>2, <2>3
<1>6. CASE DrainMove(q)
  <2> DEFINE h == Head(taken[q])
  <2>1. /\ taken[q] # << >> /\ taken'[q] = Tail(taken[q]) /\ inbox'[q] = inbox[q]
        /\ Unread(q) = Unread(q)' \cup {h} /\ h \in Unread(q)
    BY <1>6, DrainIs
  <2>2. taken[q] \in Seq(Msgs) /\ Ascending(taken[q])
        /\ \A m \in ToSet(taken[q]), k \in ToSet(inbox[q]) : m < k
    BY DEF Before, Inv, ControlTypeOK, InLine, QueuesInLine
  <2>3. h \in ToSet(taken[q]) /\ \A k \in ToSet(Tail(taken[q])) : h < k
    BY <2>1, <2>2, AscendingIs, HeadAndTail
  <2>4. \A k \in Unread(q)' : h < k
    BY <2>1, <2>2, <2>3 DEF Unread
  <2>5. \A m \in Handed(q)' : m \in Handed(q)
    <3>1. conv' = conv
      BY <1>6 DEF DrainMove, appVars
    <3> QED
      BY <1>4, <3>1, HandsOver
  <2>6. row[q] # "none"
    BY <1>2, <2>1
  <2> HIDE DEF h
  <2> QED
    BY <1>1, <1>3, <2>1, <2>4, <2>5, <2>6
<1>7. CASE Unread(q)' = {}
  BY <1>7
<1>8. CASE Unread(q)' = Unread(q) /\ ~(InjectPush /\ q = conv.run)
  <2>1. CASE row[q] = "none"
    BY <1>2, <1>8, <2>1
  <2>2. CASE row[q] # "none"
    <3>1. ~StartCreate(q)
      BY <2>2 DEF StartCreate, NewRun
    <3> QED
      BY <1>1, <1>3, <1>4, <1>8, <2>2, <3>1
  <2> QED
    BY <2>1, <2>2
<1>9. CASE Unread(q)' = Unread(q) /\ InjectPush /\ q = conv.run
  <2>1. conv.msg \in Unread(q)'
    BY <1>9, PushIs, QueueSteps DEF Before, Unread
  <2>2. conv.msg \notin Unread(q)
    BY <1>2, <1>9, PushIsNewest
  <2> QED
    BY <1>9, <2>1, <2>2
<1> QED
  BY <1>5, <1>6, <1>7, <1>8, <1>9, UnreadSteps

(* Every step keeps what waits in line. *)
LEMMA InLineKept ==
  ASSUME Undisturbed, Before, Dealt, InLine, [Next]_vars
  PROVE  InLine'
BY QueuesInLineKept, UnreadLastKept DEF InLine

-----------------------------------------------------------------------------
(* The messages of a run lie in its log in the order they were sent, but   *)
(* those that still wait once it has opened: a drain moves them behind.     *)
Stands(e) == pc[e.run] = "begin" \/ e.msg \notin Unread(e.run)
Follows(s, e, f) == \E i, j \in DOMAIN s : i < j /\ s[i] = e /\ s[j] = f
Both(e, f) == e.run = f.run /\ e.kind = "user" /\ f.kind = "user"
SentOrder(e, f) == e.msg # f.msg /\ (Stands(e) /\ Stands(f) => e.msg < f.msg)
LogOrder ==
  \A c \in Chats : \A e, f \in Event :
    Follows(log[c], e, f) /\ Both(e, f) => SentOrder(e, f)

(* Events of the log, and their messages, are of their run and its chat. *)
LEMMA EventIs ==
  ASSUME Before, NEW c \in Chats, NEW e \in ToSet(log[c])
  PROVE  /\ e \in Event /\ e \in EventsNow /\ e.run \in Runs
         /\ row[e.run] # "none" /\ req[e.run].chat = c
         /\ e.kind = "user" => e.msg \in Handed(e.run)
<1>1. e \in EventsNow /\ row[e.run] # "none" /\ req[e.run].chat = c
  BY DEF EventsNow, Before, LogInv, LogRuns
<1>2. log[c] \in Seq(Event)
  BY DEF Before, LogInv, DataInv, DataTypeOK
<1>3. e \in Event /\ e.run \in Runs
  BY <1>2, ElementsOf, EventHas
<1>4. e.kind = "user" => e.msg \in MessagesOf(e.run) /\ NoMsg \notin MessagesOf(e.run)
  BY <1>1, <1>3 DEF MessagesOf, Before, Worded
<1> QED
  BY <1>1, <1>3, <1>4 DEF Handed

(* A run is tracked before it has events; no goroutine begins again. *)
LEMMA BeginsOnce ==
  ASSUME Undisturbed, Before, [Next]_vars, NEW e \in Event, e \in EventsNow,
         pc'[e.run] = "begin"
  PROVE  pc[e.run] = "begin"
<1>0. e.run \in Runs
  BY EventHas
<1>1. ASSUME NEW r \in Runs, Work(r) PROVE pc[e.run] = "begin"
  BY <1>0, <1>1, WorkBegins, WorkOwnStage DEF Before
<1>2. CASE InjectPush
  <2>1. pc' = pc \/ pc' = [pc EXCEPT ![conv.by] = "toolBack"]
    BY <1>2 DEF InjectPush, Release
  <2>2. pc \in [Runs -> PCs]
    BY DEF Before, Inv, ControlTypeOK
  <2> QED
    BY <1>0, <2>1, <2>2
<1>3. ASSUME NEW r \in Runs, StartCreate(r) PROVE pc[e.run] = "begin"
  BY <1>3 DEF StartCreate, runVars
<1>4. ASSUME NEW c \in Chats, NEW r \in Runs, Clear(c, r) PROVE pc[e.run] = "begin"
  BY <1>4 DEF Clear, runVars
<1>5. CASE Asks
  BY <1>5 DEF Asks
<1>6. CASE Rests
  BY <1>0, <1>6 DEF Rests, Before, Unopened
<1> QED
  BY <1>1, <1>2, <1>3, <1>4, <1>5, <1>6, CalmOthers DEF Before

(* A message that has its place has had it, but the one a drain moves. *)
LEMMA StandsBack ==
  ASSUME Undisturbed, Before, [Next]_vars, NEW e \in Event, e \in EventsNow, Stands(e)'
  PROVE  Stands(e) \/ (DrainMove(e.run) /\ e.msg = Head(taken[e.run]))
<1>0. e.run \in Runs
  BY EventHas
<1>1. CASE pc'[e.run] = "begin"
  BY <1>1, BeginsOnce DEF Stands
<1>2. CASE e.msg \notin Unread(e.run)'
  <2>1. CASE DrainMove(e.run)
    BY <1>0, <1>2, <2>1, DrainIs DEF Stands, Before
  <2>2. CASE Open(e.run)
    BY <2>2 DEF Open, Stands
  <2>3. CASE Unread(e.run) \subseteq Unread(e.run)'
    BY <1>2, <2>3 DEF Stands
  <2> QED
    BY <1>0, <2>1, <2>2, <2>3, UnreadSteps
<1> QED
  BY <1>1, <1>2 DEF Stands

(* Two messages keep their order, but where a drain moves one of them. *)
LEMMA OrderStays ==
  ASSUME Undisturbed, Before, [Next]_vars, NEW e \in Event, NEW f \in Event,
         e \in EventsNow, f \in EventsNow, Both(e, f), SentOrder(e, f),
         ~\E r \in Runs : DrainMove(r) /\ (e.msg = Head(taken[r]) \/ f.msg = Head(taken[r]))
  PROVE  SentOrder(e, f)'
<1>1. e.run \in Runs /\ f.run \in Runs
  BY EventHas
<1>2. Stands(e)' => Stands(e)
  BY <1>1, StandsBack
<1>3. Stands(f)' => Stands(f)
  BY <1>1, StandsBack
<1> QED
  BY <1>2, <1>3 DEF SentOrder

(* What follows what in a log that is rearranged or gets one event more. *)
LEMMA FollowsIs ==
  ASSUME NEW s \in Seq(Event)
  PROVE  /\ \A e, f : Follows(s, e, f) => e \in ToSet(s) /\ f \in ToSet(s)
         /\ \A t, h, M, e, f : Rearranged(t, s, h, M) /\ Follows(t, e, f) =>
              \/ (e \in M <=> f \in M) /\ Follows(s, e, f)
              \/ e \notin M /\ f \in M /\ e \in ToSet(s) /\ f \in ToSet(s)
         /\ \A g \in Event : \A e, f : Follows(Append(s, g), e, f) =>
              Follows(s, e, f) \/ (e \in ToSet(s) /\ f = g)
<1>1. \A e, f : Follows(s, e, f) => e \in ToSet(s) /\ f \in ToSet(s)
  BY DEF Follows, ToSet
<1>2. ASSUME NEW t, NEW h, NEW M, NEW e, NEW f, Rearranged(t, s, h, M), Follows(t, e, f)
      PROVE  \/ (e \in M <=> f \in M) /\ Follows(s, e, f)
             \/ e \notin M /\ f \in M /\ e \in ToSet(s) /\ f \in ToSet(s)
  <2>1. PICK i \in DOMAIN t, j \in DOMAIN t : i < j /\ t[i] = e /\ t[j] = f
    BY <1>2 DEF Follows
  <2>2. h[i] \in DOMAIN s /\ h[j] \in DOMAIN s /\ s[h[i]] = e /\ s[h[j]] = f
    BY <1>2, <2>1 DEF Rearranged
  <2>3. \/ (e \in M <=> f \in M) /\ h[i] < h[j]
        \/ e \notin M /\ f \in M
    BY <1>2, <2>1 DEF Rearranged
  <2> QED
    BY <2>2, <2>3 DEF Follows, ToSet
<1>3. ASSUME NEW g \in Event, NEW e, NEW f, Follows(Append(s, g), e, f)
      PROVE  Follows(s, e, f) \/ (e \in ToSet(s) /\ f = g)
  <2>1. PICK i \in DOMAIN Append(s, g), j \in DOMAIN Append(s, g) :
          i < j /\ Append(s, g)[i] = e /\ Append(s, g)[j] = f
    BY <1>3 DEF Follows
  <2>2. /\ Len(s) \in Nat /\ DOMAIN s = 1 .. Len(s)
        /\ \A p \in DOMAIN Append(s, g) : \/ p \in DOMAIN s /\ Append(s, g)[p] = s[p]
                                          \/ p = Len(s) + 1 /\ Append(s, g)[p] = g
        /\ DOMAIN Append(s, g) = 1 .. Len(s) + 1
    BY AppendedIs
  <2>3. i \in DOMAIN s /\ s[i] = e
    BY <2>1, <2>2
  <2>4. (j \in DOMAIN s /\ s[j] = f) \/ f = g
    BY <2>1, <2>2
  <2> QED
    BY <2>1, <2>3, <2>4 DEF Follows, ToSet
<1> QED
  BY <1>1, <1>2, <1>3

(* Where no drain and no opening moves events, messages keep their order,  *)
(* and one that is pushed is the newest of its run.                        *)
LEMMA PutsKeepOrder ==
  ASSUME Undisturbed, Before, Dealt, LogOrder, [Next]_vars,
         ~\E r \in Runs : DrainMove(r) \/ Open(r)
  PROVE  LogOrder'
<1> SUFFICES ASSUME NEW c \in Chats, NEW e \in Event, NEW f \in Event,
                    Follows(log'[c], e, f), Both(e, f)
             PROVE  SentOrder(e, f)'
  BY DEF LogOrder, Follows, Both
<1>1. log \in [Chats -> Seq(Event)] /\ log[c] \in Seq(Event)
  BY DEF Before, LogInv, DataInv, DataTypeOK
<1>2. ASSUME Follows(log[c], e, f) PROVE SentOrder(e, f)'
  <2>1. e \in EventsNow /\ f \in EventsNow
    BY <1>1, <1>2, FollowsIs, EventIs
  <2>2. SentOrder(e, f)
    BY <1>2 DEF LogOrder
  <2> QED
    BY <2>1, <2>2, OrderStays
<1>3. ASSUME NEW d \in Chats, NEW g \in Event, Puts(d, g), ~Follows(log[c], e, f)
      PROVE  f = g /\ e \in ToSet(log[c])
  <2>1. log'[c] = log[c] \/ log'[c] = Append(log[c], g)
    BY <1>1, <1>3 DEF Puts
  <2>2. Follows(Append(log[c], g), e, f) => Follows(log[c], e, f) \/ (e \in ToSet(log[c]) /\ f = g)
    BY <1>1, FollowsIs
  <2> QED
    BY <1>3, <2>1, <2>2
<1>4. CASE log' = log
  BY <1>2, <1>4
<1>5. ASSUME NEW d \in Chats, NEW g \in Event, g.kind # "user", Puts(d, g) PROVE SentOrder(e, f)'
  BY <1>2, <1>3, <1>5 DEF Both
<1>6. ASSUME InjectPush, NEW g \in Event, g.run = conv.run, g.msg = conv.msg, Puts(req[conv.run].chat, g)
      PROVE  SentOrder(e, f)'
  <2>1. CASE Follows(log[c], e, f)
    BY <1>2, <2>1
  <2>2. CASE ~Follows(log[c], e, f)
    <3>1. req[conv.run].chat \in Chats
      BY <1>6, PushAdds
    <3>2. f = g /\ e \in ToSet(log[c])
      BY <1>3, <1>6, <2>2, <3>1
    <3>3. e.msg \in Handed(conv.run)
      BY <1>6, <3>2, EventIs DEF Both
    <3>4. e.msg < f.msg /\ e.msg # f.msg
      BY <1>6, <3>2, <3>3, PushIsNewest
    <3> QED
      BY <3>4 DEF SentOrder
  <2> QED
    BY <2>1, <2>2
<1> QED
  BY <1>4, <1>5, <1>6, LogSteps

(* A drain moves the first message of those it took behind the log: all    *)
(* others of its run that do not wait were sent before it.                 *)
LEMMA DrainKeepsOrder ==
  ASSUME Undisturbed, Before, Dealt, InLine, LogOrder, [Next]_vars, NEW r \in Runs, DrainMove(r)
  PROVE  LogOrder'
<1> DEFINE m == Head(taken[r])
           b == req[r].chat
           M == UserEvents(log[b], {m})
<1> SUFFICES ASSUME NEW c \in Chats, NEW e \in Event, NEW f \in Event,
                    Follows(log'[c], e, f), Both(e, f)
             PROVE  SentOrder(e, f)'
  BY DEF LogOrder, Follows, Both
<1>1. log \in [Chats -> Seq(Event)] /\ log[c] \in Seq(Event)
  BY DEF Before, LogInv, DataInv, DataTypeOK
<1>2. /\ m \in Msgs /\ m \in Unread(r) /\ pc[r] = "move" /\ pc' = pc /\ m \in Handed(r)
      /\ Unread(r) = Unread(r)' \cup {m} /\ row[r] # "none" /\ b \in Chats
  <2>1. m \in Msgs /\ m \in Unread(r) /\ pc[r] = "move" /\ pc' = pc /\ Unread(r) = Unread(r)' \cup {m}
    BY DrainIs
  <2>2. m \in Handed(r) /\ row[r] # "none"
    BY <2>1, UnreadHanded DEF Dealt
  <2> QED
    BY <2>1, <2>2 DEF Before, LogInv, DataInv, OfChat
<1>3a. PICK t \in Seq(Event) :
          log' = [log EXCEPT ![b] = t] /\ \E k : Rearranged(t, log[b], k, M)
  <2>1. log' = [log EXCEPT ![b] = MoveBehind(@, m)]
    BY DEF DrainMove
  <2>2. Moves(b, {m})
    BY <1>1, <1>2, <2>1, MovesIs DEF LogTyped
  <2> QED
    BY <2>2 DEF Moves
<1>3. PICK h : /\ t \in Seq(Event) /\ log' = [log EXCEPT ![b] = t]
               /\ Rearranged(t, log[b], h, M)
  BY <1>3a
<1> HIDE DEF m, b
<1>4. \A g \in ToSet(log[c]) : g.kind = "user" /\ g.msg = m => g.run = r /\ c = b /\ g \in M
  <2> SUFFICES ASSUME NEW g \in ToSet(log[c]), g.kind = "user", g.msg = m
               PROVE  g.run = r /\ c = b /\ g \in M
    OBVIOUS
  <2>1. g.run \in Runs /\ req[g.run].chat = c /\ m \in Handed(g.run)
    BY EventIs
  <2>2. g.run = r
    BY <1>2, <2>1 DEF Dealt, Apart
  <2> QED
    BY <2>1, <2>2 DEF b, UserEvents
<1>5. \A q \in Runs : DrainMove(q) => q = r
  <2> SUFFICES ASSUME NEW q \in Runs, DrainMove(q), q # r PROVE FALSE
    OBVIOUS
  <2>1. taken \in [Runs -> Seq(Msgs)] /\ taken[q] \in Seq(Msgs) /\ taken[q] # << >>
    BY DEF Before, Inv, ControlTypeOK, DrainMove
  <2>2. taken' = [taken EXCEPT ![r] = Tail(@)] /\ taken' = [taken EXCEPT ![q] = Tail(@)]
    BY DEF DrainMove
  <2>3. taken'[q] = taken[q] /\ taken'[q] = Tail(taken[q])
    BY <2>1, <2>2
  <2>4. Len(Tail(taken[q])) = Len(taken[q]) - 1 /\ Len(taken[q]) \in Nat
    BY <2>1, HeadAndTail
  <2>5. \A n \in Nat : n # n - 1
    OBVIOUS
  <2>6. Len(Tail(taken[q])) = Len(taken[q])
    BY <2>3, Zenon
  <2> QED
    BY <2>4, <2>5, <2>6, Zenon
<1>6. ASSUME Follows(log[c], e, f), e.msg # m, f.msg # m PROVE SentOrder(e, f)'
  <2>1. e \in EventsNow /\ f \in EventsNow
    BY <1>1, <1>6, FollowsIs, EventIs
  <2>2. SentOrder(e, f)
    BY <1>6 DEF LogOrder
  <2>3. ~\E q \in Runs : DrainMove(q) /\ (e.msg = Head(taken[q]) \/ f.msg = Head(taken[q]))
    BY <1>5, <1>6 DEF m
  <2> QED
    BY <2>1, <2>2, <2>3, OrderStays
<1>7. CASE c # b
  <2>1. Follows(log[c], e, f)
    BY <1>1, <1>3, <1>7
  <2>2. e \in ToSet(log[c]) /\ f \in ToSet(log[c])
    BY <1>1, <2>1, FollowsIs
  <2>3. e.msg # m /\ f.msg # m
    BY <1>4, <1>7, <2>2 DEF Both
  <2> QED
    BY <1>6, <2>1, <2>3
<1>8. CASE c = b
  <2>1. Follows(t, e, f) /\ log[b] \in Seq(Event)
    BY <1>1, <1>2, <1>3, <1>8
  <2>2. \/ (e \in M <=> f \in M) /\ Follows(log[c], e, f)
        \/ e \notin M /\ f \in M /\ e \in ToSet(log[c]) /\ f \in ToSet(log[c])
    BY <1>1, <1>3, <1>8, <2>1, FollowsIs
  <2>3. CASE (e \in M <=> f \in M) /\ Follows(log[c], e, f)
    <3>1. e.msg # f.msg /\ e \in ToSet(log[c]) /\ f \in ToSet(log[c])
      BY <1>1, <2>3, FollowsIs DEF LogOrder, SentOrder
    <3>2. ~(e \in M /\ f \in M)
      BY <3>1 DEF UserEvents
    <3>3. e.msg # m /\ f.msg # m
      BY <1>4, <2>3, <3>1, <3>2 DEF Both
    <3> QED
      BY <1>6, <2>3, <3>3
  <2>4. CASE e \notin M /\ f \in M /\ e \in ToSet(log[c]) /\ f \in ToSet(log[c])
    <3>1. f.msg = m
      BY <2>4 DEF UserEvents
    <3>2. f.run = r /\ e.run = r /\ e.msg # m /\ e.msg \in Handed(r)
      BY <1>4, <2>4, <3>1, EventIs DEF Both
    <3>3. Stands(e)' => e.msg \notin Unread(r)
      BY <1>2, <3>2 DEF Stands
    <3>4. e.msg \notin Unread(r) => e.msg < m
      BY <1>2, <3>2 DEF InLine, UnreadLast
    <3> QED
      BY <3>1, <3>2, <3>3, <3>4 DEF SentOrder
  <2> QED
    BY <2>2, <2>3, <2>4
<1> QED
  BY <1>7, <1>8

(* The opening writes the message that started the run and puts those that *)
(* came before it was opened behind, in their order (settleInbox).         *)
LEMMA OpenKeepsOrder ==
  ASSUME Undisturbed, Before, Dealt, InLine, LogOrder, [Next]_vars, NEW r \in Runs, Open(r)
  PROVE  LogOrder'
<1> DEFINE b == req[r].chat
<1> SUFFICES ASSUME NEW c \in Chats, NEW e \in Event, NEW f \in Event,
                    Follows(log'[c], e, f), Both(e, f)
             PROVE  SentOrder(e, f)'
  BY DEF LogOrder, Follows, Both
<1>1. log \in [Chats -> Seq(Event)] /\ log[c] \in Seq(Event)
  BY DEF Before, LogInv, DataInv, DataTypeOK
<1>2. b \in Chats /\ pc[r] = "begin" /\ row[r] # "none" /\ log[b] \in Seq(Event)
      /\ req[r].msg \in Msgs /\ req[r].msg \in Handed(r) /\ req[r].msg \notin Unread(r)
      /\ \A q \in Runs : ~DrainMove(q)
  <2>1. b \in Chats /\ pc[r] = "begin" /\ row[r] # "none" /\ req[r].msg \in Msgs
        /\ pc' = [pc EXCEPT ![r] = "drain"]
    BY OpenIs
  <2>2. \A q \in Runs : ~DrainMove(q)
    <3>1. pc \in [Runs -> PCs]
      BY DEF Before, Inv, ControlTypeOK
    <3> QED
      BY <2>1, <3>1 DEF DrainMove
  <2> QED
    BY <1>1, <2>1, <2>2 DEF Handed, InLine, UnreadLast, Before, LogInv, DataInv, DataTypeOK
<1>3a. PICK g \in Event, t \in Seq(Event) : \E k : Opened(r, g, t, k)
  BY OpenIs
<1>3. PICK h : g \in Event /\ t \in Seq(Event) /\ Opened(r, g, t, h)
  BY <1>3a
<1> DEFINE w == Append(log[b], g)
           M == UserEvents(w, ToSet(inbox[r]))
<1>4. /\ g.run = r /\ g.kind = "user" /\ g.msg = req[r].msg
      /\ log' = [log EXCEPT ![b] = t] /\ Rearranged(t, w, h, M)
  BY <1>3 DEF Opened
<1>5. w \in Seq(Event) /\ ToSet(w) = ToSet(log[b]) \cup {g}
  BY <1>2, OneMore
<1> HIDE DEF w, b
<1>6. ASSUME Follows(log[c], e, f) PROVE SentOrder(e, f)'
  <2>1. e \in EventsNow /\ f \in EventsNow
    BY <1>1, <1>6, FollowsIs, EventIs
  <2>2. SentOrder(e, f)
    BY <1>6 DEF LogOrder
  <2> QED
    BY <1>2, <2>1, <2>2, OrderStays
<1>7. g \notin M /\ \A d \in M : d.run = r /\ d.msg \in Unread(r)
  <2>1. g \notin M
    BY <1>2, <1>4 DEF UserEvents, Unread
  <2>2. ASSUME NEW d \in M PROVE d.run = r /\ d.msg \in Unread(r)
    <3>1. d \in ToSet(log[b]) /\ d.kind = "user" /\ d.msg \in Unread(r)
      BY <1>5, <2>1, <2>2 DEF UserEvents, Unread
    <3>2. d.run \in Runs /\ d.msg \in Handed(d.run) /\ d.msg \in Handed(r)
      BY <1>2, <3>1, EventIs, UnreadHanded DEF Dealt
    <3> QED
      BY <3>1, <3>2 DEF Dealt, Apart
  <2> QED
    BY <2>1, <2>2
<1>8. \A d \in ToSet(log[b]) : d.run = r => d \in M
  <2> SUFFICES ASSUME NEW d \in ToSet(log[b]), d.run = r PROVE d \in M
    OBVIOUS
  <2>1. d \in EventsNow
    BY <1>2, EventIs
  <2>2. d.kind = "user" /\ d.msg \in ToSet(inbox[r])
    BY <1>2, <2>1 DEF Before, Unopened
  <2> QED
    BY <1>5, <2>2 DEF UserEvents
<1>9. CASE c # b
  BY <1>1, <1>4, <1>6, <1>9
<1>10. CASE c = b
  <2>1. Follows(t, e, f)
    BY <1>1, <1>4, <1>10
  <2>2. \/ (e \in M <=> f \in M) /\ Follows(w, e, f)
        \/ e \notin M /\ f \in M /\ e \in ToSet(w) /\ f \in ToSet(w)
    BY <1>4, <1>5, <2>1, FollowsIs
  <2>3. CASE (e \in M <=> f \in M) /\ Follows(w, e, f)
    <3>1. Follows(log[c], e, f) \/ (e \in ToSet(log[c]) /\ f = g)
      BY <1>2, <1>10, <2>3, FollowsIs DEF w
    <3>2. ~(e \in ToSet(log[c]) /\ f = g)
      BY <1>4, <1>7, <1>8, <1>10, <2>3 DEF Both
    <3> QED
      BY <1>6, <3>1, <3>2
  <2>4. CASE e \notin M /\ f \in M /\ e \in ToSet(w) /\ f \in ToSet(w)
    <3>1. f.run = r /\ f.msg \in Unread(r) /\ e.run = r
      BY <1>7, <2>4 DEF Both
    <3>2. e = g
      BY <1>5, <1>8, <2>4, <3>1
    <3>3. e.msg < f.msg
      BY <1>2, <1>4, <3>1, <3>2 DEF InLine, UnreadLast
    <3>4. e.msg \in Msgs /\ f.msg # e.msg
      BY <1>2, <1>4, <3>1, <3>2
    <3> QED
      BY <3>3, <3>4 DEF SentOrder
  <2> QED
    BY <2>2, <2>3, <2>4
<1> QED
  BY <1>9, <1>10

(* Every step keeps the order of the messages in the log. *)
LEMMA LogOrderKept ==
  ASSUME Undisturbed, Before, Dealt, InLine, LogOrder, [Next]_vars
  PROVE  LogOrder'
BY PutsKeepOrder, DrainKeepsOrder, OpenKeepsOrder

-----------------------------------------------------------------------------
(* The histories the models are sent.                                      *)

(* Nothing opens in a conversation for a run whose goroutine has not been  *)
(* started.                                                                *)
BegunRuns == \A e \in EventsNow : e.kind \in Opens => pc[e.run] # "none"

(* The messages a run may read: its own and those of the runs before it in *)
(* its conversation.                                                       *)
Sources(r) == UNION {Handed(q) : q \in {p \in Runs : p <= r /\ req[p].chat = req[r].chat}}
Histories ==
  \A r \in Runs : /\ MsgsIn(hist[r]) \subseteq Sources(r) \ Unread(r)
                  /\ row[r] = "none" => MsgsIn(hist[r]) = {}
SendingOrder(items) == \A i, j \in Told(items) : i < j => items[i].msg < items[j].msg
ToldInOrder == \A r \in Runs : SendingOrder(hist[r])

(* There is no restart. *)
LEMMA NoRestart ==
  ASSUME Undisturbed, Before
  PROVE  ~Restart
BY DEF Undisturbed, Before, Inv, ControlTypeOK, Restart

(* A goroutine that was started stays so. *)
LEMMA StartedStays ==
  ASSUME Undisturbed, Before, [Next]_vars, NEW q \in Runs, pc[q] # "none"
  PROVE  pc'[q] # "none"
<1>1. ASSUME NEW r \in Runs, Work(r) PROVE pc'[q] # "none"
  BY <1>1, WorkWorks, WorkOwnStage DEF Before
<1>2. CASE Standing
  BY <1>2 DEF Standing
<1> QED
  BY <1>1, <1>2, NoRestart, OthersStand DEF Before

(* An event is written by a run that has been started, or leaves nothing   *)
(* open.                                                                   *)
LEMMA BegunKept ==
  ASSUME Undisturbed, Before, BegunRuns, [Next]_vars
  PROVE  BegunRuns'
<1> SUFFICES ASSUME NEW e \in EventsNow', e.kind \in Opens PROVE pc'[e.run] # "none"
  BY DEF BegunRuns
<1>1. e.run \in Runs /\ (e \in EventsNow \/ By(e))
  BY NewMessages, EventHas DEF Before
<1>2. CASE e \in EventsNow
  BY <1>1, <1>2, StartedStays DEF BegunRuns
<1>3. CASE Work(e.run) \/ Open(e.run)
  BY <1>1, <1>3, WorkWorks DEF Before, Work
<1>4. CASE InjectPush /\ e.run = conv.run
  <2>1. pc[e.run] # "none"
    BY <1>4 DEF InjectPush, Before, PlaceInv, Found
  <2> QED
    BY <1>1, <2>1, StartedStays
<1>5. CASE e.kind \in {"wiped", "context_cleared"}
  BY <1>5 DEF Opens
<1> QED
  BY <1>1, <1>2, <1>3, <1>4, <1>5, NoRestart DEF By

(* What an undisturbed step does to a history. *)
LEMMA HistSteps ==
  ASSUME Undisturbed, Before, [Next]_vars, NEW q \in Runs
  PROVE  \/ hist'[q] = hist[q]
         \/ \E it \in Item : it.msg = NoMsg /\ hist'[q] = Append(hist[q], it)
         \/ MsgsIn(hist'[q]) = {}
         \/ DrainMove(q)
         \/ Open(q)
<1>1. ASSUME NEW r \in Runs, Work(r), r # q PROVE hist'[q] = hist[q]
  BY <1>1, WorkOwnQueue DEF Before, LogInv
<1>2. CASE Work(q)
  <2>1. DrainTake(q) => hist' = hist
    BY DEF DrainTake
  <2> QED
    BY <1>2, <2>1, CalmTells DEF Before, Utters
<1>3. CASE Standing
  BY <1>3 DEF Standing
<1> QED
  BY <1>1, <1>2, <1>3, NoRestart, OthersStand DEF Before

(* What a drain moves is older than what still waits, and newer than all   *)
(* that its history tells.                                                 *)
LEMMA DrainFirst ==
  ASSUME Before, Dealt, InLine, Histories, NEW q \in Runs, DrainMove(q)
  PROVE  /\ Head(taken[q]) \in Handed(q) /\ Head(taken[q]) \notin Unread(q)'
         /\ \A m \in MsgsIn(hist[q]) : m < Head(taken[q])
<1> DEFINE h == Head(taken[q])
<1>1. /\ taken[q] # << >> /\ taken'[q] = Tail(taken[q]) /\ inbox'[q] = inbox[q]
      /\ h \in Unread(q) /\ h \in Msgs
  BY DrainIs
<1>2. taken[q] \in Seq(Msgs) /\ Ascending(taken[q])
      /\ \A m \in ToSet(taken[q]), k \in ToSet(inbox[q]) : m < k
  BY DEF Before, Inv, ControlTypeOK, InLine, QueuesInLine
<1>3. h \in ToSet(taken[q]) /\ \A k \in ToSet(Tail(taken[q])) : h < k
  BY <1>1, <1>2, AscendingIs, HeadAndTail
<1>4. \A k \in Unread(q)' : h < k
  BY <1>1, <1>2, <1>3 DEF Unread
<1>5. h \in Handed(q)
  BY <1>1, UnreadHanded DEF Dealt
<1> HIDE DEF h
<1>6. ASSUME NEW m \in MsgsIn(hist[q]) PROVE m < h
  <2>1. m \notin Unread(q) /\ \E p \in Runs : p <= q /\ req[p].chat = req[q].chat /\ m \in Handed(p)
    BY <1>6 DEF Histories, Sources
  <2>2. PICK p \in Runs : p <= q /\ req[p].chat = req[q].chat /\ m \in Handed(p)
    BY <2>1
  <2>3. CASE p < q
    BY <1>5, <2>2, <2>3 DEF Dealt, InTurn
  <2>4. CASE p = q
    BY <1>1, <2>1, <2>2, <2>4 DEF InLine, UnreadLast
  <2> QED
    BY <2>2, <2>3, <2>4
<1>7. h \notin Unread(q)'
  BY <1>1, <1>4
<1> QED
  BY <1>5, <1>6, <1>7 DEF h

(* An item more, with a message newer than the others or with none. *)
LEMMA AppendInOrder ==
  ASSUME NEW items \in Seq(Item), NEW it \in Item, SendingOrder(items),
         it.msg = NoMsg \/ \A m \in MsgsIn(items) : m < it.msg
  PROVE  SendingOrder(Append(items, it))
<1> SUFFICES ASSUME NEW i \in Told(Append(items, it)), NEW j \in Told(Append(items, it)), i < j
             PROVE  Append(items, it)[i].msg < Append(items, it)[j].msg
  BY DEF SendingOrder
<1>1. /\ Len(items) \in Nat /\ DOMAIN items = 1 .. Len(items)
      /\ DOMAIN Append(items, it) = 1 .. Len(items) + 1
      /\ \A p \in DOMAIN Append(items, it) : \/ p \in DOMAIN items /\ Append(items, it)[p] = items[p]
                                             \/ p = Len(items) + 1 /\ Append(items, it)[p] = it
  BY AppendedIs
<1>2. i \in DOMAIN Append(items, it) /\ j \in DOMAIN Append(items, it)
      /\ Append(items, it)[i].msg # NoMsg /\ Append(items, it)[j].msg # NoMsg
  BY DEF Told
<1>3. i \in DOMAIN items /\ Append(items, it)[i] = items[i]
  BY <1>1, <1>2
<1>4. i \in Told(items) /\ items[i].msg \in MsgsIn(items)
  BY <1>2, <1>3 DEF Told, MsgsIn
<1>5. CASE j \in DOMAIN items /\ Append(items, it)[j] = items[j]
  <2>1. j \in Told(items)
    BY <1>2, <1>5 DEF Told
  <2> QED
    BY <1>3, <1>4, <1>5, <2>1 DEF SendingOrder
<1>6. CASE Append(items, it)[j] = it
  BY <1>2, <1>3, <1>4, <1>6
<1> QED
  BY <1>1, <1>2, <1>5, <1>6

(* A list of items without messages. *)
LEMMA NoneTold ==
  ASSUME NEW items, MsgsIn(items) = {}
  PROVE  SendingOrder(items)
BY DEF SendingOrder, Told, MsgsIn

(* What holds after a step of what it needs. *)
LEMMA BeforeGoesOn ==
  ASSUME Undisturbed, Before, [Next]_vars
  PROVE  LogInv' /\ Unasked' /\ Worded'
<1>1. "compact" \notin Features
  BY DEF Undisturbed
<1>2. Unasked'
  BY <1>1, UnaskedKept DEF Before
<1> QED
  BY <1>2, LogInvKept, WordedKept DEF Before

(* Of the runs of a conversation only the newest has messages waiting.     *)
LEMMA OthersRead ==
  ASSUME Undisturbed, Before, Dealt, BegunRuns, NEW r \in Runs, r \in live,
         NEW q \in Runs, q # r, req[q].chat = req[r].chat
  PROVE  Unread(q) = {}
<1>1. row[r] # "none" /\ inbox[q] \in Seq(Msgs) /\ taken[q] \in Seq(Msgs)
  BY DEF Before, Inv, ControlTypeOK, HasRow
<1>2. CASE row[q] = "none"
  BY <1>2, UnreadHanded DEF Dealt
<1>3. CASE pc[q] = "none"
  <2> SUFFICES ASSUME NEW m \in Unread(q) PROVE FALSE
    OBVIOUS
  <2>1. m \in MessagesOf(q)
    BY DEF Dealt, Logged
  <2>2. PICK e \in EventsNow : e.run = q /\ e.kind = "user"
    BY <2>1 DEF MessagesOf
  <2> QED
    BY <1>3, <2>2 DEF BegunRuns, Opens
<1>4. CASE pc[q] \in Finishing
  <2>1. q \in closed
    BY <1>4 DEF Before, Calm
  <2>2. inbox[q] = << >> /\ taken[q] = << >>
    BY <1>4, <2>1 DEF Before, Inv, ClosedInboxIsEmpty, TakenOnMove, Finishing
  <2> QED
    BY <1>1, <2>2, ElementsOf DEF Unread
<1>5. CASE row[q] # "none" /\ pc[q] # "none" /\ pc[q] \notin Finishing
  <2>1. q \in live
    BY <1>5 DEF Before, PlaceInv, Unstopped, AtWork, Finishing, Calm
  <2>2. Youngest(q) /\ Youngest(r)
    BY <2>1 DEF Before, PlaceInv, Newest
  <2>3. q > r \/ r > q
    OBVIOUS
  <2> QED
    BY <1>1, <1>5, <2>2, <2>3 DEF Youngest
<1> QED
  BY <1>2, <1>3, <1>4, <1>5

(* The messages that readers of a conversation see come in the order they  *)
(* were sent, where all of them stand.                                     *)
LEMMA OrderedInOrder ==
  ASSUME NEW c \in Chats, NEW s \in Seq(Event), NEW evs, NEW h, RunByRun(evs, s, h, DOMAIN s),
         NEW i \in DOMAIN evs, NEW j \in DOMAIN evs, i < j,
         evs[i].kind = "user", evs[j].kind = "user",
         \A e, f \in ToSet(s) : /\ e.run < f.run /\ e.kind = "user" /\ f.kind = "user" => e.msg < f.msg
                                /\ Follows(s, e, f) /\ Both(e, f) => e.msg < f.msg
  PROVE  evs[i].msg < evs[j].msg
<1> DEFINE e == evs[i]
           f == evs[j]
<1>1. e.run < f.run \/ (e.run = f.run /\ h[i] < h[j])
  BY DEF RunByRun
<1>2. h[i] \in DOMAIN s /\ h[j] \in DOMAIN s /\ s[h[i]] = e /\ s[h[j]] = f
  BY DEF RunByRun
<1>3. e \in ToSet(s) /\ f \in ToSet(s)
  BY <1>2 DEF ToSet
<1>4. e.run = f.run /\ h[i] < h[j] => Follows(s, e, f)
  BY <1>2 DEF Follows
<1> HIDE DEF e, f
<1>5. e.kind = "user" /\ f.kind = "user"
  BY DEF e, f
<1>6. e.msg < f.msg
  BY <1>1, <1>3, <1>4, <1>5 DEF Both
<1> QED
  BY <1>6 DEF e, f

(* A run that opens is sent messages of its conversation in the order they *)
(* were sent, each once: those of the runs before it were sent earlier and *)
(* wait for nobody any more (contextFromDB, settleInbox).                  *)
LEMMA OpenTells ==
  ASSUME Undisturbed, Before, Dealt, InLine, LogOrder, BegunRuns, [Next]_vars, NEW r \in Runs, Open(r)
  PROVE  MsgsIn(hist'[r]) \subseteq Sources(r)' /\ SendingOrder(hist'[r])
<1> DEFINE c == req[r].chat
<1>1. LogInv' /\ Worded' /\ Dealt' /\ LogOrder'
  BY BeforeGoesOn, DealtKept, LogOrderKept
<1>2. /\ c \in Chats /\ row[r] # "none" /\ pc[r] = "begin" /\ UNCHANGED <<row, req, taken>>
      /\ inbox' = [inbox EXCEPT ![r] = << >>] /\ pc' = [pc EXCEPT ![r] = "drain"]
  BY OpenIs
<1>3. log \in [Chats -> Seq(Event)] /\ hist \in [Runs -> Seq(Item)]
      /\ inbox \in [Runs -> Seq(Msgs)] /\ pc \in [Runs -> PCs]
  BY DEF Before, Inv, ControlTypeOK, LogInv, DataInv, DataTypeOK
<1>4. r \in live /\ Youngest(r)
  BY <1>2 DEF Before, PlaceInv, Unstopped, Newest, AtWork, Finishing, Calm
<1>5a. PICK g \in Event, t \in Seq(Event) : \E k : Opened(r, g, t, k)
  BY OpenIs
<1>5. PICK x : g \in Event /\ t \in Seq(Event) /\ Opened(r, g, t, x)
  BY <1>5a
<1> DEFINE evs == Ordered(t)
<1>6. log'[c] = t /\ hist'[r] = Replay(evs)
  BY <1>2, <1>3, <1>5 DEF Opened
<1>7. /\ evs \in Seq(Event) /\ ToSet(evs) = ToSet(t)
      /\ \E h : RunByRun(evs, t, h, DOMAIN t)
  BY OrderedIs
<1> HIDE DEF evs, c
<1>8. \A q \in Runs : req[q].chat = c => Unread(q)' = {}
  <2> SUFFICES ASSUME NEW q \in Runs, req[q].chat = c PROVE Unread(q)' = {}
    OBVIOUS
  <2>1. CASE q = r
    <3>1. inbox'[r] = << >> /\ taken'[r] = << >>
      <4>1. inbox'[r] = << >> /\ taken' = taken
        BY <1>2, <1>3
      <4>2. taken[r] = << >>
        BY <1>2 DEF Before, TakenOnMove
      <4> QED
        BY <4>1, <4>2
    <3> QED
      BY <1>3, <2>1, <3>1, ElementsOf DEF Unread
  <2>2. CASE q # r
    <3>1. Unread(q) = {}
      BY <1>4, <2>2, OthersRead DEF c
    <3>2. inbox'[q] = inbox[q] /\ taken' = taken
      BY <1>2, <1>3, <2>2
    <3> QED
      BY <3>1, <3>2 DEF Unread
  <2> QED
    BY <2>1, <2>2
<1>9. \A e \in ToSet(t) : /\ e \in Event /\ e.run \in Runs /\ e.run <= r /\ req[e.run].chat = c
                          /\ e.kind = "user" => e.msg \in Handed(e.run)'
  <2> SUFFICES ASSUME NEW e \in ToSet(t)
               PROVE  /\ e \in Event /\ e.run \in Runs /\ e.run <= r /\ req[e.run].chat = c
                      /\ e.kind = "user" => e.msg \in Handed(e.run)'
    OBVIOUS
  <2>1. e \in Event /\ e.run \in Runs /\ e \in EventsNow'
    BY <1>2, <1>6, ElementsOf, EventHas DEF EventsNow, c
  <2>2. row[e.run] # "none" /\ req[e.run].chat = c
    BY <1>1, <1>2, <1>6 DEF LogInv, LogRuns, c
  <2>3. e.run <= r
    BY <1>4, <2>1, <2>2 DEF Youngest, c
  <2>4. e.kind = "user" => e.msg \in MessagesOf(e.run)' /\ NoMsg \notin MessagesOf(e.run)'
    BY <1>1, <2>1 DEF MessagesOf, Worded
  <2> QED
    BY <1>2, <2>1, <2>2, <2>3, <2>4 DEF Handed
<1>10. PICK h : Tells(Replay(evs), evs, h, StillRead(evs))
  BY <1>7, ReplayIs
<1>11. MsgsIn(hist'[r]) \subseteq Sources(r)'
  <2> SUFFICES ASSUME NEW m \in MsgsIn(hist'[r]) PROVE m \in Sources(r)'
    OBVIOUS
  <2>1. PICK i \in Told(Replay(evs)) : Replay(evs)[i].msg = m
    BY <1>6 DEF MsgsIn, Told
  <2>2. h[i] \in DOMAIN evs /\ evs[h[i]].kind = "user" /\ evs[h[i]].msg = m
    BY <1>10, <2>1 DEF Tells
  <2>3. evs[h[i]] \in ToSet(t)
    BY <1>7, <2>2 DEF ToSet
  <2> QED
    BY <1>2, <1>9, <2>2, <2>3 DEF Sources, c
<1>12. \A e, f \in ToSet(t) : /\ e.run < f.run /\ e.kind = "user" /\ f.kind = "user" => e.msg < f.msg
                              /\ Follows(t, e, f) /\ Both(e, f) => e.msg < f.msg
  <2> SUFFICES ASSUME NEW e \in ToSet(t), NEW f \in ToSet(t), e.kind = "user", f.kind = "user"
               PROVE  /\ e.run < f.run => e.msg < f.msg
                      /\ Follows(t, e, f) /\ Both(e, f) => e.msg < f.msg
    BY DEF Both
  <2>1. /\ e \in Event /\ e.run \in Runs /\ req[e.run].chat = c /\ e.msg \in Handed(e.run)'
        /\ f \in Event /\ f.run \in Runs /\ req[f.run].chat = c /\ f.msg \in Handed(f.run)'
    BY <1>9
  <2>2. ASSUME e.run < f.run PROVE e.msg < f.msg
    BY <1>1, <1>2, <2>1, <2>2 DEF Dealt, InTurn
  <2>3. ASSUME Follows(t, e, f), Both(e, f) PROVE e.msg < f.msg
    <3>1. Stands(e)' /\ Stands(f)'
      BY <1>8, <2>1 DEF Stands
    <3>2. SentOrder(e, f)'
      BY <1>1, <1>2, <1>6, <2>1, <2>3 DEF LogOrder, c, Both, Follows
    <3> QED
      BY <3>1, <3>2 DEF SentOrder
  <2> QED
    BY <2>2, <2>3
<1>13. SendingOrder(hist'[r])
  <2> SUFFICES ASSUME NEW i \in Told(Replay(evs)), NEW j \in Told(Replay(evs)), i < j
               PROVE  Replay(evs)[i].msg < Replay(evs)[j].msg
    BY <1>6 DEF SendingOrder
  <2>1. /\ h[i] \in DOMAIN evs /\ evs[h[i]].kind = "user" /\ evs[h[i]].msg = Replay(evs)[i].msg
        /\ h[j] \in DOMAIN evs /\ evs[h[j]].kind = "user" /\ evs[h[j]].msg = Replay(evs)[j].msg
        /\ h[i] < h[j]
    BY <1>10 DEF Tells
  <2>2. PICK k : RunByRun(evs, t, k, DOMAIN t)
    BY <1>7
  <2>3. evs[h[i]].msg < evs[h[j]].msg
    BY <1>2, <1>12, <2>1, <2>2, OrderedInOrder DEF c
  <2> QED
    BY <2>1, <2>3
<1> QED
  BY <1>11, <1>13

(* What a run may read it still may. *)
LEMMA SourcesStay ==
  ASSUME Undisturbed, Before, [Next]_vars, NEW q \in Runs, row[q] # "none"
  PROVE  Sources(q) \subseteq Sources(q)'
<1> SUFFICES ASSUME NEW m \in Sources(q) PROVE m \in Sources(q)'
  OBVIOUS
<1>1. PICK p \in Runs : p <= q /\ req[p].chat = req[q].chat /\ m \in Handed(p)
  BY DEF Sources
<1>2. row[p] # "none" /\ m \in Handed(p)'
  BY <1>1, HandedStays DEF Handed
<1>3. req'[p] = req[p] /\ req'[q] = req[q]
  BY <1>2, RowsStay DEF Before, LogInv, Stay
<1> QED
  BY <1>1, <1>2, <1>3 DEF Sources

(* Nobody's history tells what still waits for him or what is another's.   *)
LEMMA HistoriesKept ==
  ASSUME Undisturbed, Before, Dealt, InLine, LogOrder, BegunRuns, Histories, [Next]_vars
  PROVE  Histories'
<1> SUFFICES ASSUME NEW q \in Runs
             PROVE  /\ MsgsIn(hist'[q]) \subseteq Sources(q)' \ Unread(q)'
                    /\ row'[q] = "none" => MsgsIn(hist'[q]) = {}
  BY DEF Histories
<1>1. hist[q] \in Seq(Item) /\ MsgsIn(hist[q]) \subseteq Sources(q) \ Unread(q)
      /\ (row[q] = "none" => MsgsIn(hist[q]) = {})
      /\ (row'[q] = "none" => row[q] = "none")
  BY RowsStay DEF Before, LogInv, DataInv, DataTypeOK, Histories, Stay
<1>2. CASE MsgsIn(hist'[q]) = MsgsIn(hist[q])
  <2>1. CASE MsgsIn(hist[q]) = {}
    BY <1>2, <2>1
  <2>2. CASE MsgsIn(hist[q]) # {}
    <3>1. MsgsIn(hist[q]) \subseteq Sources(q)' /\ row[q] # "none"
      BY <1>1, <2>2, SourcesStay
    <3>2. ASSUME NEW m \in MsgsIn(hist[q]) PROVE m \notin Unread(q)'
      <4>1. m \notin Unread(q) /\ \E p \in Runs : m \in Handed(p)
        BY <1>1, <3>2 DEF Sources
      <4>2. InjectPush => m # conv.msg
        BY <4>1, HandsOver DEF Dealt, Carried
      <4>3. DrainMove(q) => Unread(q)' \subseteq Unread(q)
        BY DrainIs
      <4> QED
        BY <4>1, <4>2, <4>3, UnreadSteps
    <3> QED
      BY <1>1, <1>2, <3>1, <3>2
  <2> QED
    BY <2>1, <2>2
<1>3. ASSUME NEW it \in Item, it.msg = NoMsg, hist'[q] = Append(hist[q], it)
      PROVE  MsgsIn(hist'[q]) = MsgsIn(hist[q])
  BY <1>1, <1>3, MsgsInAppended
<1>4. CASE MsgsIn(hist'[q]) = {}
  BY <1>4
<1>5. CASE DrainMove(q)
  <2> DEFINE h == Head(taken[q])
             it == UserItem(q, h)
  <2>1. h \in Msgs /\ hist'[q] = Append(hist[q], it) /\ it \in Item /\ it.msg = h
        /\ Unread(q) = Unread(q)' \cup {h}
    BY <1>5, DrainIs
  <2>2. h \in Handed(q) /\ h \notin Unread(q)'
    BY <1>5, DrainFirst
  <2> HIDE DEF h, it
  <2>3. MsgsIn(hist'[q]) = MsgsIn(hist[q]) \cup {h}
    BY <1>1, <2>1, MsgsInAppended
  <2>4. row[q] # "none" /\ h \in Sources(q)
    BY <2>2 DEF Handed, Sources
  <2>5. Sources(q) \subseteq Sources(q)'
    BY <2>4, SourcesStay
  <2> QED
    BY <1>1, <2>1, <2>2, <2>3, <2>4, <2>5
<1>6. CASE Open(q)
  <2>1. row[q] # "none" /\ ~InjectPush
    <3>1. conv' = conv
      BY <1>6 DEF Open, appVars
    <3> QED
      BY <1>6, <3>1, OpenIs, HandsOver
  <2>2. Unread(q)' = {}
    <3>1. inbox \in [Runs -> Seq(Msgs)] /\ inbox' = [inbox EXCEPT ![q] = << >>] /\ taken' = taken
          /\ pc[q] = "begin"
      BY <1>6, OpenIs DEF Before, Inv, ControlTypeOK
    <3>2. taken[q] = << >>
      BY <3>1 DEF Before, TakenOnMove
    <3>3. inbox'[q] = << >> /\ taken'[q] = << >>
      BY <3>1, <3>2
    <3> QED
      BY <3>1, <3>3, ElementsOf DEF Unread
  <2> QED
    BY <1>1, <1>6, <2>1, <2>2, OpenTells
<1> QED
  BY <1>2, <1>3, <1>4, <1>5, <1>6, HistSteps

(* Every history tells its messages in the order they were sent (inject,    *)
(* settleInbox, drainInbox, contextFromDB).                                *)
LEMMA ToldKept ==
  ASSUME Undisturbed, Before, Dealt, InLine, LogOrder, BegunRuns, Histories, ToldInOrder, [Next]_vars
  PROVE  ToldInOrder'
<1> SUFFICES ASSUME NEW q \in Runs PROVE SendingOrder(hist'[q])
  BY DEF ToldInOrder, SendingOrder, Told
<1>1. hist[q] \in Seq(Item) /\ SendingOrder(hist[q])
  BY DEF Before, LogInv, DataInv, DataTypeOK, ToldInOrder
<1>2. CASE hist'[q] = hist[q]
  BY <1>1, <1>2
<1>3. ASSUME NEW it \in Item, it.msg = NoMsg, hist'[q] = Append(hist[q], it)
      PROVE  SendingOrder(hist'[q])
  BY <1>1, <1>3, AppendInOrder
<1>4. CASE MsgsIn(hist'[q]) = {}
  BY <1>4, NoneTold
<1>5. CASE DrainMove(q)
  <2> DEFINE h == Head(taken[q])
             it == UserItem(q, h)
  <2>1. hist'[q] = Append(hist[q], it) /\ it \in Item /\ it.msg = h
    BY <1>5, DrainIs
  <2>2. \A m \in MsgsIn(hist[q]) : m < h
    BY <1>5, DrainFirst
  <2> HIDE DEF h, it
  <2> QED
    BY <1>1, <2>1, <2>2, AppendInOrder
<1>6. CASE Open(q)
  BY <1>6, OpenTells
<1> QED
  BY <1>2, <1>3, <1>4, <1>5, <1>6, HistSteps

-----------------------------------------------------------------------------
(* The invariant, and what it is for.                                      *)
OrderInv ==
  /\ Calm /\ Unasked /\ Worded /\ TakenOnMove /\ Unopened
  /\ Dealt /\ InLine /\ LogOrder /\ BegunRuns /\ Histories /\ ToldInOrder

(* In the initial state nothing is sent. *)
LEMMA OrderInit == Init => OrderInv
<1> SUFFICES ASSUME Init PROVE OrderInv
  OBVIOUS
<1>1. /\ \A r \in Runs : row[r] = "none" /\ inbox[r] = << >> /\ taken[r] = << >> /\ hist[r] = << >>
                         /\ pc[r] = "none"
      /\ conv.step = "free" /\ cancelled = {} /\ stopping = {}
      /\ \A c \in Chats : log[c] = << >>
  BY DEF Init, Free
<1>2. EventsNow = {} /\ \A r \in Runs : MessagesOf(r) = {} /\ Handed(r) = {} /\ Unread(r) = {}
  BY <1>1, ElementsOf DEF EventsNow, MessagesOf, Handed, Unread, ToSet
<1>3. Unasked /\ Worded /\ TakenOnMove /\ Unopened
  BY ReadInit DEF ReadInv
<1>4. Calm /\ BegunRuns
  BY <1>1, <1>2 DEF Calm, BegunRuns, Finishing
<1>5. Dealt
  BY <1>1, <1>2 DEF Dealt, Numbers, Logged, Carried, Apart, InTurn, Underway
<1>6. InLine
  BY <1>1, <1>2 DEF InLine, QueuesInLine, UnreadLast, Ascending, ToSet
<1>7. LogOrder
  BY <1>1 DEF LogOrder, Follows
<1>8. Histories /\ ToldInOrder
  BY <1>1 DEF Histories, ToldInOrder, SendingOrder, Told, MsgsIn
<1> QED
  BY <1>3, <1>4, <1>5, <1>6, <1>7, <1>8 DEF OrderInv

(* Every undisturbed step leaves the calm. *)
LEMMA CalmKept ==
  ASSUME Undisturbed, Before, [Next]_vars
  PROVE  Calm'
<1>1. ASSUME NEW r \in Runs, Work(r) PROVE Calm'
  BY <1>1, CalmWorks DEF Before
<1>2. ASSUME UNCHANGED <<cancelled, stopping, closed>>, \A q \in Runs : row'[q] # "gone",
             conv'.step \in {"free", "track"},
             \A q \in Runs : pc'[q] = pc[q] \/ pc'[q] = "toolBack"
      PROVE  Calm'
  BY <1>2 DEF Before, Calm, Finishing
<1>t. pc \in [Runs -> PCs] /\ row \in [Runs -> RowStatus] /\ \A q \in Runs : row[q] # "gone"
  BY DEF Before, Inv, ControlTypeOK, Calm
<1>3. CASE InjectPush
  <2>1. conv'.step = "free" /\ UNCHANGED <<row, cancelled, stopping, closed>>
    BY <1>3 DEF InjectPush, Release, Free
  <2>2. pc' = pc \/ pc' = [pc EXCEPT ![conv.by] = "toolBack"]
    BY <1>3 DEF InjectPush, Release
  <2> QED
    BY <1>2, <1>t, <2>1, <2>2
<1>4. ASSUME NEW r \in Runs, StartCreate(r) PROVE Calm'
  <2>1. UNCHANGED <<pc, cancelled, stopping, closed>> /\ row' = [row EXCEPT ![r] = "running"]
    BY <1>4 DEF StartCreate, runVars
  <2>2. conv'.step = "track"
    BY <1>4 DEF StartCreate, Before, Inv, ControlTypeOK, HolderType
  <2> QED
    BY <1>2, <1>t, <2>1, <2>2
<1>5. ASSUME NEW c \in Chats, NEW r \in Runs, Clear(c, r) PROVE Calm'
  <2>1. UNCHANGED <<conv, pc, cancelled, stopping, closed>> /\ row' = [row EXCEPT ![r] = "done"]
        /\ conv.step = "free"
    BY <1>5, ClearPuts DEF Clear, runVars, appVars
  <2> QED
    BY <1>2, <1>t, <2>1
<1> QED
  BY <1>1, <1>3, <1>4, <1>5, CalmOthers DEF Before

(* Every undisturbed step keeps the order. *)
LEMMA OrderKept ==
  ASSUME Undisturbed, Inv, Outcome, LogInv, PlaceInv, OrderInv, [Next]_vars
  PROVE  OrderInv'
<1>1. Before /\ "compact" \notin Features
  BY DEF Before, OrderInv, Undisturbed
<1>2. Calm'
  BY <1>1, CalmKept
<1>3. Unasked' /\ Worded'
  BY <1>1, BeforeGoesOn
<1>4. TakenOnMove' /\ Unopened'
  BY <1>1, TakenOnMoveKept, UnopenedKept DEF Before
<1>5. Dealt' /\ InLine' /\ LogOrder' /\ BegunRuns' /\ Histories' /\ ToldInOrder'
  BY <1>1, DealtKept, InLineKept, LogOrderKept, BegunKept, HistoriesKept, ToldKept DEF OrderInv
<1> QED
  BY <1>2, <1>3, <1>4, <1>5 DEF OrderInv

-----------------------------------------------------------------------------
(* What a thread shows once its runs are over.                             *)

Ends == {"exit", "over"}
ClosedBehind(s, i) == \E j \in DOMAIN s : j > i /\ s[j].run = s[i].run /\ s[j].kind \in Closes
(* Behind everything a run has opened it says that it is over. *)
Ended ==
  \A c \in Chats : \A i \in DOMAIN log[c] :
    log[c][i].kind \in Opens /\ pc[log[c][i].run] \in Ends => ClosedBehind(log[c], i)

(* A goroutine ends after its done event. *)
LEMMA WorkEnds ==
  ASSUME Inv, NEW r \in Runs, Work(r), pc'[r] \in Ends
  PROVE  pc[r] \in Ends \/ EmitDone(r)
<1> USE DEF dbVars, appVars, runVars, histVars, Goto, Finish, CloseInbox, Ends
<1>t. pc \in [Runs -> PCs] /\ why \in [Runs -> Reasons]
  BY DEF Inv, ControlTypeOK
<1>1. CASE NoModel(r) \/ Open(r) \/ OpenCompact(r) \/ DrainTake(r) \/ DrainMove(r) \/ Drained(r) \/ Check(r)
  BY <1>1, <1>t DEF NoModel, Open, OpenCompact, DrainTake, DrainMove, Drained, Check
<1>2. CASE CompactAnchor(r) \/ CompactFailed(r) \/ Fold(r) \/ TurnOpen(r) \/ Commit(r) \/ Reply(r)
  BY <1>2, <1>t DEF CompactAnchor, CompactFailed, Fold, TurnOpen, Commit, Reply
<1>3. CASE CompactDone(r)
  <2>1. why[r] \in {"manual", "auto", "overflow"}
    BY <1>3, <1>t DEF CompactDone, Inv, Stages, Reasons
  <2> QED
    BY <1>3, <1>t, <2>1 DEF CompactDone, AfterSummary
<1>4. CASE StreamFailed(r) \/ Overflow(r) \/ Erred(r) \/ Close(r) \/ ToolTurn(r) \/ ToolTalks(r) \/ ToolAsks(r)
  BY <1>4, <1>t DEF StreamFailed, Overflow, Erred, Close, ToolTurn, ToolTalks, ToolAsks
<1>5. CASE ToolReturn(r) \/ TurnEnd(r) \/ SayStopped(r) \/ SetStatus(r) \/ Untrack(r) \/ EmitDone(r) \/ Exit(r)
  BY <1>5, <1>t DEF ToolReturn, TurnEnd, SayStopped, SetStatus, Untrack, EmitDone, Exit
<1> QED
  BY <1>1, <1>2, <1>3, <1>4, <1>5 DEF Work

(* Nobody else ends it. *)
LEMMA EndComes ==
  ASSUME Undisturbed, Before, [Next]_vars, NEW q \in Runs, pc'[q] \in Ends
  PROVE  pc[q] \in Ends \/ EmitDone(q)
<1>1. ASSUME NEW r \in Runs, Work(r) PROVE pc[q] \in Ends \/ EmitDone(q)
  BY <1>1, WorkEnds, WorkOwnStage DEF Before
<1>2. CASE Standing
  BY <1>2 DEF Standing, Ends
<1> QED
  BY <1>1, <1>2, NoRestart, OthersStand DEF Before

(* What was closed stays so where an event is put behind. *)
LEMMA PutsKeepClosed ==
  ASSUME NEW s \in Seq(Event), NEW g \in Event, NEW i \in DOMAIN Append(s, g)
  PROVE  /\ i \in DOMAIN s /\ ClosedBehind(s, i) => ClosedBehind(Append(s, g), i)
         /\ i \in DOMAIN s /\ s[i].run = g.run /\ g.kind \in Closes => ClosedBehind(Append(s, g), i)
         /\ \/ i \in DOMAIN s /\ Append(s, g)[i] = s[i]
            \/ Append(s, g)[i] = g
<1>1. /\ Len(s) \in Nat /\ DOMAIN s = 1 .. Len(s) /\ DOMAIN Append(s, g) = 1 .. Len(s) + 1
      /\ \A p \in DOMAIN Append(s, g) : \/ p \in DOMAIN s /\ Append(s, g)[p] = s[p]
                                        \/ p = Len(s) + 1 /\ Append(s, g)[p] = g
  BY AppendedIs
<1>2. \A p \in DOMAIN s : p \in DOMAIN Append(s, g) /\ Append(s, g)[p] = s[p] /\ p < Len(s) + 1
  BY <1>1
<1>3. Len(s) + 1 \in DOMAIN Append(s, g) /\ Append(s, g)[Len(s) + 1] = g
  BY <1>1, <1>2
<1>4. ASSUME i \in DOMAIN s, ClosedBehind(s, i) PROVE ClosedBehind(Append(s, g), i)
  <2>1. PICK j \in DOMAIN s : j > i /\ s[j].run = s[i].run /\ s[j].kind \in Closes
    BY <1>4 DEF ClosedBehind
  <2> QED
    BY <1>2, <1>4, <2>1 DEF ClosedBehind
<1>5. ASSUME i \in DOMAIN s, s[i].run = g.run, g.kind \in Closes PROVE ClosedBehind(Append(s, g), i)
  <2>1. Len(s) + 1 > i
    BY <1>1, <1>5
  <2> QED
    BY <1>2, <1>3, <1>5, <2>1 DEF ClosedBehind
<1> QED
  BY <1>1, <1>4, <1>5

(* It stays so where the messages of other runs move. *)
LEMMA MovesKeepClosed ==
  ASSUME NEW s \in Seq(Event), NEW t \in Seq(Event), NEW h, NEW M, Rearranged(t, s, h, M),
         NEW i \in DOMAIN t, ClosedBehind(s, h[i]), \A e \in M : e.run # t[i].run
  PROVE  ClosedBehind(t, i)
<1>1. h[i] \in DOMAIN s /\ t[i] = s[h[i]]
  BY DEF Rearranged
<1>2. PICK k \in DOMAIN s : k > h[i] /\ s[k].run = s[h[i]].run /\ s[k].kind \in Closes
  BY DEF ClosedBehind
<1>3. PICK j \in DOMAIN t : h[j] = k
  BY <1>2 DEF Rearranged
<1>4. t[j] = s[k] /\ t[j].run = t[i].run
  BY <1>1, <1>2, <1>3 DEF Rearranged
<1>5. t[i] \notin M /\ t[j] \notin M
  BY <1>4
<1>6. DOMAIN s = 1 .. Len(s) /\ DOMAIN t = 1 .. Len(t) /\ Len(s) \in Nat /\ Len(t) \in Nat
  OBVIOUS
<1>7. j > i
  <2>1. j < i => h[j] < h[i]
    BY <1>5 DEF Rearranged
  <2>2. j # i /\ ~(h[j] < h[i])
    BY <1>1, <1>2, <1>3, <1>6
  <2>3. i \in Nat /\ j \in Nat
    BY <1>6
  <2> QED
    BY <2>1, <2>2, <2>3
<1> QED
  BY <1>2, <1>4, <1>7 DEF ClosedBehind

(* A message that moves is of the run that drains or opens. *)
LEMMA MovedAre ==
  ASSUME Before, Dealt, NEW c \in Chats, NEW r \in Runs, NEW e \in ToSet(log[c]),
         e.kind = "user", e.msg \in Unread(r)
  PROVE  e.run = r
<1>1. e.run \in Runs /\ e.msg \in Handed(e.run) /\ e.msg \in Handed(r)
  BY EventIs, UnreadHanded DEF Dealt
<1> QED
  BY <1>1 DEF Dealt, Apart

(* The last word of a run is that it is over: it writes nothing more, and   *)
(* nobody moves what it wrote (finish, ensureTerminalEvent).               *)
LEMMA EndedKept ==
  ASSUME Undisturbed, Before, Dealt, Ended, [Next]_vars
  PROVE  Ended'
<1> SUFFICES ASSUME NEW c \in Chats, NEW i \in DOMAIN log'[c], log'[c][i].kind \in Opens,
                    pc'[log'[c][i].run] \in Ends
             PROVE  ClosedBehind(log'[c], i)
  BY DEF Ended, ClosedBehind
<1> DEFINE q == log'[c][i].run
<1>1. log \in [Chats -> Seq(Event)] /\ log[c] \in Seq(Event) /\ log'[c] \in Seq(Event)
  BY BeforeGoesOn DEF Before, LogInv, DataInv, DataTypeOK
<1>2. q \in Runs /\ log'[c][i] \in ToSet(log'[c])
  BY <1>1, ElementsOf, EventHas DEF ToSet
<1>3. pc[q] \in Ends \/ EmitDone(q)
  BY <1>2, EndComes
<1>4. ASSUME NEW p \in DOMAIN log[c], log[c][p] = log'[c][i], pc[q] \in Ends
      PROVE  ClosedBehind(log[c], p)
  BY <1>4 DEF Ended
<1> HIDE DEF q
<1>5. CASE log' = log /\ pc[q] \in Ends
  BY <1>4, <1>5
<1>6. ASSUME NEW d \in Chats, NEW g \in Event, Puts(d, g), g.run # q \/ g.kind \notin Opens, pc[q] \in Ends
      PROVE  ClosedBehind(log'[c], i)
  <2>1. CASE log'[c] = log[c]
    BY <1>4, <1>6, <2>1
  <2>2. CASE log'[c] = Append(log[c], g)
    <3>1. /\ i \in DOMAIN log[c] /\ ClosedBehind(log[c], i) => ClosedBehind(Append(log[c], g), i)
          /\ \/ i \in DOMAIN log[c] /\ Append(log[c], g)[i] = log[c][i]
             \/ Append(log[c], g)[i] = g
      BY <1>1, <2>2, PutsKeepClosed
    <3>2. i \in DOMAIN log[c] /\ log[c][i] = log'[c][i]
      BY <1>6, <2>2, <3>1 DEF q
    <3> QED
      BY <1>4, <1>6, <2>2, <3>1, <3>2
  <2> QED
    BY <1>1, <1>6, <2>1, <2>2 DEF Puts
<1>7. CASE EmitDone(q)
  <2>1. req[q].chat = c /\ req' = req
    <3>1. req' = req
      BY <1>7 DEF EmitDone
    <3> QED
      BY <1>2, <3>1, BeforeGoesOn DEF LogInv, LogRuns, q
  <2>2. Writes(q, "done", NoMsg)
    <3>1. log' = Written(q, "done", NoMsg, NoEvent)
      BY <1>7 DEF EmitDone, Emit
    <3>2. "done" \in Kinds /\ NoEvent \in EventIds
      BY DEF NoEvent, EventIds, Kinds
    <3> QED
      BY <1>1, <1>2, <2>1, <3>1, <3>2, WrittenIs DEF LogTyped
  <2>3. PICK g \in Event : g.run = q /\ g.kind = "done" /\ log' = [log EXCEPT ![req[q].chat] = Append(@, g)]
    BY <1>2, <2>2 DEF Writes, Before, Calm
  <2>4. log'[c] = Append(log[c], g)
    BY <1>1, <2>1, <2>3
  <2>5. /\ i \in DOMAIN log[c] /\ log[c][i].run = g.run /\ g.kind \in Closes
             => ClosedBehind(Append(log[c], g), i)
        /\ \/ i \in DOMAIN log[c] /\ Append(log[c], g)[i] = log[c][i]
           \/ Append(log[c], g)[i] = g
    BY <1>1, <2>4, PutsKeepClosed
  <2>6. i \in DOMAIN log[c] /\ log[c][i].run = g.run /\ g.kind \in Closes
    BY <2>3, <2>4, <2>5 DEF q, Opens, Closes
  <2> QED
    BY <2>4, <2>5, <2>6
<1>8. ASSUME NEW b \in Chats, NEW s \in Seq(Event), NEW t \in Seq(Event), NEW h, NEW M,
             log' = [log EXCEPT ![b] = t], Rearranged(t, s, h, M), \A e \in M : e.run # q,
             \A p \in DOMAIN s : s[p].run = q /\ s[p].kind \in Opens => ClosedBehind(s, p),
             pc[q] \in Ends
      PROVE  ClosedBehind(log'[c], i)
  <2>1. CASE c # b
    BY <1>1, <1>4, <1>8, <2>1
  <2>2. CASE c = b
    <3>1. log'[c] = t
      BY <1>1, <1>8, <2>2
    <3>2. h[i] \in DOMAIN s /\ s[h[i]] = t[i]
      BY <1>8, <3>1 DEF Rearranged
    <3>3. ClosedBehind(s, h[i])
      BY <1>8, <3>1, <3>2 DEF q
    <3> QED
      BY <1>8, <3>1, <3>3, MovesKeepClosed DEF q
  <2> QED
    BY <2>1, <2>2
<1>9. ASSUME NEW b \in Chats, NEW p \in DOMAIN log[b], log[b][p].run = q, log[b][p].kind \in Opens,
             pc[q] \in Ends
      PROVE  ClosedBehind(log[b], p)
  BY <1>9 DEF Ended
<1>10. ASSUME NEW r \in Runs, DrainMove(r), pc[q] \in Ends PROVE ClosedBehind(log'[c], i)
  <2>1. pc[r] = "move" /\ r # q /\ Head(taken[r]) \in Unread(r) /\ req[r].chat \in Chats
    <3>1. pc[r] = "move" /\ Head(taken[r]) \in Unread(r)
      BY <1>10, DrainIs
    <3>2. row[r] # "none"
      BY <3>1, UnreadHanded DEF Dealt
    <3> QED
      BY <1>10, <3>1, <3>2 DEF Ends, Before, LogInv, DataInv, OfChat
  <2>2. Moves(req[r].chat, {Head(taken[r])})
    BY <1>1, <1>10, <2>1, MovesIs DEF LogTyped, DrainMove
  <2>3a. PICK t \in Seq(Event) :
            /\ log' = [log EXCEPT ![req[r].chat] = t]
            /\ \E k : Rearranged(t, log[req[r].chat], k,
                                 UserEvents(log[req[r].chat], {Head(taken[r])}))
    BY <2>2 DEF Moves
  <2>3. PICK h : /\ t \in Seq(Event) /\ log' = [log EXCEPT ![req[r].chat] = t]
                 /\ Rearranged(t, log[req[r].chat], h,
                               UserEvents(log[req[r].chat], {Head(taken[r])}))
    BY <2>3a
  <2>4. \A e \in UserEvents(log[req[r].chat], {Head(taken[r])}) : e.run # q
    BY <2>1, MovedAre DEF UserEvents
  <2> QED
    BY <1>1, <1>8, <1>9, <1>10, <2>1, <2>3, <2>4
<1>11. ASSUME NEW r \in Runs, Open(r), pc[q] \in Ends PROVE ClosedBehind(log'[c], i)
  <2>1. pc[r] = "begin" /\ r # q /\ req[r].chat \in Chats
    BY <1>11, OpenIs DEF Ends
  <2> DEFINE b == req[r].chat
  <2>2a. PICK g \in Event, t \in Seq(Event) : \E k : Opened(r, g, t, k)
    BY <1>11, OpenIs
  <2>2. PICK h : g \in Event /\ t \in Seq(Event) /\ Opened(r, g, t, h)
    BY <2>2a
  <2> DEFINE w == Append(log[b], g)
             M == UserEvents(w, ToSet(inbox[r]))
  <2>3. g.run = r /\ log' = [log EXCEPT ![b] = t] /\ Rearranged(t, w, h, M)
    BY <2>2 DEF Opened
  <2>4. log[b] \in Seq(Event) /\ w \in Seq(Event) /\ ToSet(w) = ToSet(log[b]) \cup {g}
    BY <1>1, <2>1, OneMore
  <2>5. \A e \in M : e.run # q
    <3> SUFFICES ASSUME NEW e \in M PROVE e.run # q
      OBVIOUS
    <3>1. e.kind = "user" /\ e.msg \in Unread(r) /\ (e \in ToSet(log[b]) \/ e = g)
      BY <2>4 DEF UserEvents, Unread
    <3> QED
      BY <2>1, <2>3, <3>1, MovedAre
  <2>6. ASSUME NEW p \in DOMAIN w, w[p].run = q, w[p].kind \in Opens PROVE ClosedBehind(w, p)
    <3>1. p \in DOMAIN log[b] /\ w[p] = log[b][p]
      <4>1. (p \in DOMAIN log[b] /\ w[p] = log[b][p]) \/ w[p] = g
        BY <2>4, <2>6, PutsKeepClosed
      <4>2. w[p] # g
        BY <2>1, <2>3, <2>6
      <4> QED
        BY <4>1, <4>2
    <3>2. ClosedBehind(log[b], p)
      BY <1>9, <1>11, <2>1, <2>6, <3>1
    <3> QED
      BY <2>4, <3>1, <3>2, PutsKeepClosed
  <2> HIDE DEF b, w, M
  <2> QED
    BY <1>8, <1>11, <2>1, <2>3, <2>4, <2>5, <2>6 DEF b
<1>12. ASSUME NEW r \in Runs, Work(r), pc[q] \in Ends PROVE ClosedBehind(log'[c], i)
  <2>1. WorkLog(r) /\ req[r].chat \in Chats /\ pc[r] # "fold"
    BY <1>12, WorkOnLog DEF Before, LogInv, DataInv, DataTypeOK, LogTyped, AnchorTyped, Unasked
  <2>2. ASSUME NEW kind \in Speaks(pc[r]), Writes(r, kind, NoMsg) PROVE ClosedBehind(log'[c], i)
    <3>1. r # q
      BY <1>12, <2>2 DEF Speaks, Ends
    <3>2. PICK g \in Event : g.run = r /\ log' = [log EXCEPT ![req[r].chat] = Append(@, g)]
      BY <2>2 DEF Writes, Before, Calm
    <3> QED
      BY <1>6, <1>12, <2>1, <3>1, <3>2 DEF Puts
  <2>3. ~Fold(r)
    BY <2>1 DEF Fold
  <2> QED
    BY <1>5, <1>10, <1>11, <1>12, <2>1, <2>2, <2>3 DEF WorkLog
<1>13. CASE InjectPush /\ pc[q] \in Ends
  <2>1. PICK g \in Event : /\ g.run = conv.run
                           /\ log' = [log EXCEPT ![req[conv.run].chat] = Append(@, g)]
    BY <1>13, PushAdds DEF Adds
  <2>2. req[conv.run].chat \in Chats /\ conv.run \notin closed /\ q \in closed
    BY <1>2, <1>13, PushAdds, PushIs DEF Before, Calm, Ends, Finishing
  <2> QED
    BY <1>6, <1>13, <2>1, <2>2 DEF Puts
<1>14. ASSUME NEW r \in Runs, StartCreate(r), pc[q] \in Ends PROVE ClosedBehind(log'[c], i)
  BY <1>5, <1>14 DEF StartCreate
<1>15. ASSUME NEW d \in Chats, NEW r \in Runs, Clear(d, r), pc[q] \in Ends PROVE ClosedBehind(log'[c], i)
  <2>1. PICK g \in Event : g.kind = "context_cleared" /\ Puts(d, g)
    BY <1>15, ClearPuts
  <2> QED
    BY <1>6, <1>15, <2>1 DEF Opens
<1>16. CASE (Asks \/ Rests) /\ pc[q] \in Ends
  BY <1>5, <1>16 DEF Asks, Rests
<1> QED
  BY <1>3, <1>7, <1>12, <1>13, <1>14, <1>15, <1>16, CalmOthers DEF Before

(* Where nothing works on a conversation nothing is open in it. *)
LEMMA RestIsIdle ==
  ASSUME Before, BegunRuns, Ended
  PROVE  IdleIsNotBusy
<1> SUFFICES ASSUME NEW c \in Chats, AtRest(c), NEW r \in BusyRuns(log[c]) PROVE FALSE
  BY DEF IdleIsNotBusy
<1>1. log[c] \in Seq(Event) /\ DOMAIN log[c] = 1 .. Len(log[c]) /\ Len(log[c]) \in Nat
  BY DEF Before, LogInv, DataInv, DataTypeOK
<1>2. PICK i \in DOMAIN log[c] : /\ log[c][i].run = r /\ log[c][i].kind \in Opens
                                 /\ \A j \in i + 1 .. Len(log[c]) :
                                      log[c][j].run = r => log[c][j].kind \notin Closes
  BY DEF BusyRuns
<1>3. log[c][i] \in ToSet(log[c])
  BY DEF ToSet
<1>4. r \in Runs /\ req[r].chat = c /\ pc[r] # "none"
  BY <1>2, <1>3, EventIs DEF BegunRuns
<1>5. pc[r] = "over"
  BY <1>4 DEF AtRest, RunsOf
<1>6. PICK j \in DOMAIN log[c] : j > i /\ log[c][j].run = r /\ log[c][j].kind \in Closes
  BY <1>2, <1>5 DEF Ended, Ends, ClosedBehind
<1>7. j \in i + 1 .. Len(log[c])
  BY <1>1, <1>6
<1> QED
  BY <1>2, <1>6, <1>7

-----------------------------------------------------------------------------
(* The theorems.                                                           *)

(* Every undisturbed step keeps the invariant of the order and of the end. *)
LEMMA OrderHolds == Undisturbed => (Spec => [](OrderInv /\ Ended))
<1> SUFFICES ASSUME Undisturbed PROVE Spec => [](OrderInv /\ Ended)
  OBVIOUS
<1>1. Init => OrderInv /\ Ended
  <2>1. Init => Ended
    BY DEF Init, Ended, Ends
  <2> QED
    BY <2>1, OrderInit
<1>2. Inv /\ Outcome /\ LogInv /\ PlaceInv /\ OrderInv /\ Ended /\ [Next]_vars => OrderInv' /\ Ended'
  <2> SUFFICES ASSUME Inv, Outcome, LogInv, PlaceInv, OrderInv, Ended, [Next]_vars
               PROVE  OrderInv' /\ Ended'
    OBVIOUS
  <2>1. Before /\ Dealt
    BY DEF Before, OrderInv
  <2> QED
    BY <2>1, OrderKept, EndedKept
<1> QED
  BY <1>1, <1>2, InvHolds, OutcomeHolds, LogInvHolds, PlaceHolds, PTL DEF Spec

(* A message a run accepted is read before the run is done, and in the     *)
(* order it was sent, at most once in a history: whether it was written    *)
(* before the run opened, into a turn, or while a drain moves its events   *)
(* (inject, settleInbox, drainInbox, closeInbox).  It is proved for runs   *)
(* that nobody stops, that do not fail and whose history is not cut.       *)
THEOREM MessagesReadHolds == Undisturbed => (Spec => []MessagesRead)
<1> SUFFICES ASSUME Undisturbed PROVE Spec => []MessagesRead
  OBVIOUS
<1>1. "compact" \notin Features
  BY DEF Undisturbed
<1>2. Spec => []DoneReadAll
  BY <1>1, DoneReadAllHolds
<1>3. OrderInv => ReadInOrder
  BY DEF OrderInv, ToldInOrder, SendingOrder, Told, ReadInOrder
<1>4. Spec => []OrderInv
  BY OrderHolds, PTL
<1> QED
  BY <1>2, <1>3, <1>4, PTL DEF MessagesRead

(* Every variable has its type, and a thread at rest does not show the Bot *)
(* at work: behind what a run has opened there it has said that it is over *)
(* (finish, ensureTerminalEvent, useRunStream.ts).  It is proved for the   *)
(* same runs.                                                              *)
THEOREM EngineSafeHolds == Undisturbed => (Spec => []EngineSafe)
<1> SUFFICES ASSUME Undisturbed PROVE Spec => []EngineSafe
  OBVIOUS
<1>1. Inv /\ Outcome /\ LogInv /\ PlaceInv /\ OrderInv /\ Ended => IdleIsNotBusy
  <2> SUFFICES ASSUME Inv, Outcome, LogInv, PlaceInv, OrderInv, Ended PROVE IdleIsNotBusy
    OBVIOUS
  <2>1. Before /\ BegunRuns
    BY DEF Before, OrderInv
  <2> QED
    BY <2>1, RestIsIdle
<1>2. Spec => [](OrderInv /\ Ended)
  BY OrderHolds
<1> QED
  BY <1>1, <1>2, InvHolds, OutcomeHolds, LogInvHolds, PlaceHolds, TypeCorrect, PTL DEF EngineSafe

-----------------------------------------------------------------------------
(* What a compaction leaves to be read.                                    *)

(* A run that is not disturbed ends well. *)
WellDone == \A r \in Runs : pc[r] \in Finishing => verdict[r] = "done"

(* A message of a run that a compaction of the run comes behind is no      *)
(* longer in the run's history by itself.                                  *)
SummedUp(e, f) == e.run = f.run /\ e.kind = "user" /\ f.kind = "compaction"
Latest ==
  \A c \in Chats : \A e, f \in Event :
    Follows(log[c], e, f) /\ SummedUp(e, f) => e.msg \notin MsgsIn(hist[e.run])

(* A goroutine ends well. *)
LEMMA WorkDoesWell ==
  ASSUME Undisturbed, Inv, Unasked, Calm, WellDone, NEW r \in Runs, Work(r), pc'[r] \in Finishing
  PROVE  verdict'[r] = "done"
<1>1. CASE pc[r] \in Finishing
  <2>1. verdict[r] = "done" /\ verdict' = verdict
    BY <1>1, WorkFinishes DEF WellDone
  <2> QED
    BY <2>1
<1>2. CASE pc[r] \notin Finishing
  <2>1. /\ pc \in [Runs -> PCs] /\ verdict \in [Runs -> Verdicts]
        /\ pc[r] \notin {"fold", "erred", "stopped"} /\ "error" \notin Features
    BY DEF Inv, ControlTypeOK, Unasked, Calm, Undisturbed
  <2>2. CASE Close(r) \/ TurnEnd(r)
    <3>1. CloseInbox(r) \/ pc' = [pc EXCEPT ![r] = "drain"]
      BY <2>2 DEF Close, TurnEnd, Goto
    <3>2. CloseInbox(r)
      BY <2>1, <3>1 DEF Finishing
    <3> QED
      BY <2>1, <3>2 DEF CloseInbox, Finish
  <2>3. CASE CompactDone(r)
    <3>1. pc[r] = "summary" /\ pc' = [pc EXCEPT ![r] = AfterSummary[why[r]]]
      BY <2>3 DEF CompactDone, Goto
    <3>2. why[r] \in {"auto", "overflow"}
      BY <2>1, <3>1 DEF Inv, Stages, Reasons, ControlTypeOK, Unasked
    <3> QED
      BY <2>1, <3>1, <3>2 DEF AfterSummary, Finishing
  <2>4. CASE NoModel(r) \/ Fold(r) \/ CompactFailed(r) \/ StreamFailed(r) \/ Erred(r) \/ SayStopped(r)
             \/ SetStatus(r) \/ Untrack(r) \/ EmitDone(r) \/ Exit(r)
    BY <1>2, <2>1, <2>4 DEF NoModel, Fold, CompactFailed, StreamFailed, Erred, SayStopped, SetStatus,
       Untrack, EmitDone, Exit, Finishing, Has, Calm
  <2>5. CASE Open(r) \/ OpenCompact(r) \/ DrainTake(r) \/ DrainMove(r) \/ Drained(r) \/ Check(r)
             \/ CompactAnchor(r) \/ TurnOpen(r) \/ Commit(r) \/ Reply(r) \/ Overflow(r)
    BY <1>2, <2>1, <2>5 DEF Open, OpenCompact, DrainTake, DrainMove, Drained, Check, CompactAnchor,
       TurnOpen, Commit, Reply, Overflow, Goto, Finishing, runVars
  <2>6. CASE ToolTurn(r) \/ ToolTalks(r) \/ ToolAsks(r) \/ ToolReturn(r)
    BY <1>2, <2>1, <2>6 DEF ToolTurn, ToolTalks, ToolAsks, ToolReturn, Goto, Finishing
  <2> QED
    BY <2>2, <2>3, <2>4, <2>5, <2>6 DEF Work
<1> QED
  BY <1>1, <1>2

(* Every undisturbed run does. *)
LEMMA WellDoneKept ==
  ASSUME Undisturbed, Before, WellDone, [Next]_vars
  PROVE  WellDone'
<1>0. Inv /\ PlaceInv /\ Unasked /\ Calm
  BY DEF Before
<1>1. ASSUME NEW r \in Runs, Work(r) PROVE WellDone'
  <2> SUFFICES ASSUME NEW q \in Runs, pc'[q] \in Finishing PROVE verdict'[q] = "done"
    BY DEF WellDone
  <2>1. CASE q = r
    BY <1>0, <1>1, <2>1, WorkDoesWell
  <2>2. CASE q # r
    <3>1. pc'[q] = pc[q] /\ verdict'[q] = verdict[q]
      BY <1>0, <1>1, <2>2, WorkOwnStage
    <3> QED
      BY <3>1 DEF WellDone
  <2> QED
    BY <2>1, <2>2
<1>2. CASE Standing
  BY <1>2 DEF Standing, WellDone, Finishing
<1> QED
  BY <1>0, <1>1, <1>2, OthersStand, NoRestart

(* A run that writes a compaction has nothing but its summary left. *)
LEMMA SumsUp ==
  ASSUME Undisturbed, Before, NEW r \in Runs, Work(r), pc[r] = "summary"
  PROVE  MsgsIn(hist'[r]) = {}
<1>1. cancelled = {} /\ ~Has("error") /\ hist \in [Runs -> Seq(Item)]
  BY DEF Before, Calm, Undisturbed, Has, LogInv, DataInv, DataTypeOK
<1>2. CompactDone(r)
  BY <1>1 DEF Work, NoModel, Open, OpenCompact, DrainTake, DrainMove, Drained, Check,
     CompactAnchor, CompactFailed, Fold, TurnOpen, Commit, Reply, StreamFailed,
     Overflow, Erred, Close, ToolTurn, ToolTalks, ToolAsks, ToolReturn, TurnEnd,
     SayStopped, SetStatus, Untrack, EmitDone, Exit
<1>3. hist'[r] = <<SummaryItem(r, NoMsg)>>
  BY <1>1, <1>2 DEF CompactDone
<1>4. SummaryItem(r, NoMsg).msg = NoMsg
  BY DEF SummaryItem
<1> QED
  BY <1>3, <1>4 DEF MsgsIn

(* What is written where no drain and no opening moves events. *)
LEMMA PutsSumUp ==
  ASSUME Undisturbed, Before, [Next]_vars, ~\E r \in Runs : DrainMove(r) \/ Open(r)
  PROVE  \/ log' = log
         \/ \E c \in Chats, g \in Event :
              Puts(c, g) /\ (g.kind = "compaction" => MsgsIn(hist'[g.run]) = {})
<1>1. ASSUME NEW r \in Runs, Work(r), log' # log
      PROVE  \E c \in Chats, g \in Event :
               Puts(c, g) /\ (g.kind = "compaction" => MsgsIn(hist'[g.run]) = {})
  <2>1. /\ LogTyped /\ AnchorTyped /\ OfChat /\ Inv /\ Outcome /\ pc[r] # "fold"
    BY DEF Before, LogInv, DataInv, DataTypeOK, LogTyped, AnchorTyped, Unasked
  <2>2. WorkLog(r) /\ req[r].chat \in Chats
    BY <1>1, <2>1, WorkOnLog
  <2>3. PICK kind \in Speaks(pc[r]) : Writes(r, kind, NoMsg)
    BY <1>1, <2>1, <2>2 DEF WorkLog, Fold
  <2>4. PICK g \in Event : g.run = r /\ g.kind = kind /\ Puts(req[r].chat, g)
    BY <1>1, <2>3 DEF Writes, Puts
  <2>5. kind = "compaction" => pc[r] = "summary"
    BY <2>3 DEF Speaks
  <2> QED
    BY <1>1, <2>2, <2>4, <2>5, SumsUp
<1>2. ASSUME InjectPush
      PROVE  \E c \in Chats, g \in Event :
               Puts(c, g) /\ (g.kind = "compaction" => MsgsIn(hist'[g.run]) = {})
  <2>1. Adds(conv.run, "user", conv.msg) /\ req[conv.run].chat \in Chats
    BY <1>2, PushAdds
  <2>2. PICK g \in Event : g.kind = "user" /\ Puts(req[conv.run].chat, g)
    BY <2>1 DEF Adds, Puts
  <2> QED
    BY <2>1, <2>2
<1>3. ASSUME NEW c \in Chats, NEW r \in Runs, Clear(c, r)
      PROVE  \E g \in Event :
               Puts(c, g) /\ (g.kind = "compaction" => MsgsIn(hist'[g.run]) = {})
  <2>1. PICK g \in Event : g.kind = "context_cleared" /\ Puts(c, g)
    BY <1>3, ClearPuts
  <2> QED
    BY <2>1
<1>4. ASSUME NEW r \in Runs, StartCreate(r) PROVE log' = log
  BY <1>4 DEF StartCreate
<1>5. Asks \/ Rests => log' = log
  BY DEF Asks, Rests
<1> QED
  BY <1>1, <1>2, <1>3, <1>4, <1>5, CalmOthers DEF Before

(* Where nobody drains or opens a history gets no message. *)
LEMMA NoMessageMore ==
  ASSUME Undisturbed, Before, [Next]_vars, NEW q \in Runs, ~DrainMove(q), ~Open(q)
  PROVE  MsgsIn(hist'[q]) \subseteq MsgsIn(hist[q])
<1>1. hist[q] \in Seq(Item)
  BY DEF Before, LogInv, DataInv, DataTypeOK
<1>2. \A it \in Item : it.msg = NoMsg => MsgsIn(Append(hist[q], it)) = MsgsIn(hist[q])
  BY <1>1, MsgsInAppended
<1> QED
  BY <1>2, HistSteps

(* A compaction that a run writes leaves none of its messages in its       *)
(* history.                                                                *)
LEMMA PutsKeepLatest ==
  ASSUME Undisturbed, Before, Latest, [Next]_vars, ~\E r \in Runs : DrainMove(r) \/ Open(r)
  PROVE  Latest'
<1> SUFFICES ASSUME NEW c \in Chats, NEW e \in Event, NEW f \in Event,
                    Follows(log'[c], e, f), SummedUp(e, f)
             PROVE  e.msg \notin MsgsIn(hist'[e.run])
  BY DEF Latest, Follows, SummedUp
<1>1. /\ log \in [Chats -> Seq(Event)] /\ log[c] \in Seq(Event)
      /\ e.run \in Runs /\ f.run = e.run /\ f.kind = "compaction"
  BY DEF Before, LogInv, DataInv, DataTypeOK, Event, SummedUp
<1>2. ASSUME Follows(log[c], e, f) PROVE e.msg \notin MsgsIn(hist'[e.run])
  <2>1. e.msg \notin MsgsIn(hist[e.run])
    BY <1>2 DEF Latest
  <2> QED
    BY <1>1, <2>1, NoMessageMore
<1>3. ASSUME NEW d \in Chats, NEW g \in Event, Puts(d, g), ~Follows(log[c], e, f)
      PROVE  f = g
  <2>1. log'[c] = log[c] \/ log'[c] = Append(log[c], g)
    BY <1>1, <1>3 DEF Puts
  <2>2. Follows(Append(log[c], g), e, f) => Follows(log[c], e, f) \/ (e \in ToSet(log[c]) /\ f = g)
    BY <1>1, FollowsIs
  <2> QED
    BY <1>3, <2>1, <2>2
<1>4. CASE log' = log
  BY <1>2, <1>4
<1>5. ASSUME NEW d \in Chats, NEW g \in Event, Puts(d, g),
             g.kind = "compaction" => MsgsIn(hist'[g.run]) = {}
      PROVE  e.msg \notin MsgsIn(hist'[e.run])
  BY <1>1, <1>2, <1>3, <1>5
<1> QED
  BY <1>4, <1>5, PutsSumUp

(* What a drain moves goes behind every compaction. *)
LEMMA DrainKeepsLatest ==
  ASSUME Undisturbed, Before, Dealt, Latest, [Next]_vars, NEW r \in Runs, DrainMove(r)
  PROVE  Latest'
<1> DEFINE m == Head(taken[r])
           b == req[r].chat
           M == UserEvents(log[b], {m})
<1> SUFFICES ASSUME NEW c \in Chats, NEW e \in Event, NEW f \in Event,
                    Follows(log'[c], e, f), SummedUp(e, f)
             PROVE  e.msg \notin MsgsIn(hist'[e.run])
  BY DEF Latest, Follows, SummedUp
<1>1. /\ log \in [Chats -> Seq(Event)] /\ log[c] \in Seq(Event) /\ hist[r] \in Seq(Item)
      /\ e.run \in Runs /\ e.kind = "user" /\ f.kind = "compaction"
  BY DEF Before, LogInv, DataInv, DataTypeOK, Event, SummedUp
<1>2. /\ m \in Msgs /\ m \in Unread(r) /\ row[r] # "none" /\ b \in Chats
      /\ hist'[r] = Append(hist[r], UserItem(r, m))
      /\ UserItem(r, m) \in Item /\ UserItem(r, m).msg = m
  <2>1. /\ m \in Msgs /\ m \in Unread(r) /\ hist'[r] = Append(hist[r], UserItem(r, m))
        /\ UserItem(r, m) \in Item /\ UserItem(r, m).msg = m
    BY DrainIs
  <2>2. row[r] # "none"
    BY <2>1, UnreadHanded DEF Dealt
  <2> QED
    BY <2>1, <2>2 DEF Before, LogInv, DataInv, OfChat
<1>3a. PICK t \in Seq(Event) :
          log' = [log EXCEPT ![b] = t] /\ \E k : Rearranged(t, log[b], k, M)
  <2>1. log' = [log EXCEPT ![b] = MoveBehind(@, m)]
    BY DEF DrainMove
  <2>2. Moves(b, {m})
    BY <1>1, <1>2, <2>1, MovesIs DEF LogTyped
  <2> QED
    BY <2>2 DEF Moves
<1>3. PICK h : /\ t \in Seq(Event) /\ log' = [log EXCEPT ![b] = t]
               /\ Rearranged(t, log[b], h, M)
  BY <1>3a
<1>4. MsgsIn(hist'[r]) = MsgsIn(hist[r]) \cup {m}
  <2>1. UserItem(r, m).msg # NoMsg
    BY <1>2
  <2> QED
    BY <1>1, <1>2, <2>1, MsgsInAppended
<1>5. \A q \in Runs : q # r => ~DrainMove(q) /\ ~Open(q)
  <2> SUFFICES ASSUME NEW q \in Runs, q # r, DrainMove(q) \/ Open(q) PROVE FALSE
    OBVIOUS
  <2>1. /\ taken \in [Runs -> Seq(Msgs)] /\ taken[q] \in Seq(Msgs) /\ inbox \in [Runs -> Seq(Msgs)]
        /\ pc \in [Runs -> PCs]
    BY DEF Before, Inv, ControlTypeOK
  <2>2. Tail(taken[r]) # taken[r]
    <3>1. taken[r] \in Seq(Msgs) /\ taken[r] # << >>
      BY <2>1 DEF DrainMove
    <3>2. Len(Tail(taken[r])) = Len(taken[r]) - 1 /\ Len(taken[r]) \in Nat
      BY <3>1, HeadAndTail
    <3>3. \A n \in Nat : n # n - 1
      OBVIOUS
    <3> QED
      BY <3>2, <3>3, Zenon
  <2>3. taken'[r] # taken[r]
    BY <2>1, <2>2 DEF DrainMove
  <2>4. CASE DrainMove(q)
    BY <2>1, <2>3, <2>4 DEF DrainMove
  <2>5. CASE Open(q)
    BY <2>1, <2>3, <2>5 DEF Open
  <2> QED
    BY <2>4, <2>5
<1> HIDE DEF m, b
<1>6. Follows(log[c], e, f) /\ (c = b => e \notin M)
  <2>1. CASE c # b
    <3>1. log'[c] = log[c]
      BY <1>1, <1>3, <2>1
    <3> QED
      BY <2>1, <3>1
  <2>2. CASE c = b
    <3>1. f \notin M
      BY <1>1 DEF UserEvents
    <3>2. log'[c] = t
      BY <1>1, <1>3, <2>2
    <3>3. Follows(t, e, f) => \/ (e \in M <=> f \in M) /\ Follows(log[b], e, f)
                              \/ e \notin M /\ f \in M /\ e \in ToSet(log[b]) /\ f \in ToSet(log[b])
      BY <1>1, <1>3, <2>2, FollowsIs
    <3> QED
      BY <2>2, <3>1, <3>2, <3>3
  <2> QED
    BY <2>1, <2>2
<1>7. e.msg \notin MsgsIn(hist[e.run]) /\ e \in ToSet(log[c])
  BY <1>1, <1>6, FollowsIs DEF Latest
<1>8. CASE e.run = r
  <2>1. c = b
    BY <1>7, <1>8, EventIs DEF b
  <2>2. e.msg # m
    BY <1>1, <1>6, <1>7, <2>1 DEF UserEvents
  <2> QED
    BY <1>4, <1>7, <1>8, <2>2
<1>9. CASE e.run # r
  BY <1>1, <1>5, <1>7, <1>9, NoMessageMore
<1> QED
  BY <1>8, <1>9

(* A run that opens has had no compaction yet. *)
LEMMA OpenKeepsLatest ==
  ASSUME Undisturbed, Before, Dealt, Latest, [Next]_vars, NEW r \in Runs, Open(r)
  PROVE  Latest'
<1> DEFINE b == req[r].chat
<1> SUFFICES ASSUME NEW c \in Chats, NEW e \in Event, NEW f \in Event,
                    Follows(log'[c], e, f), SummedUp(e, f)
             PROVE  e.msg \notin MsgsIn(hist'[e.run])
  BY DEF Latest, Follows, SummedUp
<1>1. /\ log \in [Chats -> Seq(Event)] /\ log[c] \in Seq(Event) /\ pc \in [Runs -> PCs]
      /\ e.run \in Runs /\ f.run = e.run /\ e.kind = "user" /\ f.kind = "compaction"
  BY DEF Before, Inv, ControlTypeOK, LogInv, DataInv, DataTypeOK, Event, SummedUp
<1>2. b \in Chats /\ pc[r] = "begin" /\ log[b] \in Seq(Event) /\ pc' = [pc EXCEPT ![r] = "drain"]
  BY OpenIs DEF Before, LogInv, DataInv, DataTypeOK
<1>3a. PICK g \in Event, t \in Seq(Event) : \E k : Opened(r, g, t, k)
  BY OpenIs
<1>3. PICK h : g \in Event /\ t \in Seq(Event) /\ Opened(r, g, t, h)
  BY <1>3a
<1> DEFINE w == Append(log[b], g)
           M == UserEvents(w, ToSet(inbox[r]))
<1>4. /\ g.run = r /\ g.kind = "user" /\ log' = [log EXCEPT ![b] = t] /\ Rearranged(t, w, h, M)
  BY <1>3 DEF Opened
<1>5. w \in Seq(Event) /\ ToSet(w) = ToSet(log[b]) \cup {g}
  BY <1>2, <1>3, OneMore
<1> HIDE DEF b, w
<1>6. Follows(log[c], e, f)
  <2>1. CASE c # b
    <3>1. log'[c] = log[c]
      BY <1>1, <1>4, <2>1
    <3> QED
      BY <3>1
  <2>2. CASE c = b
    <3>1. f \notin M /\ f # g
      BY <1>1, <1>4 DEF UserEvents
    <3>2. log'[c] = t
      BY <1>1, <1>4, <2>2
    <3>3. Follows(t, e, f) => \/ (e \in M <=> f \in M) /\ Follows(w, e, f)
                              \/ e \notin M /\ f \in M /\ e \in ToSet(w) /\ f \in ToSet(w)
      BY <1>4, <1>5, FollowsIs
    <3>4. Follows(w, e, f) => Follows(log[b], e, f) \/ (e \in ToSet(log[b]) /\ f = g)
      BY <1>2, <1>3, FollowsIs DEF w
    <3> QED
      BY <2>2, <3>1, <3>2, <3>3, <3>4
  <2> QED
    BY <2>1, <2>2
<1>7. e.msg \notin MsgsIn(hist[e.run]) /\ f \in ToSet(log[c])
  BY <1>1, <1>6, FollowsIs DEF Latest
<1>8. e.run # r
  <2>1. f \in EventsNow
    BY <1>7, EventIs
  <2> QED
    BY <1>1, <1>2, <2>1 DEF Before, Unopened
<1>9. ~DrainMove(e.run) /\ ~Open(e.run)
  BY <1>1, <1>2, <1>8 DEF DrainMove, Open, Goto
<1> QED
  BY <1>1, <1>7, <1>9, NoMessageMore

(* Every undisturbed step keeps it (compact, drainInbox, settleInbox). *)
LEMMA LatestKept ==
  ASSUME Undisturbed, Before, Dealt, Latest, [Next]_vars
  PROVE  Latest'
BY PutsKeepLatest, DrainKeepsLatest, OpenKeepsLatest

(* What is read after the last clear is the end of the conversation. *)
LEMMA SinceClearIs ==
  ASSUME NEW evs \in Seq(Event)
  PROVE  \E a \in 1..(Len(evs) + 1) :
           /\ SinceClear(evs) = SubSeq(evs, a, Len(evs))
           /\ \A p \in DOMAIN evs : p >= a => evs[p].kind # "context_cleared"
           /\ a = 1 \/ (a - 1 \in DOMAIN evs /\ evs[a - 1].kind = "context_cleared")
<1> DEFINE clears == At(evs, "context_cleared")
<1>0. Len(evs) \in Nat /\ DOMAIN evs = 1..Len(evs)
  OBVIOUS
<1>1. CASE clears = {}
  <2>1. SinceClear(evs) = SubSeq(evs, 1, Len(evs))
    BY <1>1 DEF SinceClear
  <2>2. \A p \in DOMAIN evs : evs[p].kind # "context_cleared"
    BY <1>1 DEF At
  <2> QED
    BY <1>0, <2>1, <2>2
<1>2. CASE clears # {}
  <2> DEFINE m == Max(clears)
  <2>1. /\ m \in DOMAIN evs /\ evs[m].kind = "context_cleared"
        /\ \A p \in DOMAIN evs : evs[p].kind = "context_cleared" => p <= m
    BY <1>2, LastAt
  <2>2. SinceClear(evs) = SubSeq(evs, m + 1, Len(evs))
    BY <1>2 DEF SinceClear
  <2> HIDE DEF m
  <2>3. /\ m + 1 \in 1..(Len(evs) + 1) /\ (m + 1) - 1 = m
        /\ \A p \in DOMAIN evs : p >= m + 1 => ~(p <= m)
    BY <1>0, <2>1
  <2> QED
    BY <2>1, <2>2, <2>3
<1> QED
  BY <1>1, <1>2

(* A message that the reader sees, and what comes behind it there: events  *)
(* of its run that follow it in the log, or events of later runs.          *)
LEMMA SeenAfter ==
  ASSUME NEW s \in Seq(Event), NEW evs, evs = SinceClear(Ordered(s)),
         NEW i \in DOMAIN evs
  PROVE  /\ evs \in Seq(Event) /\ evs[i] \in ToSet(s) /\ evs[i].kind # "context_cleared"
         /\ \A j \in DOMAIN evs : j > i =>
              /\ evs[j] \in ToSet(s) /\ evs[j].kind # "context_cleared"
              /\ \/ evs[i].run < evs[j].run
                 \/ evs[i].run = evs[j].run /\ Follows(s, evs[i], evs[j])
<1> DEFINE o == Ordered(s)
<1>1. o \in Seq(Event) /\ ToSet(o) = ToSet(s) /\ \E h : RunByRun(o, s, h, DOMAIN s)
  BY OrderedIs
<1> HIDE DEF o
<1>2. PICK h : RunByRun(o, s, h, DOMAIN s)
  BY <1>1
<1>3. PICK a \in 1..(Len(o) + 1) :
        /\ SinceClear(o) = SubSeq(o, a, Len(o))
        /\ \A p \in DOMAIN o : p >= a => o[p].kind # "context_cleared"
  BY <1>1, SinceClearIs
<1>4. /\ evs \in Seq(Event) /\ DOMAIN evs = 1..(Len(o) - a + 1)
      /\ \A k \in 1..(Len(o) - a + 1) : k + a - 1 \in DOMAIN o /\ evs[k] = o[k + a - 1]
  <2>1. evs = SubSeq(o, a, Len(o))
    BY <1>3 DEF o
  <2> QED
    BY <1>1, <2>1, EndIs
<1>5. \A k \in DOMAIN evs : /\ k \in Nat /\ k + a - 1 \in DOMAIN o /\ evs[k] = o[k + a - 1]
                            /\ k + a - 1 >= a
  <2>1. Len(o) \in Nat /\ a \in Nat
    BY <1>1
  <2>2. \A k \in 1..(Len(o) - a + 1) : k \in Nat /\ k + a - 1 >= a
    BY <2>1
  <2> QED
    BY <1>4, <2>2
<1>6. \A k \in DOMAIN evs : evs[k] \in ToSet(s) /\ evs[k].kind # "context_cleared"
  BY <1>1, <1>3, <1>5 DEF ToSet
<1>7. ASSUME NEW j \in DOMAIN evs, j > i
      PROVE  \/ evs[i].run < evs[j].run
             \/ evs[i].run = evs[j].run /\ Follows(s, evs[i], evs[j])
  <2> DEFINE p == i + a - 1
             q == j + a - 1
  <2>1. p \in DOMAIN o /\ q \in DOMAIN o /\ evs[i] = o[p] /\ evs[j] = o[q]
    BY <1>5
  <2>2. p < q
    <3>1. i \in Nat /\ j \in Nat /\ a \in Nat
      BY <1>1, <1>5
    <3> QED
      BY <1>7, <3>1
  <2> HIDE DEF p, q
  <2>3. /\ o[p] = s[h[p]] /\ o[q] = s[h[q]] /\ h[p] \in DOMAIN s /\ h[q] \in DOMAIN s
        /\ o[p].run < o[q].run \/ (o[p].run = o[q].run /\ h[p] < h[q])
    BY <1>2, <2>1, <2>2 DEF RunByRun
  <2> QED
    BY <2>1, <2>3 DEF Follows
<1> QED
  BY <1>4, <1>6, <1>7

(* What a replay tells: every message that nothing was summed up behind.   *)
LEMMA ReplayTells ==
  ASSUME NEW evs \in Seq(Event), NEW i \in StillRead(evs)
  PROVE  evs[i].msg \in MsgsIn(Replay(evs))
<1>1. PICK h : Tells(Replay(evs), evs, h, StillRead(evs))
  BY ReplayIs
<1>2. PICK k \in Told(Replay(evs)) : h[k] = i
  BY <1>1 DEF Tells
<1>3. Replay(evs)[k].msg = evs[i].msg /\ k \in DOMAIN Replay(evs) /\ Replay(evs)[k].msg # NoMsg
  BY <1>1, <1>2 DEF Tells, Told
<1> QED
  BY <1>3 DEF MsgsIn

(* A message of the log that its run no longer waits to read has been read, *)
(* or its run has it in its history.                                       *)
LEMMA MessageIs ==
  ASSUME Before, BegunRuns, Reads, Final, WellDone,
         NEW c \in Chats, NEW e \in ToSet(log[c]), e.kind = "user",
         e.msg \notin Due, e.msg \notin seen
  PROVE  e.run \in live /\ e.msg \in MsgsIn(hist[e.run])
<1> DEFINE r == e.run
<1>1. r \in Runs /\ e \in EventsNow /\ e.msg \in MessagesOf(r)
  BY EventIs DEF MessagesOf
<1>2. pc[r] \in PCs /\ pc[r] \notin {"none", "begin", "fold", "erred", "stopped"}
  <2>1. pc[r] \in PCs /\ pc[r] \notin {"fold", "erred", "stopped"}
    BY <1>1 DEF Before, Inv, ControlTypeOK, Unasked, Calm
  <2>2. pc[r] # "none"
    BY <1>1 DEF BegunRuns, Opens
  <2>3. ASSUME pc[r] = "begin" PROVE FALSE
    <3>1. e.msg \in Unread(r)
      BY <1>1, <2>3 DEF Before, Unopened, Unread
    <3> QED
      BY <1>1, <2>3, <3>1 DEF Due, Finishing
  <2> QED
    BY <2>1, <2>2, <2>3
<1>3. pc[r] \notin Finishing
  BY <1>1 DEF WellDone, Final
<1>4. pc[r] \in Reading \/ (pc[r] \in Draining /\ r \notin cancelled)
  BY <1>1, <1>2, <1>3 DEF PCs, Finishing, Reading, Draining, Before, Calm
<1>5. e.msg \in MsgsIn(hist[r])
  <2>1. e.msg \in Known(r)
    BY <1>1, <1>4 DEF Reads, Covered
  <2>2. e.msg \notin Unread(r)
    BY <1>1, <1>3 DEF Due
  <2> QED
    BY <2>1, <2>2 DEF Known
<1>6. r \in live
  BY <1>1, <1>2, <1>3 DEF Before, PlaceInv, Unstopped, AtWork, Finishing, Calm
<1> QED
  BY <1>5, <1>6

(* A message that nobody has read and that waits for nobody is in what the *)
(* conversation replays to: only its run could have summed it up.          *)
LEMMA NothingForgotten ==
  ASSUME Before, BegunRuns, Reads, Final, WellDone, Latest
  PROVE  NoMessageForgotten
<1> SUFFICES ASSUME NEW c \in Chats, NEW evs, evs = SinceClear(Ordered(log[c])),
                    NEW i \in At(evs, "user"), evs[i].msg \notin seen, evs[i].msg \notin Due
             PROVE  evs[i].msg \in MsgsIn(Replay(evs))
  BY DEF NoMessageForgotten
<1> DEFINE e == evs[i]
<1>1. log[c] \in Seq(Event) /\ i \in DOMAIN evs /\ e.kind = "user"
  BY DEF Before, LogInv, DataInv, DataTypeOK, At
<1>2. /\ evs \in Seq(Event) /\ e \in ToSet(log[c])
      /\ \A j \in DOMAIN evs : j > i =>
              /\ evs[j] \in ToSet(log[c]) /\ evs[j].kind # "context_cleared"
              /\ e.run < evs[j].run \/ (e.run = evs[j].run /\ Follows(log[c], e, evs[j]))
  BY <1>1, SeenAfter
<1> HIDE DEF e
<1>3. e.run \in live /\ e.msg \in MsgsIn(hist[e.run])
  BY <1>1, <1>2, MessageIs DEF e
<1>4. e \in Event /\ e.run \in Runs /\ req[e.run].chat = c /\ Youngest(e.run)
  BY <1>2, <1>3, EventIs DEF Before, PlaceInv, Newest
<1>5. ASSUME NEW j \in DOMAIN evs, j > i
      PROVE  evs[j].kind \notin {"context_cleared", "compaction"}
  <2> DEFINE f == evs[j]
  <2>1. /\ f \in ToSet(log[c]) /\ f.kind # "context_cleared"
        /\ e.run < f.run \/ (e.run = f.run /\ Follows(log[c], e, f))
    BY <1>2, <1>5
  <2> HIDE DEF f
  <2>2. f \in Event /\ f.run \in Runs /\ row[f.run] # "none" /\ req[f.run].chat = c
    BY <2>1, EventIs
  <2>3. ~(e.run < f.run)
    BY <1>4, <2>2 DEF Youngest
  <2>4. f.kind # "compaction"
    BY <1>1, <1>3, <1>4, <2>1, <2>2, <2>3 DEF Latest, SummedUp, e
  <2> QED
    BY <2>1, <2>4 DEF f
<1>6. i \in StillRead(evs)
  <2>1. e.msg # NoMsg
    BY <1>3 DEF MsgsIn
  <2> QED
    BY <1>1, <1>5, <2>1 DEF StillRead, MsgsAt, e
<1> QED
  BY <1>2, <1>6, ReplayTells

(* No message is forgotten: one in the log that no model has read waits for *)
(* a run or is in what the conversation replays to, whatever compactions    *)
(* came before it and whichever messages were moved behind them (compact,   *)
(* cutAtCompaction, drainInbox).  It is proved for the same runs.           *)
THEOREM NoMessageForgottenHolds == Undisturbed => (Spec => []NoMessageForgotten)
<1> SUFFICES ASSUME Undisturbed PROVE Spec => []NoMessageForgotten
  OBVIOUS
<1>1. Init => WellDone /\ Latest
  BY DEF Init, WellDone, Latest, Finishing, Follows
<1>2. /\ Inv /\ Outcome /\ LogInv /\ PlaceInv /\ OrderInv /\ WellDone /\ Latest /\ [Next]_vars
      => WellDone' /\ Latest'
  <2> SUFFICES ASSUME Inv, Outcome, LogInv, PlaceInv, OrderInv, WellDone, Latest, [Next]_vars
               PROVE  WellDone' /\ Latest'
    OBVIOUS
  <2>1. Before /\ Dealt
    BY DEF Before, OrderInv
  <2> QED
    BY <2>1, WellDoneKept, LatestKept
<1>3. /\ Inv /\ Outcome /\ LogInv /\ PlaceInv /\ ReadInv /\ OrderInv /\ WellDone /\ Latest
      => NoMessageForgotten
  <2> SUFFICES ASSUME Inv, Outcome, LogInv, PlaceInv, ReadInv, OrderInv, WellDone, Latest
               PROVE  NoMessageForgotten
    OBVIOUS
  <2>1. Before /\ BegunRuns /\ Reads /\ Final
    BY DEF Before, OrderInv, ReadInv
  <2> QED
    BY <2>1, NothingForgotten
<1>4. "compact" \notin Features
  BY DEF Undisturbed
<1>5. Spec => []ReadInv
  BY <1>4, ReadHolds
<1>6. Spec => []OrderInv
  BY OrderHolds, PTL
<1> QED
  BY <1>1, <1>2, <1>3, <1>5, <1>6, InvHolds, OutcomeHolds, LogInvHolds, PlaceHolds, PTL DEF Spec

(* A model reads the history of the goroutine that asks it. *)
LEMMA SeenSteps ==
  ASSUME Undisturbed, Before, [Next]_vars, seen' # seen
  PROVE  \E r \in live : r \in Runs /\ seen' = seen \cup MsgsIn(hist[r])
<1> USE DEF dbVars, appVars, runVars, histVars
<1>0. ~Restart
  BY NoRestart
<1>1. PICK r \in Runs : Work(r)
  BY <1>0, OthersStand DEF Before, Standing
<1>2. TurnOpen(r) \/ CompactDone(r)
  <2>1. ~(NoModel(r) \/ Open(r) \/ OpenCompact(r) \/ DrainTake(r) \/ DrainMove(r) \/ Drained(r))
    BY DEF NoModel, Open, OpenCompact, DrainTake, DrainMove, Drained
  <2>2. ~(Check(r) \/ CompactAnchor(r) \/ CompactFailed(r) \/ Fold(r) \/ Commit(r) \/ Reply(r))
    BY DEF Check, CompactAnchor, CompactFailed, Fold, Commit, Reply
  <2>3. ~(StreamFailed(r) \/ Overflow(r) \/ Erred(r) \/ Close(r) \/ ToolTurn(r) \/ ToolTalks(r))
    BY DEF StreamFailed, Overflow, Erred, Close, ToolTurn, ToolTalks
  <2>4. ~(ToolAsks(r) \/ ToolReturn(r) \/ TurnEnd(r) \/ SayStopped(r) \/ SetStatus(r))
    BY DEF ToolAsks, ToolReturn, TurnEnd, SayStopped, SetStatus
  <2>5. ~(Untrack(r) \/ EmitDone(r) \/ Exit(r))
    BY DEF Untrack, EmitDone, Exit
  <2> QED
    BY <1>1, <2>1, <2>2, <2>3, <2>4, <2>5 DEF Work
<1>3. pc[r] \in {"turn", "summary"} /\ seen' = seen \cup MsgsIn(hist[r])
  BY <1>2 DEF TurnOpen, CompactDone
<1>4. r \in live
  BY <1>3 DEF Before, PlaceInv, Unstopped, AtWork, Finishing, Calm
<1> QED
  BY <1>3, <1>4

(* Whose a message is that a model reads for the first time, and whose an  *)
(* older one is.                                                           *)
LEMMA OlderIs ==
  ASSUME Before, Dealt, Histories, NEW r \in Runs, NEW c \in Chats,
         NEW e \in ToSet(log[c]), e.kind = "user", NEW f \in ToSet(log[c]), f.kind = "user",
         f.msg \in MsgsIn(hist[r]), e.msg < f.msg
  PROVE  /\ req[r].chat = c /\ e.run <= f.run /\ f.run <= r
         /\ f.msg \notin Unread(r)
<1>1. /\ e.run \in Runs /\ req[e.run].chat = c /\ e.msg \in Handed(e.run)
      /\ f.run \in Runs /\ req[f.run].chat = c /\ f.msg \in Handed(f.run)
      /\ e.msg \in Nat /\ f.msg \in Nat
  <2>1. /\ e.run \in Runs /\ req[e.run].chat = c /\ e.msg \in Handed(e.run)
        /\ f.run \in Runs /\ req[f.run].chat = c /\ f.msg \in Handed(f.run)
    BY EventIs
  <2>2. e.msg \in 1 .. sent /\ f.msg \in 1 .. sent
    BY <2>1 DEF Dealt, Numbers
  <2> QED
    BY <2>1, <2>2
<1>2. f.msg \in Sources(r) /\ f.msg \notin Unread(r)
  BY DEF Histories
<1>3. PICK p \in Runs : p <= r /\ req[p].chat = req[r].chat /\ f.msg \in Handed(p)
  BY <1>2 DEF Sources
<1>4. p = f.run
  BY <1>1, <1>3 DEF Dealt, Apart
<1>5. ~(f.run < e.run)
  <2>1. ASSUME f.run < e.run PROVE FALSE
    <3>1. f.msg < e.msg
      BY <1>1, <2>1 DEF Dealt, InTurn
    <3> QED
      BY <1>1, <3>1
  <2> QED
    BY <2>1
<1> QED
  BY <1>1, <1>2, <1>3, <1>4, <1>5

(* What an older message of the conversation would be that nobody has read. *)
LEMMA NothingOvertaken ==
  ASSUME Undisturbed, Before, Dealt, InLine, BegunRuns, Histories, Reads, Final, WellDone,
         NEW r \in live, r \in Runs, NEW c \in Chats,
         NEW e \in ToSet(log[c]), e.kind = "user", NEW f \in ToSet(log[c]), f.kind = "user",
         f.msg \in MsgsIn(hist[r]), e.msg < f.msg, e.msg \notin seen
  PROVE  e.msg \in MsgsIn(hist[r])
<1>1. /\ req[r].chat = c /\ e.run <= f.run /\ f.run <= r /\ f.msg \notin Unread(r)
  BY OlderIs
<1>2. /\ e.run \in Runs /\ req[e.run].chat = c /\ e.msg \in Handed(e.run)
      /\ f.run \in Runs /\ f.msg \in Handed(f.run) /\ e.msg \in Nat /\ f.msg \in Nat
  <2>1. /\ e.run \in Runs /\ req[e.run].chat = c /\ e.msg \in Handed(e.run)
        /\ f.run \in Runs /\ f.msg \in Handed(f.run)
    BY EventIs
  <2>2. e.msg \in 1 .. sent /\ f.msg \in 1 .. sent
    BY <2>1 DEF Dealt, Numbers
  <2> QED
    BY <2>1, <2>2
<1>3. e.msg \notin Unread(e.run)
  <2>1. CASE e.run = r
    <3>1. f.run = r
      BY <1>1, <1>2, <2>1
    <3>2. ASSUME e.msg \in Unread(r) PROVE FALSE
      <4>1. f.msg < e.msg
        BY <1>1, <1>2, <3>1, <3>2 DEF InLine, UnreadLast
      <4> QED
        BY <1>2, <4>1
    <3> QED
      BY <2>1, <3>2
  <2>2. CASE e.run # r
    BY <1>1, <1>2, <2>2, OthersRead
  <2> QED
    BY <2>1, <2>2
<1>4. e.msg \notin Due
  <2> SUFFICES ASSUME NEW q \in Runs, e.msg \in Unread(q) PROVE FALSE
    BY DEF Due
  <2>1. e.msg \in MessagesOf(q)
    BY DEF Dealt, Logged
  <2>2. PICK d \in EventsNow : d.run = q /\ d.kind = "user" /\ d.msg = e.msg
    BY <2>1 DEF MessagesOf
  <2>3. e.msg \in Handed(q)
    <3>1. PICK b \in Chats : d \in ToSet(log[b])
      BY <2>2 DEF EventsNow
    <3> QED
      BY <2>2, <3>1, EventIs
  <2>4. q = e.run
    BY <1>2, <2>3 DEF Dealt, Apart
  <2> QED
    BY <1>3, <2>4
<1>5. e.run \in live /\ e.msg \in MsgsIn(hist[e.run])
  BY <1>4, MessageIs
<1>6. e.run = r
  BY <1>1, <1>2, <1>5 DEF Before, Inv, OneLiveRun
<1> QED
  BY <1>5, <1>6

(* No message overtakes an older one: when a model first reads a message,  *)
(* it has read or now reads every older one in the log of the conversation, *)
(* injected, drained or summed up (drainInbox, contextFromDB, compact).  It *)
(* is proved for the same runs.                                            *)
THEOREM NoOvertakingHolds == Undisturbed => (Spec => NoOvertaking)
<1> SUFFICES ASSUME Undisturbed PROVE Spec => NoOvertaking
  OBVIOUS
<1> DEFINE Older == \A c \in Chats : \A m \in (seen' \ seen) \cap InLog(c) :
                     \A older \in InLog(c) : older < m => older \in seen'
<1>1. Init => WellDone
  BY DEF Init, WellDone, Finishing
<1>2. Inv /\ Outcome /\ LogInv /\ PlaceInv /\ OrderInv /\ WellDone /\ [Next]_vars => WellDone'
  <2> SUFFICES ASSUME Inv, Outcome, LogInv, PlaceInv, OrderInv, WellDone, [Next]_vars
               PROVE  WellDone'
    OBVIOUS
  <2>1. Before
    BY DEF Before, OrderInv
  <2> QED
    BY <2>1, WellDoneKept
<1>3. Inv /\ Outcome /\ LogInv /\ PlaceInv /\ OrderInv /\ ReadInv /\ WellDone /\ [Next]_vars
      => [Older]_vars
  <2> SUFFICES ASSUME Inv, Outcome, LogInv, PlaceInv, OrderInv, ReadInv, WellDone, [Next]_vars
               PROVE  [Older]_vars
    OBVIOUS
  <2> SUFFICES ASSUME NEW c \in Chats, NEW m \in (seen' \ seen) \cap InLog(c),
                      NEW older \in InLog(c), older < m
               PROVE  older \in seen'
    OBVIOUS
  <2>1. Before /\ Dealt /\ InLine /\ BegunRuns /\ Histories /\ Reads /\ Final
    BY DEF Before, OrderInv, ReadInv
  <2>2. PICK r \in live : r \in Runs /\ seen' = seen \cup MsgsIn(hist[r])
    BY <2>1, SeenSteps
  <2>3. PICK e \in ToSet(log[c]) : e.kind = "user" /\ e.msg = older
    BY DEF InLog, At, ToSet
  <2>4. PICK f \in ToSet(log[c]) : f.kind = "user" /\ f.msg = m
    BY DEF InLog, At, ToSet
  <2>5. e.msg \in seen \/ e.msg \in MsgsIn(hist[r])
    BY <2>1, <2>2, <2>3, <2>4, NothingOvertaken
  <2> QED
    BY <2>2, <2>3, <2>5
<1>4. "compact" \notin Features
  BY DEF Undisturbed
<1>5. Spec => []ReadInv
  BY <1>4, ReadHolds
<1>6. Spec => []OrderInv
  BY OrderHolds, PTL
<1> QED
  BY <1>1, <1>2, <1>3, <1>5, <1>6, InvHolds, OutcomeHolds, LogInvHolds, PlaceHolds, PTL
     DEF Spec, NoOvertaking

-----------------------------------------------------------------------------
(* What a history is, told by the log: which events it shows, and that it  *)
(* shows them in the readers' order.                                       *)

(* The readers' order of the places of a log. *)
Prec(s, p, q) == s[p].run < s[q].run \/ (s[p].run = s[q].run /\ p < q)

(* Items that show the places P of a log, one each, in the readers' order. *)
Shows(items, s, g, P) ==
  /\ g \in [DOMAIN items -> DOMAIN s]
  /\ \A i \in DOMAIN items : g[i] \in P /\ items[i] = ItemOf(s[g[i]])
  /\ \A i, j \in DOMAIN items : i < j => Prec(s, g[i], g[j])
  /\ \A p \in P : \E i \in DOMAIN items : g[i] = p

(* Places that a reader sees: no clear comes behind them. *)
Visible(s) ==
  {p \in DOMAIN s : /\ s[p].kind \in Shown
                    /\ \A j \in DOMAIN s : s[j].kind = "context_cleared" => ~Prec(s, p, j)}

(* Every result comes right behind the turn that called for it, but for    *)
(* events of W.                                                            *)
Answered(s, W) ==
  \A p \in DOMAIN s : s[p].kind = "tool_result" =>
    \E j \in DOMAIN s :
      /\ j < p /\ s[j].kind = "turn" /\ s[j].run = s[p].run
      /\ \A k \in DOMAIN s : j < k /\ k < p /\ s[k].run = s[p].run => s[k] \in W

(* The readers' order is one. *)
LEMMA PrecIs ==
  ASSUME NEW s \in Seq(Event), NEW p \in DOMAIN s, NEW q \in DOMAIN s
  PROVE  /\ p = q \/ Prec(s, p, q) \/ Prec(s, q, p)
         /\ ~Prec(s, p, p) /\ (Prec(s, p, q) => ~Prec(s, q, p))
         /\ \A k \in DOMAIN s : Prec(s, p, q) /\ Prec(s, q, k) /\ s[p].run = s[k].run =>
              s[q].run = s[p].run /\ p < q /\ q < k
<1>1. \A k \in DOMAIN s : k \in Nat /\ s[k] \in Event
  OBVIOUS
<1>2. \A k \in DOMAIN s : s[k].run \in Nat
  BY <1>1 DEF Event
<1> QED
  BY <1>1, <1>2 DEF Prec

(* A list of rising numbers leaves them all behind. *)
LEMMA Rising ==
  ASSUME NEW n \in Nat, NEW m \in Nat, NEW h \in [1..n -> 1..m],
         \A i, j \in 1..n : i < j => h[i] < h[j]
  PROVE  n <= m /\ \A i \in 1..n : h[i] >= i
<1> DEFINE T == {k \in 0..n : k = 0 \/ h[k] >= k}
<1>1. 0 \in T
  OBVIOUS
<1>2. ASSUME NEW k \in 0..n, k # n, k \in T PROVE k + 1 \in T
  <2>1. k + 1 \in 1..n /\ h[k + 1] \in 1..m /\ k + 1 \in 0..n
    BY <1>2
  <2>2. CASE k = 0
    BY <2>1, <2>2
  <2>3. CASE k # 0
    <3>1. k \in 1..n /\ h[k] \in 1..m /\ h[k] >= k /\ h[k] < h[k + 1]
      BY <1>2, <2>1, <2>3
    <3> QED
      BY <2>1, <3>1
  <2> QED
    BY <2>2, <2>3
<1>3. \A k \in 0..n : k \in T
  <2> HIDE DEF T
  <2> QED
    BY <1>1, <1>2, NumbersUpTo
<1>4. \A i \in 1..n : h[i] >= i
  BY <1>3
<1>5. n <= m
  <2>1. CASE n = 0
    BY <2>1
  <2>2. CASE n # 0
    <3>1. n \in 1..n /\ h[n] \in 1..m /\ h[n] >= n
      BY <1>4, <2>2
    <3> QED
      BY <3>1
  <2> QED
    BY <2>1, <2>2
<1> QED
  BY <1>4, <1>5

(* The first list has what the second has, and no later. *)
NoLater(items, other, g, k) ==
  \E h \in [DOMAIN items -> DOMAIN other] :
    \A i \in DOMAIN items : k[h[i]] = g[i] /\ h[i] >= i

(* Of two lists that show the same places the one has its items no later    *)
(* than the other.                                                         *)
LEMMA ShownNoLater ==
  ASSUME NEW s \in Seq(Event), NEW P, NEW items \in Seq(Item), NEW other \in Seq(Item),
         NEW g, NEW k, Shows(items, s, g, P), Shows(other, s, k, P)
  PROVE  Len(items) <= Len(other) /\ NoLater(items, other, g, k)
<1> DEFINE n == Len(items)
           m == Len(other)
           h == [i \in DOMAIN items |-> CHOOSE j \in DOMAIN other : k[j] = g[i]]
<1>1. n \in Nat /\ m \in Nat /\ DOMAIN items = 1..n /\ DOMAIN other = 1..m
  OBVIOUS
<1>2. \A i \in DOMAIN items : \E j \in DOMAIN other : k[j] = g[i]
  BY DEF Shows
<1>3. \A i \in DOMAIN items : h[i] \in DOMAIN other /\ k[h[i]] = g[i]
  BY <1>2
<1>4. h \in [DOMAIN items -> DOMAIN other]
  BY <1>3
<1> HIDE DEF h
<1>5. ASSUME NEW i \in DOMAIN items, NEW j \in DOMAIN items, i < j PROVE h[i] < h[j]
  <2>1. /\ Prec(s, g[i], g[j]) /\ g[i] \in DOMAIN s /\ g[j] \in DOMAIN s
        /\ k[h[i]] = g[i] /\ k[h[j]] = g[j]
    BY <1>3, <1>5 DEF Shows
  <2>2. ~Prec(s, g[j], g[i]) /\ g[i] # g[j]
    BY <2>1, PrecIs
  <2>3. h[i] # h[j] /\ ~(h[j] < h[i])
    BY <1>3, <2>1, <2>2 DEF Shows
  <2>4. h[i] \in 1..m /\ h[j] \in 1..m
    BY <1>1, <1>3
  <2> QED
    BY <2>3, <2>4
<1> HIDE DEF n, m
<1>6. n <= m /\ \A i \in 1..n : h[i] >= i
  BY <1>1, <1>4, <1>5, Rising
<1> QED
  BY <1>1, <1>3, <1>4, <1>6 DEF n, m, NoLater

(* Lists that show the same places of a log are the same. *)
LEMMA ShownOnce ==
  ASSUME NEW s \in Seq(Event), NEW P, NEW items \in Seq(Item), NEW other \in Seq(Item),
         NEW g, NEW k, Shows(items, s, g, P), Shows(other, s, k, P)
  PROVE  items = other
<1>1. /\ Len(items) \in Nat /\ Len(other) \in Nat
      /\ DOMAIN items = 1..Len(items) /\ DOMAIN other = 1..Len(other)
  OBVIOUS
<1>2. Len(items) <= Len(other) /\ Len(other) <= Len(items)
  BY ShownNoLater
<1>3. DOMAIN items = DOMAIN other
  <2>1. \A a, b \in Nat : a <= b /\ b <= a => a = b
    OBVIOUS
  <2>2. Len(items) = Len(other)
    BY <1>1, <1>2, <2>1
  <2> QED
    BY <1>1, <2>2
<1>a. NoLater(items, other, g, k) /\ NoLater(other, items, k, g)
  BY ShownNoLater
<1>4. PICK h \in [DOMAIN items -> DOMAIN other] :
        \A i \in DOMAIN items : k[h[i]] = g[i] /\ h[i] >= i
  BY <1>a DEF NoLater
<1>5. PICK f \in [DOMAIN other -> DOMAIN items] :
        \A j \in DOMAIN other : g[f[j]] = k[j] /\ f[j] >= j
  BY <1>a DEF NoLater
<1>c. \A i \in DOMAIN items : i \in Nat
  BY <1>1
<1>d. \A i \in DOMAIN other : i \in Nat
  BY <1>1
<1>6. ASSUME NEW i \in DOMAIN items PROVE items[i] = other[i]
  <2> DEFINE j == h[i]
             x == f[j]
  <2>1. j \in DOMAIN other /\ x \in DOMAIN items /\ g[x] = g[i] /\ j >= i /\ x >= j
    BY <1>4, <1>5
  <2> HIDE DEF j, x
  <2>2. x = i
    <3>1. g[i] \in DOMAIN s /\ ~Prec(s, g[i], g[i])
      BY PrecIs DEF Shows
    <3>2. ~(x < i) /\ ~(i < x)
      BY <2>1, <3>1 DEF Shows
    <3>3. x \in Nat /\ i \in Nat
      BY <1>c, <2>1
    <3> QED
      BY <3>2, <3>3
  <2>3. j = i
    <3>1. i \in Nat /\ j \in Nat
      BY <1>c, <1>d, <2>1
    <3> QED
      BY <2>1, <2>2, <3>1
  <2>4. k[i] = g[i] /\ i \in DOMAIN other
    BY <1>4, <2>1, <2>3 DEF j
  <2> QED
    BY <2>4 DEF Shows
<1>7. items = [i \in DOMAIN items |-> items[i]] /\ other = [i \in DOMAIN other |-> other[i]]
  OBVIOUS
<1> QED
  BY <1>3, <1>6, <1>7

(* Items made of all that is shown of a list of events. *)
Picks(items, evs, g) ==
  /\ g \in [DOMAIN items -> DOMAIN evs]
  /\ \A i \in DOMAIN items : evs[g[i]].kind \in Shown /\ items[i] = ItemOf(evs[g[i]])
  /\ \A i, j \in DOMAIN items : i < j => g[i] < g[j]
  /\ \A p \in DOMAIN evs : evs[p].kind \in Shown => \E i \in DOMAIN items : g[i] = p

(* Where every result answers its call all that is shown is read. *)
LEMMA ItemsShow ==
  ASSUME NEW evs \in Seq(Event),
         \A i \in DOMAIN evs : evs[i].kind = "tool_result" => Answers(evs, i)
  PROVE  \E g : Picks(ItemsOf(evs), evs, g)
<1> DEFINE n == Len(evs)
           ids == [i \in DOMAIN evs |-> i]
           K == {i \in DOMAIN evs : /\ evs[i].kind \in Shown
                                    /\ evs[i].kind = "tool_result" => Answers(evs, i)}
           read == Keep(ids, K)
           items == [p \in DOMAIN read |-> ItemOf(evs[read[p]])]
<1>1. n \in Nat /\ DOMAIN evs = 1..n /\ \A i \in 1..n : evs[i] \in Event
  OBVIOUS
<1>2. ids \in Seq(1..n) /\ DOMAIN ids = 1..n /\ \A i \in 1..n : ids[i] = i
  BY <1>1
<1> HIDE DEF ids
<1> DEFINE places == {p \in DOMAIN ids : ids[p] \in K}
<1>3. read \in Seq(1..n) /\ \E h : Drawn(read, ids, h, places)
  BY <1>2, KeepElements, KeepOrder
<1>4. ItemsOf(evs) = items
  BY DEF ItemsOf, ids
<1>5. places = K
  BY <1>1, <1>2
<1>6. \A i \in DOMAIN evs : i \in K <=> evs[i].kind \in Shown
  BY DEF Shown
<1>6a. K \subseteq DOMAIN evs
  OBVIOUS
<1> HIDE DEF K, n, places
<1> HIDE DEF read
<1>7. PICK h : Drawn(read, ids, h, K)
  BY <1>3, <1>5
<1>8. \A p \in DOMAIN read : read[p] = h[p] /\ h[p] \in K /\ h[p] \in DOMAIN evs
  BY <1>1, <1>2, <1>6a, <1>7 DEF Drawn
<1>9. DOMAIN items = DOMAIN read /\ \A p \in DOMAIN read : items[p] = ItemOf(evs[h[p]])
  BY <1>8
<1> HIDE DEF items
<1>10. Picks(items, evs, h)
  <2>1. h \in [DOMAIN items -> DOMAIN evs]
    BY <1>1, <1>2, <1>7, <1>9 DEF Drawn
  <2> QED
    BY <1>6, <1>6a, <1>7, <1>8, <1>9, <2>1 DEF Drawn, Picks
<1> QED
  BY <1>4, <1>10

(* The part of a conversation behind the last clear, as places of the log. *)
Behind(evs, s, b) ==
  /\ b \in [DOMAIN evs -> DOMAIN s]
  /\ \A k \in DOMAIN evs : evs[k] = s[b[k]]
  /\ \A k, l \in DOMAIN evs : k < l => Prec(s, b[k], b[l])
  /\ \A p \in DOMAIN s :
       (\E k \in DOMAIN evs : b[k] = p)
       \/ \E x \in DOMAIN s : s[x].kind = "context_cleared" /\ (p = x \/ Prec(s, p, x))
  /\ \A k \in DOMAIN evs : \A x \in DOMAIN s : s[x].kind = "context_cleared" => ~Prec(s, b[k], x)

(* What is read of a log is the part behind its last clear, in the readers' *)
(* order.                                                                  *)
LEMMA SinceClearShows ==
  ASSUME NEW s \in Seq(Event)
  PROVE  /\ SinceClear(Ordered(s)) \in Seq(Event)
         /\ \E b : Behind(SinceClear(Ordered(s)), s, b)
<1> DEFINE o == Ordered(s)
           evs == SinceClear(o)
<1>1. o \in Seq(Event) /\ ToSet(o) = ToSet(s) /\ \E h : RunByRun(o, s, h, DOMAIN s)
  BY OrderedIs
<1> HIDE DEF o
<1>2. PICK h : RunByRun(o, s, h, DOMAIN s)
  BY <1>1
<1>3. PICK a \in 1..(Len(o) + 1) :
        /\ evs = SubSeq(o, a, Len(o))
        /\ \A p \in DOMAIN o : p >= a => o[p].kind # "context_cleared"
        /\ a = 1 \/ (a - 1 \in DOMAIN o /\ o[a - 1].kind = "context_cleared")
  BY <1>1, SinceClearIs
<1> HIDE DEF evs
<1>4. /\ evs \in Seq(Event) /\ DOMAIN evs = 1..(Len(o) - a + 1)
      /\ \A k \in 1..(Len(o) - a + 1) : k + a - 1 \in DOMAIN o /\ evs[k] = o[k + a - 1]
      /\ \A p \in DOMAIN o : p >= a => p - a + 1 \in 1..(Len(o) - a + 1) /\ (p - a + 1) + a - 1 = p
  BY <1>1, <1>3, EndIs
<1>5. /\ a \in Nat /\ DOMAIN o \subseteq Nat /\ DOMAIN evs \subseteq Nat /\ DOMAIN s \subseteq Nat
      /\ \A p \in DOMAIN o : p >= 1
  BY <1>1, <1>4
<1>6. /\ h \in [DOMAIN o -> DOMAIN s] /\ \A p \in DOMAIN o : o[p] = s[h[p]]
      /\ \A p, q \in DOMAIN o : p < q => Prec(s, h[p], h[q])
      /\ \A x \in DOMAIN s : \E p \in DOMAIN o : h[p] = x
  BY <1>2 DEF RunByRun, Prec
<1>7. \A p, q \in DOMAIN o : Prec(s, h[p], h[q]) => p < q
  <2> SUFFICES ASSUME NEW p \in DOMAIN o, NEW q \in DOMAIN o, Prec(s, h[p], h[q]) PROVE p < q
    OBVIOUS
  <2>1. h[p] \in DOMAIN s /\ h[q] \in DOMAIN s
    BY <1>6
  <2>2. h[p] # h[q] /\ ~Prec(s, h[q], h[p])
    BY <2>1, PrecIs
  <2>3. p # q /\ ~(q < p)
    BY <1>6, <2>2
  <2> QED
    BY <1>5, <2>3
<1> DEFINE b == [k \in DOMAIN evs |-> h[k + a - 1]]
<1>8. \A k \in DOMAIN evs : k + a - 1 \in DOMAIN o /\ k + a - 1 >= a /\ b[k] = h[k + a - 1] /\ evs[k] = s[b[k]]
  <2> SUFFICES ASSUME NEW k \in DOMAIN evs
               PROVE  k + a - 1 \in DOMAIN o /\ k + a - 1 >= a /\ b[k] = h[k + a - 1] /\ evs[k] = s[b[k]]
    OBVIOUS
  <2>1. k + a - 1 \in DOMAIN o /\ evs[k] = o[k + a - 1]
    BY <1>4
  <2>2. k >= 1 /\ k \in Nat
    BY <1>4, <1>5
  <2>3. k + a - 1 >= a
    BY <1>5, <2>2
  <2> QED
    BY <1>6, <2>1, <2>3
<1>9. b \in [DOMAIN evs -> DOMAIN s]
  BY <1>6, <1>8
<1>10. ASSUME NEW k \in DOMAIN evs, NEW l \in DOMAIN evs, k < l PROVE Prec(s, b[k], b[l])
  <2>1. k + a - 1 < l + a - 1
    BY <1>5, <1>10
  <2> QED
    BY <1>6, <1>8, <2>1
<1>11. ASSUME NEW p \in DOMAIN s
       PROVE  \/ \E k \in DOMAIN evs : b[k] = p
              \/ \E x \in DOMAIN s : s[x].kind = "context_cleared" /\ (p = x \/ Prec(s, p, x))
  <2>1. PICK y \in DOMAIN o : h[y] = p
    BY <1>6
  <2>2. CASE y >= a
    <3>1. y - a + 1 \in DOMAIN evs /\ (y - a + 1) + a - 1 = y
      BY <1>4, <2>2
    <3>2. b[y - a + 1] = p
      BY <1>8, <2>1, <3>1
    <3> QED
      BY <3>1, <3>2
  <2>3. CASE ~(y >= a)
    <3>1. a # 1 /\ (y = a - 1 \/ y < a - 1)
      BY <1>5, <2>3
    <3>2. a - 1 \in DOMAIN o /\ o[a - 1].kind = "context_cleared"
      BY <1>3, <3>1
    <3>3. h[a - 1] \in DOMAIN s /\ s[h[a - 1]].kind = "context_cleared"
      BY <1>6, <3>2
    <3>4. p = h[a - 1] \/ Prec(s, p, h[a - 1])
      BY <1>6, <2>1, <3>1, <3>2
    <3> QED
      BY <3>3, <3>4
  <2> QED
    BY <2>2, <2>3
<1>12. ASSUME NEW k \in DOMAIN evs, NEW x \in DOMAIN s, s[x].kind = "context_cleared"
       PROVE  ~Prec(s, b[k], x)
  <2>1. PICK y \in DOMAIN o : h[y] = x
    BY <1>6
  <2>2. o[y].kind = "context_cleared"
    BY <1>6, <1>12, <2>1
  <2>3. ~(y >= a)
    BY <1>3, <2>2
  <2>4. ~(k + a - 1 < y)
    BY <1>5, <1>8, <2>3
  <2> QED
    BY <1>7, <1>8, <2>1, <2>4
<1> HIDE DEF b
<1>13. Behind(evs, s, b)
  BY <1>8, <1>9, <1>10, <1>11, <1>12 DEF Behind
<1> QED
  BY <1>4, <1>13 DEF evs, o

(* A result that comes right behind its turn answers it to every reader: a *)
(* clear between them would be an event of their run.                      *)
LEMMA BehindAnswers ==
  ASSUME NEW s \in Seq(Event), Answered(s, {}), NEW evs \in Seq(Event), NEW b, Behind(evs, s, b),
         NEW i \in DOMAIN evs, evs[i].kind = "tool_result"
  PROVE  Answers(evs, i)
<1>1. b[i] \in DOMAIN s /\ s[b[i]].kind = "tool_result" /\ evs[i] = s[b[i]]
  BY DEF Behind
<1>2. PICK j \in DOMAIN s :
        /\ j < b[i] /\ s[j].kind = "turn" /\ s[j].run = s[b[i]].run
        /\ \A k \in DOMAIN s : ~(j < k /\ k < b[i] /\ s[k].run = s[b[i]].run)
  BY <1>1 DEF Answered
<1>3. Prec(s, j, b[i])
  BY <1>2 DEF Prec
<1>4. \A x \in DOMAIN s : ~(Prec(s, j, x) /\ Prec(s, x, b[i]))
  <2> SUFFICES ASSUME NEW x \in DOMAIN s, Prec(s, j, x), Prec(s, x, b[i]) PROVE FALSE
    OBVIOUS
  <2>1. s[x].run = s[j].run /\ j < x /\ x < b[i]
    BY <1>1, <1>2, PrecIs
  <2> QED
    BY <1>2, <2>1
<1>5. PICK y \in DOMAIN evs : b[y] = j
  <2> SUFFICES ASSUME NEW x \in DOMAIN s, s[x].kind = "context_cleared", j = x \/ Prec(s, j, x)
               PROVE  FALSE
    BY DEF Behind
  <2>1. j # x /\ x # b[i]
    BY <1>1, <1>2
  <2>2. ~Prec(s, b[i], x)
    BY DEF Behind
  <2>3. Prec(s, x, b[i])
    BY <1>1, <2>1, <2>2, PrecIs
  <2> QED
    BY <1>4, <2>1, <2>3
<1>6. \A k, l \in DOMAIN evs : Prec(s, b[k], b[l]) => k < l
  <2> SUFFICES ASSUME NEW k \in DOMAIN evs, NEW l \in DOMAIN evs, Prec(s, b[k], b[l]) PROVE k < l
    OBVIOUS
  <2>1. b[k] \in DOMAIN s /\ b[l] \in DOMAIN s
    BY DEF Behind
  <2>2. b[k] # b[l] /\ ~Prec(s, b[l], b[k])
    BY <2>1, PrecIs
  <2>3. k # l /\ ~(l < k)
    BY <2>2 DEF Behind
  <2>4. k \in Nat /\ l \in Nat
    OBVIOUS
  <2> QED
    BY <2>3, <2>4
<1>7. y < i
  BY <1>3, <1>5, <1>6
<1>8. evs[y].kind = "turn" /\ evs[y].run = evs[i].run
  BY <1>1, <1>2, <1>5 DEF Behind
<1>9. \A k \in DOMAIN evs : ~(y < k /\ k < i)
  <2> SUFFICES ASSUME NEW k \in DOMAIN evs, y < k, k < i PROVE FALSE
    OBVIOUS
  <2>1. Prec(s, j, b[k]) /\ Prec(s, b[k], b[i]) /\ b[k] \in DOMAIN s
    BY <1>5 DEF Behind
  <2> QED
    BY <1>4, <2>1
<1>10. DOMAIN evs = 1..Len(evs) /\ Len(evs) \in Nat
  OBVIOUS
<1>11. y \in 1..(i - 1) /\ \A k \in (y + 1)..(i - 1) : k \in DOMAIN evs /\ y < k /\ k < i
  BY <1>7, <1>10
<1> QED
  BY <1>8, <1>9, <1>11 DEF Answers

(* Without compactions a conversation's context shows all that a reader    *)
(* sees of its log, in the readers' order (replayEvents).                  *)
LEMMA ContextShows ==
  ASSUME NEW s \in Seq(Event), \A e \in ToSet(s) : e.kind # "compaction", Answered(s, {})
  PROVE  \E g : Shows(ContextOf(s), s, g, Visible(s))
<1> DEFINE evs == SinceClear(Ordered(s))
<1>1. evs \in Seq(Event) /\ \E b : Behind(evs, s, b)
  BY SinceClearShows
<1>1a. ContextOf(s) = IF At(evs, "compaction") = {} THEN ItemsOf(evs) ELSE ContextOf(s)
  BY DEF ContextOf, Replay
<1> HIDE DEF evs
<1>2. PICK b : Behind(evs, s, b)
  BY <1>1
<1>3. \A k \in DOMAIN evs : b[k] \in DOMAIN s /\ evs[k] = s[b[k]] /\ evs[k] \in ToSet(s)
  BY <1>2 DEF Behind, ToSet
<1>4. ContextOf(s) = ItemsOf(evs)
  BY <1>1a, <1>3 DEF At
<1>5. \A i \in DOMAIN evs : evs[i].kind = "tool_result" => Answers(evs, i)
  BY <1>1, <1>2, BehindAnswers
<1>6. PICK f : Picks(ItemsOf(evs), evs, f)
  BY <1>1, <1>5, ItemsShow
<1> DEFINE items == ItemsOf(evs)
           g == [i \in DOMAIN items |-> b[f[i]]]
<1> HIDE DEF items
<1>7. \A i \in DOMAIN items : /\ f[i] \in DOMAIN evs /\ g[i] = b[f[i]] /\ evs[f[i]].kind \in Shown
                              /\ items[i] = ItemOf(evs[f[i]])
  BY <1>6 DEF Picks, items
<1>8. g \in [DOMAIN items -> DOMAIN s]
  BY <1>3, <1>7
<1> HIDE DEF g
<1>9. \A i \in DOMAIN items : g[i] \in Visible(s) /\ items[i] = ItemOf(s[g[i]])
  <2> SUFFICES ASSUME NEW i \in DOMAIN items
               PROVE  g[i] \in Visible(s) /\ items[i] = ItemOf(s[g[i]])
    OBVIOUS
  <2>1. g[i] \in DOMAIN s /\ s[g[i]] = evs[f[i]] /\ s[g[i]].kind \in Shown
    BY <1>3, <1>7
  <2>2. \A x \in DOMAIN s : s[x].kind = "context_cleared" => ~Prec(s, g[i], x)
    BY <1>2, <1>7 DEF Behind
  <2> QED
    BY <1>7, <2>1, <2>2 DEF Visible
<1>10. \A i, j \in DOMAIN items : i < j => Prec(s, g[i], g[j])
  <2> SUFFICES ASSUME NEW i \in DOMAIN items, NEW j \in DOMAIN items, i < j PROVE Prec(s, g[i], g[j])
    OBVIOUS
  <2>1. f[i] < f[j]
    BY <1>6 DEF Picks, items
  <2> QED
    BY <1>2, <1>7, <2>1 DEF Behind
<1>11. \A p \in Visible(s) : \E i \in DOMAIN items : g[i] = p
  <2> SUFFICES ASSUME NEW p \in Visible(s) PROVE \E i \in DOMAIN items : g[i] = p
    OBVIOUS
  <2>1. /\ p \in DOMAIN s /\ s[p].kind \in Shown
        /\ \A x \in DOMAIN s : s[x].kind = "context_cleared" => ~Prec(s, p, x)
    BY DEF Visible
  <2>2. PICK k \in DOMAIN evs : b[k] = p
    BY <1>2, <2>1 DEF Behind, Shown
  <2>3. PICK i \in DOMAIN items : f[i] = k
    BY <1>3, <1>6, <2>1, <2>2 DEF Picks, items
  <2> QED
    BY <1>7, <2>2, <2>3
<1>12. Shows(items, s, g, Visible(s))
  BY <1>8, <1>9, <1>10, <1>11 DEF Shows
<1> QED
  BY <1>4, <1>12 DEF items

(* What is left of a log without events of W. *)
Read(s, W) == {p \in Visible(s) : s[p] \notin W}

(* What a log without the messages that wait replays to shows the rest of  *)
(* the log.                                                                *)
LEMMA KeptShows ==
  ASSUME NEW s \in Seq(Event), \A e \in ToSet(s) : e.kind # "compaction",
         NEW W, \A e \in W : e.kind = "user", Answered(s, W)
  PROVE  \E g : Shows(ContextOf(Keep(s, ToSet(s) \ W)), s, g, Read(s, W))
<1> DEFINE u == Keep(s, ToSet(s) \ W)
           U == {p \in DOMAIN s : s[p] \in ToSet(s) \ W}
<1>1. u \in Seq(Event) /\ ToSet(u) \subseteq ToSet(s) /\ \E h : Drawn(u, s, h, U)
  <2> DEFINE K == ToSet(s) \ W
  <2> HIDE DEF K
  <2>1. Keep(s, K) \in Seq(Event) /\ ToSet(Keep(s, K)) = ToSet(s) \cap K
    BY KeepElements
  <2>2. \E h : Drawn(Keep(s, K), s, h, {p \in DOMAIN s : s[p] \in K})
    BY KeepOrder
  <2>3. u = Keep(s, K) /\ U = {p \in DOMAIN s : s[p] \in K}
    BY DEF K
  <2> HIDE DEF u, U
  <2> QED
    BY <2>1, <2>2, <2>3
<1> HIDE DEF u
<1>2. U = {p \in DOMAIN s : s[p] \notin W}
  BY DEF ToSet
<1> HIDE DEF U
<1>3. PICK h : Drawn(u, s, h, U)
  BY <1>1
<1>4. /\ h \in [DOMAIN u -> DOMAIN s] /\ \A i \in DOMAIN u : u[i] = s[h[i]] /\ s[h[i]] \notin W
      /\ \A i, j \in DOMAIN u : i < j => h[i] < h[j]
      /\ \A p \in DOMAIN s : s[p] \notin W => \E i \in DOMAIN u : h[i] = p
  BY <1>2, <1>3 DEF Drawn
<1>5. DOMAIN u \subseteq Nat /\ DOMAIN s \subseteq Nat
  BY <1>1
<1>6. \A i, j \in DOMAIN u : h[i] < h[j] => i < j
  <2> SUFFICES ASSUME NEW i \in DOMAIN u, NEW j \in DOMAIN u, h[i] < h[j] PROVE i < j
    OBVIOUS
  <2>1. h[i] \in Nat /\ h[j] \in Nat /\ i \in Nat /\ j \in Nat
    BY <1>4, <1>5
  <2>2. i # j /\ ~(h[j] < h[i])
    BY <2>1
  <2>3. ~(j < i)
    BY <1>4, <2>2
  <2> QED
    BY <2>1, <2>2, <2>3
<1>7. \A i, j \in DOMAIN u : Prec(u, i, j) <=> Prec(s, h[i], h[j])
  BY <1>4, <1>6 DEF Prec
<1>8. Answered(u, {})
  <2> SUFFICES ASSUME NEW p \in DOMAIN u, u[p].kind = "tool_result"
               PROVE  \E j \in DOMAIN u :
                        /\ j < p /\ u[j].kind = "turn" /\ u[j].run = u[p].run
                        /\ \A k \in DOMAIN u : ~(j < k /\ k < p /\ u[k].run = u[p].run)
    BY DEF Answered
  <2>1. h[p] \in DOMAIN s /\ s[h[p]] = u[p]
    BY <1>4
  <2>2. PICK x \in DOMAIN s :
          /\ x < h[p] /\ s[x].kind = "turn" /\ s[x].run = s[h[p]].run
          /\ \A k \in DOMAIN s : x < k /\ k < h[p] /\ s[k].run = s[h[p]].run => s[k] \in W
    BY <2>1 DEF Answered
  <2>3. s[x] \notin W
    BY <2>2
  <2>4. PICK j \in DOMAIN u : h[j] = x
    BY <1>4, <2>3
  <2>5. j < p /\ u[j].kind = "turn" /\ u[j].run = u[p].run
    BY <1>4, <1>6, <2>1, <2>2, <2>4
  <2>6. \A k \in DOMAIN u : ~(j < k /\ k < p /\ u[k].run = u[p].run)
    <3> SUFFICES ASSUME NEW k \in DOMAIN u, j < k, k < p, u[k].run = u[p].run PROVE FALSE
      OBVIOUS
    <3>1. h[k] \in DOMAIN s /\ x < h[k] /\ h[k] < h[p] /\ s[h[k]].run = s[h[p]].run /\ s[h[k]] \notin W
      BY <1>4, <2>1, <2>4
    <3> QED
      BY <2>2, <3>1
  <2> QED
    BY <2>5, <2>6
<1>9. \A e \in ToSet(u) : e.kind # "compaction"
  BY <1>1
<1>10. PICK f : Shows(ContextOf(u), u, f, Visible(u))
  BY <1>1, <1>8, <1>9, ContextShows
<1> DEFINE items == ContextOf(u)
           g == [i \in DOMAIN items |-> h[f[i]]]
<1> HIDE DEF items
<1>11. Shows(items, u, f, Visible(u))
  BY <1>10 DEF items
<1>12. \A p \in DOMAIN u : p \in Visible(u) <=> h[p] \in Visible(s)
  <2> SUFFICES ASSUME NEW p \in DOMAIN u PROVE p \in Visible(u) <=> h[p] \in Visible(s)
    OBVIOUS
  <2>1. h[p] \in DOMAIN s /\ s[h[p]] = u[p]
    BY <1>4
  <2>2. ASSUME p \in Visible(u), NEW x \in DOMAIN s, s[x].kind = "context_cleared"
        PROVE  ~Prec(s, h[p], x)
    <3>1. s[x] \notin W
      BY <2>2
    <3>2. PICK j \in DOMAIN u : h[j] = x
      BY <1>4, <3>1
    <3>3. ~Prec(u, p, j)
      BY <1>4, <2>2, <3>2 DEF Visible
    <3> QED
      BY <1>7, <3>2, <3>3
  <2>3. ASSUME h[p] \in Visible(s), NEW j \in DOMAIN u, u[j].kind = "context_cleared"
        PROVE  ~Prec(u, p, j)
    <3>1. h[j] \in DOMAIN s /\ s[h[j]].kind = "context_cleared"
      BY <1>4, <2>3
    <3>2. ~Prec(s, h[p], h[j])
      BY <2>3, <3>1 DEF Visible
    <3> QED
      BY <1>7, <3>2
  <2> QED
    BY <2>1, <2>2, <2>3 DEF Visible
<1>13. \A i \in DOMAIN items : f[i] \in DOMAIN u /\ g[i] = h[f[i]] /\ f[i] \in Visible(u)
                               /\ items[i] = ItemOf(u[f[i]])
  BY <1>11 DEF Shows
<1>14. g \in [DOMAIN items -> DOMAIN s]
  BY <1>4, <1>13
<1> HIDE DEF g
<1>15. \A i \in DOMAIN items : g[i] \in Read(s, W) /\ items[i] = ItemOf(s[g[i]])
  BY <1>4, <1>12, <1>13 DEF Read
<1>16. \A i, j \in DOMAIN items : i < j => Prec(s, g[i], g[j])
  <2> SUFFICES ASSUME NEW i \in DOMAIN items, NEW j \in DOMAIN items, i < j PROVE Prec(s, g[i], g[j])
    OBVIOUS
  <2>1. Prec(u, f[i], f[j])
    BY <1>11 DEF Shows
  <2> QED
    BY <1>7, <1>13, <2>1
<1>17. \A p \in Read(s, W) : \E i \in DOMAIN items : g[i] = p
  <2> SUFFICES ASSUME NEW p \in Read(s, W) PROVE \E i \in DOMAIN items : g[i] = p
    OBVIOUS
  <2>1. p \in DOMAIN s /\ p \in Visible(s) /\ s[p] \notin W
    BY DEF Read, Visible
  <2>2. PICK k \in DOMAIN u : h[k] = p
    BY <1>4, <2>1
  <2>3. k \in Visible(u)
    BY <1>12, <2>1, <2>2
  <2>4. PICK i \in DOMAIN items : f[i] = k
    BY <1>11, <2>3 DEF Shows
  <2> QED
    BY <1>13, <2>2, <2>4
<1>18. Shows(items, s, g, Read(s, W))
  BY <1>14, <1>15, <1>16, <1>17 DEF Shows
<1> QED
  BY <1>18 DEF items, u

(* A run has called for a result that has not come: nothing but events of  *)
(* W comes behind its turn.                                                *)
AskedIn(s, r, W) ==
  \E j \in DOMAIN s :
    /\ s[j].kind = "turn" /\ s[j].run = r
    /\ \A k \in DOMAIN s : j < k /\ s[k].run = r => s[k] \in W

(* An event more: a result only where it was called for. *)
LEMMA AnsweredPut ==
  ASSUME NEW s \in Seq(Event), NEW e \in Event, NEW W, NEW V, Answered(s, W),
         \A x \in ToSet(s) : x \in W => x \in V,
         e.kind = "tool_result" => AskedIn(s, e.run, W)
  PROVE  Answered(Append(s, e), V)
<1> DEFINE t == Append(s, e)
           z == Len(s) + 1
<1>1. /\ DOMAIN t = DOMAIN s \cup {z} /\ t[z] = e
      /\ \A i \in DOMAIN s : t[i] = s[i] /\ i < z /\ i \in Nat /\ s[i] \in ToSet(s)
  BY OneMore DEF ToSet
<1> HIDE DEF t, z
<1>z. z \in Nat
  BY DEF z
<1>2. \A i \in DOMAIN s : ~(z < i)
  BY <1>1, <1>z
<1> SUFFICES ASSUME NEW p \in DOMAIN t, t[p].kind = "tool_result"
             PROVE  \E j \in DOMAIN t :
                      /\ j < p /\ t[j].kind = "turn" /\ t[j].run = t[p].run
                      /\ \A k \in DOMAIN t : j < k /\ k < p /\ t[k].run = t[p].run => t[k] \in V
  BY DEF Answered, t
<1>3. CASE p \in DOMAIN s
  <2>1. PICK j \in DOMAIN s :
          /\ j < p /\ s[j].kind = "turn" /\ s[j].run = s[p].run
          /\ \A k \in DOMAIN s : j < k /\ k < p /\ s[k].run = s[p].run => s[k] \in W
    BY <1>1, <1>3 DEF Answered
  <2> QED
    BY <1>1, <1>2, <1>3, <2>1
<1>4. CASE p = z
  <2>1. PICK j \in DOMAIN s :
          /\ s[j].kind = "turn" /\ s[j].run = e.run
          /\ \A k \in DOMAIN s : j < k /\ s[k].run = e.run => s[k] \in W
    BY <1>1, <1>4 DEF AskedIn
  <2>2. ~(z < z)
    BY <1>z
  <2> QED
    BY <1>1, <1>4, <2>1, <2>2
<1> QED
  BY <1>1, <1>3, <1>4

(* A run that has called for a result still has, whatever others write. *)
LEMMA AskedPut ==
  ASSUME NEW s \in Seq(Event), NEW e \in Event, NEW W, NEW V, NEW r, AskedIn(s, r, W),
         \A x \in ToSet(s) : x \in W => x \in V, e.run = r => e \in V
  PROVE  AskedIn(Append(s, e), r, V)
<1> DEFINE t == Append(s, e)
           z == Len(s) + 1
<1>1. /\ DOMAIN t = DOMAIN s \cup {z} /\ t[z] = e
      /\ \A i \in DOMAIN s : t[i] = s[i] /\ s[i] \in ToSet(s)
  BY OneMore DEF ToSet
<1> HIDE DEF t, z
<1>2. PICK j \in DOMAIN s :
        /\ s[j].kind = "turn" /\ s[j].run = r
        /\ \A k \in DOMAIN s : j < k /\ s[k].run = r => s[k] \in W
  BY DEF AskedIn
<1>3. \A k \in DOMAIN t : j < k /\ t[k].run = r => t[k] \in V
  BY <1>1, <1>2
<1> QED
  BY <1>1, <1>2, <1>3 DEF AskedIn, t

(* A turn calls for a result. *)
LEMMA TurnAsks ==
  ASSUME NEW s \in Seq(Event), NEW e \in Event, NEW W, e.kind = "turn"
  PROVE  AskedIn(Append(s, e), e.run, W)
<1> DEFINE t == Append(s, e)
           z == Len(s) + 1
<1>1. DOMAIN t = DOMAIN s \cup {z} /\ t[z] = e /\ \A i \in DOMAIN s : i < z /\ i \in Nat
  BY OneMore
<1>z. z \in Nat
  OBVIOUS
<1> HIDE DEF t, z
<1>2. \A k \in DOMAIN t : ~(z < k)
  BY <1>1, <1>z
<1> QED
  BY <1>1, <1>2 DEF AskedIn, t

(* Messages that move behind the others come between nothing. *)
LEMMA AnsweredMoved ==
  ASSUME NEW s \in Seq(Event), NEW t \in Seq(Event), NEW h, NEW M, Rearranged(t, s, h, M),
         NEW W, NEW V, Answered(s, W), \A x \in M : x.kind = "user",
         \A x \in ToSet(s) : x \in W => x \in V \/ x \in M
  PROVE  Answered(t, V)
<1>1. /\ \A i \in DOMAIN t : h[i] \in DOMAIN s /\ t[i] = s[h[i]] /\ s[h[i]] \in ToSet(s) /\ i \in Nat
      /\ \A i \in DOMAIN s : i \in Nat
  BY DEF Rearranged, ToSet
<1>2. \A i, j \in DOMAIN t : i < j => \/ (t[i] \in M <=> t[j] \in M) /\ h[i] < h[j]
                                      \/ t[i] \notin M /\ t[j] \in M
  BY DEF Rearranged
<1> SUFFICES ASSUME NEW p \in DOMAIN t, t[p].kind = "tool_result"
             PROVE  \E j \in DOMAIN t :
                      /\ j < p /\ t[j].kind = "turn" /\ t[j].run = t[p].run
                      /\ \A k \in DOMAIN t : j < k /\ k < p /\ t[k].run = t[p].run => t[k] \in V
  BY DEF Answered
<1>3. PICK x \in DOMAIN s :
        /\ x < h[p] /\ s[x].kind = "turn" /\ s[x].run = s[h[p]].run
        /\ \A k \in DOMAIN s : x < k /\ k < h[p] /\ s[k].run = s[h[p]].run => s[k] \in W
  BY <1>1 DEF Answered
<1>4. PICK j \in DOMAIN t : h[j] = x
  BY DEF Rearranged
<1>5. t[j] \notin M /\ t[p] \notin M
  BY <1>1, <1>3, <1>4
<1>6. j < p
  <2>1. j # p /\ ~(h[p] < h[j])
    BY <1>1, <1>3, <1>4
  <2>2. ~(p < j)
    BY <1>2, <1>5, <2>1
  <2> QED
    BY <1>1, <2>1, <2>2
<1>7. \A k \in DOMAIN t : j < k /\ k < p /\ t[k].run = t[p].run => t[k] \in V
  <2> SUFFICES ASSUME NEW k \in DOMAIN t, j < k, k < p, t[k].run = t[p].run PROVE t[k] \in V
    OBVIOUS
  <2>1. t[k] \notin M /\ h[j] < h[k] /\ h[k] < h[p]
    BY <1>2, <1>5
  <2> QED
    BY <1>1, <1>3, <1>4, <2>1
<1> QED
  BY <1>1, <1>3, <1>4, <1>6, <1>7

(* Another run's messages that move change nothing for a run. *)
LEMMA AskedMoved ==
  ASSUME NEW s \in Seq(Event), NEW t \in Seq(Event), NEW h, NEW M, Rearranged(t, s, h, M),
         NEW W, NEW V, NEW r, AskedIn(s, r, W), \A x \in M : x.run # r,
         \A x \in ToSet(s) : x \in W /\ x.run = r => x \in V
  PROVE  AskedIn(t, r, V)
<1>1. /\ \A i \in DOMAIN t : h[i] \in DOMAIN s /\ t[i] = s[h[i]] /\ s[h[i]] \in ToSet(s)
      /\ \A i, j \in DOMAIN t : i < j /\ t[i].run = r /\ t[j].run = r => h[i] < h[j]
  BY DEF Rearranged, ToSet
<1>2. PICK x \in DOMAIN s :
        /\ s[x].kind = "turn" /\ s[x].run = r
        /\ \A k \in DOMAIN s : x < k /\ s[k].run = r => s[k] \in W
  BY DEF AskedIn
<1>3. PICK j \in DOMAIN t : h[j] = x
  BY DEF Rearranged
<1>4. t[j].kind = "turn" /\ t[j].run = r
  BY <1>1, <1>2, <1>3
<1>5. \A k \in DOMAIN t : j < k /\ t[k].run = r => t[k] \in V
  BY <1>1, <1>2, <1>3, <1>4
<1> QED
  BY <1>4, <1>5 DEF AskedIn

(* A log that keeps the places P of another, at b, and has one more that   *)
(* comes behind them, at y: its places Q.                                  *)
Extends(t, Q, s, P, b, y) ==
  /\ b \in [DOMAIN s -> DOMAIN t] /\ y \in DOMAIN t
  /\ \A p \in P : p \in DOMAIN s /\ t[b[p]] = s[p] /\ Prec(t, b[p], y)
  /\ \A p, q \in P : Prec(s, p, q) => Prec(t, b[p], b[q])
  /\ \A x \in DOMAIN t : x \in Q <=> x = y \/ \E p \in P : b[p] = x
  /\ Q \subseteq DOMAIN t

(* Items that show a log show it with one more behind. *)
LEMMA ShowsOneMore ==
  ASSUME NEW s \in Seq(Event), NEW t \in Seq(Event), NEW items \in Seq(Item), NEW it \in Item,
         NEW g, NEW P, Shows(items, s, g, P), NEW b, NEW y, NEW Q, Extends(t, Q, s, P, b, y),
         it = ItemOf(t[y])
  PROVE  \E k : Shows(Append(items, it), t, k, Q)
<1> DEFINE new == Append(items, it)
           z == Len(items) + 1
           k == [i \in DOMAIN new |-> IF i = z THEN y ELSE b[g[i]]]
<1>1. /\ new \in Seq(Item) /\ DOMAIN new = DOMAIN items \cup {z} /\ new[z] = it
      /\ \A i \in DOMAIN items : new[i] = items[i] /\ i < z /\ i \in Nat /\ i # z
      /\ z \in Nat
  <2>1. \A i \in 1..Len(items) : Append(items, it)[i] = items[i]
    OBVIOUS
  <2>2. Append(items, it) \in Seq(Item) /\ Len(Append(items, it)) = Len(items) + 1
        /\ Append(items, it)[Len(items) + 1] = it /\ Len(items) \in Nat
    OBVIOUS
  <2>3. DOMAIN items = 1..Len(items) /\ DOMAIN Append(items, it) = 1..Len(Append(items, it))
    BY <2>2
  <2>4. \A n \in Nat : 1..(n + 1) = 1..n \cup {n + 1} /\ \A i \in 1..n : i < n + 1 /\ i \in Nat /\ i # n + 1
    OBVIOUS
  <2> DEFINE n == Len(items)
  <2>5. n \in Nat /\ z = n + 1 /\ DOMAIN items = 1..n /\ DOMAIN new = 1..(n + 1)
    BY <2>2, <2>3
  <2>6. new \in Seq(Item) /\ new[z] = it /\ \A i \in DOMAIN items : new[i] = items[i]
    BY <2>1, <2>2, <2>3
  <2> HIDE DEF n, new, z
  <2>7. 1..(n + 1) = 1..n \cup {n + 1} /\ \A i \in 1..n : i < n + 1 /\ i \in Nat /\ i # n + 1
    BY <2>4, <2>5
  <2> QED
    BY <2>5, <2>6, <2>7
<1> HIDE DEF new, z
<1> USE DEF Extends
<1>2. \A i \in DOMAIN items : g[i] \in P /\ g[i] \in DOMAIN s /\ items[i] = ItemOf(s[g[i]])
  BY DEF Shows
<1>3. /\ k \in [DOMAIN new -> DOMAIN t] /\ k[z] = y
      /\ \A i \in DOMAIN items : k[i] = b[g[i]]
  BY <1>1, <1>2
<1> HIDE DEF k
<1>4. \A i \in DOMAIN new : k[i] \in Q /\ new[i] = ItemOf(t[k[i]])
  <2> SUFFICES ASSUME NEW i \in DOMAIN new PROVE k[i] \in Q /\ new[i] = ItemOf(t[k[i]])
    OBVIOUS
  <2>1. CASE i = z
    BY <1>1, <1>3, <2>1
  <2>2. CASE i \in DOMAIN items
    <3>1. /\ g[i] \in P /\ g[i] \in DOMAIN s /\ items[i] = ItemOf(s[g[i]])
          /\ new[i] = items[i] /\ k[i] = b[g[i]]
      BY <1>1, <1>2, <1>3, <2>2
    <3>2. t[k[i]] = s[g[i]] /\ k[i] \in DOMAIN t
      BY <3>1
    <3> QED
      BY <3>1, <3>2
  <2> QED
    BY <1>1, <2>1, <2>2
<1>5. \A i, j \in DOMAIN new : i < j => Prec(t, k[i], k[j])
  <2> SUFFICES ASSUME NEW i \in DOMAIN new, NEW j \in DOMAIN new, i < j PROVE Prec(t, k[i], k[j])
    OBVIOUS
  <2>1. i \in DOMAIN items
    BY <1>1
  <2>2. CASE j = z
    BY <1>2, <1>3, <2>1, <2>2
  <2>3. CASE j \in DOMAIN items
    <3>1. Prec(s, g[i], g[j])
      BY <2>1, <2>3 DEF Shows
    <3> QED
      BY <1>2, <1>3, <2>1, <2>3, <3>1
  <2> QED
    BY <1>1, <2>2, <2>3
<1>6. \A x \in Q : \E i \in DOMAIN new : k[i] = x
  <2> SUFFICES ASSUME NEW x \in Q PROVE \E i \in DOMAIN new : k[i] = x
    OBVIOUS
  <2>1. CASE x = y
    BY <1>1, <1>3, <2>1
  <2>2. ASSUME NEW p \in P, b[p] = x PROVE \E i \in DOMAIN new : k[i] = x
    <3>1. PICK i \in DOMAIN items : g[i] = p
      BY DEF Shows
    <3> QED
      BY <1>1, <1>3, <2>2, <3>1
  <2> QED
    BY <2>1, <2>2
<1>7. Shows(new, t, k, Q)
  BY <1>3, <1>4, <1>5, <1>6 DEF Shows
<1> QED
  BY <1>7 DEF new

(* What a reader sees of a log with one event more. *)
LEMMA PutReads ==
  ASSUME NEW s \in Seq(Event), NEW e \in Event, e.kind # "context_cleared",
         NEW W, NEW V, \A x \in ToSet(s) : x \in W <=> x \in V
  PROVE  /\ \A p, q \in DOMAIN s : Prec(Append(s, e), p, q) <=> Prec(s, p, q)
         /\ e \in V \/ e.kind \notin Shown => Read(Append(s, e), V) = Read(s, W)
         /\ (\A x \in ToSet(s) : x.run <= e.run) =>
              /\ \A p \in DOMAIN s : Prec(Append(s, e), p, Len(s) + 1)
              /\ e \notin V /\ e.kind \in Shown => Read(Append(s, e), V) = Read(s, W) \cup {Len(s) + 1}
<1> DEFINE t == Append(s, e)
           z == Len(s) + 1
<1>1. /\ DOMAIN t = DOMAIN s \cup {z} /\ t[z] = e /\ z \notin DOMAIN s
      /\ \A i \in DOMAIN s : t[i] = s[i] /\ i < z /\ i \in Nat /\ s[i] \in ToSet(s) /\ s[i].run \in Nat
      /\ e.run \in Nat /\ z \in Nat
  <2>1. \A i \in DOMAIN s : s[i] \in Event /\ s[i] \in ToSet(s)
    BY DEF ToSet
  <2>2. \A i \in DOMAIN s : i < z
    OBVIOUS
  <2> QED
    BY <2>1, <2>2, OneMore DEF Event
<1> HIDE DEF t, z
<1>2. \A p, q \in DOMAIN s : Prec(t, p, q) <=> Prec(s, p, q)
  BY <1>1 DEF Prec
<1>3. \A p \in DOMAIN s : p \in Visible(t) <=> p \in Visible(s)
  <2> SUFFICES ASSUME NEW p \in DOMAIN s PROVE p \in Visible(t) <=> p \in Visible(s)
    OBVIOUS
  <2>1. \A j \in DOMAIN t : t[j].kind = "context_cleared" => j \in DOMAIN s /\ s[j].kind = "context_cleared"
    BY <1>1
  <2>2. \A j \in DOMAIN s : s[j].kind = "context_cleared" => j \in DOMAIN t /\ t[j].kind = "context_cleared"
    BY <1>1
  <2>3. p \in DOMAIN t /\ t[p].kind = s[p].kind
    BY <1>1
  <2> QED
    BY <1>2, <2>1, <2>2, <2>3 DEF Visible
<1>4. \A p \in DOMAIN s : p \in Read(t, V) <=> p \in Read(s, W)
  BY <1>1, <1>3 DEF Read
<1>5. Read(s, W) \subseteq DOMAIN s /\ Read(t, V) \subseteq DOMAIN t
  BY DEF Read, Visible
<1>6. e \in V \/ e.kind \notin Shown => z \notin Read(t, V)
  BY <1>1 DEF Read, Visible
<1>7. ASSUME \A x \in ToSet(s) : x.run <= e.run PROVE \A p \in DOMAIN s : Prec(t, p, z)
  <2> SUFFICES ASSUME NEW p \in DOMAIN s PROVE Prec(t, p, z)
    OBVIOUS
  <2>1. s[p].run <= e.run /\ s[p].run \in Nat /\ e.run \in Nat /\ t[p] = s[p] /\ t[z] = e /\ p < z
    BY <1>1, <1>7
  <2> QED
    BY <2>1 DEF Prec
<1>8. ASSUME \A x \in ToSet(s) : x.run <= e.run, e \notin V, e.kind \in Shown PROVE z \in Read(t, V)
  <2>1. \A j \in DOMAIN t : t[j].kind = "context_cleared" => ~Prec(t, z, j)
    <3> SUFFICES ASSUME NEW j \in DOMAIN t, t[j].kind = "context_cleared", Prec(t, z, j) PROVE FALSE
      OBVIOUS
    <3>1. j \in DOMAIN s /\ t[j] = s[j] /\ j < z /\ j \in Nat /\ s[j].run <= e.run
          /\ s[j].run \in Nat /\ e.run \in Nat /\ t[z] = e /\ z \in Nat
      BY <1>1, <1>8
    <3> QED
      BY <3>1 DEF Prec
  <2> QED
    BY <1>1, <1>8, <2>1 DEF Read, Visible
<1>9. e \in V \/ e.kind \notin Shown => Read(t, V) = Read(s, W)
  BY <1>1, <1>4, <1>5, <1>6
<1>10. (\A x \in ToSet(s) : x.run <= e.run) /\ e \notin V /\ e.kind \in Shown
         => Read(t, V) = Read(s, W) \cup {z}
  BY <1>1, <1>4, <1>5, <1>8
<1> QED
  BY <1>2, <1>7, <1>9, <1>10 DEF t, z

(* An event that a reader does not see, or does not see yet. *)
LEMMA PutHides ==
  ASSUME NEW s \in Seq(Event), NEW e \in Event, e.kind # "context_cleared",
         NEW W, NEW V, \A x \in ToSet(s) : x \in W <=> x \in V, e \in V \/ e.kind \notin Shown,
         NEW items, NEW g, Shows(items, s, g, Read(s, W))
  PROVE  Shows(items, Append(s, e), g, Read(Append(s, e), V))
<1> DEFINE t == Append(s, e)
<1>1. /\ DOMAIN s \subseteq DOMAIN t /\ \A i \in DOMAIN s : t[i] = s[i]
  BY OneMore
<1> HIDE DEF t
<1>2. Read(t, V) = Read(s, W) /\ \A p, q \in DOMAIN s : Prec(t, p, q) <=> Prec(s, p, q)
  BY PutReads DEF t
<1>3. g \in [DOMAIN items -> DOMAIN s] /\ g \in [DOMAIN items -> DOMAIN t]
  BY <1>1 DEF Shows
<1> QED
  BY <1>1, <1>2, <1>3 DEF Shows, t

(* An event that a reader sees behind all others. *)
LEMMA PutShows ==
  ASSUME NEW s \in Seq(Event), NEW e \in Event, e.kind \in Shown,
         NEW W, NEW V, \A x \in ToSet(s) : x \in W <=> x \in V, e \notin V,
         \A x \in ToSet(s) : x.run <= e.run,
         NEW items \in Seq(Item), NEW g, Shows(items, s, g, Read(s, W))
  PROVE  \E k : Shows(Append(items, ItemOf(e)), Append(s, e), k, Read(Append(s, e), V))
<1> DEFINE t == Append(s, e)
           z == Len(s) + 1
           b == [p \in DOMAIN s |-> p]
<1>0. e.kind # "context_cleared"
  BY DEF Shown
<1>1. /\ t \in Seq(Event) /\ DOMAIN t = DOMAIN s \cup {z} /\ t[z] = e
      /\ \A i \in DOMAIN s : t[i] = s[i]
  BY OneMore
<1>2. /\ Read(t, V) = Read(s, W) \cup {z}
      /\ \A p, q \in DOMAIN s : Prec(t, p, q) <=> Prec(s, p, q)
      /\ \A p \in DOMAIN s : Prec(t, p, z)
  BY <1>0, PutReads
<1> HIDE DEF t, z
<1>3. Read(s, W) \subseteq DOMAIN s
  BY DEF Read, Visible
<1>4. b \in [DOMAIN s -> DOMAIN t] /\ \A p \in DOMAIN s : b[p] = p
  BY <1>1
<1> HIDE DEF b
<1>5. ItemOf(e) \in Item /\ ItemOf(e) = ItemOf(t[z]) /\ z \in DOMAIN t
  BY <1>1, ItemOfIs
<1>6. \A p \in Read(s, W) : p \in DOMAIN s /\ t[b[p]] = s[p] /\ Prec(t, b[p], z)
  BY <1>1, <1>2, <1>3, <1>4
<1>7. \A p, q \in Read(s, W) : Prec(s, p, q) => Prec(t, b[p], b[q])
  BY <1>2, <1>3, <1>4
<1>8. /\ Read(t, V) \subseteq DOMAIN t
      /\ \A x \in DOMAIN t : x \in Read(t, V) <=> x = z \/ \E p \in Read(s, W) : b[p] = x
  BY <1>1, <1>2, <1>3, <1>4
<1> DEFINE P == Read(s, W)
           Q == Read(t, V)
           it == ItemOf(e)
<1>9. Extends(t, Q, s, P, b, z)
  BY <1>4, <1>5, <1>6, <1>7, <1>8 DEF Extends
<1>10. Shows(items, s, g, P) /\ it \in Item /\ it = ItemOf(t[z])
  BY <1>5
<1> HIDE DEF P, Q, it
<1>11. \E k : Shows(Append(items, it), t, k, Q)
  BY <1>1, <1>9, <1>10, ShowsOneMore
<1> QED
  BY <1>11 DEF t, Q, it

(* At z is a message of the newest run, the one of M, that no longer waits. *)
HandsOn(s, z, M, W, V) ==
  /\ s[z].kind = "user" /\ s[z] \in W /\ s[z] \notin V
  /\ \A p \in DOMAIN s : s[p] \in M <=> p = z
  /\ \A x \in ToSet(s) : x.run <= s[z].run /\ (x \notin M => (x \in W <=> x \in V))

(* A message of the newest run that moves behind the others is seen behind *)
(* all of them.                                                            *)
LEMMA MoveExtends ==
  ASSUME NEW s \in Seq(Event), NEW t \in Seq(Event), NEW h, NEW M, Rearranged(t, s, h, M),
         NEW z \in DOMAIN s, NEW W, NEW V, HandsOn(s, z, M, W, V)
  PROVE  \E b : Extends(t, Read(t, V), s, Read(s, W), b, b[z]) /\ t[b[z]] = s[z]
<1> USE DEF HandsOn
<1>1. /\ \A i \in DOMAIN t : h[i] \in DOMAIN s /\ t[i] = s[h[i]] /\ i \in Nat
      /\ \A i, j \in DOMAIN t : i < j => \/ (t[i] \in M <=> t[j] \in M) /\ h[i] < h[j]
                                         \/ t[i] \notin M /\ t[j] \in M
      /\ \A p \in DOMAIN s : \E i \in DOMAIN t : h[i] = p
  BY DEF Rearranged
<1>2. \A p \in DOMAIN s : p \in Nat /\ s[p] \in ToSet(s) /\ s[p].run \in Nat
  <2>1. \A p \in DOMAIN s : p \in Nat /\ s[p] \in Event
    OBVIOUS
  <2> QED
    BY <2>1 DEF ToSet, Event
<1> DEFINE b == [p \in DOMAIN s |-> CHOOSE i \in DOMAIN t : h[i] = p]
<1>3. \A p \in DOMAIN s : b[p] \in DOMAIN t /\ h[b[p]] = p
  BY <1>1
<1>4. b \in [DOMAIN s -> DOMAIN t]
  BY <1>3
<1> HIDE DEF b
<1>5. \A p \in DOMAIN s : t[b[p]] = s[p] /\ b[p] \in Nat
  BY <1>1, <1>3
<1>6. \A i, j \in DOMAIN t : h[i] = h[j] => i = j
  <2> SUFFICES ASSUME NEW i \in DOMAIN t, NEW j \in DOMAIN t, h[i] = h[j] PROVE i = j
    OBVIOUS
  <2>1. t[i] = t[j] /\ ~(h[i] < h[j]) /\ ~(h[j] < h[i])
    BY <1>1, <1>2
  <2>2. ~(i < j) /\ ~(j < i)
    BY <1>1, <2>1
  <2> QED
    BY <1>1, <2>2
<1>7. \A i \in DOMAIN t : b[h[i]] = i
  <2> SUFFICES ASSUME NEW i \in DOMAIN t PROVE b[h[i]] = i
    OBVIOUS
  <2>1. h[i] \in DOMAIN s
    BY <1>1
  <2>2. b[h[i]] \in DOMAIN t /\ h[b[h[i]]] = h[i]
    BY <1>3, <2>1
  <2> QED
    BY <1>6, <2>2
<1>8. \A p \in DOMAIN s : p # z => b[p] < b[z]
  <2> SUFFICES ASSUME NEW p \in DOMAIN s, p # z PROVE b[p] < b[z]
    OBVIOUS
  <2>1. t[b[z]] \in M /\ t[b[p]] \notin M /\ b[p] # b[z]
    BY <1>3, <1>5
  <2>2. ~(b[z] < b[p])
    BY <1>1, <1>3, <2>1
  <2> QED
    BY <1>5, <2>1, <2>2
<1>9. \A p, q \in DOMAIN s : p # z /\ q # z => (b[p] < b[q] <=> p < q)
  <2> SUFFICES ASSUME NEW p \in DOMAIN s, NEW q \in DOMAIN s, p # z, q # z
               PROVE  b[p] < b[q] <=> p < q
    OBVIOUS
  <2>1. t[b[p]] \notin M /\ t[b[q]] \notin M
    BY <1>5
  <2>a. b[p] \in DOMAIN t /\ b[q] \in DOMAIN t /\ h[b[p]] = p /\ h[b[q]] = q
    BY <1>3
  <2>b. (b[p] < b[q] => h[b[p]] < h[b[q]]) /\ (b[q] < b[p] => h[b[q]] < h[b[p]])
    BY <1>1, <2>1, <2>a
  <2>2. (b[p] < b[q] => p < q) /\ (b[q] < b[p] => q < p)
    BY <2>a, <2>b
  <2>3. p # q => b[p] # b[q]
    BY <1>3
  <2> QED
    BY <1>2, <1>5, <2>2, <2>3
<1>10. \A p, q \in DOMAIN s : p # z /\ q # z => (Prec(t, b[p], b[q]) <=> Prec(s, p, q))
  BY <1>5, <1>9 DEF Prec
<1>11. \A p \in DOMAIN s : p # z => Prec(t, b[p], b[z]) /\ ~Prec(t, b[z], b[p])
  <2> SUFFICES ASSUME NEW p \in DOMAIN s, p # z
               PROVE  Prec(t, b[p], b[z]) /\ ~Prec(t, b[z], b[p])
    OBVIOUS
  <2>1. /\ b[p] < b[z] /\ b[p] \in Nat /\ b[z] \in Nat /\ t[b[p]] = s[p] /\ t[b[z]] = s[z]
        /\ s[p].run <= s[z].run /\ s[p].run \in Nat /\ s[z].run \in Nat
    BY <1>2, <1>5, <1>8
  <2> QED
    BY <2>1 DEF Prec
<1>12. \A p \in DOMAIN s : s[p].kind = "context_cleared" => p # z
  OBVIOUS
<1>13. \A i \in DOMAIN t : t[i].kind = "context_cleared" =>
         \E p \in DOMAIN s : b[p] = i /\ s[p].kind = "context_cleared" /\ p # z
  <2> SUFFICES ASSUME NEW i \in DOMAIN t, t[i].kind = "context_cleared"
               PROVE  \E p \in DOMAIN s : b[p] = i /\ s[p].kind = "context_cleared" /\ p # z
    OBVIOUS
  <2>1. h[i] \in DOMAIN s /\ b[h[i]] = i /\ s[h[i]].kind = "context_cleared"
    BY <1>1, <1>7
  <2> QED
    BY <1>12, <2>1
<1>14. \A p \in DOMAIN s : p # z => (b[p] \in Visible(t) <=> p \in Visible(s))
  <2> SUFFICES ASSUME NEW p \in DOMAIN s, p # z PROVE b[p] \in Visible(t) <=> p \in Visible(s)
    OBVIOUS
  <2>1. b[p] \in DOMAIN t /\ t[b[p]] = s[p]
    BY <1>3, <1>5
  <2>2. ASSUME b[p] \in Visible(t), NEW x \in DOMAIN s, s[x].kind = "context_cleared"
        PROVE  ~Prec(s, p, x)
    <3>1. b[x] \in DOMAIN t /\ t[b[x]].kind = "context_cleared" /\ x # z
      BY <1>3, <1>5, <1>12, <2>2
    <3>2. ~Prec(t, b[p], b[x])
      BY <2>2, <3>1 DEF Visible
    <3> QED
      BY <1>10, <2>2, <3>1, <3>2
  <2>3. ASSUME p \in Visible(s), NEW i \in DOMAIN t, t[i].kind = "context_cleared"
        PROVE  ~Prec(t, b[p], i)
    <3>1. PICK x \in DOMAIN s : b[x] = i /\ s[x].kind = "context_cleared" /\ x # z
      BY <1>13, <2>3
    <3>2. ~Prec(s, p, x)
      BY <2>3, <3>1 DEF Visible
    <3> QED
      BY <1>10, <3>1, <3>2
  <2> QED
    BY <2>1, <2>2, <2>3 DEF Visible
<1>15. b[z] \in Visible(t)
  <2>1. \A i \in DOMAIN t : t[i].kind = "context_cleared" => ~Prec(t, b[z], i)
    BY <1>11, <1>13
  <2>2. t[b[z]].kind \in Shown /\ b[z] \in DOMAIN t
    BY <1>3, <1>5 DEF Shown
  <2> QED
    BY <2>1, <2>2 DEF Visible
<1>16. Read(s, W) \subseteq DOMAIN s \ {z} /\ Read(t, V) \subseteq DOMAIN t
  BY DEF Read, Visible
<1>17. \A p \in DOMAIN s : p # z => (b[p] \in Read(t, V) <=> p \in Read(s, W))
  BY <1>2, <1>5, <1>14 DEF Read
<1>18. b[z] \in Read(t, V)
  BY <1>5, <1>15 DEF Read
<1>19. \A x \in DOMAIN t : x \in Read(t, V) <=> x = b[z] \/ \E p \in Read(s, W) : b[p] = x
  <2> SUFFICES ASSUME NEW x \in DOMAIN t
               PROVE  x \in Read(t, V) <=> x = b[z] \/ \E p \in Read(s, W) : b[p] = x
    OBVIOUS
  <2>1. h[x] \in DOMAIN s /\ b[h[x]] = x
    BY <1>1, <1>7
  <2> QED
    BY <1>16, <1>17, <1>18, <2>1
<1>20. \A p \in Read(s, W) : p \in DOMAIN s /\ t[b[p]] = s[p] /\ Prec(t, b[p], b[z])
  BY <1>5, <1>11, <1>16
<1>21. \A p, q \in Read(s, W) : Prec(s, p, q) => Prec(t, b[p], b[q])
  BY <1>10, <1>16
<1>22. Extends(t, Read(t, V), s, Read(s, W), b, b[z])
  BY <1>3, <1>4, <1>16, <1>19, <1>20, <1>21 DEF Extends
<1> QED
  BY <1>5, <1>22

(* Items that show the log show it with the message that moves. *)
LEMMA MoveShows ==
  ASSUME NEW s \in Seq(Event), NEW t \in Seq(Event), NEW h, NEW M, Rearranged(t, s, h, M),
         NEW z \in DOMAIN s, NEW W, NEW V, HandsOn(s, z, M, W, V),
         NEW items \in Seq(Item), NEW g, Shows(items, s, g, Read(s, W))
  PROVE  \E k : Shows(Append(items, ItemOf(s[z])), t, k, Read(t, V))
<1>1. \E b : Extends(t, Read(t, V), s, Read(s, W), b, b[z]) /\ t[b[z]] = s[z]
  BY MoveExtends
<1>2. PICK b : Extends(t, Read(t, V), s, Read(s, W), b, b[z]) /\ t[b[z]] = s[z]
  BY <1>1
<1> DEFINE it == ItemOf(s[z])
<1>3. it \in Item /\ it = ItemOf(t[b[z]])
  BY <1>2, ItemOfIs DEF Shown, HandsOn
<1> HIDE DEF it
<1>4. \E k : Shows(Append(items, it), t, k, Read(t, V))
  BY <1>2, <1>3, ShowsOneMore
<1> QED
  BY <1>4 DEF it

-----------------------------------------------------------------------------
(* Where, besides, nothing is summed up: the model is sent the log itself. *)

Unsummed == Undisturbed /\ {"auto", "overflow"} \cap Features = {}

NoSums ==
  /\ \A r \in Runs : pc[r] \notin {"anchor", "summary"}
  /\ \A e \in EventsNow : e.kind # "compaction"

(* The messages in the log that still wait to be read. *)
Waiting == {e \in Event : e.kind = "user" /\ e.msg \in Unread(e.run)}

(* What a run has said so far: its history, with the reply it has written  *)
(* last, which the history gets only if the run goes on.                   *)
Text(r) == IF pc[r] = "close" THEN Append(hist[r], AssistantItem(r)) ELSE hist[r]

AtTool == {"tool", "toolWait", "toolBack"}

(* A goroutine says something: its event goes to the end of the log and    *)
(* the item to the end of its text.                                        *)
Says(r) ==
  /\ pc[r] \in {"stream", "tool", "toolBack"} /\ UNCHANGED <<inbox, taken>>
  /\ \E e \in Event :
       /\ e.run = r /\ e.kind \in Shown \ {"user"} /\ Puts(req[r].chat, e)
       /\ Text(r)' = Append(Text(r), ItemOf(e))
       /\ e.kind = "tool_result" => pc[r] \in AtTool
       /\ pc'[r] \in AtTool => e.kind = "turn"

(* It says that it is over. *)
Dones(r) ==
  /\ pc[r] = "emitDone" /\ pc'[r] = "exit" /\ UNCHANGED <<inbox, taken, hist>>
  /\ \E e \in Event : e.run = r /\ e.kind = "done" /\ Puts(req[r].chat, e)

(* It says nothing, and what it has said stays. *)
Quietly(r) ==
  /\ log' = log /\ pc[r] \notin {"none", "begin"} /\ Unread(r)' = Unread(r)
  /\ r \in live' => Text(r)' = Text(r)
  /\ pc'[r] \in AtTool => pc[r] \in AtTool

(* An event that a goroutine emits, undisturbed. *)
LEMMA EmitPuts ==
  ASSUME Before, NEW r \in Runs, pc[r] # "none", NEW kind \in Kinds, Emit(r, kind)
  PROVE  \E e \in Event : e.run = r /\ e.kind = kind /\ Puts(req[r].chat, e)
<1>1. LogTyped /\ row[r] \notin {"none", "gone"} /\ req[r].chat \in Chats
  BY DEF Before, LogInv, DataInv, DataTypeOK, LogTyped, OfChat, Outcome, Rowless, Calm
<1>2. NoEvent \in EventIds
  BY DEF NoEvent, EventIds
<1>3. Writes(r, kind, NoMsg)
  BY <1>1, <1>2, WrittenIs DEF Emit
<1> QED
  BY <1>1, <1>3 DEF Writes, Puts

(* What a goroutine does where nothing is summed up. *)
LEMMA WorkSays ==
  ASSUME Unsummed, Before, NoSums, NEW r \in Runs, Work(r), ~Open(r), ~DrainMove(r)
  PROVE  Says(r) \/ Dones(r) \/ Quietly(r)
<1> USE DEF dbVars, appVars, runVars, histVars, Goto, Finish
<1>t. /\ inbox \in [Runs -> Seq(Msgs)] /\ taken \in [Runs -> Seq(Msgs)] /\ pc \in [Runs -> PCs]
      /\ hist \in [Runs -> Seq(Item)] /\ hist[r] \in Seq(Item) /\ live \subseteq Runs
      /\ pc[r] \notin {"anchor", "summary", "fold", "erred", "stopped"}
      /\ ~Has("error") /\ ~Has("auto") /\ ~Has("overflow") /\ req[r].kind # "compact" /\ cancelled = {}
  BY DEF Before, Inv, ControlTypeOK, LogInv, DataInv, DataTypeOK, Calm, Unasked, NoSums, Has,
         Unsummed, Undisturbed
<1>k. {"assistant", "turn", "tool_result", "done"} \subseteq Kinds
      /\ {"assistant", "turn", "tool_result"} \subseteq Shown \ {"user"}
  BY DEF Kinds, Shown
<1>n. ~(NoModel(r) \/ OpenCompact(r) \/ Fold(r) \/ CompactFailed(r) \/ StreamFailed(r) \/ Erred(r)
        \/ SayStopped(r) \/ CompactAnchor(r) \/ CompactDone(r) \/ Overflow(r))
  BY <1>t DEF NoModel, OpenCompact, Fold, CompactFailed, StreamFailed, Erred, SayStopped,
              CompactAnchor, CompactDone, Overflow
<1>q. ASSUME log' = log, pc[r] \notin {"none", "begin", "close"}, UNCHANGED <<inbox, taken, hist>>,
             pc'[r] # "close", pc'[r] \in AtTool => pc[r] \in AtTool
      PROVE  Quietly(r)
  BY <1>q DEF Quietly, Text, Unread
<1>1. CASE DrainTake(r)
  <2>1. /\ log' = log /\ pc[r] = "drain" /\ hist' = hist /\ pc'[r] = "move"
        /\ taken'[r] = inbox[r] /\ inbox'[r] = << >> /\ taken[r] = << >>
    BY <1>1, <1>t DEF DrainTake, Before, TakenOnMove
  <2>2. Unread(r)' = Unread(r)
    BY <2>1 DEF Unread, ToSet
  <2> QED
    BY <2>1, <2>2 DEF Quietly, Text, AtTool
<1>2. CASE Drained(r) \/ Check(r) \/ TurnOpen(r) \/ Commit(r)
  <2>1. /\ log' = log /\ UNCHANGED <<inbox, taken, hist>> /\ pc[r] \in {"move", "check", "turn", "stream"}
        /\ pc'[r] \in {"check", "turn", "stream", "stopped"}
    BY <1>2, <1>t DEF Drained, Check, TurnOpen, Commit
  <2> QED
    BY <1>q, <2>1 DEF AtTool
<1>3. CASE Reply(r)
  <2>1. CASE Emit(r, "assistant") /\ Goto(r, "close")
    <3>1. PICK e \in Event : e.run = r /\ e.kind = "assistant" /\ Puts(req[r].chat, e)
      BY <1>3, <1>k, <2>1, EmitPuts DEF Reply
    <3>2. pc[r] = "stream" /\ pc'[r] = "close" /\ UNCHANGED <<inbox, taken, hist>>
      BY <1>3, <1>t, <2>1 DEF Reply
    <3>3. ItemOf(e) = AssistantItem(r)
      BY <3>1 DEF ItemOf
    <3>4. Text(r)' = Append(Text(r), ItemOf(e))
      BY <3>2, <3>3 DEF Text
    <3> QED
      BY <1>k, <3>1, <3>2, <3>4 DEF Says, AtTool
  <2>2. CASE UNCHANGED log /\ Goto(r, "closeMute")
    <3>1. pc[r] = "stream" /\ pc'[r] = "closeMute" /\ UNCHANGED <<inbox, taken, hist>>
      BY <1>3, <1>t, <2>2 DEF Reply
    <3> QED
      BY <1>q, <2>2, <3>1 DEF AtTool
  <2> QED
    BY <1>3, <2>1, <2>2 DEF Reply
<1>4. CASE Close(r)
  <2>1. log' = log /\ UNCHANGED <<inbox, taken>> /\ pc[r] \in {"close", "closeMute"}
    BY <1>4 DEF Close
  <2>2. Unread(r)' = Unread(r)
    BY <2>1 DEF Unread
  <2>3. CASE CloseInbox(r) /\ UNCHANGED hist
    <3>1. r \notin live' /\ pc'[r] = "setStatus"
      BY <1>t, <2>3 DEF CloseInbox
    <3> QED
      BY <2>1, <2>2, <3>1 DEF Quietly, AtTool
  <2>4. CASE /\ hist' = IF pc[r] = "close"
                        THEN [hist EXCEPT ![r] = Append(@, AssistantItem(r))] ELSE hist
             /\ Goto(r, "drain")
    <3>1. pc'[r] = "drain"
      BY <1>t, <2>4
    <3>2. Text(r)' = Text(r)
      BY <1>t, <2>4, <3>1 DEF Text
    <3> QED
      BY <2>1, <2>2, <3>1, <3>2 DEF Quietly, AtTool
  <2> QED
    BY <1>4, <2>3, <2>4 DEF Close
<1>5. CASE ToolTurn(r)
  <2>1. PICK e \in Event : e.run = r /\ e.kind = "turn" /\ Puts(req[r].chat, e)
    BY <1>5, <1>k, EmitPuts DEF ToolTurn
  <2>2. /\ pc[r] = "stream" /\ pc'[r] = "tool" /\ UNCHANGED <<inbox, taken>>
        /\ hist'[r] = Append(hist[r], TurnItem(r))
    BY <1>5, <1>t DEF ToolTurn
  <2>3. ItemOf(e) = TurnItem(r)
    BY <2>1 DEF ItemOf
  <2>4. Text(r)' = Append(Text(r), ItemOf(e))
    BY <2>2, <2>3 DEF Text
  <2> QED
    BY <1>k, <2>1, <2>2, <2>4 DEF Says, AtTool
<1>6. CASE ToolTalks(r) \/ ToolAsks(r)
  <2>1. /\ log' = log /\ UNCHANGED <<inbox, taken, hist>> /\ pc[r] = "tool"
        /\ pc'[r] \in {"toolWait", "toolBack"}
    BY <1>6, <1>t DEF ToolTalks, ToolAsks
  <2> QED
    BY <1>q, <2>1 DEF AtTool
<1>7. CASE ToolReturn(r)
  <2>1. /\ pc[r] \in {"tool", "toolBack"} /\ pc'[r] = "toolEnd" /\ UNCHANGED <<inbox, taken>>
        /\ hist'[r] = Append(hist[r], ResultItem(r)) /\ Emit(r, "tool_result")
    BY <1>7, <1>t DEF ToolReturn
  <2>2. PICK e \in Event : e.run = r /\ e.kind = "tool_result" /\ Puts(req[r].chat, e)
    BY <1>k, <2>1, EmitPuts
  <2>3. ItemOf(e) = ResultItem(r)
    BY <2>2 DEF ItemOf
  <2>4. Text(r)' = Append(Text(r), ItemOf(e))
    BY <2>1, <2>3 DEF Text
  <2> QED
    BY <1>k, <2>1, <2>2, <2>4 DEF Says, AtTool
<1>8. CASE TurnEnd(r)
  <2>1. /\ log' = log /\ UNCHANGED <<inbox, taken, hist>> /\ pc[r] = "toolEnd"
        /\ pc'[r] \in {"setStatus", "drain"}
    BY <1>8, <1>t DEF TurnEnd, CloseInbox
  <2> QED
    BY <1>q, <2>1 DEF AtTool
<1>9. CASE SetStatus(r) \/ Untrack(r)
  <2>1. /\ log' = log /\ UNCHANGED <<inbox, taken, hist>> /\ pc[r] \in {"setStatus", "untrack"}
        /\ pc'[r] \in {"untrack", "emitDone"}
    BY <1>9, <1>t DEF SetStatus, Untrack
  <2> QED
    BY <1>q, <2>1 DEF AtTool
<1>10. CASE EmitDone(r)
  <2>1. pc[r] = "emitDone" /\ pc'[r] = "exit" /\ UNCHANGED <<inbox, taken, hist>> /\ Emit(r, "done")
    BY <1>10, <1>t DEF EmitDone
  <2>2. \E e \in Event : e.run = r /\ e.kind = "done" /\ Puts(req[r].chat, e)
    BY <1>k, <2>1, EmitPuts
  <2> QED
    BY <2>1, <2>2 DEF Dones
<1>11. CASE Exit(r)
  <2>1. /\ log' = log /\ UNCHANGED <<inbox, taken>> /\ pc[r] = "exit" /\ pc'[r] = "over" /\ r \notin live'
    BY <1>11, <1>t DEF Exit
  <2> QED
    BY <2>1 DEF Quietly, AtTool, Unread
<1> QED
  BY <1>n, <1>1, <1>2, <1>3, <1>4, <1>5, <1>6, <1>7, <1>8, <1>9, <1>10, <1>11 DEF Work

(* A goroutine is not sent to sum up. *)
LEMMA WorkNoSums ==
  ASSUME Unsummed, Before, NoSums, NEW r \in Runs, Work(r)
  PROVE  pc'[r] \notin {"anchor", "summary"}
<1> USE DEF dbVars, appVars, runVars, histVars, Goto, Finish
<1>t. /\ pc \in [Runs -> PCs] /\ cancelled = {}
      /\ pc[r] \notin {"anchor", "summary", "fold", "erred", "stopped"}
      /\ ~Has("error") /\ ~Has("auto") /\ ~Has("overflow") /\ req[r].kind # "compact"
  BY DEF Before, Inv, ControlTypeOK, Calm, Unasked, NoSums, Has, Unsummed, Undisturbed
<1>1. CASE NoModel(r) \/ OpenCompact(r) \/ Fold(r) \/ CompactFailed(r) \/ StreamFailed(r) \/ Erred(r)
           \/ SayStopped(r) \/ CompactAnchor(r) \/ CompactDone(r) \/ Overflow(r)
  BY <1>1, <1>t DEF NoModel, OpenCompact, Fold, CompactFailed, StreamFailed, Erred, SayStopped,
                    CompactAnchor, CompactDone, Overflow
<1>2. CASE Open(r) \/ DrainTake(r) \/ DrainMove(r) \/ Drained(r) \/ Check(r)
  BY <1>2, <1>t DEF Open, DrainTake, DrainMove, Drained, Check
<1>3. CASE TurnOpen(r) \/ Commit(r) \/ Reply(r)
  BY <1>3, <1>t DEF TurnOpen, Commit, Reply
<1>4. CASE Close(r) \/ TurnEnd(r)
  <2>1. pc' = [pc EXCEPT ![r] = "setStatus"] \/ pc' = [pc EXCEPT ![r] = "drain"]
    BY <1>4 DEF Close, TurnEnd, CloseInbox
  <2> QED
    BY <2>1, <1>t
<1>5. CASE ToolTurn(r) \/ ToolTalks(r) \/ ToolAsks(r) \/ ToolReturn(r)
  BY <1>5, <1>t DEF ToolTurn, ToolTalks, ToolAsks, ToolReturn
<1>6. CASE SetStatus(r) \/ Untrack(r) \/ EmitDone(r) \/ Exit(r)
  BY <1>6, <1>t DEF SetStatus, Untrack, EmitDone, Exit
<1> QED
  BY <1>1, <1>2, <1>3, <1>4, <1>5, <1>6 DEF Work

(* Nothing is summed up, and no compaction is in the log. *)
LEMMA NoSumsKept ==
  ASSUME Unsummed, Before, NoSums, [Next]_vars
  PROVE  NoSums'
<1>1. ~Restart
  BY NoRestart DEF Unsummed
<1>2. \A q \in Runs : pc'[q] \notin {"anchor", "summary"}
  <2>1. ASSUME NEW r \in Runs, Work(r) PROVE \A q \in Runs : pc'[q] \notin {"anchor", "summary"}
    BY <2>1, WorkNoSums, WorkOwnStage DEF NoSums, Before
  <2>2. CASE Standing
    BY <2>2 DEF Standing, NoSums
  <2> QED
    BY <1>1, <2>1, <2>2, OthersStand DEF Before
<1>3. \A e \in EventsNow' : e.kind # "compaction"
  <2> SUFFICES ASSUME NEW e \in EventsNow' PROVE e.kind # "compaction"
    OBVIOUS
  <2>1. e \in EventsNow \/ By(e)
    BY NewMessages DEF Before
  <2>2. EventsNow' \subseteq Event
    BY NewMessages DEF Before
  <2>3. e.run \in Runs
    BY <2>2 DEF Event
  <2>4. ASSUME e.kind \in Speaks(pc[e.run]) PROVE e.kind # "compaction"
    BY <2>3, <2>4 DEF Speaks, NoSums
  <2> QED
    BY <2>1, <2>4 DEF By, NoSums
<1> QED
  BY <1>2, <1>3 DEF NoSums

(* What holds of requests, the lock's holder and tools that wait for it:   *)
(* nothing of a run that has opened but what waits for it.                 *)
LEMMA StandingIs ==
  ASSUME Before, [Next]_vars, Standing, NEW q \in Runs, pc'[q] \notin {"none", "begin"}
  PROVE  /\ pc[q] \notin {"none", "begin"} /\ (q \in live' => q \in live)
         /\ Text(q)' = Text(q) /\ (pc'[q] \in AtTool => pc[q] \in AtTool)
<1>1. StartTrack /\ q = conv.run => pc[q] = "none"
  BY DEF Before, PlaceInv, Found, StartTrack
<1>2. StartTrack /\ q = conv.run => pc'[q] = "begin" \/ pc'[q] = "none" \/ pc'[q] = pc[q]
      \/ pc[q] = "toolWait"
  BY DEF Standing
<1>3. pc'[q] = pc[q] \/ (pc[q] = "toolWait" /\ pc'[q] = "toolBack")
  BY DEF Standing
<1>4. q \in live' => q \in live
  BY <1>1, <1>3 DEF Standing
<1>5. hist' = hist
  BY DEF Standing
<1> QED
  BY <1>3, <1>4, <1>5 DEF Text, AtTool

(* What an undisturbed step is to the log and to what waits. *)
LEMMA StepSays ==
  ASSUME Unsummed, Before, NoSums, [Next]_vars
  PROVE  \/ \E r \in Runs : Open(r)
         \/ \E r \in Runs : DrainMove(r)
         \/ \E r \in Runs : Work(r) /\ (Says(r) \/ Dones(r) \/ Quietly(r))
         \/ Standing /\ InjectPush
         \/ Standing /\ \E c \in Chats, r \in Runs : Clear(c, r)
         \/ Standing /\ UNCHANGED <<log, inbox, taken>>
<1>1. Undisturbed /\ ~Restart
  BY NoRestart DEF Unsummed
<1>2. ASSUME ~\E r \in Runs : Work(r) PROVE Standing
  BY <1>1, <1>2, OthersStand DEF Before
<1>3. ASSUME ~\E r \in Runs : Work(r), ~InjectPush, ~\E c \in Chats, r \in Runs : Clear(c, r)
      PROVE  UNCHANGED <<log, inbox, taken>>
  <2>1. ASSUME NEW r \in Runs, StartCreate(r) PROVE UNCHANGED <<log, inbox, taken>>
    BY <2>1 DEF StartCreate, runVars
  <2>2. Asks \/ Rests => UNCHANGED <<log, inbox, taken>>
    BY DEF Asks, Rests
  <2> QED
    BY <1>1, <1>3, <2>1, <2>2, CalmOthers DEF Before
<1> QED
  BY <1>2, <1>3, WorkSays

(* What waited still does, and nothing more, but where a run is handed a   *)
(* message, opens or drains.                                               *)
LEMMA WaitingStays ==
  ASSUME Unsummed, Before, NEW x \in Event, Unread(x.run)' = Unread(x.run)
  PROVE  x \in Waiting' <=> x \in Waiting
BY DEF Waiting

(* A goroutine's step is its own run's. *)
LEMMA OthersWait ==
  ASSUME Before, NEW r \in Runs, Work(r), NEW q \in Runs, q # r
  PROVE  /\ Unread(q)' = Unread(q) /\ pc'[q] = pc[q] /\ Text(q)' = Text(q)
         /\ (q \in live' => q \in live)
<1>1. inbox'[q] = inbox[q] /\ taken'[q] = taken[q] /\ hist'[q] = hist[q]
  BY WorkOwnQueue DEF Before, LogInv
<1>2. pc'[q] = pc[q] /\ live' \subseteq live
  BY WorkOwnStage, WorkWorks DEF Before
<1> QED
  BY <1>1, <1>2 DEF Unread, Text

(* A push hands a run one message more, which no event had. *)
LEMMA PushWaits ==
  ASSUME Before, Dealt, InjectPush, NEW c \in Chats
  PROVE  /\ \A x \in ToSet(log[c]) : x \in Waiting' <=> x \in Waiting
         /\ conv.run \in Runs /\ req[conv.run].chat \in Chats
         /\ \E e \in Event : /\ e.run = conv.run /\ e.kind = "user" /\ e \in Waiting'
                             /\ Puts(req[conv.run].chat, e)
<1>0. conv.run \in Runs /\ conv.msg \in Msgs
  BY PushIsNewest
<1>q. PICK q \in Runs : q = conv.run
  BY <1>0
<1>m. PICK m \in Msgs : m = conv.msg
  BY <1>0
<1>1. /\ inbox \in [Runs -> Seq(Msgs)] /\ m \notin Handed(q)
  BY <1>q, <1>m, PushIsNewest DEF Before, Inv, ControlTypeOK
<1>2. inbox' = [inbox EXCEPT ![q] = Append(@, m)] /\ taken' = taken
  BY <1>q, <1>m DEF InjectPush
<1>3. Unread(q)' = Unread(q) \cup {m}
  <2>1. inbox'[q] = Append(inbox[q], m) /\ inbox[q] \in Seq(Msgs)
    BY <1>1, <1>2
  <2>2. ToSet(Append(inbox[q], m)) = ToSet(inbox[q]) \cup {m}
    <3> DEFINE MM == Msgs
    <3>1. inbox[q] \in Seq(MM) /\ m \in MM
      BY <2>1
    <3> HIDE DEF MM
    <3> QED
      BY <3>1, ElementsOf
  <2> QED
    BY <1>2, <2>1, <2>2 DEF Unread
<1>4. \A p \in Runs : p # q => Unread(p)' = Unread(p)
  BY <1>1, <1>2 DEF Unread
<1>5. ASSUME NEW x \in ToSet(log[c]) PROVE x \in Waiting' <=> x \in Waiting
  <2>1. x \in Event /\ x.run \in Runs /\ (x.kind = "user" => x.msg \in Handed(x.run))
    BY EventIs
  <2>2. x.kind = "user" => (x.msg \in Unread(x.run)' <=> x.msg \in Unread(x.run))
    BY <1>1, <1>3, <1>4, <2>1
  <2> QED
    BY <2>1, <2>2 DEF Waiting
<1>6. PICK e \in Event : e.run = q /\ e.kind = "user" /\ e.msg = m /\ Puts(req[q].chat, e)
  BY <1>q, <1>m, PushAdds DEF Adds, Puts
<1>7. e.msg \in Unread(e.run)'
  BY <1>3, <1>6
<1>8. e \in Waiting'
  BY <1>6, <1>7 DEF Waiting
<1> QED
  BY <1>q, <1>5, <1>6, <1>8, PushAdds

(* In every conversation a result comes right behind its turn, but for     *)
(* messages that wait; at a tool a run still calls for it; and a live run   *)
(* that has opened has said what the log shows, but for what waits.        *)
AnsweredAll == \A c \in Chats : Answered(log[c], Waiting)
AskedAll == \A r \in Runs : pc[r] \in AtTool => AskedIn(log[req[r].chat], r, Waiting)
ShowsLog(r) == \E g : Shows(Text(r), log[req[r].chat], g, Read(log[req[r].chat], Waiting))
Exact ==
  \A r \in Runs : r \in live /\ pc[r] \notin {"none", "begin"} => ShowsLog(r)

(* Nothing changes in a log, and no more waits. *)
LEMMA WaitsMore ==
  ASSUME NEW s \in Seq(Event), NEW W, NEW V
  PROVE  /\ Answered(s, W) /\ (\A x \in ToSet(s) : x \in W => x \in V) => Answered(s, V)
         /\ \A r : AskedIn(s, r, W) /\ (\A x \in ToSet(s) : x \in W => x \in V) => AskedIn(s, r, V)
         /\ (\A x \in ToSet(s) : x \in W <=> x \in V) => Read(s, W) = Read(s, V)
<1>1. \A i \in DOMAIN s : s[i] \in ToSet(s)
  BY DEF ToSet
<1>2. ASSUME Answered(s, W), \A x \in ToSet(s) : x \in W => x \in V PROVE Answered(s, V)
  <2> SUFFICES ASSUME NEW p \in DOMAIN s, s[p].kind = "tool_result"
               PROVE  \E j \in DOMAIN s :
                        /\ j < p /\ s[j].kind = "turn" /\ s[j].run = s[p].run
                        /\ \A k \in DOMAIN s : j < k /\ k < p /\ s[k].run = s[p].run => s[k] \in V
    BY DEF Answered
  <2>1. PICK j \in DOMAIN s :
          /\ j < p /\ s[j].kind = "turn" /\ s[j].run = s[p].run
          /\ \A k \in DOMAIN s : j < k /\ k < p /\ s[k].run = s[p].run => s[k] \in W
    BY <1>2 DEF Answered
  <2> QED
    BY <1>1, <1>2, <2>1
<1>3. ASSUME NEW r, AskedIn(s, r, W), \A x \in ToSet(s) : x \in W => x \in V PROVE AskedIn(s, r, V)
  BY <1>1, <1>3 DEF AskedIn
<1>4. (\A x \in ToSet(s) : x \in W <=> x \in V) => Read(s, W) = Read(s, V)
  BY <1>1 DEF Read, Visible
<1> QED
  BY <1>2, <1>3, <1>4

(* In the conversations of other runs nothing changes that waits. *)
LEMMA ElsewhereWaits ==
  ASSUME Before, NEW r \in Runs, \A q \in Runs : q # r => Unread(q)' = Unread(q),
         NEW c \in Chats, c # req[r].chat
  PROVE  \A x \in ToSet(log[c]) : x \in Waiting' <=> x \in Waiting
<1> SUFFICES ASSUME NEW x \in ToSet(log[c]) PROVE x \in Waiting' <=> x \in Waiting
  OBVIOUS
<1>1. x.run \in Runs /\ x.run # r
  BY EventIs
<1>2. Unread(x.run)' = Unread(x.run)
  BY <1>1
<1> QED
  BY <1>2 DEF Waiting

(* What a run's log is before and after its opening. *)
OpensTo(r, s, e, t, h, M, V) ==
  /\ e.run = r /\ e.kind = "user"
  /\ log' = [log EXCEPT ![req[r].chat] = t] /\ hist' = [hist EXCEPT ![r] = Replay(Ordered(t))]
  /\ ToSet(t) = ToSet(s) \cup {e} /\ Rearranged(t, Append(s, e), h, M)
  /\ \A x \in M : x.kind = "user" /\ x.run = r
  /\ \A x \in ToSet(Append(s, e)) : x \in Waiting => x \in V \/ x \in M

(* The opening leaves nothing waiting. *)
LEMMA OpenWaits ==
  ASSUME Unsummed, Before, Dealt, NEW r \in Runs, Open(r)
  PROVE  /\ req[r].chat \in Chats /\ pc[r] = "begin" /\ pc' = [pc EXCEPT ![r] = "drain"]
         /\ UNCHANGED <<row, req>>
         /\ Unread(r)' = {} /\ \A q \in Runs : q # r => Unread(q)' = Unread(q)
         /\ \E e \in Event, t \in Seq(Event) : \E h, M : OpensTo(r, log[req[r].chat], e, t, h, M, Waiting')
<1>1. /\ req[r].chat \in Chats /\ pc[r] = "begin" /\ pc' = [pc EXCEPT ![r] = "drain"]
      /\ inbox' = [inbox EXCEPT ![r] = << >>] /\ UNCHANGED <<row, req, taken>>
      /\ \E e \in Event, t \in Seq(Event) : \E h : Opened(r, e, t, h)
  BY OpenIs
<1>2. PICK e \in Event, t \in Seq(Event) : \E h : Opened(r, e, t, h)
  BY <1>1
<1>3. PICK h : Opened(r, e, t, h)
  BY <1>2
<1>c. PICK c \in Chats : c = req[r].chat
  BY <1>1
<1>4. /\ inbox \in [Runs -> Seq(Msgs)] /\ taken[r] = << >> /\ log[c] \in Seq(Event)
  BY <1>1, <1>c DEF Before, Inv, ControlTypeOK, TakenOnMove, LogInv, DataInv, DataTypeOK
<1>5. ToSet(<<>>) = {}
  BY ElementsOf
<1>6. Unread(r) = ToSet(inbox[r]) /\ Unread(r)' = {}
  BY <1>1, <1>4, <1>5 DEF Unread
<1>7. \A q \in Runs : q # r => Unread(q)' = Unread(q)
  BY <1>1, <1>4 DEF Unread
<1> DEFINE M == UserEvents(Append(log[c], e), ToSet(inbox[r]))
<1>8. e.run = r /\ e.kind = "user" /\ ToSet(Append(log[c], e)) = ToSet(log[c]) \cup {e}
  BY <1>3, <1>4, OneMore DEF Opened
<1>9. \A x \in M : x.kind = "user" /\ x.run = r
  <2> SUFFICES ASSUME NEW x \in M PROVE x.kind = "user" /\ x.run = r
    OBVIOUS
  <2>1. x.kind = "user" /\ x.msg \in Unread(r) /\ x \in ToSet(log[c]) \cup {e}
    BY <1>6, <1>8 DEF UserEvents
  <2> QED
    BY <1>8, <2>1, MovedAre
<1>10. \A x \in ToSet(Append(log[c], e)) : x \in Waiting => x \in Waiting' \/ x \in M
  <2> SUFFICES ASSUME NEW x \in ToSet(Append(log[c], e)), x \in Waiting, x \notin M PROVE x \in Waiting'
    OBVIOUS
  <2>1. x \in Event /\ x.kind = "user" /\ x.msg \in Unread(x.run) /\ x.run \in Runs
    BY DEF Waiting, Event
  <2>2. x.run # r
    BY <1>6, <2>1 DEF UserEvents
  <2>3. Unread(x.run)' = Unread(x.run)
    BY <1>7, <2>1, <2>2
  <2>4. x.msg \in Unread(x.run)'
    BY <2>1, <2>3
  <2> QED
    BY <2>1, <2>4 DEF Waiting
<1>11. OpensTo(r, log[c], e, t, h, M, Waiting')
  <2>1. /\ log' = [log EXCEPT ![req[r].chat] = t] /\ hist' = [hist EXCEPT ![r] = Replay(Ordered(t))]
        /\ ToSet(t) = ToSet(log[c]) \cup {e} /\ Rearranged(t, Append(log[c], e), h, M)
    BY <1>3, <1>c DEF Opened
  <2> HIDE DEF M
  <2> QED
    BY <1>8, <1>9, <1>10, <2>1 DEF OpensTo
<1> HIDE DEF M
<1> QED
  BY <1>1, <1>6, <1>7, <1>11, <1>c

(* What it is before and after a drain moves a message. *)
DrainsTo(r, s, t, h, M, z, V) ==
  /\ log' = [log EXCEPT ![req[r].chat] = t] /\ Rearranged(t, s, h, M)
  /\ z \in DOMAIN s /\ s[z].run = r /\ HandsOn(s, z, M, Waiting, V)
  /\ hist'[r] = Append(hist[r], ItemOf(s[z]))
  /\ \A x \in M : x.kind = "user" /\ x.run = r

(* A drain moves one event, the only one of its message. *)
LEMMA DrainWaits ==
  ASSUME Unsummed, Before, Dealt, LogOrder, InLine, Histories, NEW r \in Runs, DrainMove(r)
  PROVE  /\ req[r].chat \in Chats /\ pc[r] = "move" /\ pc' = pc /\ r \in live
         /\ UNCHANGED <<row, req>> /\ \A q \in Runs : q # r => Unread(q)' = Unread(q)
         /\ \E t \in Seq(Event) : \E h, M, z : DrainsTo(r, log[req[r].chat], t, h, M, z, Waiting')
<1>0. Head(taken[r]) \in Msgs
  BY DrainIs
<1>m. PICK m \in Msgs : m = Head(taken[r])
  BY <1>0
<1>1. /\ m \in Unread(r) /\ pc[r] = "move" /\ pc' = pc /\ UNCHANGED <<row, req, inbox>>
      /\ Unread(r) = Unread(r)' \cup {m} /\ m \in Handed(r) /\ m \notin Unread(r)'
      /\ hist'[r] = Append(hist[r], UserItem(r, m)) /\ row[r] # "none"
  <2>1. /\ m \in Unread(r) /\ pc[r] = "move" /\ pc' = pc /\ Unread(r) = Unread(r)' \cup {m}
        /\ hist'[r] = Append(hist[r], UserItem(r, m))
    BY <1>m, DrainIs
  <2>2. m \in Handed(r) /\ m \notin Unread(r)'
    BY <1>m, DrainFirst
  <2>3. UNCHANGED <<row, req, inbox>>
    BY DEF DrainMove
  <2>4. row[r] # "none"
    BY <2>1 DEF Before, Outcome, Rowless
  <2> QED
    BY <2>1, <2>2, <2>3, <2>4
<1>2. req[r].chat \in Chats
  BY <1>1 DEF Before, LogInv, DataInv, OfChat
<1>c. PICK c \in Chats : c = req[r].chat
  BY <1>2
<1>3. log \in [Chats -> Seq(Event)] /\ log[c] \in Seq(Event) /\ taken \in [Runs -> Seq(Msgs)]
  BY DEF Before, Inv, ControlTypeOK, LogInv, DataInv, DataTypeOK
<1>4. \A q \in Runs : q # r => Unread(q)' = Unread(q)
  BY <1>3 DEF Unread, DrainMove
<1> DEFINE M == UserEvents(log[c], {m})
<1>5. PICK t \in Seq(Event) : log' = [log EXCEPT ![c] = t] /\ \E k : Rearranged(t, log[c], k, M)
  <2>1. log' = [log EXCEPT ![c] = MoveBehind(@, m)]
    BY <1>c, <1>m DEF DrainMove
  <2>2. Moves(c, {m})
    BY <1>3, <2>1, MovesIs DEF LogTyped
  <2> QED
    BY <2>2 DEF Moves
<1>6. PICK h : Rearranged(t, log[c], h, M)
  BY <1>5
<1>7. r \in live /\ Youngest(r)
  <2>1. r \in live
    BY <1>1 DEF Before, PlaceInv, Unstopped, AtWork, Finishing, Calm
  <2> QED
    BY <2>1 DEF Before, PlaceInv, Newest
<1>8. \A x \in ToSet(log[c]) : x.run <= r
  <2> SUFFICES ASSUME NEW x \in ToSet(log[c]) PROVE x.run <= r
    OBVIOUS
  <2>1. x.run \in Runs /\ row[x.run] # "none" /\ req[x.run].chat = req[r].chat
    BY <1>c, EventIs
  <2>2. ~(x.run > r)
    BY <1>7, <2>1 DEF Youngest
  <2> QED
    BY <2>1, <2>2
<1>9. \A x \in M : x.kind = "user" /\ x.msg = m /\ x.run = r /\ x \in Event
  <2> SUFFICES ASSUME NEW x \in M PROVE x.kind = "user" /\ x.msg = m /\ x.run = r /\ x \in Event
    OBVIOUS
  <2>1. x.kind = "user" /\ x.msg = m /\ x \in ToSet(log[c])
    BY DEF UserEvents
  <2> QED
    BY <1>1, <2>1, MovedAre, EventIs
<1>10. PICK z \in DOMAIN log[c] : log[c][z] \in M
  <2>1. m \in MessagesOf(r)
    BY <1>1 DEF Dealt, Logged
  <2>2. PICK f \in EventsNow : f.run = r /\ f.kind = "user" /\ f.msg = m
    BY <2>1 DEF MessagesOf
  <2>3. PICK d \in Chats : f \in ToSet(log[d])
    BY <2>2 DEF EventsNow
  <2>4. d = c
    BY <1>c, <2>2, <2>3, EventIs
  <2> QED
    BY <2>2, <2>3, <2>4 DEF UserEvents, ToSet
<1>11. \A p \in DOMAIN log[c] : log[c][p] \in M <=> p = z
  <2> SUFFICES ASSUME NEW p \in DOMAIN log[c], log[c][p] \in M PROVE p = z
    BY <1>10
  <2>1. ASSUME NEW i \in DOMAIN log[c], NEW j \in DOMAIN log[c], i < j,
               log[c][i] \in M, log[c][j] \in M
        PROVE  FALSE
    <3> DEFINE e == log[c][i]
               f == log[c][j]
    <3>1. e \in Event /\ f \in Event /\ Follows(log[c], e, f)
      BY <1>9, <2>1 DEF Follows
    <3>2. Both(e, f) /\ e.msg = f.msg
      BY <1>9, <2>1 DEF Both
    <3> HIDE DEF e, f
    <3> QED
      BY <3>1, <3>2 DEF LogOrder, SentOrder
  <2>2. p \in Nat /\ z \in Nat
    BY <1>3
  <2>3. ~(p < z) /\ ~(z < p)
    BY <1>10, <2>1
  <2> QED
    BY <2>2, <2>3
<1>12. HandsOn(log[c], z, M, Waiting, Waiting')
  <2>1. log[c][z].kind = "user" /\ log[c][z] \in Waiting /\ log[c][z] \notin Waiting'
    <3>1. /\ log[c][z] \in Event /\ log[c][z].kind = "user" /\ log[c][z].run = r
          /\ log[c][z].msg = m
      BY <1>9, <1>10
    <3>e. PICK e \in Event : e = log[c][z] /\ e.kind = "user" /\ e.run = r /\ e.msg = m
      BY <3>1
    <3>2. e.msg \in Unread(e.run) /\ e.msg \notin Unread(e.run)'
      BY <1>1, <3>e
    <3>3. e \in Waiting /\ e \notin Waiting'
      BY <3>e, <3>2 DEF Waiting
    <3> QED
      BY <3>e, <3>3
  <2>2. \A x \in ToSet(log[c]) : x \notin M => (x \in Waiting <=> x \in Waiting')
    <3> SUFFICES ASSUME NEW x \in ToSet(log[c]), x \notin M PROVE x \in Waiting <=> x \in Waiting'
      OBVIOUS
    <3>1. x \in Event /\ x.run \in Runs /\ (x.kind = "user" => x.msg # m)
      BY EventIs DEF UserEvents
    <3>2. x.kind = "user" => (x.msg \in Unread(x.run) <=> x.msg \in Unread(x.run)')
      BY <1>1, <1>4, <3>1
    <3> QED
      BY <3>1, <3>2 DEF Waiting
  <2>3. log[c][z].run = r
    BY <1>9, <1>10
  <2> HIDE DEF M
  <2> QED
    BY <1>8, <1>11, <2>1, <2>2, <2>3 DEF HandsOn
<1>13. DrainsTo(r, log[c], t, h, M, z, Waiting')
  <2>1. /\ log[c][z].run = r /\ log[c][z].msg = m /\ log[c][z].kind = "user"
        /\ \A x \in M : x.kind = "user" /\ x.run = r
    BY <1>9, <1>10
  <2>2. ItemOf(log[c][z]) = UserItem(r, m)
    BY <2>1 DEF ItemOf
  <2>3. log' = [log EXCEPT ![req[r].chat] = t]
    BY <1>5, <1>c
  <2> HIDE DEF M
  <2> QED
    BY <1>1, <1>6, <1>12, <2>1, <2>2, <2>3 DEF DrainsTo
<1> HIDE DEF M
<1> QED
  BY <1>1, <1>2, <1>4, <1>7, <1>13, <1>c

(* What is known of a state before the log is asked what it tells. *)
Grounds == Before /\ Dealt /\ InLine /\ LogOrder /\ BegunRuns /\ Histories

(* What a step is to one conversation: nothing, or an event more, which a  *)
(* run says, which hands it a message or which clears the context.         *)
SameWaits(c, V) == \A x \in ToSet(log[c]) : x \in V <=> x \in Waiting
Stays(c, V) == log'[c] = log[c] /\ SameWaits(c, V)
Grows(c, e, V) == log'[c] = Append(log[c], e) /\ SameWaits(c, V)
Spoken(r, e, V) ==
  /\ Work(r) /\ pc[r] \in {"stream", "tool", "toolBack"} /\ e.run = r
  /\ e.kind \in Shown \ {"user"} /\ e \notin V
  /\ e.kind = "tool_result" => pc[r] \in AtTool
SignsOff(r, e) == Work(r) /\ pc[r] = "emitDone" /\ e.run = r /\ e.kind = "done"
Pushed(e, V) == Standing /\ e.kind = "user" /\ e \in V
Forgot(c, e) ==
  Standing /\ e.kind = "context_cleared" /\ row[e.run] = "none" /\ Live(c) = {}
Wrote(c, e, V) ==
  \/ \E r \in Runs : req[r].chat = c /\ (Spoken(r, e, V) \/ SignsOff(r, e))
  \/ Pushed(e, V) \/ Forgot(c, e)

(* A step of one goroutine that leaves its messages leaves what waits. *)
LEMMA SameUnread ==
  ASSUME Before, NEW c \in Chats, \A q \in Runs : Unread(q)' = Unread(q)
  PROVE  SameWaits(c, Waiting')
<1> SUFFICES ASSUME NEW x \in ToSet(log[c]) PROVE x \in Waiting' <=> x \in Waiting
  BY DEF SameWaits
<1>1. x.run \in Runs
  BY EventIs
<1>2. Unread(x.run)' = Unread(x.run)
  BY <1>1
<1> QED
  BY <1>2 DEF Waiting

(* Of one conversation a step moves messages, adds one event or leaves it. *)
LEMMA ConversationSteps ==
  ASSUME Unsummed, Grounds, NoSums, [Next]_vars, NEW c \in Chats
  PROVE  \/ Stays(c, Waiting')
         \/ \E r \in Runs : req[r].chat = c /\ (Open(r) \/ DrainMove(r))
         \/ \E e \in Event : Grows(c, e, Waiting') /\ Wrote(c, e, Waiting')
<1>0. Before /\ Dealt /\ log \in [Chats -> Seq(Event)]
  BY DEF Grounds, Before, LogInv, DataInv, DataTypeOK
<1>V. PICK V : V = Waiting'
  OBVIOUS
<1>p. ASSUME NEW d \in Chats, NEW e \in Event, Puts(d, e), SameWaits(c, V)
      PROVE  (d # c => Stays(c, V)) /\ (d = c => Grows(c, e, V))
  <2>1. d # c => log'[c] = log[c]
    BY <1>0, <1>p DEF Puts
  <2>2. d = c => log'[c] = Append(log[c], e)
    BY <1>0, <1>p DEF Puts
  <2> QED
    BY <1>p, <2>1, <2>2 DEF Stays, Grows
<1>1. ASSUME NEW r \in Runs, Open(r) \/ DrainMove(r) PROVE req[r].chat # c => Stays(c, V)
  <2> SUFFICES ASSUME req[r].chat # c PROVE Stays(c, V)
    OBVIOUS
  <2>1. /\ \A q \in Runs : q # r => Unread(q)' = Unread(q)
        /\ log'[c] = log[c]
    <3>1. CASE Open(r)
      <4>1. /\ \A q \in Runs : q # r => Unread(q)' = Unread(q)
            /\ \E e \in Event, t \in Seq(Event) : \E h, M : OpensTo(r, log[req[r].chat], e, t, h, M, Waiting')
        BY <1>0, <3>1, OpenWaits
      <4>2. \E t : log' = [log EXCEPT ![req[r].chat] = t]
        BY <4>1 DEF OpensTo
      <4> QED
        BY <1>0, <4>1, <4>2
    <3>2. CASE DrainMove(r)
      <4>1. /\ \A q \in Runs : q # r => Unread(q)' = Unread(q)
            /\ \E t \in Seq(Event) : \E h, M, z : DrainsTo(r, log[req[r].chat], t, h, M, z, Waiting')
        BY <1>0, <3>2, DrainWaits DEF Grounds
      <4>2. \E t : log' = [log EXCEPT ![req[r].chat] = t]
        BY <4>1 DEF DrainsTo
      <4> QED
        BY <1>0, <4>1, <4>2
    <3> QED
      BY <1>1, <3>1, <3>2
  <2>2. SameWaits(c, V)
    BY <1>0, <1>V, <2>1, ElsewhereWaits DEF SameWaits
  <2> QED
    BY <2>1, <2>2 DEF Stays
<1>2. ASSUME NEW r \in Runs, Work(r), Says(r) \/ Dones(r) \/ Quietly(r)
      PROVE  Stays(c, V) \/ \E e \in Event : Grows(c, e, V) /\ Wrote(c, e, V)
  <2>1. Unread(r)' = Unread(r)
    BY <1>2 DEF Says, Dones, Quietly, Unread
  <2>2. SameWaits(c, V)
    BY <1>0, <1>2, <1>V, <2>1, OthersWait, SameUnread
  <2>3. pc[r] # "none" => req[r].chat \in Chats
    BY <1>0 DEF Before, Outcome, Rowless, LogInv, DataInv, OfChat
  <2>4. CASE Says(r)
    <3>1. PICK e \in Event :
            /\ e.run = r /\ e.kind \in Shown \ {"user"} /\ Puts(req[r].chat, e)
            /\ e.kind = "tool_result" => pc[r] \in AtTool
      BY <2>4 DEF Says
    <3>2. pc[r] \in {"stream", "tool", "toolBack"}
      BY <2>4 DEF Says
    <3>3. e \notin V
      BY <1>V, <3>1 DEF Waiting
    <3>4. Spoken(r, e, V)
      BY <1>2, <3>1, <3>2, <3>3 DEF Spoken
    <3> QED
      BY <1>p, <2>2, <2>3, <3>1, <3>2, <3>4 DEF Wrote
  <2>5. CASE Dones(r)
    <3>1. PICK e \in Event : e.run = r /\ e.kind = "done" /\ Puts(req[r].chat, e)
      BY <2>5 DEF Dones
    <3>2. pc[r] = "emitDone" /\ SignsOff(r, e)
      BY <1>2, <2>5, <3>1 DEF Dones, SignsOff
    <3> QED
      BY <1>p, <2>2, <2>3, <3>1, <3>2 DEF Wrote
  <2>6. CASE Quietly(r)
    BY <2>2, <2>6 DEF Quietly, Stays
  <2> QED
    BY <1>2, <2>4, <2>5, <2>6
<1>3. CASE Standing /\ InjectPush
  <2>1. /\ SameWaits(c, V)
        /\ req[conv.run].chat \in Chats
        /\ \E e \in Event : e.kind = "user" /\ e \in V /\ Puts(req[conv.run].chat, e)
    BY <1>0, <1>3, <1>V, PushWaits DEF SameWaits
  <2>2. PICK e \in Event : e.kind = "user" /\ e \in V /\ Puts(req[conv.run].chat, e)
    BY <2>1
  <2>3. Pushed(e, V)
    BY <1>3, <2>2 DEF Pushed
  <2> QED
    BY <1>p, <1>V, <2>1, <2>2, <2>3 DEF Wrote
<1>4. CASE Standing /\ \E d \in Chats, r \in Runs : Clear(d, r)
  <2>1. PICK d \in Chats, r \in Runs : Clear(d, r)
    BY <1>4
  <2>2. /\ \E e \in Event : e.run = r /\ e.kind = "context_cleared" /\ Puts(d, e)
        /\ NewRun(r) /\ UNCHANGED <<inbox, taken>>
    BY <1>0, <2>1, ClearPuts
  <2>3. SameWaits(c, V)
    BY <1>0, <1>V, <2>2, SameUnread DEF Unread
  <2>4. row[r] = "none" /\ Live(d) = {}
    BY <2>1, <2>2 DEF Clear, NewRun
  <2>5. PICK e \in Event : e.run = r /\ e.kind = "context_cleared" /\ Puts(d, e)
    BY <2>2
  <2>6. d = c => Forgot(c, e)
    BY <1>4, <2>4, <2>5 DEF Forgot
  <2> QED
    BY <1>p, <1>V, <2>3, <2>5, <2>6 DEF Wrote
<1>5. CASE Standing /\ UNCHANGED <<log, inbox, taken>>
  <2>1. SameWaits(c, V)
    BY <1>0, <1>5, <1>V, SameUnread DEF Unread
  <2> QED
    BY <1>5, <1>V, <2>1 DEF Stays
<1> QED
  BY <1>0, <1>1, <1>2, <1>3, <1>4, <1>5, <1>V, StepSays

(* What a step is to a run that has opened. *)
StandsBy(r) ==
  /\ ~Work(r) /\ pc[r] \notin {"none", "begin"} /\ (r \in live' => r \in live)
  /\ Text(r)' = Text(r) /\ (pc'[r] \in AtTool => pc[r] \in AtTool)
(* A run that has opened opened just now, drains, says something or stands by. *)
LEMMA RunSteps ==
  ASSUME Unsummed, Grounds, NoSums, [Next]_vars, NEW r \in Runs, pc'[r] \notin {"none", "begin"}
  PROVE  \/ Open(r) \/ DrainMove(r)
         \/ Work(r) /\ (Says(r) \/ Dones(r) \/ Quietly(r))
         \/ StandsBy(r)
<1>0. Before /\ Undisturbed
  BY DEF Grounds, Unsummed
<1>1. CASE Work(r)
  BY <1>0, <1>1, WorkSays
<1>2. CASE ~Work(r) /\ \E q \in Runs : Work(q)
  <2>1. PICK q \in Runs : Work(q) /\ q # r
    BY <1>2
  <2> QED
    BY <1>0, <1>2, <2>1, OthersWait DEF StandsBy
<1>3. CASE ~\E q \in Runs : Work(q)
  <2>1. Standing
    BY <1>0, <1>3, NoRestart, OthersStand DEF Before
  <2> QED
    BY <1>0, <1>3, <2>1, StandingIs DEF StandsBy
<1> QED
  BY <1>1, <1>2, <1>3

(* A run's opening or its drain, as a change of its conversation alone:    *)
(* some messages of the run move behind the others, and all that waited    *)
(* still does or moves.                                                    *)
Turns(r, s, u, t, h, M, V) ==
  /\ u = s \/ \E e \in Event : e.run = r /\ e.kind = "user" /\ u = Append(s, e)
  /\ log'[req[r].chat] = t /\ pc'[r] \in {"drain", "move"} /\ Rearranged(t, u, h, M)
  /\ \A x \in M : x.kind = "user" /\ x.run = r
  /\ \A x \in ToSet(u) : x \in Waiting => x \in V \/ x \in M
(* Opening and draining are such turns of a run that has not ended. *)
LEMMA TurnsIs ==
  ASSUME Unsummed, Grounds, NEW r \in Runs, NEW c \in Chats, req[r].chat = c,
         Open(r) \/ DrainMove(r)
  PROVE  /\ pc[r] \in {"begin", "move"}
         /\ \E u, t \in Seq(Event) : \E h, M : Turns(r, log[c], u, t, h, M, Waiting')
<1>0. Before /\ Dealt /\ log \in [Chats -> Seq(Event)] /\ pc \in [Runs -> PCs]
  BY DEF Grounds, Before, LogInv, DataInv, DataTypeOK, Inv, ControlTypeOK
<1>V. PICK V : V = Waiting'
  OBVIOUS
<1>1. CASE Open(r)
  <2>1. /\ pc[r] = "begin" /\ pc' = [pc EXCEPT ![r] = "drain"]
        /\ \E e \in Event, t \in Seq(Event) : \E h, M : OpensTo(r, log[c], e, t, h, M, V)
    BY <1>0, <1>1, <1>V, OpenWaits
  <2>2. PICK e \in Event, t \in Seq(Event) : \E h, M : OpensTo(r, log[c], e, t, h, M, V)
    BY <2>1
  <2>3. PICK h, M : OpensTo(r, log[c], e, t, h, M, V)
    BY <2>2
  <2>4. log[c] \in Seq(Event) /\ Append(log[c], e) \in Seq(Event)
    BY <1>0, OneMore
  <2>5. log'[c] = t /\ pc'[r] = "drain"
    BY <1>0, <2>1, <2>3 DEF OpensTo
  <2>6. Turns(r, log[c], Append(log[c], e), t, h, M, V)
    BY <1>0, <2>3, <2>5 DEF OpensTo, Turns
  <2> QED
    BY <1>V, <2>1, <2>4, <2>6
<1>2. CASE DrainMove(r)
  <2>1. /\ pc[r] = "move" /\ pc' = pc
        /\ \E t \in Seq(Event) : \E h, M, z : DrainsTo(r, log[c], t, h, M, z, V)
    BY <1>0, <1>2, <1>V, DrainWaits DEF Grounds
  <2>2. PICK t \in Seq(Event) : \E h, M, z : DrainsTo(r, log[c], t, h, M, z, V)
    BY <2>1
  <2>3. PICK h, M, z : DrainsTo(r, log[c], t, h, M, z, V)
    BY <2>2
  <2>4. log'[c] = t
    BY <1>0, <2>3 DEF DrainsTo
  <2>5. \A x \in ToSet(log[c]) : x \in Waiting => x \in V \/ x \in M
    BY <2>3 DEF DrainsTo, HandsOn
  <2>6. Turns(r, log[c], log[c], t, h, M, V)
    BY <2>1, <2>3, <2>4, <2>5 DEF DrainsTo, Turns
  <2>7. log[c] \in Seq(Event)
    BY <1>0
  <2> QED
    BY <1>V, <2>1, <2>6, <2>7
<1> QED
  BY <1>1, <1>2

(* Every result still comes right behind its turn. *)
LEMMA AnsweredKept ==
  ASSUME Unsummed, Grounds, NoSums, AnsweredAll, AskedAll, [Next]_vars
  PROVE  AnsweredAll'
<1> SUFFICES ASSUME NEW c \in Chats PROVE Answered(log[c], Waiting)'
  BY DEF AnsweredAll
<1>0. log \in [Chats -> Seq(Event)] /\ log[c] \in Seq(Event)
  BY DEF Grounds, Before, LogInv, DataInv, DataTypeOK
<1>V. PICK V : V = Waiting'
  OBVIOUS
<1>W. PICK W : W = Waiting
  OBVIOUS
<1>t. PICK t : t = log'[c]
  OBVIOUS
<1>a. Answered(log[c], W)
  BY <1>W DEF AnsweredAll
<1> SUFFICES Answered(t, V)
  BY <1>V, <1>t
<1>1. CASE Stays(c, V)
  <2>1. t = log[c] /\ \A x \in ToSet(log[c]) : x \in W => x \in V
    BY <1>1, <1>t, <1>W DEF Stays, SameWaits
  <2> QED
    BY <1>0, <1>a, <2>1, WaitsMore
<1>2. ASSUME NEW r \in Runs, req[r].chat = c, Open(r) \/ DrainMove(r) PROVE Answered(t, V)
  <2>1. PICK u \in Seq(Event), v \in Seq(Event) : \E h, M : Turns(r, log[c], u, v, h, M, V)
    BY <1>2, <1>V, TurnsIs
  <2>2. PICK h, M : Turns(r, log[c], u, v, h, M, V)
    BY <2>1
  <2>3. /\ v = t /\ (\A x \in M : x.kind = "user") /\ Rearranged(v, u, h, M)
        /\ \A x \in ToSet(u) : x \in W => x \in V \/ x \in M
    BY <1>2, <1>t, <1>W, <2>2 DEF Turns
  <2>4. Answered(u, W)
    <3>1. ASSUME NEW e \in Event, e.kind = "user" PROVE Answered(Append(log[c], e), W)
      BY <1>0, <1>a, <3>1, AnsweredPut
    <3> QED
      BY <1>a, <2>2, <3>1 DEF Turns
  <2> QED
    BY <2>3, <2>4, AnsweredMoved
<1>3. ASSUME NEW e \in Event, Grows(c, e, V), Wrote(c, e, V) PROVE Answered(t, V)
  <2>1. t = Append(log[c], e) /\ \A x \in ToSet(log[c]) : x \in W => x \in V
    BY <1>3, <1>t, <1>W DEF Grows, SameWaits
  <2>2. ASSUME e.kind = "tool_result" PROVE AskedIn(log[c], e.run, W)
    <3>1. PICK r \in Runs : req[r].chat = c /\ e.run = r /\ pc[r] \in AtTool
      BY <1>3, <2>2 DEF Wrote, Spoken, SignsOff, Pushed, Forgot
    <3> QED
      BY <1>W, <3>1 DEF AskedAll
  <2> QED
    BY <1>0, <1>a, <2>1, <2>2, AnsweredPut
<1>4. Stays(c, V) \/ (\E r \in Runs : req[r].chat = c /\ (Open(r) \/ DrainMove(r)))
      \/ \E e \in Event : Grows(c, e, V) /\ Wrote(c, e, V)
  BY <1>V, ConversationSteps
<1> QED
  BY <1>1, <1>2, <1>3, <1>4

(* A run at a tool has still called for its result. *)
LEMMA AskedKept ==
  ASSUME Unsummed, Grounds, NoSums, AskedAll, [Next]_vars
  PROVE  AskedAll'
<1> SUFFICES ASSUME NEW r \in Runs, pc'[r] \in AtTool PROVE AskedIn(log[req[r].chat], r, Waiting)'
  BY DEF AskedAll
<1>0. /\ Before /\ Dealt /\ log \in [Chats -> Seq(Event)] /\ pc \in [Runs -> PCs]
      /\ pc'[r] \notin {"none", "begin", "drain", "move", "exit"}
  BY DEF Grounds, Before, LogInv, DataInv, DataTypeOK, Inv, ControlTypeOK, AtTool
<1>1. \/ Work(r) /\ (Says(r) \/ Quietly(r))
      \/ StandsBy(r)
  <2>1. Open(r) => pc'[r] = "drain"
    BY <1>0, OpenWaits
  <2>2. DrainMove(r) => pc'[r] = "move"
    BY <1>0, DrainWaits DEF Grounds
  <2>3. Dones(r) => pc'[r] = "exit"
    BY DEF Dones
  <2> QED
    BY <1>0, <2>1, <2>2, <2>3, RunSteps
<1>2. row[r] # "none"
  BY <1>0, <1>1 DEF Before, Outcome, Rowless, Says, Quietly, StandsBy
<1>3. req'[r] = req[r] /\ req[r].chat \in Chats
  BY <1>0, <1>2, RowsStay DEF Before, LogInv, DataInv, OfChat, Stay
<1>c. PICK c \in Chats : c = req[r].chat
  BY <1>3
<1>s. log[c] \in Seq(Event)
  BY <1>0
<1>V. PICK V : V = Waiting'
  OBVIOUS
<1>W. PICK W : W = Waiting
  OBVIOUS
<1>t. PICK t : t = log'[c]
  OBVIOUS
<1> SUFFICES AskedIn(t, r, V)
  BY <1>V, <1>t, <1>c, <1>3
<1>4. CASE Work(r) /\ Says(r)
  <2>1. PICK e \in Event : /\ e.run = r /\ e.kind = "turn" /\ Puts(req[r].chat, e)
    BY <1>4 DEF Says
  <2>2. t = Append(log[c], e)
    BY <1>0, <1>c, <1>t, <2>1 DEF Puts
  <2> QED
    BY <1>s, <2>1, <2>2, TurnAsks
<1>5. CASE Work(r) /\ Quietly(r)
  <2>1. pc[r] \in AtTool /\ log' = log /\ Unread(r)' = Unread(r)
    BY <1>5 DEF Quietly
  <2>2. SameWaits(c, V)
    BY <1>0, <1>5, <1>V, <2>1, OthersWait, SameUnread
  <2>3. AskedIn(log[c], r, W)
    BY <1>c, <1>W, <2>1 DEF AskedAll
  <2>4. \A x \in ToSet(log[c]) : x \in W => x \in V
    BY <1>W, <2>2 DEF SameWaits
  <2> QED
    BY <1>s, <1>t, <2>1, <2>3, <2>4, WaitsMore
<1>6. CASE StandsBy(r)
  <2>1. pc[r] \in AtTool /\ ~Work(r) /\ AskedIn(log[c], r, W)
    BY <1>6, <1>c, <1>W DEF StandsBy, AskedAll
  <2>2. CASE Stays(c, V)
    <3>1. t = log[c] /\ \A x \in ToSet(log[c]) : x \in W => x \in V
      BY <1>t, <1>W, <2>2 DEF Stays, SameWaits
    <3> QED
      BY <1>s, <2>1, <3>1, WaitsMore
  <2>3. ASSUME NEW q \in Runs, req[q].chat = c, Open(q) \/ DrainMove(q) PROVE AskedIn(t, r, V)
    <3>1. q # r
      BY <2>1, <2>3, TurnsIs DEF AtTool
    <3>2. PICK u \in Seq(Event), v \in Seq(Event) : \E h, M : Turns(q, log[c], u, v, h, M, V)
      BY <2>3, <1>V, TurnsIs
    <3>3. PICK h, M : Turns(q, log[c], u, v, h, M, V)
      BY <3>2
    <3>4. /\ v = t /\ (\A x \in M : x.run # r) /\ Rearranged(v, u, h, M)
          /\ \A x \in ToSet(u) : x \in W /\ x.run = r => x \in V
      BY <2>3, <1>t, <1>W, <3>1, <3>3 DEF Turns
    <3>5. AskedIn(u, r, W)
      <4>1. ASSUME NEW e \in Event, e.run = q PROVE AskedIn(Append(log[c], e), r, W)
        BY <1>s, <2>1, <3>1, <4>1, AskedPut
      <4> QED
        BY <2>1, <3>3, <4>1 DEF Turns
    <3> QED
      BY <3>4, <3>5, AskedMoved
  <2>4. ASSUME NEW e \in Event, Grows(c, e, V), Wrote(c, e, V) PROVE AskedIn(t, r, V)
    <3>1. t = Append(log[c], e) /\ \A x \in ToSet(log[c]) : x \in W => x \in V
      BY <1>t, <1>W, <2>4 DEF Grows, SameWaits
    <3>2. e.run = r => e \in V
      BY <1>2, <2>1, <2>4 DEF Wrote, Spoken, SignsOff, Pushed, Forgot
    <3> QED
      BY <1>s, <2>1, <3>1, <3>2, AskedPut
  <2>5. Stays(c, V) \/ (\E q \in Runs : req[q].chat = c /\ (Open(q) \/ DrainMove(q)))
        \/ \E e \in Event : Grows(c, e, V) /\ Wrote(c, e, V)
    BY <1>V, ConversationSteps
  <2> QED
    BY <2>2, <2>3, <2>4, <2>5
<1> QED
  BY <1>1, <1>4, <1>5, <1>6

(* A live run is its conversation's newest: what others wrote is older.    *)
LEMMA LiveIsNewest ==
  ASSUME Before, NEW r \in Runs, r \in live, NEW c \in Chats, c = req[r].chat
  PROVE  \A x \in ToSet(log[c]) : x.run <= r
<1> SUFFICES ASSUME NEW x \in ToSet(log[c]) PROVE x.run <= r
  OBVIOUS
<1>1. Youngest(r)
  BY DEF Before, PlaceInv, Newest
<1>2. x.run \in Runs /\ row[x.run] # "none" /\ req[x.run].chat = req[r].chat
  BY EventIs
<1>3. ~(x.run > r)
  BY <1>1, <1>2 DEF Youngest
<1> QED
  BY <1>2, <1>3

(* While a run is live no other goroutine of its conversation is before    *)
(* its last look at the inbox.                                             *)
LEMMA OneAtWork ==
  ASSUME Before, NEW r \in Runs, r \in live, NEW q \in Runs, Work(q),
         req[q].chat = req[r].chat, pc[q] \notin Finishing
  PROVE  q = r
<1>1. AtWork(q)
  BY WorkWorks DEF Before
<1>2. q \in live
  BY <1>1 DEF Before, PlaceInv, Unstopped, Calm
<1> QED
  BY <1>2 DEF Before, Inv, OneLiveRun

(* The opening's history is the context of the log it leaves. *)
LEMMA OpenShows ==
  ASSUME Unsummed, Grounds, NoSums', AnsweredAll', NEW r \in Runs, r \in live, Open(r),
         NEW c \in Chats, c = req[r].chat
  PROVE  \E g : Shows(Text(r)', log'[c], g, Read(log'[c], Waiting'))
<1>0. /\ Before /\ Dealt /\ log \in [Chats -> Seq(Event)] /\ pc \in [Runs -> PCs]
      /\ hist \in [Runs -> Seq(Item)] /\ log[c] \in Seq(Event) /\ Undisturbed
  BY DEF Grounds, Before, LogInv, DataInv, DataTypeOK, Inv, ControlTypeOK, Unsummed
<1>V. PICK V : V = Waiting'
  OBVIOUS
<1>1. /\ pc' = [pc EXCEPT ![r] = "drain"]
      /\ Unread(r)' = {} /\ \A q \in Runs : q # r => Unread(q)' = Unread(q)
      /\ \E e \in Event, t \in Seq(Event) : \E h, M : OpensTo(r, log[c], e, t, h, M, V)
  BY <1>0, <1>V, OpenWaits
<1>2. PICK e \in Event, t \in Seq(Event) : \E h, M : OpensTo(r, log[c], e, t, h, M, V)
  BY <1>1
<1>3. /\ log'[c] = t /\ hist'[r] = ContextOf(t) /\ ToSet(t) = ToSet(log[c]) \cup {e} /\ e.run = r
  BY <1>0, <1>2 DEF OpensTo, ContextOf
<1>4. pc'[r] = "drain" /\ Text(r)' = ContextOf(t)
  BY <1>0, <1>1, <1>3 DEF Text
<1>5. \A x \in ToSet(t) : x \notin V
  <2> SUFFICES ASSUME NEW x \in ToSet(t), x \in V PROVE FALSE
    OBVIOUS
  <2>1. x.run = r => FALSE
    BY <1>1, <1>V DEF Waiting
  <2>2. x \in ToSet(log[c]) /\ x.run # r
    BY <1>3, <2>1
  <2>3. x.run \in Runs /\ req[x.run].chat = req[r].chat
    BY <1>0, <2>2, EventIs
  <2>4. Unread(x.run) = {}
    BY <1>0, <2>2, <2>3, OthersRead DEF Grounds
  <2>5. Unread(x.run)' = {}
    BY <1>1, <2>2, <2>3, <2>4
  <2> QED
    BY <1>V, <2>5 DEF Waiting
<1>6. Answered(t, {})
  <2>1. Answered(log'[c], V)
    BY <1>V DEF AnsweredAll
  <2>2. Answered(t, V)
    BY <1>3, <2>1
  <2> QED
    BY <1>5, <2>2, WaitsMore
<1>7. \A x \in ToSet(t) : x.kind # "compaction"
  BY <1>3 DEF NoSums, EventsNow
<1>8. Read(t, V) = Visible(t)
  <2>1. \A p \in DOMAIN t : t[p] \in ToSet(t)
    BY DEF ToSet
  <2> QED
    BY <1>5, <2>1 DEF Read, Visible
<1>9. \E g : Shows(ContextOf(t), t, g, Visible(t))
  BY <1>6, <1>7, ContextShows
<1> QED
  BY <1>3, <1>4, <1>8, <1>9, <1>V

(* A drained message ends up behind all that the run has read. *)
LEMMA DrainShows ==
  ASSUME Unsummed, Grounds, NEW r \in Runs, DrainMove(r), ShowsLog(r),
         NEW c \in Chats, c = req[r].chat
  PROVE  \E g : Shows(Text(r)', log'[c], g, Read(log'[c], Waiting'))
<1>0. /\ Before /\ Dealt /\ log \in [Chats -> Seq(Event)] /\ pc \in [Runs -> PCs]
      /\ hist[r] \in Seq(Item) /\ log[c] \in Seq(Event)
  BY DEF Grounds, Before, LogInv, DataInv, DataTypeOK, Inv, ControlTypeOK
<1>V. PICK V : V = Waiting'
  OBVIOUS
<1>W. PICK W : W = Waiting
  OBVIOUS
<1>1. /\ pc[r] = "move" /\ pc' = pc
      /\ \E t \in Seq(Event) : \E h, M, z : DrainsTo(r, log[c], t, h, M, z, V)
  BY <1>0, <1>V, DrainWaits DEF Grounds
<1>2. PICK t \in Seq(Event) : \E h, M, z : DrainsTo(r, log[c], t, h, M, z, V)
  BY <1>1
<1>3. PICK h, M, z : DrainsTo(r, log[c], t, h, M, z, V)
  BY <1>2
<1>4. /\ log'[c] = t /\ Rearranged(t, log[c], h, M) /\ z \in DOMAIN log[c]
      /\ HandsOn(log[c], z, M, W, V) /\ hist'[r] = Append(hist[r], ItemOf(log[c][z]))
  BY <1>0, <1>3, <1>W DEF DrainsTo
<1>5. Text(r) = hist[r] /\ Text(r)' = Append(hist[r], ItemOf(log[c][z]))
  BY <1>1, <1>4 DEF Text
<1>6. PICK g : Shows(hist[r], log[c], g, Read(log[c], W))
  BY <1>5, <1>W DEF ShowsLog
<1>7. \E k : Shows(Append(hist[r], ItemOf(log[c][z])), t, k, Read(t, V))
  BY <1>0, <1>4, <1>6, MoveShows
<1> QED
  BY <1>4, <1>5, <1>7, <1>V

(* What a run says is shown behind all that it has read. *)
LEMMA SaysShows ==
  ASSUME Unsummed, Grounds, NEW r \in Runs, r \in live, Work(r), Says(r), ShowsLog(r),
         NEW c \in Chats, c = req[r].chat
  PROVE  \E g : Shows(Text(r)', log'[c], g, Read(log'[c], Waiting'))
<1>0. /\ Before /\ log \in [Chats -> Seq(Event)] /\ hist[r] \in Seq(Item) /\ log[c] \in Seq(Event)
  BY DEF Grounds, Before, LogInv, DataInv, DataTypeOK
<1>V. PICK V : V = Waiting'
  OBVIOUS
<1>W. PICK W : W = Waiting
  OBVIOUS
<1>1. PICK e \in Event :
        /\ e.run = r /\ e.kind \in Shown \ {"user"} /\ Puts(req[r].chat, e)
        /\ Text(r)' = Append(Text(r), ItemOf(e))
  BY DEF Says
<1>2. log'[c] = Append(log[c], e)
  BY <1>0, <1>1 DEF Puts
<1>3. Unread(r)' = Unread(r)
  BY DEF Says, Unread
<1>4. \A x \in ToSet(log[c]) : x \in W <=> x \in V
  BY <1>0, <1>V, <1>W, <1>3, OthersWait, SameUnread DEF SameWaits
<1>5. e \notin V
  BY <1>1, <1>V DEF Waiting
<1>6. \A x \in ToSet(log[c]) : x.run <= e.run
  BY <1>0, <1>1, LiveIsNewest
<1>7. PICK items \in Seq(Item) : items = Text(r)
  <2>1. Append(hist[r], AssistantItem(r)) \in Seq(Item)
    BY <1>0, ItemsAre
  <2> QED
    BY <1>0, <2>1 DEF Text
<1>8. PICK g : Shows(items, log[c], g, Read(log[c], W))
  BY <1>7, <1>W DEF ShowsLog
<1>9. \E k : Shows(Append(items, ItemOf(e)), Append(log[c], e), k, Read(Append(log[c], e), V))
  BY <1>0, <1>1, <1>4, <1>5, <1>6, <1>8, PutShows
<1> QED
  BY <1>1, <1>2, <1>7, <1>9, <1>V

(* Where a run says nothing its history shows the same: the log grows by   *)
(* nothing that the run has read.                                          *)
LEMMA HiddenShows ==
  ASSUME Grounds, NEW r \in Runs, ShowsLog(r), Text(r)' = Text(r),
         NEW c \in Chats, c = req[r].chat,
         \/ Stays(c, Waiting')
         \/ \E e \in Event : /\ Grows(c, e, Waiting') /\ e.kind # "context_cleared"
                             /\ e \in Waiting' \/ e.kind \notin Shown
  PROVE  \E g : Shows(Text(r)', log'[c], g, Read(log'[c], Waiting'))
<1>0. log[c] \in Seq(Event)
  BY DEF Grounds, Before, LogInv, DataInv, DataTypeOK
<1>V. PICK V : V = Waiting'
  OBVIOUS
<1>W. PICK W : W = Waiting
  OBVIOUS
<1>i. PICK items : items = Text(r)
  OBVIOUS
<1>1. PICK g : Shows(items, log[c], g, Read(log[c], W))
  BY <1>W, <1>i DEF ShowsLog
<1>2. CASE Stays(c, V)
  <2>1. log'[c] = log[c] /\ \A x \in ToSet(log[c]) : x \in W <=> x \in V
    BY <1>2, <1>W DEF Stays, SameWaits
  <2>2. Read(log[c], W) = Read(log[c], V)
    BY <1>0, <2>1, WaitsMore
  <2> QED
    BY <1>1, <1>V, <1>i, <2>1, <2>2
<1>3. ASSUME NEW e \in Event, Grows(c, e, V), e.kind # "context_cleared", e \in V \/ e.kind \notin Shown
      PROVE  \E k : Shows(Text(r)', log'[c], k, Read(log'[c], Waiting'))
  <2>1. log'[c] = Append(log[c], e) /\ \A x \in ToSet(log[c]) : x \in W <=> x \in V
    BY <1>3, <1>W DEF Grows, SameWaits
  <2>2. Shows(items, Append(log[c], e), g, Read(Append(log[c], e), V))
    BY <1>0, <1>1, <1>3, <2>1, PutHides
  <2> QED
    BY <1>V, <1>i, <2>1, <2>2
<1> QED
  BY <1>2, <1>3, <1>V

(* A live run still has said what the log shows. *)
LEMMA ExactKept ==
  ASSUME Unsummed, Grounds, NoSums, AnsweredAll, AskedAll, Exact, [Next]_vars
  PROVE  Exact'
<1> SUFFICES ASSUME NEW r \in Runs, r \in live', pc'[r] \notin {"none", "begin"}
             PROVE  ShowsLog(r)'
  BY DEF Exact
<1>0. /\ Before /\ Dealt /\ log \in [Chats -> Seq(Event)] /\ pc \in [Runs -> PCs]
  BY DEF Grounds, Before, LogInv, DataInv, DataTypeOK, Inv, ControlTypeOK
<1>1. NoSums' /\ AnsweredAll'
  BY <1>0, NoSumsKept, AnsweredKept
<1>2. Open(r) \/ DrainMove(r) \/ (Work(r) /\ (Says(r) \/ Dones(r) \/ Quietly(r))) \/ StandsBy(r)
  BY RunSteps
<1>w. Open(r) \/ DrainMove(r) => Work(r)
  BY DEF Work
<1>3. r \in live /\ pc[r] # "none"
  <2>1. Work(r) => r \in live /\ pc[r] # "none"
    BY <1>0, WorkWorks DEF Before, AtWork
  <2> QED
    BY <1>2, <1>w, <2>1 DEF StandsBy
<1>4. ~Open(r) => pc[r] \notin {"none", "begin"}
  <2>1. DrainMove(r) => pc[r] = "move"
    BY DEF DrainMove
  <2> QED
    BY <1>2, <2>1 DEF Says, Dones, Quietly, StandsBy
<1>5. row[r] # "none" /\ req'[r] = req[r] /\ req[r].chat \in Chats
  <2>1. row[r] # "none"
    BY <1>0, <1>3 DEF Before, Outcome, Rowless
  <2> QED
    BY <1>0, <2>1, RowsStay DEF Before, LogInv, DataInv, OfChat, Stay
<1>c. PICK c \in Chats : c = req[r].chat
  BY <1>5
<1> SUFFICES \E g : Shows(Text(r)', log'[c], g, Read(log'[c], Waiting'))
  BY <1>c, <1>5 DEF ShowsLog
<1>6. ~Open(r) => ShowsLog(r)
  BY <1>3, <1>4 DEF Exact
<1>7. CASE Open(r)
  BY <1>1, <1>3, <1>7, <1>c, OpenShows
<1>8. CASE DrainMove(r)
  <2>1. ~Open(r)
    BY <1>8 DEF DrainMove, Open
  <2> QED
    BY <1>6, <1>8, <1>c, <2>1, DrainShows
<1>9. CASE ~Open(r) /\ Work(r) /\ Says(r)
  BY <1>3, <1>6, <1>9, <1>c, SaysShows
<1>10. CASE /\ ~Open(r) /\ ~DrainMove(r)
            /\ (Work(r) /\ (Dones(r) \/ Quietly(r))) \/ StandsBy(r)
  <2>1. Text(r)' = Text(r)
    BY <1>10 DEF Dones, Quietly, StandsBy, Text
  <2>2. \A q \in Runs : req[q].chat = c => ~Open(q) /\ ~DrainMove(q)
    <3> SUFFICES ASSUME NEW q \in Runs, req[q].chat = c, Open(q) \/ DrainMove(q) PROVE FALSE
      OBVIOUS
    <3>1. Work(q) /\ pc[q] \notin Finishing
      BY DEF Work, Open, DrainMove, Finishing
    <3>2. q = r
      BY <1>0, <1>3, <1>c, <3>1, OneAtWork
    <3> QED
      BY <1>10, <3>2
  <2>3. ASSUME NEW e \in Event, Grows(c, e, Waiting'), Wrote(c, e, Waiting')
        PROVE  e.kind # "context_cleared" /\ (e \in Waiting' \/ e.kind \notin Shown)
    <3>1. ASSUME NEW q \in Runs, req[q].chat = c, Spoken(q, e, Waiting') PROVE FALSE
      <4>1. Work(q) /\ pc[q] \in {"stream", "tool", "toolBack"}
        BY <3>1 DEF Spoken
      <4>2. q = r
        BY <1>0, <1>3, <1>c, <3>1, <4>1, OneAtWork DEF Finishing
      <4>3. log' = log
        BY <1>10, <4>1, <4>2 DEF Dones, Quietly, StandsBy
      <4>4. log[c] \in Seq(Event)
        BY <1>0
      <4>5. Len(Append(log[c], e)) = Len(log[c]) + 1 /\ Len(log[c]) \in Nat
        BY <4>4
      <4>6. Append(log[c], e) = log[c]
        BY <2>3, <4>3 DEF Grows
      <4> QED
        BY <4>5, <4>6
    <3>2. ~Forgot(c, e)
      BY <1>3, <1>c DEF Forgot, Live, RunsOf
    <3>3. (\E q \in Runs : req[q].chat = c /\ SignsOff(q, e)) \/ Pushed(e, Waiting')
      BY <2>3, <3>1, <3>2 DEF Wrote
    <3> QED
      BY <3>3 DEF SignsOff, Pushed, Shown
  <2>4. \/ Stays(c, Waiting')
        \/ \E e \in Event : Grows(c, e, Waiting') /\ Wrote(c, e, Waiting')
    BY <2>2, ConversationSteps
  <2>5. \/ Stays(c, Waiting')
        \/ \E e \in Event : /\ Grows(c, e, Waiting') /\ e.kind # "context_cleared"
                            /\ e \in Waiting' \/ e.kind \notin Shown
    BY <2>3, <2>4
  <2> QED
    BY <1>6, <1>10, <1>c, <2>1, <2>5, HiddenShows
<1> QED
  BY <1>2, <1>7, <1>8, <1>9, <1>10

(* What the live run sends the model is what replaying the log gives: both *)
(* show what is read of the log, in the readers' order.                    *)
LEMMA SendsReplay ==
  ASSUME Unsummed, Grounds, NoSums, AnsweredAll, Exact
  PROVE  ReplayExact
<1> SUFFICES ASSUME NEW r \in live, pc[r] = "stream"
             PROVE  hist[r] = ContextOf(ReadBy(r, log[req[r].chat]))
  BY DEF ReplayExact
<1>0. /\ Before /\ Dealt /\ log \in [Chats -> Seq(Event)] /\ r \in Runs /\ hist[r] \in Seq(Item)
      /\ Undisturbed
  BY DEF Grounds, Before, LogInv, DataInv, DataTypeOK, Inv, ControlTypeOK, Unsummed
<1>1. req[r].chat \in Chats
  BY <1>0 DEF Before, Outcome, Rowless, LogInv, DataInv, OfChat
<1>c. PICK c \in Chats : c = req[r].chat
  BY <1>1
<1>s. PICK s \in Seq(Event) : s = log[c]
  BY <1>0
<1>2. PICK g : Shows(hist[r], s, g, Read(s, Waiting))
  BY <1>0, <1>c, <1>s DEF Exact, ShowsLog, Text
<1>3. \A e \in ToSet(s) : e.kind # "compaction"
  BY <1>s DEF NoSums, EventsNow
<1>4. (\A e \in Waiting : e.kind = "user") /\ Answered(s, Waiting)
  BY <1>s DEF Waiting, AnsweredAll
<1> DEFINE u == Keep(s, ToSet(s) \ Waiting)
<1>5. PICK k : Shows(ContextOf(u), s, k, Read(s, Waiting))
  BY <1>3, <1>4, KeptShows
<1>6. ContextOf(u) \in Seq(Item)
  <2>1. u \in Seq(Event)
    BY KeepElements
  <2> HIDE DEF u
  <2> QED
    BY <2>1, OrderedIs, ReplayIs DEF ContextOf
<1>7. ReadBy(r, s) = u
  <2>1. ASSUME NEW e \in ToSet(s)
        PROVE  e \in Waiting <=> e.run = r /\ e.kind = "user" /\ e.msg \in Unread(r)
    <3>1. e \in Event /\ e.run \in Runs /\ req[e.run].chat = req[r].chat
      BY <1>0, <1>c, <1>s, <2>1, EventIs
    <3>2. e.run # r => Unread(e.run) = {}
      BY <1>0, <3>1, OthersRead DEF Grounds
    <3> QED
      BY <3>1, <3>2 DEF Waiting
  <2>2. {e \in ToSet(s) : ~(e.run = r /\ e.kind = "user" /\ e.msg \in Unread(r))} = ToSet(s) \ Waiting
    BY <2>1
  <2> QED
    BY <2>2 DEF ReadBy
<1> HIDE DEF u
<1>8. hist[r] = ContextOf(u)
  BY <1>0, <1>2, <1>5, <1>6, ShownOnce
<1> QED
  BY <1>7, <1>8, <1>c, <1>s

(* ReplayExact holds where nothing disturbs a run and nothing is summed up *)
(* while it works: what a run sends the model is what replaying its        *)
(* conversation gives, but for messages it has been handed and has not     *)
(* drained, whatever clears, tools and questions come between (runLoop,    *)
(* drainInbox, replayEvents).                                              *)
THEOREM ReplayExactHolds == Unsummed => (Spec => []ReplayExact)
<1> SUFFICES ASSUME Unsummed PROVE Spec => []ReplayExact
  OBVIOUS
<1> DEFINE ReplayInv == NoSums /\ AnsweredAll /\ AskedAll /\ Exact
<1>1. Init => ReplayInv
  <2> SUFFICES ASSUME Init PROVE ReplayInv
    OBVIOUS
  <2>1. live = {} /\ (\A r \in Runs : pc[r] = "none") /\ \A c \in Chats : log[c] = << >>
    BY DEF Init
  <2>2. EventsNow = {}
    BY <2>1 DEF EventsNow, ToSet
  <2> QED
    BY <2>1, <2>2 DEF NoSums, AnsweredAll, Answered, AskedAll, AtTool, Exact
<1>2. Inv /\ Outcome /\ LogInv /\ PlaceInv /\ OrderInv /\ ReplayInv /\ [Next]_vars => ReplayInv'
  <2> SUFFICES ASSUME Inv, Outcome, LogInv, PlaceInv, OrderInv, ReplayInv, [Next]_vars
               PROVE  ReplayInv'
    OBVIOUS
  <2>1. Before /\ Grounds
    BY DEF Before, OrderInv, Grounds
  <2> QED
    BY <2>1, NoSumsKept, AnsweredKept, AskedKept, ExactKept
<1>3. Inv /\ Outcome /\ LogInv /\ PlaceInv /\ OrderInv /\ ReplayInv => ReplayExact
  <2> SUFFICES ASSUME Inv, Outcome, LogInv, PlaceInv, OrderInv, ReplayInv PROVE ReplayExact
    OBVIOUS
  <2>1. Grounds
    BY DEF Before, OrderInv, Grounds
  <2> QED
    BY <2>1, SendsReplay
<1>4. Spec => []OrderInv
  <2>1. Undisturbed
    BY DEF Unsummed
  <2> QED
    BY <2>1, OrderHolds, PTL
<1> HIDE DEF ReplayInv
<1> QED
  BY <1>1, <1>2, <1>3, <1>4, InvHolds, OutcomeHolds, LogInvHolds, PlaceHolds, PTL DEF Spec
=============================================================================

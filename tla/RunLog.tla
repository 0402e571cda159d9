------------------------------- MODULE RunLog -------------------------------
(***************************************************************************)
(* The run log of one conversation and what it replays to.                 *)
(*                                                                         *)
(* A conversation is a list of runs, ordered by creation; every run writes *)
(* events, ordered by the serial column seq.  The log of a chat is kept    *)
(* here in seq order, each event naming its run, so that appending is      *)
(* INSERT, MoveBehind is UPDATE ... SET seq = nextval(...), and Ordered is *)
(* the join "runs by created_at, events by seq" every reader uses.         *)
(*                                                                         *)
(* Only the kinds that the control flow or a reader tells apart are kept:  *)
(* streamed pieces, usage, notes, pixels and cleared tool results are not. *)
(* A turn makes one tool call.                                             *)
(***************************************************************************)
EXTENDS Naturals, FiniteSets, SequencesExt

CONSTANTS
  NRuns,   \* how many runs may ever be created
  NMsgs    \* how many messages people and Bots may ever send

ASSUME NRunsAssumption == NRuns \in Nat
ASSUME NMsgsAssumption == NMsgs \in Nat

Runs  == 1 .. NRuns    \* a run's number is its place in created_at order
Msgs  == 1 .. NMsgs    \* a message's number is its place in sending order
NoMsg == 0
NoRun == 0

(* What a person or the Bot wrote, and the kinds that open or end a run. *)
Kinds == {"user", "assistant", "turn", "tool_result", "compacting",
          "compaction", "context_cleared", "wiped", "error", "done"}

(* An event's identity within the log: its run and its ordinal there. *)
EventIds == (Runs \cup {NoRun}) \X Nat
NoEvent  == <<NoRun, 0>>

Event == [run : Runs, n : Nat, kind : Kinds, msg : Msgs \cup {NoMsg},
          after : EventIds]

IdOf(e) == <<e.run, e.n>>

OrdinalsOf(s, r) == {s[i].n : i \in {j \in DOMAIN s : s[j].run = r}}

(* The event run r writes next into log s: Emit, record, emitUserAt. *)
NewEvent(s, r, kind, msg, after) ==
  [run   |-> r,
   n     |-> Max({0} \cup OrdinalsOf(s, r)) + 1,
   kind  |-> kind,
   msg   |-> msg,
   after |-> after]

(* The elements of s that are in K, in the order they have in s. *)
Keep(s, K) ==
  LET kept[i \in 0 .. Len(s)] ==
        IF i = 0 THEN << >>
        ELSE IF s[i] \in K THEN Append(kept[i - 1], s[i]) ELSE kept[i - 1]
  IN kept[Len(s)]

IsUser(e, m) == e.kind = "user" /\ e.msg = m

(* The events of message m get a fresh seq: they go behind all the others. *)
MoveBehind(s, m) ==
  LET own == {e \in ToSet(s) : IsUser(e, m)}
  IN Keep(s, ToSet(s) \ own) \o Keep(s, own)

(* The same for every message of queue q, in the queue's order. *)
MoveAllBehind(s, q) ==
  LET waiting == {e \in ToSet(s) : e.kind = "user" /\ e.msg \in ToSet(q)}
  IN Keep(s, ToSet(s) \ waiting) \o Keep(s, waiting)

(* The conversation as every reader sees it: run by run, each by seq. *)
Ordered(s) ==
  LET upTo[r \in 0 .. NRuns] ==
        IF r = 0 THEN << >>
        ELSE upTo[r - 1] \o Keep(s, {e \in ToSet(s) : e.run = r})
  IN upTo[NRuns]

(* The event with the highest seq, which a compaction takes as its anchor. *)
LastEventId(s) == IF s = << >> THEN NoEvent ELSE IdOf(Last(s))

(* Positions of the events of a kind. *)
At(evs, kind) == {i \in DOMAIN evs : evs[i].kind = kind}

(* The most recent user message of a conversation, NoMsg if there is none. *)
LastUserMsg(s) ==
  LET evs == Ordered(s)
      at  == At(evs, "user")
  IN IF at = {} THEN NoMsg ELSE evs[Max(at)].msg

(* What is left of s, read as evs, after deleting message m's event and all *)
(* that follows it.                                                        *)
TruncateFrom(s, evs, m) ==
  LET from == Min({i \in DOMAIN evs : IsUser(evs[i], m)})
      gone == {evs[i] : i \in from .. Len(evs)}
  IN Keep(s, ToSet(s) \ gone)

(***************************************************************************)
(* Replay: the messages the model is sent for a conversation.              *)
(***************************************************************************)

ItemKinds == {"user", "assistant", "turn", "result", "summary"}
Item      == [kind : ItemKinds, run : Runs, msg : Msgs \cup {NoMsg}]

UserItem(r, m)  == [kind |-> "user", run |-> r, msg |-> m]
AssistantItem(r) == [kind |-> "assistant", run |-> r, msg |-> NoMsg]
TurnItem(r)     == [kind |-> "turn", run |-> r, msg |-> NoMsg]
ResultItem(r)   == [kind |-> "result", run |-> r, msg |-> NoMsg]
(* A compaction's summary with, in msg, the one message folded into it. *)
SummaryItem(r, m) == [kind |-> "summary", run |-> r, msg |-> m]

Shown == {"user", "assistant", "turn", "tool_result"}

(* A result is read back only when it answers the call right before it; a  *)
(* call left unanswered reads "interrupted", which is part of its turn.    *)
Answers(evs, i) ==
  \E j \in 1 .. i - 1 :
    /\ evs[j].kind = "turn" /\ evs[j].run = evs[i].run
    /\ \A k \in j + 1 .. i - 1 : evs[k].kind \notin Shown

ItemOf(e) ==
  CASE e.kind = "user"        -> UserItem(e.run, e.msg)
    [] e.kind = "assistant"   -> AssistantItem(e.run)
    [] e.kind = "turn"        -> TurnItem(e.run)
    [] e.kind = "tool_result" -> ResultItem(e.run)

ItemsOf(evs) ==
  LET read == Keep([i \in DOMAIN evs |-> i],
                {i \in DOMAIN evs : /\ evs[i].kind \in Shown
                                    /\ evs[i].kind = "tool_result" => Answers(evs, i)})
  IN [p \in DOMAIN read |-> ItemOf(evs[read[p]])]

(* Joins the message that comes right after a summary to it. *)
FoldFirst(summary, items) ==
  IF items # << >> /\ Head(items).kind = "user"
  THEN <<SummaryItem(summary.run, Head(items).msg)>> \o Tail(items)
  ELSE <<summary>> \o items

(* Nothing before the last /clear is read. *)
SinceClear(evs) ==
  LET at == At(evs, "context_cleared")
  IN IF at = {} THEN evs ELSE SubSeq(evs, Max(at) + 1, Len(evs))

(* Where replay starts for the compaction at i: after its anchor, or after *)
(* the compaction itself when the anchor is not before it.                 *)
CutAt(evs, i) ==
  LET anchors == {j \in 1 .. i - 1 : IdOf(evs[j]) = evs[i].after}
  IN IF anchors = {} THEN i + 1 ELSE Min(anchors) + 1

Replay(ordered) ==
  LET evs == SinceClear(ordered)
      at  == At(evs, "compaction")
  IN IF at = {} THEN ItemsOf(evs)
     ELSE LET i == Max(at)
          IN FoldFirst(SummaryItem(evs[i].run, NoMsg),
                       ItemsOf(SubSeq(evs, CutAt(evs, i), Len(evs))))

(* The model's context for a chat, as a run reads it from the database. *)
ContextOf(s) == Replay(Ordered(s))

(* The messages of people and Bots in a list of items. *)
MsgsIn(items) == {items[i].msg : i \in DOMAIN items} \ {NoMsg}

(* A thread's viewer shows a run as working from the event that opened it  *)
(* until the run's error or done event (web/src/useRunStream.ts).          *)
Opens  == {"user", "compacting"}
Closes == {"done", "error"}

BusyRuns(s) ==
  {r \in Runs : \E i \in DOMAIN s :
      /\ s[i].run = r /\ s[i].kind \in Opens
      /\ \A j \in i + 1 .. Len(s) : s[j].run = r => s[j].kind \notin Closes}
=============================================================================

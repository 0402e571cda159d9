------------------------------- MODULE Viewers -------------------------------
(***************************************************************************)
(* A tab that follows one conversation: events are rows of run_events and  *)
(* are published on the Bot's bus (internal/app/app.go, agent_events.go),  *)
(* StreamRun replays the rows and follows the bus (ui.go), and the console *)
(* reads it, reconnecting behind the last event it got (web/src/           *)
(* useRunStream.ts).  Several emitters write one conversation: its run,    *)
(* the votes on its approvals, its subagents' reports.                     *)
(*                                                                         *)
(* Left out: paging (the newest turns of a thread come first), the streams *)
(* of a whole Bot, events that are published and never stored.             *)
(***************************************************************************)
EXTENDS Naturals, FiniteSets, SequencesExt

CONSTANTS NEvents,  \* events, numbered in the order their rows are made
          Messages, \* those that are a person's messages
          BusCap,   \* what a subscriber's channel holds (256 in the code)
          MaxDrops, \* connections that break
          MaxCuts   \* truncations of the conversation

ASSUME ViewerBounds ==
  /\ NEvents \in Nat /\ Messages \subseteq 1..NEvents
  /\ BusCap \in Nat \ {0} /\ MaxDrops \in Nat /\ MaxCuts \in Nat

VARIABLES place,   \* the seq of each event's row, 0 when it has none
          nextSeq, \* the serial column's next value
          stage,   \* what the emitter of each event has done
          cutting, \* a truncation that has not published its reset yet
          sub,     \* the viewer's subscription: none, in, or cut by Publish
          bus,     \* its channel
          relay,   \* where StreamRun stands
          anchor,  \* the seq StreamRun replays behind
          sentIds, \* StreamRun's seen
          wire,    \* what was sent and the tab has not read
          thread,  \* the thread as the tab shows it, all it has had
          drops, cuts, \* bounds
          overtaken, \* history: not yet published when a later row was
          passed,    \* history: were behind a message that then moved behind them
          moved,     \* history: messages that moved
          late,      \* history: published after their rows were deleted
          missed     \* history: a reset did not reach the tab

viewerVars == <<place, nextSeq, stage, cutting, sub, bus, relay, anchor, sentIds, wire, thread,
                drops, cuts, overtaken, passed, moved, late, missed>>
emitVars == <<place, nextSeq, stage, cutting, cuts, overtaken, passed, moved, late>>

EventIds == 1..NEvents
Reset    == 0 \* the transient event that says the history was truncated
HasRow(e) == place[e] # 0
After     == IF thread = <<>> THEN Reset ELSE Last(thread) \* after_event_id

ViewersInit ==
  /\ place = [e \in EventIds |-> 0] /\ nextSeq = 1
  /\ stage = [e \in EventIds |-> "new"]
  /\ cutting = FALSE /\ drops = 0 /\ cuts = 0
  /\ sub = "none" /\ bus = <<>> /\ relay = "off" /\ anchor = 0 /\ sentIds = {} /\ wire = <<>>
  /\ thread = <<>>
  /\ overtaken = {} /\ passed = {} /\ moved = {} /\ late = {} /\ missed = FALSE

-----------------------------------------------------------------------------
(* Publish gives the event to a subscriber whose channel has room; one     *)
(* that is full is closed and forgotten.                                   *)
OfferLossy(ev) ==
  /\ bus' = IF sub = "in" /\ Len(bus) < BusCap THEN Append(bus, ev) ELSE bus
  /\ UNCHANGED sub

OfferForgets(ev) ==
  IF sub = "in" /\ Len(bus) = BusCap
  THEN sub' = "lost" /\ UNCHANGED bus
  ELSE /\ bus' = IF sub = "in" THEN Append(bus, ev) ELSE bus
       /\ UNCHANGED sub

Offer(ev) ==
  IF sub = "in" /\ Len(bus) = BusCap
  THEN sub' = "cut" /\ UNCHANGED bus
  ELSE /\ bus' = IF sub = "in" THEN Append(bus, ev) ELSE bus
       /\ UNCHANGED sub

(* emitMeta and emitUserAt: the row first, then the bus.                   *)
StoreEvent(e) ==
  /\ stage[e] = "new" /\ \A f \in EventIds : f < e => stage[f] # "new"
  /\ place' = [place EXCEPT ![e] = nextSeq] /\ nextSeq' = nextSeq + 1
  /\ stage' = [stage EXCEPT ![e] = "stored"]
  /\ UNCHANGED <<cutting, sub, bus, relay, anchor, sentIds, wire, thread, drops, cuts,
                 overtaken, passed, moved, late, missed>>

PublishEvent(e) ==
  /\ stage[e] = "stored"
  /\ Offer(e)
  /\ stage' = [stage EXCEPT ![e] = "published"]
  /\ overtaken' = overtaken \union {f \in EventIds : stage[f] = "stored" /\ HasRow(f) /\ place[f] < place[e]}
  /\ late' = IF HasRow(e) THEN late ELSE late \union {e}
  /\ UNCHANGED <<place, nextSeq, cutting, relay, anchor, sentIds, wire, thread, drops,
                 cuts, passed, moved, missed>>

(* The live run reads an injected message: its row moves behind all others.*)
MoveMessage(m) ==
  /\ m \in Messages \ moved /\ stage[m] = "published" /\ HasRow(m)
  /\ place' = [place EXCEPT ![m] = nextSeq] /\ nextSeq' = nextSeq + 1
  /\ moved' = moved \union {m}
  /\ passed' = passed \union {e \in EventIds : place[e] > place[m]}
  /\ UNCHANGED <<stage, cutting, sub, bus, relay, anchor, sentIds, wire, thread, drops,
                 cuts, overtaken, late, missed>>

(* An edit, a deletion or a wipe: the rows from the last message on go,    *)
(* then every viewer is told to start over.                                *)
TruncateThread(m) ==
  /\ cuts < MaxCuts /\ ~cutting
  /\ m \in Messages /\ HasRow(m) /\ \A n \in Messages : place[n] <= place[m]
  /\ place' = [e \in EventIds |-> IF place[e] < place[m] THEN place[e] ELSE 0]
  /\ cutting' = TRUE /\ cuts' = cuts + 1
  /\ UNCHANGED <<nextSeq, stage, sub, bus, relay, anchor, sentIds, wire, thread, drops,
                 overtaken, passed, moved, late, missed>>

PublishReset ==
  /\ cutting
  /\ Offer(Reset)
  /\ cutting' = FALSE
  /\ missed' = (missed \/ (Len(bus') = Len(bus) /\ (relay # "off" \/ thread # <<>>)))
  /\ UNCHANGED <<place, nextSeq, stage, relay, anchor, sentIds, wire, thread, drops,
                 cuts, overtaken, passed, moved, late>>

-----------------------------------------------------------------------------
(* StreamRun subscribes before it reads anything.                          *)
OpenStream ==
  /\ relay = "off"
  /\ relay' = "subscribed" /\ sub' = "in" /\ bus' = <<>> /\ sentIds' = {} /\ wire' = <<>>
  /\ UNCHANGED <<emitVars, thread, anchor, drops, missed>>

(* An anchor that is gone replays from the start.                          *)
FindAnchor ==
  /\ relay = "subscribed"
  /\ anchor' = IF After = Reset THEN 0 ELSE place[After]
  /\ relay' = "anchored"
  /\ UNCHANGED <<emitVars, thread, sub, bus, sentIds, wire, drops, missed>>

Behind(s) == {e \in EventIds : place[e] > s}
InSeqOrder(es) == CHOOSE q \in [1..Cardinality(es) -> es] :
  \A i, j \in DOMAIN q : i < j => place[q[i]] < place[q[j]]

ReplayThenSubscribe ==
  /\ relay = "anchored"
  /\ wire' = InSeqOrder(Behind(anchor)) /\ sentIds' = Behind(anchor)
  /\ relay' = "live" /\ sub' = "in" /\ bus' = <<>>
  /\ UNCHANGED <<emitVars, thread, anchor, drops, missed>>

ReplayRows ==
  /\ relay = "anchored"
  /\ wire' = InSeqOrder(Behind(anchor)) /\ sentIds' = Behind(anchor)
  /\ relay' = "live"
  /\ UNCHANGED <<emitVars, thread, sub, bus, anchor, drops, missed>>

(* What the replay already sent is not sent again.                         *)
Follow ==
  /\ relay = "live" /\ bus # <<>>
  /\ bus' = Tail(bus)
  /\ wire' = IF Head(bus) \in sentIds THEN wire ELSE Append(wire, Head(bus))
  /\ sentIds' = IF Head(bus) = Reset THEN sentIds ELSE sentIds \union {Head(bus)}
  /\ UNCHANGED <<emitVars, thread, sub, relay, anchor, drops, missed>>

(* A closed channel is drained, then the stream ends with an error.        *)
Overflowed ==
  /\ relay = "live" /\ bus = <<>> /\ sub = "cut"
  /\ relay' = "over" /\ sub' = "none"
  /\ UNCHANGED <<emitVars, thread, bus, anchor, sentIds, wire, drops, missed>>

-----------------------------------------------------------------------------
(* The tab skips what it has had.                                          *)
ReadEvent ==
  /\ wire # <<>> /\ Head(wire) # Reset
  /\ wire' = Tail(wire)
  /\ thread' = IF Head(wire) \in ToSet(thread) THEN thread ELSE Append(thread, Head(wire))
  /\ UNCHANGED <<emitVars, sub, bus, relay, anchor, sentIds, drops, missed>>

Closed == /\ sub' = "none" /\ bus' = <<>> /\ wire' = <<>> /\ relay' = "off"
          /\ anchor' = 0 /\ sentIds' = {}

(* A reset drops the thread and starts over with a stream of its own.      *)
ReadResetKeeps ==
  /\ wire # <<>> /\ Head(wire) = Reset
  /\ Closed /\ missed' = FALSE
  /\ UNCHANGED <<emitVars, thread, drops>>

ReadReset ==
  /\ wire # <<>> /\ Head(wire) = Reset
  /\ Closed /\ missed' = FALSE
  /\ thread' = <<>>
  /\ UNCHANGED <<emitVars, drops>>

StreamFails ==
  /\ relay = "over" /\ wire = <<>>
  /\ Closed
  /\ UNCHANGED <<emitVars, thread, drops, missed>>

(* The connection breaks; what was under way is gone.                      *)
DropStream ==
  /\ relay # "off" /\ drops < MaxDrops
  /\ Closed
  /\ drops' = drops + 1
  /\ missed' = (missed \/ (thread # <<>> /\ Reset \in ToSet(bus) \union ToSet(wire)))
  /\ UNCHANGED <<emitVars, thread>>

-----------------------------------------------------------------------------
StreamMoves ==
  \/ PublishReset \/ OpenStream \/ FindAnchor \/ ReplayRows \/ Follow \/ Overflowed
  \/ ReadEvent \/ ReadReset \/ StreamFails

ViewersNext ==
  \/ \E e \in EventIds : StoreEvent(e) \/ PublishEvent(e) \/ MoveMessage(e) \/ TruncateThread(e)
  \/ StreamMoves \/ DropStream

ViewersSpec == ViewersInit /\ [][ViewersNext]_viewerVars /\ WF_viewerVars(StreamMoves)

-----------------------------------------------------------------------------
(* Every variable of the stream and the tab keeps its type.                *)
ViewersTypeOK ==
  /\ nextSeq \in 1..2 * NEvents + 1 /\ place \in [EventIds -> 0..2 * NEvents]
  /\ stage \in [EventIds -> {"new", "stored", "published"}]
  /\ sub \in {"none", "in", "cut"} /\ Len(bus) <= BusCap
  /\ relay \in {"off", "subscribed", "anchored", "live", "over"}
  /\ anchor \in 0..2 * NEvents
  /\ sentIds \subseteq EventIds /\ ToSet(thread) \subseteq EventIds

(* The tab has read all that StreamRun and the bus have for it.            *)
Settled == relay = "live" /\ sub = "in" /\ bus = <<>> /\ wire = <<>> /\ ~cutting

(* Over any number of reconnections a tab misses no event, but one that   *)
(* was not published yet when a later row was, or was behind a message     *)
(* that then moved behind it: a reconnection may start behind such an one. *)
SeesAll == Settled =>
  {e \in EventIds : HasRow(e) /\ stage[e] = "published"}
    \subseteq ToSet(thread) \union overtaken \union passed

(* A tab that was told of every truncation shows nothing that was deleted, *)
(* but an event published after its row went.                              *)
ShowsNothingGone == Settled /\ ~missed => \A e \in ToSet(thread) : HasRow(e) \/ e \in late

(* The thread is shown once each and in the log's order, but for messages  *)
(* that moved, what they passed, and events published behind a later one.  *)
ShownInOrder ==
  /\ Cardinality(ToSet(thread)) = Len(thread)
  /\ \A i, j \in DOMAIN thread :
       i < j /\ HasRow(thread[i]) /\ HasRow(thread[j]) =>
         \/ place[thread[i]] < place[thread[j]]
         \/ thread[i] \in moved \/ thread[j] \in overtaken \union passed

ViewersSafe == ViewersTypeOK /\ SeesAll /\ ShowsNothingGone /\ ShownInOrder

(* A tab that stays open catches up again and again, through overflows of  *)
(* its channel, broken connections and truncations.                        *)
ViewerCatchesUp == []<>Settled
=============================================================================

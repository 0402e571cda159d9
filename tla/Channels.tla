------------------------------- MODULE Channels -------------------------------
(***************************************************************************)
(* One channel of a Bot: the workers startChannel runs and replaces, the   *)
(* map an adapter keeps its connection in (internal/app/channel/channel.go,*)
(* internal/channels/telegram, discord, whatsapp), and the messages that   *)
(* come in: seen once, delivered to the conversation one behind the other  *)
(* (deliverInbound, media.go, channels/seen.go).                           *)
(*                                                                         *)
(* Left out: the status line and the saved state, picking a conversation,  *)
(* what goes out, validation that fails.  One conversation is modelled.    *)
(***************************************************************************)
EXTENDS Naturals, FiniteSets, SequencesExt

CONSTANTS NEditors,    \* updates and deletions of the channel
          NInbound,    \* messages people send, in the order they send them
          WithFiles,   \* those that carry a file, which takes its time
          SeenCap,     \* ids a Seen holds (4096 in the code)
          MaxRepeats,  \* deliveries the platform repeats
          MaxWorkerEnds \* workers that end on their own

ASSUME ChannelBounds ==
  /\ NEditors \in Nat \ {0} /\ NInbound \in Nat \ {0} /\ WithFiles \subseteq 1..NInbound
  /\ SeenCap \in Nat \ {0} /\ MaxRepeats \in Nat /\ MaxWorkerEnds \in Nat

VARIABLES row,        \* the channel's row: on, off or gone
          editor,     \* where each update or deletion stands
          wants,      \* what it writes
          cancels,    \* Service.cancel: the worker it would cancel, 0 without one
          canceled,   \* workers whose context is over
          worker,     \* where the worker each editor started stands
          client,     \* the adapter's connection of the channel, 0 without one
          overlapped, \* history: two editors were between their read and their end
          seen,       \* the ids handled already
          holds,      \* the message each worker's event loop is at, 0 between two
          atOnce,     \* workers that found the lane free and hand theirs at once
          lane,       \* the conversation's lane: the job at work and those behind
          jobOver,    \* the job at work is done, next was not called yet
          arrived, repeats, ends, \* bounds
          delivered,  \* what was delivered to the conversation, in order
          came,       \* history: accepted messages in the order they were
          through,    \* history: the worker each came through
          forgot      \* history: ids taken out of seen again

editVars    == <<row, editor, wants, overlapped>>
listenVars  == <<cancels, canceled, worker, client, ends>>
inboundVars == <<seen, holds, atOnce, lane, jobOver, arrived, repeats, delivered, came, through, forgot>>
channelVars == <<editVars, listenVars, inboundVars>>

Editors == 1..NEditors \* each starts a worker at most, of its own number
Inbound == 1..NInbound

ChannelsInit ==
  /\ row = "off" /\ cancels = 0 /\ canceled = {} /\ client = 0 /\ overlapped = FALSE
  /\ editor = [o \in Editors |-> "new"] /\ wants = [o \in Editors |-> "none"]
  /\ worker = [o \in Editors |-> "none"]
  /\ seen = {} /\ lane = <<>> /\ jobOver = FALSE /\ atOnce = {}
  /\ holds = [o \in Editors |-> 0] /\ arrived = 0 /\ repeats = 0 /\ ends = 0
  /\ delivered = <<>> /\ came = <<>> /\ forgot = {}
  /\ through = [m \in Inbound |-> 0]

-----------------------------------------------------------------------------
Editing == {o \in Editors : editor[o] \in {"read", "saved", "stopped"}}

(* UpdateChannel and DeleteChannel read the row; one that is gone is not   *)
(* found.                                                                  *)
ReadChannel(o) ==
  /\ editor[o] = "new" /\ row # "gone" /\ \A p \in Editors : p < o => editor[p] # "new"
  /\ \E w \in {"on", "off", "gone"} : wants' = [wants EXCEPT ![o] = w]
  /\ editor' = [editor EXCEPT ![o] = "read"]
  /\ overlapped' = (overlapped \/ Editing # {})
  /\ UNCHANGED <<row, listenVars, inboundVars>>

(* An update saves its row, a deletion stops the worker first.             *)
SaveChannel(o) ==
  /\ editor[o] = "read" /\ wants[o] # "gone"
  /\ row' = wants[o]
  /\ editor' = [editor EXCEPT ![o] = "saved"]
  /\ UNCHANGED <<wants, overlapped, listenVars, inboundVars>>

StopEnabled(o) ==
  /\ editor[o] \in {"saved", "read"} /\ (editor[o] = "read" <=> wants[o] = "gone")
  /\ canceled' = IF wants[o] = "on" THEN canceled ELSE canceled \union ({cancels} \ {0})
  /\ cancels' = 0
  /\ editor' = [editor EXCEPT ![o] = "stopped"]
  /\ UNCHANGED <<row, wants, overlapped, worker, client, ends, inboundVars>>

(* stopChannel: the worker in the map is canceled and forgotten.           *)
StopChannel(o) ==
  /\ editor[o] \in {"saved", "read"} /\ (editor[o] = "read" <=> wants[o] = "gone")
  /\ canceled' = canceled \union ({cancels} \ {0}) /\ cancels' = 0
  /\ editor' = [editor EXCEPT ![o] = "stopped"]
  /\ UNCHANGED <<row, wants, overlapped, worker, client, ends, inboundVars>>

(* The rest of startChannel; only an enabled channel gets a worker.        *)
StartWorker(o) ==
  /\ editor[o] = "stopped" /\ wants[o] = "on"
  /\ cancels' = o /\ worker' = [worker EXCEPT ![o] = "begun"]
  /\ editor' = [editor EXCEPT ![o] = "over"]
  /\ UNCHANGED <<row, wants, overlapped, canceled, client, ends, inboundVars>>

StayStopped(o) ==
  /\ editor[o] = "stopped" /\ wants[o] # "on"
  /\ row' = IF wants[o] = "gone" THEN "gone" ELSE row
  /\ editor' = [editor EXCEPT ![o] = "over"]
  /\ UNCHANGED <<wants, overlapped, listenVars, inboundVars>>

-----------------------------------------------------------------------------
(* The adapter's Start puts its connection in its map, by the channel.     *)
Listen(o) ==
  /\ worker[o] = "begun"
  /\ worker' = [worker EXCEPT ![o] = "listening"] /\ client' = o
  /\ UNCHANGED <<editVars, cancels, canceled, ends, inboundVars>>

(* A worker that was canceled, or fails, ends; what it deferred takes the  *)
(* channel's connection out of the map, whosever it is.  With it go the ids *)
(* telegram has seen of the channel (dropClient); the other adapters keep  *)
(* theirs, in a Seen of the adapter's.                                     *)
WorkerEnds(o) ==
  /\ worker[o] = "listening" /\ holds[o] = 0
  /\ o \notin canceled => ends < MaxWorkerEnds
  /\ ends' = IF o \in canceled THEN ends ELSE ends + 1
  /\ worker' = [worker EXCEPT ![o] = "over"] /\ client' = 0
  /\ \E drops \in {{}, seen} : seen' = seen \ drops /\ forgot' = forgot \union drops
  /\ UNCHANGED <<editVars, cancels, canceled, holds, atOnce, lane, jobOver, arrived, repeats,
                 delivered, came, through>>

-----------------------------------------------------------------------------
(* The platform's next message, or one it has delivered before.            *)
Comes(m) ==
  \/ m = arrived + 1 /\ arrived' = m /\ UNCHANGED repeats
  \/ m <= arrived /\ repeats < MaxRepeats /\ repeats' = repeats + 1 /\ UNCHANGED arrived

(* Seen.Add: a full set forgets everything at once.                        *)
Remember(m) ==
  /\ seen' = IF Cardinality(seen) >= SeenCap THEN {m} ELSE seen \union {m}
  /\ forgot' = IF Cardinality(seen) >= SeenCap THEN forgot \union seen ELSE forgot

(* What was seen is dropped; so is what comes while the channel is off, and *)
(* what telegram dates before its worker's start (liveSince).  Dates are   *)
(* whole seconds, so any message but the worker's own may count as older.  *)
(* A row that is gone leaves the worker with the one it was started with.  *)
Receive(o, m) ==
  /\ worker[o] = "listening" /\ holds[o] = 0
  /\ Comes(m)
  /\ \E old \in {FALSE, through[m] # o} :
     IF old \/ m \in seen
     THEN UNCHANGED <<seen, forgot, holds, came, through>>
     ELSE /\ Remember(m)
          /\ IF row = "off"
             THEN UNCHANGED <<holds, came, through>>
             ELSE /\ holds' = [holds EXCEPT ![o] = m]
                  /\ came' = Append(came, m)
                  /\ through' = [through EXCEPT ![m] = o]
  /\ UNCHANGED <<editVars, listenVars, atOnce, lane, jobOver, delivered>>

(* The lane is occupied while a job is at work in it, the last one too.    *)
SomeWait == Len(lane) > 1
Occupied == lane # <<>>

(* A message without files goes straight in when the lane is free.         *)
HandAtOnce(o) ==
  /\ holds[o] # 0 /\ o \notin atOnce /\ holds[o] \notin WithFiles /\ ~Occupied
  /\ atOnce' = atOnce \union {o}
  /\ UNCHANGED <<editVars, listenVars, seen, holds, lane, jobOver, arrived, repeats, delivered,
                 came, through, forgot>>

(* Any other waits its turn in the lane; the event loop goes on.           *)
QueueBehind(o) ==
  /\ holds[o] # 0 /\ o \notin atOnce /\ (holds[o] \in WithFiles \/ Occupied)
  /\ lane' = Append(lane, holds[o])
  /\ holds' = [holds EXCEPT ![o] = 0]
  /\ UNCHANGED <<editVars, listenVars, seen, atOnce, jobOver, arrived, repeats, delivered, came,
                 through, forgot>>

Hand(o) ==
  /\ o \in atOnce
  /\ delivered' = Append(delivered, holds[o])
  /\ holds' = [holds EXCEPT ![o] = 0] /\ atOnce' = atOnce \ {o}
  /\ UNCHANGED <<editVars, listenVars, seen, lane, jobOver, arrived, repeats, came, through,
                 forgot>>

LaneHands ==
  /\ lane # <<>> /\ ~jobOver
  /\ delivered' = Append(delivered, Head(lane))
  /\ jobOver' = TRUE
  /\ UNCHANGED <<editVars, listenVars, seen, holds, atOnce, lane, arrived, repeats, came, through,
                 forgot>>

(* next: the lane is free only when the last job in it is done.            *)
LaneNext ==
  /\ jobOver
  /\ lane' = Tail(lane) /\ jobOver' = FALSE
  /\ UNCHANGED <<editVars, listenVars, seen, holds, atOnce, arrived, repeats, delivered, came,
                 through, forgot>>

-----------------------------------------------------------------------------
LoopGoesOn(o) == HandAtOnce(o) \/ QueueBehind(o) \/ Hand(o)
InboundRuns == LaneHands \/ LaneNext \/ \E o \in Editors : LoopGoesOn(o)

ChannelsNext ==
  \/ \E o \in Editors :
       \/ ReadChannel(o) \/ SaveChannel(o) \/ StopChannel(o) \/ StartWorker(o) \/ StayStopped(o)
       \/ Listen(o) \/ WorkerEnds(o) \/ \E m \in Inbound : Receive(o, m)
  \/ InboundRuns

ChannelsSpec == ChannelsInit /\ [][ChannelsNext]_channelVars /\ WF_channelVars(InboundRuns)

-----------------------------------------------------------------------------
(* Every variable of the channel keeps its type.                           *)
ChannelsTypeOK ==
  /\ row \in {"on", "off", "gone"} /\ wants \in [Editors -> {"none", "on", "off", "gone"}]
  /\ editor \in [Editors -> {"new", "read", "saved", "stopped", "over"}]
  /\ cancels \in 0..NEditors /\ canceled \subseteq Editors /\ client \in 0..NEditors
  /\ worker \in [Editors -> {"none", "begun", "listening", "over"}]
  /\ seen \subseteq Inbound /\ Cardinality(seen) <= SeenCap
  /\ holds \in [Editors -> 0..NInbound] /\ atOnce \subseteq Editors

(* Workers that go on until somebody cancels them.                         *)
Free == {o \in Editors : worker[o] \in {"begun", "listening"}} \ canceled

(* While updates do not cross, no worker runs that nobody can stop, and a  *)
(* channel that is off or gone has none.                                   *)
WorkersAreKnown == ~overlapped =>
  /\ Free \subseteq {cancels}
  /\ Editing = {} /\ row # "on" => Free = {}

Place(m) == CHOOSE i \in DOMAIN came : came[i] = m

(* Messages that came through one worker reach the conversation in their   *)
(* order, however long a file before them takes; what was taken out of     *)
(* seen and comes again may come out of it.                                *)
HandedInOrder ==
  \A i, j \in DOMAIN delivered :
    i < j /\ through[delivered[i]] = through[delivered[j]] =>
      \/ Place(delivered[i]) < Place(delivered[j])
      \/ {delivered[i], delivered[j]} \cap forgot # {}

(* What the platform sends again is not delivered again, whichever worker  *)
(* gets it, until it was taken out of seen: by a full Seen, which forgets  *)
(* everything, or by the end of a worker of telegram's, its predecessor's  *)
(* late end included.                                                      *)
HandedOnce ==
  \A i, j \in DOMAIN delivered : i # j /\ delivered[i] = delivered[j] => delivered[i] \in forgot

(* A worker that listens, may go on and is the only one left has its       *)
(* connection in the adapter's map, which is what Send looks in.           *)
ListenerCanSend == \A o \in Editors :
  worker[o] = "listening" /\ o \notin canceled
    /\ (\A p \in Editors \ {o} : worker[p] \in {"none", "over"})
    => client = o

(* What holds of a channel's workers and messages in every state.          *)
ChannelsSafe == ChannelsTypeOK /\ WorkersAreKnown /\ HandedInOrder /\ HandedOnce

(* Every message that was taken in reaches its conversation.               *)
InboundIsHanded == []<>(lane = <<>> /\ \A o \in Editors : holds[o] = 0)
==============================================================================

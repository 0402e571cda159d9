------------------------------ MODULE Sessions ------------------------------
(***************************************************************************)
(* Worker sessions of one Bot (internal/hub/hub.go), the Commands stream   *)
(* that carries them (internal/app/worker.go) and the worker's command     *)
(* loop in the box (cmd/silo-worker/main.go).                              *)
(*                                                                         *)
(* A worker opens one Commands stream after another; each is attached to   *)
(* the Hub as a session.  Calls (Hub.ExecResult) put a command on the      *)
(* session's bounded queue and wait for its answer, the end of their       *)
(* context or the death of the session.  The network may cut a stream at   *)
(* any time; either end notices on its own.  A lifecycle operation may     *)
(* drop the session while the stream stays up.                             *)
(***************************************************************************)
EXTENDS Integers, Sequences, FiniteSets

CONSTANTS NSessions,  \* Commands streams the worker opens
          NCommands,  \* calls of ExecResult
          SendCap,    \* capacity of Session.Send (8 in the code)
          MaxHubDrops \* Hub.Drop by a lifecycle operation

ASSUME SessionBounds ==
  /\ NSessions \in Nat \ {0}
  /\ NCommands \in Nat \ {0}
  /\ SendCap \in Nat \ {0}
  /\ MaxHubDrops \in Nat

VARIABLES hub,      \* Hub.m: the session of the Bot, 0 without one
          session,  \* new, open, or dead (Session.dead closed)
          stream,   \* new, up, cut by the network, over (handler returned)
          link,     \* the stream the worker believes open, 0 without one
          queue,    \* Session.Send: commands and cancels
          expected, \* Session.wait: the ids that wait for an answer
          call,     \* where each ExecResult stands
          at,       \* the session each ExecResult works on
          reply,    \* its buffered channel
          job,      \* the command in the worker
          halt,     \* the cancel of an abandoned command
          coming,   \* answers the worker sent that the handler has not read
          hubDrops

sessionVars == <<hub, session, stream, link, queue, expected, call, at,
                 reply, job, halt, coming, hubDrops>>
workerVars == <<job, halt, coming>>
callVars   == <<call, at>>

Streams  == 1..NSessions
Commands == 1..NCommands
Sent     == [stop : BOOLEAN, id : Commands]

InCall   == {"got", "sending", "waiting"}
Returned == {"answered", "refused", "closed", "left"}

SessionsInit ==
  /\ hub = 0 /\ link = 0 /\ hubDrops = 0 /\ coming = {}
  /\ session  = [s \in Streams |-> "new"]
  /\ stream   = [s \in Streams |-> "new"]
  /\ queue    = [s \in Streams |-> <<>>]
  /\ expected = [s \in Streams |-> {}]
  /\ call     = [c \in Commands |-> "idle"]
  /\ at       = [c \in Commands |-> 0]
  /\ reply    = [c \in Commands |-> "none"]
  /\ job      = [c \in Commands |-> "none"]
  /\ halt     = [c \in Commands |-> "none"]

Dead(s)    == session[s] = "dead"
HasRoomForOneMore(s) == Len(queue[s]) <= SendCap
HasRoom(s) == Len(queue[s]) < SendCap

(* Session.close: the session dies and FailAll answers everyone who waits. *)
(* FailAll sends under Session.mu: it needs room in every channel.         *)
Unblocked(ss) == \A s \in ss : \A c \in expected[s] : reply[c] = "none"
Close(ss) ==
  /\ Unblocked(ss)
  /\ reply' = [c \in Commands |->
                 IF \E s \in ss : c \in expected[s] THEN "closed" ELSE reply[c]]
  /\ expected' = [s \in Streams |-> IF s \in ss THEN {} ELSE expected[s]]

-----------------------------------------------------------------------------
(* The worker's stream.                                                    *)

(* The retry loop opens the next stream; Hub.Attach closes the session it  *)
(* finds and puts the new one in its place under Hub.mu.                   *)
Connect == \E s \in Streams :
  /\ link = 0
  /\ session[s] = "new" /\ \A t \in 1..(s - 1) : session[t] # "new"
  /\ link' = s /\ hub' = s
  /\ stream' = [stream EXCEPT ![s] = "up"]
  /\ session' = [t \in Streams |-> IF t = s THEN "open"
                                   ELSE IF t = hub THEN "dead" ELSE session[t]]
  /\ Close({hub} \ {0})
  /\ UNCHANGED <<queue, callVars, workerVars, hubDrops>>

(* The connection breaks; what the worker had sent on it is lost.          *)
CutStream == \E s \in Streams :
  /\ stream[s] = "up"
  /\ stream' = [stream EXCEPT ![s] = "cut"]
  /\ coming' = {c \in coming : at[c] # s}
  /\ UNCHANGED <<hub, session, link, queue, expected, callVars, reply, job, halt,
                 hubDrops>>

WorkerNotices ==
  /\ link # 0 /\ stream[link] # "up"
  /\ link' = 0
  /\ UNCHANGED <<hub, session, stream, queue, expected, callVars, reply,
                 workerVars, hubDrops>>

(* The handler returns: Hub.Detach takes the session out of the Hub only   *)
(* when it is still the one there, and closes it.                          *)
DetachedAny(s) == 0
Detached(s) == IF hub = s THEN 0 ELSE hub
HandlerEnds == \E s \in Streams :
  /\ stream[s] = "cut"
  /\ stream' = [stream EXCEPT ![s] = "over"]
  /\ hub' = Detached(s)
  /\ session' = [session EXCEPT ![s] = "dead"]
  /\ IF Dead(s) THEN UNCHANGED <<reply, expected>> ELSE Close({s})
  /\ UNCHANGED <<link, queue, callVars, workerVars, hubDrops>>

(* Hub.Drop and CloseAll: the stream stays up, its handler is not told.    *)
HubDrop ==
  /\ hub # 0 /\ hubDrops < MaxHubDrops
  /\ hubDrops' = hubDrops + 1
  /\ hub' = 0
  /\ session' = [session EXCEPT ![hub] = "dead"]
  /\ Close({hub})
  /\ UNCHANGED <<stream, link, queue, callVars, workerVars>>

-----------------------------------------------------------------------------
(* Hub.ExecResult, step by step; calls are numbered in the order they      *)
(* begin.                                                                  *)

Goes(c, from, to) == call[c] = from /\ call' = [call EXCEPT ![c] = to]

GetSession(c) ==
  /\ \A b \in 1..(c - 1) : call[b] # "idle"
  /\ Goes(c, "idle", IF hub = 0 THEN "refused" ELSE "got")
  /\ at' = [at EXCEPT ![c] = hub]
  /\ UNCHANGED <<hub, session, stream, link, queue, expected, reply,
                 workerVars, hubDrops>>

Expect(c) ==
  /\ Goes(c, "got", "sending")
  /\ expected' = [expected EXCEPT ![at[c]] = @ \union {c}]
  /\ UNCHANGED <<hub, session, stream, link, queue, at, reply, workerVars,
                 hubDrops>>

SendCommand(c) ==
  /\ Goes(c, "sending", "waiting")
  /\ HasRoom(at[c])
  /\ queue' = [queue EXCEPT ![at[c]] = Append(@, [stop |-> FALSE, id |-> c])]
  /\ UNCHANGED <<hub, session, stream, link, expected, at, reply, workerVars,
                 hubDrops>>

(* Both selects also watch Session.dead: a call that expects its answer    *)
(* after FailAll has run finds out here.                                   *)
SendSeesDead(c) ==
  /\ Goes(c, "sending", "closed")
  /\ Dead(at[c])
  /\ UNCHANGED <<hub, session, stream, link, queue, expected, at, reply,
                 workerVars, hubDrops>>

SendGivesUp(c) ==
  /\ Goes(c, "sending", "left")
  /\ UNCHANGED <<hub, session, stream, link, queue, expected, at, reply,
                 workerVars, hubDrops>>

TakeReply(c) ==
  /\ Goes(c, "waiting", IF reply[c] = "result" THEN "answered" ELSE "closed")
  /\ reply[c] # "none"
  /\ UNCHANGED <<hub, session, stream, link, queue, expected, at, reply,
                 workerVars, hubDrops>>

WaitOnReplyOnly(c) == FALSE /\ UNCHANGED sessionVars
WaitSeesDead(c) ==
  /\ Goes(c, "waiting", "closed")
  /\ Dead(at[c])
  /\ UNCHANGED <<hub, session, stream, link, queue, expected, at, reply,
                 workerVars, hubDrops>>

(* The context ends: a cancel is queued if there is room, else dropped.    *)
(* The entry in Session.wait stays.                                        *)
LeaveCall(c) ==
  /\ Goes(c, "waiting", "left")
  /\ IF HasRoom(at[c])
     THEN /\ queue' = [queue EXCEPT ![at[c]] = Append(@, [stop |-> TRUE, id |-> c])]
          /\ halt' = [halt EXCEPT ![c] = "queued"]
     ELSE /\ halt' = [halt EXCEPT ![c] = "dropped"]
          /\ UNCHANGED queue
  /\ UNCHANGED <<hub, session, stream, link, expected, at, reply, job, coming,
                 hubDrops>>

-----------------------------------------------------------------------------
(* The handler and the worker.                                             *)

(* The handler writes the head of the queue to the stream; the worker      *)
(* starts a goroutine for it, for a cancel as for a command.               *)
HandlerSends == \E s \in Streams :
  /\ stream[s] = "up" /\ queue[s] # <<>>
  /\ queue' = [queue EXCEPT ![s] = Tail(@)]
  /\ LET m == Head(queue[s]) IN
     IF m.stop THEN /\ halt' = [halt EXCEPT ![m.id] = "received"]
                    /\ UNCHANGED job
               ELSE /\ job' = [job EXCEPT ![m.id] = "received"]
                    /\ UNCHANGED halt
  /\ UNCHANGED <<hub, session, stream, link, expected, callVars, reply, coming,
                 hubDrops>>

(* worker.run registers the command in worker.pending, then executes it.   *)
JobStarts(c) ==
  /\ job[c] = "received"
  /\ job' = [job EXCEPT ![c] = "running"]
  /\ UNCHANGED <<hub, session, stream, link, queue, expected, callVars, reply,
                 halt, coming, hubDrops>>

(* It ends, canceled or by itself, and answers on the stream it came on.   *)
JobEnds(c) ==
  /\ job[c] \in {"running", "canceled"}
  /\ job' = [job EXCEPT ![c] = "ended"]
  /\ coming' = IF stream[at[c]] = "up" THEN coming \union {c} ELSE coming
  /\ UNCHANGED <<hub, session, stream, link, queue, expected, callVars, reply,
                 halt, hubDrops>>

CancelLeaves(c) ==
  /\ halt[c] = "received"
  /\ halt' = [halt EXCEPT ![c] = "done"]
  /\ UNCHANGED <<hub, session, stream, link, queue, expected, callVars, reply,
                 job, coming, hubDrops>>

(* cancelJob finds only a command that is registered.                      *)
CancelJob(c) ==
  /\ halt[c] = "received"
  /\ halt' = [halt EXCEPT ![c] = IF job[c] = "received" THEN "early" ELSE "done"]
  /\ job' = [job EXCEPT ![c] = IF @ = "running" THEN "canceled" ELSE @]
  /\ UNCHANGED <<hub, session, stream, link, queue, expected, callVars, reply,
                 coming, hubDrops>>

(* Session.Resolve: the entry goes, then the channel gets the answer.      *)
StillExpected(c) == expected
Unexpected(c) == [expected EXCEPT ![at[c]] = @ \ {c}]
Resolve(c) ==
  /\ c \in coming
  /\ coming' = coming \ {c}
  /\ IF c \in expected[at[c]]
     THEN /\ reply[c] = "none"
          /\ reply' = [reply EXCEPT ![c] = "result"]
          /\ expected' = Unexpected(c)
     ELSE UNCHANGED <<reply, expected>>
  /\ UNCHANGED <<hub, session, stream, link, queue, callVars, job, halt, hubDrops>>

-----------------------------------------------------------------------------
CallMoves(c) ==
  \/ GetSession(c) \/ Expect(c) \/ SendCommand(c) \/ SendSeesDead(c)
  \/ TakeReply(c) \/ WaitSeesDead(c)

Ends  == WorkerNotices \/ HandlerEnds
Wires == HandlerSends \/ \E c \in Commands :
           JobStarts(c) \/ CancelJob(c) \/ Resolve(c)

SessionsNext ==
  \/ Connect \/ CutStream \/ Ends \/ HubDrop \/ Wires
  \/ \E c \in Commands : \/ CallMoves(c) \/ SendGivesUp(c) \/ LeaveCall(c)
                         \/ JobEnds(c)

(* Calls that have begun, the handler's loops and the worker's goroutines  *)
(* run on; a canceled command ends (its process is killed).  Nobody owes a *)
(* command its end by itself, and no network is asked to hold.             *)
SessionsFair ==
  \/ Ends \/ Wires
  \/ \E c \in Commands : \/ call[c] # "idle" /\ CallMoves(c)
                         \/ job[c] = "canceled" /\ JobEnds(c)

SessionsSpec == SessionsInit /\ [][SessionsNext]_sessionVars
                             /\ WF_sessionVars(SessionsFair)

-----------------------------------------------------------------------------
(* Every variable of the Hub, the streams and the worker keeps its type.   *)
SessionsTypeOK ==
  /\ hub \in 0..NSessions /\ link \in 0..NSessions /\ hubDrops \in 0..MaxHubDrops
  /\ session \in [Streams -> {"new", "open", "dead"}]
  /\ stream \in [Streams -> {"new", "up", "cut", "over"}]
  /\ queue \in [Streams -> Seq(Sent)] /\ \A s \in Streams : Len(queue[s]) <= SendCap
  /\ expected \in [Streams -> SUBSET Commands]
  /\ call \in [Commands -> InCall \union Returned \union {"idle"}]
  /\ at \in [Commands -> 0..NSessions]
  /\ reply \in [Commands -> {"none", "result", "closed"}]
  /\ job \in [Commands -> {"none", "received", "running", "canceled", "ended"}]
  /\ halt \in [Commands -> {"none", "queued", "dropped", "received", "early", "done"}]
  /\ coming \in SUBSET Commands

(* The session in the Hub is the one that is open: the late end of an      *)
(* older stream neither closes nor removes the session of a newer one, and *)
(* no open session is out of reach (Attach, Detach, Drop).                 *)
HubIsOpen == \A s \in Streams : session[s] = "open" <=> hub = s

(* Whoever sends an answer while it holds Session.mu finds room: an id     *)
(* that still waits has an empty channel, so neither FailAll nor Resolve   *)
(* can block the Hub behind a caller that left.                            *)
WaiterHasRoom ==
  \A s \in Streams : \A c \in expected[s] : reply[c] = "none" /\ at[c] = s

Lost(c) == at[c] # 0 /\ (stream[at[c]] # "up" \/ Dead(at[c]))

(* A call whose session dies, whose stream breaks or whose answer has come *)
(* returns, wherever between Get and the second select it stood.           *)
CallReturned(c) == call[c] \in InCall => ~Lost(c) /\ reply[c] = "none"

(* A cancel that found room in the queue ends its command, unless the      *)
(* stream breaks or the cancel's goroutine overtakes the command's.        *)
CancelEnded(c) ==
  \/ halt[c] \in {"none", "dropped", "early"}
  \/ job[c] \in {"canceled", "ended"} \/ Lost(c)

(* What holds of sessions and their waiting calls in every state: the Hub  *)
(* knows the open session, and who answers never blocks under its lock.    *)
SessionsSafe == SessionsTypeOK /\ HubIsOpen /\ WaiterHasRoom

(* Calls and cancelled commands come to their end: as each is made once,   *)
(* a moment comes again and again when none is left behind.                *)
CallsEnd == []<>(\A c \in Commands : CallReturned(c) /\ CancelEnded(c))
=============================================================================

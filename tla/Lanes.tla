-------------------------------- MODULE Lanes --------------------------------
(***************************************************************************)
(* One lane of a worker session (hub.lane in internal/hub/hub.go): the     *)
(* desktop or the console of a Bot, between the browser sockets that come  *)
(* and go (handleVNC, handleConsole in internal/app/vnc.go) and the        *)
(* worker's stream (VNC, Console in internal/app/worker.go).               *)
(*                                                                         *)
(* A viewer's channels, and the channel closed when it leaves, carry the   *)
(* viewer's number.  The worker's stream waits for a viewer, reads the     *)
(* lane step by step, serves one viewer and ends with it; the worker then  *)
(* opens the next stream (retryLoop in cmd/silo-worker/streams.go).        *)
(***************************************************************************)
EXTENDS Integers, FiniteSets

CONSTANTS NViewers,     \* browser sockets, in the order they begin
          NLaneStreams, \* streams the worker opens, one after another
          NFrames,      \* frames from the desktop
          LaneCap       \* capacity of a viewer's channel (64 in the code)

ASSUME LaneBounds ==
  /\ NViewers \in Nat \ {0} /\ NLaneStreams \in Nat \ {0}
  /\ NFrames \in Nat /\ LaneCap \in Nat \ {0}

VARIABLES leave,   \* lane.leave: the viewer whose leaving it tells, 0 without one
          pipes,   \* lane.toBrowser and toWorker: the viewer they were made for
          ping,    \* lane.on holds a ping
          viewer,  \* new, in, or out
          shut,    \* the session died: lane.shutdown has run
          feed,    \* where each stream of the worker stands
          reads,   \* the viewer whose input it forwards
          watches, \* the viewer whose leaving ends it
          shown,   \* frames in each viewer's channel
          push,    \* the frame the desktop pushes: 0, or the viewer it read
          frames   \* frames pushed so far

laneVars == <<leave, pipes, ping, viewer, shut, feed, reads, watches, shown,
              push, frames>>
pushVars == <<shown, push, frames>>
feedVars == <<feed, reads, watches>>

Viewers == 1..NViewers
Feeds   == 1..NLaneStreams
Asking  == {"waits", "sleeps", "found", "checked", "piped", "greeted"}

LanesInit ==
  /\ leave = 0 /\ pipes = 0 /\ ping = FALSE /\ shut = FALSE
  /\ viewer  = [v \in Viewers |-> "new"]
  /\ feed    = [f \in Feeds |-> "new"]
  /\ reads   = [f \in Feeds |-> 0]
  /\ watches = [f \in Feeds |-> 0]
  /\ shown   = [v \in Viewers |-> 0]
  /\ push = 0 /\ frames = 0

-----------------------------------------------------------------------------
(* Browser sockets.                                                        *)

BeginQuietly == \E v \in Viewers :
  /\ viewer[v] = "new" /\ \A u \in 1..(v - 1) : viewer[u] # "new"
  /\ viewer' = [viewer EXCEPT ![v] = "in"]
  /\ leave' = v /\ pipes' = v
  /\ UNCHANGED <<ping, shut, feedVars, pushVars>>

(* begin: fresh channels, the older viewer's leave is closed, a ping that  *)
(* never blocks.                                                           *)
BeginViewer == \E v \in Viewers :
  /\ viewer[v] = "new" /\ \A u \in 1..(v - 1) : viewer[u] # "new"
  /\ viewer' = [viewer EXCEPT ![v] = "in"]
  /\ leave' = v /\ pipes' = v /\ ping' = TRUE
  /\ UNCHANGED <<shut, feedVars, pushVars>>

(* end: an older viewer's end is ignored.                                  *)
LeaveAfterAny(v) == 0
LeaveAfter(v) == IF leave = v THEN 0 ELSE leave
EndViewer(v) ==
  /\ viewer[v] = "in"
  /\ viewer' = [viewer EXCEPT ![v] = "out"]
  /\ leave' = LeaveAfter(v)
  /\ UNCHANGED <<pipes, ping, shut, feedVars, pushVars>>

(* A socket writes a frame it was handed.                                  *)
ShowFrame(v) ==
  /\ viewer[v] = "in" /\ shown[v] > 0
  /\ shown' = [shown EXCEPT ![v] = @ - 1]
  /\ UNCHANGED <<leave, pipes, ping, viewer, shut, feedVars, push, frames>>

(* Session.close ends the lane and every loop that watches Session.dead.   *)
Shutdown ==
  /\ ~shut
  /\ shut' = TRUE /\ leave' = 0
  /\ UNCHANGED <<pipes, ping, viewer, feedVars, pushVars>>

-----------------------------------------------------------------------------
(* The worker's streams.                                                   *)

OpenFeed == \E f \in Feeds :
  /\ feed[f] = "new" /\ \A g \in Feeds : g < f => feed[g] = "over"
  /\ ~shut
  /\ feed' = [feed EXCEPT ![f] = "waits"]
  /\ UNCHANGED <<leave, pipes, ping, viewer, shut, reads, watches, pushVars>>

Steps(f, from, to) == feed[f] = from /\ feed' = [feed EXCEPT ![f] = to]

(* wait: a viewer is there, or the stream sleeps until a ping says to look *)
(* again.                                                                  *)
FeedLooks(f) ==
  /\ Steps(f, "waits", IF leave = 0 THEN "sleeps" ELSE "found")
  /\ UNCHANGED <<leave, pipes, ping, viewer, shut, reads, watches, pushVars>>

FeedPinged(f) ==
  /\ Steps(f, "sleeps", "waits")
  /\ ping
  /\ ping' = FALSE
  /\ UNCHANGED <<leave, pipes, viewer, shut, reads, watches, pushVars>>

(* gone := ViewerGone(), and around again when it is closed already.       *)
FeedChecks(f) ==
  /\ Steps(f, "found", IF leave = 0 THEN "waits" ELSE "checked")
  /\ UNCHANGED <<leave, pipes, ping, viewer, shut, reads, watches, pushVars>>

FeedPipes(f) ==
  /\ Steps(f, "checked", "piped")
  /\ reads' = [reads EXCEPT ![f] = pipes]
  /\ UNCHANGED <<leave, pipes, ping, viewer, shut, watches, pushVars>>

(* HasViewer, then the frame that tells the worker to begin.               *)
FeedGreets(f) ==
  /\ Steps(f, "piped", IF leave = 0 THEN "waits" ELSE "greeted")
  /\ UNCHANGED <<leave, pipes, ping, viewer, shut, reads, watches, pushVars>>

(* gone = ViewerGone() once more: closed already, or the viewer now there. *)
FeedServes(f) ==
  /\ Steps(f, "greeted", "serves")
  /\ watches' = [watches EXCEPT ![f] = leave]
  /\ UNCHANGED <<leave, pipes, ping, viewer, shut, reads, pushVars>>

(* The watched viewer has left, or an older one was served too long.       *)
FeedEnds(f) ==
  /\ Steps(f, "serves", "over")
  /\ leave # watches[f] \/ watches[f] = 0
  /\ UNCHANGED <<leave, pipes, ping, viewer, shut, reads, watches, pushVars>>

(* The session is dead, or the worker hung up: every select returns.       *)
FeedQuits(f) ==
  /\ feed[f] \in Asking \union {"serves"}
  /\ shut
  /\ feed' = [feed EXCEPT ![f] = "over"]
  /\ UNCHANGED <<leave, pipes, ping, viewer, shut, reads, watches, pushVars>>

(* The connection broke and the handler has noticed.  The worker opens its *)
(* next stream; two handlers at once are left out.                         *)
FeedBreaks(f) ==
  /\ feed[f] \in Asking \union {"serves"}
  /\ feed' = [feed EXCEPT ![f] = "over"]
  /\ UNCHANGED <<leave, pipes, ping, viewer, shut, reads, watches, pushVars>>

-----------------------------------------------------------------------------
(* push: the channel and the leave are read together, then the frame waits *)
(* for room.                                                               *)
PushBegins ==
  /\ push = 0 /\ frames < NFrames /\ \E f \in Feeds : feed[f] = "serves"
  /\ frames' = frames + 1
  /\ push' = leave
  /\ UNCHANGED <<leave, pipes, ping, viewer, shut, feedVars, shown>>

PushGoes ==
  /\ push # 0 /\ shown[push] < LaneCap
  /\ shown' = [shown EXCEPT ![push] = @ + 1]
  /\ push' = 0
  /\ UNCHANGED <<leave, pipes, ping, viewer, shut, feedVars, frames>>

PushWaitsForRoom == FALSE /\ UNCHANGED laneVars
PushGivesUp ==
  /\ push # 0 /\ (leave # push \/ shut)
  /\ push' = 0
  /\ UNCHANGED <<leave, pipes, ping, viewer, shut, feedVars, shown, frames>>

-----------------------------------------------------------------------------
FeedMoves(f) ==
  \/ FeedLooks(f) \/ FeedPinged(f) \/ FeedChecks(f) \/ FeedPipes(f)
  \/ FeedGreets(f) \/ FeedServes(f) \/ FeedEnds(f) \/ FeedQuits(f)

LaneRuns ==
  \/ PushGoes \/ PushGivesUp \/ OpenFeed
  \/ \E f \in Feeds : FeedMoves(f)
  \/ shut /\ \E v \in Viewers : EndViewer(v)

LanesNext ==
  \/ LaneRuns \/ BeginViewer \/ Shutdown \/ PushBegins
  \/ \E v \in Viewers : EndViewer(v) \/ ShowFrame(v)
  \/ \E f \in Feeds : FeedBreaks(f)

(* The streams, and a push that has room or whose viewer left, go on, and  *)
(* a socket on a dead session closes; no browser is asked to read, to      *)
(* leave or to come.                                                       *)
LanesSpec == LanesInit /\ [][LanesNext]_laneVars /\ WF_laneVars(LaneRuns)

-----------------------------------------------------------------------------
(* Every variable of the lane, its viewers and its streams keeps its type. *)
LanesTypeOK ==
  /\ leave \in 0..NViewers /\ pipes \in 0..NViewers
  /\ ping \in BOOLEAN /\ shut \in BOOLEAN
  /\ viewer \in [Viewers -> {"new", "in", "out"}]
  /\ feed \in [Feeds -> Asking \union {"new", "serves", "over"}]
  /\ reads \in [Feeds -> 0..NViewers] /\ watches \in [Feeds -> 0..NViewers]
  /\ shown \in [Viewers -> 0..LaneCap]
  /\ push \in 0..NViewers /\ frames \in 0..NFrames

Newest(v) == viewer[v] # "new" /\ \A u \in Viewers : u > v => viewer[u] = "new"

(* The newest viewer owns the lane as long as it stays: an older one that  *)
(* leaves after it began takes nothing from it.                            *)
NewestOwns == \A v \in Viewers :
  (Newest(v) /\ ~shut) => leave = (IF viewer[v] = "in" THEN v ELSE 0)

(* A viewer that stays is served by the worker's stream as long as the     *)
(* worker opens one: the ping of a viewer that came is never lost.         *)
ViewerIsServed ==
  []<>(\/ leave = 0
       \/ \E f \in Feeds : feed[f] = "serves" /\ watches[f] = leave
       \/ \A f \in Feeds : feed[f] = "over")

(* The desktop's push never waits for a viewer that has left.              *)
PushReturns == []<>(push = 0 \/ leave = push)

(* A stream forwards the input of the viewer whose leaving ends it: the    *)
(* newest one owns the lane (hub.go:33).                                   *)
ServesOneViewer == \A f \in Feeds :
  (feed[f] = "serves" /\ watches[f] # 0) => reads[f] = watches[f]

(* What holds of a lane in every state: the newest viewer owns it, and no  *)
(* channel outgrows its room.                                              *)
LanesSafe == LanesTypeOK /\ NewestOwns
=============================================================================

----------------------------- MODULE WorkerProofs -----------------------------
(***************************************************************************)
(* The worker's sessions, a lane of theirs and the dials through them, for *)
(* any number of streams, calls, viewers and dials: the Hub knows the open *)
(* session and never blocks under its lock, the newest viewer owns the     *)
(* lane, and no open connection into the box is without an owner.          *)
(***************************************************************************)
EXTENDS Sessions, Lanes, Dials, SequenceTheorems, TLAPS

-----------------------------------------------------------------------------
(* Dials.                                                                  *)

(* What a dial has to say to the worker's claim: while it is listed nobody *)
(* claimed it, and whoever claims it finds a dialer, or one who will clean *)
(* up behind it.                                                           *)
Unclaimed == {"none", "asked", "refused"}
DialKnown(d) ==
  /\ d \in listed => dial[d] \in {"sending", "waiting"} /\ claim[d] \in Unclaimed
  /\ dial[d] \in {"idle", "sending"} => claim[d] = "none"
  /\ claim[d] \in Unclaimed => handed[d] = "none" /\ conn[d] = "none"
  /\ dial[d] \in {"given", "done"} => claim[d] \in {"serving", "over"}
  /\ claim[d] = "claimed" => /\ handed[d] = "none" /\ conn[d] = "none"
                             /\ dial[d] = "waiting" \/ d \in drained
  /\ conn[d] = "open" => \/ dial[d] = "given"
                         \/ handed[d] = "conn" /\ (dial[d] = "waiting" \/ d \in drained)

DialsKnown == DialsTypeOK /\ \A d \in DialIds : DialKnown(d)

LEMMA DialsInitKnown == DialsInit => DialsKnown
BY DEF DialsInit, DialsKnown, DialsTypeOK, DialKnown, DialIds, Unclaimed

LEMMA DialsStepKnown == DialsKnown /\ [DialsNext]_dialVars => DialsKnown'
<1> SUFFICES ASSUME DialsKnown, [DialsNext]_dialVars PROVE DialsKnown'
  OBVIOUS
<1> USE DEF DialsKnown, DialsTypeOK, DialKnown, Unclaimed
<1>1. CASE SessionCloses
  BY <1>1 DEF SessionCloses
<1>2. ASSUME NEW d \in DialIds, DialSends(d) PROVE DialsKnown'
  BY <1>2 DEF DialSends
<1>3. ASSUME NEW d \in DialIds, DialTakes(d) PROVE DialsKnown'
  BY <1>3 DEF DialTakes
<1>4. ASSUME NEW d \in DialIds, DrainConn(d) PROVE DialsKnown'
  BY <1>4 DEF DrainConn
<1>5. ASSUME NEW d \in DialIds, TunnelEnds(d) PROVE DialsKnown'
  BY <1>5 DEF TunnelEnds
<1>6. ASSUME NEW d \in DialIds, ClaimTunnel(d) PROVE DialsKnown'
  BY <1>6 DEF ClaimTunnel
<1>7. ASSUME NEW d \in DialIds, DeliverConn(d) PROVE DialsKnown'
  BY <1>7 DEF DeliverConn
<1>8. ASSUME NEW d \in DialIds, DialBegins(d) PROVE DialsKnown'
  BY <1>8 DEF DialBegins
<1>9. ASSUME NEW d \in DialIds, DialLeaves(d) PROVE DialsKnown'
  BY <1>9 DEF DialLeaves
<1>10. ASSUME NEW d \in DialIds, HangUp(d) PROVE DialsKnown'
  BY <1>10 DEF HangUp
<1>11. ASSUME NEW d \in DialIds, DeliverError(d) PROVE DialsKnown'
  BY <1>11 DEF DeliverError
<1>12. ASSUME NEW d \in DialIds, ClaimLost(d) PROVE DialsKnown'
  BY <1>12 DEF ClaimLost
<1>13. CASE UNCHANGED dialVars
  BY <1>13 DEF dialVars
<1> QED
  BY <1>1, <1>2, <1>3, <1>4, <1>5, <1>6, <1>7, <1>8, <1>9, <1>10, <1>11, <1>12,
     <1>13 DEF DialsNext, DialRuns

(* No connection into the box is left open by a dialer that gave up and a  *)
(* worker that claimed the dial meanwhile (hub/tunnel.go, abandonTunnel),  *)
(* for any number of dials.                                                *)
THEOREM DialsSafeHolds == DialsSpec => []DialsSafe
<1>1. DialsKnown => DialsSafe
  BY DEF DialsKnown, DialKnown, DialsSafe, ConnHasOwner
<1> QED
  BY DialsInitKnown, DialsStepKnown, <1>1, PTL DEF DialsSpec

-----------------------------------------------------------------------------
(* Lanes.                                                                  *)

(* Viewers begin in their order. *)
InTurn == \A v, w \in Viewers : viewer[v] = "new" /\ v < w => viewer[w] = "new"

LaneOwned == LanesTypeOK /\ InTurn /\ NewestOwns

LEMMA LanesInitOwned == LanesInit => LaneOwned
<1> SUFFICES ASSUME LanesInit PROVE LaneOwned
  OBVIOUS
<1>a. 0 \in 0..NViewers /\ 0 \in 0..LaneCap /\ 0 \in 0..NFrames
  BY LaneBounds
<1>1. LanesTypeOK
  BY <1>a DEF LanesInit, LanesTypeOK
<1>2. \A v \in Viewers : viewer[v] = "new"
  BY DEF LanesInit
<1> QED
  BY <1>1, <1>2 DEF LaneOwned, InTurn, NewestOwns, Newest

(* What leaves the viewers and the lane's leave alone takes nothing from   *)
(* the owner.                                                              *)
LEMMA OwnerKept ==
  ASSUME LaneOwned, LanesTypeOK', viewer' = viewer, leave' = leave, shut' = shut
  PROVE  LaneOwned'
BY DEF LaneOwned, InTurn, NewestOwns, Newest

LEMMA LanesStepOwned == LaneOwned /\ [LanesNext]_laneVars => LaneOwned'
<1> SUFFICES ASSUME LaneOwned, [LanesNext]_laneVars PROVE LaneOwned'
  OBVIOUS
<1>t. LanesTypeOK /\ InTurn /\ NewestOwns
  BY DEF LaneOwned
<1>1. CASE PushGoes
  BY <1>1, <1>t, LaneBounds, OwnerKept
     DEF PushGoes, LanesTypeOK, feedVars, Viewers
<1>2. CASE PushGivesUp
  BY <1>2, <1>t, LaneBounds, OwnerKept DEF PushGivesUp, LanesTypeOK, feedVars
<1>3. CASE OpenFeed
  BY <1>3, <1>t, OwnerKept DEF OpenFeed, LanesTypeOK, pushVars, Asking
<1>4. ASSUME NEW f \in Feeds, FeedMoves(f) \/ FeedBreaks(f) PROVE LaneOwned'
  <2>1. /\ feed' \in [Feeds -> Asking \union {"new", "serves", "over"}]
        /\ reads' \in [Feeds -> 0..NViewers] /\ watches' \in [Feeds -> 0..NViewers]
        /\ ping' \in BOOLEAN
    BY <1>4, <1>t DEF FeedMoves, FeedLooks, FeedPinged, FeedChecks, FeedPipes,
       FeedGreets, FeedServes, FeedEnds, FeedQuits, FeedBreaks, Steps, Asking,
       LanesTypeOK
  <2>2. UNCHANGED <<leave, pipes, viewer, shut, pushVars>>
    BY <1>4 DEF FeedMoves, FeedLooks, FeedPinged, FeedChecks, FeedPipes,
       FeedGreets, FeedServes, FeedEnds, FeedQuits, FeedBreaks
  <2> QED
    BY <2>1, <2>2, <1>t, OwnerKept DEF LanesTypeOK, pushVars
<1>5. ASSUME NEW v \in Viewers, EndViewer(v) PROVE LaneOwned'
  <2>1. LanesTypeOK'
    BY <1>5, <1>t, LaneBounds DEF EndViewer, LeaveAfter, LanesTypeOK, feedVars, pushVars
  <2>2. /\ viewer[v] = "in" /\ viewer' = [viewer EXCEPT ![v] = "out"]
        /\ leave' = (IF leave = v THEN 0 ELSE leave) /\ shut' = shut
    BY <1>5 DEF EndViewer, LeaveAfter
  <2>3. InTurn'
    BY <2>2, <1>t DEF InTurn, LanesTypeOK
  <2>4. NewestOwns'
    BY <2>2, <1>t DEF NewestOwns, Newest, LanesTypeOK, Viewers
  <2> QED
    BY <2>1, <2>3, <2>4 DEF LaneOwned
<1>6. CASE BeginViewer
  <2>1. LanesTypeOK'
    BY <1>6, <1>t DEF BeginViewer, LanesTypeOK, feedVars, pushVars, Viewers
  <2>2. PICK v \in Viewers :
          /\ viewer[v] = "new" /\ \A u \in 1..(v - 1) : viewer[u] # "new"
          /\ viewer' = [viewer EXCEPT ![v] = "in"] /\ leave' = v
    BY <1>6 DEF BeginViewer
  <2>3. \A u \in Viewers : u < v => viewer[u] # "new"
    BY <2>2, LaneBounds DEF Viewers
  <2>4. \A u \in Viewers : v < u => viewer[u] = "new"
    BY <2>2, <1>t DEF InTurn
  <2>5. InTurn'
    BY <2>2, <2>3, <2>4, <1>t, LaneBounds DEF InTurn, LanesTypeOK, Viewers
  <2>6. NewestOwns'
    BY <2>2, <2>4, <1>t, LaneBounds DEF NewestOwns, Newest, LanesTypeOK, Viewers
  <2> QED
    BY <2>1, <2>5, <2>6 DEF LaneOwned
<1>7. CASE Shutdown
  BY <1>7, <1>t, LaneBounds DEF Shutdown, LaneOwned, LanesTypeOK, InTurn, NewestOwns,
                    feedVars, pushVars
<1>8. CASE PushBegins
  BY <1>8, <1>t, LaneBounds, OwnerKept DEF PushBegins, LanesTypeOK, feedVars
<1>9. ASSUME NEW v \in Viewers, ShowFrame(v) PROVE LaneOwned'
  BY <1>9, <1>t, LaneBounds, OwnerKept DEF ShowFrame, LanesTypeOK, feedVars
<1>10. CASE UNCHANGED laneVars
  BY <1>10, <1>t, OwnerKept DEF laneVars, LanesTypeOK
<1> QED
  BY <1>1, <1>2, <1>3, <1>4, <1>5, <1>6, <1>7, <1>8, <1>9, <1>10
     DEF LanesNext, LaneRuns

(* An older viewer that leaves takes the lane from no newer one (lane.end  *)
(* in hub/hub.go), for any number of viewers and streams.                  *)
THEOREM LanesSafeHolds == LanesSpec => []LanesSafe
<1>1. LaneOwned => LanesSafe
  BY DEF LaneOwned, LanesSafe
<1> QED
  BY LanesInitOwned, LanesStepOwned, <1>1, PTL DEF LanesSpec

-----------------------------------------------------------------------------
(* Sessions.                                                               *)

(* A call that got a session works on one of the streams, and only such a  *)
(* call is on a queue, at the worker or on its way back.                   *)
Got(c) == call[c] \notin {"idle", "refused"}
OnStream ==
  /\ \A c \in Commands : Got(c) => at[c] \in Streams
  /\ \A s \in Streams : \A i \in 1..Len(queue[s]) : Got(queue[s][i].id)
  /\ \A c \in Commands : job[c] # "none" => Got(c)
  /\ \A c \in coming : Got(c)

(* Nobody answers a call that does not expect its answer yet, and no       *)
(* session expects it.                                                     *)
FreshIsSilent ==
  \A c \in Commands : call[c] \in {"idle", "refused", "got"} =>
    reply[c] = "none" /\ \A s \in Streams : c \notin expected[s]

HubKnown == SessionsTypeOK /\ HubIsOpen /\ WaiterHasRoom /\ OnStream /\ FreshIsSilent

LEMMA SessionsInitKnown == SessionsInit => HubKnown
<1> SUFFICES ASSUME SessionsInit PROVE HubKnown
  OBVIOUS
<1>1. \A s \in Streams : /\ queue[s] = <<>> /\ expected[s] = {}
                         /\ session[s] = "new" /\ hub # s
  BY SessionBounds DEF SessionsInit, Streams
<1>2. queue \in [Streams -> Seq(Sent)] /\ \A s \in Streams : Len(queue[s]) <= SendCap
  BY <1>1, SessionBounds DEF SessionsInit
<1>3. SessionsTypeOK
  BY <1>2, SessionBounds DEF SessionsInit, SessionsTypeOK
<1>4. OnStream
  BY <1>1 DEF SessionsInit, OnStream, Got
<1> QED
  BY <1>1, <1>3, <1>4 DEF HubKnown, HubIsOpen, WaiterHasRoom, FreshIsSilent, SessionsInit

(* FailAll answers who waits on the closed sessions and nobody else.       *)
LEMMA CloseKeeps ==
  ASSUME HubKnown, NEW ss \in SUBSET Streams, Close(ss),
         UNCHANGED <<call, at, queue, job>>, coming' \subseteq coming
  PROVE  /\ reply' \in [Commands -> {"none", "result", "closed"}]
         /\ expected' \in [Streams -> SUBSET Commands]
         /\ WaiterHasRoom' /\ OnStream' /\ FreshIsSilent'
<1>t. /\ reply \in [Commands -> {"none", "result", "closed"}]
      /\ expected \in [Streams -> SUBSET Commands]
  BY DEF HubKnown, SessionsTypeOK
<1>1. /\ reply' = [c \in Commands |->
                    IF \E s \in ss : c \in expected[s] THEN "closed" ELSE reply[c]]
      /\ expected' = [s \in Streams |-> IF s \in ss THEN {} ELSE expected[s]]
  BY DEF Close
<1>2. WaiterHasRoom'
  <2> SUFFICES ASSUME NEW s \in Streams, NEW c \in expected'[s]
               PROVE  reply'[c] = "none" /\ at'[c] = s
    BY DEF WaiterHasRoom
  <2>1. s \notin ss /\ c \in expected[s] /\ c \in Commands
    BY <1>t, <1>1
  <2>2. reply[c] = "none" /\ at[c] = s
    BY <2>1 DEF HubKnown, WaiterHasRoom
  <2>3. \A r \in ss : c \notin expected[r]
    BY <2>1, <2>2 DEF HubKnown, WaiterHasRoom
  <2> QED
    BY <1>1, <2>1, <2>2, <2>3
<1>3. OnStream'
  BY DEF HubKnown, OnStream, Got
<1>4. FreshIsSilent'
  BY <1>t, <1>1 DEF HubKnown, FreshIsSilent
<1> QED
  BY <1>t, <1>1, <1>2, <1>3, <1>4

(* A step that leaves the Hub and its sessions alone.                      *)
HubStays == UNCHANGED <<hub, session, hubDrops>>

LEMMA HubStaysOpen == HubKnown /\ HubStays => HubIsOpen'
BY DEF HubKnown, HubStays, HubIsOpen

(* Attach, Detach and Drop: the open session is the Hub's, and who closes  *)
(* one finds room for every answer.                                        *)
LEMMA StreamsKeep ==
  HubKnown /\ (Connect \/ CutStream \/ Ends \/ HubDrop) => HubKnown'
<1> SUFFICES ASSUME HubKnown, Connect \/ CutStream \/ Ends \/ HubDrop PROVE HubKnown'
  OBVIOUS
<1>t. SessionsTypeOK /\ HubIsOpen /\ WaiterHasRoom /\ OnStream /\ FreshIsSilent
  BY DEF HubKnown
<1>1. CASE Connect
  <2>1. PICK s \in Streams :
          /\ session[s] = "new" /\ link' = s /\ hub' = s
          /\ stream' = [stream EXCEPT ![s] = "up"]
          /\ session' = [r \in Streams |-> IF r = s THEN "open"
                                           ELSE IF r = hub THEN "dead" ELSE session[r]]
    BY <1>1 DEF Connect
  <2>2. /\ Close({hub} \ {0})
        /\ UNCHANGED <<queue, call, at, job, halt, coming, hubDrops>>
    BY <1>1 DEF Connect, callVars, workerVars
  <2>3. {hub} \ {0} \in SUBSET Streams
    BY <1>t, SessionBounds DEF SessionsTypeOK, Streams
  <2>4. /\ reply' \in [Commands -> {"none", "result", "closed"}]
        /\ expected' \in [Streams -> SUBSET Commands]
        /\ WaiterHasRoom' /\ OnStream' /\ FreshIsSilent'
    BY <2>2, <2>3, CloseKeeps
  <2>5. SessionsTypeOK'
    BY <1>t, <2>1, <2>2, <2>4, SessionBounds DEF SessionsTypeOK, Streams
  <2>6. HubIsOpen'
    BY <1>t, <2>1 DEF SessionsTypeOK, HubIsOpen
  <2> QED
    BY <2>4, <2>5, <2>6 DEF HubKnown
<1>2. CASE CutStream
  <2>1. SessionsTypeOK'
    BY <1>2, <1>t DEF CutStream, SessionsTypeOK, callVars
  <2>2. HubIsOpen' /\ WaiterHasRoom' /\ FreshIsSilent'
    BY <1>2, <1>t DEF CutStream, callVars, HubIsOpen, WaiterHasRoom, FreshIsSilent
  <2>3. OnStream'
    BY <1>2, <1>t DEF CutStream, callVars, OnStream, Got
  <2> QED
    BY <2>1, <2>2, <2>3 DEF HubKnown
<1>3. CASE WorkerNotices
  <2>1. SessionsTypeOK'
    BY <1>3, <1>t, SessionBounds DEF WorkerNotices, SessionsTypeOK, callVars, workerVars
  <2>2. HubIsOpen' /\ WaiterHasRoom' /\ FreshIsSilent' /\ OnStream'
    BY <1>3, <1>t DEF WorkerNotices, callVars, workerVars, HubIsOpen, WaiterHasRoom,
       FreshIsSilent, OnStream, Got
  <2> QED
    BY <2>1, <2>2 DEF HubKnown
<1>4. CASE HandlerEnds
  <2>1. PICK s \in Streams :
          /\ stream' = [stream EXCEPT ![s] = "over"]
          /\ hub' = Detached(s)
          /\ session' = [session EXCEPT ![s] = "dead"]
          /\ IF Dead(s) THEN UNCHANGED <<reply, expected>> ELSE Close({s})
    BY <1>4 DEF HandlerEnds
  <2>2. UNCHANGED <<link, queue, call, at, job, halt, coming, hubDrops>>
    BY <1>4 DEF HandlerEnds, callVars, workerVars
  <2>3. /\ reply' \in [Commands -> {"none", "result", "closed"}]
        /\ expected' \in [Streams -> SUBSET Commands]
        /\ WaiterHasRoom' /\ OnStream' /\ FreshIsSilent'
    <3>1. CASE Dead(s)
      BY <3>1, <2>1, <2>2, <1>t DEF SessionsTypeOK, WaiterHasRoom, OnStream, Got,
         FreshIsSilent
    <3>2. CASE ~Dead(s)
      BY <3>2, <2>1, <2>2, CloseKeeps
    <3> QED
      BY <3>1, <3>2
  <2>a. hub' \in 0..NSessions
    BY <1>t, <2>1, SessionBounds DEF SessionsTypeOK, Detached
  <2>4. SessionsTypeOK'
    BY <1>t, <2>1, <2>2, <2>3, <2>a DEF SessionsTypeOK
  <2>5. HubIsOpen'
    BY <1>t, <2>1, SessionBounds DEF SessionsTypeOK, HubIsOpen, Detached, Streams
  <2> QED
    BY <2>3, <2>4, <2>5 DEF HubKnown
<1>5. CASE HubDrop
  <2>1. /\ hub # 0 /\ hubDrops < MaxHubDrops /\ hubDrops' = hubDrops + 1 /\ hub' = 0
        /\ session' = [session EXCEPT ![hub] = "dead"] /\ Close({hub})
        /\ UNCHANGED <<stream, link, queue, call, at, job, halt, coming>>
    BY <1>5 DEF HubDrop, callVars, workerVars
  <2>2. hub \in Streams
    BY <2>1, <1>t, SessionBounds DEF SessionsTypeOK, Streams
  <2>3. /\ reply' \in [Commands -> {"none", "result", "closed"}]
        /\ expected' \in [Streams -> SUBSET Commands]
        /\ WaiterHasRoom' /\ OnStream' /\ FreshIsSilent'
    BY <2>1, <2>2, CloseKeeps
  <2>a. hub' \in 0..NSessions /\ hubDrops' \in 0..MaxHubDrops
    BY <1>t, <2>1, SessionBounds DEF SessionsTypeOK
  <2>4. SessionsTypeOK'
    BY <1>t, <2>1, <2>2, <2>3, <2>a DEF SessionsTypeOK
  <2>5. HubIsOpen'
    BY <1>t, <2>1, <2>2, SessionBounds DEF SessionsTypeOK, HubIsOpen, Streams
  <2> QED
    BY <2>3, <2>4, <2>5 DEF HubKnown
<1> QED
  BY <1>1, <1>2, <1>3, <1>4, <1>5 DEF Ends

LEMMA QueueIds ==
  ASSUME HubKnown, NEW s \in Streams, NEW i \in 1..Len(queue[s])
  PROVE  queue[s] \in Seq(Sent) /\ queue[s][i] \in Sent /\ queue[s][i].id \in Commands
<1>1. queue[s] \in Seq(Sent)
  BY DEF HubKnown, SessionsTypeOK
<1>2. queue[s][i] \in Sent
  BY <1>1, ElementOfSeq
<1> QED
  BY <1>1, <1>2 DEF Sent

(* What a longer queue holds: what it held, and the message put on it.     *)
LEMMA QueueGrows ==
  ASSUME HubKnown, NEW s \in Streams, NEW m \in Sent, HasRoom(s),
         queue' = [queue EXCEPT ![s] = Append(@, m)]
  PROVE  /\ queue' \in [Streams -> Seq(Sent)]
         /\ \A r \in Streams : Len(queue'[r]) <= SendCap
         /\ \A r \in Streams : \A i \in 1..Len(queue'[r]) :
              \/ queue'[r][i] = m
              \/ i \in 1..Len(queue[r]) /\ queue'[r][i] = queue[r][i]
<1>1. queue \in [Streams -> Seq(Sent)] /\ \A r \in Streams : Len(queue[r]) <= SendCap
  BY DEF HubKnown, SessionsTypeOK
<1>2. queue[s] \in Seq(Sent) /\ Len(queue[s]) \in Nat /\ Len(queue[s]) < SendCap
  BY <1>1 DEF HasRoom
<1>a. /\ Append(queue[s], m) \in Seq(Sent)
      /\ Len(Append(queue[s], m)) = Len(queue[s]) + 1
      /\ Append(queue[s], m)[Len(queue[s]) + 1] = m
      /\ \A i \in 1..Len(queue[s]) : Append(queue[s], m)[i] = queue[s][i]
  BY <1>2, AppendProperties
<1>b. \A i \in 1..Len(queue[s]) + 1 : i = Len(queue[s]) + 1 \/ i \in 1..Len(queue[s])
  BY <1>2
<1>3. ASSUME NEW i \in 1..Len(queue[s]) + 1
      PROVE  \/ Append(queue[s], m)[i] = m
             \/ i \in 1..Len(queue[s]) /\ Append(queue[s], m)[i] = queue[s][i]
  BY <1>a, <1>b
<1>4. \A r \in Streams : queue'[r] = IF r = s THEN Append(queue[s], m) ELSE queue[r]
  BY <1>1
<1>5. queue' \in [Streams -> Seq(Sent)]
  BY <1>1, <1>a
<1>6. \A r \in Streams : Len(queue'[r]) <= SendCap
  BY <1>1, <1>2, <1>a, <1>4, SessionBounds
<1>7. ASSUME NEW r \in Streams, NEW i \in 1..Len(queue'[r])
      PROVE  \/ queue'[r][i] = m
             \/ i \in 1..Len(queue[r]) /\ queue'[r][i] = queue[r][i]
  <2>1. CASE r = s
    <3>1. queue'[r] = Append(queue[s], m) /\ queue[r] = queue[s]
      BY <2>1, <1>4
    <3>2. i \in 1..Len(queue[s]) + 1
      BY <3>1, <1>a
    <3>3. \/ Append(queue[s], m)[i] = m
          \/ i \in 1..Len(queue[s]) /\ Append(queue[s], m)[i] = queue[s][i]
      BY <3>2, <1>3
    <3> QED
      BY <3>1, <3>3
  <2>2. CASE r # s
    BY <2>2, <1>4
  <2> QED
    BY <2>1, <2>2
<1> QED
  BY <1>5, <1>6, <1>7

(* A call that moves on from one stage to another.                         *)
CallStays == UNCHANGED <<link, stream, reply, expected, queue, workerVars>>

LEMMA CallGoes ==
  ASSUME HubKnown, HubStays, CallStays, NEW c \in Commands, at' = at,
         NEW from \in InCall, Goes(c, from, call'[c]),
         call'[c] \in {"sending", "waiting", "answered", "closed", "left"}
  PROVE  HubKnown'
<1>t. SessionsTypeOK /\ WaiterHasRoom /\ OnStream /\ FreshIsSilent
  BY DEF HubKnown
<1>1. call' = [call EXCEPT ![c] = call'[c]] /\ call[c] = from
  BY DEF Goes
<1>2. call' \in [Commands -> InCall \union Returned \union {"idle"}]
  BY <1>1, <1>t DEF SessionsTypeOK, InCall, Returned
<1>3. SessionsTypeOK'
  BY <1>2, <1>t DEF SessionsTypeOK, HubStays, CallStays, workerVars
<1>4. Got(c) /\ \A b \in Commands : call'[b] = call[b] \/ b = c
  BY <1>1, <1>t DEF SessionsTypeOK, Got, InCall
<1>5. \A b \in Commands : Got(b) => Got(b)'
  BY <1>4 DEF Got, Returned
<1>6. OnStream'
  <2>1. \A b \in Commands : Got(b)' => Got(b)
    BY <1>4 DEF Got
  <2>2. \A s \in Streams : \A i \in 1..Len(queue[s]) : queue[s][i].id \in Commands
    BY QueueIds
  <2>3. coming \subseteq Commands
    BY <1>t DEF SessionsTypeOK
  <2> QED
    BY <1>5, <2>1, <2>2, <2>3, <1>t DEF OnStream, CallStays, workerVars
<1>7. WaiterHasRoom' /\ FreshIsSilent'
  BY <1>1, <1>4, <1>t DEF WaiterHasRoom, FreshIsSilent, CallStays, Returned
<1> QED
  BY <1>3, <1>6, <1>7, HubStaysOpen DEF HubKnown

(* The steps of a call.                                                    *)
LEMMA CallsKeep ==
  ASSUME HubKnown, NEW c \in Commands,
         CallMoves(c) \/ SendGivesUp(c) \/ LeaveCall(c)
  PROVE  HubKnown'
<1>t. SessionsTypeOK /\ HubIsOpen /\ WaiterHasRoom /\ OnStream /\ FreshIsSilent
  BY DEF HubKnown
<1>1. CASE GetSession(c)
  <2>1. /\ call[c] = "idle" /\ at' = [at EXCEPT ![c] = hub]
        /\ call' = [call EXCEPT ![c] = IF hub = 0 THEN "refused" ELSE "got"]
        /\ UNCHANGED <<hub, session, stream, link, queue, expected, reply, job, halt,
                       coming, hubDrops>>
    BY <1>1 DEF GetSession, Goes, workerVars
  <2>2. SessionsTypeOK'
    BY <2>1, <1>t DEF SessionsTypeOK, InCall, Returned
  <2>3. \A b \in Commands : b # c => at'[b] = at[b] /\ call'[b] = call[b]
    BY <2>1, <1>t DEF SessionsTypeOK
  <2>4. hub # 0 => hub \in Streams
    BY <1>t, SessionBounds DEF SessionsTypeOK, Streams
  <2>5. WaiterHasRoom' /\ FreshIsSilent'
    BY <2>1, <2>3, <1>t DEF WaiterHasRoom, FreshIsSilent, SessionsTypeOK
  <2>6. OnStream'
    <3>1. \A b \in Commands : Got(b) => Got(b)' /\ b # c
      BY <2>1, <2>3 DEF Got
    <3>2. \A b \in Commands : Got(b)' => at'[b] \in Streams
      BY <2>1, <2>3, <2>4, <1>t DEF SessionsTypeOK, OnStream, Got
    <3>3. coming \subseteq Commands
      BY <1>t DEF SessionsTypeOK
    <3> QED
      BY <3>1, <3>2, <3>3, <2>1, <1>t, QueueIds DEF OnStream
  <2>7. HubIsOpen'
    BY <2>1, <1>t DEF HubIsOpen
  <2> QED
    BY <2>2, <2>5, <2>6, <2>7 DEF HubKnown
<1>2. CASE Expect(c)
  <2>1. /\ call[c] = "got" /\ call' = [call EXCEPT ![c] = "sending"]
        /\ expected' = [expected EXCEPT ![at[c]] = @ \union {c}]
        /\ UNCHANGED <<hub, session, stream, link, queue, at, reply, job, halt,
                       coming, hubDrops>>
    BY <1>2 DEF Expect, Goes, workerVars
  <2>2. at[c] \in Streams
    BY <2>1, <1>t DEF OnStream, Got
  <2>3. SessionsTypeOK'
    BY <2>1, <2>2, <1>t DEF SessionsTypeOK, InCall
  <2>4. \A b \in Commands : Got(b)' <=> Got(b)
    BY <2>1, <1>t DEF SessionsTypeOK, Got
  <2>5. OnStream'
    <3>1. coming \subseteq Commands
      BY <1>t DEF SessionsTypeOK
    <3> QED
      BY <2>1, <2>4, <3>1, <1>t, QueueIds DEF OnStream
  <2>6. WaiterHasRoom' /\ FreshIsSilent'
    BY <2>1, <2>2, <1>t DEF SessionsTypeOK, WaiterHasRoom, FreshIsSilent
  <2>7. HubIsOpen'
    BY <2>1, <1>t DEF HubIsOpen
  <2> QED
    BY <2>3, <2>5, <2>6, <2>7 DEF HubKnown
<1>3. CASE SendSeesDead(c) \/ SendGivesUp(c) \/ TakeReply(c) \/ WaitSeesDead(c)
  <2>1. HubStays /\ CallStays /\ at' = at
    BY <1>3 DEF HubStays, CallStays, SendSeesDead, SendGivesUp, TakeReply, WaitSeesDead
  <2>2. PICK from \in {"sending", "waiting"}, to \in {"answered", "closed", "left"} :
          call[c] = from /\ call' = [call EXCEPT ![c] = to]
    BY <1>3 DEF SendSeesDead, SendGivesUp, TakeReply, WaitSeesDead, Goes
  <2>3. call'[c] = to
    BY <2>2, <1>t DEF SessionsTypeOK
  <2> QED
    BY <2>1, <2>2, <2>3, CallGoes DEF Goes, InCall, Returned
<1>4. CASE SendCommand(c) \/ LeaveCall(c)
  <2>1. PICK to \in {"waiting", "left"} :
          call[c] \in {"sending", "waiting"} /\ call' = [call EXCEPT ![c] = to]
    BY <1>4 DEF SendCommand, LeaveCall, Goes
  <2>2. /\ UNCHANGED <<hub, session, stream, link, expected, at, reply, job, coming,
                       hubDrops>>
        /\ halt' \in [Commands -> {"none", "queued", "dropped", "received", "early",
                                   "done"}]
    BY <1>4, <1>t DEF SendCommand, LeaveCall, workerVars, SessionsTypeOK
  <2>3. at[c] \in Streams /\ Got(c)
    BY <2>1, <1>t DEF OnStream, Got
  <2>4. \/ queue' = queue
        \/ HasRoom(at[c]) /\ \E b \in BOOLEAN :
             queue' = [queue EXCEPT ![at[c]] = Append(@, [stop |-> b, id |-> c])]
    BY <1>4 DEF SendCommand, LeaveCall
  <2> DEFINE Grown ==
        /\ queue' \in [Streams -> Seq(Sent)]
        /\ \A r \in Streams : Len(queue'[r]) <= SendCap
        /\ \A r \in Streams : \A i \in 1..Len(queue'[r]) :
             \/ queue'[r][i].id = c
             \/ i \in 1..Len(queue[r]) /\ queue'[r][i] = queue[r][i]
  <2>5. Grown
    <3>1. CASE queue' = queue
      BY <3>1, <1>t DEF SessionsTypeOK
    <3>2. ASSUME NEW b \in BOOLEAN, HasRoom(at[c]),
                 queue' = [queue EXCEPT ![at[c]] = Append(@, [stop |-> b, id |-> c])]
          PROVE  Grown
      <4>1. PICK m \in Sent : m = [stop |-> b, id |-> c]
        BY DEF Sent
      <4>2. m.id = c
        BY <4>1
      <4>3. queue' = [queue EXCEPT ![at[c]] = Append(@, m)]
        BY <3>2, <4>1
      <4> HIDE DEF Grown
      <4>4. /\ queue' \in [Streams -> Seq(Sent)]
            /\ \A r \in Streams : Len(queue'[r]) <= SendCap
            /\ \A r \in Streams : \A i \in 1..Len(queue'[r]) :
                 \/ queue'[r][i] = m
                 \/ i \in 1..Len(queue[r]) /\ queue'[r][i] = queue[r][i]
        BY <3>2, <4>3, <2>3, QueueGrows
      <4> QED
        BY <4>2, <4>4 DEF Grown
    <3> QED
      BY <2>4, <3>1, <3>2
  <2>6. SessionsTypeOK'
    BY <2>1, <2>2, <2>5, <1>t DEF SessionsTypeOK, InCall, Returned
  <2>7. \A b \in Commands : Got(b)' <=> Got(b)
    BY <2>1, <1>t DEF SessionsTypeOK, Got
  <2>8. OnStream'
    <3>1. coming \subseteq Commands
      BY <1>t DEF SessionsTypeOK
    <3>2. ASSUME NEW r \in Streams, NEW i \in 1..Len(queue'[r])
          PROVE  call'[queue'[r][i].id] \notin {"idle", "refused"}
      <4>1. CASE queue'[r][i].id = c
        BY <4>1, <2>7, <2>3 DEF Got
      <4>2. CASE i \in 1..Len(queue[r]) /\ queue'[r][i] = queue[r][i]
        <5>1. queue[r][i].id \in Commands /\ Got(queue[r][i].id)
          BY <4>2, <1>t, QueueIds DEF OnStream
        <5> QED
          BY <4>2, <5>1, <2>7 DEF Got
      <4> QED
        BY <4>1, <4>2, <2>5
    <3>3. /\ \A b \in Commands : Got(b)' => at'[b] \in Streams
          /\ \A b \in Commands : job'[b] # "none" => Got(b)'
          /\ \A b \in coming' : Got(b)'
      BY <2>2, <2>7, <3>1, <1>t DEF OnStream
    <3> QED
      BY <3>2, <3>3 DEF OnStream, Got
  <2>9. WaiterHasRoom' /\ FreshIsSilent' /\ HubIsOpen'
    BY <2>1, <2>2, <1>t DEF SessionsTypeOK, WaiterHasRoom, FreshIsSilent, HubIsOpen
  <2> QED
    BY <2>6, <2>8, <2>9 DEF HubKnown
<1> QED
  BY <1>1, <1>2, <1>3, <1>4 DEF CallMoves

(* The handler sends the head of a queue; what it leaves was there.        *)
LEMMA QueueShrinks ==
  ASSUME HubKnown, NEW s \in Streams, queue[s] # <<>>,
         queue' = [queue EXCEPT ![s] = Tail(@)]
  PROVE  /\ queue' \in [Streams -> Seq(Sent)]
         /\ \A r \in Streams : Len(queue'[r]) <= SendCap
         /\ \A r \in Streams : \A i \in 1..Len(queue'[r]) :
              \E j \in 1..Len(queue[r]) : queue'[r][i] = queue[r][j]
         /\ Head(queue[s]) \in Sent /\ 1 \in 1..Len(queue[s])
         /\ Head(queue[s]) = queue[s][1]
<1>1. queue \in [Streams -> Seq(Sent)] /\ \A r \in Streams : Len(queue[r]) <= SendCap
  BY DEF HubKnown, SessionsTypeOK
<1>2. queue[s] \in Seq(Sent) /\ Len(queue[s]) \in Nat /\ Len(queue[s]) > 0
  BY <1>1
<1>3. /\ Tail(queue[s]) \in Seq(Sent) /\ Len(Tail(queue[s])) = Len(queue[s]) - 1
      /\ \A i \in 1..Len(queue[s]) - 1 : Tail(queue[s])[i] = queue[s][i + 1]
      /\ Head(queue[s]) \in Sent /\ Head(queue[s]) = queue[s][1]
  BY <1>2
<1>4. \A r \in Streams : queue'[r] = IF r = s THEN Tail(queue[s]) ELSE queue[r]
  BY <1>1
<1>5. queue' \in [Streams -> Seq(Sent)]
  BY <1>1, <1>3
<1>6. \A i \in 1..Len(queue[s]) - 1 : i + 1 \in 1..Len(queue[s])
  BY <1>2
<1>7. \A r \in Streams : Len(queue'[r]) <= SendCap
  BY <1>1, <1>2, <1>3, <1>4, SessionBounds
<1>8. ASSUME NEW r \in Streams, NEW i \in 1..Len(queue'[r])
      PROVE  \E j \in 1..Len(queue[r]) : queue'[r][i] = queue[r][j]
  <2>1. CASE r = s
    BY <2>1, <1>3, <1>4, <1>6
  <2>2. CASE r # s
    BY <2>2, <1>4
  <2> QED
    BY <2>1, <2>2
<1>9. 1 \in 1..Len(queue[s])
  BY <1>2
<1> QED
  BY <1>3, <1>5, <1>7, <1>8, <1>9

(* A step of the worker or of the wire between them: calls, answers and    *)
(* the Hub stay as they are.                                               *)
LEMMA WorkerGoes ==
  ASSUME HubKnown, HubStays, UNCHANGED <<stream, link, callVars>>, SessionsTypeOK',
         WaiterHasRoom', FreshIsSilent',
         \A s \in Streams : \A i \in 1..Len(queue'[s]) :
           \E j \in 1..Len(queue[s]) : queue'[s][i] = queue[s][j],
         \A c \in Commands : job'[c] # "none" => Got(c),
         \A c \in coming' : Got(c)
  PROVE  HubKnown'
<1>1. \A c \in Commands : (Got(c)' <=> Got(c)) /\ at'[c] = at[c]
  BY DEF callVars, Got
<1>2. OnStream'
  <2>1. coming' \subseteq Commands
    BY DEF SessionsTypeOK
  <2>2. ASSUME NEW s \in Streams, NEW i \in 1..Len(queue'[s])
        PROVE  call'[queue'[s][i].id] \notin {"idle", "refused"}
    <3>1. PICK j \in 1..Len(queue[s]) : queue'[s][i] = queue[s][j]
      OBVIOUS
    <3>2. queue[s][j].id \in Commands /\ Got(queue[s][j].id)
      BY QueueIds DEF HubKnown, OnStream
    <3> QED
      BY <1>1, <3>1, <3>2 DEF Got
  <2>3. /\ \A c \in Commands : Got(c)' => at'[c] \in Streams
        /\ \A c \in Commands : job'[c] # "none" => Got(c)'
        /\ \A c \in coming' : Got(c)'
    BY <1>1, <2>1 DEF OnStream, HubKnown
  <2> QED
    BY <2>2, <2>3 DEF OnStream, Got
<1> QED
  BY <1>2, HubStaysOpen DEF HubKnown

LEMMA WiresKeep ==
  ASSUME HubKnown, Wires \/ \E c \in Commands : JobEnds(c)
  PROVE  HubKnown'
<1>t. SessionsTypeOK /\ WaiterHasRoom /\ OnStream /\ FreshIsSilent
  BY DEF HubKnown
<1>1. CASE HandlerSends
  <2>1. PICK s \in Streams :
          /\ queue[s] # <<>> /\ queue' = [queue EXCEPT ![s] = Tail(@)]
          /\ IF Head(queue[s]).stop
             THEN halt' = [halt EXCEPT ![Head(queue[s]).id] = "received"] /\ job' = job
             ELSE job' = [job EXCEPT ![Head(queue[s]).id] = "received"] /\ halt' = halt
    BY <1>1 DEF HandlerSends
  <2>2. HubStays /\ UNCHANGED <<stream, link, callVars, expected, reply, coming>>
    BY <1>1 DEF HandlerSends, HubStays
  <2>3. /\ queue' \in [Streams -> Seq(Sent)]
        /\ \A r \in Streams : Len(queue'[r]) <= SendCap
        /\ \A r \in Streams : \A i \in 1..Len(queue'[r]) :
             \E j \in 1..Len(queue[r]) : queue'[r][i] = queue[r][j]
        /\ 1 \in 1..Len(queue[s]) /\ Head(queue[s]) = queue[s][1]
    BY <2>1, QueueShrinks
  <2>4. Head(queue[s]).id \in Commands /\ Got(Head(queue[s]).id)
    BY <2>3, <1>t, QueueIds DEF OnStream
  <2>a. /\ job' \in [Commands -> {"none", "received", "running", "canceled", "ended"}]
        /\ halt' \in [Commands -> {"none", "queued", "dropped", "received", "early",
                                   "done"}]
    BY <2>1, <2>4, <1>t DEF SessionsTypeOK
  <2>5. SessionsTypeOK'
    BY <2>2, <2>3, <2>a, <1>t DEF SessionsTypeOK, HubStays, callVars
  <2>6. WaiterHasRoom' /\ FreshIsSilent'
    BY <2>2, <1>t DEF WaiterHasRoom, FreshIsSilent, callVars
  <2>7. \A c \in Commands : job'[c] # "none" => Got(c)
    BY <2>1, <2>4, <1>t DEF OnStream, SessionsTypeOK
  <2>8. \A c \in coming' : Got(c)
    BY <2>2, <1>t DEF OnStream
  <2> QED
    BY <2>2, <2>3, <2>5, <2>6, <2>7, <2>8, WorkerGoes
<1>2. ASSUME NEW c \in Commands, JobStarts(c) \/ CancelJob(c) \/ JobEnds(c)
      PROVE  HubKnown'
  <2>1. HubStays /\ UNCHANGED <<stream, link, callVars, expected, reply, queue>>
    BY <1>2 DEF JobStarts, CancelJob, JobEnds, HubStays
  <2>2. /\ job' \in [Commands -> {"none", "received", "running", "canceled", "ended"}]
        /\ halt' \in [Commands -> {"none", "queued", "dropped", "received", "early",
                                   "done"}]
        /\ \A b \in Commands : job'[b] # "none" => job[b] # "none"
    <3>1. CASE JobStarts(c)
      BY <3>1, <1>t DEF JobStarts, SessionsTypeOK
    <3>2. CASE JobEnds(c)
      BY <3>2, <1>t DEF JobEnds, SessionsTypeOK
    <3>3. CASE CancelJob(c)
      <4>1. PICK h \in {"early", "done"} : halt' = [halt EXCEPT ![c] = h]
        BY <3>3 DEF CancelJob
      <4>2. PICK j \in {"canceled", job[c]} :
              job' = [job EXCEPT ![c] = j] /\ (j = "canceled" => job[c] # "none")
        BY <3>3 DEF CancelJob
      <4> QED
        BY <4>1, <4>2, <1>t DEF SessionsTypeOK
    <3> QED
      BY <1>2, <3>1, <3>2, <3>3
  <2>3. coming' \subseteq coming \union {c} /\ (c \in coming' => c \in coming \/ Got(c))
    BY <1>2, <1>t DEF JobStarts, CancelJob, JobEnds, OnStream
  <2>4. SessionsTypeOK'
    BY <2>1, <2>2, <2>3, <1>t DEF SessionsTypeOK, HubStays, callVars
  <2>5. WaiterHasRoom' /\ FreshIsSilent'
    BY <2>1, <1>t DEF WaiterHasRoom, FreshIsSilent, callVars
  <2>6. \A b \in Commands : job'[b] # "none" => Got(b)
    BY <2>2, <1>t DEF OnStream
  <2>7. \A b \in coming' : Got(b)
    BY <2>3, <1>t DEF OnStream
  <2> QED
    BY <2>1, <2>4, <2>5, <2>6, <2>7, WorkerGoes
<1>3. ASSUME NEW c \in Commands, Resolve(c) PROVE HubKnown'
  <2>1. /\ c \in coming /\ coming' = coming \ {c}
        /\ HubStays /\ UNCHANGED <<stream, link, callVars, queue, job, halt>>
    BY <1>3 DEF Resolve, HubStays
  <2>2. at[c] \in Streams /\ Got(c)
    BY <2>1, <1>t DEF OnStream
  <2>3. IF c \in expected[at[c]]
        THEN /\ reply' = [reply EXCEPT ![c] = "result"]
             /\ expected' = [expected EXCEPT ![at[c]] = @ \ {c}]
        ELSE reply' = reply /\ expected' = expected
    BY <1>3 DEF Resolve, Unexpected
  <2>4. UNCHANGED <<call, at>>
    BY <2>1 DEF callVars
  <2>5. /\ SessionsTypeOK' /\ WaiterHasRoom' /\ FreshIsSilent'
    <3>1. CASE c \notin expected[at[c]]
      BY <3>1, <2>1, <2>3, <2>4, <1>t DEF SessionsTypeOK, HubStays, WaiterHasRoom,
         FreshIsSilent
    <3>2. CASE c \in expected[at[c]]
      <4>1. /\ reply' = [reply EXCEPT ![c] = "result"]
            /\ expected' = [expected EXCEPT ![at[c]] = expected[at[c]] \ {c}]
        BY <3>2, <2>3
      <4>2. /\ reply' \in [Commands -> {"none", "result", "closed"}]
            /\ expected' \in [Streams -> SUBSET Commands]
        BY <4>1, <2>2, <1>t DEF SessionsTypeOK
      <4>3. SessionsTypeOK'
        BY <4>2, <2>1, <2>4, <1>t DEF SessionsTypeOK, HubStays
      <4>4. \A s \in Streams : c \notin expected'[s]
        BY <4>1, <2>2, <1>t DEF SessionsTypeOK, WaiterHasRoom
      <4>5. \A s \in Streams : expected'[s] \subseteq expected[s]
        BY <4>1, <2>2, <1>t DEF SessionsTypeOK
      <4>6. \A b \in Commands : b # c => reply'[b] = reply[b]
        BY <4>1, <1>t DEF SessionsTypeOK
      <4>7. WaiterHasRoom'
        BY <4>2, <4>4, <4>5, <4>6, <2>4, <1>t DEF SessionsTypeOK, WaiterHasRoom
      <4>8. FreshIsSilent'
        BY <3>2, <4>4, <4>5, <4>6, <2>2, <2>4, <1>t DEF FreshIsSilent
      <4> QED
        BY <4>3, <4>7, <4>8
    <3> QED
      BY <3>1, <3>2
  <2>7. \A b \in Commands : job'[b] # "none" => Got(b)
    BY <2>1, <1>t DEF OnStream
  <2>8. \A b \in coming' : Got(b)
    BY <2>1, <1>t DEF OnStream
  <2> QED
    BY <2>1, <2>5, <2>7, <2>8, WorkerGoes
<1> QED
  BY <1>1, <1>2, <1>3 DEF Wires

LEMMA SessionsStepKnown == HubKnown /\ [SessionsNext]_sessionVars => HubKnown'
<1> SUFFICES ASSUME HubKnown, [SessionsNext]_sessionVars PROVE HubKnown'
  OBVIOUS
<1>1. CASE Connect \/ CutStream \/ Ends \/ HubDrop
  BY <1>1, StreamsKeep
<1>2. CASE Wires \/ \E c \in Commands : JobEnds(c)
  BY <1>2, WiresKeep
<1>3. CASE \E c \in Commands : CallMoves(c) \/ SendGivesUp(c) \/ LeaveCall(c)
  BY <1>3, CallsKeep
<1>4. CASE UNCHANGED sessionVars
  BY <1>4 DEF sessionVars, HubKnown, SessionsTypeOK, HubIsOpen, WaiterHasRoom,
              OnStream, FreshIsSilent, Got
<1> QED
  BY <1>1, <1>2, <1>3, <1>4 DEF SessionsNext

(* The Hub's session is the open one, however late an older stream ends    *)
(* (Hub.Detach), and FailAll and Resolve find room in every channel they   *)
(* answer under Session.mu, for any number of streams and calls.           *)
THEOREM SessionsSafeHolds == SessionsSpec => []SessionsSafe
<1>1. HubKnown => SessionsSafe
  BY DEF HubKnown, SessionsSafe
<1> QED
  BY SessionsInitKnown, SessionsStepKnown, <1>1, PTL DEF SessionsSpec
=============================================================================

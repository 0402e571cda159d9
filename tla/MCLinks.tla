-------------------------------- MODULE MCLinks --------------------------------
(***************************************************************************)
(* The links of the control plane, to a Bot's worker, to the tabs of its   *)
(* console, to its channels and callers and to the egress gateway, checked *)
(* in one run: an instance is one of the parts below, chosen at the start, *)
(* and the others stay as they began.  They share no state; each is        *)
(* explored as if it were alone.                                           *)
(***************************************************************************)
EXTENDS Sessions, Lanes, Dials, Viewers, Egress, Reports, Channels, Voice

VARIABLE service

vars == <<service, sessionVars, laneVars, dialVars, viewerVars, egressVars, reportVars, channelVars,
          voiceVars>>

Init ==
  /\ service \in {"sessions", "lanes", "dials", "viewers", "egress", "reports", "channels", "voice"}
  /\ SessionsInit /\ LanesInit /\ DialsInit /\ ViewersInit /\ EgressInit /\ ReportsInit
  /\ ChannelsInit /\ VoiceInit

(* Only the service s moves.                                               *)
Only(s) ==
  /\ service = s /\ UNCHANGED service
  /\ s # "sessions" => UNCHANGED sessionVars
  /\ s # "lanes"    => UNCHANGED laneVars
  /\ s # "dials"    => UNCHANGED dialVars
  /\ s # "viewers"  => UNCHANGED viewerVars
  /\ s # "egress"   => UNCHANGED egressVars
  /\ s # "reports"  => UNCHANGED reportVars
  /\ s # "channels" => UNCHANGED channelVars
  /\ s # "voice"    => UNCHANGED voiceVars

Next ==
  \/ Only("sessions")  /\ SessionsNext
  \/ Only("lanes")     /\ LanesNext
  \/ Only("dials")     /\ DialsNext
  \/ Only("viewers")   /\ ViewersNext
  \/ Only("egress")    /\ EgressNext
  \/ Only("reports")   /\ ReportsNext
  \/ Only("channels")  /\ ChannelsNext
  \/ Only("voice")     /\ VoiceNext

(* Each service keeps the fairness of its own specification.               *)
Fairness ==
  /\ WF_sessionVars(service = "sessions" /\ SessionsFair)
  /\ WF_laneVars(service = "lanes" /\ LaneRuns)
  /\ WF_dialVars(service = "dials" /\ DialsFair)
  /\ WF_viewerVars(service = "viewers" /\ StreamMoves)
  /\ WF_egressVars(service = "egress" /\ EgressRuns)
  /\ WF_egressVars(service = "egress" /\ TickApplies)
  /\ WF_reportVars(service = "reports" /\ ReportsFair)
  /\ WF_channelVars(service = "channels" /\ InboundRuns)
  /\ WF_voiceVars(service = "voice" /\ CallRuns)

Spec == Init /\ [][Next]_vars /\ Fairness

(* What the gateway and the control plane exchange, down and up.           *)
GatewaySafe == EgressSafe /\ ReportsSafe

(* How people reach the Bot from elsewhere: its channels and its calls.    *)
PeopleSafe == ChannelsSafe /\ VoiceSafe

(* Whoever waits is answered: a caller of the worker, a push behind a lane *)
(* that is left, a dial that gave up, a message that came in, a call.      *)
WaitsEnd == CallsEnd /\ PushReturns /\ OrphanCloses /\ InboundIsHanded /\ CallIsOver

(* Whoever follows catches up: the newest viewer is served, an open tab    *)
(* shows its thread, the gateway applies the newest state, and what it     *)
(* recorded goes up.                                                       *)
FollowersCatchUp ==
  /\ ViewerIsServed /\ ReportsGoUp
  /\ service = "viewers" => ViewerCatchesUp
  /\ service = "egress" => GatewayCatchesUp
==============================================================================

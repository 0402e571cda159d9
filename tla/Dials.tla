-------------------------------- MODULE Dials --------------------------------
(***************************************************************************)
(* Dials through a worker session (internal/hub/tunnel.go): the proxy asks *)
(* the Bot's worker for a connection to a port in the box and waits for    *)
(* the worker's Tunnel stream to claim the dial (App.Tunnel in             *)
(* internal/app/worker.go).  The dialer may give up at any moment of it.   *)
(***************************************************************************)
EXTENDS Integers, FiniteSets

CONSTANTS NDials \* dials on one session

ASSUME DialBounds == NDials \in Nat \ {0}

VARIABLES dead,   \* the session is closed
          dial,   \* where each DialTunnel stands
          listed, \* Session.tunnels: the dials that may be claimed
          claim,  \* where the worker's stream of each dial stands
          handed, \* the dial's buffered channel
          conn,   \* the connection the stream became
          drained \* abandonTunnel's goroutine waits on the channel

dialVars == <<dead, dial, listed, claim, handed, conn, drained>>

DialIds == 1..NDials

DialsInit ==
  /\ dead = FALSE /\ listed = {} /\ drained = {}
  /\ dial   = [d \in DialIds |-> "idle"]
  /\ claim  = [d \in DialIds |-> "none"]
  /\ handed = [d \in DialIds |-> "none"]
  /\ conn   = [d \in DialIds |-> "none"]

-----------------------------------------------------------------------------
DialBegins(d) ==
  /\ dial[d] = "idle"
  /\ dial' = [dial EXCEPT ![d] = "sending"]
  /\ listed' = listed \union {d}
  /\ UNCHANGED <<dead, claim, handed, conn, drained>>

(* OpenTunnel is on the session's queue; the worker may get it.            *)
DialSends(d) ==
  /\ dial[d] = "sending"
  /\ dial' = [dial EXCEPT ![d] = "waiting"]
  /\ claim' = [claim EXCEPT ![d] = "asked"]
  /\ UNCHANGED <<dead, listed, handed, conn, drained>>

DialTakes(d) ==
  /\ dial[d] = "waiting" /\ handed[d] # "none"
  /\ dial' = [dial EXCEPT ![d] = IF handed[d] = "conn" THEN "given" ELSE "failed"]
  /\ handed' = [handed EXCEPT ![d] = "none"]
  /\ UNCHANGED <<dead, listed, claim, conn, drained>>

DialLeavesAlone(d) ==
  /\ dial[d] \in {"sending", "waiting"}
  /\ dial' = [dial EXCEPT ![d] = "failed"]
  /\ listed' = listed \ {d}
  /\ UNCHANGED <<dead, claim, handed, conn, drained>>

(* The timeout, the request's end or the session's death: abandonTunnel    *)
(* withdraws the dial, or leaves a goroutine to close what was claimed.    *)
DialLeaves(d) ==
  /\ dial[d] \in {"sending", "waiting"}
  /\ dial' = [dial EXCEPT ![d] = "failed"]
  /\ listed' = listed \ {d}
  /\ drained' = IF d \in listed THEN drained ELSE drained \union {d}
  /\ UNCHANGED <<dead, claim, handed, conn>>

DrainConn(d) ==
  /\ d \in drained /\ handed[d] # "none"
  /\ conn' = [conn EXCEPT ![d] = IF handed[d] = "conn" THEN "closed" ELSE @]
  /\ handed' = [handed EXCEPT ![d] = "none"]
  /\ drained' = drained \ {d}
  /\ UNCHANGED <<dead, dial, listed, claim>>

(* The proxy is done with its connection.                                  *)
HangUp(d) ==
  /\ dial[d] = "given"
  /\ dial' = [dial EXCEPT ![d] = "done"]
  /\ conn' = [conn EXCEPT ![d] = "closed"]
  /\ UNCHANGED <<dead, listed, claim, handed, drained>>

SessionCloses ==
  /\ ~dead
  /\ dead' = TRUE
  /\ UNCHANGED <<dial, listed, claim, handed, conn, drained>>

-----------------------------------------------------------------------------
ClaimAnyTunnel(d) ==
  /\ claim[d] = "asked"
  /\ claim' = [claim EXCEPT ![d] = "claimed"]
  /\ listed' = listed \ {d}
  /\ UNCHANGED <<dead, dial, handed, conn, drained>>

(* ClaimTunnel: once, and only a dial that still waits.                    *)
ClaimTunnel(d) ==
  /\ claim[d] = "asked"
  /\ claim' = [claim EXCEPT ![d] = IF d \in listed THEN "claimed" ELSE "refused"]
  /\ listed' = listed \ {d}
  /\ UNCHANGED <<dead, dial, handed, conn, drained>>

(* The worker's first frame says its own dial failed.                      *)
DeliverError(d) ==
  /\ claim[d] = "claimed"
  /\ claim' = [claim EXCEPT ![d] = "over"]
  /\ handed' = [handed EXCEPT ![d] = "error"]
  /\ UNCHANGED <<dead, dial, listed, conn, drained>>

(* The stream becomes the connection; the handler stays until it closes.   *)
DeliverConn(d) ==
  /\ claim[d] = "claimed"
  /\ claim' = [claim EXCEPT ![d] = "serving"]
  /\ handed' = [handed EXCEPT ![d] = "conn"]
  /\ conn' = [conn EXCEPT ![d] = "open"]
  /\ UNCHANGED <<dead, dial, listed, drained>>

(* The stream the worker asked for never comes.                            *)
ClaimLost(d) ==
  /\ claim[d] = "asked"
  /\ claim' = [claim EXCEPT ![d] = "refused"]
  /\ UNCHANGED <<dead, dial, listed, handed, conn, drained>>

TunnelEnds(d) ==
  /\ claim[d] = "serving" /\ (dead \/ conn[d] = "closed")
  /\ claim' = [claim EXCEPT ![d] = "over"]
  /\ UNCHANGED <<dead, dial, listed, handed, conn, drained>>

-----------------------------------------------------------------------------
DialRuns(d) ==
  \/ DialSends(d) \/ DialTakes(d) \/ DrainConn(d) \/ TunnelEnds(d)
  \/ ClaimTunnel(d) \/ DeliverConn(d)

DialsNext ==
  \/ SessionCloses
  \/ \E d \in DialIds : \/ DialRuns(d) \/ DialBegins(d) \/ DialLeaves(d)
                        \/ HangUp(d) \/ DeliverError(d) \/ ClaimLost(d)

(* The timeout of a dial ends it (hub.TunnelTimeout).                      *)
DialsFair == \E d \in DialIds : DialRuns(d) \/ DialLeaves(d)
DialsSpec == DialsInit /\ [][DialsNext]_dialVars /\ WF_dialVars(DialsFair)

-----------------------------------------------------------------------------
(* Every variable of the session's dials keeps its type.                   *)
DialsTypeOK ==
  /\ dead \in BOOLEAN
  /\ dial \in [DialIds -> {"idle", "sending", "waiting", "given", "failed", "done"}]
  /\ listed \in SUBSET DialIds /\ drained \in SUBSET DialIds
  /\ claim \in [DialIds -> {"none", "asked", "claimed", "serving", "over", "refused"}]
  /\ handed \in [DialIds -> {"none", "conn", "error"}]
  /\ conn \in [DialIds -> {"none", "open", "closed"}]

(* A connection into the box is never lost between the two sides: as long  *)
(* as it is open the dialer holds it, waits for it, or has left someone to *)
(* close it, however its giving up and the worker's claim interleave.      *)
ConnHasOwner == \A d \in DialIds :
  conn[d] = "open" => \/ dial[d] = "given"
                      \/ handed[d] = "conn" /\ (dial[d] = "waiting" \/ d \in drained)

(* A connection whose dialer gave up is closed.                            *)
OrphanCloses == []<>(\A d \in DialIds : ~(conn[d] = "open" /\ dial[d] = "failed"))

(* What holds of tunnels in every state: no open connection is without an  *)
(* owner.                                                                  *)
DialsSafe == DialsTypeOK /\ ConnHasOwner
=============================================================================

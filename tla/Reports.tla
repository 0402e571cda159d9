------------------------------- MODULE Reports -------------------------------
(***************************************************************************)
(* What the gateway blocked and flagged goes up in batches: a session's    *)
(* flush goroutine drains the Reporter and puts back what it could not     *)
(* send (internal/egress/report.go, session.go); the control plane files   *)
(* it (egressUp).  Nothing is acknowledged.  Sessions are those of Egress, *)
(* as far as the reports see them.                                         *)
(***************************************************************************)
EXTENDS Naturals, FiniteSets, SequencesExt

CONSTANTS NReports,  \* events the gateway records
          NUplinks,  \* sessions the gateway opens
          ReportCap, \* maxEvents of the Reporter
          MaxLosses  \* streams that break

ASSUME ReportBounds ==
  /\ NReports \in Nat \ {0} /\ NUplinks \in Nat \ {0}
  /\ ReportCap \in Nat \ {0} /\ MaxLosses \in Nat

VARIABLES events,   \* Reporter.events
          recorded, \* events recorded so far
          uplink,   \* the gateway's session, 0 between two
          uplinks, losses, \* sessions opened and broken so far
          whole,    \* sessions whose stream stands
          flushing, \* sessions whose flush goroutine runs
          batch,    \* what it has drained
          up,       \* events in flight
          told, lost, forgotten \* events that arrived, were lost, were dropped

reportVars == <<events, recorded, uplink, uplinks, losses, whole, flushing, batch, up, told, lost,
                forgotten>>

Uplinks == 1..NUplinks

ReportsInit ==
  /\ events = <<>> /\ recorded = 0 /\ uplink = 0 /\ uplinks = 0 /\ losses = 0
  /\ whole = {} /\ flushing = {} /\ told = {} /\ lost = {} /\ forgotten = {}
  /\ batch = [l \in Uplinks |-> <<>>] /\ up = [l \in Uplinks |-> <<>>]

-----------------------------------------------------------------------------
(* What maxEvents leaves of the events q: past it the oldest go.           *)
KeepNewest(q) == IF Len(q) > ReportCap THEN SubSeq(q, Len(q) - ReportCap + 1, Len(q)) ELSE q
TooMany(q) == ToSet(q) \ ToSet(KeepNewest(q))

RecordReport ==
  /\ recorded < NReports
  /\ recorded' = recorded + 1
  /\ events' = KeepNewest(Append(events, recorded'))
  /\ forgotten' = forgotten \union TooMany(Append(events, recorded'))
  /\ UNCHANGED <<uplink, uplinks, losses, whole, flushing, batch, up, told, lost>>

OpenUplink ==
  /\ uplink = 0 /\ uplinks < NUplinks
  /\ uplinks' = uplinks + 1 /\ uplink' = uplinks'
  /\ whole' = whole \union {uplinks'} /\ flushing' = flushing \union {uplinks'}
  /\ UNCHANGED <<events, recorded, losses, batch, up, told, lost, forgotten>>

(* The stream breaks, with what was in flight on it.                       *)
BreakUplink(l) ==
  /\ l \in whole /\ losses < MaxLosses
  /\ whole' = whole \ {l} /\ losses' = losses + 1
  /\ lost' = lost \union ToSet(up[l]) /\ up' = [up EXCEPT ![l] = <<>>]
  /\ UNCHANGED <<events, recorded, uplink, uplinks, flushing, batch, told, forgotten>>

(* session returns; its flush goroutine ends on its own.                   *)
LeaveUplink ==
  /\ uplink # 0 /\ uplink \notin whole
  /\ uplink' = 0
  /\ UNCHANGED <<events, recorded, uplinks, losses, whole, flushing, batch, up, told, lost,
                 forgotten>>

DrainCopies(l) ==
  /\ l \in flushing /\ batch[l] = <<>> /\ events # <<>>
  /\ batch' = [batch EXCEPT ![l] = events]
  /\ UNCHANGED <<events, recorded, uplink, uplinks, losses, whole, flushing, up, told, lost,
                 forgotten>>

Drain(l) ==
  /\ l \in flushing /\ batch[l] = <<>> /\ events # <<>>
  /\ batch' = [batch EXCEPT ![l] = events] /\ events' = <<>>
  /\ UNCHANGED <<recorded, uplink, uplinks, losses, whole, flushing, up, told, lost, forgotten>>

SendReports(l) ==
  /\ l \in whole /\ batch[l] # <<>>
  /\ up' = [up EXCEPT ![l] = @ \o batch[l]]
  /\ batch' = [batch EXCEPT ![l] = <<>>]
  /\ UNCHANGED <<events, recorded, uplink, uplinks, losses, whole, flushing, told, lost, forgotten>>

HoldBatch(l) ==
  /\ l \in flushing \ whole /\ batch[l] # <<>>
  /\ flushing' = flushing \ {l}
  /\ UNCHANGED <<events, batch, recorded, uplink, uplinks, losses, whole, up, told, lost,
                 forgotten>>

(* A failed send puts back what it took, ahead of anything newer.          *)
Requeue(l) ==
  /\ l \in flushing \ whole /\ batch[l] # <<>>
  /\ events' = KeepNewest(batch[l] \o events)
  /\ forgotten' = forgotten \union TooMany(batch[l] \o events)
  /\ batch' = [batch EXCEPT ![l] = <<>>]
  /\ flushing' = flushing \ {l}
  /\ UNCHANGED <<recorded, uplink, uplinks, losses, whole, up, told, lost>>

(* The flush goroutine of a session that ended; until it sees that it may  *)
(* drain once more.                                                        *)
FlushEnds(l) ==
  /\ l \in flushing /\ uplink # l /\ batch[l] = <<>>
  /\ flushing' = flushing \ {l}
  /\ UNCHANGED <<events, recorded, uplink, uplinks, losses, whole, batch, up, told, lost,
                 forgotten>>

(* egressUp: one frame of the control plane's receiving goroutine.         *)
TakeReports(l) ==
  /\ up[l] # <<>>
  /\ told' = told \union ToSet(up[l]) /\ up' = [up EXCEPT ![l] = <<>>]
  /\ UNCHANGED <<events, recorded, uplink, uplinks, losses, whole, flushing, batch, lost,
                 forgotten>>

-----------------------------------------------------------------------------
FlushRuns(l) == Drain(l) \/ SendReports(l) \/ Requeue(l) \/ FlushEnds(l) \/ TakeReports(l)

ReportsNext ==
  \/ RecordReport \/ OpenUplink \/ LeaveUplink
  \/ \E l \in Uplinks : FlushRuns(l) \/ BreakUplink(l)

(* The tickers of a session fire, and Serve opens the next one.            *)
ReportsFair == OpenUplink \/ LeaveUplink \/ \E l \in Uplinks : FlushRuns(l)
ReportsSpec == ReportsInit /\ [][ReportsNext]_reportVars /\ WF_reportVars(ReportsFair)

-----------------------------------------------------------------------------
(* Every variable of the reports keeps its type.                           *)
ReportsTypeOK ==
  /\ events \in Seq(1..NReports) /\ Len(events) <= ReportCap /\ recorded \in 0..NReports
  /\ uplink \in 0..NUplinks /\ uplinks \in 0..NUplinks /\ losses \in 0..MaxLosses
  /\ whole \subseteq Uplinks /\ flushing \subseteq Uplinks
  /\ told \union lost \union forgotten \subseteq 1..recorded

(* Where an event may be: it waits, was filed, is gone with a broken       *)
(* stream or for want of room, or a session's flush has it or sent it.     *)
Places == <<ToSet(events), told, lost, forgotten>> \o [l \in Uplinks |-> ToSet(batch[l] \o up[l])]

(* Every event is in one place, however sessions break and overlap: none   *)
(* vanishes unaccounted for, none is filed or sent twice.                  *)
ReportHasPlace ==
  \A r \in 1..recorded : Cardinality({p \in DOMAIN Places : r \in Places[p]}) = 1

(* Nobody holds events that no goroutine will send or put back.            *)
BatchHasFlush == \A l \in Uplinks : batch[l] # <<>> => l \in flushing

ReportsSafe == ReportsTypeOK /\ ReportHasPlace /\ BatchHasFlush

(* What the gateway recorded does not stay in it while it can connect.     *)
ReportsGoUp == []<>(events = <<>> /\ \A l \in Uplinks : batch[l] = <<>> /\ up[l] = <<>>)
=============================================================================

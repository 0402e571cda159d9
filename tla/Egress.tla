-------------------------------- MODULE Egress --------------------------------
(***************************************************************************)
(* The gateway's session: the control plane pushes the whole filter state  *)
(* to the one gateway (internal/app/egress/egress.go), which applies it    *)
(* (internal/egress/session.go, gateway.go).  The state is a version: what *)
(* a change of lists, secrets, clients or the CA leaves in the database.   *)
(***************************************************************************)
EXTENDS Naturals, FiniteSets, SequencesExt

CONSTANTS NPolicies, \* versions of the state, the first is there at start
          NLinks,    \* sessions the gateway opens
          DownCap,   \* applies in flight (flow control)
          MaxBreaks, \* streams that break
          MaxRenderFails

ASSUME EgressBounds ==
  /\ NPolicies \in Nat \ {0} /\ NLinks \in Nat \ {0} /\ DownCap \in Nat \ {0}
  /\ MaxBreaks \in Nat /\ MaxRenderFails \in Nat

VARIABLES policy,    \* the version in the database
          owes,      \* handlers that changed it and have not called Apply
          hubLink,   \* hub.s, 0 when there is none
          sender,    \* where Service.Session stands
          done,      \* sessions that were closed
          dirty,     \* "the state changed", one at most
          rendered,  \* the newest version a session rendered
          up2date,   \* history: no failed rendering swallowed a change
          fails,     \* bound
          linked,    \* sessions whose stream stands
          down,      \* applies in flight
          gateLink,  \* the gateway's session, 0 between two
          opened, breaks, \* sessions opened and broken so far
          receiver,  \* the gateway's receiving goroutine of each session
          state, guard, \* Gateway.state, Gateway.guard
          newest,    \* history: the newest version the guard had
          lastLink,  \* history: the last session that received an apply
          crossed    \* history: a session that ended applied after its successor

policyVars == <<policy, owes, hubLink, sender, done, dirty, rendered, up2date, fails>>
applyVars  == <<receiver, state, guard, newest, lastLink, crossed>>
linkVars   == <<linked, down, gateLink, opened, breaks>>
egressVars == <<policyVars, applyVars, linkVars>>

Links == 1..NLinks

EgressInit ==
  /\ policy = 1 /\ owes = 0 /\ hubLink = 0 /\ done = {} /\ dirty = {} /\ fails = 0
  /\ sender = [l \in Links |-> "none"] /\ rendered = [l \in Links |-> 0]
  /\ up2date = [l \in Links |-> TRUE]
  /\ linked = {} /\ down = [l \in Links |-> <<>>] /\ gateLink = 0 /\ opened = 0
  /\ breaks = 0
  /\ receiver = [l \in Links |-> 0] /\ state = 0 /\ guard = 0 /\ newest = 0
  /\ lastLink = 0 /\ crossed = FALSE

-----------------------------------------------------------------------------
(* A change of what the gateway needs: the database first, then Apply.     *)
ChangePolicy ==
  /\ policy < NPolicies
  /\ policy' = policy + 1 /\ owes' = owes + 1
  /\ UNCHANGED <<hubLink, sender, done, dirty, rendered, up2date, fails, applyVars, linkVars>>

(* hub.get and poke: the live session is marked; one that is closed is not.*)
Poke ==
  /\ hubLink' = IF hubLink \in done THEN 0 ELSE hubLink
  /\ dirty' = IF hubLink' = 0 THEN dirty ELSE dirty \union {hubLink}
  /\ up2date' = IF hubLink' = 0 THEN up2date ELSE [up2date EXCEPT ![hubLink] = TRUE]

Apply ==
  /\ owes > 0 /\ owes' = owes - 1
  /\ Poke
  /\ UNCHANGED <<policy, sender, done, rendered, fails, applyVars, linkVars>>

TickSkips == hubLink = 0 /\ UNCHANGED egressVars

(* Reconcile ends with Ensure, which calls Apply, every Tick.              *)
TickApplies ==
  /\ Poke
  /\ UNCHANGED <<policy, owes, sender, done, rendered, fails, applyVars, linkVars>>

-----------------------------------------------------------------------------
(* A new session takes the hub over from the one before.                   *)
PutSession(l) ==
  /\ sender[l] = "dialed"
  /\ hubLink' = l
  /\ done' = IF hubLink = 0 THEN done ELSE done \union {hubLink}
  /\ sender' = [sender EXCEPT ![l] = "put"]
  /\ UNCHANGED <<policy, owes, dirty, rendered, up2date, fails, applyVars, linkVars>>

PokeFirst(l) ==
  /\ sender[l] = "put"
  /\ dirty' = dirty \union {l}
  /\ sender' = [sender EXCEPT ![l] = "serving"]
  /\ UNCHANGED <<policy, owes, hubLink, done, rendered, up2date, fails, applyVars, linkVars>>

(* The sender takes the mark, then renders: a change after that marks anew.*)
Render(l) ==
  /\ sender[l] = "serving" /\ l \in dirty
  /\ dirty' = dirty \ {l}
  /\ rendered' = [rendered EXCEPT ![l] = policy]
  /\ sender' = [sender EXCEPT ![l] = "sending"]
  /\ UNCHANGED <<policy, owes, hubLink, done, up2date, fails, applyVars, linkVars>>

(* A rendering that fails has taken the mark with it.                      *)
RenderFails(l) ==
  /\ sender[l] = "serving" /\ l \in dirty /\ fails < MaxRenderFails
  /\ dirty' = dirty \ {l} /\ fails' = fails + 1
  /\ up2date' = [up2date EXCEPT ![l] = FALSE]
  /\ UNCHANGED <<policy, owes, hubLink, sender, done, rendered, applyVars, linkVars>>

SendClearsMark(l) ==
  /\ sender[l] = "sending" /\ l \in linked /\ Len(down[l]) < DownCap
  /\ down' = [down EXCEPT ![l] = Append(@, rendered[l])]
  /\ sender' = [sender EXCEPT ![l] = "serving"]
  /\ dirty' = dirty \ {l}
  /\ UNCHANGED <<policy, owes, hubLink, done, rendered, up2date, fails, applyVars, linked,
                 gateLink, opened, breaks>>

SendApply(l) ==
  /\ sender[l] = "sending" /\ l \in linked /\ Len(down[l]) < DownCap
  /\ down' = [down EXCEPT ![l] = Append(@, rendered[l])]
  /\ sender' = [sender EXCEPT ![l] = "serving"]
  /\ UNCHANGED <<policy, owes, hubLink, done, dirty, rendered, up2date, fails, applyVars, linked,
                 gateLink, opened, breaks>>

(* The stream of l is gone, and with it what was in flight.                *)
Unlink(l) ==
  /\ linked' = linked \ {l}
  /\ down' = [down EXCEPT ![l] = <<>>]

(* The handler returns when its stream is gone or it was replaced; remove  *)
(* leaves a successor in the hub.                                          *)
RemoveAny(l) ==
  /\ sender[l] \in {"serving", "sending"} /\ (l \in done \/ l \notin linked)
  /\ sender' = [sender EXCEPT ![l] = "over"]
  /\ hubLink' = 0
  /\ done' = done \union {l} /\ dirty' = dirty \ {l}
  /\ rendered' = [rendered EXCEPT ![l] = 0] /\ up2date' = [up2date EXCEPT ![l] = TRUE]
  /\ Unlink(l)
  /\ UNCHANGED <<policy, owes, fails, applyVars, gateLink, opened, breaks>>

SessionReturns(l) ==
  /\ sender[l] \in {"serving", "sending"} /\ (l \in done \/ l \notin linked)
  /\ sender' = [sender EXCEPT ![l] = "over"]
  /\ hubLink' = IF hubLink = l THEN 0 ELSE hubLink
  /\ done' = done \union {l} /\ dirty' = dirty \ {l}
  /\ rendered' = [rendered EXCEPT ![l] = 0] /\ up2date' = [up2date EXCEPT ![l] = TRUE]
  /\ Unlink(l)
  /\ UNCHANGED <<policy, owes, fails, applyVars, gateLink, opened, breaks>>

-----------------------------------------------------------------------------
(* The gateway opens its next session.                                     *)
OpenLink ==
  /\ gateLink = 0 /\ opened < NLinks
  /\ opened' = opened + 1 /\ gateLink' = opened'
  /\ linked' = linked \union {opened'}
  /\ sender' = [sender EXCEPT ![opened'] = "dialed"]
  /\ UNCHANGED <<policy, owes, hubLink, done, dirty, rendered, up2date, fails, applyVars, down,
                 breaks>>

(* A stream breaks and either side learns of it later.                     *)
BreakLink(l) ==
  /\ l \in linked /\ breaks < MaxBreaks
  /\ breaks' = breaks + 1
  /\ Unlink(l)
  /\ UNCHANGED <<policyVars, applyVars, gateLink, opened>>

(* session returns: its goroutines end on their own.                       *)
LeaveLink ==
  /\ gateLink # 0 /\ gateLink \notin linked
  /\ gateLink' = 0
  /\ UNCHANGED <<policyVars, applyVars, linked, down, opened, breaks>>

ReceiveApply(l) ==
  /\ l \in linked /\ receiver[l] = 0 /\ down[l] # <<>>
  /\ receiver' = [receiver EXCEPT ![l] = Head(down[l])]
  /\ state' = Head(down[l]) /\ lastLink' = l
  /\ down' = [down EXCEPT ![l] = Tail(@)]
  /\ UNCHANGED <<policyVars, guard, newest, crossed, linked, gateLink, opened, breaks>>

(* Gateway.Apply replaces the state first and the guard last.              *)
InstallGuard(l) ==
  /\ receiver[l] # 0
  /\ guard' = receiver[l]
  /\ newest' = IF receiver[l] > newest THEN receiver[l] ELSE newest
  /\ receiver' = [receiver EXCEPT ![l] = 0]
  /\ crossed' = (l # lastLink \/ (crossed /\ \E k \in Links \ {l} : receiver[k] # 0))
  /\ UNCHANGED <<policyVars, state, lastLink, linkVars>>

-----------------------------------------------------------------------------
SenderRuns(l) == PutSession(l) \/ PokeFirst(l) \/ Render(l) \/ SendApply(l) \/ SessionReturns(l)
GatewayRuns(l) == ReceiveApply(l) \/ InstallGuard(l)

EgressNext ==
  \/ ChangePolicy \/ Apply \/ TickApplies \/ OpenLink \/ LeaveLink
  \/ \E l \in Links : \/ SenderRuns(l) \/ RenderFails(l) \/ BreakLink(l) \/ GatewayRuns(l)

(* The goroutines go on by themselves; the tick comes every 30 seconds.     *)
EgressRuns == Apply \/ OpenLink \/ LeaveLink \/ \E l \in Links : SenderRuns(l) \/ GatewayRuns(l)

EgressSpec ==
  EgressInit /\ [][EgressNext]_egressVars /\ WF_egressVars(EgressRuns) /\ WF_egressVars(TickApplies)

-----------------------------------------------------------------------------
(* Every variable of the gateway's session keeps its type.                 *)
EgressTypeOK ==
  /\ policy \in 1..NPolicies /\ owes \in 0..NPolicies /\ hubLink \in 0..NLinks
  /\ sender \in [Links -> {"none", "dialed", "put", "serving", "sending", "over"}]
  /\ done \subseteq Links /\ dirty \subseteq Links /\ linked \subseteq Links
  /\ rendered \in [Links -> 0..NPolicies] /\ receiver \in [Links -> 0..NPolicies]
  /\ up2date \in [Links -> BOOLEAN] /\ fails \in 0..MaxRenderFails
  /\ state \in 0..NPolicies /\ guard \in 0..NPolicies /\ newest \in 0..NPolicies

Open(l) == sender[l] \in {"put", "serving", "sending"} /\ l \notin done

(* No change is lost on an open session: the hub knows it, and it rendered *)
(* the newest version, is marked to, or somebody is about to mark it; only *)
(* a rendering that failed leaves a change to the next tick.               *)
ChangeIsOwed == \A l \in Links : Open(l) =>
  /\ hubLink = l
  /\ rendered[l] = policy \/ l \in dirty \/ owes > 0 \/ sender[l] = "put" \/ ~up2date[l]

(* The gateway never goes back to an older state, and what it knows of its *)
(* clients is of the same apply as what it decides by, but after a       *)
(* session that ended applied what it still held over its successor's.     *)
OneWholeApply ==
  crossed \/ (guard = newest /\ (state = guard \/ \E l \in Links : receiver[l] # 0))

EgressSafe == EgressTypeOK /\ ChangeIsOwed /\ OneWholeApply

(* The gateway ends up with the newest state, whatever breaks on the way.  *)
GatewayCatchesUp == <>[](guard = policy /\ state = policy)
=============================================================================

----------------------------- MODULE LinksProofs -----------------------------
(***************************************************************************)
(* The links of the control plane other than those to a Bot's worker, for  *)
(* any number of sessions, policies, events, edits, messages, turns, tabs, *)
(* cuts and restarts: a gateway holds whole policies and is owed what it   *)
(* lacks; an event that was reported is in one place; messages of a        *)
(* channel are handed on once and in order; a reply that was cut is not    *)
(* said; a tab shows a thread with nothing missing it is not about to get. *)
(***************************************************************************)
EXTENDS MCLinks, SequenceFacts

-----------------------------------------------------------------------------
(* The policies of the egress gateway.                                     *)

(* The gateway has one session at a time; of one that is gone only what    *)
(* its receiver was at is left.                                            *)
LinksInTurn ==
  /\ opened \in 0..NLinks /\ gateLink \in {0, opened} /\ lastLink \in 0..opened
  /\ \A l \in linked : l = gateLink
  /\ \A l \in Links : l > opened => sender[l] = "none" /\ rendered[l] = 0
  /\ \A l \in Links : receiver[l] # 0 => l <= lastLink

(* The hub's session is at work, and each change is owed once.             *)
HubAtWork ==
  /\ hubLink # 0 => sender[hubLink] \in {"put", "serving", "sending"}
  /\ owes < policy
  /\ \A l \in Links : Open(l) => hubLink = l

(* Versions grow from the guard over what was received and what the open   *)
(* session rendered to the database.                                       *)
VersionsGrow ==
  /\ newest <= state /\ state <= policy
  /\ \A l \in Links : receiver[l] <= state /\ rendered[l] <= policy
  /\ lastLink # 0 => receiver[lastLink] \in {0, state}
  /\ \A l \in Links : sender[l] = "sending" => rendered[l] # 0
  /\ \A l \in Links : l = opened /\ rendered[l] # 0 => state <= rendered[l]

(* The sequence q grows from lo to hi.                                     *)
Grows(q, lo, hi) ==
  \A i \in DOMAIN q : lo <= q[i] /\ q[i] <= hi /\ \A j \in 1..i : q[j] <= q[i]

(* What is in flight on a stream grows too, from the newest state received *)
(* to the newest version rendered.                                         *)
FlightGrows ==
  /\ down \in [Links -> Seq(1..NPolicies)]
  /\ \A l \in Links : down[l] # <<>> => l \in linked
  /\ \A l \in Links : Grows(down[l], state, rendered[l])

EgressInv == EgressSafe /\ LinksInTurn /\ HubAtWork /\ VersionsGrow /\ FlightGrows

(* A queue of versions between two bounds stays so when the newest is      *)
(* added at its end or its head is taken.                                  *)
LEMMA GrowsBy ==
  ASSUME NEW q \in Seq(Nat), NEW lo \in Nat, NEW hi \in Nat, Grows(q, lo, hi)
  PROVE  /\ lo <= hi => Grows(Append(q, hi), lo, hi)
         /\ \A h \in Nat : hi <= h => Grows(q, lo, h)
         /\ q # <<>> => /\ Head(q) \in Nat /\ lo <= Head(q) /\ Head(q) <= hi
                        /\ Grows(Tail(q), Head(q), hi)
<1>1. \A i \in DOMAIN q : q[i] \in Nat
  OBVIOUS
<1>2. lo <= hi => Grows(Append(q, hi), lo, hi)
  BY <1>1 DEF Grows
<1>3. \A h \in Nat : hi <= h => Grows(q, lo, h)
  BY <1>1 DEF Grows
<1>4. q # <<>> => /\ Head(q) \in Nat /\ lo <= Head(q) /\ Head(q) <= hi
                  /\ Grows(Tail(q), Head(q), hi)
  <2> SUFFICES ASSUME q # <<>>
               PROVE  /\ Head(q) \in Nat /\ lo <= Head(q) /\ Head(q) <= hi
                      /\ Grows(Tail(q), Head(q), hi)
    OBVIOUS
  <2>1. Head(q) = q[1] /\ 1 \in DOMAIN q
    OBVIOUS
  <2>2. \A i \in DOMAIN Tail(q) : i + 1 \in DOMAIN q /\ Tail(q)[i] = q[i+1]
    OBVIOUS
  <2>3. \A i \in DOMAIN Tail(q) : \A j \in 1..i : j \in DOMAIN Tail(q) /\ j + 1 \in 1..(i+1)
    OBVIOUS
  <2>4. \A i \in DOMAIN Tail(q) : 1 \in 1..(i+1)
    OBVIOUS
  <2> QED
    BY <1>1, <2>1, <2>2, <2>3, <2>4 DEF Grows
<1> QED
  BY <1>2, <1>3, <1>4

(* Nothing is connected yet, and there is one version.                     *)
LEMMA EgressBegins == EgressInit => EgressInv
<1> SUFFICES ASSUME EgressInit PROVE EgressInv
  OBVIOUS
<1>1. EgressSafe
  BY EgressBounds DEF EgressInit, EgressSafe, EgressTypeOK, ChangeIsOwed, Open, OneWholeApply, Links
<1>2. LinksInTurn /\ HubAtWork /\ VersionsGrow
  BY EgressBounds DEF EgressInit, LinksInTurn, HubAtWork, VersionsGrow, Open, Links
<1>3. FlightGrows
  BY EgressBounds DEF EgressInit, FlightGrows, Grows, Links
<1> QED
  BY <1>1, <1>2, <1>3 DEF EgressInv

(* One step of the save, a sender, the receiver or the gateway keeps the   *)
(* invariant.                                                              *)
LEMMA EgressStep == EgressInv /\ [EgressNext]_egressVars => EgressInv'
<1> SUFFICES ASSUME EgressInv, [EgressNext]_egressVars PROVE EgressInv'
  OBVIOUS
<1> USE EgressBounds DEF Links
<1>t. EgressTypeOK /\ ChangeIsOwed /\ OneWholeApply /\ LinksInTurn /\ HubAtWork /\ VersionsGrow /\ FlightGrows
  BY DEF EgressInv, EgressSafe
<1>d. \A l \in Links : /\ down[l] \in Seq(Nat) /\ down[l] \in Seq(1..NPolicies)
                      /\ rendered[l] \in Nat /\ Grows(down[l], state, rendered[l])
  BY <1>t DEF FlightGrows, EgressTypeOK
<1>y. EgressTypeOK /\ state \in Nat /\ policy \in Nat
  BY <1>t DEF EgressTypeOK
<1>g. Grows(<<>>, state, 0)
  BY DEF Grows
<1>o. owes < policy /\ opened \in 0..NLinks
  BY <1>t DEF HubAtWork, LinksInTurn
<1>1. CASE ChangePolicy
  <2>1. EgressTypeOK'
    BY <1>1, <1>t, <1>o DEF ChangePolicy, applyVars, linkVars, EgressTypeOK
  <2>2. ChangeIsOwed'
    BY <1>1, <1>t, <1>o DEF ChangePolicy, applyVars, linkVars, EgressTypeOK, ChangeIsOwed, HubAtWork, Open
  <2>3. OneWholeApply'
    BY <1>1, <1>t, <1>o DEF ChangePolicy, applyVars, linkVars, EgressTypeOK, OneWholeApply, VersionsGrow
  <2>4. LinksInTurn'
    BY <1>1, <1>t, <1>o DEF ChangePolicy, applyVars, linkVars, EgressTypeOK, LinksInTurn
  <2>5. HubAtWork'
    BY <1>1, <1>t, <1>o DEF ChangePolicy, applyVars, linkVars, EgressTypeOK, HubAtWork, Open, LinksInTurn
  <2>6. VersionsGrow'
    BY <1>1, <1>t, <1>o DEF ChangePolicy, applyVars, linkVars, EgressTypeOK, LinksInTurn, VersionsGrow
  <2>7. FlightGrows'
    BY <1>1, <1>t, <1>o DEF ChangePolicy, applyVars, linkVars, EgressTypeOK, LinksInTurn, VersionsGrow, FlightGrows
  <2> QED
    BY <2>1, <2>2, <2>3, <2>4, <2>5, <2>6, <2>7 DEF EgressInv, EgressSafe
<1>2. CASE Apply
  <2>1. EgressTypeOK'
    BY <1>2, <1>t, <1>o DEF Apply, Poke, applyVars, linkVars, EgressTypeOK
  <2>2. ChangeIsOwed'
    BY <1>2, <1>t, <1>o DEF Apply, Poke, applyVars, linkVars, EgressTypeOK, ChangeIsOwed, HubAtWork, Open
  <2>3. OneWholeApply'
    BY <1>2, <1>t, <1>o DEF Apply, Poke, applyVars, linkVars, EgressTypeOK, OneWholeApply, VersionsGrow
  <2>4. LinksInTurn'
    BY <1>2, <1>t, <1>o DEF Apply, Poke, applyVars, linkVars, EgressTypeOK, LinksInTurn
  <2>5. HubAtWork'
    BY <1>2, <1>t, <1>o DEF Apply, Poke, applyVars, linkVars, EgressTypeOK, HubAtWork, Open, LinksInTurn
  <2>6. VersionsGrow'
    BY <1>2, <1>t, <1>o DEF Apply, Poke, applyVars, linkVars, EgressTypeOK, LinksInTurn, VersionsGrow
  <2>7. FlightGrows'
    BY <1>2, <1>t, <1>o DEF Apply, Poke, applyVars, linkVars, EgressTypeOK, LinksInTurn, VersionsGrow, FlightGrows
  <2> QED
    BY <2>1, <2>2, <2>3, <2>4, <2>5, <2>6, <2>7 DEF EgressInv, EgressSafe
<1>3. CASE TickApplies
  <2>1. EgressTypeOK'
    BY <1>3, <1>t, <1>o DEF TickApplies, Poke, applyVars, linkVars, EgressTypeOK
  <2>2. ChangeIsOwed'
    BY <1>3, <1>t, <1>o DEF TickApplies, Poke, applyVars, linkVars, EgressTypeOK, ChangeIsOwed, HubAtWork, Open
  <2>3. OneWholeApply'
    BY <1>3, <1>t, <1>o DEF TickApplies, Poke, applyVars, linkVars, EgressTypeOK, OneWholeApply, VersionsGrow
  <2>4. LinksInTurn'
    BY <1>3, <1>t, <1>o DEF TickApplies, Poke, applyVars, linkVars, EgressTypeOK, LinksInTurn
  <2>5. HubAtWork'
    BY <1>3, <1>t, <1>o DEF TickApplies, Poke, applyVars, linkVars, EgressTypeOK, HubAtWork, Open, LinksInTurn
  <2>6. VersionsGrow'
    BY <1>3, <1>t, <1>o DEF TickApplies, Poke, applyVars, linkVars, EgressTypeOK, LinksInTurn, VersionsGrow
  <2>7. FlightGrows'
    BY <1>3, <1>t, <1>o DEF TickApplies, Poke, applyVars, linkVars, EgressTypeOK, LinksInTurn, VersionsGrow, FlightGrows
  <2> QED
    BY <2>1, <2>2, <2>3, <2>4, <2>5, <2>6, <2>7 DEF EgressInv, EgressSafe
<1>4. CASE OpenLink
  <2>1. EgressTypeOK'
    BY <1>4, <1>t, <1>o DEF OpenLink, applyVars, EgressTypeOK
  <2>2. ChangeIsOwed'
    BY <1>4, <1>t, <1>o DEF OpenLink, applyVars, EgressTypeOK, ChangeIsOwed, HubAtWork, Open
  <2>3. OneWholeApply'
    BY <1>4, <1>t, <1>o DEF OpenLink, applyVars, EgressTypeOK, OneWholeApply, VersionsGrow
  <2>4. LinksInTurn'
    BY <1>4, <1>t, <1>o DEF OpenLink, applyVars, EgressTypeOK, LinksInTurn
  <2>5. HubAtWork'
    BY <1>4, <1>t, <1>o DEF OpenLink, applyVars, EgressTypeOK, HubAtWork, Open, LinksInTurn
  <2>6. VersionsGrow'
    BY <1>4, <1>t, <1>o DEF OpenLink, applyVars, EgressTypeOK, LinksInTurn, VersionsGrow
  <2>7. FlightGrows'
    BY <1>4, <1>t, <1>o DEF OpenLink, applyVars, EgressTypeOK, LinksInTurn, VersionsGrow, FlightGrows
  <2> QED
    BY <2>1, <2>2, <2>3, <2>4, <2>5, <2>6, <2>7 DEF EgressInv, EgressSafe
<1>5. CASE LeaveLink
  <2>1. EgressTypeOK'
    BY <1>5, <1>t, <1>o DEF LeaveLink, policyVars, applyVars, EgressTypeOK
  <2>2. ChangeIsOwed'
    BY <1>5, <1>t, <1>o DEF LeaveLink, policyVars, applyVars, EgressTypeOK, ChangeIsOwed, HubAtWork, Open
  <2>3. OneWholeApply'
    BY <1>5, <1>t, <1>o DEF LeaveLink, policyVars, applyVars, EgressTypeOK, OneWholeApply, VersionsGrow
  <2>4. LinksInTurn'
    BY <1>5, <1>t, <1>o DEF LeaveLink, policyVars, applyVars, EgressTypeOK, LinksInTurn
  <2>5. HubAtWork'
    BY <1>5, <1>t, <1>o DEF LeaveLink, policyVars, applyVars, EgressTypeOK, HubAtWork, Open, LinksInTurn
  <2>6. VersionsGrow'
    BY <1>5, <1>t, <1>o DEF LeaveLink, policyVars, applyVars, EgressTypeOK, LinksInTurn, VersionsGrow
  <2>7. FlightGrows'
    BY <1>5, <1>t, <1>o DEF LeaveLink, policyVars, applyVars, EgressTypeOK, LinksInTurn, VersionsGrow, FlightGrows
  <2> QED
    BY <2>1, <2>2, <2>3, <2>4, <2>5, <2>6, <2>7 DEF EgressInv, EgressSafe
<1>6. ASSUME NEW l \in Links, PutSession(l) PROVE EgressInv'
  <2>1. EgressTypeOK'
    BY SMTT(30), <1>6, <1>t, <1>o DEF PutSession, applyVars, linkVars, EgressTypeOK
  <2>2. ChangeIsOwed'
    BY <1>6, <1>t, <1>o DEF PutSession, applyVars, linkVars, EgressTypeOK, ChangeIsOwed, HubAtWork, Open
  <2>3. OneWholeApply'
    BY <1>6, <1>t, <1>o DEF PutSession, applyVars, linkVars, EgressTypeOK, OneWholeApply, VersionsGrow
  <2>4. LinksInTurn'
    BY <1>6, <1>t, <1>o DEF PutSession, applyVars, linkVars, EgressTypeOK, LinksInTurn
  <2>5. HubAtWork'
    BY <1>6, <1>t, <1>o DEF PutSession, applyVars, linkVars, EgressTypeOK, HubAtWork, Open, LinksInTurn
  <2>6. VersionsGrow'
    BY <1>6, <1>t, <1>o DEF PutSession, applyVars, linkVars, EgressTypeOK, LinksInTurn, VersionsGrow
  <2>7. FlightGrows'
    BY <1>6, <1>t, <1>o DEF PutSession, applyVars, linkVars, EgressTypeOK, LinksInTurn, VersionsGrow, FlightGrows
  <2> QED
    BY <2>1, <2>2, <2>3, <2>4, <2>5, <2>6, <2>7 DEF EgressInv, EgressSafe
<1>7. ASSUME NEW l \in Links, PokeFirst(l) PROVE EgressInv'
  <2>1. EgressTypeOK'
    BY <1>7, <1>t, <1>o DEF PokeFirst, applyVars, linkVars, EgressTypeOK
  <2>2. ChangeIsOwed'
    BY <1>7, <1>t, <1>o DEF PokeFirst, applyVars, linkVars, EgressTypeOK, ChangeIsOwed, HubAtWork, Open
  <2>3. OneWholeApply'
    BY <1>7, <1>t, <1>o DEF PokeFirst, applyVars, linkVars, EgressTypeOK, OneWholeApply, VersionsGrow
  <2>4. LinksInTurn'
    BY <1>7, <1>t, <1>o DEF PokeFirst, applyVars, linkVars, EgressTypeOK, LinksInTurn
  <2>5. HubAtWork'
    BY <1>7, <1>t, <1>o DEF PokeFirst, applyVars, linkVars, EgressTypeOK, HubAtWork, Open, LinksInTurn
  <2>6. VersionsGrow'
    BY <1>7, <1>t, <1>o DEF PokeFirst, applyVars, linkVars, EgressTypeOK, LinksInTurn, VersionsGrow
  <2>7. FlightGrows'
    BY <1>7, <1>t, <1>o DEF PokeFirst, applyVars, linkVars, EgressTypeOK, LinksInTurn, VersionsGrow, FlightGrows
  <2> QED
    BY <2>1, <2>2, <2>3, <2>4, <2>5, <2>6, <2>7 DEF EgressInv, EgressSafe
<1>8. ASSUME NEW l \in Links, Render(l) PROVE EgressInv'
  <2>1. EgressTypeOK'
    BY SMTT(30), <1>8, <1>t, <1>o DEF Render, applyVars, linkVars, EgressTypeOK
  <2>2. ChangeIsOwed'
    BY <1>8, <1>t, <1>o DEF Render, applyVars, linkVars, EgressTypeOK, ChangeIsOwed, HubAtWork, Open
  <2>3. OneWholeApply'
    BY <1>8, <1>t, <1>o DEF Render, applyVars, linkVars, EgressTypeOK, OneWholeApply, VersionsGrow
  <2>4. LinksInTurn'
    BY <1>8, <1>t, <1>o DEF Render, applyVars, linkVars, EgressTypeOK, LinksInTurn
  <2>5. HubAtWork'
    BY <1>8, <1>t, <1>o DEF Render, applyVars, linkVars, EgressTypeOK, HubAtWork, Open, LinksInTurn
  <2>6. VersionsGrow'
    BY <1>8, <1>t, <1>o DEF Render, applyVars, linkVars, EgressTypeOK, LinksInTurn, VersionsGrow
  <2>7. FlightGrows'
    <3>1. \A k \in Links : k # l => rendered'[k] = rendered[k]
      BY <1>8, <1>y DEF Render, EgressTypeOK
    <3>2. rendered'[l] = policy /\ rendered[l] <= policy
      BY <1>8, <1>t DEF Render, EgressTypeOK, VersionsGrow
    <3>3. Grows(down[l], state, policy)
      BY <1>d, <1>y, <3>2, GrowsBy
    <3> QED
      BY <1>8, <1>t, <1>d, <3>1, <3>2, <3>3 DEF Render, applyVars, linkVars, FlightGrows
  <2> QED
    BY <2>1, <2>2, <2>3, <2>4, <2>5, <2>6, <2>7 DEF EgressInv, EgressSafe
<1>9. ASSUME NEW l \in Links, RenderFails(l) PROVE EgressInv'
  <2>1. EgressTypeOK'
    BY <1>9, <1>t, <1>o DEF RenderFails, applyVars, linkVars, EgressTypeOK
  <2>2. ChangeIsOwed'
    BY <1>9, <1>t, <1>o DEF RenderFails, applyVars, linkVars, EgressTypeOK, ChangeIsOwed, HubAtWork, Open
  <2>3. OneWholeApply'
    BY <1>9, <1>t, <1>o DEF RenderFails, applyVars, linkVars, EgressTypeOK, OneWholeApply, VersionsGrow
  <2>4. LinksInTurn'
    BY <1>9, <1>t, <1>o DEF RenderFails, applyVars, linkVars, EgressTypeOK, LinksInTurn
  <2>5. HubAtWork'
    BY <1>9, <1>t, <1>o DEF RenderFails, applyVars, linkVars, EgressTypeOK, HubAtWork, Open, LinksInTurn
  <2>6. VersionsGrow'
    BY <1>9, <1>t, <1>o DEF RenderFails, applyVars, linkVars, EgressTypeOK, LinksInTurn, VersionsGrow
  <2>7. FlightGrows'
    BY <1>9, <1>t, <1>o DEF RenderFails, applyVars, linkVars, EgressTypeOK, LinksInTurn, VersionsGrow, FlightGrows
  <2> QED
    BY <2>1, <2>2, <2>3, <2>4, <2>5, <2>6, <2>7 DEF EgressInv, EgressSafe
<1>10. ASSUME NEW l \in Links, SendApply(l) PROVE EgressInv'
  <2>1. EgressTypeOK'
    BY <1>10, <1>t, <1>o DEF SendApply, applyVars, EgressTypeOK
  <2>2. ChangeIsOwed'
    BY <1>10, <1>t, <1>o DEF SendApply, applyVars, EgressTypeOK, ChangeIsOwed, HubAtWork, Open
  <2>3. OneWholeApply'
    BY <1>10, <1>t, <1>o DEF SendApply, applyVars, EgressTypeOK, OneWholeApply, VersionsGrow
  <2>4. LinksInTurn'
    BY <1>10, <1>t, <1>o DEF SendApply, applyVars, EgressTypeOK, LinksInTurn
  <2>5. HubAtWork'
    BY <1>10, <1>t, <1>o DEF SendApply, applyVars, EgressTypeOK, HubAtWork, Open, LinksInTurn
  <2>6. VersionsGrow'
    BY <1>10, <1>t, <1>o DEF SendApply, applyVars, EgressTypeOK, LinksInTurn, VersionsGrow
  <2>7. FlightGrows'
    <3>1. l = opened /\ state <= rendered[l] /\ rendered[l] # 0
      BY <1>10, <1>t DEF SendApply, LinksInTurn, VersionsGrow
    <3>2. /\ down'[l] = Append(down[l], rendered[l])
          /\ \A k \in Links \ {l} : down'[k] = down[k]
      BY <1>10, <1>t DEF SendApply, FlightGrows
    <3>3. Grows(down'[l], state, rendered[l])
      BY <3>1, <3>2, <1>d, <1>y, GrowsBy
    <3>4. rendered[l] \in 1..NPolicies
      BY <3>1, <1>y DEF EgressTypeOK
    <3>5. down' \in [Links -> Seq(1..NPolicies)]
      BY <1>10, <1>t, <3>4 DEF SendApply, FlightGrows
    <3> QED
      BY <1>10, <1>t, <1>d, <3>2, <3>3, <3>5 DEF SendApply, applyVars, FlightGrows
  <2> QED
    BY <2>1, <2>2, <2>3, <2>4, <2>5, <2>6, <2>7 DEF EgressInv, EgressSafe
<1>11. ASSUME NEW l \in Links, SessionReturns(l) PROVE EgressInv'
  <2>1. EgressTypeOK'
    BY <1>11, <1>t, <1>o DEF SessionReturns, Unlink, applyVars, EgressTypeOK
  <2>2. ChangeIsOwed'
    BY <1>11, <1>t, <1>o DEF SessionReturns, Unlink, applyVars, EgressTypeOK, ChangeIsOwed, HubAtWork, Open
  <2>3. OneWholeApply'
    BY <1>11, <1>t, <1>o DEF SessionReturns, Unlink, applyVars, EgressTypeOK, OneWholeApply, VersionsGrow
  <2>4. LinksInTurn'
    BY <1>11, <1>t, <1>o DEF SessionReturns, Unlink, applyVars, EgressTypeOK, LinksInTurn
  <2>5. HubAtWork'
    BY <1>11, <1>t, <1>o DEF SessionReturns, Unlink, applyVars, EgressTypeOK, HubAtWork, Open, LinksInTurn
  <2>6. VersionsGrow'
    BY <1>11, <1>t, <1>o DEF SessionReturns, Unlink, applyVars, EgressTypeOK, LinksInTurn, VersionsGrow
  <2>7. FlightGrows'
    <3>1. down' = [down EXCEPT ![l] = <<>>] /\ rendered' = [rendered EXCEPT ![l] = 0]
          /\ linked' = linked \ {l} /\ state' = state
      BY <1>11 DEF SessionReturns, Unlink, applyVars
    <3>2. /\ down'[l] = <<>> /\ rendered'[l] = 0
          /\ \A k \in Links \ {l} : down'[k] = down[k] /\ rendered'[k] = rendered[k]
      BY <3>1, <1>t DEF FlightGrows, EgressTypeOK
    <3>3. \A k \in Links : Grows(down'[k], state, rendered'[k])
      BY <3>2, <1>d, <1>g
    <3> QED
      BY <3>1, <3>2, <3>3, <1>t DEF FlightGrows
  <2> QED
    BY <2>1, <2>2, <2>3, <2>4, <2>5, <2>6, <2>7 DEF EgressInv, EgressSafe
<1>12. ASSUME NEW l \in Links, BreakLink(l) PROVE EgressInv'
  <2>1. EgressTypeOK'
    BY <1>12, <1>t, <1>o DEF BreakLink, Unlink, policyVars, applyVars, EgressTypeOK
  <2>2. ChangeIsOwed'
    BY <1>12, <1>t, <1>o DEF BreakLink, Unlink, policyVars, applyVars, EgressTypeOK, ChangeIsOwed, HubAtWork, Open
  <2>3. OneWholeApply'
    BY <1>12, <1>t, <1>o DEF BreakLink, Unlink, policyVars, applyVars, EgressTypeOK, OneWholeApply, VersionsGrow
  <2>4. LinksInTurn'
    BY <1>12, <1>t, <1>o DEF BreakLink, Unlink, policyVars, applyVars, EgressTypeOK, LinksInTurn
  <2>5. HubAtWork'
    BY <1>12, <1>t, <1>o DEF BreakLink, Unlink, policyVars, applyVars, EgressTypeOK, HubAtWork, Open, LinksInTurn
  <2>6. VersionsGrow'
    BY <1>12, <1>t, <1>o DEF BreakLink, Unlink, policyVars, applyVars, EgressTypeOK, LinksInTurn, VersionsGrow
  <2>7. FlightGrows'
    <3>1. down' = [down EXCEPT ![l] = <<>>] /\ rendered' = rendered
          /\ linked' = linked \ {l} /\ state' = state
      BY <1>12 DEF BreakLink, Unlink, applyVars, policyVars
    <3>2. /\ down'[l] = <<>>
          /\ \A k \in Links \ {l} : down'[k] = down[k]
      BY <3>1, <1>t DEF FlightGrows
    <3>3. Grows(<<>>, state, rendered[l])
      BY DEF Grows
    <3>4. \A k \in Links : Grows(down'[k], state, rendered[k])
      BY <3>2, <3>3, <1>d
    <3> QED
      BY <3>1, <3>2, <3>4, <1>t DEF FlightGrows
  <2> QED
    BY <2>1, <2>2, <2>3, <2>4, <2>5, <2>6, <2>7 DEF EgressInv, EgressSafe
<1>13. ASSUME NEW l \in Links, ReceiveApply(l) PROVE EgressInv'
  <2>1. EgressTypeOK'
    <3>1. Head(down[l]) \in 0..NPolicies
      BY <1>13, <1>d DEF ReceiveApply
    <3> QED
      BY <1>13, <1>y, <3>1 DEF ReceiveApply, policyVars, EgressTypeOK
  <2>2. ChangeIsOwed'
    BY <1>13, <1>t, <1>o DEF ReceiveApply, policyVars, EgressTypeOK, ChangeIsOwed, HubAtWork, Open
  <2>3. OneWholeApply'
    <3>1. Head(down[l]) # 0 /\ receiver'[l] = Head(down[l])
      <4>1. down[l] # <<>> /\ receiver' = [receiver EXCEPT ![l] = Head(down[l])]
        BY <1>13 DEF ReceiveApply
      <4>2. Head(down[l]) \in 1..NPolicies
        BY <4>1, <1>d
      <4> QED
        BY <4>1, <4>2, <1>y DEF EgressTypeOK
    <3> QED
      BY <1>13, <1>t, <3>1 DEF ReceiveApply, OneWholeApply
  <2>4. LinksInTurn'
    BY <1>13, <1>t, <1>o DEF ReceiveApply, policyVars, EgressTypeOK, LinksInTurn
  <2>5. HubAtWork'
    BY <1>13, <1>t, <1>o DEF ReceiveApply, policyVars, EgressTypeOK, HubAtWork, Open, LinksInTurn
  <2>6. VersionsGrow'
    <3>1. /\ l = opened /\ Head(down[l]) \in Nat /\ state <= Head(down[l])
          /\ Head(down[l]) <= rendered[l] /\ rendered[l] <= policy
      BY SMTT(30), <1>13, <1>t, <1>d, <1>y, GrowsBy DEF ReceiveApply, LinksInTurn, VersionsGrow
    <3>2. /\ state' = Head(down[l]) /\ lastLink' = l /\ receiver' = [receiver EXCEPT ![l] = state']
          /\ UNCHANGED <<newest, policy, rendered, sender, opened>>
      BY <1>13 DEF ReceiveApply, policyVars
    <3>3. \A k \in Links : receiver'[k] <= state' /\ receiver'[k] \in Nat
      BY SMTT(30), <3>1, <3>2, <1>t DEF EgressTypeOK, VersionsGrow
    <3> QED
      BY SMTT(30), <3>1, <3>2, <3>3, <1>t DEF EgressTypeOK, VersionsGrow
  <2>7. FlightGrows'
    <3>1. l = opened /\ l \in linked /\ down[l] # <<>>
      BY <1>13, <1>t DEF ReceiveApply, LinksInTurn
    <3>2. /\ state' = Head(down[l]) /\ down' = [down EXCEPT ![l] = Tail(down[l])]
          /\ UNCHANGED <<rendered, linked>>
      BY <1>13 DEF ReceiveApply, policyVars
    <3>3. \A k \in Links \ {l} : down[k] = <<>>
      BY <3>1, <1>t DEF LinksInTurn, FlightGrows
    <3>4. /\ down'[l] = Tail(down[l])
          /\ \A k \in Links \ {l} : down'[k] = <<>>
      BY <3>2, <3>3, <1>t DEF FlightGrows
    <3>5. \A k \in Links : Grows(down'[k], state', rendered[k])
      <4>1. Grows(Tail(down[l]), state', rendered[l])
        BY <3>1, <3>2, <1>d, <1>y, GrowsBy
      <4>2. \A k \in Links \ {l} : Grows(<<>>, state', rendered[k])
        BY DEF Grows
      <4> QED
        BY <4>1, <4>2, <3>4
    <3>6. down' \in [Links -> Seq(1..NPolicies)]
      BY <3>1, <3>2, <1>t DEF FlightGrows
    <3> QED
      BY <3>1, <3>2, <3>4, <3>5, <3>6 DEF FlightGrows
  <2> QED
    BY <2>1, <2>2, <2>3, <2>4, <2>5, <2>6, <2>7 DEF EgressInv, EgressSafe
<1>14. ASSUME NEW l \in Links, InstallGuard(l) PROVE EgressInv'
  <2>1. EgressTypeOK'
    BY SMTT(30), <1>14, <1>y DEF InstallGuard, policyVars, linkVars, EgressTypeOK
  <2>2. ChangeIsOwed'
    BY <1>14, <1>t, <1>o DEF InstallGuard, policyVars, linkVars, EgressTypeOK, ChangeIsOwed, HubAtWork, Open
  <2>3. OneWholeApply'
    <3> SUFFICES ASSUME l = lastLink PROVE guard' = newest' /\ state' = guard'
      BY <1>14 DEF InstallGuard, OneWholeApply
    <3>1. receiver[l] = state /\ newest <= state /\ newest \in Nat
      BY <1>14, <1>t DEF InstallGuard, VersionsGrow, EgressTypeOK
    <3> QED
      BY <1>14, <3>1, <1>y DEF InstallGuard
  <2>4. LinksInTurn'
    BY <1>14, <1>t, <1>o DEF InstallGuard, policyVars, linkVars, EgressTypeOK, LinksInTurn
  <2>5. HubAtWork'
    BY <1>14, <1>t, <1>o DEF InstallGuard, policyVars, linkVars, EgressTypeOK, HubAtWork, Open, LinksInTurn
  <2>6. VersionsGrow'
    BY SMTT(30), <1>14, <1>t, <1>o DEF InstallGuard, policyVars, linkVars, EgressTypeOK, LinksInTurn, VersionsGrow
  <2>7. FlightGrows'
    BY <1>14, <1>t, <1>o DEF InstallGuard, policyVars, linkVars, EgressTypeOK, LinksInTurn, VersionsGrow, FlightGrows
  <2> QED
    BY <2>1, <2>2, <2>3, <2>4, <2>5, <2>6, <2>7 DEF EgressInv, EgressSafe
<1>15. CASE UNCHANGED egressVars
  BY <1>15, <1>t DEF egressVars, policyVars, applyVars, linkVars, EgressTypeOK, ChangeIsOwed, OneWholeApply, LinksInTurn, HubAtWork, VersionsGrow, FlightGrows, Open, EgressInv, EgressSafe
<1> QED
  BY <1>1, <1>2, <1>3, <1>4, <1>5, <1>6, <1>7, <1>8, <1>9, <1>10, <1>11, <1>12, <1>13, <1>14, <1>15 DEF EgressNext, SenderRuns, GatewayRuns

(* Whatever the order of saves, connects, renders, sends, applies and      *)
(* cuts: the policy a gateway lacks is on its way to it, and it applies    *)
(* one whole policy after another, never an older one, unless a receiver   *)
(* that was left behind crossed its successor.                             *)
THEOREM EgressSafeHolds == EgressSpec => []EgressSafe
<1>1. EgressInv => EgressSafe
  BY DEF EgressInv
<1> QED
  BY <1>1, EgressBegins, EgressStep, PTL DEF EgressSpec

-----------------------------------------------------------------------------
(* The events it reports.                                                  *)

(* Events at a session: drained and not sent yet, or in flight.            *)
AtSession(l) == ToSet(batch[l]) \union ToSet(up[l])

(* Nothing is anywhere that was not recorded. *)
HeldIsRecorded ==
  /\ events \in Seq(1..recorded)
  /\ batch \in [Uplinks -> Seq(1..recorded)] /\ up \in [Uplinks -> Seq(1..recorded)]

(* Each event is somewhere, and nowhere else.                              *)
EventsApart ==
  /\ \A r \in 1..recorded : \/ r \in ToSet(events) \union told \union lost \union forgotten
                            \/ \E l \in Uplinks : r \in AtSession(l)
  /\ ToSet(events) \intersect (told \union lost \union forgotten) = {}
  /\ told \intersect lost = {} /\ (told \union lost) \intersect forgotten = {}
  /\ \A l \in Uplinks :
       /\ ToSet(batch[l]) \intersect ToSet(up[l]) = {}
       /\ AtSession(l) \intersect (ToSet(events) \union told \union lost \union forgotten) = {}
       /\ \A k \in Uplinks \ {l} : AtSession(l) \intersect AtSession(k) = {}

ReportsInv == ReportsTypeOK /\ HeldIsRecorded /\ EventsApart /\ BatchHasFlush

(* What is kept of a list that is too long is a part of it.                *)
LEMMA Kept ==
  ASSUME NEW S, NEW q \in Seq(S)
  PROVE  /\ KeepNewest(q) \in Seq(S) /\ Len(KeepNewest(q)) <= ReportCap
         /\ ToSet(KeepNewest(q)) \subseteq ToSet(q)
<1> USE ReportBounds
<1>1. CASE Len(q) > ReportCap
  <2>1. KeepNewest(q) = SubSeq(q, Len(q) - ReportCap + 1, Len(q))
    BY <1>1 DEF KeepNewest
  <2>2. Len(q) \in Nat /\ Len(q) - ReportCap + 1 \in 1..Len(q) + 1 /\ DOMAIN q = 1..Len(q)
    BY <1>1
  <2>3. /\ KeepNewest(q) \in Seq(S) /\ Len(KeepNewest(q)) = ReportCap
        /\ \A i \in 1..ReportCap : KeepNewest(q)[i] = q[Len(q) - ReportCap + 1 + i - 1]
    BY <1>1, <2>1, <2>2, SubSeqProperties
  <2>4. \A i \in 1..ReportCap : Len(q) - ReportCap + 1 + i - 1 \in 1..Len(q)
    BY <1>1, <2>2
  <2>5. ASSUME NEW y \in ToSet(KeepNewest(q)) PROVE y \in ToSet(q)
    <3>1. PICK i \in 1..ReportCap : y = KeepNewest(q)[i]
      BY <2>3 DEF ToSet
    <3> QED
      BY <3>1, <2>2, <2>3, <2>4 DEF ToSet
  <2> QED
    BY <2>3, <2>5
<1>2. CASE ~(Len(q) > ReportCap)
  BY <1>2 DEF KeepNewest
<1> QED
  BY <1>1, <1>2

(* Nothing was recorded yet.                                               *)
LEMMA ReportsBegin == ReportsInit => ReportsInv
<1> SUFFICES ASSUME ReportsInit PROVE ReportsInv
  OBVIOUS
<1>1. ReportsTypeOK /\ BatchHasFlush
  BY ReportBounds DEF ReportsInit, ReportsTypeOK, BatchHasFlush, Uplinks
<1>2. HeldIsRecorded
  BY DEF ReportsInit, HeldIsRecorded
<1>3. ToSet(<<>>) = {}
  BY DEF ToSet
<1>4. \A l \in Uplinks : AtSession(l) = {}
  BY <1>3 DEF ReportsInit, AtSession
<1>5. EventsApart
  BY <1>3, <1>4 DEF ReportsInit, EventsApart
<1> QED
  BY <1>1, <1>2, <1>5 DEF ReportsInv

(* A step moves events between the gateway, the control plane and one      *)
(* session.                                                                *)
LEMMA EventsMove ==
  ASSUME EventsApart, NEW l \in Uplinks, recorded' = recorded,
         \A k \in Uplinks \ {l} : batch'[k] = batch[k] /\ up'[k] = up[k],
         ToSet(events') \union told' \union lost' \union forgotten' \union ToSet(batch'[l]) \union ToSet(up'[l])
           = ToSet(events) \union told \union lost \union forgotten \union AtSession(l),
         ToSet(events') \intersect (told' \union lost' \union forgotten') = {},
         told' \intersect lost' = {}, (told' \union lost') \intersect forgotten' = {},
         ToSet(batch'[l]) \intersect ToSet(up'[l]) = {},
         (ToSet(batch'[l]) \union ToSet(up'[l]))
           \intersect (ToSet(events') \union told' \union lost' \union forgotten') = {}
  PROVE  EventsApart'
<1>1. /\ AtSession(l)' = ToSet(batch'[l]) \union ToSet(up'[l])
      /\ \A k \in Uplinks \ {l} : AtSession(k)' = AtSession(k)
  BY DEF AtSession
<1>2. ToSet(events') \union told' \union lost' \union forgotten' \union AtSession(l)'
        = ToSet(events) \union told \union lost \union forgotten \union AtSession(l)
  BY <1>1
<1>3. \A r \in 1..recorded' : \/ r \in ToSet(events') \union told' \union lost' \union forgotten'
                             \/ \E k \in Uplinks : r \in AtSession(k)'
  BY <1>1, <1>2 DEF EventsApart
<1>4. \A k \in Uplinks : ToSet(batch'[k]) \intersect ToSet(up'[k]) = {}
  BY DEF EventsApart
<1>5. \A k \in Uplinks :
        AtSession(k)' \intersect (ToSet(events') \union told' \union lost' \union forgotten') = {}
  <2>1. ASSUME NEW k \in Uplinks \ {l}
        PROVE  AtSession(k) \intersect (ToSet(events) \union told \union lost \union forgotten \union AtSession(l)) = {}
    BY DEF EventsApart
  <2> QED
    BY <1>1, <1>2, <2>1
<1>6. \A k \in Uplinks : \A j \in Uplinks \ {k} : AtSession(k)' \intersect AtSession(j)' = {}
  <2>1. \A k \in Uplinks \ {l} : AtSession(l)' \intersect AtSession(k) = {}
    BY <1>2 DEF EventsApart
  <2> QED
    BY <1>1, <2>1 DEF EventsApart
<1> QED
  BY <1>3, <1>4, <1>5, <1>6 DEF EventsApart, Uplinks

(* One step of the gateway's buffer, of a flush or of a link keeps each    *)
(* event in its one place.                                                 *)
LEMMA ReportsStep == ReportsInv /\ [ReportsNext]_reportVars => ReportsInv'
<1> SUFFICES ASSUME ReportsInv, [ReportsNext]_reportVars PROVE ReportsInv'
  OBVIOUS
<1>t. ReportsTypeOK /\ HeldIsRecorded /\ EventsApart /\ BatchHasFlush
  BY DEF ReportsInv
<1>r. /\ recorded \in Nat /\ recorded \in 0..NReports /\ 1..recorded \subseteq 1..NReports
      /\ told \union lost \union forgotten \subseteq 1..recorded
      /\ Len(events) <= ReportCap /\ NReports \in Nat /\ NUplinks \in Nat
  BY <1>t, ReportBounds DEF ReportsTypeOK
<1>m. ASSUME NEW m \in Nat, NEW n \in Nat, m <= n PROVE Seq(1..m) \subseteq Seq(1..n)
  <2>1. 1..m \subseteq 1..n
    BY <1>m
  <2> QED
    BY <2>1
<1>s. events \in Seq(1..recorded) /\ ToSet(events) \subseteq 1..recorded /\ ToSet(<<>>) = {}
      /\ \A l \in Uplinks : /\ batch[l] \in Seq(1..recorded) /\ up[l] \in Seq(1..recorded)
                           /\ ToSet(batch[l]) \subseteq 1..recorded /\ ToSet(up[l]) \subseteq 1..recorded
                           /\ AtSession(l) \subseteq 1..recorded
  <2>1. events \in Seq(1..recorded) /\ \A l \in Uplinks : batch[l] \in Seq(1..recorded) /\ up[l] \in Seq(1..recorded)
    BY <1>t DEF HeldIsRecorded
  <2>2. ToSet(<<>>) = {} /\ \A q \in Seq(1..recorded) : ToSet(q) \subseteq 1..recorded
    BY <2>1, ElementsOf
  <2> QED
    BY <2>1, <2>2 DEF AtSession
<1>1. CASE RecordReport
  <2> DEFINE q == Append(events, recorded')
  <2>1. /\ recorded' = recorded + 1 /\ recorded' \in 1..NReports
        /\ events' = KeepNewest(q) /\ forgotten' = forgotten \union (ToSet(q) \ ToSet(KeepNewest(q)))
        /\ UNCHANGED <<uplink, uplinks, losses, whole, flushing, batch, up, told, lost>>
    BY <1>1, <1>r DEF RecordReport, TooMany
  <2>2. /\ recorded' \in 1..recorded' /\ 1..recorded \subseteq 1..recorded'
        /\ 1..recorded' = (1..recorded) \union {recorded'} /\ recorded' \notin 1..recorded
    BY <2>1, <1>r
  <2>3. q \in Seq(1..recorded') /\ ToSet(q) = ToSet(events) \union {recorded'}
    <3>1. events \in Seq(1..recorded')
      BY <1>s, <1>m, <1>r, <2>1
    <3> QED
      BY <3>1, <2>2, ElementsOf
  <2> HIDE DEF q
  <2>4. /\ KeepNewest(q) \in Seq(1..recorded') /\ Len(KeepNewest(q)) <= ReportCap
        /\ ToSet(KeepNewest(q)) \subseteq ToSet(q)
    BY <2>3, Kept
  <2>5. HeldIsRecorded'
    <3>1. Seq(1..recorded) \subseteq Seq(1..recorded')
      BY <1>m, <1>r, <2>1
    <3>2. batch \in [Uplinks -> Seq(1..recorded')] /\ up \in [Uplinks -> Seq(1..recorded')]
      BY <3>1, <1>t DEF HeldIsRecorded
    <3> QED
      BY <2>1, <2>4, <3>2 DEF HeldIsRecorded, Uplinks
  <2>6. ReportsTypeOK'
    <3>1. events' \in Seq(1..NReports)
      BY <2>1, <2>4, <1>r, <1>m
    <3>2. told' \union lost' \union forgotten' \subseteq 1..recorded'
      BY <2>1, <2>2, <2>3, <1>r, <1>s
    <3> QED
      BY <3>1, <3>2, <2>1, <2>4, <1>t DEF ReportsTypeOK, Uplinks
  <2>7. EventsApart'
    <3>1. \A l \in Uplinks : AtSession(l)' = AtSession(l)
      BY <2>1 DEF AtSession
    <3>2. ToSet(events') \union forgotten' = ToSet(events) \union forgotten \union {recorded'}
      BY <2>1, <2>3, <2>4
    <3>3. ToSet(events') \intersect forgotten' = {}
      BY <2>1, <2>2, <2>3, <2>4, <1>t, <1>r DEF EventsApart
    <3>4. Uplinks' = Uplinks
      BY DEF Uplinks
    <3>5. \A l \in Uplinks : AtSession(l)' \subseteq 1..recorded
      BY <3>1, <1>s
    <3>6. \A r \in 1..recorded' : \/ r \in ToSet(events') \union told' \union lost' \union forgotten'
                                 \/ \E l \in Uplinks : r \in AtSession(l)'
      BY <2>1, <2>2, <3>1, <3>2, <1>t DEF EventsApart
    <3>7. ToSet(events') \union forgotten' \subseteq ToSet(events) \union forgotten \union {recorded'}
      BY <3>2
    <3>8. /\ ToSet(events') \intersect (told' \union lost' \union forgotten') = {}
          /\ told' \intersect lost' = {} /\ (told' \union lost') \intersect forgotten' = {}
      BY <2>1, <2>2, <3>3, <3>7, <1>t, <1>r DEF EventsApart
    <3>9. \A l \in Uplinks :
            AtSession(l)' \intersect (ToSet(events') \union told' \union lost' \union forgotten') = {}
      BY <2>1, <2>2, <3>1, <3>7, <3>5, <1>t DEF EventsApart
    <3>10. \A l \in Uplinks : /\ ToSet(batch'[l]) \intersect ToSet(up'[l]) = {}
                            /\ \A k \in Uplinks \ {l} : AtSession(l)' \intersect AtSession(k)' = {}
      BY <2>1, <3>1, <1>t DEF EventsApart
    <3> QED
      BY <3>4, <3>6, <3>8, <3>9, <3>10 DEF EventsApart
  <2>8. BatchHasFlush'
    BY <2>1, <1>t DEF BatchHasFlush
  <2> QED
    BY <2>5, <2>6, <2>7, <2>8 DEF ReportsInv
<1>2. CASE OpenUplink \/ LeaveUplink
  <2>1. UNCHANGED <<events, recorded, batch, up, told, lost, forgotten>> /\ flushing \subseteq flushing'
    BY <1>2 DEF OpenUplink, LeaveUplink
  <2>2. ReportsTypeOK'
    <3>1. CASE OpenUplink
      <4>1. uplinks + 1 \in 1..NUplinks
        BY <3>1, <1>t, <1>r DEF OpenUplink, ReportsTypeOK
      <4> QED
        BY <3>1, <4>1, <1>t, <1>r DEF OpenUplink, ReportsTypeOK, Uplinks
    <3>2. CASE LeaveUplink
      BY <3>2, <1>t, <1>r DEF LeaveUplink, ReportsTypeOK, Uplinks
    <3> QED
      BY <1>2, <3>1, <3>2
  <2> QED
    BY <2>1, <2>2, <1>t DEF ReportsInv, HeldIsRecorded, EventsApart, AtSession, BatchHasFlush, Uplinks
<1>3. ASSUME NEW l \in Uplinks, FlushRuns(l) \/ BreakUplink(l) PROVE ReportsInv'
  <2>e. /\ EventsApart /\ AtSession(l) = ToSet(batch[l]) \union ToSet(up[l])
        /\ ToSet(batch[l]) \intersect ToSet(up[l]) = {}
        /\ AtSession(l) \intersect (ToSet(events) \union told \union lost \union forgotten) = {}
        /\ ToSet(events) \intersect (told \union lost \union forgotten) = {}
        /\ told \intersect lost = {} /\ (told \union lost) \intersect forgotten = {}
    BY <1>t DEF EventsApart, AtSession
  <2>f. /\ batch \in [Uplinks -> Seq(1..recorded)] /\ up \in [Uplinks -> Seq(1..recorded)]
        /\ batch[l] \in Seq(1..recorded) /\ up[l] \in Seq(1..recorded) /\ events \in Seq(1..recorded)
        /\ <<>> \in Seq(1..recorded)
    BY <1>t DEF HeldIsRecorded
  <2>1. recorded' = recorded /\ UNCHANGED <<uplink, uplinks>>
    BY <1>3 DEF FlushRuns, BreakUplink, Drain, SendReports, Requeue, FlushEnds, TakeReports
  <2>2. HeldIsRecorded' /\ EventsApart' /\ Len(events') <= ReportCap
    <3>1. CASE BreakUplink(l)
      <4>1. /\ batch' = batch /\ up' = [up EXCEPT ![l] = <<>>] /\ lost' = lost \union ToSet(up[l])
            /\ UNCHANGED <<events, told, forgotten>>
        BY <3>1 DEF BreakUplink
      <4>2. up'[l] = <<>> /\ \A k \in Uplinks \ {l} : up'[k] = up[k]
        BY <4>1, <2>f
      <4>3. ToSet(up'[l]) = {} /\ ToSet(batch'[l]) = ToSet(batch[l])
        BY <4>1, <4>2, <1>s
      <4>4. EventsApart'
        BY <4>1, <4>2, <4>3, <2>1, <2>e, EventsMove
      <4> QED
        BY <4>1, <4>4, <2>1, <2>f, <1>r DEF HeldIsRecorded
    <3>2. CASE Drain(l)
      <4>1. /\ up' = up /\ batch[l] = <<>> /\ batch' = [batch EXCEPT ![l] = events] /\ events' = <<>>
            /\ UNCHANGED <<told, lost, forgotten>>
        BY <3>2 DEF Drain
      <4>2. batch'[l] = events /\ \A k \in Uplinks \ {l} : batch'[k] = batch[k]
        BY <4>1, <2>f
      <4>3. ToSet(events') = {} /\ ToSet(batch[l]) = {}
        BY <4>1, <1>s
      <4>4. EventsApart'
        BY <4>1, <4>2, <4>3, <2>1, <2>e, EventsMove
      <4> QED
        BY <4>1, <4>4, <2>1, <2>f, ReportBounds DEF HeldIsRecorded
    <3>3. CASE SendReports(l)
      <4>1. /\ up' = [up EXCEPT ![l] = up[l] \o batch[l]] /\ batch' = [batch EXCEPT ![l] = <<>>]
            /\ UNCHANGED <<events, told, lost, forgotten>>
        BY <3>3 DEF SendReports
      <4>2. /\ batch'[l] = <<>> /\ up'[l] = up[l] \o batch[l]
            /\ \A k \in Uplinks \ {l} : batch'[k] = batch[k] /\ up'[k] = up[k]
        BY <4>1, <2>f
      <4>3. ToSet(batch'[l]) = {} /\ ToSet(up'[l]) = AtSession(l) /\ up[l] \o batch[l] \in Seq(1..recorded)
        BY <4>2, <1>s, <2>e, <2>f, ElementsOf
      <4>4. EventsApart'
        <5>1. ToSet(batch'[l]) \union ToSet(up'[l]) = AtSession(l) /\ ToSet(batch'[l]) \intersect ToSet(up'[l]) = {}
          BY <4>3
        <5>2. UNCHANGED <<events, told, lost, forgotten>>
          BY <4>1
        <5> QED
          BY <5>1, <5>2, <4>2, <2>1, <2>e, EventsMove
      <4> QED
        BY <4>1, <4>3, <4>4, <2>1, <2>f, <1>r DEF HeldIsRecorded
    <3>4. CASE Requeue(l)
      <4> DEFINE q == batch[l] \o events
      <4>1. /\ up' = up /\ batch' = [batch EXCEPT ![l] = <<>>] /\ events' = KeepNewest(q)
            /\ forgotten' = forgotten \union (ToSet(q) \ ToSet(KeepNewest(q)))
            /\ UNCHANGED <<told, lost>>
        BY <3>4 DEF Requeue, TooMany
      <4>2. batch'[l] = <<>> /\ \A k \in Uplinks \ {l} : batch'[k] = batch[k]
        BY <4>1, <2>f
      <4>3. q \in Seq(1..recorded) /\ ToSet(q) = ToSet(batch[l]) \union ToSet(events)
        BY <2>f, ElementsOf
      <4> HIDE DEF q
      <4>4. /\ KeepNewest(q) \in Seq(1..recorded) /\ Len(KeepNewest(q)) <= ReportCap
            /\ ToSet(KeepNewest(q)) \subseteq ToSet(q)
        BY <4>3, Kept
      <4>5. ToSet(batch'[l]) = {} /\ ToSet(up'[l]) = ToSet(up[l])
        BY <4>1, <4>2, <1>s
      <4>6. ToSet(events') \intersect (told \union lost \union forgotten') = {}
        BY <4>1, <4>3, <4>4, <2>e
      <4>7. ToSet(events') \union forgotten' = ToSet(events) \union forgotten \union ToSet(batch[l])
        BY <4>1, <4>3, <4>4
      <4>8. (told \union lost) \intersect forgotten' = {}
        BY <4>1, <4>3, <2>e
      <4>9. EventsApart'
        BY <4>1, <4>2, <4>5, <4>6, <4>7, <4>8, <2>1, <2>e, EventsMove
      <4> QED
        BY <4>1, <4>4, <4>9, <2>1, <2>f DEF HeldIsRecorded
    <3>5. CASE FlushEnds(l)
      <4>1. UNCHANGED <<events, batch, up, told, lost, forgotten>>
        BY <3>5 DEF FlushEnds
      <4> QED
        BY <4>1, <2>1, <1>t, <1>r DEF HeldIsRecorded, EventsApart, AtSession, Uplinks
    <3>6. CASE TakeReports(l)
      <4>1. /\ batch' = batch /\ up' = [up EXCEPT ![l] = <<>>] /\ told' = told \union ToSet(up[l])
            /\ UNCHANGED <<events, lost, forgotten>>
        BY <3>6 DEF TakeReports
      <4>2. up'[l] = <<>> /\ \A k \in Uplinks \ {l} : up'[k] = up[k]
        BY <4>1, <2>f
      <4>3. ToSet(up'[l]) = {} /\ ToSet(batch'[l]) = ToSet(batch[l])
        BY <4>1, <4>2, <1>s
      <4>4. EventsApart'
        BY <4>1, <4>2, <4>3, <2>1, <2>e, EventsMove
      <4> QED
        BY <4>1, <4>4, <2>1, <2>f, <1>r DEF HeldIsRecorded
    <3> QED
      BY <1>3, <3>1, <3>2, <3>3, <3>4, <3>5, <3>6 DEF FlushRuns
  <2>3. ReportsTypeOK'
    <3>1. events' \in Seq(1..NReports)
      BY <2>1, <2>2, <1>r, <1>m DEF HeldIsRecorded
    <3>2. told' \union lost' \union forgotten' \subseteq 1..recorded'
      <4>1. lost' \union told' \subseteq lost \union told \union ToSet(up[l])
        BY <1>3 DEF FlushRuns, BreakUplink, Drain, SendReports, Requeue, FlushEnds, TakeReports
      <4>2. forgotten' \subseteq forgotten \union ToSet(batch[l] \o events)
        BY <1>3 DEF FlushRuns, BreakUplink, Drain, SendReports, Requeue, FlushEnds, TakeReports, TooMany
      <4>3. ToSet(batch[l] \o events) \subseteq 1..recorded
        BY <2>f, <1>s, ElementsOf
      <4> QED
        BY <4>1, <4>2, <4>3, <2>1, <1>r, <1>s
    <3>3. losses' \in 0..MaxLosses /\ whole' \subseteq Uplinks /\ flushing' \subseteq Uplinks
      <4>1. losses \in 0..MaxLosses /\ MaxLosses \in Nat /\ whole \subseteq Uplinks /\ flushing \subseteq Uplinks
        BY <1>t, ReportBounds DEF ReportsTypeOK
      <4>2. losses' = losses \/ (losses' = losses + 1 /\ losses < MaxLosses)
        BY <1>3 DEF FlushRuns, BreakUplink, Drain, SendReports, Requeue, FlushEnds, TakeReports
      <4>3. whole' \subseteq whole /\ flushing' \subseteq flushing
        BY <1>3 DEF FlushRuns, BreakUplink, Drain, SendReports, Requeue, FlushEnds, TakeReports
      <4> QED
        BY <4>1, <4>2, <4>3
    <3> QED
      BY <3>1, <3>2, <3>3, <2>1, <2>2, <1>t DEF ReportsTypeOK, Uplinks
  <2>4. BatchHasFlush'
    BY <1>3, <1>t, <2>f
    DEF FlushRuns, BreakUplink, Drain, SendReports, Requeue, FlushEnds, TakeReports, BatchHasFlush, Uplinks
  <2> QED
    BY <2>2, <2>3, <2>4 DEF ReportsInv
<1>4. CASE UNCHANGED reportVars
  BY <1>4, <1>t
  DEF reportVars, ReportsInv, ReportsTypeOK, HeldIsRecorded, EventsApart, AtSession, BatchHasFlush, Uplinks
<1> QED
  BY <1>1, <1>2, <1>3, <1>4 DEF ReportsNext

(* Places names the same places as EventsApart, one by one.                *)
LEMMA ApartIsOnePlace == ReportsInv => ReportHasPlace
<1> SUFFICES ASSUME ReportsInv, NEW r \in 1..recorded
             PROVE  Cardinality({p \in DOMAIN Places : r \in Places[p]}) = 1
  BY DEF ReportHasPlace
<1>t. EventsApart /\ HeldIsRecorded /\ NUplinks \in Nat
  BY ReportBounds DEF ReportsInv
<1> DEFINE four == <<ToSet(events), told, lost, forgotten>>
           rest == [l \in Uplinks |-> ToSet(batch[l] \o up[l])]
           S == {ToSet(events), told, lost, forgotten} \union {ToSet(batch[l] \o up[l]) : l \in Uplinks}
<1>1. four \in Seq(S) /\ Len(four) = 4 /\ four[1] = ToSet(events) /\ four[2] = told
      /\ four[3] = lost /\ four[4] = forgotten
  OBVIOUS
<1>2. rest \in Seq(S) /\ Len(rest) = NUplinks /\ \A l \in Uplinks : rest[l] = AtSession(l)
  <2>1. \A l \in Uplinks : ToSet(batch[l] \o up[l]) = AtSession(l)
    BY <1>t, ElementsOf DEF HeldIsRecorded, AtSession
  <2>2. rest \in [1..NUplinks -> S]
    BY DEF Uplinks
  <2> QED
    BY <1>t, <2>1, <2>2, IsASeq DEF Uplinks
<1>3. Places = four \o rest
  BY DEF Places
<1> HIDE DEF four, rest, S
<1>4. /\ DOMAIN Places = 1..(4 + NUplinks)
      /\ Places[1] = ToSet(events) /\ Places[2] = told /\ Places[3] = lost /\ Places[4] = forgotten
      /\ \A l \in Uplinks : Places[4 + l] = AtSession(l)
  <2>1. /\ DOMAIN Places = 1..(4 + NUplinks) /\ \A i \in 1..4 : Places[i] = four[i]
        /\ \A i \in 1..NUplinks : Places[4 + i] = rest[i]
    <3>1. /\ four \o rest \in Seq(S) /\ Len(four \o rest) = 4 + NUplinks
          /\ \A i \in 1..(4 + NUplinks) : (four \o rest)[i] = IF i <= 4 THEN four[i] ELSE rest[i - 4]
      <4>1. /\ four \o rest \in Seq(S) /\ Len(four \o rest) = Len(four) + Len(rest)
            /\ \A i \in 1..(Len(four) + Len(rest)) :
                 (four \o rest)[i] = IF i <= Len(four) THEN four[i] ELSE rest[i - Len(four)]
        <5>1. four \in Seq(S) /\ rest \in Seq(S)
          BY <1>1, <1>2
        <5> QED
          BY <5>1, ConcatProperties, Zenon
      <4>2. Len(four) = 4 /\ Len(rest) = NUplinks
        BY <1>1, <1>2
      <4> QED
        BY <4>1, <4>2, Zenon
    <3>2. \A i \in 1..NUplinks : 4 + i \in 1..(4 + NUplinks) /\ (4 + i) - 4 = i /\ ~(4 + i <= 4)
      BY <1>t
    <3>3. \A i \in 1..4 : i \in 1..(4 + NUplinks) /\ i <= 4
      BY <1>t
    <3>4. DOMAIN (four \o rest) = 1..(4 + NUplinks)
      BY <3>1
    <3>5. \A i \in 1..NUplinks : (four \o rest)[4 + i] = rest[i]
      BY <3>1, <3>2
    <3>6. \A i \in 1..4 : (four \o rest)[i] = four[i]
      BY <3>1, <3>3
    <3> QED
      BY <1>3, <3>4, <3>5, <3>6
  <2>2. 1 \in 1..4 /\ 2 \in 1..4 /\ 3 \in 1..4 /\ 4 \in 1..4
    OBVIOUS
  <2> QED
    BY <1>1, <1>2, <2>1, <2>2 DEF Uplinks
<1>5. \A p \in DOMAIN Places : p \in {1, 2, 3, 4} \/ (p - 4 \in Uplinks /\ p = 4 + (p - 4))
  BY <1>4, <1>t DEF Uplinks
<1>6. \E p \in DOMAIN Places : {q \in DOMAIN Places : r \in Places[q]} = {p}
  <2>1. ASSUME NEW l \in Uplinks, r \in AtSession(l) PROVE \E p \in DOMAIN Places : {q \in DOMAIN Places : r \in Places[q]} = {p}
    <3>1. 4 + l \in DOMAIN Places /\ r \in Places[4 + l]
      BY <1>4, <1>t, <2>1 DEF Uplinks
    <3>2. \A q \in DOMAIN Places : r \in Places[q] => q = 4 + l
      BY <1>4, <1>5, <1>t, <2>1 DEF EventsApart
    <3> QED
      BY <3>1, <3>2
  <2>2. ASSUME NEW p \in {1, 2, 3, 4}, r \in Places[p] PROVE {q \in DOMAIN Places : r \in Places[q]} = {p}
    <3>1. p \in DOMAIN Places
      BY <1>4, <1>t
    <3>2. \A l \in Uplinks : r \notin AtSession(l)
      BY <1>4, <1>t, <2>2 DEF EventsApart
    <3>3. \A q \in {1, 2, 3, 4} : r \in Places[q] => q = p
      BY <1>4, <1>t, <2>2 DEF EventsApart
    <3> QED
      BY <1>4, <1>5, <2>2, <3>1, <3>2, <3>3
  <2>3. {1, 2, 3, 4} \subseteq DOMAIN Places
    BY <1>4, <1>t
  <2> QED
    BY <1>4, <1>t, <2>1, <2>2, <2>3 DEF EventsApart
<1> QED
  BY <1>6, FS_Singleton

(* Through flushes, failed sends, merges, overflows and cuts of any number *)
(* of links: an event that was recorded is in one place, counted once      *)
(* where it is dropped, and who holds events will send them or put them    *)
(* back.                                                                   *)
THEOREM ReportsSafeHolds == ReportsSpec => []ReportsSafe
<1>1. ReportsInv => ReportsSafe
  BY ApartIsOnePlace DEF ReportsInv, ReportsSafe
<1> QED
  BY <1>1, ReportsBegin, ReportsStep, PTL DEF ReportsSpec

-----------------------------------------------------------------------------
(* A channel whose worker is stopped and started by edits.                 *)

(* While edits do not cross, the one that has stopped the channel's worker *)
(* finds none at work, and who saved the row finds it so.                  *)
EditsAlone ==
  /\ \A o \in Editors : editor[o] # "new" => wants[o] # "none"
  /\ ~overlapped =>
       /\ \A o, p \in Editing : o = p
       /\ Free \subseteq {cancels}
       /\ \A o \in Editing : editor[o] = "stopped" => Free = {}
       /\ \A o \in Editing : editor[o] \in {"saved", "stopped"} /\ wants[o] # "gone" => row = wants[o]
       /\ Editing = {} /\ row # "on" => Free = {}

(* What is behind in the lane and was not delivered.                       *)
Pending == IF jobOver THEN Tail(lane) ELSE lane

Before(a, b) == \E i, j \in DOMAIN came : i < j /\ came[i] = a /\ came[j] = b

(* If b comes behind a, b is not a repeated, and came later through a's    *)
(* worker; what a full Seen forgot is not spoken of.                       *)
ComesAfter(a, b) ==
  a \notin forgot /\ b \notin forgot => a # b /\ (through[a] = through[b] => Before(a, b))
InLine(q) == \A i, j \in DOMAIN q : i < j => ComesAfter(q[i], q[j])

LineTypes ==
  /\ lane \in Seq(ToSet(came)) /\ delivered \in Seq(ToSet(came)) /\ came \in Seq(Inbound)
  /\ through \in [Inbound -> 0..NEditors] /\ jobOver \in BOOLEAN /\ (jobOver => lane # <<>>)
  /\ \A o \in Editors : holds[o] # 0 => holds[o] \in ToSet(came)
  /\ \A o \in atOnce : holds[o] # 0
  /\ ToSet(came) \subseteq seen \union forgot
  /\ \A i, j \in DOMAIN came : i # j /\ came[i] = came[j] => came[i] \in forgot

(* The message h that the worker o is at comes behind what was delivered   *)
(* and what is in the lane; if it found the lane free, before what has come*)
(* into it since.                                                          *)
HoldKept(o, h) ==
  /\ h \in forgot \/ through[h] = o
  /\ \A a \in ToSet(delivered) \union ToSet(Pending) : ComesAfter(a, h)
  /\ o \in atOnce => \A a \in ToSet(Pending) : ComesAfter(h, a)

(* Delivered messages, those behind in the lane, and the one each worker   *)
(* is at follow one another.                                               *)
LineKept ==
  /\ InLine(delivered) /\ InLine(Pending)
  /\ \A a \in ToSet(delivered), b \in ToSet(Pending) : ComesAfter(a, b)
  /\ \A o \in Editors : holds[o] # 0 => HoldKept(o, holds[o])

ChannelsInv == ChannelsTypeOK /\ EditsAlone /\ LineTypes /\ LineKept

(* The channel has no worker, and nobody edits it.                         *)
LEMMA ChannelsBegin == ChannelsInit => ChannelsInv
<1> SUFFICES ASSUME ChannelsInit PROVE ChannelsInv
  OBVIOUS
<1> USE ChannelBounds DEF Editors, Inbound
<1>1. ChannelsTypeOK
  BY FS_EmptySet DEF ChannelsInit, ChannelsTypeOK
<1>2. EditsAlone
  BY DEF ChannelsInit, EditsAlone, Editing, Free
<1>3. lane = <<>> /\ delivered = <<>> /\ came = <<>> /\ Pending = <<>> /\ ToSet(<<>>) = {}
      /\ \A o \in Editors : holds[o] = 0
  BY DEF ChannelsInit, Pending, ToSet
<1>4. LineTypes
  <2>1. through \in [Inbound -> 0..NEditors] /\ jobOver = FALSE /\ atOnce = {}
    BY DEF ChannelsInit
  <2>2. /\ <<>> \in Seq(ToSet(came)) /\ <<>> \in Seq(Inbound) /\ DOMAIN came = {} /\ ToSet(came) = {}
    BY <1>3
  <2> QED
    BY <1>3, <2>1, <2>2 DEF LineTypes
<1>5. LineKept
  BY <1>3 DEF LineKept, InLine
<1> QED
  BY <1>1, <1>2, <1>4, <1>5 DEF ChannelsInv

(* A step of an editor or of a worker's start.                             *)
EditorWork(o) == \/ ReadChannel(o) \/ SaveChannel(o) \/ StopChannel(o) \/ StartWorker(o)
                 \/ StayStopped(o) \/ Listen(o)

(* An edit's step keeps the edits alone, and leaves what is on its way in. *)
LEMMA EditsKeep ==
  ASSUME ChannelsTypeOK, EditsAlone, NEW o \in Editors, EditorWork(o)
  PROVE  ChannelsTypeOK' /\ EditsAlone' /\ UNCHANGED inboundVars
<1> USE ChannelBounds DEF Editors, Inbound, ChannelsTypeOK
<1>1. CASE ReadChannel(o)
  BY ZenonT(60), <1>1 DEF ReadChannel, listenVars, inboundVars, EditsAlone, Editing, Free
<1>2. CASE SaveChannel(o)
  <2>1. ChannelsTypeOK' /\ UNCHANGED <<overlapped, wants, worker, canceled, cancels, inboundVars>>
    <3>1. UNCHANGED <<overlapped, wants, worker, canceled, cancels, client, ends, inboundVars>>
      BY <1>2 DEF SaveChannel, listenVars
    <3>2. row' \in {"on", "off", "gone"} /\ editor' \in [Editors -> {"new", "read", "saved", "stopped", "over"}]
      BY <1>2 DEF SaveChannel, EditsAlone
    <3> QED
      BY <3>1, <3>2 DEF inboundVars
  <2>2. /\ o \in Editing /\ Editing' = Editing /\ editor'[o] = "saved" /\ row' = wants[o]
        /\ \A p \in Editors \ {o} : editor'[p] = editor[p]
    BY <1>2 DEF SaveChannel, Editing
  <2>3. Free' = Free /\ \A p \in Editors : editor'[p] # "new" => wants'[p] # "none"
    BY <1>2, <2>1, <2>2 DEF SaveChannel, EditsAlone, Free
  <2>4. ASSUME ~overlapped, NEW p \in Editing
        PROVE  p = o /\ (editor'[p] \in {"saved", "stopped"} /\ wants[p] # "gone" => row' = wants[p])
    BY <2>2, <2>4 DEF EditsAlone
  <2>5. ~overlapped => \A p \in Editing : editor'[p] # "stopped"
    BY <2>2, <2>4
  <2> QED
    BY <2>1, <2>2, <2>3, <2>4, <2>5 DEF EditsAlone
<1>3. CASE StopChannel(o)
  BY <1>3 DEF StopChannel, inboundVars, EditsAlone, Editing, Free
<1>4. CASE StartWorker(o)
  <2>1. ChannelsTypeOK' /\ UNCHANGED <<row, overlapped, wants, canceled, inboundVars>> /\ cancels' = o
    BY <1>4 DEF StartWorker, inboundVars
  <2>2. /\ o \in Editing /\ Editing' = Editing \ {o} /\ editor[o] = "stopped" /\ wants[o] = "on"
        /\ \A p \in Editors : editor'[p] # "new" => wants[p] # "none"
        /\ Free' \subseteq Free \union {o}
    BY <1>4 DEF StartWorker, Editing, Free, EditsAlone
  <2>3. ~overlapped => Editing' = {} /\ row = "on" /\ Free' \subseteq {o}
    BY <2>2 DEF EditsAlone
  <2> QED
    BY <2>1, <2>2, <2>3 DEF EditsAlone
<1>5. CASE StayStopped(o)
  BY <1>5 DEF StayStopped, listenVars, inboundVars, EditsAlone, Editing, Free
<1>6. CASE Listen(o)
  BY SMTT(30), <1>6 DEF Listen, editVars, inboundVars, EditsAlone, Editing, Free
<1> QED
  BY <1>1, <1>2, <1>3, <1>4, <1>5, <1>6 DEF EditorWork

(* A line to which something is added that comes after all of it stays in  *)
(* line; so does what is left of a line when its head goes, or nothing     *)
(* does.                                                                   *)
LEMMA LineGrows ==
  ASSUME NEW S, NEW q \in Seq(S)
  PROVE  /\ \A b \in S : InLine(q) /\ (\A a \in ToSet(q) : ComesAfter(a, b)) => InLine(Append(q, b))
         /\ q # <<>> => /\ ToSet(q) = {Head(q)} \union ToSet(Tail(q)) /\ Tail(q) \in Seq(S)
                        /\ Head(q) \in S
         /\ q # <<>> /\ InLine(q) => /\ InLine(Tail(q))
                                     /\ \A b \in ToSet(Tail(q)) : ComesAfter(Head(q), b)
<1>1. ASSUME NEW b \in S, InLine(q), \A a \in ToSet(q) : ComesAfter(a, b) PROVE InLine(Append(q, b))
  <2>1. /\ DOMAIN Append(q, b) = 1..(Len(q) + 1) /\ DOMAIN q = 1..Len(q) /\ Len(q) \in Nat
        /\ \A i \in 1..Len(q) : Append(q, b)[i] = q[i]
        /\ Append(q, b)[Len(q) + 1] = b
    OBVIOUS
  <2>2. SUFFICES ASSUME NEW i \in 1..(Len(q) + 1), NEW j \in 1..(Len(q) + 1), i < j
                 PROVE  ComesAfter(Append(q, b)[i], Append(q, b)[j])
    BY <2>1 DEF InLine
  <2>3. i \in 1..Len(q)
    BY <2>1, <2>2
  <2>4. CASE j \in 1..Len(q)
    BY <1>1, <2>1, <2>2, <2>3, <2>4 DEF InLine
  <2>5. CASE j = Len(q) + 1
    BY <1>1, <2>1, <2>3, <2>5 DEF ToSet
  <2> QED
    BY <2>1, <2>4, <2>5
<1>2. ASSUME q # <<>>
      PROVE  /\ ToSet(q) = {Head(q)} \union ToSet(Tail(q)) /\ Tail(q) \in Seq(S) /\ Head(q) \in S
             /\ InLine(q) => /\ InLine(Tail(q)) /\ \A b \in ToSet(Tail(q)) : ComesAfter(Head(q), b)
  <2>1. /\ DOMAIN q = 1..Len(q) /\ DOMAIN Tail(q) = 1..(Len(q) - 1) /\ Len(q) \in Nat /\ Len(q) >= 1
        /\ Head(q) = q[1] /\ \A i \in 1..(Len(q) - 1) : Tail(q)[i] = q[i + 1]
        /\ Tail(q) \in Seq(S) /\ Head(q) \in S
    BY <1>2
  <2>2. \A i \in 1..(Len(q) - 1) : i + 1 \in 1..Len(q) /\ 1 < i + 1
    BY <2>1
  <2>3. \A i \in 1..Len(q) : i = 1 \/ (i - 1 \in 1..(Len(q) - 1) /\ (i - 1) + 1 = i)
    BY <2>1
  <2>4. ToSet(q) = {Head(q)} \union ToSet(Tail(q))
    <3>1. ASSUME NEW y \in ToSet(q) PROVE y \in {Head(q)} \union ToSet(Tail(q))
      <4>1. PICK i \in 1..Len(q) : y = q[i]
        BY <2>1 DEF ToSet
      <4>2. CASE i = 1
        BY <4>1, <4>2, <2>1
      <4>3. CASE i - 1 \in 1..(Len(q) - 1) /\ (i - 1) + 1 = i
        <5>1. Tail(q)[i - 1] = y
          BY <4>1, <4>3, <2>1
        <5> QED
          BY <4>3, <5>1, <2>1 DEF ToSet
      <4> QED
        BY <4>2, <4>3, <2>3
    <3>2. Head(q) \in ToSet(q)
      BY <2>1 DEF ToSet
    <3>3. ASSUME NEW y \in ToSet(Tail(q)) PROVE y \in ToSet(q)
      <4>1. PICK i \in 1..(Len(q) - 1) : y = Tail(q)[i]
        BY <2>1 DEF ToSet
      <4> QED
        BY <4>1, <2>1, <2>2 DEF ToSet
    <3> QED
      BY <3>1, <3>2, <3>3
  <2>5. ASSUME InLine(q) PROVE InLine(Tail(q)) /\ \A b \in ToSet(Tail(q)) : ComesAfter(Head(q), b)
    <3>1. ASSUME NEW i \in 1..(Len(q) - 1), NEW j \in 1..(Len(q) - 1), i < j PROVE ComesAfter(Tail(q)[i], Tail(q)[j])
      <4>1. i + 1 \in DOMAIN q /\ j + 1 \in DOMAIN q /\ i + 1 < j + 1
        BY <2>1, <2>2, <3>1
      <4> QED
        BY <4>1, <2>1, <2>5 DEF InLine
    <3>2. ASSUME NEW i \in 1..(Len(q) - 1) PROVE ComesAfter(Head(q), Tail(q)[i])
      BY <2>1, <2>2, <2>5 DEF InLine
    <3> QED
      BY <2>1, <3>1, <3>2 DEF InLine, ToSet
  <2> QED
    BY <2>1, <2>4, <2>5
<1> QED
  BY <1>1, <1>2

(* What follows a message that came before still does, whatever comes.     *)
LEMMA LineStays ==
  ASSUME LineTypes, LineKept, UNCHANGED <<delivered, lane, jobOver, atOnce>>, forgot \subseteq forgot',
         \A a \in ToSet(came) : a \notin forgot' => through'[a] = through[a],
         \A a, b \in ToSet(came) : Before(a, b) => Before(a, b)'
  PROVE  /\ InLine(delivered)' /\ InLine(Pending)'
         /\ \A a \in ToSet(delivered'), b \in ToSet(Pending') : ComesAfter(a, b)'
         /\ \A o \in Editors : \A h \in ToSet(came) : HoldKept(o, h) => HoldKept(o, h)'
<1> DEFINE C == ToSet(came)
<1>1. ASSUME NEW a \in C, NEW b \in C, ComesAfter(a, b) PROVE ComesAfter(a, b)'
  BY <1>1 DEF ComesAfter
<1>2. Pending' = Pending /\ delivered' = delivered
  BY DEF Pending
<1>3. delivered \in Seq(C) /\ Pending \in Seq(C)
  BY LineGrows DEF LineTypes, Pending
<1> HIDE DEF C
<1>4. /\ \A i \in DOMAIN delivered : delivered[i] \in C
      /\ \A i \in DOMAIN Pending : Pending[i] \in C
      /\ ToSet(delivered) \subseteq C /\ ToSet(Pending) \subseteq C
  BY <1>3, ElementsOf
<1>5. InLine(delivered)' /\ InLine(Pending)'
  <2>1. \A i, j \in DOMAIN delivered : i < j => ComesAfter(delivered[i], delivered[j])'
    <3>1. ASSUME NEW i \in DOMAIN delivered, NEW j \in DOMAIN delivered, i < j
          PROVE  /\ delivered[i] \in C /\ delivered[j] \in C /\ ComesAfter(delivered[i], delivered[j])
      BY <1>4, <3>1 DEF LineKept, InLine
    <3> QED
      BY <1>1, <1>2, <3>1 DEF ComesAfter, Before
  <2>2. \A i, j \in DOMAIN Pending : i < j => ComesAfter(Pending[i], Pending[j])'
    <3>1. ASSUME NEW i \in DOMAIN Pending, NEW j \in DOMAIN Pending, i < j
          PROVE  /\ Pending[i] \in C /\ Pending[j] \in C /\ ComesAfter(Pending[i], Pending[j])
      BY <1>4, <3>1 DEF LineKept, InLine
    <3> QED
      BY <1>1, <1>2, <3>1 DEF ComesAfter, Before
  <2> QED
    BY <1>2, <2>1, <2>2 DEF InLine
<1>6. \A a \in ToSet(delivered'), b \in ToSet(Pending') : ComesAfter(a, b)'
  BY <1>1, <1>2, <1>4 DEF LineKept
<1>7. ASSUME NEW o \in Editors, NEW h \in C, HoldKept(o, h) PROVE HoldKept(o, h)'
  <2>1. h \in forgot' \/ through'[h] = o
    BY <1>7 DEF HoldKept, C
  <2>2. \A a \in ToSet(delivered) \union ToSet(Pending) : ComesAfter(a, h)'
    BY <1>1, <1>4, <1>7 DEF HoldKept
  <2>3. o \in atOnce => \A a \in ToSet(Pending) : ComesAfter(h, a)'
    BY <1>1, <1>4, <1>7 DEF HoldKept
  <2> QED
    BY <1>2, <2>1, <2>2, <2>3 DEF HoldKept
<1> QED
  BY <1>5, <1>6, <1>7 DEF C

(* The end of a worker keeps the edits alone, and the messages in line:    *)
(* what it takes out of seen is forgotten.                                 *)
LEMMA EndsKeep ==
  ASSUME ChannelsTypeOK, EditsAlone, LineTypes, LineKept, NEW o \in Editors, WorkerEnds(o)
  PROVE  ChannelsTypeOK' /\ EditsAlone' /\ LineTypes' /\ LineKept'
<1> USE ChannelBounds
<1>1. /\ UNCHANGED <<row, editor, wants, overlapped, cancels, canceled>>
      /\ UNCHANGED <<holds, atOnce, lane, jobOver, delivered, came, through>>
      /\ worker' = [worker EXCEPT ![o] = "over"] /\ client' = 0
  BY DEF WorkerEnds, editVars
<1>2. PICK erased \in {{}, seen} : seen' = seen \ erased /\ forgot' = forgot \union erased
  BY DEF WorkerEnds
<1>3. /\ seen' \subseteq seen /\ forgot \subseteq forgot'
      /\ seen \union forgot \subseteq seen' \union forgot'
  BY <1>2
<1>4. ChannelsTypeOK'
  <2>1. IsFiniteSet(seen)
    <3>1. IsFiniteSet(1..NInbound)
      BY FS_Interval
    <3> QED
      BY <3>1, FS_Subset DEF ChannelsTypeOK, Inbound
  <2>2. Cardinality(seen') <= SeenCap
    <3>1. Cardinality(seen') \in Nat /\ Cardinality(seen) \in Nat /\ Cardinality(seen') <= Cardinality(seen)
      BY <1>3, <2>1, FS_Subset, FS_CardinalityType
    <3> QED
      BY <3>1 DEF ChannelsTypeOK
  <2>3. worker' \in [Editors -> {"none", "begun", "listening", "over"}] /\ client' \in 0..NEditors
    BY <1>1 DEF ChannelsTypeOK, Editors
  <2> QED
    BY <1>1, <1>3, <2>2, <2>3 DEF ChannelsTypeOK
<1>5. EditsAlone'
  <2>1. Free' \subseteq Free /\ Editing' = Editing
    BY <1>1 DEF Free, Editing, ChannelsTypeOK
  <2> QED
    BY <1>1, <2>1 DEF EditsAlone
<1>6. LineTypes'
  BY <1>1, <1>3 DEF LineTypes
<1>7. LineKept'
  <2>1. \A a, b \in ToSet(came) : Before(a, b) => Before(a, b)'
    BY <1>1 DEF Before
  <2>2. /\ InLine(delivered)' /\ InLine(Pending)'
        /\ \A a \in ToSet(delivered'), b \in ToSet(Pending') : ComesAfter(a, b)'
        /\ \A p \in Editors : \A h \in ToSet(came) : HoldKept(p, h) => HoldKept(p, h)'
    BY <1>1, <1>3, <2>1, LineStays
  <2>3. \A p \in Editors : holds[p] # 0 => HoldKept(p, holds[p])'
    <3>1. ASSUME NEW p \in Editors, NEW h \in ToSet(came), h = holds[p], h # 0 PROVE HoldKept(p, h)'
      BY <2>2, <3>1 DEF LineKept
    <3> QED
      BY <1>1, <3>1 DEF LineTypes
  <2> QED
    BY <1>1, <2>2, <2>3 DEF LineKept
<1> QED
  BY <1>4, <1>5, <1>6, <1>7

(* A worker's step keeps the messages in line.                             *)
LEMMA InboundKeeps ==
  ASSUME ChannelsTypeOK, LineTypes, LineKept, EditsAlone,
         \/ InboundRuns
         \/ \E o \in Editors, m \in Inbound : Receive(o, m)
  PROVE  ChannelsTypeOK' /\ EditsAlone' /\ LineTypes' /\ LineKept'
<1> DEFINE C == ToSet(came)
<1>t. /\ lane \in Seq(C) /\ delivered \in Seq(C) /\ came \in Seq(Inbound) /\ Pending \in Seq(C)
      /\ C \subseteq Inbound /\ <<>> \in Seq(C)
  BY LineGrows DEF LineTypes, Pending, ToSet
<1>e. UNCHANGED <<editVars, listenVars>> => EditsAlone'
  BY DEF editVars, listenVars, EditsAlone, Editing, Free
<1>f. UNCHANGED <<through, came, forgot>> =>
        /\ \A a, b \in Inbound : ComesAfter(a, b)' = ComesAfter(a, b)
        /\ \A q \in Seq(C) : InLine(q)' = InLine(q)
  BY DEF ComesAfter, InLine, Before
<1>h. \A o \in Editors : /\ holds[o] \in 0..NInbound
                         /\ holds[o] # 0 => holds[o] \in C
  BY DEF ChannelsTypeOK, LineTypes
<1>o. ASSUME NEW o \in Editors, NEW p \in Editors, o # p, holds[o] # 0, holds[p] # 0
      PROVE  ComesAfter(holds[o], holds[p])
  BY <1>o DEF ComesAfter, LineKept, HoldKept
<1>1. ASSUME NEW o \in Editors, HandAtOnce(o) PROVE ChannelsTypeOK' /\ EditsAlone' /\ LineTypes' /\ LineKept'
  <2>1. /\ atOnce' = atOnce \union {o} /\ holds[o] # 0 /\ lane = <<>>
        /\ UNCHANGED <<editVars, listenVars, seen, holds, lane, jobOver, arrived, repeats, delivered, came, through, forgot>>
    BY <1>1 DEF HandAtOnce, Occupied
  <2>2. Pending' = Pending /\ ToSet(Pending) = {}
    BY <2>1 DEF Pending, LineTypes, ToSet
  <2>3. ChannelsTypeOK'
    BY <2>1 DEF ChannelsTypeOK, editVars, listenVars
  <2>4. LineTypes'
    BY <2>1 DEF LineTypes
  <2>5. LineKept'
    BY <2>1, <2>2 DEF LineKept, HoldKept, ComesAfter, InLine, Before
  <2> QED
    BY <2>1, <2>3, <2>4, <2>5, <1>e
<1>2. ASSUME NEW o \in Editors, QueueBehind(o) PROVE ChannelsTypeOK' /\ EditsAlone' /\ LineTypes' /\ LineKept'
  <2> DEFINE h == holds[o]
  <2>1. /\ lane' = Append(lane, h) /\ holds' = [holds EXCEPT ![o] = 0] /\ h # 0 /\ o \notin atOnce
        /\ UNCHANGED <<editVars, listenVars, seen, atOnce, jobOver, arrived, repeats, delivered, came, through, forgot>>
    BY <1>2 DEF QueueBehind
  <2>2. h \in C /\ holds'[o] = 0 /\ \A p \in Editors \ {o} : holds'[p] = holds[p]
    BY <2>1, <1>h DEF ChannelsTypeOK
  <2> HIDE DEF C
  <2>3. Pending' = Append(Pending, h)
    <3>1. CASE jobOver
      BY <2>1, <2>2, <1>t, <3>1 DEF Pending, LineTypes
    <3>2. CASE ~jobOver
      BY <2>1, <3>2 DEF Pending
    <3> QED
      BY <3>1, <3>2
  <2> HIDE DEF h
  <2>4. lane' \in Seq(C) /\ lane' # <<>> /\ Pending' \in Seq(C) /\ ToSet(Pending') = ToSet(Pending) \union {h}
    BY <2>1, <2>2, <2>3, <1>t, ElementsOf
  <2>5. ChannelsTypeOK'
    <3>1. holds' \in [Editors -> 0..NInbound] /\ atOnce' \subseteq Editors
      BY <2>1, ChannelBounds DEF ChannelsTypeOK
    <3> QED
      BY <2>1, <3>1 DEF ChannelsTypeOK, editVars, listenVars
  <2>6. LineTypes'
    BY <2>1, <2>2, <2>4 DEF LineTypes, C
  <2>7. InLine(Pending')
    BY <2>1, <2>2, <2>3, <1>t, LineGrows DEF LineKept, HoldKept, h
  <2>8. \A p \in Editors \ {o} : holds[p] # 0 => ComesAfter(h, holds[p]) /\ ComesAfter(holds[p], h)
    BY <2>1, <1>o DEF h
  <2>9. \A a \in ToSet(delivered) \union ToSet(Pending) : ComesAfter(a, h)
    BY <2>1 DEF LineKept, HoldKept, h
  <2>10. LineKept'
    BY <2>1, <2>2, <2>4, <2>7, <2>8, <2>9 DEF LineKept, HoldKept, ComesAfter, InLine, Before
  <2> QED
    BY <2>1, <2>5, <2>6, <2>10, <1>e
<1>3. ASSUME NEW o \in Editors, Hand(o) PROVE ChannelsTypeOK' /\ EditsAlone' /\ LineTypes' /\ LineKept'
  <2> DEFINE h == holds[o]
  <2>1. /\ delivered' = Append(delivered, h) /\ holds' = [holds EXCEPT ![o] = 0] /\ o \in atOnce
        /\ atOnce' = atOnce \ {o}
        /\ UNCHANGED <<editVars, listenVars, seen, lane, jobOver, arrived, repeats, came, through, forgot>>
    BY <1>3 DEF Hand
  <2>2. h # 0 /\ h \in C /\ holds'[o] = 0 /\ \A p \in Editors \ {o} : holds'[p] = holds[p]
    BY <2>1, <1>h DEF ChannelsTypeOK, LineTypes
  <2> HIDE DEF C
  <2>3. Pending' = Pending
    BY <2>1 DEF Pending
  <2> HIDE DEF h
  <2>4. delivered' \in Seq(C) /\ ToSet(delivered') = ToSet(delivered) \union {h}
    BY <2>1, <2>2, <1>t, ElementsOf
  <2>5. ChannelsTypeOK'
    <3>1. holds' \in [Editors -> 0..NInbound] /\ atOnce' \subseteq Editors
      BY <2>1, ChannelBounds DEF ChannelsTypeOK
    <3> QED
      BY <2>1, <3>1 DEF ChannelsTypeOK, editVars, listenVars
  <2>6. LineTypes'
    BY <2>1, <2>2, <2>4 DEF LineTypes, C
  <2>7. /\ \A a \in ToSet(delivered) \union ToSet(Pending) : ComesAfter(a, h)
        /\ \A a \in ToSet(Pending) : ComesAfter(h, a)
    BY <2>1, <2>2 DEF LineKept, HoldKept, h
  <2>8. InLine(delivered')
    BY <2>1, <2>2, <2>7, <1>t, LineGrows DEF LineKept
  <2>9. \A p \in Editors \ {o} : holds[p] # 0 => ComesAfter(h, holds[p])
    BY <2>2, <1>o DEF h
  <2>10. LineKept'
    BY <2>1, <2>2, <2>3, <2>4, <2>7, <2>8, <2>9 DEF LineKept, HoldKept, ComesAfter, InLine, Before
  <2> QED
    BY <2>1, <2>5, <2>6, <2>10, <1>e
<1>4. CASE LaneHands
  <2> DEFINE h == Head(lane)
  <2> HIDE DEF C
  <2>1. /\ lane # <<>> /\ ~jobOver /\ delivered' = Append(delivered, h) /\ jobOver' = TRUE
        /\ UNCHANGED <<editVars, listenVars, seen, holds, atOnce, lane, arrived, repeats, came, through, forgot>>
    BY <1>4 DEF LaneHands
  <2>2. Pending = lane /\ Pending' = Tail(lane)
    BY <2>1 DEF Pending
  <2>3. /\ h \in C /\ Tail(lane) \in Seq(C) /\ ToSet(Pending) = {h} \union ToSet(Pending')
        /\ InLine(Pending) => InLine(Tail(lane)) /\ \A b \in ToSet(Pending') : ComesAfter(h, b)
    BY <2>1, <2>2, <1>t, LineGrows
  <2> HIDE DEF h
  <2>4. ToSet(delivered') = ToSet(delivered) \union {h} /\ delivered' \in Seq(C)
    BY <2>1, <2>3, <1>t, ElementsOf
  <2>5. InLine(delivered')
    BY <2>1, <2>3, <1>t, LineGrows DEF LineKept
  <2>6. ChannelsTypeOK'
    BY <2>1 DEF ChannelsTypeOK, editVars, listenVars
  <2>7. LineTypes'
    BY <2>1, <2>4 DEF LineTypes, C
  <2>s. InLine(Pending') /\ \A a \in ToSet(delivered'), b \in ToSet(Pending') : ComesAfter(a, b)
    BY <2>2, <2>3, <2>4 DEF LineKept
  <2>k. ToSet(delivered') \union ToSet(Pending') = ToSet(delivered) \union ToSet(Pending)
    BY <2>3, <2>4
  <2>8. LineKept'
    BY <2>1, <2>3, <2>s, <2>k, <2>5 DEF LineKept, HoldKept, ComesAfter, InLine, Before
  <2> QED
    BY <2>1, <2>6, <2>7, <2>8, <1>e
<1>5. CASE LaneNext
  <2>1. /\ jobOver /\ lane' = Tail(lane) /\ jobOver' = FALSE
        /\ UNCHANGED <<editVars, listenVars, seen, holds, atOnce, arrived, repeats, delivered, came, through, forgot>>
    BY <1>5 DEF LaneNext
  <2>2. Pending' = Pending /\ lane' \in Seq(C)
    BY <2>1, <1>t DEF Pending, LineTypes
  <2>3. ChannelsTypeOK'
    BY <2>1 DEF ChannelsTypeOK, editVars, listenVars
  <2>4. LineTypes'
    BY <2>1, <2>2 DEF LineTypes
  <2>5. LineKept'
    BY <2>1, <2>2 DEF LineKept, HoldKept, ComesAfter, InLine, Before
  <2> QED
    BY <2>1, <2>3, <2>4, <2>5, <1>e
<1>6. ASSUME NEW o \in Editors, NEW m \in Inbound, Receive(o, m)
      PROVE  ChannelsTypeOK' /\ EditsAlone' /\ LineTypes' /\ LineKept'
  <2> HIDE DEF C
  <2>1. /\ holds[o] = 0 /\ UNCHANGED <<editVars, listenVars, atOnce, lane, jobOver, delivered>>
    BY <1>6 DEF Receive
  <2>2. Pending' = Pending /\ EditsAlone'
    BY <2>1, <1>e DEF Pending
  <2>3. CASE UNCHANGED <<seen, forgot, holds, came, through>>
    <3>1. ChannelsTypeOK'
      BY <2>1, <2>3 DEF ChannelsTypeOK, editVars, listenVars
    <3>2. LineTypes' /\ LineKept'
      BY <2>1, <2>2, <2>3 DEF LineTypes, LineKept, HoldKept, ComesAfter, InLine, Before
    <3> QED
      BY <2>2, <3>1, <3>2
  <2>4. CASE m \notin seen /\ Remember(m)
    <3>1. /\ forgot \subseteq forgot' /\ seen' \subseteq Inbound /\ Cardinality(seen') <= SeenCap
          /\ seen \union forgot \union {m} \subseteq seen' \union forgot'
      <4>1. CASE Cardinality(seen) >= SeenCap
        <5>1. seen' = {m} /\ forgot' = forgot \union seen
          BY <2>4, <4>1 DEF Remember
        <5>2. Cardinality({m}) = 1 /\ SeenCap \in Nat \ {0}
          BY FS_Singleton, ChannelBounds
        <5> QED
          BY <5>1, <5>2
      <4>2. CASE ~(Cardinality(seen) >= SeenCap)
        <5>1. seen' = seen \union {m} /\ forgot' = forgot
          BY <2>4, <4>2 DEF Remember
        <5>2. IsFiniteSet(seen) /\ SeenCap \in Nat
          <6>1. IsFiniteSet(1..NInbound)
            BY ChannelBounds, FS_Interval
          <6> QED
            BY <6>1, FS_Subset, ChannelBounds DEF ChannelsTypeOK, Inbound
        <5>3. Cardinality(seen) \in Nat /\ Cardinality(seen \union {m}) = Cardinality(seen) + 1
          BY <2>4, <5>2, FS_CardinalityType, FS_AddElement
        <5> QED
          BY <4>2, <5>1, <5>2, <5>3 DEF ChannelsTypeOK
      <4> QED
        BY <4>1, <4>2
    <3>2. C \subseteq seen \union forgot
      BY DEF LineTypes, C
    <3>3. CASE UNCHANGED <<holds, came, through>>
      <4>1. ChannelsTypeOK'
        BY <2>1, <3>1, <3>3 DEF ChannelsTypeOK, editVars, listenVars
      <4>2. LineTypes'
        BY <2>1, <3>1, <3>3 DEF LineTypes
      <4>3. \A a, b \in C : Before(a, b) => Before(a, b)'
        BY <3>3 DEF Before
      <4>4. /\ InLine(delivered)' /\ InLine(Pending)'
            /\ \A a \in ToSet(delivered'), b \in ToSet(Pending') : ComesAfter(a, b)'
            /\ \A p \in Editors : \A h \in C : HoldKept(p, h) => HoldKept(p, h)'
        BY <2>1, <3>1, <3>3, <4>3, LineStays DEF C
      <4>5. \A p \in Editors : holds[p] # 0 => HoldKept(p, holds[p])'
        <5>1. ASSUME NEW p \in Editors, NEW h \in C, h = holds[p], h # 0 PROVE HoldKept(p, h)'
          BY <4>4, <5>1 DEF LineKept
        <5> QED
          BY <5>1, <1>h, <3>3 DEF C
      <4> QED
        BY <2>2, <3>3, <4>1, <4>2, <4>4, <4>5 DEF LineKept
    <3>4. CASE /\ holds' = [holds EXCEPT ![o] = m] /\ came' = Append(came, m)
               /\ through' = [through EXCEPT ![m] = o]
      <4>1. /\ holds'[o] = m /\ m # 0 /\ \A p \in Editors \ {o} : holds'[p] = holds[p]
            /\ through'[m] = o /\ \A a \in Inbound \ {m} : through'[a] = through[a]
            /\ through' \in [Inbound -> 0..NEditors] /\ holds' \in [Editors -> 0..NInbound]
        BY <3>4, ChannelBounds DEF ChannelsTypeOK, LineTypes, Inbound, Editors
      <4>2. /\ came' \in Seq(Inbound) /\ ToSet(came') = C \union {m}
            /\ DOMAIN came' = 1..(Len(came) + 1) /\ DOMAIN came = 1..Len(came) /\ Len(came) \in Nat
            /\ came'[Len(came) + 1] = m /\ \A i \in 1..Len(came) : came'[i] = came[i]
        BY <3>4, <1>t, ElementsOf DEF C
      <4>3. m \in C => m \in forgot
        BY <2>4, <3>2
      <4>4. ChannelsTypeOK'
        BY <2>1, <3>1, <4>1 DEF ChannelsTypeOK, editVars, listenVars
      <4>5. LineTypes'
        <5>1. Seq(C) \subseteq Seq(ToSet(came'))
          BY <4>2
        <5>2. ToSet(came') \subseteq seen' \union forgot'
          BY <3>1, <3>2, <4>2
        <5>3. \A i, j \in DOMAIN came' : i # j /\ came'[i] = came'[j] => came'[i] \in forgot'
          <6>1. ASSUME NEW i \in 1..Len(came), came[i] = m PROVE m \in forgot'
            <7>1. m \in C
              BY <4>2, <6>1 DEF C, ToSet
            <7> QED
              BY <7>1, <4>3, <3>1
          <6>2. \A i, j \in 1..Len(came) : i # j /\ came[i] = came[j] => came[i] \in forgot'
            BY <4>2, <3>1 DEF LineTypes
          <6>3. \A i \in 1..(Len(came) + 1) : i \in 1..Len(came) \/ i = Len(came) + 1
            BY <4>2
          <6> QED
            BY <4>2, <6>1, <6>2, <6>3
        <5>4. \A p \in Editors : holds'[p] # 0 => holds'[p] \in ToSet(came')
          BY <4>1, <4>2, <1>h
        <5>5. \A p \in atOnce' : holds'[p] # 0
          BY <2>1, <4>1 DEF LineTypes, ChannelsTypeOK
        <5>6. /\ lane' \in Seq(ToSet(came')) /\ delivered' \in Seq(ToSet(came'))
              /\ jobOver' \in BOOLEAN /\ (jobOver' => lane' # <<>>)
          BY <5>1, <2>1, <1>t DEF LineTypes
        <5> QED
          BY <4>1, <4>2, <5>2, <5>3, <5>4, <5>5, <5>6 DEF LineTypes
      <4>6. \A a, b \in C : Before(a, b) => Before(a, b)'
        BY <4>2 DEF Before
      <4>7. \A a \in C : a \notin forgot' => through'[a] = through[a]
        BY <4>1, <4>3, <3>1, <1>t
      <4>8. /\ InLine(delivered)' /\ InLine(Pending)'
            /\ \A a \in ToSet(delivered'), b \in ToSet(Pending') : ComesAfter(a, b)'
            /\ \A p \in Editors : \A h \in C : HoldKept(p, h) => HoldKept(p, h)'
        BY <2>1, <3>1, <4>6, <4>7, LineStays DEF C
      <4>9. \A a \in C : ComesAfter(a, m)'
        <5> SUFFICES ASSUME NEW a \in C, a \notin forgot', m \notin forgot' PROVE a # m /\ Before(a, m)'
          BY DEF ComesAfter
        <5>1. a # m
          BY <4>3, <3>1
        <5>2. PICK i \in 1..Len(came) : came[i] = a
          BY <4>2 DEF C, ToSet
        <5>3. i \in DOMAIN came' /\ Len(came) + 1 \in DOMAIN came' /\ i < Len(came) + 1
          BY <4>2
        <5> QED
          BY <4>2, <5>1, <5>2, <5>3 DEF Before
      <4>10. ToSet(delivered) \subseteq C /\ ToSet(Pending) \subseteq C
        BY <1>t, ElementsOf
      <4>11. o \notin atOnce
        BY <2>1 DEF LineTypes
      <4>12. ASSUME NEW p \in Editors, NEW h \in Inbound, h = holds'[p] PROVE HoldKept(p, h)'
        <5>1. CASE p = o
          BY <2>1, <2>2, <4>1, <4>9, <4>10, <4>11, <4>12, <5>1 DEF HoldKept
        <5>2. CASE p # o
          <6>1. h = holds[p] /\ h \in C /\ h # 0
            BY <4>1, <4>12, <5>2, <1>h DEF Inbound
          <6> QED
            BY <6>1, <4>8 DEF LineKept
        <5> QED
          BY <5>1, <5>2
      <4>13. \A p \in Editors : holds'[p] # 0 => HoldKept(p, holds[p])'
        <5>1. \A p \in Editors : holds'[p] # 0 => holds'[p] \in Inbound
          BY <4>1, ChannelBounds DEF Inbound
        <5> QED
          BY <4>12, <5>1
      <4> QED
        BY <2>2, <4>4, <4>5, <4>8, <4>13 DEF LineKept
    <3> QED
      BY <1>6, <3>3, <3>4, <2>3, <2>4 DEF Receive
  <2> QED
    BY <1>6, <2>3, <2>4 DEF Receive
<1> QED
  BY <1>1, <1>2, <1>3, <1>4, <1>5, <1>6 DEF InboundRuns, LoopGoesOn

(* Every step of an edit or of a worker keeps the invariant.               *)
LEMMA ChannelsStep == ChannelsInv /\ [ChannelsNext]_channelVars => ChannelsInv'
<1> SUFFICES ASSUME ChannelsInv, [ChannelsNext]_channelVars PROVE ChannelsInv'
  OBVIOUS
<1>t. ChannelsTypeOK /\ EditsAlone /\ LineTypes /\ LineKept
  BY DEF ChannelsInv
<1>u. ASSUME UNCHANGED inboundVars PROVE LineTypes' /\ LineKept'
  <2>1. UNCHANGED <<seen, holds, atOnce, lane, jobOver, delivered, came, through, forgot>>
    BY <1>u DEF inboundVars
  <2>2. Pending' = Pending
    BY <2>1 DEF Pending
  <2>3. LineTypes'
    BY <2>1, <1>t DEF LineTypes
  <2>4. LineKept'
    BY <2>1, <2>2, <1>t DEF LineKept, HoldKept, InLine, ComesAfter, Before
  <2> QED
    BY <2>3, <2>4
<1>1. ASSUME NEW o \in Editors, EditorWork(o) PROVE ChannelsInv'
  <2>1. ChannelsTypeOK' /\ EditsAlone' /\ UNCHANGED inboundVars
    BY <1>1, <1>t, EditsKeep
  <2>2. LineTypes' /\ LineKept'
    BY <2>1, <1>u
  <2> QED
    BY <2>1, <2>2 DEF ChannelsInv
<1>2. CASE InboundRuns \/ \E o \in Editors, m \in Inbound : Receive(o, m)
  BY <1>2, <1>t, InboundKeeps DEF ChannelsInv
<1>4. ASSUME NEW o \in Editors, WorkerEnds(o) PROVE ChannelsInv'
  BY <1>4, <1>t, EndsKeep DEF ChannelsInv
<1>3. CASE UNCHANGED channelVars
  <2>1. UNCHANGED <<editVars, listenVars, inboundVars>>
    BY <1>3 DEF channelVars
  <2>2. ChannelsTypeOK' /\ EditsAlone'
    BY <2>1, <1>t DEF editVars, listenVars, inboundVars, ChannelsTypeOK, EditsAlone, Editing, Free
  <2> QED
    BY <2>1, <2>2, <1>u DEF ChannelsInv
<1> QED
  BY <1>1, <1>2, <1>3, <1>4 DEF ChannelsNext, EditorWork

(* What is in line was handed on in order and once.                        *)
LEMMA InLineIsInOrder == ChannelsInv => ChannelsSafe
<1> SUFFICES ASSUME ChannelsInv PROVE ChannelsSafe
  OBVIOUS
<1>t. ChannelsTypeOK /\ EditsAlone /\ LineTypes /\ LineKept
  BY DEF ChannelsInv
<1>1. WorkersAreKnown
  BY <1>t DEF WorkersAreKnown, EditsAlone
<1>2. ASSUME NEW a \in ToSet(came), NEW b \in ToSet(came), a \notin forgot, b \notin forgot, Before(a, b)
      PROVE  Place(a) < Place(b)
  <2>1. PICK i \in DOMAIN came, j \in DOMAIN came : i < j /\ came[i] = a /\ came[j] = b
    BY <1>2 DEF Before
  <2>2. \A k \in DOMAIN came : (came[k] = a => k = i) /\ (came[k] = b => k = j)
    BY <1>2, <2>1, <1>t DEF LineTypes
  <2>3. Place(a) = i /\ Place(b) = j
    BY <2>1, <2>2 DEF Place
  <2> QED
    BY <2>1, <2>3
<1>3. ASSUME NEW i \in DOMAIN delivered, NEW j \in DOMAIN delivered, i < j
      PROVE  /\ delivered[i] = delivered[j] => delivered[i] \in forgot
             /\ through[delivered[i]] = through[delivered[j]] =>
                  \/ Place(delivered[i]) < Place(delivered[j])
                  \/ {delivered[i], delivered[j]} \cap forgot # {}
  <2>1. delivered[i] \in ToSet(came) /\ delivered[j] \in ToSet(came)
    BY <1>t, <1>3 DEF LineTypes
  <2>2. ComesAfter(delivered[i], delivered[j])
    BY <1>3, <1>t DEF LineKept, InLine
  <2> QED
    BY <1>2, <2>1, <2>2 DEF ComesAfter
<1>4. HandedInOrder
  BY <1>3 DEF HandedInOrder
<1>5. HandedOnce
  <2>1. \A i, j \in DOMAIN delivered : i # j => i < j \/ j < i
    BY <1>t DEF LineTypes
  <2> QED
    BY <1>3, <2>1 DEF HandedOnce
<1> QED
  BY <1>t, <1>1, <1>4, <1>5 DEF ChannelsSafe

(* However edits stop and start the workers of a channel: one that works   *)
(* is known to the registry, and of the messages each worker took in, each *)
(* is handed on once, in the order they came.                              *)
THEOREM ChannelsSafeHolds == ChannelsSpec => []ChannelsSafe
  BY ChannelsBegin, ChannelsStep, InLineIsInOrder, PTL DEF ChannelsSpec

-----------------------------------------------------------------------------
(* A voice call.                                                           *)

(* A turn of the human: each that was spoken is in one of its places, in   *)
(* order; who stopped listening left none behind but what came after.      *)
TurnsInOrder ==
  /\ spoken \in 0..NTurns /\ browserCuts \in Nat /\ spoken + browserCuts <= NTurns
  /\ turns \in Seq(1..spoken) /\ dealt \in Seq(1..spoken) /\ hearing \in 0..spoken
  /\ refused \subseteq 1..spoken /\ tooLate \subseteq 1..spoken
  /\ listener \in {"hears", "flushed", "hands"} <=> hearing # 0
  /\ \A i, j \in DOMAIN turns : i < j => turns[i] < turns[j]
  /\ \A i, j \in DOMAIN dealt : i < j => dealt[i] < dealt[j]
  /\ \A i \in DOMAIN dealt, j \in DOMAIN turns : dealt[i] < turns[j]
  /\ hearing # 0 => /\ \A i \in DOMAIN dealt : dealt[i] < hearing
                    /\ \A j \in DOMAIN turns : hearing < turns[j]
  /\ 1..spoken \subseteq ToSet(dealt) \union {hearing} \union ToSet(turns) \union refused
  /\ listener = "done" => ToSet(turns) \subseteq tooLate
  /\ callState = "ended" => listener = "done"

(* The subscription holds whole model turns, one behind the other; only the*)
(* last may still be written, unless events no longer reach the call.      *)
Unheard == deaf \/ callState # "open"
FeedInOrder ==
  /\ written \in 0..NPieces /\ answers \in 0..NAnswers /\ answer \in {0, answers} /\ deaf \in BOOLEAN
  /\ feedOf \in Seq(Piece)
  /\ \A i, j \in DOMAIN feedOf : i < j =>
       /\ feedOf[i].of <= feedOf[j].of
       /\ feedOf[i].n = 0 => feedOf[i].of < feedOf[j].of
       /\ feedOf[i].n # 0 /\ j = i + 1 => feedOf[i].of = feedOf[j].of
  /\ \A i \in DOMAIN feedOf : /\ feedOf[i].of <= answers
                              /\ answer # 0 /\ feedOf[i].n = 0 => feedOf[i].of < answer
  /\ feedOf # <<>> /\ Last(feedOf).n # 0 => answer = Last(feedOf).of \/ Unheard

(* k is the model turn that the follower is in.                            *)
Current(k) == IF feedOf = <<>> THEN answer = k \/ Unheard ELSE Head(feedOf).of = k

(* A model turn that may have events to come.                              *)
Coming == {feedOf[i].of : i \in DOMAIN feedOf} \union ({answer} \ {0})
Flushed == reader = "flushed" \/ listener = "flushed"

FollowerKnows ==
  /\ outbox \in Seq(Piece) /\ cutOff \subseteq Answers
  /\ follower # "next" => inHand \in Piece
  /\ muted => open = 0
  /\ open # 0 => Current(open) /\ (follower = "checks" => inHand.of = open)
  /\ muted => \E k \in cutOff : Current(k) /\ (follower = "checks" => inHand.of = k)
  /\ \A k \in cutOff \union ({open} \ {0}) : k <= answers /\ \A c \in Coming : k <= c

(* A piece of a turn that was cut off is on its way only if it is known to *)
(* have slipped, is about to be cleared, or will not pass the check.       *)
CutIsCaught ==
  /\ \A k \in Coming \intersect cutOff : muted \/ (open = k /\ Flushed)
  /\ follower = "checks" /\ inHand.of \in cutOff => muted \/ inHand \in slipped \/ Flushed
  /\ follower = "says" /\ inHand.of \in cutOff => inHand \in slipped \/ Flushed

VoiceInv == VoiceSafe /\ TurnsInOrder /\ FeedInOrder /\ FollowerKnows /\ CutIsCaught

(* Sequences of numbers that grow.                                         *)
Rising(q) == \A i, j \in DOMAIN q : i < j => q[i] < q[j]

(* Numbers that rise do so with a greater one at the end, and without the  *)
(* first.                                                                  *)
LEMMA RisingBy ==
  ASSUME NEW q \in Seq(Nat), Rising(q)
  PROVE  /\ \A x \in Nat : (\A i \in DOMAIN q : q[i] < x) => Rising(Append(q, x))
         /\ q # <<>> => Rising(Tail(q)) /\ \A i \in DOMAIN Tail(q) : Head(q) < Tail(q)[i]
<1>1. ASSUME NEW x \in Nat, \A i \in DOMAIN q : q[i] < x PROVE Rising(Append(q, x))
  <2> SUFFICES ASSUME NEW i \in DOMAIN Append(q, x), NEW j \in DOMAIN Append(q, x), i < j
               PROVE  Append(q, x)[i] < Append(q, x)[j]
    BY DEF Rising
  <2> QED
    BY <1>1, AppendedIs DEF Rising
<1>2. ASSUME q # <<>> PROVE Rising(Tail(q)) /\ \A i \in DOMAIN Tail(q) : Head(q) < Tail(q)[i]
  <2>1. /\ Head(q) = q[1] /\ 1 \in DOMAIN q
        /\ \A i \in DOMAIN Tail(q) : i \in Nat /\ i \in 1..Len(Tail(q)) /\ i + 1 \in DOMAIN q /\ Tail(q)[i] = q[i + 1]
    BY <1>2, HeadAndTail
  <2>2. ASSUME NEW i \in DOMAIN Tail(q) PROVE Head(q) < Tail(q)[i]
    <3>1. 1 < i + 1
      BY <2>1
    <3> QED
      BY <2>1, <3>1 DEF Rising
  <2>3. ASSUME NEW i \in DOMAIN Tail(q), NEW j \in DOMAIN Tail(q), i < j PROVE Tail(q)[i] < Tail(q)[j]
    <3>1. i + 1 < j + 1
      BY <2>1, <2>3
    <3> QED
      BY <2>1, <3>1 DEF Rising
  <2> QED
    BY <2>2, <2>3 DEF Rising
<1> QED
  BY <1>1, <1>2

(* Every step keeps the turns of the human in order, each in its one       *)
(* place.                                                                  *)
LEMMA VoiceTurns == VoiceInv /\ [VoiceNext]_voiceVars => TurnsInOrder'
<1> SUFFICES ASSUME VoiceInv, [VoiceNext]_voiceVars PROVE TurnsInOrder'
  OBVIOUS
<1>t. TurnsInOrder /\ VoiceTypeOK /\ NTurns \in Nat
  BY VoiceBounds DEF VoiceInv, VoiceSafe
<1>r. /\ Rising(turns) /\ Rising(dealt) /\ turns \in Seq(1..spoken) /\ dealt \in Seq(1..spoken)
      /\ turns \in Seq(Nat) /\ dealt \in Seq(Nat) /\ spoken \in 0..NTurns /\ hearing \in 0..spoken
  BY <1>t DEF TurnsInOrder, Rising
<1>1. CASE SpeakTurn
  <2>1. /\ spoken' = spoken + 1 /\ spoken' \in 1..NTurns
        /\ \/ Len(turns) < TurnCap /\ turns' = Append(turns, spoken') /\ refused' = refused
           \/ refused' = refused \union {spoken'} /\ turns' = turns
        /\ tooLate' = IF listener = "done" THEN tooLate \union {spoken'} ELSE tooLate
        /\ UNCHANGED <<callState, browserCuts, listener, hearing, dealt>>
    BY <1>1, <1>t DEF SpeakTurn, TurnsInOrder
  <2>2. 1..spoken \subseteq 1..spoken' /\ spoken' \in 1..spoken' /\ 1..spoken' = (1..spoken) \union {spoken'}
    BY <2>1, <1>r
  <2>3. turns \in Seq(1..spoken') /\ dealt' \in Seq(1..spoken')
    <3>1. spoken \in Nat /\ spoken' \in Nat /\ spoken <= spoken'
      BY <2>1, <1>r
    <3>2. Seq(1..spoken) \subseteq Seq(1..spoken')
      BY <3>1, LongerRange
    <3> QED
      BY <2>1, <3>2, <1>r
  <2>4. \A i \in DOMAIN turns : turns[i] \in 1..spoken /\ turns[i] < spoken'
    BY <2>1, <1>r
  <2>5. /\ turns' \in Seq(1..spoken') /\ Rising(turns')
        /\ ToSet(turns') \subseteq ToSet(turns) \union {spoken'} /\ ToSet(turns) \subseteq ToSet(turns')
        /\ spoken' \in ToSet(turns') \union refused'
        /\ \A j \in DOMAIN turns' : turns'[j] = spoken' \/ \E i \in DOMAIN turns : turns'[j] = turns[i]
    <3>1. CASE turns' = Append(turns, spoken') /\ refused' = refused
      <4>1. /\ Append(turns, spoken') \in Seq(1..spoken')
            /\ ToSet(Append(turns, spoken')) = ToSet(turns) \union {spoken'}
            /\ \A i \in DOMAIN Append(turns, spoken') :
                 \/ i \in DOMAIN turns /\ Append(turns, spoken')[i] = turns[i]
                 \/ i = Len(turns) + 1 /\ Append(turns, spoken')[i] = spoken'
        <5> DEFINE S == 1..spoken'
        <5>1. spoken' \in S /\ turns \in Seq(S)
          BY <2>2, <2>3
        <5> HIDE DEF S
        <5>2. /\ Append(turns, spoken') \in Seq(S)
              /\ ToSet(Append(turns, spoken')) = ToSet(turns) \union {spoken'}
              /\ \A i \in DOMAIN Append(turns, spoken') :
                   \/ i \in DOMAIN turns /\ Append(turns, spoken')[i] = turns[i]
                   \/ i = Len(turns) + 1 /\ Append(turns, spoken')[i] = spoken'
          BY <5>1, AppendedIs
        <5> QED
          BY <5>2 DEF S
      <4>2. spoken' \in Nat
        BY <2>1
      <4>3. Rising(Append(turns, spoken'))
        BY <2>4, <4>2, <1>r, RisingBy
      <4> QED
        BY <3>1, <4>1, <4>3
    <3>2. CASE refused' = refused \union {spoken'} /\ turns' = turns
      BY <3>2, <2>3, <1>r
    <3> QED
      BY <2>1, <3>1, <3>2
  <2>7. \A i \in DOMAIN dealt : dealt[i] \in 1..spoken
    BY <1>r
  <2>8. /\ \A i \in DOMAIN dealt', j \in DOMAIN turns' : dealt'[i] < turns'[j]
        /\ hearing' # 0 => \A j \in DOMAIN turns' : hearing' < turns'[j]
    <3>1. hearing \in Nat /\ hearing < spoken'
      BY <2>1, <1>r
    <3>2. ASSUME NEW j \in DOMAIN turns'
          PROVE  (\A i \in DOMAIN dealt : dealt[i] < turns'[j]) /\ (hearing # 0 => hearing < turns'[j])
      <4>1. CASE turns'[j] = spoken'
        <5>1. \A i \in DOMAIN dealt : dealt[i] < spoken'
          BY <2>1, <2>7, <1>r
        <5> QED
          BY <4>1, <5>1, <3>1
      <4>2. CASE \E i \in DOMAIN turns : turns'[j] = turns[i]
        BY <4>2, <1>t DEF TurnsInOrder
      <4> QED
        BY <4>1, <4>2, <2>5
    <3> QED
      BY <2>1, <3>2
  <2>9. /\ spoken' + browserCuts <= NTurns /\ hearing' \in 0..spoken'
        /\ refused' \subseteq 1..spoken' /\ tooLate' \subseteq 1..spoken'
    <3>1. spoken + browserCuts < NTurns /\ browserCuts \in Nat
      BY <1>1, <1>t DEF SpeakTurn, TurnsInOrder
    <3>2. spoken' + browserCuts <= NTurns /\ hearing' \in 0..spoken'
      BY <2>1, <3>1, <1>r, <1>t
    <3>3. refused \subseteq 1..spoken /\ tooLate \subseteq 1..spoken
      BY <1>t DEF TurnsInOrder
    <3> QED
      BY <2>1, <2>2, <3>2, <3>3
  <2>10. 1..spoken' \subseteq ToSet(dealt') \union {hearing'} \union ToSet(turns') \union refused'
    BY <2>1, <2>2, <2>5, <1>t DEF TurnsInOrder
  <2>11. listener' = "done" => ToSet(turns') \subseteq tooLate'
    BY <2>1, <2>5, <1>t DEF TurnsInOrder
  <2> QED
    BY <2>1, <2>3, <2>5, <2>8, <2>9, <2>10, <2>11, <1>t DEF TurnsInOrder, Rising
<1>2. CASE TakeTurn
  <2>1. /\ listener = "waits" /\ turns # <<>> /\ hearing' = Head(turns) /\ turns' = Tail(turns) /\ listener' = "hears"
        /\ UNCHANGED <<callState, browserCuts, spoken, dealt, refused, tooLate>>
    BY <1>2 DEF TakeTurn
  <2>2. /\ hearing = 0 /\ hearing' \in 1..spoken /\ turns' \in Seq(1..spoken) /\ Rising(turns')
        /\ ToSet(turns) = {hearing'} \union ToSet(turns')
        /\ \A j \in DOMAIN turns' : hearing' < turns'[j] /\ \E i \in DOMAIN turns : turns'[j] = turns[i]
        /\ \E i \in DOMAIN turns : hearing' = turns[i]
    BY <2>1, <1>t, <1>r, HeadAndTail, RisingBy DEF TurnsInOrder
  <2>3. /\ \A i \in DOMAIN dealt, j \in DOMAIN turns' : dealt[i] < turns'[j]
        /\ \A i \in DOMAIN dealt : dealt[i] < hearing'
    BY <2>2, <1>t DEF TurnsInOrder
  <2>4. 1..spoken \subseteq ToSet(dealt) \union {hearing'} \union ToSet(turns') \union refused
    BY <2>2, <1>t DEF TurnsInOrder
  <2> QED
    BY <2>1, <2>2, <2>3, <2>4, <1>t DEF TurnsInOrder, Rising
<1>3. CASE HearNothing \/ HandTurn
  <2>1. /\ listener \in {"hears", "hands"} /\ dealt' = Append(dealt, hearing) /\ hearing' = 0 /\ listener' = "waits"
        /\ UNCHANGED <<callState, browserCuts, spoken, turns, refused, tooLate>>
    BY <1>3 DEF HearNothing, HandTurn, Deal
  <2>2. hearing # 0 /\ hearing \in 1..spoken
    BY <2>1, <1>t DEF TurnsInOrder
  <2>3. /\ dealt' \in Seq(1..spoken) /\ Rising(dealt') /\ ToSet(dealt') = ToSet(dealt) \union {hearing}
        /\ \A i \in DOMAIN dealt' : dealt'[i] = hearing \/ \E k \in DOMAIN dealt : dealt'[i] = dealt[k]
    <3>1. /\ Append(dealt, hearing) \in Seq(1..spoken)
          /\ ToSet(Append(dealt, hearing)) = ToSet(dealt) \union {hearing}
          /\ \A i \in DOMAIN Append(dealt, hearing) :
               \/ i \in DOMAIN dealt /\ Append(dealt, hearing)[i] = dealt[i]
               \/ i = Len(dealt) + 1 /\ Append(dealt, hearing)[i] = hearing
      <4> DEFINE S == 1..spoken
      <4>1. hearing \in S /\ dealt \in Seq(S)
        BY <2>2, <1>r
      <4> HIDE DEF S
      <4>2. /\ Append(dealt, hearing) \in Seq(S)
            /\ ToSet(Append(dealt, hearing)) = ToSet(dealt) \union {hearing}
            /\ \A i \in DOMAIN Append(dealt, hearing) :
                 \/ i \in DOMAIN dealt /\ Append(dealt, hearing)[i] = dealt[i]
                 \/ i = Len(dealt) + 1 /\ Append(dealt, hearing)[i] = hearing
        BY <4>1, AppendedIs
      <4> QED
        BY <4>2 DEF S
    <3>2. hearing \in Nat /\ \A i \in DOMAIN dealt : dealt[i] < hearing
      BY <2>2, <1>t, <1>r DEF TurnsInOrder
    <3>3. Rising(Append(dealt, hearing))
      BY <3>2, <1>r, RisingBy
    <3> QED
      BY <2>1, <3>1, <3>3
  <2>5. \A i \in DOMAIN dealt', j \in DOMAIN turns : dealt'[i] < turns[j]
    BY <2>2, <2>3, <1>t DEF TurnsInOrder
  <2>6. 1..spoken \subseteq ToSet(dealt') \union {0} \union ToSet(turns) \union refused
    BY <2>3, <1>t DEF TurnsInOrder
  <2> QED
    BY SMTT(30), <2>1, <2>3, <2>5, <2>6, <1>t, <1>r DEF TurnsInOrder, Rising
<1>4. CASE StopListening
  <2>1. ToSet(turns) = {}
    BY <1>4 DEF StopListening, ToSet
  <2> QED
    BY <1>4, <2>1, <1>t DEF StopListening, TurnsInOrder
<1>5. CASE HearOver
  BY <1>5, <1>t DEF HearOver, TurnsInOrder
<1>6. CASE ListenerMutes
  BY <1>6, <1>t DEF ListenerMutes, TurnsInOrder
<1>7. CASE BrowserInterrupts
  BY <1>7, <1>t, <1>r DEF BrowserInterrupts, TurnsInOrder, turnVars
<1>8. CASE Hangup \/ CancelCall \/ CloseSocket \/ EndCall
  <2>1. UNCHANGED <<browserCuts, turnVars>> /\ (callState' = "ended" => listener = "done" \/ callState = "ended")
    BY <1>8 DEF Hangup, CancelCall, CloseSocket, EndCall
  <2> QED
    BY <2>1, <1>t DEF turnVars, TurnsInOrder
<1>9. CASE UNCHANGED <<callState, browserCuts, turnVars>>
  BY <1>9, <1>t DEF turnVars, TurnsInOrder
<1>10. \/ Follows \/ PlayPiece \/ BrowserMutes \/ BotBegins \/ BotWrites \/ BotEndsTurn \/ UNCHANGED voiceVars
       => UNCHANGED <<callState, browserCuts, turnVars>>
  BY DEF Follows, FollowChunk, FollowEnd, EndReply, CheckMuted, SayPiece, PlayPiece, BrowserMutes, BotBegins,
         BotWrites, BotEndsTurn, voiceVars
<1> QED
  BY <1>1, <1>2, <1>3, <1>4, <1>5, <1>6, <1>7, <1>8, <1>9, <1>10 DEF VoiceNext, CallRuns, Listens

(* Model turns in the order they were written, each up to its end.         *)
WholeTurns(q) == \A i, j \in DOMAIN q : i < j =>
  /\ q[i].of <= q[j].of
  /\ q[i].n = 0 => q[i].of < q[j].of
  /\ q[i].n # 0 /\ j = i + 1 => q[i].of = q[j].of

(* Pieces that belong to turns of the Bot stay so when a piece is added or *)
(* read.                                                                   *)
LEMMA WholeTurnsBy ==
  ASSUME NEW q \in Seq(Piece), WholeTurns(q)
  PROVE  /\ \A e \in Piece :
              /\ \A i \in DOMAIN q : q[i].of <= e.of /\ (q[i].n = 0 => q[i].of < e.of)
              /\ q # <<>> /\ q[Len(q)].n # 0 => q[Len(q)].of = e.of
              => WholeTurns(Append(q, e))
         /\ q # <<>> => WholeTurns(Tail(q))
<1>1. ASSUME NEW e \in Piece,
             \A i \in DOMAIN q : q[i].of <= e.of /\ (q[i].n = 0 => q[i].of < e.of),
             q # <<>> /\ q[Len(q)].n # 0 => q[Len(q)].of = e.of
      PROVE  WholeTurns(Append(q, e))
  <2>1. /\ Len(q) \in Nat /\ DOMAIN q = 1..Len(q) /\ DOMAIN Append(q, e) = 1..(Len(q) + 1)
        /\ \A i \in DOMAIN Append(q, e) : \/ i \in DOMAIN q /\ Append(q, e)[i] = q[i]
                                          \/ i = Len(q) + 1 /\ Append(q, e)[i] = e
    BY AppendedIs
  <2> SUFFICES ASSUME NEW i \in DOMAIN Append(q, e), NEW j \in DOMAIN Append(q, e), i < j
               PROVE  /\ Append(q, e)[i].of <= Append(q, e)[j].of
                      /\ Append(q, e)[i].n = 0 => Append(q, e)[i].of < Append(q, e)[j].of
                      /\ Append(q, e)[i].n # 0 /\ j = i + 1 => Append(q, e)[i].of = Append(q, e)[j].of
    BY DEF WholeTurns
  <2>2. i \in DOMAIN q /\ Append(q, e)[i] = q[i]
    BY <2>1
  <2>3. CASE j \in DOMAIN q /\ Append(q, e)[j] = q[j]
    BY <2>2, <2>3 DEF WholeTurns
  <2>4. CASE j = Len(q) + 1 /\ Append(q, e)[j] = e
    <3>1. j = i + 1 => i = Len(q) /\ q # <<>>
      BY <2>1, <2>2, <2>4
    <3> QED
      BY <2>2, <2>4, <3>1, <1>1
  <2> QED
    BY <2>1, <2>3, <2>4
<1>2. ASSUME q # <<>> PROVE WholeTurns(Tail(q))
  <2>1. \A i \in DOMAIN Tail(q) : i \in Nat /\ i + 1 \in DOMAIN q /\ Tail(q)[i] = q[i + 1]
    BY <1>2, HeadAndTail
  <2> SUFFICES ASSUME NEW i \in DOMAIN Tail(q), NEW j \in DOMAIN Tail(q), i < j
               PROVE  /\ Tail(q)[i].of <= Tail(q)[j].of
                      /\ Tail(q)[i].n = 0 => Tail(q)[i].of < Tail(q)[j].of
                      /\ Tail(q)[i].n # 0 /\ j = i + 1 => Tail(q)[i].of = Tail(q)[j].of
    BY DEF WholeTurns
  <2>2. i + 1 < j + 1 /\ (j = i + 1 => j + 1 = (i + 1) + 1)
    BY <2>1
  <2> QED
    BY <2>1, <2>2 DEF WholeTurns
<1> QED
  BY <1>1, <1>2

(* Every step keeps what the Bot writes in the order it was written.       *)
LEMMA VoiceFeed == VoiceInv /\ [VoiceNext]_voiceVars => FeedInOrder'
<1> SUFFICES ASSUME VoiceInv, [VoiceNext]_voiceVars PROVE FeedInOrder'
  OBVIOUS
<1>t. FeedInOrder /\ VoiceTypeOK /\ NAnswers \in Nat /\ NPieces \in Nat
  BY VoiceBounds DEF VoiceInv, VoiceSafe
<1>w. /\ WholeTurns(feedOf) /\ feedOf \in Seq(Piece) /\ answers \in 0..NAnswers /\ answer \in {0, answers}
      /\ written \in 0..NPieces /\ deaf \in BOOLEAN
      /\ \A i \in DOMAIN feedOf : feedOf[i].of <= answers /\ (answer # 0 /\ feedOf[i].n = 0 => feedOf[i].of < answer)
      /\ feedOf # <<>> /\ feedOf[Len(feedOf)].n # 0 => answer = feedOf[Len(feedOf)].of \/ Unheard
  BY <1>t DEF FeedInOrder, WholeTurns, Last
<1>p. \A i \in DOMAIN feedOf : feedOf[i].of \in 1..NAnswers
  <2>1. \A i \in DOMAIN feedOf : feedOf[i] \in Piece
    BY <1>w
  <2> QED
    BY <2>1 DEF Piece, Answers
<1>f. /\ WholeTurns(feedOf)' /\ (feedOf \in Seq(Piece))' /\ answers' \in 0..NAnswers /\ answer' \in {0, answers'}
      /\ written' \in 0..NPieces /\ deaf' \in BOOLEAN
      /\ \A i \in DOMAIN feedOf' :
           feedOf'[i].of <= answers' /\ (answer' # 0 /\ feedOf'[i].n = 0 => feedOf'[i].of < answer')
      /\ feedOf' # <<>> /\ feedOf'[Len(feedOf')].n # 0 => answer' = feedOf'[Len(feedOf')].of \/ Unheard'
      => FeedInOrder'
  BY DEF FeedInOrder, WholeTurns, Last
<1>1. CASE BotBegins
  <2>1. /\ answer = 0 /\ answers' = answers + 1 /\ answer' = answers' /\ answers < NAnswers
        /\ UNCHANGED <<feedOf, deaf, callState, written>>
    BY <1>1 DEF BotBegins
  <2>2. /\ answers' \in 0..NAnswers
        /\ \A i \in DOMAIN feedOf : feedOf[i].of <= answers' /\ feedOf[i].of < answer'
    <3>1. answers \in Nat /\ answers' = answers + 1 /\ answer' = answers + 1 /\ answers' \in 0..NAnswers
      BY <2>1, <1>w, <1>t
    <3>2. \A i \in DOMAIN feedOf : feedOf[i].of \in Nat /\ feedOf[i].of <= answers
      BY <1>w, <1>p
    <3> QED
      BY <3>1, <3>2
  <2>3. feedOf # <<>> /\ feedOf[Len(feedOf)].n # 0 => Unheard
    <3>1. feedOf # <<>> => Len(feedOf) \in DOMAIN feedOf
      BY <1>w
    <3> QED
      BY <2>1, <3>1, <1>w, <1>p
  <2> QED
    BY <2>1, <2>2, <2>3, <1>w, <1>f DEF Unheard, WholeTurns
<1>2. ASSUME NEW e \in Piece, e.of = answer, answer # 0, PublishToCall(e), UNCHANGED <<answers, callState>>,
             (answer' = answer /\ e.n # 0) \/ (answer' = 0 /\ e.n = 0), written' \in 0..NPieces
      PROVE  FeedInOrder'
  <2>1. CASE UNCHANGED <<feedOf, deaf>> /\ Unheard
    BY <2>1, <1>2, <1>w, <1>f DEF Unheard, WholeTurns
  <2>2. CASE deaf' = TRUE /\ UNCHANGED feedOf
    BY <2>2, <1>2, <1>w, <1>f DEF Unheard, WholeTurns
  <2>3. CASE feedOf' = Append(feedOf, e) /\ UNCHANGED deaf /\ ~Unheard
    <3>1. WholeTurns(Append(feedOf, e))
      BY <2>3, <1>2, <1>w, WholeTurnsBy
    <3>2. /\ Append(feedOf, e) \in Seq(Piece) /\ Len(Append(feedOf, e)) = Len(feedOf) + 1 /\ Len(feedOf) \in Nat
          /\ DOMAIN Append(feedOf, e) = 1..(Len(feedOf) + 1)
          /\ \A i \in DOMAIN Append(feedOf, e) : \/ i \in DOMAIN feedOf /\ Append(feedOf, e)[i] = feedOf[i]
                                                 \/ i = Len(feedOf) + 1 /\ Append(feedOf, e)[i] = e
      BY <1>2, <1>w, AppendedIs
    <3>3. \A i \in DOMAIN Append(feedOf, e) :
            /\ Append(feedOf, e)[i].of <= answers
            /\ answer' # 0 /\ Append(feedOf, e)[i].n = 0 => Append(feedOf, e)[i].of < answer'
      BY <3>2, <1>2, <1>w
    <3>4. Append(feedOf, e)[Len(feedOf) + 1] = e
      BY <1>2, <1>w
    <3>5. WholeTurns(feedOf)'
      BY <3>1, <2>3 DEF WholeTurns
    <3> QED
      BY <2>3, <3>2, <3>3, <3>4, <3>5, <1>2, <1>w, <1>f
  <2> QED
    BY <2>1, <2>2, <2>3, <1>2 DEF PublishToCall, Unheard
<1>3. CASE BotWrites
  <2>1. /\ answer # 0 /\ written < NPieces /\ written' = written + 1
        /\ PublishToCall([of |-> answer, n |-> written']) /\ UNCHANGED <<answer, answers, callState>>
    BY <1>3 DEF BotWrites
  <2>2. written' \in 1..NPieces /\ answer \in Answers
    BY <2>1, <1>w, <1>t DEF Answers
  <2>3. [of |-> answer, n |-> written'] \in Piece
    BY <2>2 DEF Piece
  <2>4. [of |-> answer, n |-> written'].of = answer /\ [of |-> answer, n |-> written'].n # 0 /\ written' \in 0..NPieces
    BY <2>2
  <2>5. UNCHANGED <<answers, callState>> /\ answer' = answer
    BY <2>1
  <2> DEFINE e == [of |-> answer, n |-> written']
  <2>6. e \in Piece /\ e.of = answer /\ e.n # 0 /\ PublishToCall(e) /\ answer # 0
    BY <2>1, <2>3, <2>4
  <2> HIDE DEF e
  <2> QED
    BY <2>4, <2>5, <2>6, <1>2
<1>4. CASE BotEndsTurn
  <2>1. /\ answer # 0 /\ PublishToCall([of |-> answer, n |-> 0]) /\ answer' = 0
        /\ UNCHANGED <<answers, written, callState>>
    BY <1>4 DEF BotEndsTurn
  <2>2. answer \in Answers
    BY <2>1, <1>w, <1>t DEF Answers
  <2>3. [of |-> answer, n |-> 0] \in Piece
    BY <2>2, <1>t DEF Piece
  <2> QED
    BY <2>1, <2>3, <1>2, <1>w
<1>5. CASE FollowChunk \/ FollowEnd
  <2>1. feedOf # <<>> /\ feedOf' = Tail(feedOf) /\ UNCHANGED <<callState, answer, answers, written, deaf>>
    BY <1>5 DEF FollowChunk, FollowEnd, EndReply, Following, botVars
  <2>2. WholeTurns(Tail(feedOf))
    BY <2>1, <1>w, WholeTurnsBy
  <2>3. /\ Tail(feedOf) \in Seq(Piece) /\ Len(Tail(feedOf)) = Len(feedOf) - 1 /\ Len(feedOf) \in Nat
        /\ \A i \in DOMAIN Tail(feedOf) : i + 1 \in DOMAIN feedOf /\ Tail(feedOf)[i] = feedOf[i + 1]
        /\ Tail(feedOf) # <<>> => Len(Tail(feedOf)) \in DOMAIN Tail(feedOf)
    BY <2>1, <1>w, HeadAndTail
  <2>4. Tail(feedOf) # <<>> => Tail(feedOf)[Len(Tail(feedOf))] = feedOf[Len(feedOf)]
    BY <2>3
  <2>5. WholeTurns(feedOf)'
    BY <2>1, <2>2 DEF WholeTurns
  <2>6. (feedOf \in Seq(Piece))'
    BY <2>1, <2>3
  <2> QED
    BY <2>1, <2>3, <2>4, <2>5, <2>6, <1>w, <1>f DEF Unheard
<1>6. ASSUME UNCHANGED <<feedOf, deaf, botVars>>, callState' = "open" => callState = "open"
      PROVE  FeedInOrder'
  BY <1>6, <1>w, <1>f DEF Unheard, WholeTurns, botVars
<1>7. \/ Listens \/ CheckMuted \/ SayPiece \/ PlayPiece \/ BrowserMutes \/ CloseSocket \/ EndCall \/ BrowserInterrupts
      \/ SpeakTurn \/ Hangup \/ CancelCall \/ UNCHANGED voiceVars
      => UNCHANGED <<feedOf, deaf, botVars>> /\ (callState' = "open" => callState = "open")
  BY DEF Listens, TakeTurn, StopListening, HearNothing, HearOver, ListenerMutes, HandTurn, Deal, CheckMuted, SayPiece,
         PlayPiece, BrowserMutes, CloseSocket, EndCall, BrowserInterrupts, SpeakTurn, Hangup, CancelCall, voiceVars
<1> QED
  BY <1>1, <1>3, <1>4, <1>5, <1>6, <1>7 DEF VoiceNext, CallRuns, Follows

(* Every step keeps the types.                                             *)
LEMMA VoiceTypes == VoiceInv /\ [VoiceNext]_voiceVars => VoiceTypeOK'
<1> SUFFICES ASSUME VoiceInv, [VoiceNext]_voiceVars PROVE VoiceTypeOK'
  OBVIOUS
<1>t. /\ VoiceTypeOK /\ NAnswers \in Nat /\ NTurns \in Nat /\ TurnCap \in Nat \ {0} /\ FeedCap \in Nat \ {0}
      /\ outbox \in Seq(Piece) /\ feedOf \in Seq(Piece) /\ \E S : turns \in Seq(S)
      /\ (follower # "next" => inHand \in Piece) /\ spoken \in 0..NTurns
  BY VoiceBounds DEF VoiceInv, VoiceSafe, TurnsInOrder, FeedInOrder, FollowerKnows
<1>1. callState' \in {"open", "canceled", "closed", "ended"} /\ reader' \in {"on", "flushed", "off"}
  BY <1>t DEF VoiceTypeOK, VoiceNext, CallRuns, Listens, TakeTurn, StopListening, HearNothing, HearOver, ListenerMutes,
       HandTurn, Deal, Follows, FollowChunk, FollowEnd, EndReply, CheckMuted, SayPiece, PlayPiece, BrowserMutes,
       CloseSocket, EndCall, BotBegins, BotWrites, BotEndsTurn, BrowserInterrupts, SpeakTurn, Hangup, CancelCall,
       voiceVars
<1>2. listener' \in {"waits", "hears", "flushed", "hands", "done"}
  BY <1>t DEF VoiceTypeOK, VoiceNext, CallRuns, Listens, TakeTurn, StopListening, HearNothing, HearOver, ListenerMutes,
       HandTurn, Deal, Follows, FollowChunk, FollowEnd, EndReply, CheckMuted, SayPiece, PlayPiece, BrowserMutes,
       CloseSocket, EndCall, BotBegins, BotWrites, BotEndsTurn, BrowserInterrupts, SpeakTurn, Hangup, CancelCall,
       voiceVars, turnVars
<1>3. hearing' \in 0..NTurns
  <2>1. hearing' \in 0..spoken' /\ spoken' \in 0..NTurns
    BY VoiceTurns DEF TurnsInOrder
  <2> QED
    BY <2>1, <1>t
<1>4. Len(turns') <= TurnCap
  <2>0. Len(turns) \in Nat /\ Len(turns) <= TurnCap
    BY <1>t DEF VoiceTypeOK
  <2>1. CASE TakeTurn
    BY <1>t, <2>0, <2>1 DEF TakeTurn
  <2>2. CASE SpeakTurn
    <3>1. turns' = turns \/ (Len(turns) < TurnCap /\ turns' = Append(turns, spoken'))
      BY <2>2 DEF SpeakTurn
    <3>2. Len(Append(turns, spoken')) = Len(turns) + 1
      BY <1>t
    <3> QED
      BY <1>t, <2>0, <3>1, <3>2
  <2>3. CASE UNCHANGED turns
    BY <2>3, <2>0
  <2>4. TakeTurn \/ SpeakTurn \/ UNCHANGED turns
    BY DEF VoiceNext, CallRuns, Listens, StopListening, HearNothing, HearOver, ListenerMutes, HandTurn, Deal, Follows,
         FollowChunk, FollowEnd, EndReply, CheckMuted, SayPiece, PlayPiece, BrowserMutes, CloseSocket, EndCall,
         BotBegins, BotWrites, BotEndsTurn, BrowserInterrupts, Hangup, CancelCall, voiceVars, turnVars
  <2> QED
    BY <2>1, <2>2, <2>3, <2>4
<1>5. Len(feedOf') <= FeedCap
  <2>0. Len(feedOf) \in Nat /\ Len(feedOf) <= FeedCap
    BY <1>t DEF VoiceTypeOK
  <2>1. ASSUME NEW e, PublishToCall(e) PROVE Len(feedOf') <= FeedCap
    <3>1. feedOf' = feedOf \/ (Len(feedOf) # FeedCap /\ feedOf' = Append(feedOf, e))
      BY <2>1 DEF PublishToCall
    <3>2. Len(Append(feedOf, e)) = Len(feedOf) + 1
      BY <1>t
    <3> QED
      BY <1>t, <2>0, <3>1, <3>2
  <2>2. CASE FollowChunk \/ FollowEnd
    <3>1. feedOf # <<>> /\ feedOf' = Tail(feedOf)
      BY <2>2 DEF FollowChunk, FollowEnd, EndReply, Following
    <3> QED
      BY <3>1, <1>t, <2>0
  <2>3. CASE UNCHANGED feedOf
    BY <2>3, <2>0
  <2>4. CASE BotWrites \/ BotEndsTurn
    BY <2>4, <2>1 DEF BotWrites, BotEndsTurn
  <2>5. FollowChunk \/ FollowEnd \/ UNCHANGED feedOf \/ BotWrites \/ BotEndsTurn
    BY DEF VoiceNext, CallRuns, Listens, TakeTurn, StopListening, HearNothing, HearOver, ListenerMutes, HandTurn, Deal,
         Follows, CheckMuted, SayPiece, PlayPiece, BrowserMutes, CloseSocket, EndCall,
         BotBegins, BrowserInterrupts, SpeakTurn, Hangup, CancelCall, voiceVars, turnVars
  <2> QED
    BY <2>2, <2>3, <2>4, <2>5
<1>6. /\ follower' \in {"next", "checks", "says"} /\ inHand' \in Piece \union {NoPiece}
      /\ open' \in 0..NAnswers /\ muted' \in BOOLEAN
  <2>1. feedOf # <<>> => Head(feedOf) \in Piece
    BY <1>t
  <2>2. feedOf # <<>> => Head(feedOf).of \in 0..NAnswers
    BY <2>1, <1>t DEF Piece, Answers
  <2>3. /\ follower \in {"next", "checks", "says"} /\ inHand \in Piece \union {NoPiece}
        /\ open \in 0..NAnswers /\ muted \in BOOLEAN
    BY <1>t DEF VoiceTypeOK
  <2>4. CASE FollowChunk
    BY <2>1, <2>2, <2>3, <2>4 DEF FollowChunk, Following
  <2>5. CASE FollowEnd
    <3>1. feedOf # <<>> /\ open' = 0 /\ muted' = FALSE
          /\ (UNCHANGED <<follower, inHand>> \/ (follower' = "checks" /\ inHand' = Head(feedOf)))
      BY <2>5 DEF FollowEnd, EndReply, Following
    <3>2. open' \in 0..NAnswers
      BY <3>1, <1>t
    <3>4. muted' \in BOOLEAN
      BY <2>5 DEF FollowEnd
    <3>3. follower' \in {"next", "checks", "says"} /\ inHand' \in Piece \union {NoPiece}
      BY <3>1, <2>1, <2>3
    <3> QED
      BY <3>2, <3>3, <3>4
  <2>6. CASE CheckMuted \/ SayPiece
    BY <2>6, <2>3 DEF CheckMuted, SayPiece
  <2>7. CASE BrowserMutes \/ ListenerMutes
    <3>1. open' = 0 /\ muted' = (muted \/ open # 0) /\ UNCHANGED <<follower, inHand>>
      BY <2>7 DEF BrowserMutes, ListenerMutes, MuteReply
    <3>2. muted' \in BOOLEAN
      BY <3>1
    <3> QED
      BY <3>1, <3>2, <2>3, <1>t
  <2>8. CASE UNCHANGED <<follower, inHand, open, muted>>
    BY <2>8, <2>3
  <2>9. \/ FollowChunk \/ FollowEnd \/ CheckMuted \/ SayPiece \/ BrowserMutes \/ ListenerMutes
        \/ UNCHANGED <<follower, inHand, open, muted>>
    BY DEF VoiceNext, CallRuns, Listens, TakeTurn, StopListening, HearNothing, HearOver, HandTurn, Deal,
         Follows, PlayPiece, CloseSocket, EndCall, BotBegins, BotWrites, BotEndsTurn, BrowserInterrupts, SpeakTurn,
         Hangup, CancelCall, voiceVars, followVars
  <2> QED
    BY <2>4, <2>5, <2>6, <2>7, <2>8, <2>9
<1>7. outbox' \in Seq(Piece) /\ ToSet(outbox') \subseteq Piece
  <2>1. CASE SayPiece
    BY <2>1, <1>t, AppendedIs, ElementsOf DEF SayPiece
  <2>2. CASE PlayPiece
    BY <2>2, <1>t, HeadAndTail, ElementsOf DEF PlayPiece
  <2>3. CASE outbox' = <<>>
    BY <2>3 DEF ToSet
  <2>4. CASE UNCHANGED outbox
    BY <2>4, <1>t, ElementsOf
  <2>5. SayPiece \/ PlayPiece \/ outbox' = <<>> \/ UNCHANGED outbox
    BY DEF VoiceNext, CallRuns, Listens, TakeTurn, StopListening, HearNothing, HearOver, ListenerMutes, HandTurn, Deal,
         Follows, FollowChunk, FollowEnd, EndReply, CheckMuted, BrowserMutes, CloseSocket, EndCall,
         BotBegins, BotWrites, BotEndsTurn, BrowserInterrupts, SpeakTurn, Hangup, CancelCall, FlushOutbox, voiceVars
  <2> QED
    BY <2>1, <2>2, <2>3, <2>4, <2>5
<1> QED
  BY <1>1, <1>2, <1>3, <1>4, <1>5, <1>6, <1>7 DEF VoiceTypeOK

(* What the follower and the queue have to do with the feed.               *)
Cut == FollowerKnows /\ CutIsCaught /\ NothingStaleIsSaid /\ OnlyCutIsUnsaid

(* A step of the Bot or of the call's state.                               *)
LEMMA FollowerStays ==
  ASSUME VoiceTypeOK, Cut, UNCHANGED <<followVars, outbox, cutOff, slipped>>, Flushed' = Flushed,
         answers \in Nat, answers' \in Nat, answers <= answers',
         \A k \in 1..NAnswers : Current(k) => Current(k)',
         \A c \in Coming' : c \in Coming \/ (c \in Nat /\ c > answers)
  PROVE  Cut'
<1>1. UNCHANGED <<follower, inHand, open, muted, unsaid, outbox, cutOff, slipped>>
  BY DEF followVars
<1>2. cutOff \subseteq 1..NAnswers /\ open \in 0..NAnswers
  BY DEF Cut, FollowerKnows, Answers, VoiceTypeOK
<1>3. \A k \in cutOff \union ({open} \ {0}) : k \in 1..NAnswers /\ k \in Nat
  <2>1. \A k \in 1..NAnswers : k \in Nat
    OBVIOUS
  <2>2. open # 0 => open \in 1..NAnswers
    BY <1>2
  <2> QED
    BY <2>1, <2>2, <1>2
<1>4. open # 0 => Current(open)' /\ (follower = "checks" => inHand.of = open)
  <2>1. ASSUME open # 0 PROVE Current(open)'
    <3>1. PICK k \in 1..NAnswers : k = open
      BY <1>3, <2>1
    <3>2. Current(k)'
      BY <3>1, <2>1 DEF Cut, FollowerKnows
    <3> QED
      BY <3>1, <3>2, <1>1 DEF Current
  <2> QED
    BY <2>1 DEF Cut, FollowerKnows
<1>5. muted => \E k \in cutOff : Current(k)' /\ (follower = "checks" => inHand.of = k)
  BY <1>2 DEF Cut, FollowerKnows
<1>6. \A k \in cutOff \union ({open} \ {0}) : k <= answers' /\ \A c \in Coming' : k <= c
  <2>1. \A k \in cutOff \union ({open} \ {0}) : k <= answers /\ \A c \in Coming : k <= c
    BY DEF Cut, FollowerKnows
  <2> SUFFICES ASSUME NEW k \in cutOff \union ({open} \ {0}), k \in Nat, k <= answers, \A c \in Coming : k <= c
               PROVE  k <= answers' /\ \A c \in Coming' : k <= c
    BY <2>1, <1>3
  <2>2. k <= answers'
    OBVIOUS
  <2>3. ASSUME NEW c \in Coming' PROVE k <= c
    <3>1. CASE c \in Nat /\ c > answers
      BY <3>1
    <3> QED
      BY <3>1
  <2> QED
    BY <2>2, <2>3
<1>7. \A k \in Coming' \intersect cutOff : muted \/ (open = k /\ Flushed)
  <2>1. ASSUME NEW k \in Coming' \intersect cutOff PROVE k \in Coming
    <3>1. k <= answers /\ k \in Nat
      BY <2>1, <1>3 DEF Cut, FollowerKnows
    <3>2. ~(k > answers)
      BY <3>1
    <3> QED
      BY <2>1, <3>2
  <2> QED
    BY <2>1 DEF Cut, CutIsCaught
<1>8. FollowerKnows'
  BY <1>1, <1>4, <1>5, <1>6 DEF Cut, FollowerKnows, Current
<1>9. CutIsCaught'
  BY <1>1, <1>7 DEF Cut, CutIsCaught
<1>10. NothingStaleIsSaid' /\ OnlyCutIsUnsaid'
  BY <1>1 DEF Cut, NothingStaleIsSaid, OnlyCutIsUnsaid, Flushed
<1> QED
  BY <1>8, <1>9, <1>10 DEF Cut

(* The queue is dropped.                                                   *)
LEMMA OutboxFlushed ==
  ASSUME VoiceTypeOK, Cut, FlushOutbox, Flushed', UNCHANGED <<callState, botVars, feedOf, deaf, followVars, slipped>>
  PROVE  Cut'
<1>1. /\ outbox' = <<>> /\ cutOff' = (IF open = 0 THEN cutOff ELSE cutOff \union {open})
      /\ UNCHANGED <<callState, answer, answers, written, feedOf, deaf, follower, inHand, open, muted, unsaid, slipped>>
  BY DEF FlushOutbox, botVars, followVars
<1>2. cutOff \subseteq cutOff' /\ cutOff' \subseteq cutOff \union ({open} \ {0}) /\ cutOff' \subseteq Answers
  BY <1>1 DEF Cut, FollowerKnows, VoiceTypeOK, Answers
<1>3. \A k : Current(k)' <=> Current(k)
  BY <1>1 DEF Current, Unheard
<1>4. Coming' = Coming
  BY <1>1 DEF Coming
<1>5. outbox' \in Seq(Piece) /\ ToSet(outbox') = {}
  BY <1>1 DEF ToSet
<1>6. open # 0 => Current(open)' /\ (follower = "checks" => inHand.of = open)
  BY <1>1, <1>3 DEF Cut, FollowerKnows, Current
<1>7. muted => \E k \in cutOff' : Current(k)' /\ (follower = "checks" => inHand.of = k)
  BY <1>2, <1>3 DEF Cut, FollowerKnows
<1>8. \A k \in cutOff' \union ({open} \ {0}) : k <= answers /\ \A c \in Coming : k <= c
  BY <1>2 DEF Cut, FollowerKnows
<1>9. FollowerKnows'
  <2>1. (Current(open))' = Current(open)'
    OBVIOUS
  <2> QED
    BY <1>1, <1>2, <1>4, <1>5, <1>6, <1>7, <1>8 DEF Cut, FollowerKnows, Current, Unheard
<1>10. CutIsCaught'
  <2>1. \A k \in Coming \intersect cutOff' : muted \/ open = k
    BY <1>2 DEF Cut, CutIsCaught
  <2> QED
    BY <1>1, <1>4, <2>1 DEF CutIsCaught
<1>11. NothingStaleIsSaid' /\ OnlyCutIsUnsaid'
  BY <1>1, <1>2, <1>5 DEF Cut, NothingStaleIsSaid, OnlyCutIsUnsaid
<1> QED
  BY <1>9, <1>10, <1>11 DEF Cut

(* The turn that is read is muted.                                         *)
LEMMA ReplyMuted ==
  ASSUME VoiceTypeOK, Cut, MuteReply,
         UNCHANGED <<callState, botVars, feedOf, deaf, follower, inHand, unsaid, outbox>>
  PROVE  Cut'
<1>1. /\ cutOff' = (IF open = 0 THEN cutOff ELSE cutOff \union {open})
      /\ slipped' = slipped \union ToSet(outbox) \union OnItsWay /\ open' = 0
      /\ UNCHANGED <<callState, answer, answers, written, feedOf, deaf, follower, inHand, unsaid, outbox>>
  BY DEF MuteReply, botVars
<1>0. muted' <=> muted \/ open # 0
  BY DEF MuteReply
<1>2. cutOff \subseteq cutOff' /\ cutOff' \subseteq cutOff \union ({open} \ {0}) /\ cutOff' \subseteq Answers
  BY <1>1 DEF Cut, FollowerKnows, VoiceTypeOK, Answers
<1>3. \A k : Current(k)' <=> Current(k)
  BY <1>1 DEF Current, Unheard
<1>4. Coming' = Coming
  BY <1>1 DEF Coming
<1>5. muted' => \E k \in cutOff' : Current(k)' /\ (follower = "checks" => inHand.of = k)
  <2>1. CASE muted
    BY <1>2, <1>3, <2>1 DEF Cut, FollowerKnows
  <2>2. CASE open # 0
    <3>1. open \in cutOff' /\ Current(open) /\ (follower = "checks" => inHand.of = open)
      BY <1>1, <2>2 DEF Cut, FollowerKnows
    <3>2. PICK k \in cutOff' : k = open
      BY <3>1
    <3>3. Current(k)
      BY <3>1, <3>2
    <3> QED
      BY <3>1, <3>2, <3>3, <1>3
  <2> QED
    BY <1>0, <2>1, <2>2
<1>6. \A k \in cutOff' : k <= answers /\ \A c \in Coming : k <= c
  BY <1>2 DEF Cut, FollowerKnows
<1>7. outbox \in Seq(Piece) /\ (follower # "next" => inHand \in Piece)
  BY DEF Cut, FollowerKnows
<1>8. FollowerKnows'
  BY <1>1, <1>2, <1>4, <1>5, <1>6, <1>7 DEF FollowerKnows
<1>9. CutIsCaught'
  <2>1. \A k \in Coming \intersect cutOff' : muted'
    <3> SUFFICES ASSUME NEW k \in Coming, k \in cutOff' PROVE muted \/ open # 0
      BY <1>0
    <3>1. CASE k \in cutOff
      <4>1. muted \/ open = k
        BY <3>1 DEF Cut, CutIsCaught
      <4>2. k # 0
        BY <3>1 DEF Cut, FollowerKnows, Answers
      <4> QED
        BY <4>1, <4>2
    <3>2. CASE k \in {open} \ {0}
      BY <3>2
    <3> QED
      BY <3>1, <3>2, <1>2
  <2>2. follower = "checks" => muted' \/ inHand \in slipped'
    BY <1>0, <1>1 DEF OnItsWay
  <2>3. follower = "says" => inHand \in slipped'
    BY <1>1 DEF OnItsWay
  <2> QED
    BY <1>1, <1>4, <2>1, <2>2, <2>3 DEF CutIsCaught
<1>10. NothingStaleIsSaid' /\ OnlyCutIsUnsaid'
  BY <1>1, <1>2 DEF Cut, NothingStaleIsSaid, OnlyCutIsUnsaid
<1> QED
  BY <1>8, <1>9, <1>10 DEF Cut

(* What the feed loses when its head is read.                              *)
LEMMA HeadRead ==
  ASSUME FeedInOrder, feedOf # <<>>, feedOf' = Tail(feedOf), UNCHANGED <<callState, answer, answers, deaf>>,
         NEW h, h = Head(feedOf).of
  PROVE  /\ Head(feedOf) \in Piece /\ h \in Coming /\ Coming' \subseteq Coming
         /\ h \in Answers /\ h <= answers /\ Coming \subseteq Nat
         /\ Head(feedOf).n # 0 => Current(h)' /\ \A c \in Coming : h <= c
         /\ Head(feedOf).n = 0 => \A c \in Coming' : h < c
<1>t. /\ feedOf \in Seq(Piece) /\ answers \in Nat /\ answer \in {0, answers} /\ WholeTurns(feedOf)
      /\ \A i \in DOMAIN feedOf : /\ feedOf[i].of <= answers
                                  /\ answer # 0 /\ feedOf[i].n = 0 => feedOf[i].of < answer
      /\ feedOf[Len(feedOf)].n # 0 => answer = feedOf[Len(feedOf)].of \/ Unheard
  BY DEF FeedInOrder, WholeTurns, Last
<1>1. /\ Head(feedOf) \in Piece /\ Head(feedOf) = feedOf[1] /\ 1 \in DOMAIN feedOf
      /\ \A i \in DOMAIN Tail(feedOf) : i \in Nat /\ i + 1 \in DOMAIN feedOf /\ Tail(feedOf)[i] = feedOf[i + 1]
      /\ Tail(feedOf) \in Seq(Piece)
  BY <1>t, HeadAndTail
<1>2. /\ DOMAIN feedOf = 1..Len(feedOf) /\ Len(feedOf) \in Nat /\ \A i \in DOMAIN feedOf : feedOf[i] \in Piece
      /\ Tail(feedOf) = <<>> => Len(feedOf) = 1
      /\ Tail(feedOf) # <<>> => 1 \in DOMAIN Tail(feedOf) /\ Head(Tail(feedOf)) = feedOf[2] /\ 2 \in DOMAIN feedOf
  <2>1. DOMAIN feedOf = 1..Len(feedOf) /\ Len(feedOf) \in Nat /\ \A i \in DOMAIN feedOf : feedOf[i] \in Piece
    BY <1>t
  <2>2. /\ DOMAIN Tail(feedOf) = 1..(Len(feedOf) - 1) /\ Len(Tail(feedOf)) = Len(feedOf) - 1
        /\ Len(feedOf) >= 1
    BY <1>t
  <2>3. Tail(feedOf) = <<>> => Len(feedOf) = 1
    BY <2>1, <2>2
  <2>4. ASSUME Tail(feedOf) # <<>>
        PROVE  1 \in DOMAIN Tail(feedOf) /\ Head(Tail(feedOf)) = feedOf[2] /\ 2 \in DOMAIN feedOf
    <3>1. Head(Tail(feedOf)) = Tail(feedOf)[1] /\ 1 \in DOMAIN Tail(feedOf)
      BY <2>4, <1>1, HeadAndTail
    <3> QED
      BY <3>1, <1>1
  <2> QED
    BY <2>1, <2>3, <2>4
<1>3. \A i \in DOMAIN feedOf : feedOf[i].of \in Answers /\ feedOf[i].of \in Nat
  BY <1>2 DEF Piece, Answers
<1>4. h \in Answers /\ h \in Nat /\ h # 0 /\ h <= answers /\ h \in Coming /\ h = feedOf[1].of
  <2>1. h = feedOf[1].of
    BY <1>1
  <2>2. h \in Answers /\ h \in Nat /\ h <= answers /\ h \in Coming
    BY <2>1, <1>1, <1>3, <1>t DEF Coming
  <2> QED
    BY <2>1, <2>2 DEF Answers
<1>5. Coming' \subseteq Coming
  <2>1. \A i \in DOMAIN feedOf' : \E j \in DOMAIN feedOf : feedOf'[i] = feedOf[j]
    BY <1>1
  <2> QED
    BY <2>1 DEF Coming
<1>6. \A c \in Coming : c \in Nat /\ ((c = answer /\ answer # 0) \/ \E i \in DOMAIN feedOf : c = feedOf[i].of)
  BY <1>t, <1>3 DEF Coming
<1>7. ASSUME Head(feedOf).n # 0 PROVE Current(h)' /\ \A c \in Coming : h <= c
  <2>1. Current(h)'
    <3>1. CASE Tail(feedOf) = <<>>
      <4>1. answer = h \/ Unheard
        BY <3>1, <1>7, <1>1, <1>2, <1>t
      <4> QED
        BY <4>1, <3>1 DEF Current, Unheard
    <3>2. CASE Tail(feedOf) # <<>>
      <4>1. feedOf[2].of = feedOf[1].of
        BY SMTT(30), <3>2, <1>7, <1>1, <1>2, <1>t DEF WholeTurns
      <4>2. Head(feedOf').of = h
        BY <4>1, <3>2, <1>2, <1>4
      <4> QED
        BY <4>2, <3>2 DEF Current
    <3> QED
      BY <3>1, <3>2
  <2>2. ASSUME NEW c \in Coming PROVE h <= c
    <3>1. CASE c = answer /\ answer # 0
      BY <3>1, <1>4, <1>t
    <3>2. ASSUME NEW i \in DOMAIN feedOf, c = feedOf[i].of PROVE h <= c
      <4>1. i = 1 \/ 1 < i
        BY <1>2
      <4>2. CASE 1 < i
        BY <3>2, <4>2, <1>1, <1>4, <1>t DEF WholeTurns
      <4> QED
        BY <4>1, <4>2, <3>2, <1>4
    <3> QED
      BY <3>1, <3>2, <1>6
  <2> QED
    BY <2>1, <2>2
<1>8. ASSUME Head(feedOf).n = 0 PROVE \A c \in Coming' : h < c
  <2>1. feedOf[1].n = 0
    BY <1>8, <1>1
  <2>2. answer # 0 => h < answer
    BY <2>1, <1>1, <1>4, <1>t
  <2>3. ASSUME NEW i \in DOMAIN Tail(feedOf) PROVE h < Tail(feedOf)[i].of
    <3>1. i + 1 \in DOMAIN feedOf /\ 1 < i + 1 /\ Tail(feedOf)[i] = feedOf[i + 1]
      BY <1>1, <2>3, <1>2
    <3> QED
      BY <3>1, <2>1, <1>1, <1>4, <1>t DEF WholeTurns
  <2> QED
    BY <2>2, <2>3 DEF Coming
<1> QED
  BY <1>1, <1>4, <1>5, <1>6, <1>7, <1>8

(* A piece that the follower reads is of the reply it follows, or was cut. *)
LEMMA PieceFollowed == VoiceInv /\ FollowChunk => Cut'
<1> SUFFICES ASSUME VoiceInv, FollowChunk PROVE Cut'
  OBVIOUS
<1>t. FeedInOrder /\ VoiceTypeOK /\ Cut
  BY DEF VoiceInv, VoiceSafe, Cut
<1>1. /\ feedOf # <<>> /\ Head(feedOf).n # 0 /\ feedOf' = Tail(feedOf) /\ follower = "next"
      /\ UNCHANGED <<callState, reader, listener, answer, answers, written, deaf, muted, outbox, cutOff, slipped>>
  BY DEF FollowChunk, Following, botVars, turnVars
<1> DEFINE h == Head(feedOf).of
<1>2. PICK k : k = h
  OBVIOUS
<1>3. /\ Head(feedOf) \in Piece /\ k \in Coming /\ Coming' \subseteq Coming /\ k \in Answers /\ k <= answers
      /\ Current(k)' /\ \A c \in Coming : k <= c
  BY <1>1, <1>2, <1>t, HeadRead
<1>4. \A l : Current(l) => l = k
  BY <1>1, <1>2 DEF Current
<1>5. k # 0
  BY <1>3 DEF Answers
<1>6. CASE muted
  <2>1. unsaid' = unsaid \union {Head(feedOf)} /\ UNCHANGED <<follower, inHand, open>>
    BY <1>6 DEF FollowChunk
  <2>2. open = 0 /\ k \in cutOff
    BY <1>6, <1>4, <1>t DEF Cut, FollowerKnows
  <2>3. FollowerKnows'
    BY <1>1, <1>3, <1>t, <2>1, <2>2 DEF Cut, FollowerKnows
  <2>4. CutIsCaught'
    BY <1>1, <1>6, <2>1 DEF CutIsCaught
  <2>5. NothingStaleIsSaid'
    BY <1>1, <1>t DEF Cut, NothingStaleIsSaid
  <2>6. OnlyCutIsUnsaid'
    BY <1>1, <1>2, <1>t, <2>1, <2>2 DEF Cut, OnlyCutIsUnsaid
  <2> QED
    BY <2>3, <2>4, <2>5, <2>6 DEF Cut
<1>7. CASE ~muted
  <2>1. follower' = "checks" /\ inHand' = Head(feedOf) /\ open' = k /\ UNCHANGED unsaid
    BY <1>7, <1>2 DEF FollowChunk
  <2>2. Current(open)'
    BY <1>3, <2>1 DEF Current
  <2>3. open # 0 => open = k
    BY <1>4, <1>t DEF Cut, FollowerKnows
  <2>4. FollowerKnows'
    <3>1. \A j \in cutOff : j <= answers /\ \A c \in Coming : j <= c
      BY <1>t DEF Cut, FollowerKnows
    <3>2. inHand'.of = k /\ inHand' \in Piece
      BY <2>1, <1>2, <1>3
    <3>3. outbox \in Seq(Piece) /\ cutOff \subseteq Answers
      BY <1>t DEF Cut, FollowerKnows
    <3> QED
      BY <1>1, <1>3, <1>7, <2>1, <2>2, <3>1, <3>2, <3>3 DEF FollowerKnows
  <2>5. \A j \in Coming \intersect cutOff : j = k /\ Flushed
    <3>1. \A j \in cutOff : j # 0
      BY <1>t DEF Cut, FollowerKnows, Answers
    <3> QED
      BY <1>7, <1>t, <2>3, <3>1 DEF Cut, CutIsCaught
  <2>6. CutIsCaught'
    <3>1. Flushed' = Flushed
      BY <1>1 DEF Flushed
    <3> QED
      BY <1>1, <1>2, <1>3, <2>1, <2>5, <3>1 DEF CutIsCaught
  <2>7. NothingStaleIsSaid' /\ OnlyCutIsUnsaid'
    BY <1>1, <1>t, <2>1 DEF Cut, NothingStaleIsSaid, OnlyCutIsUnsaid
  <2> QED
    BY <2>4, <2>6, <2>7 DEF Cut
<1> QED
  BY <1>6, <1>7

(* The end of a reply that the follower reads lets go of what was cut of   *)
(* it.                                                                     *)
LEMMA EndFollowed == VoiceInv /\ FollowEnd => Cut'
<1> SUFFICES ASSUME VoiceInv, FollowEnd PROVE Cut'
  OBVIOUS
<1>t. FeedInOrder /\ VoiceTypeOK /\ Cut
  BY DEF VoiceInv, VoiceSafe, Cut
<1>1. /\ feedOf # <<>> /\ Head(feedOf).n = 0 /\ feedOf' = Tail(feedOf) /\ follower = "next" /\ open' = 0 /\ ~muted'
      /\ UNCHANGED <<callState, reader, listener, answer, answers, written, deaf, unsaid, outbox, cutOff, slipped>>
      /\ \/ UNCHANGED <<follower, inHand>>
         \/ ~muted /\ open # 0 /\ follower' = "checks" /\ inHand' = Head(feedOf)
  BY DEF FollowEnd, EndReply, Following, botVars, turnVars
<1>2. PICK k : k = Head(feedOf).of
  OBVIOUS
<1>3. /\ Head(feedOf) \in Piece /\ k \in Coming /\ k \in Answers /\ k \in Nat /\ Coming' \subseteq Coming
      /\ \A c \in Coming' : k < c
  BY <1>1, <1>2, <1>t, HeadRead DEF Answers
<1>4. Coming' \subseteq Nat
  BY <1>1, <1>2, <1>3, <1>t, HeadRead
<1>5. outbox \in Seq(Piece) /\ cutOff \subseteq Answers /\ \A j \in cutOff : j <= answers /\ \A c \in Coming : j <= c
  BY <1>t DEF Cut, FollowerKnows
<1>6. Coming' \intersect cutOff = {}
  <2> SUFFICES ASSUME NEW c \in Coming', c \in cutOff PROVE FALSE
    OBVIOUS
  <2>1. c <= k /\ k < c /\ c \in Nat
    BY <1>3, <1>4, <1>5
  <2> QED
    BY <2>1, <1>3
<1>7. FollowerKnows'
  <2>1. follower' # "next" => inHand' \in Piece
    BY <1>1, <1>3
  <2> QED
    BY <1>1, <1>3, <1>5, <2>1 DEF FollowerKnows
<1>8. CutIsCaught'
  <2>1. Flushed' = Flushed
    BY <1>1 DEF Flushed
  <2>2. follower' = "checks" /\ inHand'.of \in cutOff => Flushed
    <3> SUFFICES ASSUME follower' = "checks", inHand'.of \in cutOff PROVE Flushed
      OBVIOUS
    <3>1. ~muted /\ inHand' = Head(feedOf)
      BY <1>1
    <3>2. k \in Coming \intersect cutOff
      BY <1>2, <1>3, <3>1
    <3> QED
      BY <3>1, <3>2, <1>t DEF Cut, CutIsCaught
  <2>3. follower' # "says"
    BY <1>1
  <2> QED
    BY <1>1, <1>6, <2>1, <2>2, <2>3 DEF CutIsCaught
<1>9. NothingStaleIsSaid' /\ OnlyCutIsUnsaid'
  BY <1>1, <1>t DEF Cut, NothingStaleIsSaid, OnlyCutIsUnsaid
<1> QED
  BY <1>7, <1>8, <1>9 DEF Cut

(* A piece on its way to the speaker stays caught by the cut that came for *)
(* it.                                                                     *)
LEMMA PieceSaid == VoiceInv /\ (CheckMuted \/ SayPiece \/ PlayPiece) => Cut'
<1> SUFFICES ASSUME VoiceInv, CheckMuted \/ SayPiece \/ PlayPiece PROVE Cut'
  OBVIOUS
<1>t. VoiceTypeOK /\ Cut /\ outbox \in Seq(Piece)
  BY DEF VoiceInv, VoiceSafe, Cut, FollowerKnows
<1>1. UNCHANGED <<callState, reader, listener, answer, answers, written, feedOf, deaf, open, muted, cutOff, slipped>>
  BY DEF CheckMuted, SayPiece, PlayPiece, botVars, turnVars, followVars
<1>2. Coming' = Coming /\ (Flushed' <=> Flushed) /\ \A k : Current(k)' <=> Current(k)
  BY <1>1 DEF Coming, Flushed, Current, Unheard
<1>3. CASE CheckMuted
  <2>1. outbox' = outbox /\ follower = "checks"
    BY <1>3 DEF CheckMuted
  <2>2. CASE muted
    <3>1. unsaid' = unsaid \union {inHand} /\ follower' = "next"
      BY <1>3, <2>2 DEF CheckMuted
    <3>2. inHand.of \in cutOff /\ open = 0
      BY <2>1, <2>2, <1>t DEF Cut, FollowerKnows
    <3>3. \E k \in cutOff : Current(k)'
      BY <2>2, <1>2, <1>t DEF Cut, FollowerKnows
    <3>4. FollowerKnows'
      BY <1>1, <1>2, <1>t, <2>1, <3>1, <3>2, <3>3 DEF Cut, FollowerKnows
    <3>5. CutIsCaught'
      BY <1>1, <1>2, <2>2, <3>1 DEF CutIsCaught
    <3>6. NothingStaleIsSaid' /\ OnlyCutIsUnsaid'
      BY <1>1, <1>t, <2>1, <3>1, <3>2 DEF Cut, NothingStaleIsSaid, OnlyCutIsUnsaid
    <3> QED
      BY <3>4, <3>5, <3>6 DEF Cut
  <2>3. CASE ~muted
    <3>1. follower' = "says" /\ UNCHANGED <<inHand, unsaid>>
      BY <1>3, <2>3 DEF CheckMuted
    <3>2. open # 0 => Current(open)'
      BY <1>1, <1>t DEF Cut, FollowerKnows, Current, Unheard
    <3>3. FollowerKnows'
      BY <1>1, <1>2, <1>t, <2>1, <2>3, <3>1, <3>2 DEF Cut, FollowerKnows
    <3>4. CutIsCaught'
      BY <1>1, <1>2, <1>t, <2>1, <2>3, <3>1 DEF Cut, CutIsCaught
    <3>5. NothingStaleIsSaid' /\ OnlyCutIsUnsaid'
      BY <1>1, <1>t, <2>1, <3>1 DEF Cut, NothingStaleIsSaid, OnlyCutIsUnsaid
    <3> QED
      BY <3>3, <3>4, <3>5 DEF Cut
  <2> QED
    BY <2>2, <2>3
<1>4. ASSUME outbox' \in Seq(Piece), UNCHANGED unsaid,
             follower' = "next" \/ UNCHANGED <<follower, inHand>>,
             \A p \in ToSet(outbox') : p \in ToSet(outbox) \/ (p.of \in cutOff => p \in slipped \/ Flushed)
      PROVE  Cut'
  <2>1. open # 0 => Current(open)'
    BY <1>1, <1>t DEF Cut, FollowerKnows, Current, Unheard
  <2>2. muted => \E k \in cutOff : Current(k)' /\ (follower' = "checks" => inHand'.of = k)
    BY <1>2, <1>4, <1>t DEF Cut, FollowerKnows
  <2>3. FollowerKnows'
    BY <1>1, <1>2, <1>4, <1>t, <2>1, <2>2 DEF Cut, FollowerKnows
  <2>4. CutIsCaught'
    BY <1>1, <1>2, <1>4, <1>t DEF Cut, CutIsCaught
  <2>5. NothingStaleIsSaid' /\ OnlyCutIsUnsaid'
    BY <1>1, <1>4, <1>t DEF Cut, NothingStaleIsSaid, OnlyCutIsUnsaid, Flushed
  <2> QED
    BY <2>3, <2>4, <2>5 DEF Cut
<1>5. CASE SayPiece
  <2>1. follower = "says" /\ outbox' = Append(outbox, inHand) /\ follower' = "next" /\ UNCHANGED unsaid
    BY <1>5 DEF SayPiece
  <2>2. inHand \in Piece
    BY <2>1, <1>t DEF Cut, FollowerKnows
  <2>3. outbox' \in Seq(Piece) /\ ToSet(outbox') = ToSet(outbox) \union {inHand}
    BY <2>1, <2>2, <1>t, AppendedIs
  <2>4. inHand.of \in cutOff => inHand \in slipped \/ Flushed
    BY <2>1, <1>t DEF Cut, CutIsCaught
  <2> QED
    BY <2>1, <2>3, <2>4, <1>4
<1>6. CASE PlayPiece
  <2>1. outbox # <<>> /\ outbox' = Tail(outbox) /\ UNCHANGED <<unsaid, follower, inHand>>
    BY <1>6 DEF PlayPiece, followVars
  <2>2. outbox' \in Seq(Piece) /\ ToSet(outbox') \subseteq ToSet(outbox)
    BY <2>1, <1>t, HeadAndTail
  <2> QED
    BY <2>1, <2>2, <1>4
<1> QED
  BY <1>3, <1>5, <1>6

(* What the Bot writes next is new to the call and was not cut.            *)
LEMMA BotWorks == VoiceInv /\ (BotBegins \/ BotWrites \/ BotEndsTurn) => Cut'
<1> SUFFICES ASSUME VoiceInv, BotBegins \/ BotWrites \/ BotEndsTurn PROVE Cut'
  OBVIOUS
<1>t. /\ VoiceTypeOK /\ Cut /\ FeedInOrder /\ feedOf \in Seq(Piece) /\ answers \in Nat /\ answer \in {0, answers}
      /\ FeedCap \in Nat \ {0}
  BY VoiceBounds DEF VoiceInv, VoiceSafe, Cut, FeedInOrder
<1>1. UNCHANGED <<followVars, outbox, cutOff, slipped, reader, listener, callState>>
  BY DEF BotBegins, BotWrites, BotEndsTurn, turnVars
<1>2. Flushed' = Flushed
  BY <1>1 DEF Flushed
<1>3. CASE BotBegins
  <2>1. answer = 0 /\ answers' = answers + 1 /\ answer' = answers' /\ UNCHANGED <<feedOf, deaf>>
    BY <1>3 DEF BotBegins
  <2>2. \A k \in 1..NAnswers : Current(k) => Current(k)'
    BY <1>1, <2>1 DEF Current, Unheard
  <2>3. \A c \in Coming' : c \in Coming \/ (c \in Nat /\ c > answers)
    BY <1>t, <2>1 DEF Coming
  <2> QED
    BY <1>1, <1>2, <1>t, <2>1, <2>2, <2>3, FollowerStays
<1>4. ASSUME NEW e, e.of = answer, answer # 0, PublishToCall(e), UNCHANGED answers, e \in Piece,
             answer' = answer \/ (answer' = 0)
      PROVE  Cut'
  <2>1. Coming' \subseteq Coming
    <3>1. CASE UNCHANGED feedOf
      BY <3>1, <1>4 DEF Coming
    <3>2. CASE feedOf' = Append(feedOf, e)
      <4>1. \A i \in DOMAIN feedOf' : (\E j \in DOMAIN feedOf : feedOf'[i] = feedOf[j]) \/ feedOf'[i] = e
        BY <3>2, <1>4, <1>t, AppendedIs
      <4> QED
        BY <4>1, <1>4 DEF Coming
    <3> QED
      BY <3>1, <3>2, <1>4 DEF PublishToCall
  <2>2. \A k \in 1..NAnswers : Current(k) => Current(k)'
    <3> SUFFICES ASSUME NEW k \in 1..NAnswers, Current(k) PROVE Current(k)'
      OBVIOUS
    <3>1. CASE Unheard /\ UNCHANGED <<feedOf, deaf>>
      BY <3>1, <1>1 DEF Current, Unheard
    <3>2. CASE Len(feedOf) = FeedCap /\ UNCHANGED feedOf
      <4>1. feedOf # <<>>
        BY <3>2, <1>t
      <4> QED
        BY <4>1, <3>2 DEF Current
    <3>3. CASE ~Unheard /\ feedOf' = Append(feedOf, e)
      <4>1. feedOf' # <<>> /\ Head(feedOf') = IF feedOf = <<>> THEN e ELSE Head(feedOf)
        BY <3>3, <1>4, <1>t
      <4> QED
        BY <4>1, <3>3, <1>4 DEF Current
    <3> QED
      BY <3>1, <3>2, <3>3, <1>4 DEF PublishToCall, Unheard
  <2> QED
    BY <1>1, <1>2, <1>4, <1>t, <2>1, <2>2, FollowerStays
<1>5. CASE BotWrites
  <2>1. /\ answer # 0 /\ written < NPieces /\ written' = written + 1
        /\ PublishToCall([of |-> answer, n |-> written']) /\ UNCHANGED <<answer, answers>>
    BY <1>5 DEF BotWrites
  <2>2. written' \in 0..NPieces /\ answer \in Answers
    BY <2>1, <1>t, VoiceBounds DEF FeedInOrder, Answers
  <2> DEFINE e == [of |-> answer, n |-> written']
  <2>3. e \in Piece /\ e.of = answer /\ PublishToCall(e)
    BY <2>1, <2>2 DEF Piece
  <2> HIDE DEF e
  <2> QED
    BY <2>1, <2>3, <1>4
<1>6. CASE BotEndsTurn
  <2>1. /\ answer # 0 /\ PublishToCall([of |-> answer, n |-> 0]) /\ answer' = 0 /\ answers' = answers
    BY <1>6 DEF BotEndsTurn
  <2>2. answer \in Answers /\ NPieces \in Nat
    BY <2>1, <1>t, VoiceBounds DEF FeedInOrder, Answers
  <2> DEFINE e == [of |-> answer, n |-> 0]
  <2>3. e \in Piece /\ e.of = answer /\ PublishToCall(e)
    BY <2>1, <2>2 DEF Piece
  <2> HIDE DEF e
  <2> QED
    BY <2>1, <2>3, <1>4
<1> QED
  BY <1>3, <1>5, <1>6

(* Every step keeps the invariant.                                         *)
LEMMA VoiceStep == VoiceInv /\ [VoiceNext]_voiceVars => VoiceInv'
<1> SUFFICES ASSUME VoiceInv, [VoiceNext]_voiceVars PROVE VoiceInv'
  OBVIOUS
<1>t. VoiceTypeOK /\ Cut /\ answers \in Nat /\ TurnsInOrder
  BY DEF VoiceInv, VoiceSafe, Cut, FeedInOrder
<1>1. ASSUME BotBegins \/ BotWrites \/ BotEndsTurn PROVE Cut'
  BY <1>1, BotWorks
<1>2. ASSUME FollowChunk PROVE Cut'
  BY <1>2, PieceFollowed
<1>3. ASSUME FollowEnd PROVE Cut'
  BY <1>3, EndFollowed
<1>4. ASSUME CheckMuted \/ SayPiece \/ PlayPiece PROVE Cut'
  BY <1>4, PieceSaid
<1>5. ASSUME BrowserInterrupts \/ HearOver PROVE Cut'
  <2>1. /\ FlushOutbox /\ Flushed' /\ UNCHANGED <<callState, botVars, feedOf, deaf, followVars, slipped>>
    BY <1>5 DEF BrowserInterrupts, HearOver, Flushed
  <2> QED
    BY <2>1, <1>t, OutboxFlushed
<1>6. ASSUME BrowserMutes \/ ListenerMutes PROVE Cut'
  <2>1. MuteReply /\ UNCHANGED <<callState, botVars, feedOf, deaf, follower, inHand, unsaid, outbox>>
    BY <1>6 DEF BrowserMutes, ListenerMutes
  <2> QED
    BY <2>1, <1>t, ReplyMuted
<1>7. ASSUME UNCHANGED <<botVars, feedOf, deaf, followVars, outbox, cutOff, slipped>>, Flushed' = Flushed,
             callState' = "open" => callState = "open"
      PROVE  Cut'
  <2>1. UNCHANGED <<answer, answers, feedOf, deaf>>
    BY <1>7 DEF botVars
  <2>2. Coming' = Coming
    BY <2>1 DEF Coming
  <2>3. \A k : Current(k) => Current(k)'
    BY <2>1, <1>7 DEF Current, Unheard
  <2> QED
    BY <1>7, <1>t, <2>1, <2>2, <2>3, FollowerStays
<1>8. \/ TakeTurn \/ StopListening \/ HearNothing \/ HandTurn \/ CloseSocket \/ EndCall \/ SpeakTurn \/ Hangup
      \/ CancelCall \/ UNCHANGED voiceVars
      => /\ UNCHANGED <<botVars, feedOf, deaf, followVars, outbox, cutOff, slipped>>
         /\ callState' = "open" => callState = "open"
         /\ reader' = "flushed" <=> reader = "flushed"
         /\ listener' = "flushed" <=> listener = "flushed"
  BY DEF TakeTurn, StopListening, HearNothing, HandTurn, Deal, CloseSocket, EndCall, SpeakTurn, Hangup, CancelCall,
         voiceVars, turnVars
<1>9. (reader' = "flushed" <=> reader = "flushed") /\ (listener' = "flushed" <=> listener = "flushed")
      => Flushed' = Flushed
  BY DEF Flushed
<1>10. Cut'
  BY <1>1, <1>2, <1>3, <1>4, <1>5, <1>6, <1>7, <1>8, <1>9 DEF VoiceNext, CallRuns, Listens, Follows
<1>11. TurnsInOrder' /\ FeedInOrder' /\ VoiceTypeOK'
  BY VoiceTurns, VoiceFeed, VoiceTypes
<1>12. TurnsBeforeEnd'
  <2>1. CASE callState' = "ended"
    <3>1. /\ listener' = "done" /\ hearing' = 0 /\ ToSet(turns') \subseteq tooLate' /\ refused' \subseteq 1..spoken'
          /\ tooLate' \subseteq 1..spoken' /\ dealt' \in Seq(1..spoken')
          /\ 1..spoken' \subseteq ToSet(dealt') \union {hearing'} \union ToSet(turns') \union refused'
      BY <2>1, <1>11 DEF TurnsInOrder
    <3>2. ToSet(dealt') \subseteq 1..spoken'
      BY <3>1, ElementsOf
    <3>3. \A t \in 1..spoken' : t # 0
      OBVIOUS
    <3>4. 1..spoken' = ToSet(dealt') \union refused' \union tooLate'
      BY <3>1, <3>2, <3>3
    <3> QED
      BY <3>4, <1>11 DEF TurnsBeforeEnd, TurnsInOrder
  <2> QED
    BY <2>1, <1>11 DEF TurnsBeforeEnd, TurnsInOrder
<1> QED
  BY <1>10, <1>11, <1>12 DEF VoiceInv, VoiceSafe, Cut

(* The call is not open yet, and the feed is empty.                        *)
LEMMA VoiceBegins == VoiceInit => VoiceInv
<1> SUFFICES ASSUME VoiceInit PROVE VoiceInv
  OBVIOUS
<1>b. NAnswers \in Nat /\ NPieces \in Nat \ {0} /\ NTurns \in Nat /\ TurnCap \in Nat \ {0} /\ FeedCap \in Nat \ {0}
  BY VoiceBounds
<1>s. ToSet(<<>>) = {} /\ Len(<<>>) = 0 /\ DOMAIN <<>> = {} /\ \A S : <<>> \in Seq(S)
  BY DEF ToSet
<1>r. 1..0 = {}
  OBVIOUS
<1>1. VoiceTypeOK
  <2>1. NoPiece \in Piece \union {NoPiece} /\ 0 \in 0..NTurns /\ 0 \in 0..NAnswers /\ 0 <= TurnCap /\ 0 <= FeedCap
    BY <1>b
  <2> QED
    BY <2>1, <1>s DEF VoiceInit, VoiceTypeOK
<1>2. TurnsInOrder
  BY <1>b, <1>s, <1>r DEF VoiceInit, TurnsInOrder
<1>3. FeedInOrder
  <2>1. 0 \in 0..NPieces /\ 0 \in 0..NAnswers
    BY <1>b
  <2> QED
    BY <2>1, <1>s DEF VoiceInit, FeedInOrder
<1>4. FollowerKnows /\ CutIsCaught
  BY <1>b, <1>s DEF VoiceInit, FollowerKnows, CutIsCaught, Current
<1>5. NothingStaleIsSaid /\ OnlyCutIsUnsaid
  BY <1>s DEF VoiceInit, NothingStaleIsSaid, OnlyCutIsUnsaid
<1>6. TurnsBeforeEnd
  BY <1>s DEF VoiceInit, TurnsBeforeEnd
<1> QED
  BY <1>1, <1>2, <1>3, <1>4, <1>5, <1>6 DEF VoiceInv, VoiceSafe

(* On a call, whatever is cut, spoken and written at the same time: no     *)
(* piece is said of a reply that was cut before, nothing is left out but   *)
(* what was cut, and the turns of the human are dealt with in order, all   *)
(* of them before the end.                                                 *)
THEOREM VoiceSafeHolds == VoiceSpec => []VoiceSafe
<1>1. VoiceInv => VoiceSafe
  BY DEF VoiceInv
<1> QED
  BY VoiceBegins, VoiceStep, <1>1, PTL DEF VoiceSpec

-----------------------------------------------------------------------------
(* The tabs of a console.                                                  *)

(* Every row has a seq of its own, and the serial column is behind all.    *)
Rows ==
  /\ place \in [EventIds -> Nat] /\ nextSeq \in Nat \ {0} /\ moved \subseteq EventIds
  /\ stage \in [EventIds -> {"new", "stored", "published"}]
  /\ \A e \in EventIds : place[e] < nextSeq /\ (stage[e] = "new" => place[e] = 0)
  /\ \A e, f \in EventIds : place[e] # 0 /\ e # f => place[e] # place[f]
  /\ nextSeq = 1 + Cardinality({e \in EventIds : stage[e] # "new"}) + Cardinality(moved)

UnderWay == ToSet(wire) \union ToSet(bus)

StreamKnows ==
  /\ thread \in Seq(EventIds) /\ wire \in Seq(0..NEvents) /\ bus \in Seq(0..NEvents)
  /\ sentIds \subseteq EventIds /\ anchor \in Nat /\ anchor < nextSeq /\ sub \in {"none", "in", "cut"}
  /\ relay \in {"off", "subscribed", "anchored", "live", "over"} /\ Len(bus) <= BusCap
  /\ \A e \in ToSet(thread) \union (UnderWay \ {Reset}) : stage[e] # "new"
  /\ relay = "off" => sub = "none" /\ bus = <<>> /\ wire = <<>>
  /\ relay \in {"subscribed", "anchored"} => sub # "none" /\ wire = <<>>
  /\ relay = "live" => sub # "none" /\ sentIds \subseteq ToSet(thread) \union ToSet(wire)
  /\ relay = "over" => sub = "none" /\ bus = <<>>

(* What has a row before that of x is in S, or is excused.                 *)
Excused == overtaken \union passed
Led(x, S, rows, excused) == x # Reset /\ rows[x] # 0 =>
  \A e \in EventIds : rows[e] # 0 /\ rows[e] < rows[x] => e \in S \union excused
Ahead(q, i) == {q[j] : j \in {k \in DOMAIN q : k < i}}

ThreadLed == \A x \in ToSet(thread) : Led(x, ToSet(thread), place, Excused)
WireLed   == \A i \in DOMAIN wire : Led(wire[i], ToSet(thread) \union Ahead(wire, i), place, Excused)
BusLed    == relay = "live" =>
  \A i \in DOMAIN bus : Led(bus[i], ToSet(thread) \union ToSet(wire) \union Ahead(bus, i), place, Excused)
AnchorLed == relay = "anchored" =>
  \A e \in EventIds : place[e] # 0 /\ place[e] <= anchor => e \in ToSet(thread) \union Excused
AllComes  == relay = "live" /\ sub = "in" =>
  \A e \in EventIds : place[e] # 0 /\ stage[e] = "published" => e \in ToSet(thread) \union UnderWay \union Excused

NothingSkipped == ThreadLed /\ WireLed /\ BusLed /\ AnchorLed /\ AllComes

ResetComes ==
  \A e \in ToSet(thread) \union (UnderWay \ {Reset}) :
    place[e] # 0 \/ e \in late \/ cutting \/ missed \/ Reset \in UnderWay


-----------------------------------------------------------------------------
(* What is led by some events is led by more of them.                      *)
LEMMA LedMore ==
  ASSUME NEW x, NEW S, NEW T, NEW rows, NEW ex, NEW ey, Led(x, S, rows, ex), S \subseteq T \union ey, ex \subseteq ey
  PROVE  Led(x, T, rows, ey)
BY DEF Led

(* The events ahead of a place in a queue, after it grew or was read.      *)
LEMMA AheadOf ==
  ASSUME NEW S, NEW q \in Seq(S)
  PROVE  /\ \A i \in DOMAIN q : Ahead(q, i) \subseteq ToSet(q)
         /\ \A x \in S : /\ \A i \in DOMAIN q : Ahead(Append(q, x), i) = Ahead(q, i)
                        /\ Ahead(Append(q, x), Len(q) + 1) = ToSet(q)
         /\ q # <<>> => /\ Ahead(q, 1) = {}
                        /\ \A i \in DOMAIN Tail(q) : Ahead(q, i + 1) \subseteq {Head(q)} \union Ahead(Tail(q), i)
<1>1. DOMAIN q = 1..Len(q) /\ Len(q) \in Nat
  OBVIOUS
<1>2. \A i \in DOMAIN q : Ahead(q, i) \subseteq ToSet(q)
  BY DEF Ahead, ToSet
<1>3. ASSUME NEW x \in S
      PROVE  /\ \A i \in DOMAIN q : Ahead(Append(q, x), i) = Ahead(q, i)
             /\ Ahead(Append(q, x), Len(q) + 1) = ToSet(q)
  <2>1. DOMAIN Append(q, x) = 1..(Len(q) + 1) /\ \A i \in DOMAIN q : Append(q, x)[i] = q[i]
    OBVIOUS
  <2>2. ASSUME NEW i \in 1..(Len(q) + 1)
        PROVE  Ahead(Append(q, x), i) = Ahead(q, i)
    <3>1. {k \in DOMAIN Append(q, x) : k < i} = {k \in DOMAIN q : k < i}
      BY <1>1, <2>1
    <3> QED
      BY <2>1, <3>1 DEF Ahead
  <2>3. Ahead(q, Len(q) + 1) = ToSet(q)
    <3>1. {k \in DOMAIN q : k < Len(q) + 1} = DOMAIN q
      BY <1>1
    <3> QED
      BY <3>1 DEF Ahead, ToSet
  <2>4. \A i \in DOMAIN q : i \in 1..(Len(q) + 1)
    BY <1>1
  <2>5. Len(q) + 1 \in 1..(Len(q) + 1)
    BY <1>1
  <2> QED
    BY <2>2, <2>3, <2>4, <2>5
<1>4. ASSUME q # <<>>
      PROVE  /\ Ahead(q, 1) = {}
             /\ \A i \in DOMAIN Tail(q) : Ahead(q, i + 1) \subseteq {Head(q)} \union Ahead(Tail(q), i)
  <2>1. Ahead(q, 1) = {}
    <3>1. {k \in DOMAIN q : k < 1} = {}
      BY <1>1
    <3> QED
      BY <3>1 DEF Ahead
  <2>2. ASSUME NEW i \in DOMAIN Tail(q), NEW k \in DOMAIN q, k < i + 1
        PROVE  q[k] \in {Head(q)} \union Ahead(Tail(q), i)
    <3>1. /\ DOMAIN Tail(q) = 1..(Len(q) - 1) /\ Head(q) = q[1]
          /\ \A j \in 1..(Len(q) - 1) : Tail(q)[j] = q[j + 1]
      BY <1>4
    <3>2. CASE k = 1
      BY <3>1, <3>2
    <3>3. CASE k # 1
      <4>1. k - 1 \in 1..(Len(q) - 1) /\ k - 1 < i /\ (k - 1) + 1 = k
        BY <1>1, <2>2, <3>1, <3>3
      <4>2. Tail(q)[k - 1] = q[k]
        BY <3>1, <4>1
      <4> QED
        BY <3>1, <4>1, <4>2 DEF Ahead
    <3> QED
      BY <3>2, <3>3
  <2> QED
    BY <2>1, <2>2 DEF Ahead
<1> QED
  BY <1>2, <1>3, <1>4

(* Events with rows of their own can be put in the order of these.         *)
LEMMA RowsSort ==
  ASSUME Rows, NEW es \in SUBSET EventIds, NEvents \in Nat, \A e \in es : HasRow(e)
  PROVE  /\ InSeqOrder(es) \in Seq(es) /\ ToSet(InSeqOrder(es)) = es
         /\ \A i, j \in DOMAIN InSeqOrder(es) : i < j => place[InSeqOrder(es)[i]] < place[InSeqOrder(es)[j]]
<1>1. IsFiniteSet(es)
  <2>1. IsFiniteSet(1..NEvents)
    BY FS_Interval
  <2> QED
    BY <2>1, FS_Subset DEF EventIds
<1>2. place \in [EventIds -> Nat] /\ \A e, f \in es : e # f => place[e] # place[f]
  BY DEF Rows, HasRow
<1>3. /\ \E q : q \in InOrder(place, es)
      /\ \A q \in InOrder(place, es) : q \in Seq(es) /\ ToSet(q) = es
  BY <1>1, <1>2, InOrderOf
<1> DEFINE s == InSeqOrder(es)
<1>4. s \in InOrder(place, es)
  BY <1>3 DEF InSeqOrder, InOrder
<1> HIDE DEF s
<1>5. s \in Seq(es) /\ ToSet(s) = es
  BY <1>3, <1>4
<1> QED
  BY <1>4, <1>5 DEF s, InOrder

(* The rows change.                                                        *)
LEMMA RowsMove ==
  ASSUME Rows, NEvents \in Nat, Messages \subseteq 1..NEvents, [ViewersNext]_viewerVars
  PROVE  Rows'
<1>f. IsFiniteSet(EventIds) /\ Cardinality(EventIds) = NEvents
  BY FS_Interval DEF EventIds
<1> DEFINE Begun == {e \in EventIds : stage[e] # "new"}
<1>c. /\ IsFiniteSet(Begun) /\ Cardinality(Begun) \in Nat /\ IsFiniteSet(moved) /\ Cardinality(moved) \in Nat
      /\ nextSeq = 1 + Cardinality(Begun) + Cardinality(moved)
  <2>1. Begun \in SUBSET EventIds /\ moved \in SUBSET EventIds
    BY DEF Rows
  <2>2. IsFiniteSet(Begun) /\ IsFiniteSet(moved)
    BY <2>1, <1>f, FS_Subset
  <2> QED
    BY <2>2, FS_CardinalityType DEF Rows
<1>t. /\ place \in [EventIds -> Nat] /\ nextSeq \in Nat \ {0} /\ moved \subseteq EventIds
      /\ stage \in [EventIds -> {"new", "stored", "published"}]
      /\ \A e \in EventIds : place[e] \in Nat /\ place[e] < nextSeq /\ (stage[e] = "new" => place[e] = 0)
      /\ \A e, f \in EventIds : place[e] # 0 /\ e # f => place[e] # place[f]
  BY DEF Rows
<1>1. ASSUME NEW x \in EventIds, place' = [place EXCEPT ![x] = nextSeq], nextSeq' = nextSeq + 1
      PROVE  /\ place' \in [EventIds -> Nat] /\ nextSeq' \in Nat \ {0} /\ place'[x] = nextSeq
             /\ \A e \in EventIds : e # x => place'[e] = place[e]
             /\ \A e \in EventIds : place'[e] < nextSeq'
             /\ \A e, f \in EventIds : place'[e] # 0 /\ e # f => place'[e] # place'[f]
  <2>1. place' \in [EventIds -> Nat] /\ nextSeq' \in Nat \ {0} /\ place'[x] = nextSeq
    BY <1>1, <1>t
  <2>2. \A e \in EventIds : e # x => place'[e] = place[e]
    BY <1>1, <1>t
  <2>3. \A e \in EventIds : place'[e] < nextSeq'
    BY <1>1, <1>t, <2>1, <2>2
  <2>4. \A e \in EventIds : place[e] # nextSeq
    BY <1>t
  <2>5. \A e, f \in EventIds : place'[e] # 0 /\ e # f => place'[e] # place'[f]
    BY <2>1, <2>2, <2>4, <1>t
  <2> QED
    BY <2>1, <2>2, <2>3, <2>5
<1>2. ASSUME NEW x \in EventIds, StoreEvent(x) PROVE Rows'
  <2>1. /\ stage[x] = "new" /\ place' = [place EXCEPT ![x] = nextSeq] /\ nextSeq' = nextSeq + 1
        /\ stage' = [stage EXCEPT ![x] = "stored"] /\ moved' = moved
    BY <1>2 DEF StoreEvent
  <2>2. /\ stage' \in [EventIds -> {"new", "stored", "published"}] /\ stage'[x] = "stored"
        /\ \A e \in EventIds : e # x => stage'[e] = stage[e]
    BY <2>1, <1>t
  <2>3. {e \in EventIds : stage'[e] # "new"} = Begun \union {x} /\ x \notin Begun
    BY <2>1, <2>2
  <2>4. Cardinality(Begun \union {x}) = Cardinality(Begun) + 1
    BY <1>c, <2>3, FS_AddElement
  <2>5. nextSeq' = 1 + Cardinality({e \in EventIds : stage'[e] # "new"}) + Cardinality(moved)
    <3> HIDE DEF Begun
    <3>1. Cardinality({e \in EventIds : stage'[e] # "new"}) = Cardinality(Begun) + 1
      BY <2>3, <2>4
    <3> QED
      BY <2>1, <3>1, <1>c
  <2>6. \A e \in EventIds : stage'[e] = "new" => place'[e] = 0
    BY <2>1, <2>2, <1>1, <1>t
  <2> QED
    BY <2>1, <2>2, <2>5, <2>6, <1>1, <1>t DEF Rows
<1>3. ASSUME NEW x \in EventIds, MoveMessage(x) PROVE Rows'
  <2>1. /\ x \in Messages \ moved /\ stage[x] = "published" /\ place' = [place EXCEPT ![x] = nextSeq]
        /\ nextSeq' = nextSeq + 1 /\ moved' = moved \union {x} /\ stage' = stage
    BY <1>3 DEF MoveMessage
  <2>2. Cardinality(moved \union {x}) = Cardinality(moved) + 1
    BY <1>c, <2>1, FS_AddElement
  <2>3. nextSeq' = 1 + Cardinality({e \in EventIds : stage'[e] # "new"}) + Cardinality(moved')
    <3>1. {e \in EventIds : stage'[e] # "new"} = Begun
      BY <2>1
    <3>2. nextSeq' = nextSeq + 1 /\ moved' = moved \union {x}
      BY <2>1
    <3>3. Cardinality(moved') = Cardinality(moved) + 1
      BY <2>2, <3>2
    <3>4. nextSeq' = 1 + Cardinality(Begun) + Cardinality(moved')
      <4> HIDE DEF Begun
      <4> QED
        BY <3>2, <3>3, <1>c
    <3> QED
      BY <3>1, <3>4
  <2>4. \A e \in EventIds : stage'[e] = "new" => place'[e] = 0
    BY <2>1, <1>1, <1>t
  <2>5. moved' \subseteq EventIds
    BY <2>1, <1>t
  <2> QED
    BY <2>1, <2>3, <2>4, <2>5, <1>1, <1>t DEF Rows
<1>4. ASSUME NEW x \in EventIds, TruncateThread(x) PROVE Rows'
  <2>1. place' = [e \in EventIds |-> IF place[e] < place[x] THEN place[e] ELSE 0] /\ UNCHANGED <<nextSeq, stage, moved>>
    BY <1>4 DEF TruncateThread
  <2>2. /\ place' \in [EventIds -> Nat] /\ \A e \in EventIds : place'[e] = place[e] \/ place'[e] = 0
    BY <2>1, <1>t
  <2>3. \A e \in EventIds : place'[e] < nextSeq /\ (stage[e] = "new" => place'[e] = 0)
    BY <2>2, <1>t
  <2>4. \A e, f \in EventIds : place'[e] # 0 /\ e # f => place'[e] # place'[f]
    BY <2>2, <1>t
  <2>5. nextSeq' = 1 + Cardinality({e \in EventIds : stage'[e] # "new"}) + Cardinality(moved')
    BY <2>1 DEF Rows
  <2> QED
    BY <2>1, <2>2, <2>3, <2>4, <2>5, <1>t DEF Rows
<1>5. ASSUME NEW x \in EventIds, PublishEvent(x) PROVE Rows'
  <2>1. /\ stage[x] = "stored" /\ stage' = [stage EXCEPT ![x] = "published"] /\ UNCHANGED <<nextSeq, place, moved>>
    BY <1>5 DEF PublishEvent
  <2>2. /\ stage' \in [EventIds -> {"new", "stored", "published"}]
        /\ \A e \in EventIds : stage'[e] = "new" <=> stage[e] = "new"
    BY <2>1, <1>t
  <2>3. {e \in EventIds : stage'[e] # "new"} = Begun
    BY <2>2
  <2>4. nextSeq' = 1 + Cardinality({e \in EventIds : stage'[e] # "new"}) + Cardinality(moved')
    BY <2>1, <2>3 DEF Rows
  <2> QED
    BY <2>1, <2>2, <2>4, <1>t DEF Rows
<1>6. CASE UNCHANGED <<place, nextSeq, moved, stage>>
  <2>1. nextSeq' = 1 + Cardinality({e \in EventIds : stage'[e] # "new"}) + Cardinality(moved')
    BY <1>6 DEF Rows
  <2> QED
    BY <1>6, <2>1, <1>t DEF Rows
<1>7. StreamMoves \/ DropStream \/ UNCHANGED viewerVars => UNCHANGED <<place, nextSeq, moved, stage>>
  BY DEF StreamMoves, PublishReset, OpenStream, FindAnchor, ReplayRows, Follow, Overflowed, ReadEvent, ReadReset,
         StreamFails, DropStream, emitVars, viewerVars
<1> QED
  BY <1>2, <1>3, <1>4, <1>5, <1>6, <1>7 DEF ViewersNext

(* The places of rows are numbers below the next one.                      *)
LEMMA SeqBound ==
  ASSUME Rows, NEvents \in Nat
  PROVE  nextSeq \in 1..2 * NEvents + 1 /\ place \in [EventIds -> 0..2 * NEvents]
<1>1. IsFiniteSet(EventIds) /\ Cardinality(EventIds) = NEvents
  BY FS_Interval DEF EventIds
<1>2. ASSUME NEW T \in SUBSET EventIds PROVE Cardinality(T) \in Nat /\ Cardinality(T) <= NEvents
  BY <1>1, FS_Subset, FS_CardinalityType
<1>3. \E a, b \in 0..NEvents : nextSeq = 1 + a + b
  <2>1. {e \in EventIds : stage[e] # "new"} \in SUBSET EventIds /\ moved \in SUBSET EventIds
    BY DEF Rows
  <2> DEFINE a == Cardinality({e \in EventIds : stage[e] # "new"})
             b == Cardinality(moved)
  <2>2. a \in Nat /\ b \in Nat /\ a <= NEvents /\ b <= NEvents
    BY <2>1, <1>2
  <2>3. nextSeq = 1 + a + b
    BY DEF Rows
  <2> HIDE DEF a, b
  <2> QED
    BY <2>2, <2>3
<1>4. nextSeq \in 1..2 * NEvents + 1
  BY <1>3
<1>5. ASSUME NEW e \in EventIds PROVE place[e] \in 0..2 * NEvents
  <2>1. place[e] \in Nat /\ place[e] < nextSeq
    BY DEF Rows
  <2> QED
    BY <2>1, <1>4
<1>6. place \in [EventIds -> Nat]
  BY DEF Rows
<1> QED
  BY <1>4, <1>5, <1>6

(* What leads an event still leads it when rows come, move and go.         *)
LEMMA LedStays ==
  ASSUME Rows, Messages \subseteq EventIds, NEW m \in EventIds,
         StoreEvent(m) \/ PublishEvent(m) \/ MoveMessage(m) \/ TruncateThread(m)
  PROVE  /\ Excused \subseteq Excused'
         /\ \A x, S : (x = Reset \/ (x \in EventIds /\ stage[x] # "new")) /\ Led(x, S, place, Excused)
                     => Led(x, S, place', Excused')
<1>t. /\ place \in [EventIds -> Nat] /\ nextSeq \in Nat \ {0} /\ moved \subseteq EventIds
      /\ \A e \in EventIds : place[e] \in Nat /\ place[e] < nextSeq /\ (stage[e] = "new" => place[e] = 0)
      /\ \A e, f \in EventIds : place[e] # 0 /\ e # f => place[e] # place[f]
  BY DEF Rows
<1>1. Excused \subseteq Excused'
  BY DEF StoreEvent, PublishEvent, MoveMessage, TruncateThread, Excused
<1> SUFFICES ASSUME NEW x \in EventIds, NEW S, stage[x] # "new", Led(x, S, place, Excused), x # Reset, place'[x] # 0,
                    NEW e \in EventIds, place'[e] # 0, place'[e] < place'[x]
             PROVE  e \in S \union Excused'
  BY <1>1 DEF Led
<1>2. CASE place'[x] = place[x] /\ place'[e] = place[e]
  BY <1>1, <1>2 DEF Led
<1>3. CASE StoreEvent(m)
  <2>1. stage[m] = "new" /\ place' = [place EXCEPT ![m] = nextSeq]
    BY <1>3 DEF StoreEvent
  <2>2. x # m /\ place'[x] = place[x]
    BY <2>1, <1>t
  <2>3. e # m
    BY <2>1, <2>2, <1>t
  <2> QED
    BY <2>1, <2>2, <2>3, <1>2, <1>t
<1>4. CASE PublishEvent(m)
  BY <1>2, <1>4 DEF PublishEvent
<1>5. CASE MoveMessage(m)
  <2>1. /\ place[m] # 0 /\ place' = [place EXCEPT ![m] = nextSeq]
        /\ passed' = passed \union {f \in EventIds : place[f] > place[m]}
    BY <1>5 DEF MoveMessage, HasRow
  <2>2. e # m
    <3>1. CASE x = m
      BY <3>1, <2>1, <1>t
    <3>2. CASE x # m
      BY <3>2, <2>1, <1>t
    <3> QED
      BY <3>1, <3>2
  <2>3. place'[e] = place[e]
    BY <2>1, <2>2, <1>t
  <2>4. CASE x = m
    <3>1. place[e] # place[m] /\ place[e] \in Nat /\ place[m] \in Nat
      BY <2>1, <2>2, <1>t
    <3>2. CASE place[e] > place[m]
      BY <3>2, <2>1 DEF Excused
    <3>3. CASE place[e] < place[m]
      BY <3>3, <2>1, <2>3, <2>4, <1>1 DEF Led
    <3> QED
      BY <3>1, <3>2, <3>3
  <2>5. CASE x # m
    BY <2>1, <2>3, <2>5, <1>2, <1>t
  <2> QED
    BY <2>4, <2>5
<1>6. CASE TruncateThread(m)
  <2>1. place' = [f \in EventIds |-> IF place[f] < place[m] THEN place[f] ELSE 0]
    BY <1>6 DEF TruncateThread
  <2> QED
    BY <2>1, <1>2
<1> QED
  BY <1>3, <1>4, <1>5, <1>6

(* The stream, but for what the rows have to do with it.                   *)
LEMMA StreamFacts ==
  ASSUME StreamKnows, NEvents \in Nat
  PROVE  /\ thread \in Seq(EventIds) /\ wire \in Seq(0..NEvents) /\ bus \in Seq(0..NEvents)
         /\ EventIds \subseteq 0..NEvents /\ Reset \notin EventIds /\ Reset \in 0..NEvents
         /\ \A x \in 0..NEvents : x = Reset \/ x \in EventIds
         /\ \A x \in ToSet(thread) : x \in EventIds /\ stage[x] # "new"
         /\ \A i \in DOMAIN thread : thread[i] \in ToSet(thread)
         /\ \A i \in DOMAIN wire : wire[i] \in ToSet(wire) /\ (wire[i] = Reset \/ (wire[i] \in EventIds /\ stage[wire[i]] # "new"))
         /\ \A i \in DOMAIN bus : bus[i] \in ToSet(bus) /\ (bus[i] = Reset \/ (bus[i] \in EventIds /\ stage[bus[i]] # "new"))
         /\ ToSet(thread) \subseteq EventIds /\ ToSet(wire) \subseteq 0..NEvents /\ ToSet(bus) \subseteq 0..NEvents
<1>1. thread \in Seq(EventIds) /\ wire \in Seq(0..NEvents) /\ bus \in Seq(0..NEvents)
  BY DEF StreamKnows
<1>2. ToSet(thread) \subseteq EventIds /\ ToSet(wire) \subseteq 0..NEvents /\ ToSet(bus) \subseteq 0..NEvents
  BY <1>1, ElementsOf
<1>3. /\ EventIds \subseteq 0..NEvents /\ Reset \notin EventIds /\ Reset \in 0..NEvents
      /\ \A x \in 0..NEvents : x = Reset \/ x \in EventIds
  BY DEF EventIds, Reset
<1>4. /\ \A i \in DOMAIN thread : thread[i] \in ToSet(thread)
      /\ \A i \in DOMAIN wire : wire[i] \in ToSet(wire)
      /\ \A i \in DOMAIN bus : bus[i] \in ToSet(bus)
  BY DEF ToSet
<1>5. \A e \in ToSet(thread) \union (UnderWay \ {Reset}) : stage[e] # "new"
  BY DEF StreamKnows
<1>6. \A x \in ToSet(wire) \union ToSet(bus) : x = Reset \/ (x \in EventIds /\ stage[x] # "new")
  BY <1>2, <1>3, <1>5 DEF UnderWay
<1> QED
  BY <1>1, <1>2, <1>3, <1>4, <1>5, <1>6

StreamsKept == Rows /\ StreamKnows /\ NothingSkipped /\ ResetComes

ViewersInv == StreamsKept /\ ShownInOrder

(* A row that is stored, moved or truncated leaves every list of the       *)
(* stream led.                                                             *)
LEMMA RowsComeAndGo ==
  ASSUME StreamsKept, NEvents \in Nat, Messages \subseteq EventIds, Rows', NEW m \in EventIds,
         StoreEvent(m) \/ MoveMessage(m) \/ TruncateThread(m)
  PROVE  StreamKnows' /\ NothingSkipped' /\ ResetComes'
<1>t. /\ place \in [EventIds -> Nat] /\ nextSeq \in Nat \ {0} /\ stage \in [EventIds -> {"new", "stored", "published"}]
      /\ \A e \in EventIds : place[e] \in Nat /\ place[e] < nextSeq /\ (stage[e] = "new" => place[e] = 0)
  BY DEF Rows, StreamsKept
<1>s. Rows /\ StreamKnows /\ NothingSkipped /\ ResetComes
  BY DEF StreamsKept
<1>u. UNCHANGED <<sub, bus, relay, anchor, sentIds, wire, thread, missed, late>>
  BY DEF StoreEvent, MoveMessage, TruncateThread
<1>l. /\ Excused \subseteq Excused'
      /\ \A x, S : (x = Reset \/ (x \in EventIds /\ stage[x] # "new")) /\ Led(x, S, place, Excused)
                  => Led(x, S, place', Excused')
  BY <1>s, LedStays
<1>1. \A e \in EventIds : stage[e] # "new" => stage'[e] # "new"
  BY <1>t DEF StoreEvent, MoveMessage, TruncateThread
<1>2. nextSeq' \in Nat /\ nextSeq' >= nextSeq
  BY <1>t DEF StoreEvent, MoveMessage, TruncateThread
<1>3. \A e \in EventIds : \/ place'[e] = place[e]
                          \/ place'[e] = 0 /\ cutting'
                          \/ place'[e] = nextSeq /\ ((stage[e] = "new" /\ stage'[e] = "stored") \/ place[e] # 0)
  <2>1. CASE StoreEvent(m)
    BY <2>1, <1>t DEF StoreEvent
  <2>2. CASE MoveMessage(m)
    BY <2>2, <1>t DEF MoveMessage, HasRow
  <2>3. CASE TruncateThread(m)
    <3>1. cutting' /\ place' = [e \in EventIds |-> IF place[e] < place[m] THEN place[e] ELSE 0]
      BY <2>3 DEF TruncateThread
    <3> QED
      BY <3>1
  <2> QED
    BY <2>1, <2>2, <2>3
<1>4. \A e \in EventIds : stage'[e] = "published" => stage[e] = "published"
  BY <1>t DEF StoreEvent, MoveMessage, TruncateThread
<1>5. cutting => cutting'
  BY DEF StoreEvent, MoveMessage, TruncateThread
<1>6. StreamKnows'
  <2>1. anchor \in Nat /\ anchor < nextSeq'
    BY <1>s, <1>2, <1>t DEF StreamKnows
  <2>2. UnderWay' = UnderWay
    BY <1>u DEF UnderWay
  <2>3. \A e \in ToSet(thread) \union (UnderWay \ {Reset}) : stage'[e] # "new"
    <3>1. \A e \in ToSet(thread) \union (UnderWay \ {Reset}) : e \in EventIds /\ stage[e] # "new"
      BY <1>s, StreamFacts DEF UnderWay, StreamKnows
    <3> QED
      BY <1>1, <3>1
  <2> QED
    BY <1>s, <1>u, <2>1, <2>2, <2>3 DEF StreamKnows
<1>7. ThreadLed'
  <2>1. \A x \in ToSet(thread) : Led(x, ToSet(thread), place', Excused')
    BY <1>s, <1>l, StreamFacts DEF NothingSkipped, ThreadLed
  <2> QED
    BY <2>1, <1>u DEF ThreadLed
<1>8. WireLed'
  <2>1. \A i \in DOMAIN wire : Led(wire[i], ToSet(thread) \union Ahead(wire, i), place', Excused')
    BY <1>s, <1>l, StreamFacts DEF NothingSkipped, WireLed
  <2> QED
    BY <2>1, <1>u DEF WireLed
<1>9. BusLed'
  <2>1. relay = "live" => \A i \in DOMAIN bus :
          Led(bus[i], ToSet(thread) \union ToSet(wire) \union Ahead(bus, i), place', Excused')
    BY <1>s, <1>l, StreamFacts DEF NothingSkipped, BusLed
  <2> QED
    BY <2>1, <1>u DEF BusLed
<1>10. AnchorLed'
  <2> SUFFICES ASSUME relay = "anchored", NEW e \in EventIds, place'[e] # 0, place'[e] <= anchor
               PROVE  e \in ToSet(thread) \union Excused'
    BY <1>u DEF AnchorLed
  <2>1. anchor \in Nat /\ anchor < nextSeq
    BY <1>s DEF StreamKnows
  <2>2. place'[e] = place[e]
    BY <2>1, <1>3, <1>t
  <2>3. e \in ToSet(thread) \union Excused
    BY <2>2, <1>s DEF NothingSkipped, AnchorLed
  <2> QED
    BY <2>3, <1>l
<1>11. AllComes'
  <2> SUFFICES ASSUME relay = "live", sub = "in", NEW e \in EventIds, place'[e] # 0, stage'[e] = "published"
               PROVE  e \in ToSet(thread) \union UnderWay \union Excused'
    BY <1>u DEF AllComes, UnderWay
  <2>1. place[e] # 0 /\ stage[e] = "published"
    BY <1>3, <1>4
  <2>2. e \in ToSet(thread) \union UnderWay \union Excused
    BY <2>1, <1>s DEF NothingSkipped, AllComes
  <2> QED
    BY <2>2, <1>l
<1>12. ResetComes'
  <2> SUFFICES ASSUME NEW e \in ToSet(thread) \union (UnderWay \ {Reset})
               PROVE  place'[e] # 0 \/ e \in late \/ cutting' \/ missed \/ Reset \in UnderWay
    BY <1>u DEF ResetComes, UnderWay
  <2>1. e \in EventIds
    BY <1>s, StreamFacts DEF UnderWay
  <2>2. place[e] # 0 \/ e \in late \/ cutting \/ missed \/ Reset \in UnderWay
    BY <1>s DEF ResetComes
  <2> QED
    BY <2>1, <2>2, <1>3, <1>5, <1>t
<1> QED
  BY <1>6, <1>7, <1>8, <1>9, <1>10, <1>11, <1>12 DEF NothingSkipped

(* An event that is offered is taken, dropped with the subscriber, or      *)
(* nobody is there.                                                        *)
LEMMA OfferTaken ==
  ASSUME NEW ev, Offer(ev)
  PROVE  \/ sub = "in" /\ bus' = Append(bus, ev) /\ sub' = sub /\ Len(bus) # BusCap
         \/ bus' = bus /\ sub' # "in" /\ (sub' = sub \/ (sub = "in" /\ sub' = "cut"))
BY DEF Offer

(* An event or a reset reaches the subscriber.                             *)
LEMMA OfferComes ==
  ASSUME StreamsKept, NEvents \in Nat, BusCap \in Nat, NEW ev \in 0..NEvents, Offer(ev),
         UNCHANGED <<nextSeq, place, relay, anchor, sentIds, wire, thread>>,
         Excused \subseteq Excused', \A e \in EventIds : stage[e] # "new" => stage'[e] # "new",
         ev # Reset => /\ stage[ev] # "new"
                       /\ \A e \in EventIds : place[e] # 0 /\ place[e] < place[ev] /\ stage[e] = "stored" => e \in Excused',
         \A e \in EventIds : stage'[e] = "published" => stage[e] = "published" \/ e = ev,
         stage \in [EventIds -> {"new", "stored", "published"}]
  PROVE  StreamKnows' /\ NothingSkipped'
<1>s. Rows /\ StreamKnows /\ NothingSkipped
  BY DEF StreamsKept
<1>f. /\ bus \in Seq(0..NEvents) /\ DOMAIN bus = 1..Len(bus) /\ Len(bus) \in Nat /\ Len(bus) <= BusCap
  <2>1. bus \in Seq(0..NEvents) /\ Len(bus) <= BusCap
    BY <1>s DEF StreamKnows
  <2> QED
    BY <2>1
<1>o. \/ /\ sub = "in" /\ bus' = Append(bus, ev) /\ sub' = sub /\ Len(bus) # BusCap
         /\ bus' \in Seq(0..NEvents) /\ ToSet(bus') = ToSet(bus) \union {ev} /\ Len(bus') = Len(bus) + 1
         /\ DOMAIN bus' = 1..(Len(bus) + 1)
         /\ \A i \in DOMAIN bus : bus'[i] = bus[i]
         /\ bus'[Len(bus) + 1] = ev
      \/ bus' = bus /\ sub' # "in" /\ (sub' = sub \/ (sub = "in" /\ sub' = "cut"))
  <2> DEFINE S == 0..NEvents
             q == Append(bus, ev)
  <2>1. bus \in Seq(S) /\ ev \in S
    BY <1>f
  <2> HIDE DEF S
  <2>2. /\ q \in Seq(S) /\ ToSet(q) = ToSet(bus) \union {ev} /\ Len(q) = Len(bus) + 1
        /\ DOMAIN q = 1..(Len(bus) + 1)
    BY <2>1, AppendedIs
  <2>3. (\A i \in DOMAIN bus : q[i] = bus[i]) /\ q[Len(bus) + 1] = ev
    BY <2>1
  <2> HIDE DEF q
  <2>4. \/ sub = "in" /\ bus' = q /\ sub' = sub /\ Len(bus) # BusCap
        \/ bus' = bus /\ sub' # "in" /\ (sub' = sub \/ (sub = "in" /\ sub' = "cut"))
    BY OfferTaken DEF q
  <2>5. CASE sub = "in" /\ bus' = q /\ sub' = sub /\ Len(bus) # BusCap
    BY <2>2, <2>3, <2>5 DEF q, S
  <2> QED
    BY <2>4, <2>5
<1>1. /\ bus' \in Seq(0..NEvents) /\ Len(bus') <= BusCap /\ ToSet(bus) \subseteq ToSet(bus')
      /\ ToSet(bus') \subseteq ToSet(bus) \union {ev} /\ (bus' # bus => sub = "in") /\ (sub' = "none" <=> sub = "none")
      /\ sub' \in {"none", "in", "cut"} /\ (sub' = "in" => sub = "in" /\ ev \in ToSet(bus'))
  <2>1. sub \in {"none", "in", "cut"}
    BY <1>s DEF StreamKnows
  <2>2. CASE bus' = bus /\ sub' # "in" /\ (sub' = sub \/ (sub = "in" /\ sub' = "cut"))
    BY <1>f, <2>1, <2>2
  <2>3. CASE /\ sub = "in" /\ sub' = sub /\ Len(bus) # BusCap
             /\ bus' \in Seq(0..NEvents) /\ ToSet(bus') = ToSet(bus) \union {ev} /\ Len(bus') = Len(bus) + 1
    <3>1. Len(bus') <= BusCap
      <4>1. Len(bus) \in Nat /\ Len(bus) <= BusCap /\ Len(bus) # BusCap /\ Len(bus') = Len(bus) + 1
        BY <1>f, <2>3
      <4> QED
        BY <4>1
    <3>2. (sub' = "none" <=> sub = "none") /\ sub' \in {"none", "in", "cut"}
      BY <2>1, <2>3
    <3> QED
      BY <2>3, <3>1, <3>2
  <2> QED
    BY <1>o, <2>2, <2>3
<1>2. UnderWay \subseteq UnderWay' /\ UnderWay' \subseteq UnderWay \union {ev}
  BY <1>1 DEF UnderWay
<1>3. StreamKnows'
  <2>1. \A e \in ToSet(thread) \union (UnderWay' \ {Reset}) : stage'[e] # "new"
    <3>1. \A e \in ToSet(thread) \union (UnderWay \ {Reset}) : e \in EventIds /\ stage[e] # "new"
      BY <1>s, StreamFacts DEF UnderWay, StreamKnows
    <3>2. ev # Reset => ev \in EventIds
      BY DEF EventIds, Reset
    <3> QED
      BY <1>2, <3>1, <3>2
  <2>2. /\ relay = "off" => sub' = "none" /\ bus' = <<>> /\ wire = <<>>
        /\ relay \in {"subscribed", "anchored"} => sub' # "none" /\ wire = <<>>
        /\ relay = "live" => sub' # "none" /\ sentIds \subseteq ToSet(thread) \union ToSet(wire)
        /\ relay = "over" => sub' = "none" /\ bus' = <<>>
    BY <1>s, <1>1 DEF StreamKnows
  <2> QED
    BY <1>s, <1>1, <2>1, <2>2 DEF StreamKnows
<1>4. ThreadLed' /\ WireLed'
  <2>1. \A x, S : Led(x, S, place, Excused) => Led(x, S, place, Excused')
    BY DEF Led
  <2> QED
    BY <1>s, <2>1 DEF NothingSkipped, ThreadLed, WireLed
<1>5. BusLed'
  <2> SUFFICES ASSUME relay = "live", NEW i \in DOMAIN bus'
               PROVE  Led(bus'[i], ToSet(thread) \union ToSet(wire) \union Ahead(bus', i), place, Excused')
    BY DEF BusLed
  <2>1. CASE i \in DOMAIN bus
    <3>1. bus'[i] = bus[i] /\ Ahead(bus', i) = Ahead(bus, i)
      <4>1. CASE bus' = bus
        BY <4>1
      <4>2. CASE bus' = Append(bus, ev) /\ \A k \in DOMAIN bus : bus'[k] = bus[k]
        <5>1. Ahead(Append(bus, ev), i) = Ahead(bus, i)
          BY <2>1, <1>f, AheadOf
        <5> QED
          BY <4>2, <5>1, <2>1
      <4> QED
        BY <1>o, <4>1, <4>2
    <3>2. Led(bus[i], ToSet(thread) \union ToSet(wire) \union Ahead(bus, i), place, Excused)
      BY <1>s, <2>1 DEF NothingSkipped, BusLed
    <3> QED
      BY <3>1, <3>2 DEF Led
  <2>2. CASE i \notin DOMAIN bus
    <3>1. sub = "in" /\ i = Len(bus) + 1 /\ bus'[i] = ev /\ bus' = Append(bus, ev)
      <4>1. bus' # bus
        BY <2>2
      <4>2. /\ sub = "in" /\ bus' = Append(bus, ev) /\ DOMAIN bus' = 1..(Len(bus) + 1) /\ bus'[Len(bus) + 1] = ev
        BY <1>o, <4>1
      <4>3. i = Len(bus) + 1
        BY <1>f, <2>2, <4>2
      <4> QED
        BY <4>2, <4>3
    <3>2. Ahead(bus', i) = ToSet(bus)
      BY <3>1, <1>f, AheadOf
    <3>3. ASSUME NEW e \in EventIds, ev # Reset, place[e] # 0, place[e] < place[ev]
          PROVE  e \in ToSet(thread) \union UnderWay \union Excused'
      <4>1. CASE stage[e] = "stored"
        BY <3>3, <4>1
      <4>2. CASE stage[e] = "published"
        BY <3>1, <3>3, <4>2, <1>s DEF NothingSkipped, AllComes
      <4>3. stage[e] # "new"
        BY <3>3, <1>s DEF Rows
      <4> QED
        BY <4>1, <4>2, <4>3
    <3> QED
      BY <3>1, <3>2, <3>3 DEF Led, UnderWay
  <2> QED
    BY <2>1, <2>2
<1>6. AnchorLed'
  BY <1>s DEF NothingSkipped, AnchorLed
<1>7. AllComes'
  <2> SUFFICES ASSUME relay = "live", sub' = "in", NEW e \in EventIds, place[e] # 0, stage'[e] = "published"
               PROVE  e \in ToSet(thread) \union UnderWay' \union Excused'
    BY DEF AllComes
  <2>1. CASE e = ev
    BY <1>1, <2>1 DEF UnderWay
  <2>2. CASE stage[e] = "published"
    BY <1>s, <1>1, <1>2, <2>2 DEF NothingSkipped, AllComes
  <2> QED
    BY <2>1, <2>2
<1> QED
  BY <1>3, <1>4, <1>5, <1>6, <1>7 DEF NothingSkipped

(* An event that is published is on the bus for a stream that lacks it.    *)
LEMMA EventPublished ==
  ASSUME StreamsKept, NEvents \in Nat, BusCap \in Nat, NEW m \in EventIds, PublishEvent(m)
  PROVE  StreamKnows' /\ NothingSkipped' /\ ResetComes'
<1>s. Rows /\ StreamKnows /\ NothingSkipped /\ ResetComes /\ stage \in [EventIds -> {"new", "stored", "published"}]
  BY DEF StreamsKept, Rows
<1>1. /\ stage[m] = "stored" /\ Offer(m) /\ stage' = [stage EXCEPT ![m] = "published"]
      /\ overtaken' = overtaken \union {f \in EventIds : stage[f] = "stored" /\ HasRow(f) /\ place[f] < place[m]}
      /\ late' = (IF HasRow(m) THEN late ELSE late \union {m})
      /\ UNCHANGED <<place, nextSeq, cutting, relay, anchor, sentIds, wire, thread, passed, missed>>
  BY DEF PublishEvent
<1>2. m \in 0..NEvents /\ m # Reset
  BY <1>s, StreamFacts
<1>3. Excused \subseteq Excused'
  BY <1>1 DEF Excused
<1>4. /\ \A e \in EventIds : stage[e] # "new" => stage'[e] # "new"
      /\ \A e \in EventIds : stage'[e] = "published" => stage[e] = "published" \/ e = m
  BY <1>1, <1>s
<1>5. \A e \in EventIds : place[e] # 0 /\ place[e] < place[m] /\ stage[e] = "stored" => e \in Excused'
  BY <1>1 DEF Excused, HasRow
<1>6. StreamKnows' /\ NothingSkipped'
  BY <1>1, <1>2, <1>3, <1>4, <1>5, <1>s, OfferComes
<1>7. ResetComes'
  <2>1. bus' \in {bus, Append(bus, m)} /\ ToSet(bus) \subseteq ToSet(bus') /\ ToSet(bus') \subseteq ToSet(bus) \union {m}
    <3>1. bus' = bus \/ bus' = Append(bus, m)
      BY <1>1, OfferTaken
    <3>2. ToSet(Append(bus, m)) = ToSet(bus) \union {m}
      <4> DEFINE S == 0..NEvents
      <4>1. m \in S /\ bus \in Seq(S)
        BY <1>2, <1>s DEF StreamKnows
      <4> HIDE DEF S
      <4> QED
        BY <4>1, AppendedIs
    <3> QED
      BY <3>1, <3>2
  <2>2. UnderWay \subseteq UnderWay' /\ UnderWay' \subseteq UnderWay \union {m}
    BY <1>1, <2>1 DEF UnderWay
  <2>3. place[m] # 0 \/ m \in late'
    BY <1>1 DEF HasRow
  <2>4. late \subseteq late'
    BY <1>1
  <2> QED
    BY <1>1, <1>s, <2>2, <2>3, <2>4 DEF ResetComes
<1> QED
  BY <1>6, <1>7

(* A reset that is published is on the bus behind what came before it.     *)
LEMMA ResetPublished ==
  ASSUME StreamsKept, NEvents \in Nat, BusCap \in Nat, PublishReset
  PROVE  StreamKnows' /\ NothingSkipped' /\ ResetComes'
<1>s. Rows /\ StreamKnows /\ NothingSkipped /\ ResetComes /\ stage \in [EventIds -> {"new", "stored", "published"}]
  BY DEF StreamsKept, Rows
<1>1. /\ Offer(Reset) /\ (Len(bus') = Len(bus) /\ (relay # "off" \/ thread # <<>>) => missed') /\ (missed => missed')
      /\ UNCHANGED <<place, nextSeq, stage, relay, anchor, sentIds, wire, thread, overtaken, passed, late>>
  BY DEF PublishReset
<1>2. Reset \in 0..NEvents /\ Excused \subseteq Excused'
  BY <1>1, <1>s, StreamFacts DEF Excused
<1>3. StreamKnows' /\ NothingSkipped'
  BY <1>1, <1>2, <1>s, OfferComes
<1>4. ResetComes'
  <2> SUFFICES ASSUME NEW e \in ToSet(thread) \union (UnderWay' \ {Reset})
               PROVE  place[e] # 0 \/ e \in late \/ missed' \/ Reset \in UnderWay'
    BY <1>1 DEF ResetComes
  <2>1. CASE bus' = Append(bus, Reset)
    <3>1. ToSet(Append(bus, Reset)) = ToSet(bus) \union {Reset}
      BY SMTT(30), <1>2, <1>s, AppendedIs DEF StreamKnows
    <3> QED
      BY <2>1, <3>1 DEF UnderWay
  <2>2. CASE bus' = bus
    <3>1. CASE relay # "off" \/ thread # <<>>
      BY <1>1, <2>2, <3>1
    <3>2. CASE relay = "off" /\ thread = <<>>
      <4>1. bus' = <<>> /\ wire' = <<>> /\ thread = <<>>
        BY <1>1, <1>s, <2>2, <3>2 DEF StreamKnows
      <4>2. ToSet(thread) = {} /\ UnderWay' = {}
        BY <4>1 DEF ToSet, UnderWay
      <4> QED
        BY <4>2
    <3> QED
      BY <3>1, <3>2
  <2> QED
    BY <1>1, <2>1, <2>2, OfferTaken
<1> QED
  BY <1>3, <1>4

(* A stream that opens, replays or is cut off by the bus knows what it     *)
(* lacks.                                                                  *)
LEMMA StreamRuns ==
  ASSUME StreamsKept, NEvents \in Nat, BusCap \in Nat, OpenStream \/ FindAnchor \/ ReplayRows \/ Overflowed
  PROVE  StreamKnows' /\ NothingSkipped' /\ ResetComes'
<1>s. Rows /\ StreamKnows /\ NothingSkipped /\ ResetComes
  BY DEF StreamsKept
<1>r. /\ place \in [EventIds -> Nat] /\ nextSeq \in Nat \ {0}
      /\ \A e \in EventIds : place[e] \in Nat /\ place[e] < nextSeq /\ (stage[e] = "new" => place[e] = 0)
      /\ \A e, f \in EventIds : place[e] # 0 /\ e # f => place[e] # place[f]
  BY <1>s DEF Rows
<1>u. UNCHANGED <<place, nextSeq, stage, cutting, overtaken, passed, late, thread, missed>> /\ Excused' = Excused
  BY DEF OpenStream, FindAnchor, ReplayRows, Overflowed, emitVars, Excused
<1>e. ToSet(<<>>) = {} /\ DOMAIN <<>> = {} /\ (\A S : <<>> \in Seq(S)) /\ Len(<<>>) = 0
  BY DEF ToSet
<1>1. CASE OpenStream
  <2>1. relay = "off" /\ relay' = "subscribed" /\ sub' = "in" /\ bus' = <<>> /\ sentIds' = {} /\ wire' = <<>> /\ anchor' = anchor
    BY <1>1 DEF OpenStream
  <2>2. bus = <<>> /\ wire = <<>>
    BY <2>1, <1>s DEF StreamKnows
  <2>3. UnderWay' = {}
    BY <2>1, <1>e DEF UnderWay
  <2>4. StreamKnows'
    BY <1>s, <1>u, <1>e, <2>1, <2>2, <2>3 DEF StreamKnows
  <2>5. NothingSkipped'
    BY <1>s, <1>u, <1>e, <2>1, <2>2 DEF NothingSkipped, ThreadLed, WireLed, BusLed, AnchorLed, AllComes
  <2>6. ResetComes'
    BY <1>s, <1>u, <1>e, <2>1, <2>2 DEF ResetComes, UnderWay
  <2> QED
    BY <2>4, <2>5, <2>6
<1>2. CASE FindAnchor
  <2>1. /\ relay = "subscribed" /\ relay' = "anchored" /\ UNCHANGED <<sub, bus, sentIds, wire>>
        /\ anchor' = IF After = Reset THEN 0 ELSE place[After]
    BY <1>2 DEF FindAnchor
  <2>2. After = Reset \/ After \in ToSet(thread)
    <3>1. thread # <<>> => Len(thread) \in DOMAIN thread
      BY <1>s DEF StreamKnows
    <3> QED
      BY <3>1 DEF After, Last, ToSet
  <2>3. anchor' \in Nat /\ anchor' < nextSeq
    BY <2>1, <2>2, <1>s, <1>r, StreamFacts
  <2>4. StreamKnows'
    <3>1. UnderWay' = UnderWay
      BY <2>1 DEF UnderWay
    <3> QED
      BY <1>s, <1>u, <2>1, <2>3, <3>1 DEF StreamKnows
  <2>5. AnchorLed'
    <3> SUFFICES ASSUME NEW e \in EventIds, place[e] # 0, place[e] <= anchor' PROVE e \in ToSet(thread) \union Excused
      BY <1>u DEF AnchorLed
    <3>1. After # Reset /\ anchor' = place[After] /\ After \in ToSet(thread) /\ After \in EventIds
      BY <2>1, <2>2, <1>r, <1>s, StreamFacts
    <3>2. CASE e = After
      BY <3>1, <3>2
    <3>3. CASE e # After
      <4>1. place[e] < place[After] /\ place[After] # 0
        BY <3>1, <3>3, <1>r
      <4> QED
        BY <3>1, <4>1, <1>s DEF NothingSkipped, ThreadLed, Led
    <3> QED
      BY <3>2, <3>3
  <2>6. NothingSkipped'
    BY <1>s, <1>u, <2>1, <2>5 DEF NothingSkipped, ThreadLed, WireLed, BusLed, AllComes
  <2>7. ResetComes'
    BY <1>s, <1>u, <2>1 DEF ResetComes, UnderWay
  <2> QED
    BY <2>4, <2>6, <2>7
<1>3. CASE ReplayRows
  <2> DEFINE es == Behind(anchor)
             q == InSeqOrder(es)
  <2>1. /\ relay = "anchored" /\ relay' = "live" /\ wire' = q /\ sentIds' = es /\ UNCHANGED <<sub, bus, anchor>>
    BY <1>3 DEF ReplayRows
  <2>2. anchor \in Nat /\ sub # "none" /\ wire = <<>>
    BY <2>1, <1>s DEF StreamKnows
  <2>3. es \in SUBSET EventIds /\ \A e \in EventIds : e \in es <=> place[e] > anchor
    BY DEF Behind
  <2>4. \A e \in es : HasRow(e)
    BY <2>2, <2>3, <1>r DEF HasRow
  <2> HIDE DEF es
  <2>5. /\ q \in Seq(es) /\ ToSet(q) = es
        /\ \A i, j \in DOMAIN q : i < j => place[q[i]] < place[q[j]]
    BY <2>3, <2>4, <1>s, RowsSort
  <2> HIDE DEF q
  <2>6. UnderWay' = es \union ToSet(bus)
    BY <2>1, <2>5 DEF UnderWay
  <2>7. \A e \in EventIds : place[e] # 0 => e \in es \union ToSet(thread) \union Excused
    <3> SUFFICES ASSUME NEW e \in EventIds, place[e] # 0, e \notin es PROVE e \in ToSet(thread) \union Excused
      OBVIOUS
    <3>1. place[e] <= anchor
      BY <2>2, <2>3, <1>r
    <3> QED
      BY <2>1, <3>1, <1>s DEF NothingSkipped, AnchorLed
  <2>8. StreamKnows'
    <3>1. q \in Seq(0..NEvents)
      <4>1. es \subseteq 0..NEvents
        BY <2>3, <1>s, StreamFacts
      <4>2. Seq(es) \subseteq Seq(0..NEvents)
        BY <4>1, WiderSeq
      <4> QED
        BY <2>5, <4>2
    <3>2. \A e \in es : stage[e] # "new"
      BY <2>3, <2>4, <1>r DEF HasRow
    <3>3. \A e \in ToSet(thread) \union (UnderWay' \ {Reset}) : stage[e] # "new"
      BY <2>6, <3>2, <1>s DEF StreamKnows, UnderWay
    <3> QED
      BY <1>s, <1>u, <2>1, <2>2, <2>3, <2>5, <3>1, <3>3 DEF StreamKnows
  <2>9. WireLed'
    <3> SUFFICES ASSUME NEW i \in DOMAIN q, NEW e \in EventIds, q[i] # Reset, place[q[i]] # 0, place[e] # 0, place[e] < place[q[i]]
                 PROVE  e \in ToSet(thread) \union Ahead(q, i) \union Excused
      BY <2>1, <1>u DEF WireLed, Led
    <3>1. CASE e \in es
      <4>1. PICK j \in DOMAIN q : e = q[j]
        BY <2>5, <3>1 DEF ToSet
      <4>2. DOMAIN q = 1..Len(q) /\ Len(q) \in Nat
        BY <2>5
      <4>3. q[i] \in es /\ q[i] \in EventIds
        BY <2>3, <2>5 DEF ToSet
      <4>4. ~(i < j) /\ i # j
        <5>1. place[e] \in Nat /\ place[q[i]] \in Nat
          BY <1>r, <4>3
        <5>2. i # j
          BY <4>1, <5>1
        <5>3. ~(i < j)
          <6> SUFFICES ASSUME i < j PROVE FALSE
            OBVIOUS
          <6>1. place[q[i]] < place[e]
            BY <2>5, <4>1
          <6> QED
            BY <6>1, <5>1
        <5> QED
          BY <5>2, <5>3
      <4>5. j < i
        BY <4>2, <4>4
      <4> QED
        BY <4>1, <4>5 DEF Ahead
    <3> QED
      BY <2>7, <3>1
  <2>10. ThreadLed' /\ AnchorLed'
    BY <1>s, <1>u, <2>1 DEF NothingSkipped, ThreadLed, AnchorLed
  <2>11. BusLed' /\ AllComes'
    BY <1>u, <2>1, <2>5, <2>6, <2>7 DEF BusLed, AllComes, Led
  <2>12. ResetComes'
    BY <1>s, <1>u, <2>1, <2>2, <2>4, <2>6, <1>e DEF ResetComes, UnderWay, HasRow
  <2> QED
    BY <2>8, <2>9, <2>10, <2>11, <2>12 DEF NothingSkipped
<1>4. CASE Overflowed
  <2>1. relay = "live" /\ bus = <<>> /\ relay' = "over" /\ sub' = "none" /\ UNCHANGED <<bus, anchor, sentIds, wire>>
    BY <1>4 DEF Overflowed
  <2>2. StreamKnows'
    <3>1. UnderWay' = UnderWay
      BY <2>1 DEF UnderWay
    <3> QED
      BY <1>s, <1>u, <2>1, <3>1 DEF StreamKnows
  <2>3. NothingSkipped'
    BY <1>s, <1>u, <2>1 DEF NothingSkipped, ThreadLed, WireLed, BusLed, AnchorLed, AllComes
  <2>4. ResetComes'
    BY <1>s, <1>u, <2>1 DEF ResetComes, UnderWay
  <2> QED
    BY <2>2, <2>3, <2>4
<1> QED
  BY <1>1, <1>2, <1>3, <1>4

(* An event that the stream passes on is on the wire behind what it needs. *)
LEMMA EventFollowed ==
  ASSUME StreamsKept, NEvents \in Nat, BusCap \in Nat, Follow
  PROVE  StreamKnows' /\ NothingSkipped' /\ ResetComes'
<1>s. Rows /\ StreamKnows /\ NothingSkipped /\ ResetComes
  BY DEF StreamsKept
<1>u. UNCHANGED <<place, nextSeq, stage, cutting, overtaken, passed, late, thread, missed, sub, relay, anchor>> /\ Excused' = Excused
  BY DEF Follow, emitVars, Excused
<1> DEFINE S == 0..NEvents
           h == Head(bus)
<1>0. bus \in Seq(S) /\ wire \in Seq(S) /\ Len(bus) <= BusCap /\ sentIds \subseteq EventIds /\ Reset \notin EventIds
  BY <1>s, StreamFacts DEF StreamKnows
<1>p. \A x \in S : x = Reset \/ x \in EventIds
  BY <1>s, StreamFacts
<1> HIDE DEF S
<1>1. /\ relay = "live" /\ bus # <<>> /\ bus' = Tail(bus)
      /\ wire' = IF h \in sentIds THEN wire ELSE Append(wire, h)
      /\ sentIds' = IF h = Reset THEN sentIds ELSE sentIds \union {h}
  BY DEF Follow
<1>2. /\ h \in S /\ Tail(bus) \in Seq(S) /\ ToSet(bus) = {h} \union ToSet(Tail(bus)) /\ h = bus[1] /\ 1 \in DOMAIN bus
      /\ Len(Tail(bus)) = Len(bus) - 1
      /\ \A i \in DOMAIN Tail(bus) : i + 1 \in DOMAIN bus /\ Tail(bus)[i] = bus[i + 1]
      /\ Ahead(bus, 1) = {} /\ \A i \in DOMAIN Tail(bus) : Ahead(bus, i + 1) \subseteq {h} \union Ahead(Tail(bus), i)
  BY <1>0, <1>1, HeadAndTail, AheadOf
<1>3. sentIds \subseteq ToSet(thread) \union ToSet(wire)
  BY <1>1, <1>s DEF StreamKnows
<1>4. /\ Append(wire, h) \in Seq(S) /\ ToSet(Append(wire, h)) = ToSet(wire) \union {h} /\ Len(wire) \in Nat
      /\ \A i \in DOMAIN Append(wire, h) :
           \/ i \in DOMAIN wire /\ Append(wire, h)[i] = wire[i] /\ Ahead(Append(wire, h), i) = Ahead(wire, i)
           \/ i = Len(wire) + 1 /\ Append(wire, h)[i] = h /\ Ahead(Append(wire, h), i) = ToSet(wire)
  <2>1. /\ Append(wire, h) \in Seq(S) /\ ToSet(Append(wire, h)) = ToSet(wire) \union {h} /\ Len(wire) \in Nat
        /\ \A i \in DOMAIN Append(wire, h) : \/ i \in DOMAIN wire /\ Append(wire, h)[i] = wire[i]
                                             \/ i = Len(wire) + 1 /\ Append(wire, h)[i] = h
    BY <1>0, <1>2, AppendedIs
  <2>2. /\ \A i \in DOMAIN wire : Ahead(Append(wire, h), i) = Ahead(wire, i)
        /\ Ahead(Append(wire, h), Len(wire) + 1) = ToSet(wire)
    BY <1>0, <1>2, AheadOf
  <2> QED
    BY <2>1, <2>2
<1> HIDE DEF h
<1>5. /\ wire' \in Seq(S) /\ ToSet(wire) \subseteq ToSet(wire') /\ ToSet(wire') \subseteq ToSet(wire) \union {h}
      /\ h \in ToSet(thread) \union ToSet(wire')
      /\ h = Reset => h \in ToSet(wire')
  <2>1. CASE h \in sentIds
    BY <1>0, <1>1, <1>3, <2>1
  <2>2. CASE h \notin sentIds
    BY <1>1, <1>4, <2>2
  <2> QED
    BY <2>1, <2>2
<1>6. UnderWay' \subseteq UnderWay /\ (Reset \in UnderWay => Reset \in UnderWay')
  BY <1>1, <1>2, <1>5 DEF UnderWay
<1>7. StreamKnows'
  <2>1. Len(bus') <= BusCap
    <3>1. Len(bus) \in Nat
      BY <1>0
    <3>2. Len(bus') = Len(bus) - 1
      BY <1>1, <1>2
    <3> QED
      BY <1>0, <3>1, <3>2
  <2>2. wire' \in Seq(0..NEvents) /\ bus' \in Seq(0..NEvents)
    BY <1>1, <1>2, <1>5 DEF S
  <2>3. sentIds' \subseteq EventIds /\ sentIds' \subseteq ToSet(thread) \union ToSet(wire')
    BY <1>0, <1>1, <1>2, <1>3, <1>5, <1>p
  <2> QED
    BY <1>s, <1>u, <1>1, <1>6, <2>1, <2>2, <2>3 DEF StreamKnows
<1>8. WireLed'
  <2> SUFFICES ASSUME NEW i \in DOMAIN wire'
               PROVE  Led(wire'[i], ToSet(thread) \union Ahead(wire', i), place, Excused)
    BY <1>u DEF WireLed
  <2>1. CASE i \in DOMAIN wire /\ wire'[i] = wire[i] /\ Ahead(wire', i) = Ahead(wire, i)
    BY <2>1, <1>s DEF NothingSkipped, WireLed
  <2>2. CASE wire'[i] = h /\ Ahead(wire', i) = ToSet(wire)
    <3>1. Led(h, ToSet(thread) \union ToSet(wire) \union Ahead(bus, 1), place, Excused)
      BY <1>1, <1>2, <1>s DEF NothingSkipped, BusLed
    <3> QED
      BY <2>2, <3>1, <1>2 DEF Led
  <2>3. CASE wire' = wire
    BY <2>3, <1>s DEF NothingSkipped, WireLed
  <2>4. CASE wire' = Append(wire, h)
    BY <2>4, <2>1, <2>2, <1>4
  <2> QED
    BY <1>1, <2>3, <2>4
<1>9. BusLed'
  <2> SUFFICES ASSUME NEW i \in DOMAIN Tail(bus)
               PROVE  Led(Tail(bus)[i], ToSet(thread) \union ToSet(wire') \union Ahead(Tail(bus), i), place, Excused)
    BY <1>u, <1>1 DEF BusLed
  <2>1. Led(bus[i + 1], ToSet(thread) \union ToSet(wire) \union Ahead(bus, i + 1), place, Excused)
    BY <1>1, <1>2, <1>s DEF NothingSkipped, BusLed
  <2>2. ToSet(wire) \union Ahead(bus, i + 1) \subseteq ToSet(thread) \union ToSet(wire') \union Ahead(Tail(bus), i)
    BY <1>2, <1>5
  <2> QED
    BY <1>2, <2>1, <2>2 DEF Led
<1>10. ThreadLed' /\ AnchorLed'
  BY <1>s, <1>u DEF NothingSkipped, ThreadLed, AnchorLed
<1>11. AllComes'
  <2>1. ToSet(thread) \union UnderWay \subseteq ToSet(thread) \union UnderWay'
    BY <1>1, <1>2, <1>5 DEF UnderWay
  <2> QED
    BY <1>s, <1>u, <2>1 DEF NothingSkipped, AllComes
<1>12. ResetComes'
  BY <1>s, <1>u, <1>6 DEF ResetComes
<1> QED
  BY <1>7, <1>8, <1>9, <1>10, <1>11, <1>12 DEF NothingSkipped

(* An event that the tab reads has in the thread what it comes after.      *)
LEMMA EventRead ==
  ASSUME StreamsKept, NEvents \in Nat, BusCap \in Nat, ReadEvent
  PROVE  StreamKnows' /\ NothingSkipped' /\ ResetComes'
<1>s. Rows /\ StreamKnows /\ NothingSkipped /\ ResetComes
  BY DEF StreamsKept
<1>u. UNCHANGED <<place, nextSeq, stage, cutting, overtaken, passed, late, missed, sub, bus, relay, anchor, sentIds>> /\ Excused' = Excused
  BY DEF ReadEvent, emitVars, Excused
<1> DEFINE S == 0..NEvents
           h == Head(wire)
<1>0. wire \in Seq(S) /\ thread \in Seq(EventIds)
  BY <1>s DEF StreamKnows
<1>p. \A x \in S : x = Reset \/ x \in EventIds
  BY <1>s, StreamFacts
<1> HIDE DEF S
<1>1. wire # <<>> /\ h # Reset /\ wire' = Tail(wire) /\ thread' = (IF h \in ToSet(thread) THEN thread ELSE Append(thread, h))
  BY DEF ReadEvent
<1>2. /\ h \in S /\ Tail(wire) \in Seq(S) /\ ToSet(wire) = {h} \union ToSet(Tail(wire)) /\ h = wire[1] /\ 1 \in DOMAIN wire
      /\ \A i \in DOMAIN Tail(wire) : i + 1 \in DOMAIN wire /\ Tail(wire)[i] = wire[i + 1]
      /\ Ahead(wire, 1) = {} /\ \A i \in DOMAIN Tail(wire) : Ahead(wire, i + 1) \subseteq {h} \union Ahead(Tail(wire), i)
  BY <1>0, <1>1, HeadAndTail, AheadOf
<1> HIDE DEF h
<1>3. h \in EventIds
  BY <1>1, <1>2, <1>p
<1>4. thread' \in Seq(EventIds) /\ ToSet(thread') = ToSet(thread) \union {h}
  <2>1. CASE h \in ToSet(thread)
    BY <1>0, <1>1, <2>1
  <2>2. CASE h \notin ToSet(thread)
    BY <1>0, <1>1, <1>3, <2>2, AppendedIs
  <2> QED
    BY <2>1, <2>2
<1>5. /\ ToSet(thread') \union ToSet(wire') = ToSet(thread) \union ToSet(wire)
      /\ UnderWay' \subseteq UnderWay /\ (Reset \in UnderWay => Reset \in UnderWay')
      /\ ToSet(thread') \union UnderWay' = ToSet(thread) \union UnderWay
      /\ ToSet(thread') \union (UnderWay' \ {Reset}) \subseteq ToSet(thread) \union (UnderWay \ {Reset})
  BY <1>u, <1>1, <1>2, <1>4 DEF UnderWay
<1>6. StreamKnows'
  <2>1. wire' \in Seq(0..NEvents)
    BY <1>1, <1>2 DEF S
  <2>2. relay # "off" /\ relay \notin {"subscribed", "anchored"}
    BY <1>1, <1>s DEF StreamKnows
  <2> QED
    BY <1>s, <1>u, <1>4, <1>5, <2>1, <2>2 DEF StreamKnows
<1>7. ThreadLed'
  <2>1. Led(h, ToSet(thread) \union Ahead(wire, 1), place, Excused)
    BY <1>2, <1>s DEF NothingSkipped, WireLed
  <2>2. \A x \in ToSet(thread) : Led(x, ToSet(thread), place, Excused)
    BY <1>s DEF NothingSkipped, ThreadLed
  <2>3. \A x \in ToSet(thread') : Led(x, ToSet(thread'), place, Excused)
    BY <1>2, <1>4, <2>1, <2>2 DEF Led
  <2> QED
    BY <1>u, <2>3 DEF ThreadLed
<1>8. WireLed'
  <2> SUFFICES ASSUME NEW i \in DOMAIN Tail(wire)
               PROVE  Led(Tail(wire)[i], ToSet(thread') \union Ahead(Tail(wire), i), place, Excused)
    BY <1>u, <1>1 DEF WireLed
  <2>1. Led(wire[i + 1], ToSet(thread) \union Ahead(wire, i + 1), place, Excused)
    BY <1>2, <1>s DEF NothingSkipped, WireLed
  <2>2. ToSet(thread) \union Ahead(wire, i + 1) \subseteq ToSet(thread') \union Ahead(Tail(wire), i)
    BY <1>2, <1>4
  <2> QED
    BY <1>2, <2>1, <2>2 DEF Led
<1>9. BusLed'
  <2>1. relay = "live" => \A i \in DOMAIN bus :
          Led(bus[i], ToSet(thread') \union ToSet(wire') \union Ahead(bus, i), place, Excused)
    BY <1>s, <1>5 DEF NothingSkipped, BusLed
  <2> QED
    BY <1>u, <2>1 DEF BusLed
<1>10. AnchorLed' /\ AllComes'
  BY <1>s, <1>u, <1>4, <1>5 DEF NothingSkipped, AnchorLed, AllComes
<1>11. ResetComes'
  BY <1>s, <1>u, <1>5 DEF ResetComes
<1> QED
  BY <1>6, <1>7, <1>8, <1>9, <1>10, <1>11 DEF NothingSkipped

(* A tab whose stream ends starts over from its cursor.                    *)
LEMMA StreamCloses ==
  ASSUME StreamsKept, NEvents \in Nat, BusCap \in Nat, ReadReset \/ StreamFails \/ DropStream
  PROVE  StreamKnows' /\ NothingSkipped' /\ ResetComes'
<1>s. Rows /\ StreamKnows /\ NothingSkipped /\ ResetComes
  BY DEF StreamsKept
<1>u. UNCHANGED <<place, nextSeq, stage, cutting, overtaken, passed, late>> /\ Excused' = Excused /\ Closed
  BY DEF ReadReset, StreamFails, DropStream, emitVars, Excused
<1>1. sub' = "none" /\ bus' = <<>> /\ wire' = <<>> /\ relay' = "off" /\ anchor' = 0 /\ sentIds' = {}
  BY <1>u DEF Closed
<1>e. ToSet(<<>>) = {} /\ DOMAIN <<>> = {} /\ (\A S : <<>> \in Seq(S)) /\ Len(<<>>) = 0
  BY DEF ToSet
<1>2. UnderWay' = {}
  BY <1>1, <1>e DEF UnderWay
<1>3. thread' = thread \/ thread' = <<>>
  BY DEF ReadReset, StreamFails, DropStream
<1>4. thread' \in Seq(EventIds) /\ (ToSet(thread') = ToSet(thread) \/ ToSet(thread') = {})
  BY <1>3, <1>e, <1>s DEF StreamKnows
<1>5. StreamKnows'
  <2>1. nextSeq \in Nat /\ 0 < nextSeq
    BY <1>s DEF Rows
  <2> QED
    BY <1>s, <1>u, <1>1, <1>2, <1>4, <1>e, <2>1 DEF StreamKnows
<1>6. NothingSkipped'
  <2>1. \A x \in ToSet(thread') : Led(x, ToSet(thread'), place, Excused)
    BY <1>4, <1>s DEF NothingSkipped, ThreadLed
  <2>2. ThreadLed'
    BY <2>1, <1>u DEF ThreadLed
  <2>3. WireLed' /\ BusLed' /\ AnchorLed' /\ AllComes'
    BY <1>1, <1>e DEF WireLed, BusLed, AnchorLed, AllComes
  <2> QED
    BY <2>2, <2>3 DEF NothingSkipped
<1>7. ResetComes'
  <2>1. CASE ReadReset
    <3>1. ToSet(thread') = {}
      BY <2>1, <1>e DEF ReadReset
    <3> QED
      BY <3>1, <1>2 DEF ResetComes
  <2>2. CASE StreamFails
    <3>1. relay = "over" /\ wire = <<>> /\ bus = <<>> /\ UNCHANGED <<thread, missed>>
      BY <2>2, <1>s DEF StreamFails, StreamKnows
    <3>2. UnderWay = {}
      BY <3>1, <1>e DEF UnderWay
    <3> QED
      BY <3>1, <3>2, <1>2, <1>s, <1>u DEF ResetComes
  <2>3. CASE DropStream
    <3>1. thread' = thread /\ missed' = (missed \/ (thread # <<>> /\ Reset \in ToSet(bus) \union ToSet(wire)))
      BY <2>3 DEF DropStream
    <3>2. thread = <<>> => ToSet(thread) = {}
      BY <1>e
    <3> QED
      BY <3>1, <3>2, <1>2, <1>s, <1>u DEF ResetComes, UnderWay
  <2> QED
    BY <2>1, <2>2, <2>3
<1> QED
  BY <1>5, <1>6, <1>7

(* The thread stays in order: what comes behind another has its row behind *)
(* it, or is excused.                                                      *)
LEMMA ThreadGrows ==
  ASSUME StreamsKept, ShownInOrder, NEvents \in Nat, Messages \subseteq EventIds, [ViewersNext]_viewerVars
  PROVE  ShownInOrder'
<1>s. Rows /\ StreamKnows /\ NothingSkipped
  BY DEF StreamsKept
<1>0. thread \in Seq(EventIds) /\ \A i \in DOMAIN thread : thread[i] \in EventIds /\ stage[thread[i]] # "new"
  BY <1>s, StreamFacts
<1>r. /\ place \in [EventIds -> Nat] /\ nextSeq \in Nat \ {0}
      /\ \A e \in EventIds : place[e] \in Nat /\ place[e] < nextSeq
      /\ \A e, f \in EventIds : place[e] # 0 /\ e # f => place[e] # place[f]
  BY <1>s DEF Rows
<1>a. Cardinality(ToSet(thread)) = Len(thread)
  BY DEF ShownInOrder
<1>b. \A i, j \in DOMAIN thread :
        i < j /\ place[thread[i]] # 0 /\ place[thread[j]] # 0 =>
          \/ place[thread[i]] < place[thread[j]]
          \/ thread[i] \in moved \/ thread[j] \in Excused
  BY DEF ShownInOrder, HasRow, Excused
<1>q. /\ Cardinality(ToSet(thread')) = Len(thread')
      /\ \A i, j \in DOMAIN thread' :
           i < j /\ place'[thread'[i]] # 0 /\ place'[thread'[j]] # 0 =>
             \/ place'[thread'[i]] < place'[thread'[j]]
             \/ thread'[i] \in moved' \/ thread'[j] \in Excused'
      => ShownInOrder'
  BY DEF ShownInOrder, HasRow, Excused
<1>1. ASSUME UNCHANGED thread, moved \subseteq moved', Excused \subseteq Excused',
             \A e \in EventIds : stage[e] # "new" => place'[e] \in {0, place[e]} \/ (place'[e] = nextSeq /\ place[e] # 0 /\ e \in moved'),
             \A e \in EventIds, f \in EventIds : place'[e] = nextSeq /\ place'[f] = nextSeq => e = f
      PROVE  ShownInOrder'
  <2> SUFFICES ASSUME NEW i \in DOMAIN thread, NEW j \in DOMAIN thread, i < j, place'[thread[i]] # 0, place'[thread[j]] # 0
               PROVE  \/ place'[thread[i]] < place'[thread[j]]
                      \/ thread[i] \in moved' \/ thread[j] \in Excused'
    BY <1>1, <1>a, <1>q
  <2>1. CASE place'[thread[i]] = nextSeq /\ thread[i] \in moved'
    BY <2>1
  <2>2. CASE place'[thread[i]] = place[thread[i]]
    <3>1. CASE place'[thread[j]] = place[thread[j]]
      BY <2>2, <3>1, <1>1, <1>b
    <3>2. CASE place'[thread[j]] = nextSeq
      BY <2>2, <3>2, <1>0, <1>r
    <3> QED
      BY <3>1, <3>2, <1>0, <1>1
  <2> QED
    BY <2>1, <2>2, <1>0, <1>1
<1>2. ASSUME NEW m \in EventIds, StoreEvent(m) PROVE ShownInOrder'
  <2>1. /\ stage[m] = "new" /\ place' = [place EXCEPT ![m] = nextSeq] /\ UNCHANGED <<thread, moved, overtaken, passed>>
    BY <1>2 DEF StoreEvent
  <2>2. \A e \in EventIds : e # m => place'[e] = place[e] /\ place'[e] # nextSeq
    BY <2>1, <1>r
  <2> QED
    BY <2>1, <2>2, <1>1 DEF Excused
<1>3. ASSUME NEW m \in EventIds, MoveMessage(m) PROVE ShownInOrder'
  <2>1. /\ place[m] # 0 /\ place' = [place EXCEPT ![m] = nextSeq] /\ moved' = moved \union {m} /\ UNCHANGED <<thread, overtaken>>
        /\ passed \subseteq passed'
    BY <1>3 DEF MoveMessage, HasRow
  <2>2. \A e \in EventIds : e # m => place'[e] = place[e] /\ place'[e] # nextSeq
    BY <2>1, <1>r
  <2>3. place'[m] = nextSeq
    BY <2>1, <1>r
  <2> QED
    BY <2>1, <2>2, <2>3, <1>1 DEF Excused
<1>4. ASSUME NEW m \in EventIds, TruncateThread(m) PROVE ShownInOrder'
  <2>1. /\ place' = [e \in EventIds |-> IF place[e] < place[m] THEN place[e] ELSE 0]
        /\ UNCHANGED <<thread, moved, overtaken, passed>>
    BY <1>4 DEF TruncateThread
  <2>2. \A e \in EventIds : place'[e] \in {0, place[e]} /\ place'[e] # nextSeq
    BY <2>1, <1>r
  <2> QED
    BY <2>1, <2>2, <1>1 DEF Excused
<1>5. ASSUME UNCHANGED <<place, thread, moved>>, Excused \subseteq Excused' PROVE ShownInOrder'
  <2>1. \A e \in EventIds : place'[e] = place[e] /\ place'[e] # nextSeq
    BY <1>5, <1>r
  <2> QED
    BY <1>5, <2>1, <1>1
<1>6. CASE ReadReset
  <2>1. thread' = <<>> /\ Len(<<>>) = 0 /\ DOMAIN <<>> = {} /\ ToSet(<<>>) = {}
    BY <1>6 DEF ReadReset, ToSet
  <2> QED
    BY <2>1, <1>q, FS_EmptySet
<1>7. CASE ReadEvent
  <2> DEFINE h == Head(wire)
  <2>1. /\ wire # <<>> /\ h # Reset /\ thread' = (IF h \in ToSet(thread) THEN thread ELSE Append(thread, h))
        /\ UNCHANGED <<place, moved, overtaken, passed>>
    BY <1>7 DEF ReadEvent, emitVars
  <2>2. Excused' = Excused
    BY <2>1 DEF Excused
  <2>3. CASE thread' = thread
    BY <2>1, <2>2, <2>3, <1>5
  <2>4. CASE thread' = Append(thread, h) /\ h \notin ToSet(thread)
    <3>1. h \in EventIds
      BY <2>1, <1>s, StreamFacts, HeadAndTail
    <3> HIDE DEF h
    <3>2. /\ ToSet(Append(thread, h)) = ToSet(thread) \union {h} /\ Len(Append(thread, h)) = Len(thread) + 1
          /\ DOMAIN Append(thread, h) = 1..(Len(thread) + 1) /\ Len(thread) \in Nat /\ DOMAIN thread = 1..Len(thread)
          /\ \A i \in DOMAIN Append(thread, h) : \/ i \in DOMAIN thread /\ Append(thread, h)[i] = thread[i]
                                                 \/ i = Len(thread) + 1 /\ Append(thread, h)[i] = h
      BY <1>0, <3>1, AppendedIs
    <3>3. Cardinality(ToSet(thread')) = Len(thread')
      <4>1. IsFiniteSet(ToSet(thread))
        <5>1. ToSet(thread) \in SUBSET EventIds
          BY <1>0, ElementsOf
        <5>2. IsFiniteSet(EventIds)
          BY FS_Interval DEF EventIds
        <5> QED
          BY <5>1, <5>2, FS_Subset
      <4>2. Cardinality(ToSet(thread) \union {h}) = Cardinality(ToSet(thread)) + 1
        BY <2>4, <4>1, FS_AddElement
      <4> QED
        BY <2>4, <3>2, <4>2, <1>a
    <3>4. ASSUME NEW i \in DOMAIN thread', NEW j \in DOMAIN thread', i < j, place[thread'[i]] # 0, place[thread'[j]] # 0
          PROVE  \/ place[thread'[i]] < place[thread'[j]]
                 \/ thread'[i] \in moved \/ thread'[j] \in Excused
      <4>1. i \in DOMAIN thread /\ thread'[i] = thread[i]
        BY <2>4, <3>2, <3>4
      <4>2. CASE j \in DOMAIN thread /\ thread'[j] = thread[j]
        BY <3>4, <4>1, <4>2, <1>b
      <4>3. CASE thread'[j] = h
        <5>1. thread[i] \in ToSet(thread) /\ thread[i] # h /\ thread[i] \in EventIds
          BY <2>4, <4>1, <1>0 DEF ToSet
        <5>2. place[thread[i]] < place[h] \/ place[h] < place[thread[i]]
          BY <3>1, <3>4, <4>1, <4>3, <5>1, <1>r
        <5>3. CASE place[h] < place[thread[i]]
          <6>1. Led(thread[i], ToSet(thread), place, Excused)
            BY <5>1, <1>s DEF NothingSkipped, ThreadLed
          <6>2. thread[i] # Reset
            BY <5>1 DEF EventIds, Reset
          <6>3. h \in ToSet(thread) \union Excused
            BY <3>1, <3>4, <4>1, <4>3, <5>3, <6>1, <6>2 DEF Led
          <6> QED
            BY <2>4, <4>3, <6>3
        <5> QED
          BY <4>1, <4>3, <5>2, <5>3
      <4> QED
        BY <2>4, <3>2, <4>2, <4>3
    <3> QED
      BY <2>1, <2>2, <3>3, <3>4, <1>q
  <2> QED
    BY <2>1, <2>3, <2>4
<1>8. \/ (\E m \in EventIds : PublishEvent(m)) \/ PublishReset \/ OpenStream \/ FindAnchor \/ ReplayRows \/ Follow
      \/ Overflowed \/ StreamFails \/ DropStream \/ UNCHANGED viewerVars
      => UNCHANGED <<place, thread, moved>> /\ Excused \subseteq Excused'
  BY DEF PublishEvent, PublishReset, OpenStream, FindAnchor, ReplayRows, Follow, Overflowed, StreamFails, DropStream,
         emitVars, viewerVars, Excused
<1> QED
  BY <1>2, <1>3, <1>4, <1>5, <1>6, <1>7, <1>8 DEF ViewersNext, StreamMoves

(* A tab with nothing on its way to it has every row and none that is      *)
(* gone.                                                                   *)
LEMMA ViewersFollow ==
  ASSUME StreamsKept, NEvents \in Nat, BusCap \in Nat \ {0}
  PROVE  /\ SeesAll /\ ShowsNothingGone
         /\ ViewersTypeOK
<1>s. Rows /\ StreamKnows /\ NothingSkipped /\ ResetComes
  BY DEF StreamsKept
<1>1. Settled => UnderWay = {}
  BY DEF Settled, UnderWay, ToSet
<1>2. SeesAll
  <2> SUFFICES ASSUME Settled, NEW e \in EventIds, HasRow(e), stage[e] = "published"
               PROVE  e \in ToSet(thread) \union overtaken \union passed
    BY DEF SeesAll
  <2> QED
    BY <1>1, <1>s DEF Settled, NothingSkipped, AllComes, Excused, HasRow
<1>3. ShowsNothingGone
  BY <1>1, <1>s DEF ShowsNothingGone, Settled, ResetComes, HasRow
<1>4. nextSeq \in 1..2 * NEvents + 1 /\ place \in [EventIds -> 0..2 * NEvents]
  BY <1>s, SeqBound
<1>5. anchor \in 0..2 * NEvents
  <2>1. anchor \in Nat /\ anchor < nextSeq
    BY <1>s DEF StreamKnows
  <2> QED
    BY <1>4, <2>1
<1>6. ToSet(thread) \subseteq EventIds
  BY <1>s, StreamFacts
<1>7. stage \in [EventIds -> {"new", "stored", "published"}]
  BY <1>s DEF Rows
<1> QED
  BY <1>2, <1>3, <1>4, <1>5, <1>6, <1>7, <1>s DEF ViewersTypeOK, StreamKnows

(* Nothing is stored, and the tab is not connected.                        *)
LEMMA ViewersBegin == ViewersInit => ViewersInv
<1> SUFFICES ASSUME ViewersInit PROVE ViewersInv
  OBVIOUS
<1>b. NEvents \in Nat /\ BusCap \in Nat \ {0}
  BY ViewerBounds
<1>e. ToSet(<<>>) = {} /\ DOMAIN <<>> = {} /\ (\A S : <<>> \in Seq(S)) /\ Len(<<>>) = 0
  BY DEF ToSet
<1>1. Rows
  <2>1. {e \in EventIds : stage[e] # "new"} = {}
    BY DEF ViewersInit
  <2>2. nextSeq = 1 + Cardinality({e \in EventIds : stage[e] # "new"}) + Cardinality(moved)
    BY <2>1, FS_EmptySet DEF ViewersInit
  <2> QED
    BY <2>2 DEF ViewersInit, Rows
<1>2. StreamKnows
  BY <1>b, <1>e DEF ViewersInit, StreamKnows, UnderWay
<1>3. NothingSkipped
  BY <1>e DEF ViewersInit, NothingSkipped, ThreadLed, WireLed, BusLed, AnchorLed, AllComes
<1>4. ResetComes
  BY <1>e DEF ViewersInit, ResetComes, UnderWay
<1>5. ShownInOrder
  BY <1>e, FS_EmptySet DEF ViewersInit, ShownInOrder
<1> QED
  BY <1>1, <1>2, <1>3, <1>4, <1>5 DEF ViewersInv, StreamsKept

(* Every step keeps the invariant.                                         *)
LEMMA ViewersStep == ViewersInv /\ [ViewersNext]_viewerVars => ViewersInv'
<1> SUFFICES ASSUME ViewersInv, [ViewersNext]_viewerVars PROVE ViewersInv'
  OBVIOUS
<1>b. NEvents \in Nat /\ BusCap \in Nat \ {0} /\ BusCap \in Nat /\ Messages \subseteq 1..NEvents /\ Messages \subseteq EventIds
  BY ViewerBounds DEF EventIds
<1>s. StreamsKept /\ Rows /\ ShownInOrder
  BY DEF ViewersInv, StreamsKept
<1>1. Rows'
  BY <1>b, <1>s, RowsMove
<1>2. StreamKnows' /\ NothingSkipped' /\ ResetComes'
  <2>1. ASSUME NEW m \in EventIds, StoreEvent(m) \/ MoveMessage(m) \/ TruncateThread(m)
        PROVE  StreamKnows' /\ NothingSkipped' /\ ResetComes'
    BY <1>1, <1>b, <1>s, <2>1, RowsComeAndGo
  <2>2. ASSUME NEW m \in EventIds, PublishEvent(m) PROVE StreamKnows' /\ NothingSkipped' /\ ResetComes'
    BY <1>b, <1>s, <2>2, EventPublished
  <2>3. CASE PublishReset
    BY <1>b, <1>s, <2>3, ResetPublished
  <2>4. CASE OpenStream \/ FindAnchor \/ ReplayRows \/ Overflowed
    BY <1>b, <1>s, <2>4, StreamRuns
  <2>5. CASE Follow
    BY <1>b, <1>s, <2>5, EventFollowed
  <2>6. CASE ReadEvent
    BY <1>b, <1>s, <2>6, EventRead
  <2>7. CASE ReadReset \/ StreamFails \/ DropStream
    BY <1>b, <1>s, <2>7, StreamCloses
  <2>8. CASE UNCHANGED viewerVars
    <3>1. /\ UNCHANGED <<place, nextSeq, stage, cutting, sub, bus, relay, anchor, sentIds, wire, thread>>
          /\ UNCHANGED <<overtaken, passed, moved, late, missed>>
      BY <2>8 DEF viewerVars
    <3>2. StreamKnows /\ NothingSkipped /\ ResetComes
      BY <1>s DEF StreamsKept
    <3>3. UnderWay' = UnderWay /\ Excused' = Excused
      BY <3>1 DEF UnderWay, Excused
    <3>4. StreamKnows'
      BY <3>1, <3>2, <3>3 DEF StreamKnows
    <3>5. NothingSkipped'
      BY <3>1, <3>2, <3>3 DEF NothingSkipped, ThreadLed, WireLed, BusLed, AnchorLed, AllComes
    <3>6. ResetComes'
      BY <3>1, <3>2, <3>3 DEF ResetComes
    <3> QED
      BY <3>4, <3>5, <3>6
  <2> QED
    BY <2>1, <2>2, <2>3, <2>4, <2>5, <2>6, <2>7, <2>8 DEF ViewersNext, StreamMoves
<1>3. ShownInOrder'
  BY <1>b, <1>s, ThreadGrows
<1>4. StreamsKept'
  BY <1>1, <1>2 DEF StreamsKept
<1> QED
  BY <1>3, <1>4 DEF ViewersInv

(* A tab of the console, through overflows of its channel, broken          *)
(* connections, stored, moved and truncated rows: once nothing is on its   *)
(* way it shows every row and none that is gone, and it shows rows in      *)
(* their order but for those the histories of Viewers excuse.              *)
THEOREM ViewersSafeHolds == ViewersSpec => []ViewersSafe
<1>1. ViewersInv => ViewersSafe
  BY ViewersFollow, ViewerBounds DEF ViewersInv, ViewersSafe
<1> QED
  BY ViewersBegin, ViewersStep, <1>1, PTL DEF ViewersSpec

-----------------------------------------------------------------------------
(* What a run checks of two links at a time.                               *)

(* An instance of MCLinks is one of its links, and each of the others      *)
(* stays as it began: whatever moves, each link began and moves as alone.  *)
LEMMA EachLinkIsAlone ==
  /\ Init => EgressInit /\ ReportsInit /\ ChannelsInit /\ VoiceInit
  /\ [Next]_vars => /\ [EgressNext]_egressVars /\ [ReportsNext]_reportVars
                    /\ [ChannelsNext]_channelVars /\ [VoiceNext]_voiceVars
<1>1. Init => EgressInit /\ ReportsInit /\ ChannelsInit /\ VoiceInit
  BY DEF Init
<1>2. ASSUME Next
      PROVE  /\ [EgressNext]_egressVars /\ [ReportsNext]_reportVars
             /\ [ChannelsNext]_channelVars /\ [VoiceNext]_voiceVars
  BY <1>2 DEF Next, Only
<1>3. ASSUME UNCHANGED vars
      PROVE  /\ UNCHANGED egressVars /\ UNCHANGED reportVars
             /\ UNCHANGED channelVars /\ UNCHANGED voiceVars
  BY <1>3 DEF vars
<1> QED
  BY <1>1, <1>2, <1>3

(* What the gateway and the control plane exchange: a policy a gateway     *)
(* lacks is on its way down, and what the gateway recorded is in one place *)
(* on its way up.                                                          *)
THEOREM GatewaySafeHolds == Spec => []GatewaySafe
<1>1. EgressInv => EgressSafe
  BY DEF EgressInv
<1>2. ReportsInv => ReportsSafe
  BY ApartIsOnePlace DEF ReportsInv, ReportsSafe
<1> QED
  BY <1>1, <1>2, EgressBegins, EgressStep, ReportsBegin, ReportsStep, EachLinkIsAlone,
     PTL DEF Spec, GatewaySafe

(* How people reach the Bot: the messages of a channel are handed on once  *)
(* and in order, and a call says nothing that was cut.                     *)
THEOREM PeopleSafeHolds == Spec => []PeopleSafe
<1>1. VoiceInv => VoiceSafe
  BY DEF VoiceInv
<1> QED
  BY <1>1, ChannelsBegin, ChannelsStep, InLineIsInOrder, VoiceBegins, VoiceStep, EachLinkIsAlone,
     PTL DEF Spec, PeopleSafe
=============================================================================

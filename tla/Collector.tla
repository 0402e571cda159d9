------------------------------- MODULE Collector -------------------------------
(***************************************************************************)
(* The memory collector of one conversation (internal/app/collect.go): it  *)
(* reads the rows of run_events behind the chat's watermark, asks a model  *)
(* for the facts worth keeping, part by part, and moves the watermark on.  *)
(* The sweep and a person may start it while the conversation goes on.     *)
(*                                                                         *)
(* Left out: the back-off of the sweep, what the model is shown and may    *)
(* rewrite or forget, kinds of events nobody reads, truncations.           *)
(***************************************************************************)
EXTENDS Naturals, FiniteSets, SequencesExt

CONSTANTS NFacts,       \* events, numbered in the order they take their seq
          Said,         \* those that are a person's messages
          PartSize,     \* events in a part (a budget of tokens in the code)
          PartLimit,    \* parts of one collection (collectChunks)
          MaxFailures,  \* provider errors
          MaxRelaunches \* restarts of the control plane

ASSUME CollectorBounds ==
  /\ NFacts \in Nat \ {0} /\ Said \subseteq 1..NFacts
  /\ PartSize \in Nat \ {0} /\ PartLimit \in Nat \ {0}
  /\ MaxFailures \in Nat /\ MaxRelaunches \in Nat

VARIABLES place,      \* the seq of each event, 0 when it has none
          serial,     \* the serial column's next value
          filed,      \* events whose row is committed
          memorySeq,  \* chats.memory_seq
          collecting, \* App.collecting holds this chat
          collector,  \* where the collection of the sweep and of a person stands
          behind,     \* the watermark it read
          upto,       \* maxSeq
          parts,      \* the parts it has not finished, each in the log's order
          failures, relaunches, \* bounds
          taken,      \* history: how often each event was read and its facts applied
          waived,     \* history: moved, or applied by a collection that then failed
          skipped     \* history: dropped for size, unreadable, with nobody's words, or late

collectVars == <<place, serial, filed, memorySeq, collecting, collector, behind, upto, parts,
                 failures, relaunches, taken, waived, skipped>>
logVars  == <<place, serial, filed>>
pastVars == <<taken, waived, skipped>>

Facts      == 1..NFacts
Collectors == {"sweep", "person"}
Fresh      == {e \in filed : place[e] > memorySeq} \* what the sweep looks for

CollectorInit ==
  /\ place = [e \in Facts |-> 0] /\ serial = 1 /\ filed = {}
  /\ memorySeq = 0 /\ collecting = FALSE
  /\ collector = [c \in Collectors |-> "idle"]
  /\ behind = [c \in Collectors |-> 0] /\ upto = [c \in Collectors |-> 0]
  /\ parts = [c \in Collectors |-> <<>>]
  /\ failures = 0 /\ relaunches = 0
  /\ taken = [e \in Facts |-> 0] /\ waived = {} /\ skipped = {}

-----------------------------------------------------------------------------
(* An insert takes its seq and is seen by others when it commits.          *)
TakeSeq(e) ==
  /\ place[e] = 0 /\ \A f \in Facts : f < e => place[f] # 0
  /\ place' = [place EXCEPT ![e] = serial] /\ serial' = serial + 1
  /\ UNCHANGED <<filed, memorySeq, collecting, collector, behind, upto, parts, failures, relaunches,
                 pastVars>>

Passed(e) == \E c \in Collectors : collector[c] \in {"loaded", "read"} /\ place[e] <= upto[c]

CommitRow(e) ==
  /\ place[e] # 0 /\ e \notin filed
  /\ filed' = filed \union {e}
  /\ skipped' = IF place[e] <= memorySeq \/ Passed(e) THEN skipped \union {e} ELSE skipped
  /\ UNCHANGED <<place, serial, memorySeq, collecting, collector, behind, upto, parts, failures,
                 relaunches, taken, waived>>

(* The live run reads an injected message: its row moves behind all others.*)
MoveRow(e) ==
  /\ e \in (Said \intersect filed) \ waived
  /\ place' = [place EXCEPT ![e] = serial] /\ serial' = serial + 1
  /\ waived' = waived \union {e}
  /\ UNCHANGED <<filed, memorySeq, collecting, collector, behind, upto, parts, failures, relaunches,
                 taken, skipped>>

-----------------------------------------------------------------------------
(* One collection of a chat at a time; the other one is told so.           *)
BeginUnlocked(c) ==
  /\ collector[c] = "idle" /\ Fresh # {}
  /\ collecting' = TRUE
  /\ collector' = [collector EXCEPT ![c] = "begun"]
  /\ UNCHANGED <<logVars, memorySeq, behind, upto, parts, failures, relaunches, pastVars>>

BeginCollect(c) ==
  /\ collector[c] = "idle" /\ Fresh # {}
  /\ ~collecting /\ collecting' = TRUE
  /\ collector' = [collector EXCEPT ![c] = "begun"]
  /\ UNCHANGED <<logVars, memorySeq, behind, upto, parts, failures, relaunches, pastVars>>

ReadWatermark(c) ==
  /\ collector[c] = "begun"
  /\ behind' = [behind EXCEPT ![c] = memorySeq]
  /\ collector' = [collector EXCEPT ![c] = "marked"]
  /\ UNCHANGED <<logVars, memorySeq, collecting, upto, parts, failures, relaunches, pastVars>>

(* A collection of c is over: its lock is released, whatever it was at.    *)
Rests(c) ==
  /\ collector' = [collector EXCEPT ![c] = "idle"] /\ collecting' = FALSE
  /\ behind' = [behind EXCEPT ![c] = 0] /\ upto' = [upto EXCEPT ![c] = 0]
  /\ parts' = [parts EXCEPT ![c] = <<>>]

SeqsBehind(s) == {place[e] : e \in {f \in filed : place[f] > s}}

(* maxSeq: all there is behind the watermark; with nothing there it is     *)
(* over.                                                                   *)
ReadMaxSeq(c) ==
  /\ collector[c] = "marked"
  /\ IF SeqsBehind(behind[c]) = {}
     THEN Rests(c)
     ELSE /\ upto' = [upto EXCEPT ![c] = Max(SeqsBehind(behind[c]))]
          /\ collector' = [collector EXCEPT ![c] = "bounded"]
          /\ UNCHANGED <<collecting, behind, parts>>
  /\ UNCHANGED <<logVars, memorySeq, failures, relaunches, pastVars>>

(* The events between, cut in parts, of which the newest PartLimit stay.   *)
(* The last part carries the watermark past the end of the delta.          *)
Delta(c) == {e \in filed : behind[c] < place[e] /\ place[e] <= upto[c]}
InLogOrder(es) == CHOOSE q \in [1..Cardinality(es) -> es] :
                    \A i, j \in DOMAIN q : i < j => place[q[i]] < place[q[j]]
NParts(q) == (Len(q) + PartSize - 1) \div PartSize
Part(q, i, end) ==
  LET last == Min({i * PartSize, Len(q)}) IN
  [of   |-> ToSet(SubSeq(q, (i - 1) * PartSize + 1, last)),
   upTo |-> IF i = NParts(q) THEN end ELSE place[q[last]]]
SplitEvents(q, end) ==
  [i \in 1..Min({NParts(q), PartLimit}) |->
     Part(q, i + NParts(q) - Min({NParts(q), PartLimit}), end)]
Covered(ps) == UNION {ps[i].of : i \in DOMAIN ps}

Advance(seq) == memorySeq' = Max({seq, memorySeq})

LoadEvents(c) ==
  /\ collector[c] = "bounded"
  /\ LET kept == SplitEvents(InLogOrder(Delta(c)), upto[c]) IN
     IF Delta(c) \intersect Said = {}
     THEN /\ Advance(upto[c]) /\ Rests(c)
          /\ skipped' = skipped \union Delta(c)
     ELSE /\ parts' = [parts EXCEPT ![c] = kept]
          /\ skipped' = skipped \union (Delta(c) \ Covered(kept))
          /\ collector' = [collector EXCEPT ![c] = "loaded"]
          /\ UNCHANGED <<memorySeq, collecting, behind, upto>>
  /\ UNCHANGED <<logVars, failures, relaunches, taken, waived>>

-----------------------------------------------------------------------------
TakePart(c) == taken' = [e \in Facts |-> IF e \in Head(parts[c]).of THEN taken[e] + 1 ELSE taken[e]]

(* The model's answer is applied.                                          *)
ApplyReply(c) ==
  /\ collector[c] = "loaded"
  /\ TakePart(c)
  /\ collector' = [collector EXCEPT ![c] = "read"]
  /\ UNCHANGED <<logVars, memorySeq, collecting, behind, upto, parts, failures, relaunches, waived,
                 skipped>>

(* An answer that cannot be read is given up, the part with it.            *)
GiveUpPart(c) ==
  /\ collector[c] = "loaded"
  /\ skipped' = skipped \union Head(parts[c]).of
  /\ collector' = [collector EXCEPT ![c] = "read"]
  /\ UNCHANGED <<logVars, memorySeq, collecting, behind, upto, parts, failures, relaunches, taken,
                 waived>>

AdvanceFirst(c) ==
  /\ collector[c] = "loaded" /\ failures < MaxFailures /\ failures' = failures + 1
  /\ Advance(Head(parts[c]).upTo) /\ Rests(c)
  /\ UNCHANGED <<logVars, relaunches, pastVars>>

(* A provider error, of the model or of what saves the facts, leaves the   *)
(* watermark where it is; of this part some facts may be saved by then.    *)
ProviderFails(c) ==
  /\ collector[c] = "loaded" /\ failures < MaxFailures /\ failures' = failures + 1
  /\ \/ UNCHANGED <<taken, waived>>
     \/ TakePart(c) /\ waived' = waived \union Head(parts[c]).of
  /\ Rests(c)
  /\ UNCHANGED <<logVars, memorySeq, relaunches, skipped>>

(* advanceMemorySeq, never back; then the next part.                       *)
AdvanceMemorySeq(c) ==
  /\ collector[c] = "read"
  /\ Advance(Head(parts[c]).upTo)
  /\ IF Len(parts[c]) = 1
     THEN Rests(c)
     ELSE /\ parts' = [parts EXCEPT ![c] = Tail(@)]
          /\ collector' = [collector EXCEPT ![c] = "loaded"]
          /\ UNCHANGED <<collecting, behind, upto>>
  /\ UNCHANGED <<logVars, failures, relaunches, pastVars>>

(* A restart: what was applied is read again if the watermark stood yet.   *)
Reboot ==
  /\ relaunches < MaxRelaunches /\ relaunches' = relaunches + 1
  /\ collecting' = FALSE /\ collector' = [c \in Collectors |-> "idle"]
  /\ behind' = [c \in Collectors |-> 0] /\ upto' = [c \in Collectors |-> 0]
  /\ parts' = [c \in Collectors |-> <<>>]
  /\ waived' = waived \union
       UNION {Head(parts[c]).of : c \in {d \in Collectors : collector[d] = "read"}}
  /\ UNCHANGED <<logVars, memorySeq, failures, taken, skipped>>

-----------------------------------------------------------------------------
CollectGoesOn(c) ==
  \/ ReadWatermark(c) \/ ReadMaxSeq(c) \/ LoadEvents(c)
  \/ ApplyReply(c) \/ GiveUpPart(c) \/ AdvanceMemorySeq(c)

CollectorNext ==
  \/ \E e \in Facts : TakeSeq(e) \/ CommitRow(e) \/ MoveRow(e)
  \/ \E c \in Collectors : BeginCollect(c) \/ CollectGoesOn(c) \/ ProviderFails(c)
  \/ Reboot

(* The sweep comes every five minutes.                                     *)
CollectorFair == BeginCollect("sweep") \/ \E c \in Collectors : CollectGoesOn(c)
CollectorSpec == CollectorInit /\ [][CollectorNext]_collectVars /\ WF_collectVars(CollectorFair)

-----------------------------------------------------------------------------
(* Every variable of the collector keeps its type.                         *)
CollectorTypeOK ==
  /\ place \in [Facts -> 0..2 * NFacts] /\ serial \in 1..2 * NFacts + 1 /\ filed \subseteq Facts
  /\ memorySeq \in 0..2 * NFacts /\ collecting \in BOOLEAN
  /\ collector \in [Collectors -> {"idle", "begun", "marked", "bounded", "loaded", "read"}]
  /\ behind \in [Collectors -> 0..2 * NFacts] /\ upto \in [Collectors -> 0..2 * NFacts]
  /\ taken \in [Facts -> Nat] /\ waived \subseteq Facts /\ skipped \subseteq Facts

(* Each event is read at most once, whoever collects, but one whose row    *)
(* moved, and a part whose collection failed or was cut off once it had    *)
(* been applied.                                                           *)
ReadAtMostOnce == \A e \in Facts : taken[e] > 1 => e \in waived

(* The watermark passes nothing that was not read, but what is left out on *)
(* purpose and a row that was committed behind it.                         *)
NothingPassedOver == \A e \in filed : place[e] <= memorySeq => taken[e] > 0 \/ e \in skipped

(* What holds of the collector in every state.                             *)
CollectorSafe == CollectorTypeOK /\ ReadAtMostOnce /\ NothingPassedOver

(* The collector catches up with the conversation again and again, through *)
(* provider errors and restarts.                                           *)
CollectorCatchesUp == []<>(Fresh = {})
==============================================================================

-------------------------- MODULE RunEngineProofs ---------------------------
(***************************************************************************)
(* What holds of the run engine for any number of conversations, runs and  *)
(* messages, any inbox capacity and any features.                          *)
(*                                                                         *)
(* The log.  What the operators on a conversation's log return, for any log: *)
(* which events are kept, in which order readers see them, what a message  *)
(* moved behind the others leaves as it was, and which messages a replay   *)
(* hands to the model.  Keep and Ordered are recursive functions; their facts *)
(* are proved by induction over sets of numbers: a set that has 0 and, with *)
(* every number below a bound, the next one, has all numbers up to the bound. *)
(*                                                                         *)
(* The control state.  It has its type, a conversation has one live run, a *)
(* closed inbox is empty and a row that says running has somebody to end it. *)
(* None of the three is inductive alone.  Inv adds what the lock convMu    *)
(* protects between two steps of its holder (Lock, Alone), that a live run *)
(* has a row, so that no new run takes its place (HasRow), and what a      *)
(* goroutine has decided before a step uses it (Stages).                   *)
(*                                                                         *)
(* The outcome.  A run's row tells in the end how the run ended; what is   *)
(* added is that a run without a row does nothing yet, and that the run whose *)
(* tool holds convMu has a row.                                            *)
(*                                                                         *)
(* The data.  Every variable has its type: LogInv adds that each event of the *)
(* log is of a run with a row in that conversation, and Authored says of every *)
(* step who wrote the events it adds.                                      *)
(*                                                                         *)
(* Places (PlaceInv): who is tracked is at work, a run that is not stopped is *)
(* live until its last look at the inbox, runs are numbered in the order of *)
(* their rows, and only the newest run of a conversation is live or found by *)
(* a message.                                                              *)
(*                                                                         *)
(* A cut is final (CutInv): an edit or a deletion waits for every run still *)
(* tracked in its conversation, and the runs that are over when it cuts     *)
(* write nothing afterwards.                                               *)
(*                                                                         *)
(* What is accepted is read (ReadInv): every message a run was handed waits *)
(* for it, is in its history or has been read by a model, from the opening on; *)
(* when it ends "done" its inbox is empty and closed.  What /compact folds *)
(* behind its summary is not read, so this is of runs nobody asks to       *)
(* summarize.                                                              *)
(***************************************************************************)
EXTENDS RunEngine, SequenceFacts

-----------------------------------------------------------------------------
(* The log of a conversation, for any list of events.                      *)


(* A set of numbers that has 0 and every next one up to n has them all.    *)
LEMMA NumbersUpTo ==
  ASSUME NEW n \in Nat, NEW T, 0 \in T, \A k \in 0..n : k # n /\ k \in T => k + 1 \in T
  PROVE  \A k \in 0..n : k \in T
<1> SUFFICES ASSUME NEW m \in 0..n, m \notin T PROVE FALSE
  OBVIOUS
<1> DEFINE Out == {k \in 0..n : k \notin T}
<1>1. Out \in SUBSET Nat /\ Out # {}
  OBVIOUS
<1> HIDE DEF Out
<1>2. PICK x \in Out : \A y \in Out : x <= y
  BY <1>1, LeastNumber
<1>3. x \in 0..n /\ x \notin T /\ x # 0
  BY <1>2 DEF Out
<1>4. x - 1 \in 0..n /\ x - 1 # n /\ ~(x <= x - 1) /\ (x - 1) + 1 = x
  BY <1>3
<1>5. x - 1 \in T
  BY <1>2, <1>4 DEF Out
<1> QED
  BY <1>3, <1>4, <1>5

Stepwise(g, a, n, next) ==
  g[0] = a /\ \A i \in 1..n : g[i] = next[<<i, g[i - 1]>>]

(* What every step determines from the one before is determined.           *)
LEMMA StepByStep ==
  ASSUME NEW V, NEW a \in V, NEW n \in Nat, NEW next \in [(1..n) \X V -> V]
  PROVE  \E g \in [0..n -> V] : Stepwise(g, a, n, next)
<1> DEFINE Upto(g, k) == Stepwise(g, a, k, next)
           T == {k \in 0..n : \E g \in [0..k -> V] : Upto(g, k)}
<1>1. 0 \in T
  <2> DEFINE g == [i \in 0..0 |-> a]
  <2>1. g \in [0..0 -> V] /\ g[0] = a /\ 1..0 = {} /\ 0 \in 0..n
    OBVIOUS
  <2> HIDE DEF g
  <2>2. Upto(g, 0)
    BY <2>1 DEF Stepwise
  <2> HIDE DEF Upto
  <2> QED
    BY <2>1, <2>2
<1>2. ASSUME NEW k \in 0..n, k # n, k \in T PROVE k + 1 \in T
  <2>1. PICK g \in [0..k -> V] : Upto(g, k)
    BY <1>2
  <2> DEFINE h == [i \in 0..(k + 1) |-> IF i = k + 1 THEN next[<<k + 1, g[k]>>] ELSE g[i]]
  <2>2. k + 1 \in 1..n /\ k \in 0..k /\ g[k] \in V
    BY <1>2
  <2>3. next[<<k + 1, g[k]>>] \in V
    BY <2>2
  <2>4. \A i \in 0..(k + 1) : i = k + 1 \/ i \in 0..k
    BY <2>2
  <2>5. h \in [0..(k + 1) -> V]
    BY <2>3, <2>4
  <2>6. \A i \in 0..k : h[i] = g[i]
    BY <2>2
  <2>7. h[k + 1] = next[<<k + 1, g[k]>>]
    BY <2>2
  <2> HIDE DEF h
  <2>8. h[0] = a
    BY <2>1, <2>2, <2>6 DEF Stepwise
  <2>9. ASSUME NEW i \in 1..(k + 1) PROVE h[i] = next[<<i, h[i - 1]>>]
    <3>1. CASE i = k + 1
      <4>1. i - 1 = k /\ h[k] = g[k]
        BY <3>1, <2>2, <2>6
      <4> QED
        BY <3>1, <4>1, <2>7
    <3>2. CASE i # k + 1
      <4>1. i \in 1..k /\ i \in 0..k /\ i - 1 \in 0..k
        BY <3>2, <2>2
      <4>2. h[i] = g[i] /\ h[i - 1] = g[i - 1]
        BY <4>1, <2>6
      <4> QED
        BY <4>1, <4>2, <2>1 DEF Stepwise
    <3> QED
      BY <3>1, <3>2
  <2>10. k + 1 \in 0..n
    BY <1>2
  <2>11. Upto(h, k + 1)
    BY <2>8, <2>9 DEF Stepwise
  <2> HIDE DEF Upto
  <2> QED
    BY <2>5, <2>10, <2>11
<1> HIDE DEF T
<1>3. \A k \in 0..n : k \in T
  BY <1>1, <1>2, NumbersUpTo
<1>4. n \in 0..n
  OBVIOUS
<1> QED
  BY <1>3, <1>4 DEF T

-----------------------------------------------------------------------------
(* Keep.                                                                   *)

(* The steps by which Keep builds its result. *)
KeepsBy(f, s, K, n) ==
  /\ f[0] = << >>
  /\ \A i \in 1..n : f[i] = IF s[i] \in K THEN Append(f[i - 1], s[i]) ELSE f[i - 1]
  /\ Keep(s, K) = f[n]

(* Keep goes through the list element by element. *)
LEMMA KeepSteps ==
  ASSUME NEW S, NEW s \in Seq(S), NEW K
  PROVE  \E f \in [0..Len(s) -> Seq(S)] : KeepsBy(f, s, K, Len(s))
<1> DEFINE n == Len(s)
           Step(g) == [i \in 0..n |-> IF i = 0 THEN << >>
                                      ELSE IF s[i] \in K THEN Append(g[i - 1], s[i]) ELSE g[i - 1]]
           next == [p \in (1..n) \X Seq(S) |->
                      IF s[p[1]] \in K THEN Append(p[2], s[p[1]]) ELSE p[2]]
           kept == CHOOSE g : g = Step(g)
<1>1. n \in Nat /\ \A i \in 1..n : s[i] \in S
  OBVIOUS
<1>2. next \in [(1..n) \X Seq(S) -> Seq(S)]
  BY <1>1
<1>3. \A i \in 1..n : \A q \in Seq(S) :
        next[<<i, q>>] = IF s[i] \in K THEN Append(q, s[i]) ELSE q
  OBVIOUS
<1>4. << >> \in Seq(S)
  OBVIOUS
<1> HIDE DEF next
<1> HIDE DEF n
<1>5. \E g \in [0..n -> Seq(S)] : Stepwise(g, << >>, n, next)
  BY <1>1, <1>2, <1>4, StepByStep
<1>5a. PICK g \in [0..n -> Seq(S)] : g[0] = << >> /\ \A i \in 1..n : g[i] = next[<<i, g[i - 1]>>]
  BY <1>5 DEF Stepwise
<1>6. \A i \in 1..n : i - 1 \in 0..n /\ i \in 0..n /\ i # 0
  BY <1>1
<1>7. \A i \in 1..n : g[i] = IF s[i] \in K THEN Append(g[i - 1], s[i]) ELSE g[i - 1]
  BY <1>3, <1>5a, <1>6
<1>8. \A i \in 0..n : i = 0 \/ i \in 1..n
  BY <1>1
<1>9. g = Step(g)
  <2>1. DOMAIN g = 0..n /\ DOMAIN Step(g) = 0..n /\ g = [i \in 0..n |-> g[i]]
    BY <1>5a
  <2>2. \A i \in 0..n : g[i] = Step(g)[i]
    BY <1>5a, <1>6, <1>7, <1>8
  <2> QED
    BY <2>1, <2>2
<1>10. kept = Step(kept)
  BY <1>9
<1>11. Keep(s, K) = kept[n]
  BY DEF Keep, n
<1> HIDE DEF kept
<1>12. /\ kept[0] = << >>
       /\ \A i \in 1..n : kept[i] = IF s[i] \in K THEN Append(kept[i - 1], s[i]) ELSE kept[i - 1]
       /\ kept = [i \in 0..n |-> kept[i]]
  <2>1. \A i \in 0..n : kept[i] = Step(kept)[i]
    BY <1>10
  <2>2. 0 \in 0..n
    BY <1>1
  <2> QED
    BY <1>6, <1>10, <2>1, <2>2
<1> DEFINE T == {k \in 0..n : kept[k] \in Seq(S)}
<1>13. 0 \in T
  <2>1. 0 \in 0..n
    BY <1>1
  <2> QED
    BY <1>4, <1>12, <2>1
<1>14. ASSUME NEW k \in 0..n, k # n, k \in T PROVE k + 1 \in T
  <2>1. k + 1 \in 1..n /\ k + 1 \in 0..n /\ (k + 1) - 1 = k
    BY <1>1, <1>14
  <2>2. kept[k + 1] = IF s[k + 1] \in K THEN Append(kept[k], s[k + 1]) ELSE kept[k]
    BY <2>1, <1>12
  <2>3. kept[k] \in Seq(S) /\ s[k + 1] \in S
    BY <2>1, <1>1, <1>14
  <2>4. Append(kept[k], s[k + 1]) \in Seq(S)
    BY <2>3
  <2>5. kept[k + 1] \in Seq(S)
    BY <2>2, <2>3, <2>4
  <2> QED
    BY <2>1, <2>5
<1> HIDE DEF T
<1>15. \A k \in 0..n : k \in T
  BY <1>1, <1>13, <1>14, NumbersUpTo
<1>16. kept \in [0..n -> Seq(S)]
  BY <1>12, <1>15 DEF T
<1>17. KeepsBy(kept, s, K, n)
  BY <1>11, <1>12 DEF KeepsBy
<1> QED
  BY <1>16, <1>17 DEF n

(* Keep drops what is not in K and nothing else. *)
LEMMA KeepElements ==
  ASSUME NEW S, NEW s \in Seq(S), NEW K
  PROVE  Keep(s, K) \in Seq(S) /\ ToSet(Keep(s, K)) = ToSet(s) \cap K
<1> DEFINE n == Len(s)
<1>1. n \in Nat /\ DOMAIN s = 1..n /\ \A i \in 1..n : s[i] \in S
  OBVIOUS
<1>0. \E f \in [0..n -> Seq(S)] : KeepsBy(f, s, K, n)
  BY KeepSteps
<1> HIDE DEF n
<1>2. PICK f \in [0..n -> Seq(S)] :
        /\ f[0] = << >>
        /\ \A i \in 1..n : f[i] = IF s[i] \in K THEN Append(f[i - 1], s[i]) ELSE f[i - 1]
        /\ Keep(s, K) = f[n]
  BY <1>0 DEF KeepsBy
<1> DEFINE T == {k \in 0..n : ToSet(f[k]) = {s[i] : i \in 1..k} \cap K}
<1>3. 0 \in T
  <2>1. 0 \in 0..n /\ 1..0 = {}
    BY <1>1
  <2>2. ToSet(f[0]) = {}
    BY <1>2 DEF ToSet
  <2> QED
    BY <2>1, <2>2
<1>4. ASSUME NEW k \in 0..n, k # n, k \in T PROVE k + 1 \in T
  <2>1. k + 1 \in 1..n /\ k + 1 \in 0..n /\ (k + 1) - 1 = k
    BY <1>1, <1>4
  <2>2. f[k + 1] = IF s[k + 1] \in K THEN Append(f[k], s[k + 1]) ELSE f[k]
    BY <2>1, <1>2
  <2>3. f[k] \in Seq(S) /\ s[k + 1] \in S
    BY <2>1, <1>1, <1>2
  <2>4. ToSet(Append(f[k], s[k + 1])) = ToSet(f[k]) \cup {s[k + 1]}
    BY <2>3, ElementsOf
  <2>5. {s[i] : i \in 1..(k + 1)} = {s[i] : i \in 1..k} \cup {s[k + 1]}
    <3>1. \A i \in 1..(k + 1) : i \in 1..k \/ i = k + 1
      BY <2>1
    <3>2. 1..k \subseteq 1..(k + 1) /\ k + 1 \in 1..(k + 1)
      BY <2>1
    <3> QED
      BY <3>1, <3>2
  <2>6. ToSet(f[k + 1]) = {s[i] : i \in 1..(k + 1)} \cap K
    BY <2>2, <2>4, <2>5, <1>4
  <2> QED
    BY <2>1, <2>6
<1> HIDE DEF T
<1>4a. \A k \in 0..n : k \in T
  BY <1>1, <1>3, <1>4, NumbersUpTo
<1>4b. n \in 0..n
  BY <1>1
<1>5. n \in T
  BY <1>4a, <1>4b
<1>6. ToSet(s) = {s[i] : i \in 1..n}
  BY <1>1 DEF ToSet
<1> QED
  BY <1>1, <1>2, <1>5, <1>6 DEF T
(* How a list t is drawn from a list s: from which place each element is    *)
(* taken, and that they keep their order and leave out no place in P.       *)
Drawn(t, s, h, P) ==
  /\ h \in [DOMAIN t -> DOMAIN s]
  /\ \A i \in DOMAIN t : t[i] = s[h[i]] /\ h[i] \in P
  /\ \A i, j \in DOMAIN t : i < j => h[i] < h[j]
  /\ \A p \in P : \E i \in DOMAIN t : h[i] = p

(* Keep keeps the order. *)
LEMMA KeepOrder ==
  ASSUME NEW S, NEW s \in Seq(S), NEW K
  PROVE  \E h : Drawn(Keep(s, K), s, h, {p \in DOMAIN s : s[p] \in K})
<1> DEFINE n == Len(s)
           From(k) == {p \in 1..k : s[p] \in K}
<1>1. n \in Nat /\ DOMAIN s = 1..n /\ \A i \in 1..n : s[i] \in S
  OBVIOUS
<1>0. \E f \in [0..n -> Seq(S)] : KeepsBy(f, s, K, n)
  BY KeepSteps
<1> HIDE DEF n
<1>2. PICK f \in [0..n -> Seq(S)] :
        /\ f[0] = << >>
        /\ \A i \in 1..n : f[i] = IF s[i] \in K THEN Append(f[i - 1], s[i]) ELSE f[i - 1]
        /\ Keep(s, K) = f[n]
  BY <1>0 DEF KeepsBy
<1> DEFINE T == {k \in 0..n : \E h : Drawn(f[k], s, h, From(k))}
<1>3. 0 \in T
  <2>1. 0 \in 0..n /\ 1..0 = {}
    BY <1>1
  <2>2. DOMAIN f[0] = {}
    BY <1>2
  <2>3. [i \in {} |-> 0] \in [{} -> DOMAIN s]
    OBVIOUS
  <2>4. Drawn(f[0], s, [i \in {} |-> 0], From(0))
    BY <2>1, <2>2, <2>3 DEF Drawn
  <2> QED
    BY <2>1, <2>4
<1>4. ASSUME NEW k \in 0..n, k # n, k \in T PROVE k + 1 \in T
  <2>1. k + 1 \in 1..n /\ k + 1 \in 0..n /\ (k + 1) - 1 = k /\ k \in Nat
    BY <1>1, <1>4
  <2>2. f[k + 1] = IF s[k + 1] \in K THEN Append(f[k], s[k + 1]) ELSE f[k]
    BY <2>1, <1>2
  <2>3. f[k] \in Seq(S) /\ s[k + 1] \in S
    BY <2>1, <1>1, <1>2
  <2>4. PICK h : Drawn(f[k], s, h, From(k))
    BY <1>4
  <2>5. \A p \in 1..(k + 1) : p \in 1..k \/ p = k + 1
    BY <2>1
  <2>6. 1..k \subseteq 1..(k + 1) /\ k + 1 \in 1..(k + 1)
    BY <2>1
  <2>7. CASE s[k + 1] \notin K
    <3>1. From(k + 1) = From(k)
      BY <2>5, <2>6, <2>7
    <3> QED
      BY <2>1, <2>2, <2>4, <2>7, <3>1
  <2>8. CASE s[k + 1] \in K
    <3> DEFINE t == Append(f[k], s[k + 1])
               m == Len(f[k]) + 1
               g == [i \in 1..m |-> IF i = m THEN k + 1 ELSE h[i]]
    <3>1. /\ m \in Nat /\ DOMAIN t = 1..m /\ DOMAIN f[k] = 1..(m - 1) /\ t[m] = s[k + 1]
          /\ \A i \in 1..(m - 1) : t[i] = f[k][i]
      BY <2>3
    <3>2. \A i \in 1..m : i = m \/ i \in 1..(m - 1)
      BY <3>1
    <3>3. 1..(m - 1) \subseteq 1..m /\ m \in 1..m /\ m \notin 1..(m - 1)
      BY <3>1
    <3> HIDE DEF t, m
    <3>4. g[m] = k + 1 /\ \A i \in 1..(m - 1) : g[i] = h[i]
      BY <3>3
    <3>5. g \in [1..m -> DOMAIN s]
      BY <1>1, <2>1, <2>4, <3>1, <3>2 DEF Drawn
    <3> HIDE DEF g
    <3>6. From(k + 1) = From(k) \cup {k + 1}
      BY <2>5, <2>6, <2>8
    <3>7. \A i \in 1..m : t[i] = s[g[i]] /\ g[i] \in From(k + 1)
      BY <2>4, <3>1, <3>2, <3>4, <3>6 DEF Drawn
    <3>8. ASSUME NEW i \in 1..m, NEW j \in 1..m, i < j PROVE g[i] < g[j]
      <4>1. i \in 1..(m - 1)
        BY <3>8, <3>1
      <4>2. CASE j = m
        <5>1. h[i] \in From(k) /\ g[i] = h[i] /\ g[j] = k + 1
          BY <2>4, <3>1, <3>4, <4>1, <4>2 DEF Drawn
        <5>2. h[i] \in 1..k
          BY <5>1
        <5> QED
          BY <5>1, <5>2, <2>1
      <4>3. CASE j \in 1..(m - 1)
        BY <2>4, <3>1, <3>4, <3>8, <4>1, <4>3 DEF Drawn
      <4> QED
        BY <3>2, <4>2, <4>3
    <3>9. \A p \in From(k + 1) : \E i \in 1..m : g[i] = p
      <4> SUFFICES ASSUME NEW p \in From(k + 1) PROVE \E i \in 1..m : g[i] = p
        OBVIOUS
      <4>1. CASE p = k + 1
        BY <3>3, <3>4, <4>1
      <4>2. CASE p \in From(k)
        BY <2>4, <3>1, <3>3, <3>4, <4>2 DEF Drawn
      <4> QED
        BY <3>6, <4>1, <4>2
    <3>10. Drawn(t, s, g, From(k + 1))
      BY <3>1, <3>5, <3>7, <3>8, <3>9 DEF Drawn
    <3> QED
      BY <2>1, <2>2, <2>8, <3>10 DEF t
  <2> QED
    BY <2>7, <2>8
<1> HIDE DEF T
<1>4a. \A k \in 0..n : k \in T
  BY <1>1, <1>3, <1>4, NumbersUpTo
<1>4b. n \in 0..n
  BY <1>1
<1>5. n \in T
  BY <1>4a, <1>4b
<1>6. From(n) = {p \in DOMAIN s : s[p] \in K}
  BY <1>1
<1> QED
  BY <1>2, <1>5, <1>6 DEF T

-----------------------------------------------------------------------------
(* Ordered.                                                                *)

ByRun(s, r) == {e \in ToSet(s) : e.run = r}

(* The steps by which Ordered builds its result. *)
LEMMA OrderedSteps ==
  ASSUME NEW s \in Seq(Event)
  PROVE  \E f \in [0..NRuns -> Seq(Event)] :
           /\ f[0] = << >>
           /\ \A r \in 1..NRuns : f[r] = f[r - 1] \o Keep(s, ByRun(s, r))
           /\ Ordered(s) = f[NRuns]
<1> DEFINE Step(g) == [r \in 0..NRuns |-> IF r = 0 THEN << >>
                        ELSE g[r - 1] \o Keep(s, {e \in ToSet(s) : e.run = r})]
           next == [p \in (1..NRuns) \X Seq(Event) |-> p[2] \o Keep(s, ByRun(s, p[1]))]
           upTo == CHOOSE g : g = Step(g)
<1>1. NRuns \in Nat
  BY NRunsAssumption
<1>2. \A r \in 1..NRuns : Keep(s, ByRun(s, r)) \in Seq(Event)
  BY KeepElements
<1>3. next \in [(1..NRuns) \X Seq(Event) -> Seq(Event)]
  BY <1>2
<1>4. \A r \in 1..NRuns : \A q \in Seq(Event) : next[<<r, q>>] = q \o Keep(s, ByRun(s, r))
  OBVIOUS
<1>5. << >> \in Seq(Event)
  OBVIOUS
<1> HIDE DEF next
<1>5a. \E g \in [0..NRuns -> Seq(Event)] : Stepwise(g, << >>, NRuns, next)
  BY <1>1, <1>3, <1>5, StepByStep
<1>6. PICK g \in [0..NRuns -> Seq(Event)] :
        g[0] = << >> /\ \A r \in 1..NRuns : g[r] = next[<<r, g[r - 1]>>]
  BY <1>5a DEF Stepwise
<1>7. \A r \in 1..NRuns : r - 1 \in 0..NRuns /\ r \in 0..NRuns /\ r # 0
  BY <1>1
<1>8. \A r \in 0..NRuns : r = 0 \/ r \in 1..NRuns
  BY <1>1
<1>9. \A r \in 1..NRuns : g[r] = g[r - 1] \o Keep(s, ByRun(s, r))
  BY <1>4, <1>6, <1>7
<1>10. g = Step(g)
  <2>1. DOMAIN g = 0..NRuns /\ DOMAIN Step(g) = 0..NRuns /\ g = [r \in 0..NRuns |-> g[r]]
    BY <1>6
  <2>2. \A r \in 0..NRuns : g[r] = Step(g)[r]
    BY <1>6, <1>7, <1>8, <1>9 DEF ByRun
  <2> QED
    BY <2>1, <2>2
<1>11. upTo = Step(upTo)
  BY <1>10
<1>12. Ordered(s) = upTo[NRuns]
  BY DEF Ordered
<1> HIDE DEF upTo
<1>13. /\ upTo[0] = << >>
       /\ \A r \in 1..NRuns : upTo[r] = upTo[r - 1] \o Keep(s, ByRun(s, r))
       /\ upTo = [r \in 0..NRuns |-> upTo[r]]
  <2>1. \A r \in 0..NRuns : upTo[r] = Step(upTo)[r]
    BY <1>11
  <2>2. 0 \in 0..NRuns
    BY <1>1
  <2> QED
    BY <1>7, <1>11, <2>1, <2>2 DEF ByRun
<1> DEFINE T == {k \in 0..NRuns : upTo[k] \in Seq(Event)}
<1>14. 0 \in T
  <2>1. 0 \in 0..NRuns
    BY <1>1
  <2> QED
    BY <1>5, <1>13, <2>1
<1>15. ASSUME NEW k \in 0..NRuns, k # NRuns, k \in T PROVE k + 1 \in T
  <2>1. k + 1 \in 1..NRuns /\ k + 1 \in 0..NRuns /\ (k + 1) - 1 = k
    BY <1>1, <1>15
  <2>2. upTo[k + 1] = upTo[k] \o Keep(s, ByRun(s, k + 1))
    BY <2>1, <1>13
  <2>3. upTo[k] \in Seq(Event) /\ Keep(s, ByRun(s, k + 1)) \in Seq(Event)
    BY <2>1, <1>2, <1>15
  <2>4. upTo[k + 1] \in Seq(Event)
    BY <2>2, <2>3
  <2> QED
    BY <2>1, <2>4
<1> HIDE DEF T
<1>16. \A k \in 0..NRuns : k \in T
  BY <1>1, <1>14, <1>15, NumbersUpTo
<1>17. upTo \in [0..NRuns -> Seq(Event)]
  BY <1>13, <1>16 DEF T
<1> QED
  BY <1>12, <1>13, <1>17

(* How t puts a part of log s in the order of the runs: from which place    *)
(* each event is taken, runs one after the other, each in the log's order,  *)
(* and no place of P left out.                                              *)
RunByRun(t, s, h, P) ==
  /\ h \in [DOMAIN t -> DOMAIN s]
  /\ \A i \in DOMAIN t : t[i] = s[h[i]] /\ h[i] \in P
  /\ \A i, j \in DOMAIN t : i < j =>
       t[i].run < t[j].run \/ (t[i].run = t[j].run /\ h[i] < h[j])
  /\ \A p \in P : \E i \in DOMAIN t : h[i] = p

(* Readers see every event, run by run, each run's in the log's order. *)
LEMMA OrderedIs ==
  ASSUME NEW s \in Seq(Event)
  PROVE  /\ Ordered(s) \in Seq(Event) /\ ToSet(Ordered(s)) = ToSet(s)
         /\ \E h : RunByRun(Ordered(s), s, h, DOMAIN s)
<1> DEFINE Places(k) == {p \in DOMAIN s : s[p].run \in 1..k}
<1>1. NRuns \in Nat
  BY NRunsAssumption
<1>2. PICK f \in [0..NRuns -> Seq(Event)] :
        /\ f[0] = << >>
        /\ \A r \in 1..NRuns : f[r] = f[r - 1] \o Keep(s, ByRun(s, r))
        /\ Ordered(s) = f[NRuns]
  BY OrderedSteps
<1>e. \A p \in DOMAIN s : s[p] \in Event /\ s[p].run \in 1..NRuns /\ s[p] \in ToSet(s)
  <2>1. \A p \in DOMAIN s : s[p] \in Event
    OBVIOUS
  <2>2. \A e \in Event : e.run \in 1..NRuns
    BY DEF Event, Runs
  <2> QED
    BY <2>1, <2>2 DEF ToSet
<1> DEFINE T == {k \in 0..NRuns : \E h : RunByRun(f[k], s, h, Places(k))}
<1>3. 0 \in T
  <2>1. 0 \in 0..NRuns /\ 1..0 = {}
    BY <1>1
  <2>2. DOMAIN f[0] = {}
    BY <1>2
  <2>3. [i \in {} |-> 0] \in [{} -> DOMAIN s]
    OBVIOUS
  <2>4. RunByRun(f[0], s, [i \in {} |-> 0], Places(0))
    BY <2>1, <2>2, <2>3 DEF RunByRun
  <2> QED
    BY <2>1, <2>4
<1>4. ASSUME NEW k \in 0..NRuns, k # NRuns, k \in T PROVE k + 1 \in T
  <2> DEFINE q == Keep(s, ByRun(s, k + 1))
             P == {p \in DOMAIN s : s[p] \in ByRun(s, k + 1)}
  <2>1. k + 1 \in 1..NRuns /\ k + 1 \in 0..NRuns /\ (k + 1) - 1 = k /\ k \in Nat
    BY <1>1, <1>4
  <2>2. f[k + 1] = f[k] \o q
    BY <2>1, <1>2
  <2>3. f[k] \in Seq(Event)
    BY <1>2
  <2>4. PICK h : RunByRun(f[k], s, h, Places(k))
    BY <1>4
  <2>5. q \in Seq(Event) /\ \E g : Drawn(q, s, g, P)
    <3>1. \A K : Keep(s, K) \in Seq(Event)
      BY KeepElements
    <3>2. \A K : \E g : Drawn(Keep(s, K), s, g, {p \in DOMAIN s : s[p] \in K})
      BY KeepOrder
    <3> QED
      BY <3>1, <3>2
  <2>6. PICK g : Drawn(q, s, g, P)
    BY <2>5
  <2>7. P = {p \in DOMAIN s : s[p].run = k + 1}
    BY <1>e DEF ByRun
  <2> HIDE DEF q, P
  <2> DEFINE a == Len(f[k])
             b == Len(q)
             t == f[k] \o q
             j == [i \in 1..(a + b) |-> IF i \in 1..a THEN h[i] ELSE g[i - a]]
  <2>8. /\ a \in Nat /\ b \in Nat /\ DOMAIN t = 1..(a + b) /\ DOMAIN f[k] = 1..a /\ DOMAIN q = 1..b
        /\ \A i \in 1..a : t[i] = f[k][i]
        /\ \A i \in 1..b : t[a + i] = q[i]
    BY <2>3, <2>5
  <2> HIDE DEF a, b, t
  <2>9. /\ \A i \in 1..(a + b) : i \in 1..a \/ (i - a \in 1..b /\ i \notin 1..a /\ i = a + (i - a))
        /\ 1..a \subseteq 1..(a + b)
        /\ \A i \in 1..b : a + i \in 1..(a + b) /\ a + i \notin 1..a /\ (a + i) - a = i
    BY <2>8
  <2>10. /\ \A i \in 1..a : j[i] = h[i] /\ t[i] = s[h[i]] /\ h[i] \in Places(k)
         /\ \A i \in 1..b : j[a + i] = g[i] /\ t[a + i] = s[g[i]] /\ g[i] \in P
    BY <2>4, <2>6, <2>8, <2>9 DEF RunByRun, Drawn
  <2>11. j \in [1..(a + b) -> DOMAIN s]
    <3>1. \A i \in 1..a : h[i] \in DOMAIN s
      BY <2>4, <2>8 DEF RunByRun
    <3>2. \A i \in 1..b : g[i] \in DOMAIN s
      BY <2>6, <2>8 DEF Drawn
    <3> QED
      BY <2>9, <3>1, <3>2
  <2> HIDE DEF j
  <2>12. Places(k) \subseteq Places(k + 1) /\ P \subseteq Places(k + 1)
    BY <2>1, <2>7
  <2>13. \A i \in 1..(a + b) : t[i] = s[j[i]] /\ j[i] \in Places(k + 1)
    BY <2>9, <2>10, <2>12
  <2>14. ASSUME NEW x \in 1..(a + b), NEW y \in 1..(a + b), x < y
         PROVE  t[x].run < t[y].run \/ (t[x].run = t[y].run /\ j[x] < j[y])
    <3>1. CASE x \in 1..a /\ y \in 1..a
      <4>1. f[k][x].run < f[k][y].run \/ (f[k][x].run = f[k][y].run /\ h[x] < h[y])
        BY <2>4, <2>8, <2>14, <3>1 DEF RunByRun
      <4> QED
        BY <4>1, <3>1, <2>8, <2>10
    <3>2. CASE x \in 1..a /\ y - a \in 1..b /\ y = a + (y - a)
      <4>1. t[x].run \in 1..k
        BY <2>10, <3>2
      <4>2. t[y].run = k + 1
        BY <2>7, <2>10, <3>2
      <4> QED
        BY <4>1, <4>2, <2>1
    <3>3. CASE x - a \in 1..b /\ x = a + (x - a) /\ y - a \in 1..b /\ y = a + (y - a)
      <4>1. x - a < y - a
        BY <3>3, <2>14, <2>8
      <4>2. g[x - a] < g[y - a]
        BY <4>1, <3>3, <2>6, <2>8 DEF Drawn
      <4>3. t[x].run = k + 1 /\ t[y].run = k + 1 /\ j[x] = g[x - a] /\ j[y] = g[y - a]
        BY <3>3, <2>7, <2>10
      <4> QED
        BY <4>2, <4>3
    <3>4. ~(x \notin 1..a /\ y \in 1..a)
      BY <2>8, <2>14
    <3> QED
      BY <3>1, <3>2, <3>3, <3>4, <2>9
  <2>15. \A p \in Places(k + 1) : \E i \in 1..(a + b) : j[i] = p
    <3> SUFFICES ASSUME NEW p \in Places(k + 1) PROVE \E i \in 1..(a + b) : j[i] = p
      OBVIOUS
    <3>1. p \in Places(k) \/ p \in P
      <4>1. s[p].run \in 1..k \/ s[p].run = k + 1
        BY <2>1
      <4> QED
        BY <4>1, <2>7
    <3>2. CASE p \in Places(k)
      <4> HIDE DEF Places
      <4>1. PICK i \in 1..a : h[i] = p
        BY <3>2, <2>4, <2>8 DEF RunByRun
      <4> QED
        BY <4>1, <2>9, <2>10
    <3>3. CASE p \in P
      <4>1. PICK i \in 1..b : g[i] = p
        BY <3>3, <2>6, <2>8 DEF Drawn
      <4> QED
        BY <4>1, <2>9, <2>10
    <3> QED
      BY <3>1, <3>2, <3>3
  <2>16. RunByRun(t, s, j, Places(k + 1))
    BY <2>8, <2>11, <2>13, <2>14, <2>15 DEF RunByRun
  <2> QED
    BY <2>1, <2>2, <2>16 DEF t
<1> HIDE DEF T
<1>4a. \A k \in 0..NRuns : k \in T
  BY <1>1, <1>3, <1>4, NumbersUpTo
<1>4b. NRuns \in 0..NRuns
  BY <1>1
<1>5. NRuns \in T
  BY <1>4a, <1>4b
<1>6. Places(NRuns) = DOMAIN s
  BY <1>e
<1>7. PICK h : RunByRun(Ordered(s), s, h, DOMAIN s)
  BY <1>2, <1>5, <1>6 DEF T
<1>8. Ordered(s) \in Seq(Event)
  BY <1>1, <1>2
<1>9. ToSet(Ordered(s)) = ToSet(s)
  BY <1>7 DEF RunByRun, ToSet
<1> QED
  BY <1>7, <1>8, <1>9

-----------------------------------------------------------------------------
(* Events.                                                                 *)

(* The fields of an event. *)
LEMMA EventHas ==
  ASSUME NEW e \in Event
  PROVE  /\ e.run \in Runs /\ e.n \in Nat /\ e.kind \in Kinds
         /\ e.msg \in Msgs \cup {NoMsg} /\ e.after \in EventIds /\ IdOf(e) \in EventIds
BY DEF Event, IdOf, EventIds

(* A run's next event is one, numbered behind those it has in the log.     *)
LEMMA NewEventIs ==
  ASSUME NEW s \in Seq(Event), NEW r \in Runs, NEW kind \in Kinds,
         NEW m \in Msgs \cup {NoMsg}, NEW after \in EventIds
  PROVE  /\ NewEvent(s, r, kind, m, after) \in Event
         /\ NewEvent(s, r, kind, m, after).run = r
         /\ NewEvent(s, r, kind, m, after).kind = kind
         /\ NewEvent(s, r, kind, m, after).msg = m
<1> DEFINE T == {k \in 0..Len(s) : \E b \in Nat : \A i \in 1..k : s[i].n <= b}
           Mine == {0} \cup OrdinalsOf(s, r)
<1>1. Len(s) \in Nat /\ DOMAIN s = 1..Len(s) /\ \A i \in 1..Len(s) : s[i].n \in Nat
  BY EventHas
<1>2. 0 \in T
  <2>1. 0 \in 0..Len(s) /\ 1..0 = {}
    BY <1>1
  <2> QED
    BY <2>1
<1>3. ASSUME NEW k \in 0..Len(s), k # Len(s), k \in T PROVE k + 1 \in T
  <2>1. PICK b \in Nat : \A i \in 1..k : s[i].n <= b
    BY <1>3
  <2>2. k + 1 \in 1..Len(s) /\ k + 1 \in 0..Len(s) /\ \A i \in 1..(k + 1) : i \in 1..k \/ i = k + 1
    <3>0. \A n \in Nat : \A j \in 0..n : j # n => j \in Nat /\ j < n
      OBVIOUS
    <3>1. k \in Nat /\ k < Len(s)
      BY <1>1, <1>3, <3>0
    <3>2. k + 1 \in 1..Len(s) /\ k + 1 \in 0..Len(s)
      BY <1>1, <3>1
    <3>3. \A i \in 1..(k + 1) : i \in 1..k \/ i = k + 1
      BY <3>1
    <3> QED
      BY <3>2, <3>3
  <2>3. s[k + 1].n \in Nat /\ \A i \in 1..k : i \in 1..Len(s)
    BY <1>1, <2>2
  <2> DEFINE c == b + s[k + 1].n
  <2>4. c \in Nat /\ b <= c /\ s[k + 1].n <= c
    BY <2>3
  <2> HIDE DEF c
  <2>5. \A i \in 1..(k + 1) : s[i].n <= c
    <3> SUFFICES ASSUME NEW i \in 1..(k + 1) PROVE s[i].n <= c
      OBVIOUS
    <3>1. CASE i = k + 1
      BY <3>1, <2>4
    <3>2. CASE i \in 1..k
      <4>1. s[i].n \in Nat /\ s[i].n <= b
        BY <3>2, <2>1, <2>3, <1>1
      <4> QED
        BY <4>1, <2>4
    <3> QED
      BY <3>1, <3>2, <2>2
  <2> QED
    BY <2>2, <2>4, <2>5
<1> HIDE DEF T
<1>4. \A k \in 0..Len(s) : k \in T
  BY <1>1, <1>2, <1>3, NumbersUpTo
<1>5. Len(s) \in 0..Len(s)
  BY <1>1
<1>6. PICK b \in Nat : \A i \in 1..Len(s) : s[i].n <= b
  BY <1>4, <1>5 DEF T
<1>7. Mine \in SUBSET (0..b) /\ Mine # {}
  <2>1. \A i \in DOMAIN s : s[i].n \in 0..b
    BY <1>1, <1>6
  <2>2. 0 \in 0..b
    OBVIOUS
  <2> QED
    BY <2>1, <2>2 DEF OrdinalsOf
<1> HIDE DEF Mine
<1>8. Max(Mine) \in 0..b
  BY <1>7, MaxIs
<1>9. Max(Mine) + 1 \in Nat
  BY <1>8
<1> QED
  BY <1>9 DEF Mine, NewEvent, Event

(* What a message moved behind the others leaves: the same events, those   *)
(* of M at the end, and both parts in the order they had.                  *)
Rearranged(t, s, h, M) ==
  /\ h \in [DOMAIN t -> DOMAIN s]
  /\ \A i \in DOMAIN t : t[i] = s[h[i]]
  /\ \A i, j \in DOMAIN t : i < j =>
       \/ (t[i] \in M <=> t[j] \in M) /\ h[i] < h[j]
       \/ t[i] \notin M /\ t[j] \in M
  /\ \A p \in DOMAIN s : \E i \in DOMAIN t : h[i] = p

(* Two parts of a list, drawn in order and joined, are the list with the   *)
(* second part behind.                                                     *)
LEMMA JoinIs ==
  ASSUME NEW s \in Seq(Event), NEW M, NEW U, NEW V, NEW u \in Seq(Event), NEW v \in Seq(Event),
         NEW g, NEW k, Drawn(u, s, g, U), Drawn(v, s, k, V),
         \A p \in DOMAIN s : p \in U \/ p \in V,
         \A p \in U : s[p] \notin M, \A p \in V : s[p] \in M
  PROVE  \E h : Rearranged(u \o v, s, h, M)
<1> DEFINE t == u \o v
           a == Len(u)
           b == Len(v)
           h == [i \in 1..(a + b) |-> IF i \in 1..a THEN g[i] ELSE k[i - a]]
<1>8. /\ a \in Nat /\ b \in Nat /\ DOMAIN t = 1..(a + b) /\ DOMAIN u = 1..a /\ DOMAIN v = 1..b
      /\ \A i \in 1..a : t[i] = u[i]
      /\ \A i \in 1..b : t[a + i] = v[i]
  OBVIOUS
<1> HIDE DEF a, b, t
<1>9. /\ \A i \in 1..(a + b) : i \in 1..a \/ (i - a \in 1..b /\ i \notin 1..a /\ i = a + (i - a))
      /\ 1..a \subseteq 1..(a + b)
      /\ \A i \in 1..b : a + i \in 1..(a + b) /\ a + i \notin 1..a /\ (a + i) - a = i
  BY <1>8
<1>10. /\ \A i \in 1..a : h[i] = g[i] /\ t[i] = s[g[i]] /\ g[i] \in U
       /\ \A i \in 1..b : h[a + i] = k[i] /\ t[a + i] = s[k[i]] /\ k[i] \in V
  BY <1>8, <1>9 DEF Drawn
<1>11. h \in [1..(a + b) -> DOMAIN s]
  <2>1. \A i \in 1..a : g[i] \in DOMAIN s
    BY <1>8 DEF Drawn
  <2>2. \A i \in 1..b : k[i] \in DOMAIN s
    BY <1>8 DEF Drawn
  <2> QED
    BY <1>9, <2>1, <2>2
<1> HIDE DEF h
<1>12. \A i \in 1..(a + b) : t[i] = s[h[i]]
  <2> SUFFICES ASSUME NEW i \in 1..(a + b) PROVE t[i] = s[h[i]]
    OBVIOUS
  <2>1. CASE i \in 1..a
    BY <2>1, <1>10
  <2>2. CASE i - a \in 1..b /\ i = a + (i - a)
    <3>1. h[a + (i - a)] = k[i - a] /\ t[a + (i - a)] = s[k[i - a]]
      BY <2>2, <1>10
    <3> QED
      BY <2>2, <3>1
  <2> QED
    BY <2>1, <2>2, <1>9
<1>13. ASSUME NEW i \in 1..(a + b), NEW j \in 1..(a + b), i < j
       PROVE  \/ (t[i] \in M <=> t[j] \in M) /\ h[i] < h[j]
              \/ t[i] \notin M /\ t[j] \in M
  <2>1. CASE i \in 1..a /\ j \in 1..a
    <3>1. g[i] < g[j]
      BY <1>8, <1>13, <2>1 DEF Drawn
    <3>2. t[i] \notin M /\ t[j] \notin M /\ h[i] = g[i] /\ h[j] = g[j]
      BY <2>1, <1>10
    <3> QED
      BY <3>1, <3>2
  <2>2. CASE i \in 1..a /\ j - a \in 1..b /\ j = a + (j - a)
    <3>1. t[i] \notin M
      BY <2>2, <1>10
    <3>2. t[a + (j - a)] = s[k[j - a]] /\ k[j - a] \in V
      BY <2>2, <1>10
    <3>3. t[j] \in M
      BY <2>2, <3>2
    <3> QED
      BY <3>1, <3>3
  <2>3. CASE i - a \in 1..b /\ i = a + (i - a) /\ j - a \in 1..b /\ j = a + (j - a)
    <3>1. i - a < j - a
      BY <2>3, <1>13, <1>8
    <3>2. k[i - a] < k[j - a]
      BY <3>1, <2>3, <1>8 DEF Drawn
    <3>3. /\ t[a + (i - a)] = s[k[i - a]] /\ k[i - a] \in V /\ h[a + (i - a)] = k[i - a]
          /\ t[a + (j - a)] = s[k[j - a]] /\ k[j - a] \in V /\ h[a + (j - a)] = k[j - a]
      BY <2>3, <1>10
    <3>4. t[i] \in M /\ t[j] \in M /\ h[i] = k[i - a] /\ h[j] = k[j - a]
      BY <2>3, <3>3
    <3> QED
      BY <3>2, <3>4
  <2>4. ~(i \notin 1..a /\ j \in 1..a)
    BY <1>8, <1>13
  <2> QED
    BY <2>1, <2>2, <2>3, <2>4, <1>9
<1>14. ASSUME NEW p \in DOMAIN s PROVE \E i \in 1..(a + b) : h[i] = p
  <2>1. CASE p \in U
    <3>1. PICK i \in 1..a : g[i] = p
      BY <2>1, <1>8 DEF Drawn
    <3> QED
      BY <3>1, <1>9, <1>10
  <2>2. CASE p \in V
    <3>1. PICK i \in 1..b : k[i] = p
      BY <2>2, <1>8 DEF Drawn
    <3> QED
      BY <3>1, <1>9, <1>10
  <2> QED
    BY <2>1, <2>2
<1>15. Rearranged(t, s, h, M)
  BY <1>8, <1>11, <1>12, <1>13, <1>14 DEF Rearranged
<1> QED
  BY <1>15 DEF t

(* What of a log is not in M, then what is: the same events rearranged.    *)
LEMMA SplitIs ==
  ASSUME NEW s \in Seq(Event), NEW M \in SUBSET ToSet(s)
  PROVE  /\ Keep(s, ToSet(s) \ M) \o Keep(s, M) \in Seq(Event)
         /\ ToSet(Keep(s, ToSet(s) \ M) \o Keep(s, M)) = ToSet(s)
         /\ \E h : Rearranged(Keep(s, ToSet(s) \ M) \o Keep(s, M), s, h, M)
<1> DEFINE u == Keep(s, ToSet(s) \ M)
           v == Keep(s, M)
           U == {p \in DOMAIN s : s[p] \in ToSet(s) \ M}
           V == {p \in DOMAIN s : s[p] \in M}
<1>1. /\ u \in Seq(Event) /\ ToSet(u) = ToSet(s) \cap (ToSet(s) \ M)
      /\ v \in Seq(Event) /\ ToSet(v) = ToSet(s) \cap M
  BY KeepElements
<1>2. (\E g : Drawn(u, s, g, U)) /\ (\E k : Drawn(v, s, k, V))
  BY KeepOrder
<1>3. /\ \A p \in DOMAIN s : p \in U \/ p \in V
      /\ (\A p \in U : s[p] \notin M) /\ \A p \in V : s[p] \in M
  BY DEF ToSet
<1> HIDE DEF u, v, U, V
<1>4. \E h : Rearranged(u \o v, s, h, M)
  BY <1>1, <1>2, <1>3, JoinIs
<1>5. ToSet(u \o v) = ToSet(u) \cup ToSet(v)
  BY <1>1, ElementsOf
<1>6. u \o v \in Seq(Event) /\ ToSet(u \o v) = ToSet(s)
  BY <1>1, <1>5
<1> QED
  BY <1>4, <1>6 DEF u, v

UserEvents(s, ms) == {e \in ToSet(s) : e.kind = "user" /\ e.msg \in ms}

(* MoveBehind and MoveAllBehind put the events of their messages last.     *)
LEMMA MovedIs ==
  ASSUME NEW s \in Seq(Event)
  PROVE  /\ \A m : /\ MoveBehind(s, m) \in Seq(Event) /\ ToSet(MoveBehind(s, m)) = ToSet(s)
                   /\ \E h : Rearranged(MoveBehind(s, m), s, h, UserEvents(s, {m}))
         /\ \A q : /\ MoveAllBehind(s, q) \in Seq(Event) /\ ToSet(MoveAllBehind(s, q)) = ToSet(s)
                   /\ \E h : Rearranged(MoveAllBehind(s, q), s, h, UserEvents(s, ToSet(q)))
<1>1. ASSUME NEW m
      PROVE  /\ MoveBehind(s, m) \in Seq(Event) /\ ToSet(MoveBehind(s, m)) = ToSet(s)
             /\ \E h : Rearranged(MoveBehind(s, m), s, h, UserEvents(s, {m}))
  <2>1. UserEvents(s, {m}) = {e \in ToSet(s) : IsUser(e, m)}
    BY DEF UserEvents, IsUser
  <2>2. /\ UserEvents(s, {m}) \in SUBSET ToSet(s)
        /\ MoveBehind(s, m) = Keep(s, ToSet(s) \ UserEvents(s, {m})) \o Keep(s, UserEvents(s, {m}))
    BY <2>1 DEF MoveBehind
  <2> QED
    BY <2>2, SplitIs
<1>2. ASSUME NEW q
      PROVE  /\ MoveAllBehind(s, q) \in Seq(Event) /\ ToSet(MoveAllBehind(s, q)) = ToSet(s)
             /\ \E h : Rearranged(MoveAllBehind(s, q), s, h, UserEvents(s, ToSet(q)))
  <2>1. /\ UserEvents(s, ToSet(q)) \in SUBSET ToSet(s)
        /\ MoveAllBehind(s, q) = Keep(s, ToSet(s) \ UserEvents(s, ToSet(q)))
                                   \o Keep(s, UserEvents(s, ToSet(q)))
    BY DEF MoveAllBehind, UserEvents
  <2> QED
    BY <2>1, SplitIs
<1> QED
  BY <1>1, <1>2

(* Truncating drops events and adds none.                                  *)
LEMMA TruncatedIs ==
  ASSUME NEW s \in Seq(Event), NEW evs, NEW m
  PROVE  TruncateFrom(s, evs, m) \in Seq(Event) /\ ToSet(TruncateFrom(s, evs, m)) \subseteq ToSet(s)
<1>1. ASSUME NEW K PROVE Keep(s, K) \in Seq(Event) /\ ToSet(Keep(s, K)) \subseteq ToSet(s)
  BY KeepElements
<1> QED
  BY <1>1 DEF TruncateFrom

(* Places of events, and the last of them.                                 *)
LEMMA LastAt ==
  ASSUME NEW s \in Seq(Event), NEW kind, At(s, kind) # {}
  PROVE  /\ Max(At(s, kind)) \in DOMAIN s /\ s[Max(At(s, kind))].kind = kind
         /\ \A i \in DOMAIN s : s[i].kind = kind => i <= Max(At(s, kind))
<1>1. Len(s) \in Nat /\ DOMAIN s = 1..Len(s) /\ 1..Len(s) \subseteq 0..Len(s)
  OBVIOUS
<1>2. At(s, kind) \in SUBSET (0..Len(s))
  BY <1>1 DEF At
<1>3. Max(At(s, kind)) \in At(s, kind) /\ \A i \in At(s, kind) : i <= Max(At(s, kind))
  BY <1>1, <1>2, MaxIs
<1> QED
  BY <1>3 DEF At

(* The last user message and the anchor of a compaction, as values.        *)
LEMMA LastUserMsgIs == ASSUME NEW s \in Seq(Event) PROVE LastUserMsg(s) \in Msgs \cup {NoMsg}
<1>1. Ordered(s) \in Seq(Event)
  BY OrderedIs
<1>2. CASE At(Ordered(s), "user") = {}
  BY <1>2 DEF LastUserMsg
<1>3. CASE At(Ordered(s), "user") # {}
  <2>1. Max(At(Ordered(s), "user")) \in DOMAIN Ordered(s)
    BY <1>1, <1>3, LastAt
  <2>2. Ordered(s)[Max(At(Ordered(s), "user"))] \in Event
    BY <1>1, <2>1
  <2>3. Ordered(s)[Max(At(Ordered(s), "user"))].msg \in Msgs \cup {NoMsg}
    BY <2>2, EventHas
  <2> QED
    BY <1>3, <2>3 DEF LastUserMsg
<1> QED
  BY <1>2, <1>3

(* A compaction's anchor is an event's identity, or none. *)
LEMMA LastEventIdIs == ASSUME NEW s \in Seq(Event) PROVE LastEventId(s) \in EventIds
<1>1. CASE s = << >>
  BY <1>1 DEF LastEventId, NoEvent, EventIds
<1>2. CASE s # << >>
  <2>1. Len(s) \in DOMAIN s
    BY <1>2
  <2>2. s[Len(s)] \in Event
    BY <2>1
  <2>3. IdOf(s[Len(s)]) \in EventIds
    BY <2>2, EventHas
  <2> QED
    BY <1>2, <2>3 DEF LastEventId, Last
<1> QED
  BY <1>1, <1>2

-----------------------------------------------------------------------------
(* Replay.                                                                 *)

Told(items) == {i \in DOMAIN items : items[i].msg # NoMsg}

(* The messages that a list of items tells, in the order of the log read   *)
(* as evs: where each is there, those of the places P among them.          *)
Tells(items, evs, h, P) ==
  /\ h \in [Told(items) -> DOMAIN evs]
  /\ \A i \in Told(items) : evs[h[i]].kind = "user" /\ evs[h[i]].msg = items[i].msg
  /\ \A i, j \in Told(items) : i < j => h[i] < h[j]
  /\ \A p \in P : \E i \in Told(items) : h[i] = p

MsgsAt(evs) == {i \in DOMAIN evs : evs[i].kind = "user" /\ evs[i].msg # NoMsg}

(* An item is made of every event that is shown.                           *)
LEMMA ItemOfIs ==
  ASSUME NEW e \in Event, e.kind \in Shown
  PROVE  /\ ItemOf(e) \in Item
         /\ e.kind = "user" => ItemOf(e) = UserItem(e.run, e.msg)
         /\ e.kind # "user" => ItemOf(e).msg = NoMsg
<1>1. e.run \in Runs /\ e.msg \in Msgs \cup {NoMsg}
  BY EventHas
<1>2. CASE e.kind = "user"
  BY <1>1, <1>2 DEF ItemOf, UserItem, Item, ItemKinds
<1>3. CASE e.kind = "assistant"
  BY <1>1, <1>3 DEF ItemOf, AssistantItem, Item, ItemKinds
<1>4. CASE e.kind = "turn"
  BY <1>1, <1>4 DEF ItemOf, TurnItem, Item, ItemKinds
<1>5. CASE e.kind = "tool_result"
  BY <1>1, <1>5 DEF ItemOf, ResultItem, Item, ItemKinds
<1> QED
  BY <1>2, <1>3, <1>4, <1>5 DEF Shown

(* The items of a list of events tell every message in it, in order.       *)
LEMMA ItemsOfIs ==
  ASSUME NEW evs \in Seq(Event)
  PROVE  /\ ItemsOf(evs) \in Seq(Item)
         /\ \E h : Tells(ItemsOf(evs), evs, h, MsgsAt(evs))
<1> DEFINE n == Len(evs)
           ids == [i \in DOMAIN evs |-> i]
           K == {i \in DOMAIN evs : /\ evs[i].kind \in Shown
                                    /\ evs[i].kind = "tool_result" => Answers(evs, i)}
           read == Keep(ids, K)
           items == [p \in DOMAIN read |-> ItemOf(evs[read[p]])]
<1>1. n \in Nat /\ DOMAIN evs = 1..n /\ \A i \in 1..n : evs[i] \in Event
  OBVIOUS
<1>2. ids \in Seq(1..n) /\ DOMAIN ids = 1..n /\ \A i \in 1..n : ids[i] = i
  BY <1>1
<1> HIDE DEF ids
<1> DEFINE places == {p \in DOMAIN ids : ids[p] \in K}
<1>3. read \in Seq(1..n) /\ \E h : Drawn(read, ids, h, places)
  BY <1>2, KeepElements, KeepOrder
<1>4. ItemsOf(evs) = items
  BY DEF ItemsOf, ids
<1>5. places = K
  BY <1>1, <1>2
<1>6. /\ \A i \in K : i \in 1..n /\ evs[i].kind \in Shown
      /\ MsgsAt(evs) \subseteq K
  BY <1>1 DEF MsgsAt, Shown
<1> HIDE DEF K, n, places
<1> HIDE DEF read
<1>7. PICK h : Drawn(read, ids, h, K)
  BY <1>3, <1>5
<1>8. \A p \in DOMAIN read : read[p] = h[p] /\ h[p] \in K /\ h[p] \in 1..n
  BY <1>2, <1>6, <1>7 DEF Drawn
<1>9. \A p \in DOMAIN read : items[p] = ItemOf(evs[h[p]]) /\ items[p] \in Item
  BY <1>1, <1>6, <1>8, ItemOfIs
<1>10. DOMAIN items = DOMAIN read
  OBVIOUS
<1> HIDE DEF items
<1>11. items \in Seq(Item)
  <2>1. DOMAIN read = 1..Len(read) /\ Len(read) \in Nat
    BY <1>3
  <2>2. items = [p \in 1..Len(read) |-> items[p]]
    BY <2>1 DEF items
  <2>3. \A p \in 1..Len(read) : items[p] \in Item
    BY <1>9, <2>1
  <2> QED
    BY <2>1, <2>2, <2>3
<1> DEFINE g == [i \in Told(items) |-> h[i]]
<1>12. \A i \in DOMAIN read : i \in Told(items) => evs[h[i]].kind = "user" /\ evs[h[i]].msg = items[i].msg
  <2> SUFFICES ASSUME NEW i \in DOMAIN read, i \in Told(items)
               PROVE  evs[h[i]].kind = "user" /\ evs[h[i]].msg = items[i].msg
    OBVIOUS
  <2>1. items[i] = ItemOf(evs[h[i]]) /\ items[i].msg # NoMsg
    BY <1>9 DEF Told
  <2>2. evs[h[i]] \in Event /\ evs[h[i]].kind \in Shown
    BY <1>1, <1>6, <1>8
  <2>3. evs[h[i]].kind = "user"
    BY <2>1, <2>2, ItemOfIs
  <2>4. ItemOf(evs[h[i]]) = UserItem(evs[h[i]].run, evs[h[i]].msg)
    BY <2>2, <2>3, ItemOfIs
  <2> QED
    BY <2>1, <2>3, <2>4 DEF UserItem
<1>13. \A i \in Told(items) : i \in DOMAIN read /\ g[i] = h[i]
  BY <1>10 DEF Told
<1>14. g \in [Told(items) -> DOMAIN evs]
  BY <1>1, <1>8, <1>13
<1>15. \A p \in MsgsAt(evs) : \E i \in Told(items) : g[i] = p
  <2> SUFFICES ASSUME NEW p \in MsgsAt(evs) PROVE \E i \in Told(items) : g[i] = p
    OBVIOUS
  <2>1. p \in K /\ evs[p].kind = "user" /\ evs[p].msg # NoMsg
    BY <1>6 DEF MsgsAt
  <2>2. PICK i \in DOMAIN read : h[i] = p
    BY <1>7, <2>1 DEF Drawn
  <2>3. evs[p] \in Event /\ evs[p].kind \in Shown
    BY <1>1, <1>6, <2>1
  <2>4. items[i] = UserItem(evs[p].run, evs[p].msg)
    BY <1>9, <2>1, <2>2, <2>3, ItemOfIs
  <2>5. i \in Told(items)
    BY <1>10, <2>1, <2>4 DEF Told, UserItem
  <2> QED
    BY <2>2, <2>5, <1>13
<1> HIDE DEF g
<1>16. \A i, j \in Told(items) : i < j => g[i] < g[j]
  BY <1>7, <1>13 DEF Drawn
<1>17. Tells(items, evs, g, MsgsAt(evs))
  BY <1>12, <1>13, <1>14, <1>15, <1>16 DEF Tells
<1> QED
  BY <1>4, <1>11, <1>17

(* The end of a list of events.                                            *)
LEMMA EndIs ==
  ASSUME NEW evs \in Seq(Event), NEW a \in 1..(Len(evs) + 1)
  PROVE  /\ SubSeq(evs, a, Len(evs)) \in Seq(Event)
         /\ DOMAIN SubSeq(evs, a, Len(evs)) = 1..(Len(evs) - a + 1)
         /\ \A i \in 1..(Len(evs) - a + 1) :
              i + a - 1 \in DOMAIN evs /\ SubSeq(evs, a, Len(evs))[i] = evs[i + a - 1]
         /\ \A p \in DOMAIN evs : p >= a => p - a + 1 \in 1..(Len(evs) - a + 1) /\ (p - a + 1) + a - 1 = p
<1>1. Len(evs) \in Nat /\ DOMAIN evs = 1..Len(evs)
  OBVIOUS
<1>2. SubSeq(evs, a, Len(evs)) \in Seq(Event)
  BY <1>1
<1>3. DOMAIN SubSeq(evs, a, Len(evs)) = 1..(Len(evs) - a + 1)
  BY <1>1
<1>4. \A i \in 1..(Len(evs) - a + 1) : i + a - 1 \in 1..Len(evs) /\ SubSeq(evs, a, Len(evs))[i] = evs[i + a - 1]
  BY <1>1
<1>5. \A p \in 1..Len(evs) : p >= a => p - a + 1 \in 1..(Len(evs) - a + 1) /\ (p - a + 1) + a - 1 = p
  BY <1>1
<1> QED
  BY <1>1, <1>2, <1>3, <1>4, <1>5

(* What tells the end of a list tells the list.                            *)
LEMMA EndTells ==
  ASSUME NEW evs \in Seq(Event), NEW a \in 1..(Len(evs) + 1), NEW items, NEW h, NEW P,
         Tells(items, SubSeq(evs, a, Len(evs)), h, P), \A i \in Told(items) : i \in Nat
  PROVE  \E g : Tells(items, evs, g, {p \in DOMAIN evs : p >= a /\ p - a + 1 \in P})
<1> DEFINE t == SubSeq(evs, a, Len(evs))
           n == Len(evs)
           g == [i \in Told(items) |-> h[i] + a - 1]
<1>1. /\ DOMAIN t = 1..(n - a + 1)
      /\ \A i \in 1..(n - a + 1) : i + a - 1 \in DOMAIN evs /\ t[i] = evs[i + a - 1]
      /\ \A p \in DOMAIN evs : p >= a => p - a + 1 \in 1..(n - a + 1) /\ (p - a + 1) + a - 1 = p
  BY EndIs
<1>2. n \in Nat /\ a \in Nat
  OBVIOUS
<1> HIDE DEF t, n
<1>3. \A i \in Told(items) : h[i] \in 1..(n - a + 1) /\ g[i] = h[i] + a - 1
  BY <1>1 DEF Tells, t
<1>4. g \in [Told(items) -> DOMAIN evs]
  BY <1>1, <1>3
<1> HIDE DEF g
<1>5. \A i \in Told(items) : evs[g[i]].kind = "user" /\ evs[g[i]].msg = items[i].msg
  <2>1. \A i \in Told(items) : t[h[i]].kind = "user" /\ t[h[i]].msg = items[i].msg
    BY DEF Tells, t
  <2> QED
    BY <1>1, <1>3, <2>1
<1>6. \A i, j \in Told(items) : i < j => g[i] < g[j]
  <2> SUFFICES ASSUME NEW i \in Told(items), NEW j \in Told(items), i < j PROVE g[i] < g[j]
    OBVIOUS
  <2>1. h[i] < h[j]
    BY DEF Tells
  <2>2. h[i] \in Nat /\ h[j] \in Nat
    BY <1>3, <1>2
  <2> QED
    BY <1>2, <1>3, <2>1, <2>2
<1>7. ASSUME NEW p \in DOMAIN evs, p >= a, p - a + 1 \in P PROVE \E i \in Told(items) : g[i] = p
  <2>1. PICK i \in Told(items) : h[i] = p - a + 1
    BY <1>7 DEF Tells
  <2>2. g[i] = (p - a + 1) + a - 1
    BY <1>3, <2>1
  <2> QED
    BY <1>1, <1>7, <2>2
<1> QED
  BY <1>4, <1>5, <1>6, <1>7 DEF Tells

(* A summary with the message that comes right after it tells the same.    *)
LEMMA FoldTells ==
  ASSUME NEW items \in Seq(Item), NEW summary \in Item
  PROVE  /\ FoldFirst(summary, items) \in Seq(Item) /\ FoldFirst(summary, items) # << >>
         /\ summary.msg = NoMsg =>
              \A evs, h, P : Tells(items, evs, h, P) =>
                               \E g : Tells(FoldFirst(summary, items), evs, g, P)
<1> DEFINE out == FoldFirst(summary, items)
           n == Len(items)
<1>1. n \in Nat /\ DOMAIN items = 1..n /\ \A i \in 1..n : items[i] \in Item
  OBVIOUS
<1>2. CASE items # << >> /\ Head(items).kind = "user"
  <2> DEFINE first == SummaryItem(summary.run, Head(items).msg)
  <2>1. Head(items) = items[1] /\ items[1] \in Item /\ 1 \in 1..n
    BY <1>1, <1>2
  <2>2. first \in Item /\ first.msg = items[1].msg
    <3>1. summary.run \in Runs /\ items[1].msg \in Msgs \cup {NoMsg}
      BY <2>1 DEF Item
    <3> QED
      BY <2>1, <3>1 DEF SummaryItem, Item, ItemKinds
  <2>3. out = <<first>> \o Tail(items)
    BY <1>2 DEF FoldFirst
  <2> HIDE DEF first
  <2>4. /\ out \in Seq(Item) /\ DOMAIN out = 1..n /\ out[1] = first
        /\ \A i \in 1..n : i # 1 => out[i] = items[i]
    BY <1>1, <1>2, <2>2, <2>3
  <2> HIDE DEF out
  <2>5. \A i \in 1..n : out[i].msg = items[i].msg
    BY <2>2, <2>4
  <2>6. Told(out) = Told(items)
    BY <1>1, <2>4, <2>5 DEF Told
  <2>7. \A evs, h, P : Tells(items, evs, h, P) => Tells(out, evs, h, P)
    <3> SUFFICES ASSUME NEW evs, NEW h, NEW P, Tells(items, evs, h, P)
                 PROVE  Tells(out, evs, h, P)
      OBVIOUS
    <3>1. \A i \in Told(items) : out[i].msg = items[i].msg
      BY <1>1, <2>5 DEF Told
    <3> QED
      BY <2>6, <3>1 DEF Tells
  <2>8. out # << >>
    BY <2>1, <2>4
  <2> QED
    BY <2>4, <2>7, <2>8 DEF out
<1>3. CASE ~(items # << >> /\ Head(items).kind = "user")
  <2>1. out = <<summary>> \o items
    BY <1>3 DEF FoldFirst
  <2>2. /\ out \in Seq(Item) /\ DOMAIN out = 1..(n + 1) /\ out[1] = summary
        /\ \A i \in 1..n : i + 1 \in 1..(n + 1) /\ out[i + 1] = items[i]
    BY <1>1, <2>1
  <2> HIDE DEF out, n
  <2>3. \A i \in 1..(n + 1) : i = 1 \/ (i - 1 \in 1..n /\ (i - 1) + 1 = i)
    BY <1>1
  <2>4. ASSUME summary.msg = NoMsg, NEW evs, NEW h, NEW P, Tells(items, evs, h, P)
        PROVE  \E g : Tells(out, evs, g, P)
    <3> DEFINE g == [i \in Told(out) |-> h[i - 1]]
    <3>1. ASSUME NEW i \in Told(out)
          PROVE  i \in Nat /\ i - 1 \in Nat /\ i - 1 \in Told(items) /\ out[i] = items[i - 1] /\ g[i] = h[i - 1]
      <4>1. i \in 1..(n + 1) /\ out[i].msg # NoMsg
        BY <2>2 DEF Told
      <4>2. i # 1
        BY <4>1, <2>2, <2>4
      <4>3. i - 1 \in 1..n /\ (i - 1) + 1 = i
        BY <4>1, <4>2, <2>3
      <4>4. out[i] = items[i - 1]
        BY <4>3, <2>2
      <4>5. i - 1 \in Told(items)
        BY <4>1, <4>3, <4>4, <1>1 DEF Told
      <4> QED
        BY <4>1, <4>3, <4>4, <4>5, <1>1
    <3>2. g \in [Told(out) -> DOMAIN evs]
      BY <3>1, <2>4 DEF Tells
    <3> HIDE DEF g
    <3>3. \A i \in Told(out) : evs[g[i]].kind = "user" /\ evs[g[i]].msg = out[i].msg
      BY <3>1, <2>4 DEF Tells
    <3>4. ASSUME NEW i \in Told(out), NEW j \in Told(out), i < j PROVE g[i] < g[j]
      <4>1. i - 1 < j - 1
        BY <3>1, <3>4
      <4> QED
        BY <3>1, <4>1, <2>4 DEF Tells
    <3>5. ASSUME NEW p \in P PROVE \E i \in Told(out) : g[i] = p
      <4>1. PICK i \in Told(items) : h[i] = p
        BY <2>4 DEF Tells
      <4>2. i \in 1..n /\ items[i].msg # NoMsg
        BY <1>1 DEF Told
      <4>3. i + 1 \in 1..(n + 1) /\ out[i + 1] = items[i] /\ (i + 1) - 1 = i
        BY <4>2, <2>2
      <4>4. i + 1 \in Told(out)
        BY <4>2, <4>3, <2>2 DEF Told
      <4> QED
        BY <4>1, <4>3, <4>4, <3>1
    <3>6. Tells(out, evs, g, P)
      BY <3>2, <3>3, <3>4, <3>5 DEF Tells
    <3> QED
      BY <3>6
  <2>5. out # << >>
    BY <2>2, <1>1
  <2> QED
    BY <2>2, <2>4, <2>5 DEF out
<1> QED
  BY <1>2, <1>3

(* What a conversation replays to tells messages of it in their order, and *)
(* every one that no clear and no compaction comes behind.                 *)
StillRead(evs) ==
  {p \in MsgsAt(evs) : \A j \in DOMAIN evs :
     j > p => evs[j].kind \notin {"context_cleared", "compaction"}}

(* A replay hands the model messages of the conversation in their order,      *)
(* and every one that no clear and no compaction comes behind (replayEvents). *)
LEMMA ReplayIs ==
  ASSUME NEW ordered \in Seq(Event)
  PROVE  /\ Replay(ordered) \in Seq(Item)
         /\ \E h : Tells(Replay(ordered), ordered, h, StillRead(ordered))
<1> DEFINE evs == SinceClear(ordered)
           clears == At(ordered, "context_cleared")
           sums == At(evs, "compaction")
<1>0. Len(ordered) \in Nat /\ DOMAIN ordered = 1..Len(ordered)
  OBVIOUS
<1>1. \E a \in 1..(Len(ordered) + 1) :
        /\ evs = SubSeq(ordered, a, Len(ordered))
        /\ \A p \in StillRead(ordered) : p >= a
  <2>1. CASE clears = {}
    <3>1. evs = SubSeq(ordered, 1, Len(ordered))
      BY <2>1 DEF SinceClear
    <3>2. 1 \in 1..(Len(ordered) + 1) /\ \A p \in StillRead(ordered) : p >= 1
      BY <1>0 DEF StillRead, MsgsAt
    <3> QED
      BY <3>1, <3>2
  <2>2. CASE clears # {}
    <3> DEFINE m == Max(clears)
    <3>1. m \in DOMAIN ordered /\ ordered[m].kind = "context_cleared"
      BY <2>2, LastAt
    <3>2. evs = SubSeq(ordered, m + 1, Len(ordered))
      BY <2>2 DEF SinceClear
    <3> HIDE DEF m
    <3>3. m + 1 \in 1..(Len(ordered) + 1)
      BY <1>0, <3>1
    <3>4. ASSUME NEW p \in StillRead(ordered) PROVE p >= m + 1
      <4>1. p \in DOMAIN ordered /\ ordered[p].kind = "user"
            /\ (m > p => ordered[m].kind # "context_cleared")
        BY <3>1 DEF StillRead, MsgsAt
      <4>2. ~(m > p) /\ m # p
        BY <4>1, <3>1
      <4> QED
        BY <4>1, <4>2, <3>1, <1>0
    <3> QED
      BY <3>2, <3>3, <3>4
  <2> QED
    BY <2>1, <2>2
<1> HIDE DEF evs
<1>2. PICK a \in 1..(Len(ordered) + 1) :
        /\ evs = SubSeq(ordered, a, Len(ordered))
        /\ \A p \in StillRead(ordered) : p >= a
  BY <1>1
<1>3. evs \in Seq(Event)
  BY <1>2, EndIs
<1>4. \A p \in StillRead(ordered) : p \in DOMAIN ordered /\ p >= a /\ p - a + 1 \in StillRead(evs)
  <2> SUFFICES ASSUME NEW p \in StillRead(ordered)
               PROVE  p \in DOMAIN ordered /\ p >= a /\ p - a + 1 \in StillRead(evs)
    OBVIOUS
  <2>1. /\ p \in DOMAIN ordered /\ p >= a /\ ordered[p].kind = "user" /\ ordered[p].msg # NoMsg
        /\ \A j \in DOMAIN ordered : j > p => ordered[j].kind \notin {"context_cleared", "compaction"}
    BY <1>2 DEF StillRead, MsgsAt
  <2>2. /\ DOMAIN evs = 1..(Len(ordered) - a + 1)
        /\ \A i \in DOMAIN evs : i + a - 1 \in DOMAIN ordered /\ evs[i] = ordered[i + a - 1]
        /\ p - a + 1 \in DOMAIN evs /\ (p - a + 1) + a - 1 = p
    <3> DEFINE t == SubSeq(ordered, a, Len(ordered))
               n == Len(ordered) - a + 1
    <3>1. /\ DOMAIN t = 1..n
          /\ \A i \in 1..n : i + a - 1 \in DOMAIN ordered /\ t[i] = ordered[i + a - 1]
          /\ \A q \in DOMAIN ordered : q >= a => q - a + 1 \in 1..n /\ (q - a + 1) + a - 1 = q
      BY EndIs
    <3>2. evs = t
      BY <1>2
    <3> HIDE DEF t, n
    <3>3. p - a + 1 \in 1..n /\ (p - a + 1) + a - 1 = p
      BY <2>1, <3>1
    <3>4. DOMAIN evs = 1..n /\ \A i \in 1..n : evs[i] = t[i]
      BY <3>1, <3>2
    <3> QED
      BY <3>1, <3>3, <3>4 DEF n
  <2>3. evs[p - a + 1] = ordered[p]
    BY <2>2
  <2>4. ASSUME NEW j \in DOMAIN evs, j > p - a + 1
        PROVE  evs[j].kind \notin {"context_cleared", "compaction"}
    <3>1. j \in Nat /\ a \in Nat /\ p \in Nat
      BY <2>1, <2>2, <1>0
    <3>2. j + a - 1 > p
      BY <3>1, <2>4
    <3> QED
      BY <2>1, <2>2, <3>2
  <2> QED
    BY <2>1, <2>2, <2>3, <2>4 DEF StillRead, MsgsAt
<1>5. /\ Replay(ordered) \in Seq(Item)
      /\ \E h : Tells(Replay(ordered), evs, h, StillRead(evs))
  <2>0. Len(evs) \in Nat /\ DOMAIN evs = 1..Len(evs)
    BY <1>3
  <2>1. CASE sums = {}
    <3>1. Replay(ordered) = ItemsOf(evs)
      BY <2>1 DEF Replay, evs
    <3>2. PICK h : Tells(ItemsOf(evs), evs, h, MsgsAt(evs))
      BY <1>3, ItemsOfIs
    <3>3. StillRead(evs) \subseteq MsgsAt(evs)
      BY DEF StillRead
    <3>4. Tells(ItemsOf(evs), evs, h, StillRead(evs))
      BY <3>2, <3>3 DEF Tells
    <3> QED
      BY <3>1, <3>4, <1>3, ItemsOfIs
  <2>2. CASE sums # {}
    <3> DEFINE i == Max(sums)
               cut == CutAt(evs, i)
               anchors == {j \in 1 .. i - 1 : IdOf(evs[j]) = evs[i].after}
               summary == SummaryItem(evs[i].run, NoMsg)
               rest == SubSeq(evs, cut, Len(evs))
    <3>1. i \in DOMAIN evs /\ evs[i].kind = "compaction"
      BY <1>3, <2>2, LastAt
    <3>2. Replay(ordered) = FoldFirst(summary, ItemsOf(rest))
      BY <2>2 DEF Replay, evs
    <3> HIDE DEF i
    <3>3. summary \in Item /\ summary.msg = NoMsg
      <4>1. evs[i] \in Event
        BY <3>1, <1>3
      <4>2. evs[i].run \in Runs
        BY <4>1, EventHas
      <4> QED
        BY <4>2 DEF SummaryItem, Item, ItemKinds
    <3>4. cut \in 1..(i + 1)
      <4>1. CASE anchors = {}
        <5>1. cut = i + 1
          BY <4>1 DEF CutAt
        <5> QED
          BY <5>1, <3>1, <2>0
      <4>2. CASE anchors # {}
        <5>1. anchors \in SUBSET Nat /\ \A j \in anchors : j \in 1..(i - 1)
          BY <3>1, <2>0
        <5>2. \E x \in anchors : \A y \in anchors : x <= y
          BY <5>1, <4>2, LeastNumber
        <5>3. Min(anchors) \in anchors
          BY <5>2 DEF Min
        <5>4. cut = Min(anchors) + 1
          BY <4>2 DEF CutAt
        <5>5. Min(anchors) \in 1..(i - 1)
          BY <5>1, <5>3
        <5> HIDE DEF cut, anchors
        <5> QED
          BY <5>4, <5>5, <3>1, <2>0
      <4> QED
        BY <4>1, <4>2
    <3> HIDE DEF cut, summary, anchors
    <3>5. cut \in 1..(Len(evs) + 1)
      BY <3>1, <3>4, <2>0
    <3>6. rest \in Seq(Event)
      BY <1>3, <3>5, EndIs
    <3>7. ItemsOf(rest) \in Seq(Item) /\ \E h : Tells(ItemsOf(rest), rest, h, MsgsAt(rest))
      BY <3>6, ItemsOfIs
    <3>8. /\ Replay(ordered) \in Seq(Item)
          /\ \E h : Tells(Replay(ordered), rest, h, MsgsAt(rest))
      BY <3>2, <3>3, <3>7, FoldTells
    <3>9. \A k \in Told(Replay(ordered)) : k \in Nat
      BY <3>8 DEF Told
    <3>10. PICK g : Tells(Replay(ordered), evs, g, {p \in DOMAIN evs : p >= cut /\ p - cut + 1 \in MsgsAt(rest)})
      BY <1>3, <3>5, <3>8, <3>9, EndTells
    <3>11. ASSUME NEW p \in StillRead(evs)
           PROVE  p \in DOMAIN evs /\ p >= cut /\ p - cut + 1 \in MsgsAt(rest)
      <4>1. /\ p \in DOMAIN evs /\ evs[p].kind = "user" /\ evs[p].msg # NoMsg
            /\ (i > p => evs[i].kind # "compaction")
        BY <3>1 DEF StillRead, MsgsAt
      <4>2. ~(i > p) /\ i # p
        BY <4>1, <3>1
      <4>3. p >= cut
        BY <4>1, <4>2, <3>1, <3>4, <2>0
      <4>4. p - cut + 1 \in DOMAIN rest /\ rest[p - cut + 1] = evs[p]
        <5>1. p - cut + 1 \in 1..(Len(evs) - cut + 1) /\ (p - cut + 1) + cut - 1 = p
          BY <1>3, <3>5, <4>1, <4>3, EndIs
        <5>2. rest[p - cut + 1] = evs[(p - cut + 1) + cut - 1]
          BY <1>3, <3>5, <5>1, EndIs
        <5> QED
          BY <1>3, <3>5, <5>1, <5>2, EndIs
      <4> QED
        BY <4>1, <4>3, <4>4 DEF MsgsAt
    <3>12. Tells(Replay(ordered), evs, g, StillRead(evs))
      BY <3>10, <3>11 DEF Tells
    <3> QED
      BY <3>8, <3>12
  <2> QED
    BY <2>1, <2>2
<1>6. \A k \in Told(Replay(ordered)) : k \in Nat
  BY <1>5 DEF Told
<1>7. PICK g : Tells(Replay(ordered), ordered, g, {p \in DOMAIN ordered : p >= a /\ p - a + 1 \in StillRead(evs)})
  BY <1>2, <1>5, <1>6, EndTells
<1>8. Tells(Replay(ordered), ordered, g, StillRead(ordered))
  BY <1>4, <1>7 DEF Tells
<1> QED
  BY <1>5, <1>8

-----------------------------------------------------------------------------
(* The control state.                                                      *)


(* The holder of convMu works on a conversation, for a message, on a run. *)
Lock ==
  /\ conv.step \in {"look", "find", "push", "recheck"} \/ conv.op = "edit"
       => conv.msg \in Msgs
  /\ conv.step \in {"find", "push", "track"} => conv.run \in Runs
  /\ conv.step # "free" => conv.chat \in Chats

(* From the last look for a live run until the new one is tracked, the     *)
(* conversation has no live run.                                           *)
Alone ==
  /\ conv.step = "create" => Live(conv.chat) = {}
  /\ conv.step = "track" =>
       Live(req[conv.run].chat) = {} /\ row[conv.run] # "none"

HasRow == \A r \in live : row[r] # "none"

(* What a goroutine knows at a stage: the status it ends with, what its    *)
(* compaction is for, that a committed turn is within the bound.           *)
Stages ==
  \A r \in Runs :
    /\ pc[r] = "setStatus" => verdict[r] # "none"
    /\ pc[r] \in {"anchor", "summary"} => why[r] # "none"
    /\ turn[r] = "committed" => turns[r] < MaxTurns

Inv ==
  /\ ControlTypeOK
  /\ Lock /\ Alone /\ HasRow /\ Stages
  /\ OneLiveRun /\ ClosedInboxIsEmpty /\ RunningHasRunner

USE DEF Runs, Msgs, NoMsg, NoRun
USE NRunsAssumption, NMsgsAssumption, InboxCapAssumption, MaxTurnsAssumption,
    MaxCrashesAssumption

-----------------------------------------------------------------------------
(* The initial state satisfies the invariant: nobody is live, nothing is held. *)
LEMMA InvInit == Init => Inv
<1> SUFFICES ASSUME Init PROVE Inv
  OBVIOUS
<1>1. ControlTypeOK
  BY DEF Init, ControlTypeOK, HolderType, Free, RowStatus, RequestType, Requests,
         NoRequest, Steps, Ops, TurnState, PCs, Verdicts, Reasons
<1>2. Lock /\ Alone /\ HasRow /\ Stages
  BY DEF Init, Lock, Alone, HasRow, Stages, Free
<1>3. OneLiveRun /\ ClosedInboxIsEmpty /\ RunningHasRunner
  BY DEF Init, OneLiveRun, ClosedInboxIsEmpty, RunningHasRunner
<1> QED
  BY <1>1, <1>2, <1>3 DEF Inv

-----------------------------------------------------------------------------
(* The lock's values: free, asked for, moved on. *)
LEMMA FreeIsHolder == HolderType(Free)
  BY DEF HolderType, Free, Steps, Ops

(* A request that has just taken the lock is a value of it. *)
LEMMA AskedIsHolder ==
  ASSUME NEW by \in Runs \cup {NoRun}, NEW op \in Ops,
         NEW c \in Chats \cup {NoChat}, NEW m \in Msgs \cup {NoMsg}
  PROVE  HolderType(Asked(by, op, c, m))
  BY DEF HolderType, Asked, Steps, Ops

(* So is one that cuts a conversation: it waits for runs that exist. *)
LEMMA CutIsHolder ==
  ASSUME NEW op \in Ops, NEW c \in Chats, NEW m \in Msgs \cup {NoMsg}, NEW old,
         NEW snap, live \subseteq Runs, ending \subseteq Runs, Cut(op, c, m, old, snap)
  PROVE  /\ HolderType(conv')
         /\ conv'.step \in {"truncate", "cancel"}
         /\ conv'.op = op /\ conv'.chat = c /\ conv'.msg = m
  BY DEF HolderType, Cut, Tracked, RunsOf, Asked, Steps, Ops

(* Where the live runs, their chats and their rows stay, so does this. *)
LEMMA SameLive ==
  ASSUME Inv, live' = live,
         \A q \in live : req'[q] = req[q] /\ row'[q] = row[q]
  PROVE  OneLiveRun' /\ HasRow'
  BY DEF Inv, OneLiveRun, HasRow

-----------------------------------------------------------------------------
(* A request that takes convMu, StopRun or a deadline keeps the invariant. *)
LEMMA RequestKeepsInv == ASSUME Inv, Request PROVE Inv'
<1> USE DEF Inv, ControlTypeOK, Lock, Alone, HasRow, Stages, OneLiveRun,
            ClosedInboxIsEmpty, RunningHasRunner, Live, RunsOf,
            dbVars, appVars, runVars, histVars
<1>1. ASSUME NEW c \in Chats, NEW op \in {"chat", "idle"}, Send(c, op)
      PROVE  Inv'
  <2>1. HolderType(conv')
    BY <1>1, AskedIsHolder DEF Send, Ops
  <2>2. conv'.step = "look" /\ conv'.chat \in Chats /\ conv'.msg \in Msgs
    BY <1>1 DEF Send, Asked
  <2>3. conv.step = "free" /\ sent' \in 0 .. NMsgs
    BY <1>1 DEF Send, Free
  <2>4. ControlTypeOK'
    BY <1>1, <2>1, <2>3 DEF Send
  <2> QED
    BY <1>1, <2>2, <2>3, <2>4 DEF Send
<1>2. ASSUME NEW c \in Chats, CompactChat(c)
      PROVE  Inv'
  <2>1. HolderType(conv')
    BY <1>2 DEF CompactChat, Asked, HolderType, Ops, Steps
  <2>2. conv'.step = "create" /\ conv'.chat = c /\ conv'.op = "compact"
    BY <1>2 DEF CompactChat, Asked
  <2>3. conv.step = "free"
    BY <1>2 DEF CompactChat, Free
  <2> QED
    BY ZenonT(60), <1>2, <2>1, <2>2, <2>3 DEF CompactChat
<1>3. ASSUME NEW c \in Chats, NEW r \in Runs, Clear(c, r)
      PROVE  Inv'
  <2>1. conv.step = "free" /\ conv' = conv
    BY <1>3 DEF Clear, CommandEvent, Free
  <2>2. r \notin live /\ \A q \in live : req'[q] = req[q] /\ row'[q] = row[q]
    BY <1>3 DEF Clear, CommandEvent, NewRun
  <2>3. ControlTypeOK'
    BY <1>3 DEF Clear, CommandEvent, RowStatus, RequestType, Requests
  <2>4. OneLiveRun'
    BY SMTT(30), <1>3, <2>2 DEF Clear, CommandEvent
  <2> QED
    BY ZenonT(60), <1>3, <2>1, <2>2, <2>3, <2>4 DEF Clear, CommandEvent
<1>4. ASSUME NEW c \in Chats, Edit(c)
      PROVE  Inv'
  <2>1. sent + 1 \in Msgs /\ sent' \in 0 .. NMsgs
    <3>1. sent \in 0 .. NMsgs
      OBVIOUS
    <3>2. sent < NMsgs /\ sent' = sent + 1
      BY ONLY <1>4 DEF Edit
    <3> QED
      BY ONLY <3>1, <3>2, NMsgsAssumption DEF Msgs
  <2>2. HolderType(conv') /\ conv'.step \in {"truncate", "cancel"}
        /\ conv'.chat = c /\ conv'.msg = sent + 1
    <3>1. Cut("edit", c, sent + 1, LastUserMsg(log[c]), {})
      BY <1>4 DEF Edit
    <3> QED
      BY <2>1, <3>1, CutIsHolder DEF Ops
  <2>3. conv.step = "free"
    BY <1>4 DEF Edit, Free
  <2>4. ControlTypeOK'
    BY <1>4, <2>1, <2>2 DEF Edit
  <2> QED
    BY <1>4, <2>1, <2>2, <2>3, <2>4 DEF Edit
<1>5. ASSUME NEW c \in Chats, Delete(c)
      PROVE  Inv'
  <2>1. HolderType(conv') /\ conv'.step \in {"truncate", "cancel"}
        /\ conv'.chat = c /\ conv'.op = "delete"
    BY <1>5, CutIsHolder DEF Delete, Ops
  <2>2. conv.step = "free"
    BY <1>5 DEF Delete, Free
  <2> QED
    BY <1>5, <2>1, <2>2 DEF Delete
<1>6. ASSUME NEW c \in Chats, NEW op \in {"wipe", "wipePart"}, Wipe(c, op)
      PROVE  Inv'
  <2>1. HolderType(conv') /\ conv'.step \in {"truncate", "cancel"}
        /\ conv'.chat = c /\ conv'.op = op
    <3>1. PICK evs, from : Cut(op, c, NoMsg, NoMsg, ToSet(SubSeq(evs, from, Len(evs))))
      BY <1>6 DEF Wipe
    <3>2. PICK snap : Cut(op, c, NoMsg, NoMsg, snap)
      BY <3>1
    <3>3. live \subseteq Runs /\ ending \subseteq Runs /\ op \in Ops
      BY DEF Ops
    <3> QED
      BY <3>2, <3>3, CutIsHolder
  <2>2. conv.step = "free"
    BY <1>6 DEF Wipe, Free
  <2> QED
    BY ZenonT(60), <1>6, <2>1, <2>2 DEF Wipe
<1>7. ASSUME NEW c \in Chats, Stop(c)
      PROVE  Inv'
  BY ZenonT(60), <1>7 DEF Stop, Cancelled
<1>8. ASSUME NEW r \in Runs, TimeOut(r)
      PROVE  Inv'
  BY <1>8 DEF TimeOut
<1> QED
  BY <1>1, <1>2, <1>3, <1>4, <1>5, <1>6, <1>7, <1>8 DEF Request

-----------------------------------------------------------------------------
(* A step of the holder of convMu keeps the invariant. *)
LEMMA HolderKeepsInv == ASSUME Inv, Holder PROVE Inv'
<1> USE DEF Inv, ControlTypeOK, Lock, Alone, HasRow, Stages, OneLiveRun,
            ClosedInboxIsEmpty, RunningHasRunner, Live, RunsOf,
            dbVars, appVars, runVars, histVars
<1>a. Release => /\ HolderType(conv') /\ conv'.step = "free" /\ conv'.op = "none"
                 /\ pc' \in [Runs -> PCs]
                 /\ \A r \in Runs : pc'[r] # pc[r] => pc'[r] = "toolBack"
  BY FreeIsHolder DEF Release, Free, HolderType, PCs
<1>1. ASSUME Look PROVE Inv'
  <2>1. CASE /\ Live(conv.chat) = {}
             /\ conv' = [conv EXCEPT !.step = "create"]
             /\ UNCHANGED pc
    <3>1. HolderType(conv') /\ conv'.step = "create"
          /\ conv'.chat = conv.chat /\ conv'.op = conv.op /\ conv'.msg = conv.msg
      BY <2>1 DEF HolderType, Steps
    <3>2. ControlTypeOK'
      BY <1>1, <2>1, <3>1 DEF Look
    <3>3. UNCHANGED <<row, req, live>> /\ conv.step = "look"
      BY <1>1 DEF Look
    <3>4. Alone' /\ Lock'
      BY <2>1, <3>1, <3>3
    <3> QED
      BY ZenonT(60), <1>1, <2>1, <3>1, <3>2, <3>4 DEF Look
  <2>2. CASE Release
    BY ZenonT(60), <1>1, <1>a, <2>2 DEF Look
  <2>3. ASSUME NEW r \in Live(conv.chat),
               conv' = [conv EXCEPT !.step = "find", !.run = r], UNCHANGED pc
        PROVE  Inv'
    <3>1. HolderType(conv') /\ conv'.step = "find" /\ conv'.run = r
          /\ conv'.chat = conv.chat /\ conv'.op = conv.op /\ conv'.msg = conv.msg
      BY <2>3 DEF HolderType, Steps
    <3> QED
      BY ZenonT(60), <1>1, <2>3, <3>1 DEF Look
  <2> QED
    BY <1>1, <2>1, <2>2, <2>3 DEF Look
<1>2. ASSUME InjectFind PROVE Inv'
  BY <1>2 DEF InjectFind, HolderType, Steps
<1>3. ASSUME InjectPush PROVE Inv'
  <2>1. conv.run \in Runs /\ conv.msg \in Msgs
    BY <1>3 DEF InjectPush
  <2>2. inbox' \in [Runs -> Seq(Msgs)]
        /\ \A r \in Runs : r # conv.run => inbox'[r] = inbox[r]
    <3>1. inbox' = [inbox EXCEPT ![conv.run] = Append(@, conv.msg)]
      BY <1>3 DEF InjectPush
    <3>2. Append(inbox[conv.run], conv.msg) \in Seq(Msgs)
      BY <2>1
    <3> QED
      BY <2>1, <3>1, <3>2
  <2>3. \A r \in Runs : Len(inbox'[r]) <= InboxCap
    BY <1>3, <2>1 DEF InjectPush, Room
  <2>4. turn' \in [Runs -> TurnState]
        /\ \A r \in Runs : turn'[r] = "committed" => turn[r] = "committed"
    BY <1>3, <2>1 DEF InjectPush, TurnState
  <2>5. ControlTypeOK'
    BY <1>3, <1>a, <2>2, <2>3, <2>4 DEF InjectPush
  <2>6. ClosedInboxIsEmpty'
    BY <1>3, <2>1, <2>2 DEF InjectPush, Room
  <2>7. conv'.step = "free" /\ conv'.op = "none" /\ pc' \in [Runs -> PCs]
        /\ \A r \in Runs : pc'[r] # pc[r] => pc'[r] = "toolBack"
    BY <1>3, <1>a DEF InjectPush
  <2>8. Stages'
    BY <1>3, <2>4, <2>7 DEF InjectPush
  <2>9. RunningHasRunner'
    BY <1>3, <2>7 DEF InjectPush, PCs
  <2>10. UNCHANGED <<row, req, live>>
    BY <1>3 DEF InjectPush
  <2>11. OneLiveRun' /\ HasRow'
    BY <2>10, SameLive
  <2> QED
    BY <2>5, <2>6, <2>7, <2>8, <2>9, <2>11
<1>4. ASSUME InjectRefused PROVE Inv'
  BY <1>4 DEF InjectRefused, HolderType, Steps
<1>5. ASSUME Recheck PROVE Inv'
  <2>1. CASE Release
    BY <1>5, <1>a, <2>1 DEF Recheck
  <2>2. CASE /\ Live(conv.chat) = {}
             /\ conv' = [conv EXCEPT !.step = "create"]
             /\ UNCHANGED pc
    <3>1. HolderType(conv') /\ conv'.step = "create"
          /\ conv'.chat = conv.chat /\ conv'.op = conv.op /\ conv'.msg = conv.msg
      BY <2>2 DEF HolderType, Steps
    <3>2. ControlTypeOK'
      BY <1>5, <2>2, <3>1 DEF Recheck
    <3>3. Alone' /\ Lock'
      BY <1>5, <2>2, <3>1 DEF Recheck
    <3> QED
      BY ZenonT(60), <1>5, <2>2, <3>1, <3>2, <3>3 DEF Recheck
  <2> QED
    BY <1>5, <2>1, <2>2 DEF Recheck
<1>6. ASSUME NEW r \in Runs, StartCreate(r) PROVE Inv'
  <2>1. HolderType(conv') /\ conv'.step = "track" /\ conv'.run = r
        /\ conv'.chat = conv.chat /\ conv'.op = conv.op /\ conv'.msg = conv.msg
    BY <1>6 DEF StartCreate, HolderType, Steps
  <2>2. r \notin live /\ \A q \in live : req'[q] = req[q] /\ row'[q] = row[q]
    BY <1>6 DEF StartCreate, NewRun
  <2>3. row'[r] = "running" /\ req'[r].chat = conv.chat
    BY <1>6 DEF StartCreate
  <2>a. req' \in [Runs -> RequestType] /\ row' \in [Runs -> RowStatus]
    BY ZenonT(60), <1>6 DEF StartCreate, HolderType, RowStatus, RequestType, Requests
  <2>4. ControlTypeOK'
    BY <1>6, <2>1, <2>a DEF StartCreate
  <2>5. Alone'
    BY <1>6, <2>1, <2>2, <2>3 DEF StartCreate
  <2>b. UNCHANGED live
    BY <1>6 DEF StartCreate
  <2>6. OneLiveRun' /\ HasRow'
    BY <2>2, <2>b, SameLive
  <2>7. RunningHasRunner'
    BY <1>6, <2>1 DEF StartCreate
  <2> QED
    BY <1>6, <2>1, <2>4, <2>5, <2>6, <2>7 DEF StartCreate
<1>7. ASSUME StartRefused PROVE Inv'
  BY <1>7, <1>a DEF StartRefused
<1>8. ASSUME StartTrack PROVE Inv'
  <2>1. HolderType(conv') /\ conv'.step = "free" /\ conv'.op = "none"
    BY <1>8, FreeIsHolder DEF StartTrack, Free
  <2>2. conv.run \in Runs /\ live' = live \cup {conv.run}
    BY <1>8 DEF StartTrack
  <2>3. pc' \in [Runs -> PCs]
        /\ \A r \in Runs : pc'[r] # pc[r] => pc'[r] \in {"begin", "toolBack"}
    BY <1>8, <2>2 DEF StartTrack, PCs
  <2>4. pc'[conv.run] \in {"begin", "toolBack"}
    BY <1>8, <2>2 DEF StartTrack, HolderType
  <2>5. OneLiveRun' /\ HasRow'
    BY <1>8, <2>2 DEF StartTrack
  <2>6. RunningHasRunner'
    BY ZenonT(60), <1>8, <2>3, <2>4 DEF StartTrack, PCs
  <2> QED
    BY <1>8, <2>1, <2>2, <2>3, <2>5, <2>6 DEF StartTrack
<1>9. ASSUME CutCancel PROVE Inv'
  BY ZenonT(60), <1>9 DEF CutCancel, Cancelled, HolderType, Steps
<1>10. ASSUME CutRows PROVE Inv'
  BY <1>10 DEF CutRows, RowsStopped, RowStatus, HolderType, Steps
<1>11. ASSUME CutWaited PROVE Inv'
  BY <1>11 DEF CutWaited, HolderType, Steps
<1>12. ASSUME CutDeadline PROVE Inv'
  BY <1>12 DEF CutDeadline, HolderType, Steps
<1>13. ASSUME Truncate PROVE Inv'
  <2>1. HolderType(conv')
    BY SMTT(60), <1>13 DEF Truncate, HolderType, Asked, Free, Steps, Ops
  <2>2. \/ conv'.step = "look" /\ conv'.chat \in Chats /\ conv'.msg \in Msgs
        \/ conv'.step = "free" /\ conv'.op = "none"
    BY <1>13 DEF Truncate, Asked, Free
  <2>3. row' \in [Runs -> RowStatus]
        /\ \A r \in Runs : row'[r] # row[r] => row'[r] = "gone"
    BY <1>13 DEF Truncate, RowStatus
  <2>4. sealed' \subseteq Runs
    BY <1>13 DEF Truncate, Begun
  <2>5. /\ conv.step = "truncate" /\ wiped' = wiped
        /\ UNCHANGED <<req, live, ending, stopping, runVars, sent, crashes, seen>>
    BY <1>13 DEF Truncate
  <2>6. ControlTypeOK'
    BY <2>1, <2>3, <2>4, <2>5
  <2>7. Lock' /\ Alone' /\ Stages' /\ ClosedInboxIsEmpty' /\ OneLiveRun'
    BY <2>2, <2>5
  <2>8. HasRow' /\ RunningHasRunner'
    BY <2>3, <2>5
  <2> QED
    BY <2>6, <2>7, <2>8
<1>14. ASSUME NEW r \in Runs, WipeDelete(r) PROVE Inv'
  <2>1. HolderType(conv') /\ conv'.step = "free" /\ conv'.op = "none"
    BY <1>14, FreeIsHolder DEF WipeDelete, Free
  <2>2. r \notin live /\ row[r] = "none"
    BY <1>14 DEF WipeDelete, CommandEvent, NewRun
  <2>3. req' \in [Runs -> RequestType] /\ \A q \in live : req'[q] = req[q]
    <3>1. conv.chat \in Chats /\ req \in [Runs -> RequestType] /\ live \subseteq Runs
      BY <1>14 DEF WipeDelete
    <3>2. req' = [req EXCEPT ![r] = [chat |-> conv.chat, kind |-> "command", msg |-> NoMsg]]
      BY ONLY <1>14 DEF WipeDelete, CommandEvent
    <3> QED
      BY ONLY <2>2, <3>1, <3>2 DEF RequestType, Requests, NoMsg
  <2>4. row' \in [Runs -> RowStatus]
        /\ \A q \in Runs : row'[q] = row[q] \/ row'[q] \in {"done", "gone"}
    BY <1>14 DEF WipeDelete, RowStatus
  <2>5. wiped' \subseteq Runs
    BY <1>14 DEF WipeDelete, Begun
  <2>6. UNCHANGED <<live, ending, stopping, cancelled, closed, inbox, taken, turn,
                    endTurn, pc, verdict, why, turns, sent, crashes, sealed>>
    BY <1>14 DEF WipeDelete
  <2>7. ControlTypeOK'
    BY <2>1, <2>3, <2>4, <2>5, <2>6
  <2>8. OneLiveRun' /\ HasRow'
    <3>1. \A q \in live : row'[q] # "none"
      <4> SUFFICES ASSUME NEW q \in live PROVE row'[q] # "none"
        OBVIOUS
      <4>1. q \in Runs /\ row[q] # "none"
        OBVIOUS
      <4> QED
        BY <2>4, <4>1
    <3>2. live' = live
      BY <2>6
    <3>3. HasRow'
      BY ONLY <3>1, <3>2 DEF HasRow
    <3>4. OneLiveRun'
      BY ONLY OneLiveRun, <2>3, <3>2 DEF OneLiveRun
    <3> QED
      BY ONLY <3>3, <3>4
  <2>9. RunningHasRunner'
    BY <1>14, <2>4, <2>6 DEF WipeDelete
  <2> QED
    BY <2>1, <2>6, <2>7, <2>8, <2>9
<1> QED
  BY <1>1, <1>2, <1>3, <1>4, <1>5, <1>6, <1>7, <1>8, <1>9, <1>10, <1>11,
     <1>12, <1>13, <1>14 DEF Holder

-----------------------------------------------------------------------------
(* The shape most steps of a goroutine have: it goes on to another stage,   *)
(* knowing what that stage needs, and touches only what is its own.         *)
Onward == PCs \ {"none", "untrack", "emitDone", "exit", "over"}

GoesOn(r, where) ==
  /\ pc' = [pc EXCEPT ![r] = where]
  /\ UNCHANGED <<row, req, live, ending, conv, stopping, cancelled, closed,
                 sent, crashes, sealed, wiped>>
  /\ inbox' = inbox \/ inbox' = [inbox EXCEPT ![r] = << >>]
  /\ taken' \in [Runs -> Seq(Msgs)]
  /\ endTurn' \subseteq Runs
  /\ \/ verdict' = verdict /\ where # "setStatus"
     \/ \E v \in Verdicts \ {"none"} : verdict' = [verdict EXCEPT ![r] = v]
  /\ \/ why' = why
     \/ \E w \in Reasons : why' = [why EXCEPT ![r] = w]
  /\ where \in {"anchor", "summary"} => why'[r] # "none"
  /\ \/ UNCHANGED <<turn, turns>>
     \/ \E t \in {"none", "open"} : turn' = [turn EXCEPT ![r] = t] /\ turns' = turns
     \/ \E n \in 0 .. MaxTurns : /\ turn' = [turn EXCEPT ![r] = "none"]
                                /\ turns' = [turns EXCEPT ![r] = n]

(* A goroutine that goes on keeps the invariant. *)
LEMMA GoesOnKeepsInv ==
  ASSUME Inv, NEW r \in Runs, NEW where \in Onward, GoesOn(r, where)
  PROVE  Inv'
<1>1. pc' \in [Runs -> PCs] /\ pc'[r] = where
      /\ \A q \in Runs : q # r => pc'[q] = pc[q]
  BY DEF Inv, ControlTypeOK, GoesOn, Onward
<1>2. inbox' \in [Runs -> Seq(Msgs)]
      /\ \A q \in Runs : inbox'[q] = inbox[q] \/ inbox'[q] = << >>
  <2>1. inbox \in [Runs -> Seq(Msgs)] /\ << >> \in Seq(Msgs)
    BY DEF Inv, ControlTypeOK
  <2>2. inbox' = inbox \/ inbox' = [inbox EXCEPT ![r] = << >>]
    BY DEF GoesOn
  <2> QED
    BY <2>1, <2>2
<1>3. verdict' \in [Runs -> Verdicts] /\ why' \in [Runs -> Reasons]
      /\ \A q \in Runs : q # r => verdict'[q] = verdict[q] /\ why'[q] = why[q]
  <2>1. verdict \in [Runs -> Verdicts] /\ why \in [Runs -> Reasons]
    BY DEF Inv, ControlTypeOK
  <2>2. \/ verdict' = verdict
        \/ \E v \in Verdicts \ {"none"} : verdict' = [verdict EXCEPT ![r] = v]
    BY DEF GoesOn
  <2>3. why' = why \/ \E w \in Reasons : why' = [why EXCEPT ![r] = w]
    BY DEF GoesOn
  <2>4. verdict' \in [Runs -> Verdicts]
        /\ \A q \in Runs : q # r => verdict'[q] = verdict[q]
    BY <2>1, <2>2
  <2>5. why' \in [Runs -> Reasons]
        /\ \A q \in Runs : q # r => why'[q] = why[q]
    BY <2>1, <2>3
  <2> QED
    BY <2>4, <2>5
<1>4. where = "setStatus" => verdict'[r] # "none"
  BY DEF Inv, ControlTypeOK, GoesOn
<1> DEFINE TurnFacts ==
      /\ turn' \in [Runs -> TurnState] /\ turns' \in [Runs -> 0 .. MaxTurns]
      /\ \A q \in Runs : turn'[q] = "committed" => turns'[q] < MaxTurns
<1>5. TurnFacts
  <2>1. turn \in [Runs -> TurnState] /\ turns \in [Runs -> 0 .. MaxTurns]
        /\ \A q \in Runs : turn[q] = "committed" => turns[q] < MaxTurns
    BY DEF Inv, ControlTypeOK, Stages
  <2>2. CASE UNCHANGED <<turn, turns>>
    BY <2>1, <2>2
  <2>3. ASSUME NEW t \in {"none", "open"},
               turn' = [turn EXCEPT ![r] = t] /\ turns' = turns
        PROVE  TurnFacts
    BY <2>1, <2>3 DEF TurnState
  <2>4. ASSUME NEW n \in 0 .. MaxTurns,
               turn' = [turn EXCEPT ![r] = "none"], turns' = [turns EXCEPT ![r] = n]
        PROVE  TurnFacts
    BY <2>1, <2>4 DEF TurnState
  <2> QED
    BY <2>2, <2>3, <2>4 DEF GoesOn
<1>6. UNCHANGED <<row, req, live, ending, conv, stopping, cancelled, closed,
                  sent, crashes, sealed, wiped>>
  BY DEF GoesOn
<1>7. ControlTypeOK'
  <2>1. \A q \in Runs : Len(inbox'[q]) <= InboxCap
    BY <1>2 DEF Inv, ControlTypeOK
  <2> QED
    BY <1>1, <1>2, <1>3, <1>5, <1>6, <2>1 DEF Inv, ControlTypeOK, GoesOn
<1>8. Stages'
  BY <1>1, <1>3, <1>4, <1>5 DEF Inv, Stages, GoesOn
<1>9. Lock' /\ Alone'
  BY <1>6 DEF Inv, Lock, Alone, Live, RunsOf
<1>10. OneLiveRun' /\ HasRow'
  BY <1>6, SameLive
<1>11. ClosedInboxIsEmpty'
  BY <1>2, <1>6 DEF Inv, ControlTypeOK, ClosedInboxIsEmpty
<1>12. RunningHasRunner'
  BY <1>1, <1>6 DEF Inv, RunningHasRunner, Onward, PCs
<1> QED
  BY <1>7, <1>8, <1>9, <1>10, <1>11, <1>12 DEF Inv

(* Closing the inbox keeps the invariant: it is empty, and nobody is live  *)
(* who was not.                                                            *)
LEMMA CloseKeepsInv ==
  ASSUME Inv, NEW r \in Runs, CloseInbox(r), endTurn' \subseteq Runs,
         UNCHANGED <<row, req, conv, stopping, cancelled, inbox, taken, turn,
                     why, turns, histVars>>
  PROVE  Inv'
<1>1. pc' = [pc EXCEPT ![r] = "setStatus"] /\ verdict' = [verdict EXCEPT ![r] = "done"]
  BY DEF CloseInbox, Finish, Goto
<1>2. live' \subseteq live /\ ending' \subseteq Runs
  BY DEF Inv, ControlTypeOK, CloseInbox
<1>3. ControlTypeOK'
  BY <1>1, <1>2 DEF Inv, ControlTypeOK, CloseInbox, PCs, Verdicts, histVars
<1>4. Lock' /\ Alone'
  BY <1>2 DEF Inv, Lock, Alone, Live, RunsOf
<1>5. OneLiveRun' /\ HasRow'
  BY <1>2 DEF Inv, OneLiveRun, HasRow
<1>6. Stages'
  BY <1>1 DEF Inv, ControlTypeOK, Stages
<1>7. ClosedInboxIsEmpty'
  BY DEF Inv, ClosedInboxIsEmpty, CloseInbox
<1>8. RunningHasRunner'
  BY <1>1 DEF Inv, ControlTypeOK, RunningHasRunner, PCs
<1> QED
  BY <1>3, <1>4, <1>5, <1>6, <1>7, <1>8 DEF Inv

(* A step of a run's goroutine keeps the invariant. *)
LEMMA WorkKeepsInv == ASSUME Inv, NEW r \in Runs, Work(r) PROVE Inv'
<1> USE DEF dbVars, appVars, runVars, histVars
<1>a. ControlTypeOK /\ Stages
  BY DEF Inv
<1>1. ASSUME NoModel(r) PROVE Inv'
  <2>1. GoesOn(r, "setStatus")
    BY <1>a, <1>1 DEF NoModel, GoesOn, Goto, ControlTypeOK, Finish, Verdicts
  <2> QED
    BY <2>1, GoesOnKeepsInv DEF Onward, PCs
<1>2. ASSUME Open(r) PROVE Inv'
  <2>1. GoesOn(r, "drain")
    BY <1>a, <1>2 DEF Open, GoesOn, Goto, ControlTypeOK
  <2> QED
    BY <2>1, GoesOnKeepsInv DEF Onward, PCs
<1>3. ASSUME OpenCompact(r) PROVE Inv'
  <2>1. GoesOn(r, "anchor")
    BY <1>a, <1>3 DEF OpenCompact, GoesOn, Goto, ControlTypeOK, Reasons
  <2> QED
    BY <2>1, GoesOnKeepsInv DEF Onward, PCs
<1>4. ASSUME DrainTake(r) PROVE Inv'
  <2>1. GoesOn(r, "move")
    BY <1>a, <1>4 DEF DrainTake, GoesOn, Goto, ControlTypeOK, Reasons
  <2> QED
    BY <2>1, GoesOnKeepsInv DEF Onward, PCs
<1>5. ASSUME DrainMove(r) PROVE Inv'
  <2>1. taken' \in [Runs -> Seq(Msgs)]
    BY <1>a, <1>5 DEF DrainMove, ControlTypeOK
  <2>2. UNCHANGED <<row, req, appVars, cancelled, closed, inbox, turn, endTurn,
                    pc, verdict, why, turns, sent, crashes, sealed, wiped>>
    BY <1>5 DEF DrainMove
  <2>3. ControlTypeOK'
    BY <1>a, <2>1, <2>2 DEF ControlTypeOK
  <2> QED
    BY <2>2, <2>3 DEF Inv, Lock, Alone, HasRow, Stages, OneLiveRun,
       ClosedInboxIsEmpty, RunningHasRunner, Live, RunsOf
<1>6. ASSUME Drained(r) PROVE Inv'
  <2>1. GoesOn(r, "check")
    BY <1>a, <1>6 DEF Drained, GoesOn, Goto, ControlTypeOK
  <2> QED
    BY <2>1, GoesOnKeepsInv DEF Onward, PCs
<1>7. ASSUME Check(r) PROVE Inv'
  <2>1. \/ GoesOn(r, "stopped")
        \/ GoesOn(r, "turn")
        \/ GoesOn(r, "anchor")
    BY <1>a, <1>7 DEF Check, GoesOn, Goto, ControlTypeOK, Reasons
  <2> QED
    BY <2>1, GoesOnKeepsInv DEF Onward, PCs
<1>8. ASSUME CompactAnchor(r) PROVE Inv'
  <2>1. GoesOn(r, "summary")
    BY <1>a, <1>8 DEF CompactAnchor, GoesOn, Goto, ControlTypeOK, Stages
  <2> QED
    BY <2>1, GoesOnKeepsInv DEF Onward, PCs
<1>9. ASSUME CompactDone(r) PROVE Inv'
  <2>1. why[r] \in {"manual", "auto", "overflow"}
    BY <1>a, <1>9 DEF CompactDone, ControlTypeOK, Stages, Reasons
  <2>2. AfterSummary[why[r]] \in {"fold", "check", "turn"}
    BY <2>1 DEF AfterSummary
  <2>3. GoesOn(r, AfterSummary[why[r]])
    BY <1>a, <1>9, <2>2 DEF CompactDone, GoesOn, Goto, ControlTypeOK
  <2> QED
    BY <2>2, <2>3, GoesOnKeepsInv DEF Onward, PCs
<1>10. ASSUME CompactFailed(r) PROVE Inv'
  <2>1. \/ GoesOn(r, "check")
        \/ GoesOn(r, "erred")
    BY <1>a, <1>10 DEF CompactFailed, GoesOn, Goto, ControlTypeOK
  <2> QED
    BY <2>1, GoesOnKeepsInv DEF Onward, PCs
<1>11. ASSUME Fold(r) PROVE Inv'
  <2>1. \/ GoesOn(r, "setStatus")
        \/ GoesOn(r, "drain")
    BY <1>a, <1>11 DEF Fold, GoesOn, Goto, ControlTypeOK, Finish, Verdicts
  <2> QED
    BY <2>1, GoesOnKeepsInv DEF Onward, PCs
<1>12. ASSUME TurnOpen(r) PROVE Inv'
  <2>1. GoesOn(r, "stream")
    BY <1>a, <1>12 DEF TurnOpen, GoesOn, Goto, ControlTypeOK
  <2> QED
    BY <2>1, GoesOnKeepsInv DEF Onward, PCs
<1>13. ASSUME Commit(r) PROVE Inv'
  BY <1>13 DEF Commit, Inv, ControlTypeOK, Lock, Alone, HasRow, Stages,
     OneLiveRun,
     ClosedInboxIsEmpty, RunningHasRunner, Live, RunsOf, TurnState
<1>14. ASSUME Reply(r) PROVE Inv'
  <2>1. \/ GoesOn(r, "close")
        \/ GoesOn(r, "closeMute")
    BY <1>a, <1>14 DEF Reply, GoesOn, Goto, ControlTypeOK
  <2> QED
    BY <2>1, GoesOnKeepsInv DEF Onward, PCs
<1>15. ASSUME StreamFailed(r) PROVE Inv'
  <2>1. GoesOn(r, "erred")
    BY <1>a, <1>15 DEF StreamFailed, GoesOn, Goto, ControlTypeOK
  <2> QED
    BY <2>1, GoesOnKeepsInv DEF Onward, PCs
<1>16. ASSUME Overflow(r) PROVE Inv'
  <2>1. GoesOn(r, "anchor")
    BY <1>a, <1>16 DEF Overflow, GoesOn, Goto, ControlTypeOK, Reasons
  <2> QED
    BY <2>1, GoesOnKeepsInv DEF Onward, PCs
<1>17. ASSUME Erred(r) PROVE Inv'
  <2>1. \/ GoesOn(r, "stopped")
        \/ GoesOn(r, "setStatus")
    BY <1>a, <1>17 DEF Erred, GoesOn, Goto, ControlTypeOK, Finish, Verdicts
  <2> QED
    BY <2>1, GoesOnKeepsInv DEF Onward, PCs
<1>18. ASSUME Close(r) PROVE Inv'
  <2>1. CASE CloseInbox(r) /\ UNCHANGED <<row, req, conv, stopping, cancelled,
               inbox, taken, turn, why, turns, histVars>> /\ endTurn' \subseteq Runs
    BY <2>1, CloseKeepsInv
  <2>2. CASE GoesOn(r, "drain")
    BY <2>2, GoesOnKeepsInv DEF Onward, PCs
  <2> QED
    BY <1>a, <1>18, <2>1, <2>2 DEF Close, GoesOn, Goto, ControlTypeOK
<1>19. ASSUME ToolTurn(r) PROVE Inv'
  <2>1. turns[r] + 1 \in 0 .. MaxTurns
    BY <1>a, <1>19 DEF ToolTurn, ControlTypeOK, Stages
  <2>2. turns' = [turns EXCEPT ![r] = turns[r] + 1]
    BY <1>19 DEF ToolTurn
  <2>3. GoesOn(r, "tool")
    BY <1>a, <1>19, <2>1, <2>2 DEF ToolTurn, GoesOn, Goto, ControlTypeOK
  <2> QED
    BY <2>3, GoesOnKeepsInv DEF Onward, PCs
<1>20. ASSUME ToolTalks(r) PROVE Inv'
  <2>1. GoesOn(r, "toolWait")
    BY <1>a, <1>20 DEF ToolTalks, GoesOn, Goto, ControlTypeOK
  <2> QED
    BY <2>1, GoesOnKeepsInv DEF Onward, PCs
<1>21. ASSUME ToolAsks(r) PROVE Inv'
  <2>1. GoesOn(r, "toolBack")
    BY <1>a, <1>21 DEF ToolAsks, GoesOn, Goto, ControlTypeOK
  <2> QED
    BY <2>1, GoesOnKeepsInv DEF Onward, PCs
<1>22. ASSUME ToolReturn(r) PROVE Inv'
  <2>1. \/ GoesOn(r, "stopped")
        \/ GoesOn(r, "toolEnd")
    BY <1>a, <1>22 DEF ToolReturn, GoesOn, Goto, ControlTypeOK
  <2> QED
    BY <2>1, GoesOnKeepsInv DEF Onward, PCs
<1>23. ASSUME TurnEnd(r) PROVE Inv'
  <2>1. CASE CloseInbox(r) /\ UNCHANGED <<row, req, conv, stopping, cancelled,
               inbox, taken, turn, why, turns, histVars>> /\ endTurn' \subseteq Runs
    BY <2>1, CloseKeepsInv
  <2>2. CASE GoesOn(r, "drain")
    BY <2>2, GoesOnKeepsInv DEF Onward, PCs
  <2> QED
    BY <1>a, <1>23, <2>1, <2>2 DEF TurnEnd, GoesOn, Goto, ControlTypeOK
<1>24. ASSUME SayStopped(r) PROVE Inv'
  <2>1. GoesOn(r, "setStatus")
    BY <1>a, <1>24 DEF SayStopped, GoesOn, Goto, ControlTypeOK, Finish, Verdicts
  <2> QED
    BY <2>1, GoesOnKeepsInv DEF Onward, PCs
<1>25. ASSUME SetStatus(r) PROVE Inv'
  <2>1. verdict[r] \in {"done", "error", "stopped"}
    BY <1>a, <1>25 DEF SetStatus, ControlTypeOK, Stages, Verdicts
  <2>2. row' \in [Runs -> RowStatus]
        /\ \A q \in Runs : row'[q] # row[q] => row'[q] \in {"done", "error", "stopped"}
        /\ row'[r] # "running"
    BY <1>a, <1>25, <2>1 DEF SetStatus, ControlTypeOK, RowStatus
  <2>3. pc' = [pc EXCEPT ![r] = "untrack"]
    BY <1>25 DEF SetStatus, Goto
  <2>4. UNCHANGED <<req, live, ending, conv, stopping, cancelled, closed, inbox,
                    taken, turn, endTurn, verdict, why, turns, sent, crashes,
                    sealed, wiped>>
    BY <1>25 DEF SetStatus
  <2>5. ControlTypeOK'
    BY <1>a, <2>2, <2>3, <2>4 DEF ControlTypeOK, PCs
  <2>6. Stages'
    BY <1>a, <2>3, <2>4 DEF ControlTypeOK, Stages
  <2>7. Lock' /\ Alone'
    BY <2>2, <2>4 DEF Inv, Lock, Alone, Live, RunsOf
  <2>8. OneLiveRun' /\ HasRow' /\ ClosedInboxIsEmpty'
    BY <2>2, <2>4 DEF Inv, ControlTypeOK, OneLiveRun, HasRow, ClosedInboxIsEmpty
  <2>9. RunningHasRunner'
    <3>1. \A q \in Runs : row'[q] = "running" => q # r /\ row[q] = "running"
      BY <1>a, <1>25, <2>1 DEF SetStatus, ControlTypeOK
    <3>2. \A q \in Runs : q # r => pc'[q] = pc[q]
      BY <1>a, <2>3 DEF ControlTypeOK
    <3> QED
      BY <2>4, <3>1, <3>2 DEF Inv, RunningHasRunner
  <2> QED
    BY <2>5, <2>6, <2>7, <2>8, <2>9 DEF Inv
<1>26. ASSUME Untrack(r) PROVE Inv'
  BY ZenonT(60), <1>26 DEF Untrack, Inv, ControlTypeOK, Lock, Alone, HasRow, Stages,
     OneLiveRun,
     ClosedInboxIsEmpty, RunningHasRunner, Live, RunsOf, Goto, PCs
<1>27. ASSUME EmitDone(r) PROVE Inv'
  BY ZenonT(60), <1>27 DEF EmitDone, Inv, ControlTypeOK, Lock, Alone, HasRow, Stages,
     OneLiveRun,
     ClosedInboxIsEmpty, RunningHasRunner, Live, RunsOf, Goto, PCs
<1>28. ASSUME Exit(r) PROVE Inv'
  BY ZenonT(60), <1>28 DEF Exit, Inv, ControlTypeOK, Lock, Alone, HasRow, Stages,
     OneLiveRun,
     ClosedInboxIsEmpty, RunningHasRunner, Live, RunsOf, Goto, PCs
<1> QED
  BY <1>1, <1>2, <1>3, <1>4, <1>5, <1>6, <1>7, <1>8, <1>9, <1>10, <1>11, <1>12,
     <1>13, <1>14, <1>15, <1>16, <1>17, <1>18, <1>19, <1>20, <1>21, <1>22, <1>23, <1>24, <1>25, <1>26, <1>27, <1>28 DEF Work

-----------------------------------------------------------------------------
(* The steps left: a tool that gets the lock, StopRun's rows, a restart.  *)
LEMMA OthersKeepInv ==
  ASSUME Inv,
         \/ \E r \in Runs : ToolLocks(r)
         \/ \E c \in Chats : StopRows(c)
         \/ Restart
         \/ UNCHANGED vars
  PROVE  Inv'
<1> USE DEF dbVars, appVars, runVars, histVars
<1>a. ControlTypeOK
  BY DEF Inv
<1>1. ASSUME NEW r \in Runs, ToolSendsNothing(r) PROVE Inv'
  <2>1. GoesOn(r, "toolBack")
    BY <1>a, <1>1 DEF ToolSendsNothing, GoesOn, ControlTypeOK
  <2> QED
    BY <2>1, GoesOnKeepsInv DEF Onward, PCs
<1>2. ASSUME NEW r \in Runs, NEW c \in Chats, ToolSend(r, c) PROVE Inv'
  <2>1. conv.step = "free" /\ sent + 1 \in Msgs /\ sent' \in 0 .. NMsgs
    BY <1>a, <1>2 DEF ToolSend, Free, ControlTypeOK
  <2>2. conv' = Asked(r, "chat", c, sent + 1)
    BY <1>2 DEF ToolSend
  <2>3. HolderType(conv')
    BY <2>1, <2>2, AskedIsHolder DEF Ops
  <2>4. conv'.step = "look" /\ conv'.chat = c /\ conv'.msg = sent + 1
    BY <2>2 DEF Asked
  <2>5. UNCHANGED <<row, req, live, ending, stopping, cancelled, closed, inbox,
                    taken, turn, endTurn, pc, verdict, why, turns, crashes,
                    sealed, wiped>>
    BY <1>2 DEF ToolSend
  <2>6. ControlTypeOK'
    BY <1>a, <2>1, <2>3, <2>5 DEF ControlTypeOK
  <2>7. Lock' /\ Alone'
    BY <2>1, <2>4 DEF Lock, Alone
  <2>8. Stages' /\ OneLiveRun' /\ HasRow' /\ ClosedInboxIsEmpty'
    BY <2>5 DEF Inv, Stages, OneLiveRun, HasRow, ClosedInboxIsEmpty
  <2>9. RunningHasRunner'
    BY <2>1, <2>5 DEF Inv, RunningHasRunner
  <2> QED
    BY <2>6, <2>7, <2>8, <2>9 DEF Inv
<1>3. ASSUME NEW c \in Chats, StopRows(c) PROVE Inv'
  BY <1>3 DEF StopRows, RowsStopped, Inv, ControlTypeOK, RowStatus, Lock, Alone,
     HasRow, Stages, OneLiveRun, ClosedInboxIsEmpty, RunningHasRunner, Live, RunsOf
<1>4. ASSUME Restart PROVE Inv'
  <2>1. ControlTypeOK'
    <3>1. row' \in [Runs -> RowStatus] /\ pc' \in [Runs -> PCs]
      BY <1>a, <1>4 DEF Restart, ControlTypeOK, RowStatus, PCs
    <3>2. HolderType(conv')
      BY <1>4, FreeIsHolder DEF Restart
    <3>3. /\ live' = {} /\ ending' = {} /\ stopping' = {} /\ cancelled' = {}
          /\ closed' = {} /\ endTurn' = {}
          /\ inbox' = [q \in Runs |-> << >>] /\ taken' = [q \in Runs |-> << >>]
          /\ turn' = [q \in Runs |-> "none"] /\ crashes < MaxCrashes /\ crashes' = crashes + 1
          /\ UNCHANGED <<req, verdict, why, turns, sent, sealed, wiped>>
      BY <1>4 DEF Restart
    <3>4. \A q \in Runs : inbox'[q] \in Seq(Msgs) /\ Len(inbox'[q]) <= InboxCap
      BY <3>3
    <3>5. crashes' \in 0 .. MaxCrashes
      BY <1>a, <3>3 DEF ControlTypeOK
    <3> QED
      BY <1>a, <3>1, <3>2, <3>3, <3>4, <3>5 DEF ControlTypeOK, TurnState
  <2>2. Lock' /\ Alone'
    BY <1>4 DEF Restart, Free, Lock, Alone
  <2>3. HasRow' /\ OneLiveRun' /\ ClosedInboxIsEmpty'
    BY <1>4 DEF Restart, HasRow, OneLiveRun, ClosedInboxIsEmpty
  <2>4. Stages'
    BY <1>4 DEF Restart, Stages
  <2>5. RunningHasRunner'
    BY <1>4 DEF Restart, RunningHasRunner, Orphan
  <2> QED
    BY <2>1, <2>2, <2>3, <2>4, <2>5 DEF Inv
<1>5. CASE UNCHANGED vars
  BY <1>5 DEF vars, Inv, ControlTypeOK, Lock, Alone, HasRow, Stages, OneLiveRun,
     ClosedInboxIsEmpty, RunningHasRunner, Live, RunsOf
<1> QED
  BY <1>1, <1>2, <1>3, <1>4, <1>5 DEF ToolLocks

-----------------------------------------------------------------------------
(* The invariant holds in every reachable state. *)
LEMMA InvHolds == Spec => []Inv
<1>1. Inv /\ [Next]_vars => Inv'
  BY RequestKeepsInv, HolderKeepsInv, WorkKeepsInv, OthersKeepInv DEF Next
<1> QED
  BY InvInit, <1>1, PTL DEF Spec

(* The control state has its type: lock, stages, inboxes within their      *)
(* capacity (liveRun.inbox, convMu).                                       *)
THEOREM ControlTypeCorrect == Spec => []ControlTypeOK
<1>1. Inv => ControlTypeOK
  BY DEF Inv
<1> QED
  BY InvHolds, <1>1, PTL

(* A conversation has at most one live run, however messages, compactions, *)
(* stops, edits and restarts interleave (startOrInjectLocked).             *)
THEOREM OneLiveRunHolds == Spec => []OneLiveRun
<1>1. Inv => OneLiveRun
  BY DEF Inv
<1> QED
  BY InvHolds, <1>1, PTL

(* A run that closed its inbox has left no message in it (closeInbox). *)
THEOREM ClosedInboxIsEmptyHolds == Spec => []ClosedInboxIsEmpty
<1>1. Inv => ClosedInboxIsEmpty
  BY DEF Inv
<1> QED
  BY InvHolds, <1>1, PTL

(* A row that says running belongs to a run being started or at work, a     *)
(* restart included (finish, recoverOrphans).                              *)
THEOREM RunningHasRunnerHolds == Spec => []RunningHasRunner
<1>1. Inv => RunningHasRunner
  BY DEF Inv
<1> QED
  BY InvHolds, <1>1, PTL

-----------------------------------------------------------------------------
(* A run's row and how the run ended.                                      *)


Decided == {"untrack", "emitDone", "exit", "over"}

(* A run without a row does nothing; the run whose tool holds convMu has one. *)
Rowless ==
  /\ \A r \in Runs : row[r] = "none" => pc[r] = "none"
  /\ conv.by # NoRun => row[conv.by] # "none"

Outcome == Rowless /\ RowTellsOutcome

(* In the initial state no run has a row and no goroutine runs. *)
LEMMA OutcomeInit == Init => Outcome
<1> SUFFICES ASSUME Init PROVE Outcome
  OBVIOUS
<1>1. conv.by = NoRun /\ \A r \in Runs : pc[r] = "none"
  BY DEF Init, Free
<1> QED
  BY <1>1 DEF Outcome, Rowless, RowTellsOutcome

(* What a step may do to the row of a run that it does not finish. *)
RowMoves(q) ==
  \/ row'[q] = row[q]
  \/ row[q] = "running" /\ row'[q] = "stopped"
  \/ row'[q] = "gone"
  \/ row[q] = "none" /\ row'[q] # "none"

(* What it may do to its goroutine. *)
Works(q) ==
  \/ pc'[q] = pc[q] /\ verdict'[q] = verdict[q]
  \/ row[q] # "none" /\ pc'[q] \notin Decided

(* A step that finishes no run keeps the outcomes. *)
LEMMA OutcomeKept ==
  ASSUME Inv, Outcome, crashes' = crashes,
         \A q \in Runs : RowMoves(q) /\ Works(q),
         \/ conv'.by = NoRun
         \/ conv'.by = conv.by
         \/ conv'.by \in Runs /\ row[conv'.by] # "none"
  PROVE  Outcome'
<1>t. /\ row \in [Runs -> RowStatus] /\ verdict \in [Runs -> Verdicts]
      /\ conv.by \in Runs \cup {NoRun}
  BY DEF Inv, ControlTypeOK, HolderType
<1>1. \A q \in Runs : row'[q] = "none" => row[q] = "none" /\ pc'[q] = "none"
  BY DEF RowMoves, Works, Outcome, Rowless
<1>2. conv'.by # NoRun => row'[conv'.by] # "none"
  BY <1>t, <1>1 DEF Outcome, Rowless
<1>3. RowTellsOutcome'
  <2> SUFFICES ASSUME NEW q \in Runs, pc'[q] \in Decided,
                      pc'[q] = "over" => crashes = 0
               PROVE  row'[q] \in {verdict'[q], "gone"}
    BY DEF RowTellsOutcome, Decided
  <2>1. pc'[q] = pc[q] /\ verdict'[q] = verdict[q]
    BY DEF Works
  <2>2. row[q] \in {verdict[q], "gone"}
    BY <2>1 DEF Outcome, RowTellsOutcome, Decided
  <2>3. row[q] # "running" /\ row[q] # "none"
    BY <1>t, <2>1, <2>2 DEF Verdicts, Outcome, Rowless, Decided
  <2> QED
    BY <2>1, <2>2, <2>3 DEF RowMoves
<1> QED
  BY <1>1, <1>2, <1>3 DEF Outcome, Rowless

(* One run's goroutine goes to a stage before the end; no row changes. *)
LEMMA OneWorks ==
  ASSUME Inv, Outcome, NEW r \in Runs, pc[r] # "none",
         \E where \in PCs \ Decided : pc' = [pc EXCEPT ![r] = where],
         \/ verdict' = verdict
         \/ \E status \in Verdicts : verdict' = [verdict EXCEPT ![r] = status],
         UNCHANGED <<row, conv, crashes>>
  PROVE  Outcome'
<1>t. pc \in [Runs -> PCs] /\ verdict \in [Runs -> Verdicts]
  BY DEF Inv, ControlTypeOK
<1>1. \A q \in Runs : RowMoves(q)
  BY DEF RowMoves
<1>2. \A q \in Runs : Works(q)
  BY <1>t DEF Works, Outcome, Rowless
<1> QED
  BY <1>1, <1>2, OutcomeKept

(* A step that moves no goroutine and leaves the rows. *)
LEMMA NobodyWorks ==
  ASSUME Inv, Outcome, UNCHANGED <<row, pc, verdict, crashes>>,
         \/ conv'.by = NoRun
         \/ conv'.by = conv.by
         \/ conv'.by \in Runs /\ row[conv'.by] # "none"
  PROVE  Outcome'
<1>1. \A q \in Runs : RowMoves(q) /\ Works(q)
  BY DEF RowMoves, Works
<1> QED
  BY <1>1, OutcomeKept

(* Requests keep the outcomes: none moves a goroutine. *)
LEMMA RequestOutcome == ASSUME Inv, Outcome, Request PROVE Outcome'
<1> USE DEF dbVars, appVars, runVars, histVars
<1>1. ASSUME NEW c \in Chats, NEW r \in Runs, Clear(c, r) PROVE Outcome'
  <2>1. \A q \in Runs : RowMoves(q) /\ Works(q)
    BY <1>1 DEF Clear, CommandEvent, NewRun, RowMoves, Works, Inv, ControlTypeOK
  <2> QED
    BY <1>1, <2>1, OutcomeKept DEF Clear
<1>2. ASSUME NEW c \in Chats, NEW op \in {"chat", "idle"}, Send(c, op) PROVE Outcome'
  BY <1>2, NobodyWorks DEF Send, Asked
<1>3. ASSUME NEW c \in Chats, CompactChat(c) PROVE Outcome'
  BY <1>3, NobodyWorks DEF CompactChat, Asked
<1>4. ASSUME NEW c \in Chats, Edit(c) PROVE Outcome'
  BY <1>4, NobodyWorks DEF Edit, Cut, Asked
<1>5. ASSUME NEW c \in Chats, Delete(c) PROVE Outcome'
  BY <1>5, NobodyWorks DEF Delete, Cut, Asked
<1>6. ASSUME NEW c \in Chats, NEW op \in {"wipe", "wipePart"}, Wipe(c, op) PROVE Outcome'
  BY <1>6, NobodyWorks DEF Wipe, Cut, Asked
<1>7. ASSUME NEW c \in Chats, Stop(c) PROVE Outcome'
  BY <1>7, NobodyWorks DEF Stop
<1>8. ASSUME NEW r \in Runs, TimeOut(r) PROVE Outcome'
  BY <1>8, NobodyWorks DEF TimeOut
<1> QED
  BY <1>1, <1>2, <1>3, <1>4, <1>5, <1>6, <1>7, <1>8 DEF Request

(* The end of a request: the run whose tool asked goes on. *)
LEMMA ReleaseWorks ==
  ASSUME Inv, Outcome, Release, UNCHANGED <<row, verdict, crashes>>
  PROVE  Outcome'
<1>t. conv.by \in Runs \cup {NoRun} /\ pc \in [Runs -> PCs]
  BY DEF Inv, ControlTypeOK, HolderType
<1>1. \A q \in Runs : RowMoves(q) /\ Works(q)
  BY <1>t DEF RowMoves, Works, Release, Outcome, Rowless, Decided
<1>2. conv'.by = NoRun
  BY DEF Release, Free
<1> QED
  BY <1>1, <1>2, OutcomeKept

(* So does the holder of convMu: it starts runs, stops rows, empties runs. *)
LEMMA HolderOutcome == ASSUME Inv, Outcome, Holder PROVE Outcome'
<1> USE DEF dbVars, appVars, runVars, histVars
<1>t. /\ row \in [Runs -> RowStatus] /\ pc \in [Runs -> PCs]
      /\ conv.by \in Runs \cup {NoRun}
      /\ conv = [step |-> conv.step, by |-> conv.by, op |-> conv.op, chat |-> conv.chat,
                 msg |-> conv.msg, old |-> conv.old, run |-> conv.run,
                 wait |-> conv.wait, snap |-> conv.snap]
  BY DEF Inv, ControlTypeOK, HolderType
<1>1. ASSUME Look PROVE Outcome'
  <2>1. Release \/ (conv'.by = conv.by /\ pc' = pc)
    BY <1>1, <1>t DEF Look
  <2> QED
    BY <1>1, <2>1, ReleaseWorks, NobodyWorks DEF Look
<1>2. ASSUME InjectFind \/ InjectRefused PROVE Outcome'
  <2>1. conv'.by = conv.by
    BY <1>2, <1>t DEF InjectFind, InjectRefused
  <2> QED
    BY <1>2, <2>1, NobodyWorks DEF InjectFind, InjectRefused
<1>3. ASSUME InjectPush PROVE Outcome'
  BY <1>3, ReleaseWorks DEF InjectPush
<1>4. ASSUME Recheck PROVE Outcome'
  <2>1. Release \/ (conv'.by = conv.by /\ pc' = pc)
    BY <1>4, <1>t DEF Recheck
  <2> QED
    BY <1>4, <2>1, ReleaseWorks, NobodyWorks DEF Recheck
<1>5. ASSUME NEW r \in Runs, StartCreate(r) PROVE Outcome'
  <2>1. \A q \in Runs : RowMoves(q) /\ Works(q)
    BY <1>5, <1>t DEF StartCreate, NewRun, RowMoves, Works
  <2>2. conv'.by = conv.by
    BY <1>5, <1>t DEF StartCreate
  <2> QED
    BY <1>5, <2>1, <2>2, OutcomeKept DEF StartCreate
<1>6. ASSUME StartRefused PROVE Outcome'
  BY <1>6, ReleaseWorks DEF StartRefused
<1>7. ASSUME StartTrack PROVE Outcome'
  <2>1. conv.run \in Runs /\ row[conv.run] # "none"
    BY <1>7 DEF StartTrack, Inv, Lock, Alone
  <2>2. conv.by # NoRun => conv.by \in Runs /\ row[conv.by] # "none"
    BY <1>t DEF Outcome, Rowless
  <2>3. \A q \in Runs : RowMoves(q) /\ Works(q)
    BY <1>7, <1>t, <2>1, <2>2 DEF StartTrack, RowMoves, Works, Decided
  <2> QED
    BY <1>7, <2>3, OutcomeKept DEF StartTrack, Free
<1>8. ASSUME CutCancel \/ CutWaited \/ CutDeadline PROVE Outcome'
  <2>1. conv'.by = conv.by
    BY <1>8, <1>t DEF CutCancel, CutWaited, CutDeadline
  <2> QED
    BY <1>8, <2>1, NobodyWorks DEF CutCancel, CutWaited, CutDeadline
<1>9. ASSUME CutRows PROVE Outcome'
  <2>1. \A q \in Runs : RowMoves(q) /\ Works(q)
    BY <1>9 DEF CutRows, RowsStopped, RowMoves, Works
  <2>2. conv'.by = conv.by
    BY <1>9, <1>t DEF CutRows
  <2> QED
    BY <1>9, <2>1, <2>2, OutcomeKept DEF CutRows
<1>10. ASSUME Truncate PROVE Outcome'
  <2>1. \A q \in Runs : RowMoves(q) /\ Works(q)
    BY <1>10 DEF Truncate, RowMoves, Works
  <2>2. conv'.by = NoRun
    BY <1>10 DEF Truncate, Asked, Free
  <2> QED
    BY <1>10, <2>1, <2>2, OutcomeKept DEF Truncate
<1>11. ASSUME NEW r \in Runs, WipeDelete(r) PROVE Outcome'
  <2>1. \A q \in Runs : RowMoves(q) /\ Works(q)
    BY <1>11, <1>t DEF WipeDelete, CommandEvent, NewRun, RowMoves, Works
  <2> QED
    BY <1>11, <2>1, OutcomeKept DEF WipeDelete, Free
<1> QED
  BY <1>1, <1>2, <1>3, <1>4, <1>5, <1>6, <1>7, <1>8, <1>9, <1>10, <1>11 DEF Holder

(* finish writes the status it decided; its last steps leave the row. *)
LEMMA FinishOutcome ==
  ASSUME Inv, Outcome, NEW r \in Runs, SetStatus(r) \/ Untrack(r) \/ EmitDone(r) \/ Exit(r)
  PROVE  Outcome'
<1> USE DEF dbVars, appVars, runVars, histVars, Goto
<1>t. /\ pc \in [Runs -> PCs] /\ row \in [Runs -> RowStatus]
      /\ verdict \in [Runs -> Verdicts]
      /\ \A q \in Runs : row[q] = "none" => pc[q] = "none"
  BY DEF Inv, ControlTypeOK, Outcome, Rowless
<1>1. CASE SetStatus(r)
  <2>1. row' \in [Runs -> RowStatus] /\ row'[r] \in {verdict[r], "gone"}
        /\ verdict[r] # "none" /\ pc[r] # "none"
    BY <1>1, <1>t DEF SetStatus, RowStatus, Verdicts, Inv, Stages
  <2>2. \A q \in Runs : q # r => row'[q] = row[q] /\ pc'[q] = pc[q]
    BY <1>1, <1>t DEF SetStatus
  <2>3. pc'[r] = "untrack" /\ verdict' = verdict /\ conv' = conv /\ crashes' = crashes
    BY <1>1, <1>t DEF SetStatus
  <2>4. RowTellsOutcome'
    BY <2>1, <2>2, <2>3 DEF Outcome, RowTellsOutcome
  <2>5. Rowless'
    <3>1. conv.by \in Runs \cup {NoRun}
      BY DEF Inv, ControlTypeOK, HolderType
    <3>2. \A q \in Runs : row'[q] = "none" => row[q] = "none" /\ q # r
      BY <2>1, <2>2
    <3> QED
      BY <2>2, <2>3, <3>1, <3>2 DEF Outcome, Rowless
  <2> QED
    BY <2>4, <2>5 DEF Outcome
<1>2. CASE Untrack(r) \/ EmitDone(r) \/ Exit(r)
  <2>1. /\ UNCHANGED <<row, verdict, conv, crashes>>
        /\ \A q \in Runs : q # r => pc'[q] = pc[q]
        /\ pc[r] \in {"untrack", "emitDone", "exit"} /\ pc'[r] \in Decided
    BY <1>2, <1>t DEF Untrack, EmitDone, Exit, Decided, Emit
  <2>2. RowTellsOutcome'
    BY <2>1 DEF Outcome, RowTellsOutcome, Decided
  <2>3. Rowless'
    BY <2>1, <1>t DEF Outcome, Rowless
  <2> QED
    BY <2>2, <2>3 DEF Outcome
<1> QED
  BY <1>1, <1>2

(* A goroutine's other steps end at a stage before the end. *)
LEMMA WorkOutcome == ASSUME Inv, Outcome, NEW r \in Runs, Work(r) PROVE Outcome'
<1> USE DEF dbVars, appVars, runVars, histVars, Goto, Finish
<1>1. CASE SetStatus(r) \/ Untrack(r) \/ EmitDone(r) \/ Exit(r)
  BY <1>1, FinishOutcome
<1>2. CASE DrainMove(r) \/ Commit(r)
  BY <1>2, NobodyWorks DEF DrainMove, Commit
<1>3. CASE NoModel(r) \/ Open(r) \/ OpenCompact(r) \/ DrainTake(r) \/ Drained(r)
  BY <1>3, OneWorks
  DEF NoModel, Open, OpenCompact, DrainTake, Drained, Decided, PCs, Verdicts
<1>4. CASE Check(r) \/ CompactAnchor(r)
  BY <1>4, OneWorks DEF Check, CompactAnchor, Decided, PCs
<1>5. CASE CompactDone(r)
  <2>1. why[r] \in {"manual", "auto", "overflow"}
    BY <1>5 DEF CompactDone, Inv, ControlTypeOK, Stages, Reasons
  <2>2. AfterSummary[why[r]] \in PCs \ Decided
    BY <2>1 DEF AfterSummary, PCs, Decided
  <2> QED
    BY <1>5, <2>2, OneWorks DEF CompactDone
<1>6. CASE CompactFailed(r) \/ TurnOpen(r) \/ StreamFailed(r) \/ Overflow(r)
  BY <1>6, OneWorks DEF CompactFailed, TurnOpen, StreamFailed, Overflow, Decided, PCs
<1>7. CASE Fold(r)
  BY <1>7, OneWorks DEF Fold, Decided, PCs, Verdicts
<1>8. CASE Reply(r) \/ Erred(r) \/ SayStopped(r)
  BY <1>8, OneWorks DEF Reply, Erred, SayStopped, Decided, PCs, Verdicts
<1>9. CASE Close(r) \/ TurnEnd(r)
  BY <1>9, OneWorks DEF Close, TurnEnd, CloseInbox, Decided, PCs, Verdicts
<1>10. CASE ToolTurn(r) \/ ToolTalks(r) \/ ToolAsks(r) \/ ToolReturn(r)
  BY <1>10, OneWorks DEF ToolTurn, ToolTalks, ToolAsks, ToolReturn, Decided, PCs
<1> QED
  BY <1>1, <1>2, <1>3, <1>4, <1>5, <1>6, <1>7, <1>8, <1>9, <1>10 DEF Work

(* So do a waiting tool, StopRun's rows and a restart. *)
LEMMA OthersOutcome ==
  ASSUME Inv, Outcome,
         \/ \E r \in Runs : ToolLocks(r)
         \/ \E c \in Chats : StopRows(c)
         \/ Restart
         \/ UNCHANGED vars
  PROVE  Outcome'
<1> USE DEF dbVars, appVars, runVars, histVars
<1>1. ASSUME NEW r \in Runs, ToolSendsNothing(r) PROVE Outcome'
  BY <1>1, OneWorks DEF ToolSendsNothing, Decided, PCs
<1>2. ASSUME NEW r \in Runs, NEW c \in Chats, ToolSend(r, c) PROVE Outcome'
  <2>1. row[r] # "none" /\ conv'.by = r
    BY <1>2 DEF ToolSend, Asked, Outcome, Rowless
  <2> QED
    BY <1>2, <2>1, NobodyWorks DEF ToolSend
<1>3. ASSUME NEW c \in Chats, StopRows(c) PROVE Outcome'
  <2>1. \A q \in Runs : RowMoves(q) /\ Works(q)
    BY <1>3 DEF StopRows, RowsStopped, RowMoves, Works
  <2> QED
    BY <1>3, <2>1, OutcomeKept DEF StopRows
<1>4. ASSUME Restart PROVE Outcome'
  <2>1. crashes' # 0
    BY <1>4 DEF Restart, Inv, ControlTypeOK
  <2>2. \A q \in Runs : pc'[q] \in {"none", "over"}
    BY <1>4 DEF Restart
  <2>3. RowTellsOutcome'
    BY <2>1, <2>2 DEF RowTellsOutcome
  <2>4. \A q \in Runs : row'[q] = "none" => pc'[q] = "none"
    BY <1>4 DEF Restart, Outcome, Rowless, Orphan
  <2>5. conv'.by = NoRun
    BY <1>4 DEF Restart, Free
  <2> QED
    BY <2>3, <2>4, <2>5 DEF Outcome, Rowless
<1>5. CASE UNCHANGED vars
  BY <1>5, NobodyWorks DEF vars
<1> QED
  BY <1>1, <1>2, <1>3, <1>4, <1>5 DEF ToolLocks

(* A run that works has a row, and the row ends with the run's verdict. *)
LEMMA OutcomeHolds == Spec => []Outcome
<1>1. Inv /\ Outcome /\ [Next]_vars => Outcome'
  BY RequestOutcome, HolderOutcome, WorkOutcome, OthersOutcome DEF Next
<1> QED
  BY OutcomeInit, InvHolds, <1>1, PTL DEF Spec

(* finish has the last word on a run's row, whatever stops, cuts and other  *)
(* runs' starts wrote over it before (cancelRuns marks every running row of *)
(* the conversation after it has let go of App.mu).                         *)
THEOREM RowTellsOutcomeHolds == Spec => []RowTellsOutcome
<1>1. Outcome => RowTellsOutcome
  BY DEF Outcome
<1> QED
  BY OutcomeHolds, <1>1, PTL

-----------------------------------------------------------------------------
(* The log and the histories.                                              *)


-----------------------------------------------------------------------------
(* What the steps of the engine do to the log.                             *)

(* Run r writes an event of this kind, unless its row is gone.             *)
Writes(r, kind, m) ==
  \/ row[r] = "gone" /\ log' = log
  \/ \E e \in Event : /\ e.run = r /\ e.kind = kind /\ e.msg = m
                      /\ row[r] # "gone"
                      /\ log' = [log EXCEPT ![req[r].chat] = Append(@, e)]

(* The events of the messages ms of a chat go behind the others.           *)
Moves(c, ms) ==
  \E t \in Seq(Event) :
    /\ log' = [log EXCEPT ![c] = t] /\ ToSet(t) = ToSet(log[c])
    /\ \E h : Rearranged(t, log[c], h, UserEvents(log[c], ms))

(* The kinds of events a goroutine writes at a stage.                      *)
Speaks(where) ==
  CASE where = "begin" -> {"error"}
    [] where = "anchor" -> {"compacting"}
    [] where = "summary" -> {"compaction", "error"}
    [] where = "stream" -> {"assistant", "turn"}
    [] where \in {"tool", "toolBack"} -> {"tool_result"}
    [] where = "erred" -> {"error"}
    [] where = "stopped" -> {"assistant"}
    [] where = "emitDone" -> {"done"}
    [] OTHER -> {}

(* No stage of a goroutine writes a message by itself. *)
LEMMA SpeaksKinds == \A where : Speaks(where) \subseteq Kinds \ {"user"}
BY DEF Speaks, Kinds

LogTyped == log \in [Chats -> Seq(Event)]

(* Every run with a row is of a chat. *)
OfChat == \A r \in Runs : row[r] # "none" => req[r].chat \in Chats

(* An event written for a run goes to the end of its conversation, unless  *)
(* the run's row is gone (Emit, record).                                   *)
LEMMA WrittenIs ==
  ASSUME LogTyped, NEW r \in Runs, req[r].chat \in Chats, NEW kind \in Kinds,
         NEW m \in Msgs \cup {NoMsg}, NEW after \in EventIds,
         log' = Written(r, kind, m, after)
  PROVE  Writes(r, kind, m) /\ LogTyped'
<1> DEFINE c == req[r].chat
           e == NewEvent(log[c], r, kind, m, after)
<1>1. log[c] \in Seq(Event)
  BY DEF LogTyped
<1>2. e \in Event /\ e.run = r /\ e.kind = kind /\ e.msg = m
  BY <1>1, NewEventIs
<1>3. log' = IF row[r] = "gone" THEN log ELSE [log EXCEPT ![c] = Append(@, e)]
  BY <1>1 DEF LogTyped, Written
<1> HIDE DEF e
<1>4. Append(log[c], e) \in Seq(Event)
  BY <1>1, <1>2
<1>5. LogTyped'
  BY <1>3, <1>4 DEF LogTyped
<1> QED
  BY <1>2, <1>3, <1>5 DEF Writes

(* MoveBehind and MoveAllBehind on a conversation of the log. *)
LEMMA MovesIs ==
  ASSUME LogTyped, NEW c \in Chats
  PROVE  /\ \A m : log' = [log EXCEPT ![c] = MoveBehind(@, m)] => Moves(c, {m}) /\ LogTyped'
         /\ \A q : log' = [log EXCEPT ![c] = MoveAllBehind(@, q)] => Moves(c, ToSet(q)) /\ LogTyped'
<1>1. log[c] \in Seq(Event)
  BY DEF LogTyped
<1>2. ASSUME NEW m, log' = [log EXCEPT ![c] = MoveBehind(@, m)] PROVE Moves(c, {m}) /\ LogTyped'
  <2>1. log' = [log EXCEPT ![c] = MoveBehind(log[c], m)]
    BY <1>2
  <2>2. MoveBehind(log[c], m) \in Seq(Event)
    BY <1>1, MovedIs
  <2> QED
    BY <1>1, <2>1, <2>2, MovedIs DEF Moves, LogTyped
<1>3. ASSUME NEW q, log' = [log EXCEPT ![c] = MoveAllBehind(@, q)] PROVE Moves(c, ToSet(q)) /\ LogTyped'
  <2>1. log' = [log EXCEPT ![c] = MoveAllBehind(log[c], q)]
    BY <1>3
  <2>2. MoveAllBehind(log[c], q) \in Seq(Event)
    BY <1>1, MovedIs
  <2> QED
    BY <1>1, <2>1, <2>2, MovedIs DEF Moves, LogTyped
<1> QED
  BY <1>2, <1>3

(* What a step of run r's goroutine does to the log.                       *)
WorkLog(r) ==
  \/ log' = log
  \/ \E kind \in Speaks(pc[r]) : Writes(r, kind, NoMsg)
  \/ Open(r)
  \/ DrainMove(r) /\ Moves(req[r].chat, {Head(taken[r])})
  \/ Fold(r) /\ Moves(req[r].chat, ToSet(inbox[r]))

(* An event a goroutine emits is of a kind its stage writes. *)
LEMMA EmitIs ==
  ASSUME LogTyped, NEW r \in Runs, req[r].chat \in Chats, NEW kind \in Speaks(pc[r]),
         NEW after \in EventIds, log' = Written(r, kind, NoMsg, after)
  PROVE  WorkLog(r) /\ LogTyped'
<1>1. kind \in Kinds
  BY SpeaksKinds
<1> QED
  BY <1>1, WrittenIs DEF WorkLog

(* An opening writes the run's message, moves what waits behind it and     *)
(* replays the result (settleInbox, contextFromDB).                        *)
LEMMA OpenTyped ==
  ASSUME LogTyped, NEW r \in Runs, req[r].chat \in Chats, req[r].msg \in Msgs \cup {NoMsg}, Open(r)
  PROVE  /\ LogTyped'
         /\ \E w \in Seq(Event) : \E t \in Seq(Event) :
              /\ w = Written(r, "user", req[r].msg, NoEvent)[req[r].chat]
              /\ t = MoveAllBehind(w, inbox[r])
              /\ log' = [log EXCEPT ![req[r].chat] = t]
              /\ hist' = [hist EXCEPT ![r] = Replay(Ordered(t))]
<1> DEFINE c == req[r].chat
           w == Written(r, "user", req[r].msg, NoEvent)[c]
           t == MoveAllBehind(w, inbox[r])
           e == NewEvent(log[c], r, "user", req[r].msg, NoEvent)
<1>1. log[c] \in Seq(Event) /\ NoEvent \in EventIds /\ "user" \in Kinds
  BY DEF LogTyped, NoEvent, EventIds, Kinds
<1>2. e \in Event
  BY <1>1, NewEventIs
<1>3. w = IF row[r] = "gone" THEN log[c] ELSE Append(log[c], e)
  BY <1>1 DEF LogTyped, Written
<1> HIDE DEF w, e
<1>4. w \in Seq(Event)
  BY <1>1, <1>2, <1>3
<1>5. t \in Seq(Event)
  BY <1>4, MovedIs
<1>6. log' = [log EXCEPT ![c] = t] /\ hist' = [hist EXCEPT ![r] = Replay(Ordered(t))]
  BY DEF Open, w
<1> HIDE DEF t
<1>7. LogTyped'
  BY <1>5, <1>6 DEF LogTyped
<1> QED
  BY <1>4, <1>5, <1>6, <1>7 DEF t, w

AnchorTyped == anchor \in [Runs -> EventIds]

(* A goroutine writes to the log what its stage says, and keeps its type. *)
LEMMA WorkOnLog ==
  ASSUME LogTyped, AnchorTyped, OfChat, Inv, Outcome, NEW r \in Runs, Work(r)
  PROVE  WorkLog(r) /\ LogTyped' /\ pc[r] # "none" /\ req[r].chat \in Chats
<1> USE DEF dbVars, appVars, runVars, histVars, Goto, Finish, Emit
<1>t. pc \in [Runs -> PCs] /\ req \in [Runs -> RequestType] /\ NoEvent \in EventIds
  BY DEF Inv, ControlTypeOK, NoEvent, EventIds
<1>0. pc[r] # "none"
  BY DEF Work, NoModel, Open, OpenCompact, DrainTake, DrainMove, Drained, Check, CompactAnchor,
         CompactDone, CompactFailed, Fold, TurnOpen, Commit, Reply, StreamFailed, Overflow, Erred,
         Close, ToolTurn, ToolTalks, ToolAsks, ToolReturn, TurnEnd, SayStopped, SetStatus, Untrack,
         EmitDone, Exit
<1>a. req[r].chat \in Chats
  BY <1>0 DEF Outcome, Rowless, OfChat
<1> SUFFICES WorkLog(r) /\ LogTyped'
  BY <1>0, <1>a
<1>b. log' = log => WorkLog(r) /\ LogTyped'
  BY DEF WorkLog, LogTyped
<1>c. ASSUME NEW kind \in Speaks(pc[r]), log' = Written(r, kind, NoMsg, NoEvent)
      PROVE  WorkLog(r) /\ LogTyped'
  BY <1>a, <1>c, <1>t, EmitIs
<1>1. CASE NoModel(r)
  BY <1>1, <1>c DEF NoModel, Speaks
<1>2. CASE Open(r)
  <2>1. req[r].msg \in Msgs \cup {NoMsg}
    BY <1>t DEF RequestType
  <2> QED
    BY <1>2, <1>a, <2>1, OpenTyped DEF WorkLog
<1>3. CASE OpenCompact(r) \/ DrainTake(r) \/ Drained(r) \/ Check(r) \/ TurnOpen(r) \/ Commit(r)
           \/ StreamFailed(r) \/ Overflow(r) \/ Close(r)
  BY <1>3, <1>b DEF OpenCompact, DrainTake, Drained, Check, TurnOpen, Commit, StreamFailed,
     Overflow, Close
<1>4. CASE DrainMove(r)
  <2>1. log' = [log EXCEPT ![req[r].chat] = MoveBehind(@, Head(taken[r]))]
    BY <1>4 DEF DrainMove
  <2> QED
    BY <1>4, <1>a, <2>1, MovesIs DEF WorkLog
<1>5. CASE CompactAnchor(r)
  BY <1>5, <1>c DEF CompactAnchor, Speaks
<1>6. CASE CompactDone(r)
  <2>1. anchor[r] \in EventIds /\ "compaction" \in Speaks(pc[r])
    BY <1>6 DEF CompactDone, Speaks, AnchorTyped
  <2>2. log' = Written(r, "compaction", NoMsg, anchor[r])
    BY <1>6 DEF CompactDone
  <2> QED
    BY <1>a, <2>1, <2>2, EmitIs
<1>7. CASE CompactFailed(r)
  BY <1>7, <1>b, <1>c DEF CompactFailed, Speaks
<1>8. CASE Fold(r)
  <2>1. log' = [log EXCEPT ![req[r].chat] = MoveAllBehind(@, inbox[r])]
    BY <1>8 DEF Fold
  <2> QED
    BY <1>8, <1>a, <2>1, MovesIs DEF WorkLog
<1>9. CASE Reply(r)
  BY <1>9, <1>b, <1>c DEF Reply, Speaks
<1>10. CASE Erred(r)
  BY <1>10, <1>b, <1>c DEF Erred, Speaks
<1>11. CASE ToolTurn(r)
  BY <1>11, <1>c DEF ToolTurn, Speaks
<1>12. CASE ToolTalks(r) \/ ToolAsks(r) \/ TurnEnd(r) \/ SetStatus(r) \/ Untrack(r) \/ Exit(r)
  BY <1>12, <1>b DEF ToolTalks, ToolAsks, TurnEnd, SetStatus, Untrack, Exit
<1>13. CASE ToolReturn(r)
  BY <1>13, <1>b, <1>c DEF ToolReturn, Speaks
<1>14. CASE SayStopped(r)
  BY <1>14, <1>c DEF SayStopped, Speaks
<1>15. CASE EmitDone(r)
  BY <1>15, <1>c DEF EmitDone, Speaks
<1> QED
  BY <1>1, <1>2, <1>3, <1>4, <1>5, <1>6, <1>7, <1>8, <1>9, <1>10, <1>11, <1>12, <1>13, <1>14, <1>15
     DEF Work

(* A cut takes events away; a command leaves one of its own.               *)
Cuts(c) ==
  \E kept \in Seq(Event) :
    ToSet(kept) \subseteq ToSet(log[c]) /\ log' = [log EXCEPT ![c] = kept]

Marks(c, r, kind) ==
  \E kept \in Seq(Event), e \in Event :
    /\ ToSet(kept) \subseteq ToSet(log[c]) /\ log' = [log EXCEPT ![c] = Append(kept, e)]
    /\ e.run = r /\ e.kind = kind /\ e.msg = NoMsg

(* A command leaves one event, of a new run, behind what it keeps. *)
LEMMA CommandIs ==
  ASSUME LogTyped, NEW c \in Chats, NEW r \in Runs, NEW kind \in Kinds, NEW kept \in Seq(Event),
         ToSet(kept) \subseteq ToSet(log[c]), CommandEvent(c, r, kept, kind)
  PROVE  /\ Marks(c, r, kind) /\ LogTyped'
         /\ req' = [req EXCEPT ![r] = [chat |-> c, kind |-> "command", msg |-> NoMsg]]
         /\ row[r] = "none" /\ \A q \in Runs : q < r => row[q] # "none"
<1> DEFINE e == NewEvent(kept, r, kind, NoMsg, NoEvent)
<1>1. NoEvent \in EventIds
  BY DEF NoEvent, EventIds
<1>2. e \in Event /\ e.run = r /\ e.kind = kind /\ e.msg = NoMsg
  BY <1>1, NewEventIs
<1>3. log' = [log EXCEPT ![c] = Append(kept, e)]
  BY DEF CommandEvent
<1> HIDE DEF e
<1>4. LogTyped'
  BY <1>2, <1>3 DEF LogTyped
<1>5. Marks(c, r, kind)
  BY <1>2, <1>3 DEF Marks
<1>6. row[r] = "none" /\ \A q \in Runs : q < r => row[q] # "none"
  BY DEF CommandEvent, NewRun
<1>7. req' = [req EXCEPT ![r] = [chat |-> c, kind |-> "command", msg |-> NoMsg]]
  BY DEF CommandEvent
<1> QED
  BY <1>4, <1>5, <1>6, <1>7

(* What the holder of convMu does to the log.                              *)
HolderLog ==
  \/ log' = log
  \/ InjectPush /\ Writes(conv.run, "user", conv.msg)
  \/ Truncate /\ Cuts(conv.chat)
  \/ \E r \in Runs : WipeDelete(r) /\ Marks(conv.chat, r, "wiped")

(* The holder of convMu writes a message, cuts a conversation or marks it. *)
LEMMA HolderOnLog ==
  ASSUME LogTyped, OfChat, Inv, HasRow, Holder,
         conv.step = "push" => req[conv.run].chat \in Chats
  PROVE  HolderLog /\ LogTyped'
<1> USE DEF dbVars, appVars, runVars, histVars
<1>t. /\ conv.step \in {"find", "push", "track"} => conv.run \in Runs
      /\ conv.step \in {"look", "find", "push", "recheck"} => conv.msg \in Msgs
      /\ conv.step # "free" => conv.chat \in Chats
  BY DEF Inv, Lock
<1>1. CASE InjectPush
  <2>1. conv.run \in Runs /\ conv.msg \in Msgs /\ req[conv.run].chat \in Chats
    BY <1>1, <1>t DEF InjectPush
  <2>2. log' = Written(conv.run, "user", conv.msg, NoEvent)
    BY <1>1 DEF InjectPush
  <2>3. "user" \in Kinds /\ NoEvent \in EventIds
    BY DEF Kinds, NoEvent, EventIds
  <2> QED
    BY <1>1, <2>1, <2>2, <2>3, WrittenIs DEF HolderLog
<1>2. CASE Truncate
  <2> DEFINE c == conv.chat
             kept == TruncateFrom(log[c], Ordered(log[c]), conv.old)
  <2>1. c \in Chats
    BY <1>2, <1>t DEF Truncate
  <2>2. log' = [log EXCEPT ![c] = kept]
    BY <1>2 DEF Truncate
  <2>3. kept \in Seq(Event) /\ ToSet(kept) \subseteq ToSet(log[c])
    BY <2>1, TruncatedIs DEF LogTyped
  <2> HIDE DEF kept
  <2> QED
    BY <1>2, <2>1, <2>2, <2>3 DEF HolderLog, Cuts, LogTyped
<1>3. ASSUME NEW r \in Runs, WipeDelete(r) PROVE HolderLog /\ LogTyped'
  <2> DEFINE c == conv.chat
             kept == Keep(log[c], ToSet(log[c]) \ conv.snap)
  <2>1. c \in Chats /\ "wiped" \in Kinds
    BY <1>3, <1>t DEF WipeDelete, Kinds
  <2>2. CommandEvent(c, r, kept, "wiped")
    BY <1>3 DEF WipeDelete
  <2>3. log[c] \in Seq(Event)
    BY <2>1 DEF LogTyped
  <2>4. kept \in Seq(Event) /\ ToSet(kept) = ToSet(log[c]) \cap (ToSet(log[c]) \ conv.snap)
    BY <2>3, KeepElements
  <2> HIDE DEF kept
  <2> QED
    BY <1>3, <2>1, <2>2, <2>4, CommandIs DEF HolderLog
<1>4. CASE Look \/ InjectFind \/ InjectRefused \/ Recheck \/ (\E r \in Runs : StartCreate(r))
           \/ StartRefused \/ StartTrack \/ CutCancel \/ CutRows \/ CutWaited \/ CutDeadline
  <2>1. log' = log
    BY <1>4 DEF Look, InjectFind, InjectRefused, Recheck, StartCreate, StartRefused, StartTrack,
       CutCancel, CutRows, CutWaited, CutDeadline
  <2> QED
    BY <2>1 DEF HolderLog, LogTyped
<1> QED
  BY <1>1, <1>2, <1>3, <1>4 DEF Holder

(* What a request does to the log: only a clear writes.                    *)
LEMMA RequestOnLog ==
  ASSUME LogTyped, Request
  PROVE  /\ LogTyped'
         /\ \/ log' = log
            \/ \E c \in Chats, r \in Runs : Clear(c, r) /\ Marks(c, r, "context_cleared")
<1> USE DEF dbVars, appVars, runVars, histVars
<1>1. ASSUME NEW c \in Chats, NEW r \in Runs, Clear(c, r)
      PROVE  LogTyped' /\ Marks(c, r, "context_cleared")
  <2>1. log[c] \in Seq(Event) /\ "context_cleared" \in Kinds
    BY DEF LogTyped, Kinds
  <2>2. CommandEvent(c, r, log[c], "context_cleared")
    BY <1>1 DEF Clear
  <2> QED
    BY <2>1, <2>2, CommandIs
<1>2. ASSUME NEW c \in Chats,
             \/ \E op \in {"chat", "idle"} : Send(c, op)
             \/ CompactChat(c) \/ Edit(c) \/ Delete(c) \/ Stop(c)
             \/ \E op \in {"wipe", "wipePart"} : Wipe(c, op)
      PROVE  log' = log
  BY <1>2 DEF Send, CompactChat, Edit, Delete, Stop, Wipe
<1>3. ASSUME NEW r \in Runs, TimeOut(r) PROVE log' = log
  BY <1>3 DEF TimeOut
<1>4. log' = log \/ \E c \in Chats, r \in Runs : Clear(c, r)
  BY <1>2, <1>3 DEF Request
<1>5. log' = log => LogTyped'
  BY DEF LogTyped
<1> QED
  BY <1>1, <1>4, <1>5

(* A restart ends the runs whose rows say running. *)
Orphaned(c) ==
  \E s \in Seq(Event) :
    /\ log'[c] = log[c] \o s
    /\ \A i \in DOMAIN s : /\ s[i].kind = "done" /\ s[i].msg = NoMsg
                           /\ row[s[i].run] = "running" /\ req[s[i].run].chat = c

(* The done events of a restart are events of the runs it ends. *)
LEMMA DonesAre ==
  ASSUME NEW t \in Seq(Event), NEW q \in Seq(Runs)
  PROVE  /\ [i \in DOMAIN q |-> NewEvent(t, q[i], "done", NoMsg, NoEvent)] \in Seq(Event)
         /\ \A i \in DOMAIN q :
              /\ NewEvent(t, q[i], "done", NoMsg, NoEvent).run = q[i]
              /\ NewEvent(t, q[i], "done", NoMsg, NoEvent).kind = "done"
              /\ NewEvent(t, q[i], "done", NoMsg, NoEvent).msg = NoMsg
<1>1. "done" \in Kinds /\ NoEvent \in EventIds
  BY DEF Kinds, NoEvent, EventIds
<1>2. DOMAIN q = 1..Len(q) /\ Len(q) \in Nat /\ \A i \in 1..Len(q) : q[i] \in Runs
  OBVIOUS
<1>3. ASSUME NEW i \in 1..Len(q)
      PROVE  /\ NewEvent(t, q[i], "done", NoMsg, NoEvent) \in Event
             /\ NewEvent(t, q[i], "done", NoMsg, NoEvent).run = q[i]
             /\ NewEvent(t, q[i], "done", NoMsg, NoEvent).kind = "done"
             /\ NewEvent(t, q[i], "done", NoMsg, NoEvent).msg = NoMsg
  <2>1. q[i] \in Runs
    BY <1>2
  <2> QED
    BY <2>1, <1>1, NewEventIs
<1> QED
  BY <1>2, <1>3

(* A restart writes nothing but done events of runs left running. *)
LEMMA RestartOnLog ==
  ASSUME LogTyped, Restart
  PROVE  LogTyped' /\ \A c \in Chats : Orphaned(c)
<1> DEFINE K(c) == {r \in RunsOf(c) : Orphan(r) /\ ~HasDone(r)}
           left(c) == Keep([r \in Runs |-> r], K(c))
           s(c) == [i \in DOMAIN left(c) |-> NewEvent(log[c], left(c)[i], "done", NoMsg, NoEvent)]
<1>1. log' = [c \in Chats |-> log[c] \o s(c)]
  BY DEF Restart
<1>2. [r \in Runs |-> r] \in Seq(Runs)
  BY DEF Runs
<1>3. ASSUME NEW c \in Chats
      PROVE  /\ s(c) \in Seq(Event)
             /\ \A i \in DOMAIN s(c) : /\ s(c)[i].kind = "done" /\ s(c)[i].msg = NoMsg
                                       /\ row[s(c)[i].run] = "running" /\ req[s(c)[i].run].chat = c
  <2> DEFINE q == left(c)
             t == log[c]
  <2>1. q \in Seq(Runs) /\ ToSet(q) = ToSet([r \in Runs |-> r]) \cap K(c)
    BY <1>2, KeepElements
  <2>2. \A r \in K(c) : row[r] = "running" /\ req[r].chat = c
    BY DEF RunsOf, Orphan
  <2>3. s(c) = [i \in DOMAIN q |-> NewEvent(t, q[i], "done", NoMsg, NoEvent)]
    OBVIOUS
  <2>4. t \in Seq(Event)
    BY DEF LogTyped
  <2> HIDE DEF K, left, s, q, t
  <2>5. \A i \in DOMAIN q : q[i] \in K(c)
    <3>1. \A i \in DOMAIN q : q[i] \in ToSet(q)
      BY DEF ToSet
    <3> QED
      BY <2>1, <3>1
  <2>6. /\ s(c) \in Seq(Event) /\ DOMAIN s(c) = DOMAIN q
        /\ \A i \in DOMAIN q : s(c)[i].run = q[i] /\ s(c)[i].kind = "done" /\ s(c)[i].msg = NoMsg
    BY <2>1, <2>3, <2>4, DonesAre
  <2> QED
    BY <2>2, <2>5, <2>6
<1> HIDE DEF s
<1>4. \A c \in Chats : log'[c] = log[c] \o s(c)
  BY <1>1
<1>5. \A c \in Chats : Orphaned(c)
  BY <1>3, <1>4 DEF Orphaned
<1>6. ASSUME NEW c \in Chats PROVE log'[c] \in Seq(Event)
  <2>1. log[c] \in Seq(Event) /\ s(c) \in Seq(Event)
    BY <1>3 DEF LogTyped
  <2>2. log[c] \o s(c) \in Seq(Event)
    BY <2>1
  <2> QED
    BY <1>4, <2>2
<1>7. LogTyped'
  BY <1>1, <1>6 DEF LogTyped
<1> QED
  BY <1>5, <1>7

(* A tool that takes the lock and StopRun's rows leave it.                 *)
LEMMA OthersOnLog ==
  ASSUME LogTyped,
         \/ \E r \in Runs : ToolLocks(r)
         \/ \E c \in Chats : StopRows(c)
         \/ UNCHANGED vars
  PROVE  LogTyped' /\ log' = log
<1>1. log' = log
  BY DEF ToolLocks, ToolSendsNothing, ToolSend, StopRows, vars, dbVars
<1> QED
  BY <1>1 DEF LogTyped

-----------------------------------------------------------------------------
(* The type of what is read from and written to the log.                   *)

(* A compaction that is over has left its summary in the history. *)
Folding == \A r \in Runs : pc[r] = "fold" => hist[r] # << >>

DataInv == DataTypeOK /\ OfChat /\ Folding

ConvData == conv.old \in Msgs \cup {NoMsg} /\ conv.snap \subseteq Event

(* The data part of the type invariant, conjunct by conjunct. *)
LEMMA DataParts ==
  /\ DataTypeOK <=> /\ LogTyped /\ AnchorTyped /\ hist \in [Runs -> Seq(Item)]
                    /\ seen \subseteq Msgs /\ ConvData
BY DEF DataTypeOK, LogTyped, AnchorTyped, ConvData

(* The messages of a history are messages. *)
LEMMA MsgsInAre ==
  ASSUME NEW items \in Seq(Item)
  PROVE  MsgsIn(items) \subseteq Msgs
<1>1. \A i \in DOMAIN items : items[i] \in Item
  OBVIOUS
<1>2. \A e \in Item : e.msg \in Msgs \cup {NoMsg}
  BY DEF Item
<1> QED
  BY <1>1, <1>2 DEF MsgsIn

(* Single items. *)
LEMMA ItemsAre ==
  ASSUME NEW r \in Runs
  PROVE  /\ AssistantItem(r) \in Item /\ TurnItem(r) \in Item /\ ResultItem(r) \in Item
         /\ SummaryItem(r, NoMsg) \in Item
         /\ \A m \in Msgs : UserItem(r, m) \in Item
BY DEF AssistantItem, TurnItem, ResultItem, SummaryItem, UserItem, Item, ItemKinds

(* A goroutine's history stays a list of items.                            *)
HistMoves(r) ==
  \/ hist' = hist /\ pc'[r] # "fold"
  \/ \E items \in Seq(Item) : /\ hist' = [hist EXCEPT ![r] = items]
                              /\ pc'[r] = "fold" => items # << >>

(* Whatever a goroutine makes of its history is a list of items. *)
LEMMA HistTyped ==
  ASSUME Inv, DataInv, Outcome, NEW r \in Runs, Work(r)
  PROVE  HistMoves(r)
<1> USE DEF dbVars, appVars, runVars, histVars, Goto, Finish
<1>t. /\ pc \in [Runs -> PCs] /\ req \in [Runs -> RequestType]
      /\ hist \in [Runs -> Seq(Item)] /\ hist[r] \in Seq(Item)
      /\ inbox \in [Runs -> Seq(Msgs)] /\ taken \in [Runs -> Seq(Msgs)]
  BY DEF Inv, ControlTypeOK, DataInv, DataTypeOK
<1>l. LogTyped /\ AnchorTyped /\ OfChat
  BY DataParts DEF DataInv
<1>a. pc[r] # "none" /\ req[r].chat \in Chats
  BY <1>l, WorkOnLog
<1>b. \A c \in Chats : ContextOf(log[c]) \in Seq(Item)
  <2> SUFFICES ASSUME NEW c \in Chats PROVE ContextOf(log[c]) \in Seq(Item)
    OBVIOUS
  <2>1. Ordered(log[c]) \in Seq(Event)
    BY <1>l, OrderedIs DEF LogTyped
  <2> QED
    BY <2>1, ReplayIs DEF ContextOf
<1>1. CASE NoModel(r) \/ DrainTake(r) \/ Drained(r) \/ Check(r) \/ CompactAnchor(r)
           \/ CompactFailed(r) \/ TurnOpen(r) \/ Commit(r) \/ Reply(r) \/ StreamFailed(r)
           \/ Overflow(r) \/ Erred(r)
  BY <1>1, <1>t DEF NoModel, DrainTake, Drained, Check, CompactAnchor, CompactFailed, TurnOpen,
     Commit, Reply, StreamFailed, Overflow, Erred, HistMoves
<1>2. CASE ToolTalks(r) \/ ToolAsks(r) \/ TurnEnd(r) \/ SayStopped(r) \/ SetStatus(r)
           \/ Untrack(r) \/ EmitDone(r)
  BY <1>2, <1>t DEF ToolTalks, ToolAsks, TurnEnd, CloseInbox, SayStopped, SetStatus, Untrack,
     EmitDone, HistMoves
<1>3. CASE Open(r)
  <2>1. req[r].msg \in Msgs \cup {NoMsg}
    BY <1>t DEF RequestType
  <2>2. PICK t \in Seq(Event) : hist' = [hist EXCEPT ![r] = Replay(Ordered(t))]
    BY <1>3, <1>a, <1>l, <2>1, OpenTyped
  <2>3. Replay(Ordered(t)) \in Seq(Item)
    BY OrderedIs, ReplayIs
  <2>4. pc'[r] = "drain"
    BY <1>3, <1>t DEF Open
  <2> QED
    BY <2>2, <2>3, <2>4 DEF HistMoves
<1>4. CASE OpenCompact(r)
  <2>1. hist' = [hist EXCEPT ![r] = ContextOf(log[req[r].chat])] /\ pc'[r] = "anchor"
    BY <1>4, <1>t DEF OpenCompact
  <2> QED
    BY <1>a, <1>b, <2>1 DEF HistMoves
<1>5. CASE DrainMove(r)
  <2>1. Head(taken[r]) \in Msgs
    BY SMTT(30), <1>5, <1>t DEF DrainMove
  <2>2. hist' = [hist EXCEPT ![r] = Append(hist[r], UserItem(r, Head(taken[r])))] /\ pc'[r] = "move"
    BY <1>5, <1>t DEF DrainMove
  <2>3. UserItem(r, Head(taken[r])) \in Item
    BY <2>1, ItemsAre
  <2>4. Append(hist[r], UserItem(r, Head(taken[r]))) \in Seq(Item)
    BY <1>t, <2>3
  <2> QED
    BY <2>2, <2>4 DEF HistMoves
<1>6. CASE CompactDone(r)
  <2>1. hist' = [hist EXCEPT ![r] = <<SummaryItem(r, NoMsg)>>]
    BY <1>6 DEF CompactDone
  <2>2. <<SummaryItem(r, NoMsg)>> \in Seq(Item) /\ <<SummaryItem(r, NoMsg)>> # << >>
    BY ItemsAre
  <2> QED
    BY <2>1, <2>2 DEF HistMoves
<1>7. CASE Fold(r)
  <2> DEFINE got == [i \in DOMAIN inbox[r] |-> UserItem(r, inbox[r][i])]
  <2>1. hist' = [hist EXCEPT ![r] = FoldFirst(Head(hist[r]), got)] /\ pc'[r] # "fold"
    BY <1>7, <1>t DEF Fold
  <2>2. Head(hist[r]) \in Item
    <3>1. hist[r] # << >>
      BY <1>7 DEF Fold, DataInv, Folding
    <3> QED
      BY <1>t, <3>1
  <2>3. got \in Seq(Item)
    <3>1. inbox[r] \in Seq(Msgs)
      BY <1>t
    <3>2. DOMAIN inbox[r] = 1..Len(inbox[r]) /\ Len(inbox[r]) \in Nat
          /\ \A i \in 1..Len(inbox[r]) : inbox[r][i] \in Msgs
      BY <3>1
    <3>3. \A i \in 1..Len(inbox[r]) : UserItem(r, inbox[r][i]) \in Item
      BY <3>2, ItemsAre
    <3> QED
      BY <3>2, <3>3
  <2> HIDE DEF got
  <2>4. FoldFirst(Head(hist[r]), got) \in Seq(Item)
    BY <2>2, <2>3, FoldTells
  <2> QED
    BY <2>1, <2>4 DEF HistMoves
<1>8. CASE Close(r)
  <2>1. hist' = hist \/ hist' = [hist EXCEPT ![r] = Append(hist[r], AssistantItem(r))]
    BY <1>8 DEF Close
  <2>2. pc'[r] # "fold"
    BY <1>8, <1>t DEF Close, CloseInbox
  <2>3. Append(hist[r], AssistantItem(r)) \in Seq(Item)
    BY <1>t, ItemsAre
  <2> QED
    BY <2>1, <2>2, <2>3 DEF HistMoves
<1>9. CASE ToolTurn(r)
  <2>1. hist' = [hist EXCEPT ![r] = Append(hist[r], TurnItem(r))] /\ pc'[r] = "tool"
    BY <1>9, <1>t DEF ToolTurn
  <2>2. Append(hist[r], TurnItem(r)) \in Seq(Item)
    BY <1>t, ItemsAre
  <2> QED
    BY <2>1, <2>2 DEF HistMoves
<1>10. CASE ToolReturn(r)
  <2>1. hist' = hist \/ hist' = [hist EXCEPT ![r] = Append(hist[r], ResultItem(r))]
    BY <1>10 DEF ToolReturn
  <2>2. pc'[r] # "fold"
    BY <1>10, <1>t DEF ToolReturn
  <2>3. Append(hist[r], ResultItem(r)) \in Seq(Item)
    BY <1>t, ItemsAre
  <2> QED
    BY <2>1, <2>2, <2>3 DEF HistMoves
<1>11. CASE Exit(r)
  <2>1. hist' = [hist EXCEPT ![r] = << >>] /\ pc'[r] = "over"
    BY <1>11, <1>t DEF Exit
  <2>2. << >> \in Seq(Item)
    OBVIOUS
  <2> QED
    BY <2>1, <2>2 DEF HistMoves
<1> QED
  BY <1>1, <1>2, <1>3, <1>4, <1>5, <1>6, <1>7, <1>8, <1>9, <1>10, <1>11 DEF Work

(* A goroutine leaves the requests, the lock and the others' contexts. *)
LEMMA WorkLeaves ==
  ASSUME Inv, NEW r \in Runs, Work(r)
  PROVE  UNCHANGED <<req, conv, stopping, cancelled, sent, crashes, sealed, wiped>>
<1> USE DEF dbVars, appVars, runVars, histVars, Goto, Finish, CloseInbox
<1>1. CASE NoModel(r) \/ Open(r) \/ OpenCompact(r) \/ DrainTake(r) \/ DrainMove(r) \/ Drained(r) \/ Check(r)
  BY <1>1 DEF NoModel, Open, OpenCompact, DrainTake, DrainMove, Drained, Check
<1>2. CASE CompactAnchor(r) \/ CompactDone(r) \/ CompactFailed(r) \/ Fold(r) \/ TurnOpen(r) \/ Commit(r) \/ Reply(r)
  BY <1>2 DEF CompactAnchor, CompactDone, CompactFailed, Fold, TurnOpen, Commit, Reply
<1>3. CASE StreamFailed(r) \/ Overflow(r) \/ Erred(r) \/ Close(r) \/ ToolTurn(r) \/ ToolTalks(r) \/ ToolAsks(r)
  BY <1>3 DEF StreamFailed, Overflow, Erred, Close, ToolTurn, ToolTalks, ToolAsks
<1>4. CASE ToolReturn(r) \/ TurnEnd(r) \/ SayStopped(r) \/ SetStatus(r) \/ Untrack(r) \/ EmitDone(r) \/ Exit(r)
  BY <1>4 DEF ToolReturn, TurnEnd, SayStopped, SetStatus, Untrack, EmitDone, Exit
<1> QED
  BY <1>1, <1>2, <1>3, <1>4 DEF Work

(* It moves only its own run on. *)
LEMMA WorkOwnStage ==
  ASSUME Inv, NEW r \in Runs, Work(r)
  PROVE  \A q \in Runs : q # r => pc'[q] = pc[q] /\ verdict'[q] = verdict[q] /\ why'[q] = why[q]
<1> USE DEF dbVars, appVars, runVars, histVars, Goto, Finish, CloseInbox
<1>t. pc \in [Runs -> PCs] /\ verdict \in [Runs -> Verdicts] /\ why \in [Runs -> Reasons]
  BY DEF Inv, ControlTypeOK, DataInv, DataTypeOK
<1>1. CASE NoModel(r) \/ Open(r) \/ OpenCompact(r) \/ DrainTake(r)
  BY <1>1, <1>t DEF NoModel, Open, OpenCompact, DrainTake
<1>2. CASE DrainMove(r) \/ Drained(r) \/ Check(r) \/ CompactAnchor(r)
  BY <1>2, <1>t DEF DrainMove, Drained, Check, CompactAnchor
<1>3. CASE CompactDone(r) \/ CompactFailed(r) \/ Fold(r) \/ TurnOpen(r)
  BY <1>3, <1>t DEF CompactDone, CompactFailed, Fold, TurnOpen
<1>4. CASE Commit(r) \/ Reply(r) \/ StreamFailed(r) \/ Overflow(r)
  BY <1>4, <1>t DEF Commit, Reply, StreamFailed, Overflow
<1>5. CASE Erred(r) \/ Close(r) \/ ToolTurn(r) \/ ToolTalks(r)
  BY <1>5, <1>t DEF Erred, Close, ToolTurn, ToolTalks
<1>6. CASE ToolAsks(r) \/ ToolReturn(r) \/ TurnEnd(r) \/ SayStopped(r)
  BY <1>6, <1>t DEF ToolAsks, ToolReturn, TurnEnd, SayStopped
<1>7. CASE SetStatus(r) \/ Untrack(r) \/ EmitDone(r) \/ Exit(r)
  BY <1>7, <1>t DEF SetStatus, Untrack, EmitDone, Exit
<1> QED
  BY <1>1, <1>2, <1>3, <1>4, <1>5, <1>6, <1>7 DEF Work

(* No other run's row changes, and none is taken back. *)
LEMMA WorkOwnRow ==
  ASSUME Inv, NEW r \in Runs, Work(r)
  PROVE  (\A q \in Runs : q # r => row'[q] = row[q]) /\ (row' = row \/ SetStatus(r))
<1> USE DEF dbVars, appVars, runVars, histVars, Goto, Finish, CloseInbox
<1>t. row \in [Runs -> RowStatus]
  BY DEF Inv, ControlTypeOK, DataInv, DataTypeOK
<1>1. CASE NoModel(r) \/ Open(r) \/ OpenCompact(r) \/ DrainTake(r)
  BY <1>1, <1>t DEF NoModel, Open, OpenCompact, DrainTake
<1>2. CASE DrainMove(r) \/ Drained(r) \/ Check(r) \/ CompactAnchor(r)
  BY <1>2, <1>t DEF DrainMove, Drained, Check, CompactAnchor
<1>3. CASE CompactDone(r) \/ CompactFailed(r) \/ Fold(r) \/ TurnOpen(r)
  BY <1>3, <1>t DEF CompactDone, CompactFailed, Fold, TurnOpen
<1>4. CASE Commit(r) \/ Reply(r) \/ StreamFailed(r) \/ Overflow(r)
  BY <1>4, <1>t DEF Commit, Reply, StreamFailed, Overflow
<1>5. CASE Erred(r) \/ Close(r) \/ ToolTurn(r) \/ ToolTalks(r)
  BY <1>5, <1>t DEF Erred, Close, ToolTurn, ToolTalks
<1>6. CASE ToolAsks(r) \/ ToolReturn(r) \/ TurnEnd(r) \/ SayStopped(r)
  BY <1>6, <1>t DEF ToolAsks, ToolReturn, TurnEnd, SayStopped
<1>7. CASE SetStatus(r) \/ Untrack(r) \/ EmitDone(r) \/ Exit(r)
  BY <1>7, <1>t DEF SetStatus, Untrack, EmitDone, Exit
<1> QED
  BY <1>1, <1>2, <1>3, <1>4, <1>5, <1>6, <1>7 DEF Work

(* No other run's queues and history change. *)
LEMMA WorkOwnQueue ==
  ASSUME Inv, DataInv, NEW r \in Runs, Work(r)
  PROVE  \A q \in Runs : q # r => inbox'[q] = inbox[q] /\ taken'[q] = taken[q] /\ hist'[q] = hist[q]
<1> USE DEF dbVars, appVars, runVars, histVars, Goto, Finish, CloseInbox
<1>t. inbox \in [Runs -> Seq(Msgs)] /\ taken \in [Runs -> Seq(Msgs)] /\ hist \in [Runs -> Seq(Item)]
  BY DEF Inv, ControlTypeOK, DataInv, DataTypeOK
<1>1. CASE NoModel(r) \/ Open(r) \/ OpenCompact(r) \/ DrainTake(r)
  BY <1>1, <1>t DEF NoModel, Open, OpenCompact, DrainTake
<1>2. CASE DrainMove(r) \/ Drained(r) \/ Check(r) \/ CompactAnchor(r)
  BY <1>2, <1>t DEF DrainMove, Drained, Check, CompactAnchor
<1>3. CASE CompactDone(r) \/ CompactFailed(r) \/ Fold(r) \/ TurnOpen(r)
  BY <1>3, <1>t DEF CompactDone, CompactFailed, Fold, TurnOpen
<1>4. CASE Commit(r) \/ Reply(r) \/ StreamFailed(r) \/ Overflow(r)
  BY <1>4, <1>t DEF Commit, Reply, StreamFailed, Overflow
<1>5. CASE Erred(r) \/ Close(r) \/ ToolTurn(r) \/ ToolTalks(r)
  BY <1>5, <1>t DEF Erred, Close, ToolTurn, ToolTalks
<1>6. CASE ToolAsks(r) \/ ToolReturn(r) \/ TurnEnd(r) \/ SayStopped(r)
  BY <1>6, <1>t DEF ToolAsks, ToolReturn, TurnEnd, SayStopped
<1>7. CASE SetStatus(r) \/ Untrack(r) \/ EmitDone(r) \/ Exit(r)
  BY <1>7, <1>t DEF SetStatus, Untrack, EmitDone, Exit
<1> QED
  BY <1>1, <1>2, <1>3, <1>4, <1>5, <1>6, <1>7 DEF Work

(* No other run is tracked, untracked or closed. *)
LEMMA WorkOwnPlace ==
  ASSUME Inv, NEW r \in Runs, Work(r)
  PROVE  \A q \in Runs : q # r => (q \in live' <=> q \in live) /\ (q \in ending' <=> q \in ending) /\ (q \in closed' <=> q \in closed)
<1> USE DEF dbVars, appVars, runVars, histVars, Goto, Finish, CloseInbox
<1>1. CASE NoModel(r) \/ Open(r) \/ OpenCompact(r) \/ DrainTake(r)
  BY <1>1 DEF NoModel, Open, OpenCompact, DrainTake
<1>2. CASE DrainMove(r) \/ Drained(r) \/ Check(r) \/ CompactAnchor(r)
  BY <1>2 DEF DrainMove, Drained, Check, CompactAnchor
<1>3. CASE CompactDone(r) \/ CompactFailed(r) \/ Fold(r) \/ TurnOpen(r)
  BY <1>3 DEF CompactDone, CompactFailed, Fold, TurnOpen
<1>4. CASE Commit(r) \/ Reply(r) \/ StreamFailed(r) \/ Overflow(r)
  BY <1>4 DEF Commit, Reply, StreamFailed, Overflow
<1>5. CASE Erred(r) \/ Close(r) \/ ToolTurn(r) \/ ToolTalks(r)
  BY <1>5 DEF Erred, Close, ToolTurn, ToolTalks
<1>6. CASE ToolAsks(r) \/ ToolReturn(r) \/ TurnEnd(r) \/ SayStopped(r)
  BY <1>6 DEF ToolAsks, ToolReturn, TurnEnd, SayStopped
<1>7. CASE SetStatus(r) \/ Untrack(r) \/ EmitDone(r) \/ Exit(r)
  BY <1>7 DEF SetStatus, Untrack, EmitDone, Exit
<1> QED
  BY <1>1, <1>2, <1>3, <1>4, <1>5, <1>6, <1>7 DEF Work

(* A model reads its run's history when it is asked for a turn or a summary. *)
LEMMA WorkReads ==
  ASSUME NEW r \in Runs, Work(r)
  PROVE  \/ seen' = seen
         \/ pc[r] \in {"summary", "turn"} /\ seen' = seen \cup MsgsIn(hist[r])
<1> USE DEF dbVars, appVars, runVars, histVars
<1>1. CASE CompactDone(r) \/ TurnOpen(r)
  BY <1>1 DEF CompactDone, TurnOpen
<1>2. CASE \/ NoModel(r) \/ Open(r) \/ OpenCompact(r) \/ DrainTake(r) \/ DrainMove(r) \/ Drained(r)
           \/ Check(r) \/ CompactAnchor(r) \/ CompactFailed(r) \/ Fold(r) \/ Commit(r) \/ Reply(r)
  BY <1>2 DEF NoModel, Open, OpenCompact, DrainTake, DrainMove, Drained, Check, CompactAnchor,
     CompactFailed, Fold, Commit, Reply
<1>3. CASE \/ StreamFailed(r) \/ Overflow(r) \/ Erred(r) \/ Close(r) \/ ToolTurn(r) \/ ToolTalks(r)
           \/ ToolAsks(r) \/ ToolReturn(r) \/ TurnEnd(r) \/ SayStopped(r) \/ SetStatus(r)
           \/ Untrack(r) \/ EmitDone(r) \/ Exit(r)
  BY <1>3 DEF StreamFailed, Overflow, Erred, Close, ToolTurn, ToolTalks, ToolAsks, ToolReturn,
     TurnEnd, SayStopped, SetStatus, Untrack, EmitDone, Exit
<1> QED
  BY <1>1, <1>2, <1>3 DEF Work

(* The anchor of a compaction is the last event of the log. *)
LEMMA WorkAnchors ==
  ASSUME LogTyped, AnchorTyped, NEW r \in Runs, Work(r), req[r].chat \in Chats
  PROVE  AnchorTyped'
<1> USE DEF dbVars, appVars, runVars, histVars
<1>t. NoEvent \in EventIds /\ LastEventId(log[req[r].chat]) \in EventIds
  BY LastEventIdIs DEF NoEvent, EventIds, LogTyped
<1>1. \/ anchor' = anchor
      \/ \E id \in EventIds : anchor' = [anchor EXCEPT ![r] = id]
  <2>1. CASE CompactAnchor(r)
    BY <1>t, <2>1 DEF CompactAnchor
  <2>2. CASE CompactDone(r) \/ CompactFailed(r)
    BY <1>t, <2>2 DEF CompactDone, CompactFailed
  <2>3. CASE \/ NoModel(r) \/ Open(r) \/ OpenCompact(r) \/ DrainTake(r) \/ DrainMove(r)
             \/ Drained(r) \/ Check(r) \/ Fold(r) \/ TurnOpen(r) \/ Commit(r) \/ Reply(r)
    BY <2>3 DEF NoModel, Open, OpenCompact, DrainTake, DrainMove, Drained, Check, Fold, TurnOpen,
       Commit, Reply
  <2>4. CASE \/ StreamFailed(r) \/ Overflow(r) \/ Erred(r) \/ Close(r) \/ ToolTurn(r) \/ ToolTalks(r)
             \/ ToolAsks(r) \/ ToolReturn(r) \/ TurnEnd(r) \/ SayStopped(r) \/ SetStatus(r)
             \/ Untrack(r) \/ EmitDone(r) \/ Exit(r)
    BY <2>4 DEF StreamFailed, Overflow, Erred, Close, ToolTurn, ToolTalks, ToolAsks, ToolReturn,
       TurnEnd, SayStopped, SetStatus, Untrack, EmitDone, Exit
  <2> QED
    BY <2>1, <2>2, <2>3, <2>4 DEF Work
<1> QED
  BY <1>1 DEF AnchorTyped

(* The goroutine of a run keeps the data in its types. *)
LEMMA WorkKeepsData ==
  ASSUME Inv, Outcome, DataInv, NEW r \in Runs, Work(r)
  PROVE  DataInv'
<1>1. /\ LogTyped /\ AnchorTyped /\ hist \in [Runs -> Seq(Item)] /\ seen \subseteq Msgs
      /\ ConvData /\ OfChat /\ Folding
  BY DataParts DEF DataInv
<1>2. LogTyped' /\ pc[r] # "none" /\ req[r].chat \in Chats
  BY <1>1, WorkOnLog
<1>3. HistMoves(r)
  BY HistTyped
<1>4. req' = req /\ conv' = conv
  BY WorkLeaves
<1>5. hist' \in [Runs -> Seq(Item)] /\ Folding'
  <2>1. \A q \in Runs : q # r => pc'[q] = pc[q]
    BY WorkOwnStage
  <2> QED
    BY <1>1, <1>3, <2>1 DEF HistMoves, Folding
<1>6. seen' \subseteq Msgs
  <2>1. MsgsIn(hist[r]) \subseteq Msgs
    BY <1>1, MsgsInAre
  <2> QED
    BY <1>1, <2>1, WorkReads
<1>7. AnchorTyped'
  BY <1>1, <1>2, WorkAnchors
<1>8. ConvData'
  BY <1>1, <1>4 DEF ConvData
<1>9. OfChat'
  <2>1. row[r] # "none"
    BY <1>2 DEF Outcome, Rowless
  <2>2. \A q \in Runs : q # r => row'[q] = row[q]
    BY WorkOwnRow
  <2> QED
    BY <1>1, <1>4, <2>1, <2>2 DEF OfChat
<1> QED
  BY <1>2, <1>5, <1>6, <1>7, <1>8, <1>9 DEF DataInv, DataTypeOK, LogTyped, AnchorTyped, ConvData

(* Every event is of a run of its chat that has a row, or had one. *)
LogRuns ==
  \A c \in Chats : \A e \in ToSet(log[c]) : row[e.run] # "none" /\ req[e.run].chat = c

(* The run that the holder of convMu found or created has a row. *)
Placed == conv.step \in {"find", "push", "track"} => row[conv.run] # "none"

(* What a request, the holder and the others leave alone. *)
LEMMA DataRest ==
  ASSUME DataInv, LogTyped', ConvData', OfChat', UNCHANGED <<anchor, seen>>,
         \/ hist' = hist /\ \A r \in Runs : pc'[r] = "fold" => pc[r] = "fold"
         \/ hist' = [r \in Runs |-> << >>] /\ \A r \in Runs : pc'[r] # "fold"
  PROVE  DataInv'
<1>1. AnchorTyped' /\ seen' \subseteq Msgs
  BY DataParts DEF DataInv, AnchorTyped
<1>2. hist' \in [Runs -> Seq(Item)] /\ Folding'
  <2>1. << >> \in Seq(Item)
    OBVIOUS
  <2>2. [r \in Runs |-> << >>] \in [Runs -> Seq(Item)]
    BY <2>1
  <2> QED
    BY <2>2 DEF DataInv, DataTypeOK, Folding
<1> QED
  BY <1>1, <1>2 DEF DataInv, DataTypeOK, LogTyped, AnchorTyped, ConvData

(* A cut remembers the message and the events it deletes. *)
LEMMA CutData ==
  ASSUME NEW op, NEW c, NEW m, NEW old \in Msgs \cup {NoMsg}, NEW snap \in SUBSET Event,
         Cut(op, c, m, old, snap)
  PROVE  ConvData'
BY DEF Cut, Asked, ConvData

(* A request keeps the data invariant: what a cut remembers is read from   *)
(* the log.                                                                *)
LEMMA RequestKeepsData == ASSUME Inv, DataInv, Request PROVE DataInv'
<1> USE DEF dbVars, appVars, runVars, histVars
<1>t. /\ LogTyped /\ OfChat /\ ConvData
      /\ \A c \in Chats : log[c] \in Seq(Event)
      /\ row \in [Runs -> RowStatus] /\ req \in [Runs -> RequestType]
  BY DataParts DEF DataInv, LogTyped, Inv, ControlTypeOK
<1>l. LogTyped'
  BY <1>t, RequestOnLog
<1>1. UNCHANGED <<anchor, seen, hist, pc>>
  <2>1. ASSUME NEW c \in Chats,
               \/ \E op \in {"chat", "idle"} : Send(c, op)
               \/ CompactChat(c) \/ Edit(c) \/ Delete(c) \/ Stop(c)
               \/ \E r \in Runs : Clear(c, r)
               \/ \E op \in {"wipe", "wipePart"} : Wipe(c, op)
        PROVE  UNCHANGED <<anchor, seen, hist, pc>>
    BY <2>1 DEF Send, CompactChat, Edit, Delete, Stop, Wipe, Clear
  <2>2. ASSUME NEW r \in Runs, TimeOut(r) PROVE UNCHANGED <<anchor, seen, hist, pc>>
    BY <2>2 DEF TimeOut
  <2> QED
    BY <2>1, <2>2 DEF Request
<1>2. ConvData'
  <2>1. ASSUME NEW c \in Chats, NEW op \in {"chat", "idle"}, Send(c, op) PROVE ConvData'
    BY <2>1 DEF Send, Asked, ConvData
  <2>2. ASSUME NEW c \in Chats, CompactChat(c) PROVE ConvData'
    BY <2>2 DEF CompactChat, Asked, ConvData
  <2>3. ASSUME NEW c \in Chats, Edit(c) PROVE ConvData'
    <3>1. Cut("edit", c, sent + 1, LastUserMsg(log[c]), {})
      BY <2>3 DEF Edit
    <3> QED
      BY <1>t, <3>1, LastUserMsgIs, CutData
  <2>4. ASSUME NEW c \in Chats, Delete(c) PROVE ConvData'
    <3>1. Cut("delete", c, NoMsg, LastUserMsg(log[c]), {})
      BY <2>4 DEF Delete
    <3> QED
      BY <1>t, <3>1, LastUserMsgIs, CutData
  <2>5. ASSUME NEW c \in Chats, NEW op \in {"wipe", "wipePart"}, Wipe(c, op) PROVE ConvData'
    <3> DEFINE evs == Ordered(log[c])
    <3>1. evs \in Seq(Event)
      BY <1>t, OrderedIs
    <3>2. PICK from \in WipeStarts(evs, op) :
            Cut(op, c, NoMsg, NoMsg, ToSet(SubSeq(evs, from, Len(evs))))
      BY <2>5 DEF Wipe
    <3>3. from \in Nat \ {0}
      <4>1. \A kind : Max({0} \cup At(evs, kind)) \in Nat
        <5> SUFFICES ASSUME NEW kind PROVE Max({0} \cup At(evs, kind)) \in Nat
          OBVIOUS
        <5>1. {0} \cup At(evs, kind) \in SUBSET (0..Len(evs)) /\ {0} \cup At(evs, kind) # {} /\ Len(evs) \in Nat
          <6> HIDE DEF evs
          <6> QED BY <3>1 DEF At
        <5>2. Max({0} \cup At(evs, kind)) \in {0} \cup At(evs, kind)
          BY <5>1, MaxIs
        <5> HIDE DEF evs
        <5> QED
          BY <5>1, <5>2
      <4>2. from \in {1} \/ from \in {Max({0} \cup At(evs, "context_cleared")) + 1, Max({0} \cup At(evs, "user"))} \ {0}
        BY <3>2 DEF WipeStarts
      <4> DEFINE a == Max({0} \cup At(evs, "context_cleared"))
                 b == Max({0} \cup At(evs, "user"))
      <4>3. a \in Nat /\ b \in Nat
        BY <4>1
      <4>4. from = 1 \/ from = a + 1 \/ (from = b /\ from # 0)
        BY <4>2
      <4> HIDE DEF evs, a, b
      <4> QED
        BY <4>3, <4>4
    <3> HIDE DEF evs
    <3>4. ToSet(SubSeq(evs, from, Len(evs))) \subseteq Event
      <4>1. \A i \in DOMAIN SubSeq(evs, from, Len(evs)) : SubSeq(evs, from, Len(evs))[i] \in Event
        BY <3>1, <3>3
      <4> QED
        BY <4>1 DEF ToSet
    <3> QED
      BY <3>2, <3>4, CutData
  <2>6. ASSUME conv' = conv PROVE ConvData'
    BY <1>t, <2>6 DEF ConvData
  <2>7. ASSUME NEW c \in Chats, (\E r \in Runs : Clear(c, r)) \/ Stop(c) PROVE conv' = conv
    BY <2>7 DEF Clear, Stop
  <2>8. ASSUME NEW r \in Runs, TimeOut(r) PROVE conv' = conv
    BY <2>8 DEF TimeOut
  <2> QED
    BY <2>1, <2>2, <2>3, <2>4, <2>5, <2>6, <2>7, <2>8 DEF Request
<1>3. OfChat'
  <2>1. ASSUME NEW c \in Chats, NEW r \in Runs, Clear(c, r) PROVE OfChat'
    BY <1>t, <2>1 DEF Clear, CommandEvent, OfChat
  <2>2. ASSUME NEW c \in Chats,
               \/ \E op \in {"chat", "idle"} : Send(c, op)
               \/ CompactChat(c) \/ Edit(c) \/ Delete(c) \/ Stop(c)
               \/ \E op \in {"wipe", "wipePart"} : Wipe(c, op)
        PROVE  req' = req /\ row' = row
    BY <2>2 DEF Send, CompactChat, Edit, Delete, Stop, Wipe
  <2>3. ASSUME NEW r \in Runs, TimeOut(r) PROVE req' = req /\ row' = row
    BY <2>3 DEF TimeOut
  <2>4. req' = req /\ row' = row => OfChat'
    BY <1>t DEF OfChat
  <2> QED
    BY <2>1, <2>2, <2>3, <2>4 DEF Request
<1> QED
  BY <1>l, <1>1, <1>2, <1>3, DataRest

(* So does the holder of convMu: what it writes or keeps are events. *)
LEMMA HolderKeepsData ==
  ASSUME Inv, Outcome, DataInv, LogRuns, Placed, Holder
  PROVE  DataInv'
<1> USE DEF dbVars, appVars, runVars, histVars
<1>t. /\ LogTyped /\ OfChat /\ ConvData
      /\ row \in [Runs -> RowStatus] /\ req \in [Runs -> RequestType] /\ pc \in [Runs -> PCs]
      /\ conv = [step |-> conv.step, by |-> conv.by, op |-> conv.op, chat |-> conv.chat,
                 msg |-> conv.msg, old |-> conv.old, run |-> conv.run,
                 wait |-> conv.wait, snap |-> conv.snap]
      /\ conv.step # "free" => conv.chat \in Chats
      /\ conv.step = "push" => conv.run \in Runs
      /\ HasRow
  BY DataParts DEF DataInv, Inv, Lock, ControlTypeOK, HolderType
<1>l. LogTyped'
  <2>1. conv.step = "push" => req[conv.run].chat \in Chats
    BY <1>t DEF Placed, OfChat
  <2> QED
    BY <1>t, <2>1, HolderOnLog
<1>m. \A kept : \A c \in Chats : \A r \in Runs : r \in Emptied(c, kept) => row[r] # "none"
  BY DEF Emptied, LogRuns
<1>1. UNCHANGED <<anchor, seen, hist>> /\ \A r \in Runs : pc'[r] = "fold" => pc[r] = "fold"
  <2>1. CASE Look \/ InjectFind \/ InjectPush \/ InjectRefused \/ Recheck
    BY <1>t, <2>1 DEF Look, InjectFind, InjectPush, InjectRefused, Recheck, Release
  <2>2. CASE (\E r \in Runs : StartCreate(r)) \/ StartRefused \/ StartTrack
    BY <1>t, <2>2 DEF StartCreate, StartRefused, StartTrack, Release
  <2>3. CASE CutCancel \/ CutRows \/ CutWaited \/ CutDeadline \/ Truncate \/ (\E r \in Runs : WipeDelete(r))
    BY <1>t, <2>3 DEF CutCancel, CutRows, CutWaited, CutDeadline, Truncate, WipeDelete
  <2> QED
    BY <2>1, <2>2, <2>3 DEF Holder
<1>2. ConvData'
  <2>1. \/ conv' = Free
        \/ conv'.old = conv.old /\ conv'.snap = conv.snap
        \/ conv' = Asked(NoRun, "chat", conv.chat, conv.msg)
    <3>1. CASE Look \/ InjectFind \/ InjectPush \/ InjectRefused \/ Recheck
      BY <1>t, <3>1 DEF Look, InjectFind, InjectPush, InjectRefused, Recheck, Release
    <3>2. CASE (\E r \in Runs : StartCreate(r)) \/ StartRefused \/ StartTrack
      BY <1>t, <3>2 DEF StartCreate, StartRefused, StartTrack, Release
    <3>3. CASE CutCancel \/ CutRows \/ CutWaited \/ CutDeadline \/ Truncate \/ (\E r \in Runs : WipeDelete(r))
      BY <1>t, <3>3 DEF CutCancel, CutRows, CutWaited, CutDeadline, Truncate, WipeDelete
    <3> QED
      BY <3>1, <3>2, <3>3 DEF Holder
  <2> QED
    BY <1>t, <2>1 DEF ConvData, Free, Asked
<1>3. OfChat'
  <2>1. ASSUME NEW r \in Runs, StartCreate(r) PROVE OfChat'
    BY <1>t, <2>1 DEF StartCreate, OfChat
  <2>2. CASE CutRows
    BY <1>t, <2>2 DEF CutRows, RowsStopped, OfChat
  <2>3. CASE Truncate
    <3>1. PICK kept : row' = [r \in Runs |-> IF r \in Emptied(conv.chat, kept) THEN "gone" ELSE row[r]]
      BY <2>3 DEF Truncate
    <3>2. req' = req /\ conv.chat \in Chats
      BY <1>t, <2>3 DEF Truncate
    <3> QED
      BY <1>t, <1>m, <3>1, <3>2 DEF OfChat
  <2>4. ASSUME NEW r \in Runs, WipeDelete(r) PROVE OfChat'
    <3>1. PICK kept : row' = [q \in Runs |-> IF q = r THEN "done"
                               ELSE IF q \in Emptied(conv.chat, kept) THEN "gone" ELSE row[q]]
      BY <2>4 DEF WipeDelete
    <3>2. /\ conv.chat \in Chats
          /\ req' = [req EXCEPT ![r] = [chat |-> conv.chat, kind |-> "command", msg |-> NoMsg]]
      BY <1>t, <2>4 DEF WipeDelete, CommandEvent
    <3> QED
      BY <1>t, <1>m, <3>1, <3>2 DEF OfChat
  <2>5. CASE Look \/ InjectFind \/ InjectPush \/ InjectRefused \/ Recheck \/ StartRefused
             \/ StartTrack \/ CutCancel \/ CutWaited \/ CutDeadline
    <3>1. req' = req /\ row' = row
      BY <2>5 DEF Look, InjectFind, InjectPush, InjectRefused, Recheck, StartRefused, StartTrack,
         CutCancel, CutWaited, CutDeadline
    <3> QED
      BY <1>t, <3>1 DEF OfChat
  <2> QED
    BY <2>1, <2>2, <2>3, <2>4, <2>5 DEF Holder
<1> QED
  BY <1>l, <1>1, <1>2, <1>3, DataRest

-----------------------------------------------------------------------------
(* Rows stay, and who writes an event.                                     *)

(* A run with a row keeps one, or a gone one, and its request. *)
Stay == \A q \in Runs : row[q] # "none" => row'[q] # "none" /\ req'[q] = req[q]

(* Rows are only ever added, and the request of a run never changes. *)
LEMMA RowsStay ==
  ASSUME Inv, Outcome, LogRuns, [Next]_vars
  PROVE  Stay
<1> USE DEF dbVars, appVars, runVars, histVars
<1>t. /\ row \in [Runs -> RowStatus] /\ req \in [Runs -> RequestType]
      /\ verdict \in [Runs -> Verdicts]
  BY DEF Inv, ControlTypeOK
<1>0. row' = row /\ req' = req => Stay
  BY DEF Stay
<1>1. CASE Request
  <2>1. ASSUME NEW c \in Chats, NEW r \in Runs, Clear(c, r) PROVE Stay
    BY <1>t, <2>1 DEF Stay, Clear, CommandEvent, NewRun
  <2>2. ASSUME NEW c \in Chats,
               \/ \E op \in {"chat", "idle"} : Send(c, op)
               \/ CompactChat(c) \/ Edit(c) \/ Delete(c) \/ Stop(c)
               \/ \E op \in {"wipe", "wipePart"} : Wipe(c, op)
        PROVE  req' = req /\ row' = row
    BY <2>2 DEF Send, CompactChat, Edit, Delete, Stop, Wipe
  <2>3. ASSUME NEW r \in Runs, TimeOut(r) PROVE req' = req /\ row' = row
    BY <2>3 DEF TimeOut
  <2>4. \/ \E c \in Chats, r \in Runs : Clear(c, r)
        \/ req' = req /\ row' = row
    BY <1>1, <2>2, <2>3 DEF Request
  <2> QED
    BY <1>0, <2>1, <2>4
<1>2. CASE Holder
  <2>1. ASSUME NEW r \in Runs, StartCreate(r) PROVE Stay
    BY <1>t, <2>1 DEF Stay, StartCreate, NewRun
  <2>2. CASE CutRows
    BY <1>t, <2>2 DEF Stay, CutRows, RowsStopped
  <2>3. CASE Truncate
    BY <1>t, <2>3 DEF Stay, Truncate
  <2>4. ASSUME NEW r \in Runs, WipeDelete(r) PROVE Stay
    BY <1>t, <2>4 DEF Stay, WipeDelete, CommandEvent, NewRun
  <2>5. ASSUME \/ Look \/ InjectFind \/ InjectPush \/ InjectRefused \/ Recheck \/ StartRefused
               \/ StartTrack \/ CutCancel \/ CutWaited \/ CutDeadline
        PROVE  row' = row /\ req' = req
    BY <2>5 DEF Look, InjectFind, InjectPush, InjectRefused, Recheck, StartRefused, StartTrack,
         CutCancel, CutWaited, CutDeadline
  <2>6. \/ \E r \in Runs : StartCreate(r) \/ WipeDelete(r)
        \/ CutRows \/ Truncate
        \/ row' = row /\ req' = req
    BY <1>2, <2>5 DEF Holder
  <2> QED
    BY <2>1, <2>2, <2>3, <2>4, <2>6, <1>0
<1>3. ASSUME NEW r \in Runs, Work(r) PROVE Stay
  <2>1. req' = req
    BY <1>3, WorkLeaves
  <2>2. /\ \A q \in Runs : q # r => row'[q] = row[q]
        /\ row' = row \/ SetStatus(r)
    BY <1>3, WorkOwnRow
  <2>3. CASE SetStatus(r)
    <3>1. verdict[r] # "none" /\ row'[r] \in {verdict[r], "gone"}
      BY <1>t, <2>3 DEF SetStatus, Inv, Stages
    <3> QED
      BY <2>1, <2>2, <3>1 DEF Stay
  <2> QED
    BY <2>1, <2>2, <2>3 DEF Stay
<1>4. ASSUME NEW r \in Runs, ToolLocks(r) PROVE Stay
  BY <1>4 DEF Stay, ToolLocks, ToolSendsNothing, ToolSend
<1>5. ASSUME NEW c \in Chats, StopRows(c) PROVE Stay
  BY <1>t, <1>5 DEF Stay, StopRows, RowsStopped
<1>6. CASE Restart
  BY <1>t, <1>6 DEF Stay, Restart
<1>7. CASE UNCHANGED vars
  BY <1>7 DEF Stay, vars
<1> QED
  BY <1>1, <1>2, <1>3, <1>4, <1>5, <1>6, <1>7 DEF Next

(* The steps that write an event of a run. *)
By(e) ==
  \/ Work(e.run) /\ e.kind \in Speaks(pc[e.run])
  \/ Open(e.run) /\ e.kind = "user" /\ e.msg = req[e.run].msg
  \/ InjectPush /\ e.run = conv.run /\ e.kind = "user" /\ e.msg = conv.msg
  \/ row[e.run] = "none" /\ row'[e.run] # "none" /\ e.kind \in {"wiped", "context_cleared"}
  \/ Restart /\ row[e.run] = "running" /\ e.kind = "done"

Author(e, c) == By(e) /\ row[e.run] # "gone" /\ req'[e.run].chat = c

Authored ==
  \A c \in Chats : \A e \in ToSet(log'[c]) : e \in ToSet(log[c]) \/ Author(e, c)

(* An event is written once. *)
LEMMA WritesAuthored ==
  ASSUME LogTyped, NEW r \in Runs, NEW kind, NEW m, Writes(r, kind, m), req' = req,
         \A e \in Event : e.run = r /\ e.kind = kind /\ e.msg = m => By(e)
  PROVE  Authored
<1>1. CASE log' = log
  BY <1>1 DEF Authored
<1>2. CASE log' # log
  <2>1. PICK e \in Event : /\ e.run = r /\ e.kind = kind /\ e.msg = m /\ row[r] # "gone"
                           /\ log' = [log EXCEPT ![req[r].chat] = Append(@, e)]
    BY <1>2 DEF Writes
  <2>2. Author(e, req[r].chat)
    BY <2>1 DEF Author
  <2> SUFFICES ASSUME NEW c \in Chats, NEW f \in ToSet(log'[c]), f \notin ToSet(log[c])
               PROVE  Author(f, c)
    BY DEF Authored
  <2>3. log[c] \in Seq(Event)
    BY DEF LogTyped
  <2>4. c = req[r].chat /\ log'[c] = Append(log[c], e)
    BY <2>1 DEF LogTyped
  <2>5. ToSet(Append(log[c], e)) = ToSet(log[c]) \cup {e}
    BY <2>3, AppendedIs
  <2> QED
    BY <2>2, <2>4, <2>5
<1> QED
  BY <1>1, <1>2

(* Moving events writes none. *)
LEMMA MovesAuthored ==
  ASSUME LogTyped, NEW c, NEW ms, Moves(c, ms)
  PROVE  Authored
<1>1. PICK t : log' = [log EXCEPT ![c] = t] /\ ToSet(t) = ToSet(log[c])
  BY DEF Moves
<1> QED
  BY <1>1 DEF Authored, LogTyped

(* A command's marker is written by the command. *)
LEMMA MarksAuthored ==
  ASSUME LogTyped, NEW c \in Chats, NEW r \in Runs, NEW kind \in {"wiped", "context_cleared"},
         Marks(c, r, kind), row[r] = "none", row'[r] # "none", req'[r].chat = c
  PROVE  Authored
<1>1. PICK kept \in Seq(Event), e \in Event :
        /\ ToSet(kept) \subseteq ToSet(log[c]) /\ log' = [log EXCEPT ![c] = Append(kept, e)]
        /\ e.run = r /\ e.kind = kind
  BY DEF Marks
<1>2. ToSet(Append(kept, e)) = ToSet(kept) \cup {e}
  BY AppendedIs
<1>3. Author(e, c)
  BY <1>1 DEF Author, By
<1> SUFFICES ASSUME NEW d \in Chats, NEW f \in ToSet(log'[d]), f \notin ToSet(log[d])
             PROVE  Author(f, d)
  BY DEF Authored
<1>4. d = c /\ log'[c] = Append(kept, e)
  BY <1>1 DEF LogTyped
<1> QED
  BY <1>1, <1>2, <1>3, <1>4

(* What a goroutine writes is its own. *)
LEMMA WorkAuthored ==
  ASSUME Inv, Outcome, DataInv, NEW r \in Runs, Work(r)
  PROVE  Authored
<1>t. LogTyped /\ AnchorTyped /\ OfChat /\ req \in [Runs -> RequestType]
  BY DataParts DEF DataInv, Inv, ControlTypeOK
<1>1. WorkLog(r) /\ req[r].chat \in Chats
  BY <1>t, WorkOnLog
<1>2. req' = req
  BY WorkLeaves
<1>3. CASE log' = log
  BY <1>3 DEF Authored
<1>4. ASSUME NEW kind \in Speaks(pc[r]), Writes(r, kind, NoMsg) PROVE Authored
  <2>1. \A e \in Event : e.run = r /\ e.kind = kind /\ e.msg = NoMsg => By(e)
    BY <1>4 DEF By
  <2> QED
    BY <1>t, <1>2, <1>4, <2>1, WritesAuthored
<1>5. CASE Open(r)
  <2>1. req[r].msg \in Msgs \cup {NoMsg}
    BY <1>t DEF RequestType
  <2> DEFINE c == req[r].chat
             m == req[r].msg
  <2>2. PICK w \in Seq(Event), t \in Seq(Event) :
          /\ w = Written(r, "user", m, NoEvent)[c] /\ t = MoveAllBehind(w, inbox[r])
          /\ log' = [log EXCEPT ![c] = t]
    BY <1>t, <1>1, <1>5, <2>1, OpenTyped
  <2>3. ToSet(t) = ToSet(w)
    BY <2>2, MovedIs
  <2> DEFINE e == NewEvent(log[c], r, "user", m, NoEvent)
  <2>4. log[c] \in Seq(Event) /\ "user" \in Kinds /\ NoEvent \in EventIds
    BY <1>t, <1>1 DEF LogTyped, Kinds, NoEvent, EventIds
  <2>5. e \in Event /\ e.run = r /\ e.kind = "user" /\ e.msg = m
    BY <2>1, <2>4, NewEventIs
  <2>6. w = IF row[r] = "gone" THEN log[c] ELSE Append(log[c], e)
    BY <1>t, <1>1, <2>2 DEF Written, LogTyped
  <2>7. ToSet(Append(log[c], e)) = ToSet(log[c]) \cup {e}
    BY <2>4, <2>5, AppendedIs
  <2>8. row[r] # "gone" => Author(e, c)
    BY <1>2, <1>5, <2>5 DEF Author, By
  <2> HIDE DEF e
  <2> SUFFICES ASSUME NEW d \in Chats, NEW f \in ToSet(log'[d]), f \notin ToSet(log[d])
               PROVE  Author(f, d)
    BY DEF Authored
  <2>9. d = c /\ log'[d] = t
    BY <2>2, <1>t DEF LogTyped
  <2> QED
    BY <2>3, <2>6, <2>7, <2>8, <2>9
<1>6. CASE DrainMove(r) /\ Moves(req[r].chat, {Head(taken[r])})
  BY <1>t, <1>6, MovesAuthored
<1>7. CASE Fold(r) /\ Moves(req[r].chat, ToSet(inbox[r]))
  BY <1>t, <1>7, MovesAuthored
<1> QED
  BY <1>1, <1>3, <1>4, <1>5, <1>6, <1>7 DEF WorkLog

(* Every event of the log was there or has an author in this step. *)
LEMMA NextAuthored ==
  ASSUME Inv, Outcome, DataInv, LogRuns, Placed, [Next]_vars
  PROVE  Authored
<1> USE DEF dbVars, appVars, runVars, histVars
<1>t. /\ LogTyped /\ OfChat /\ row \in [Runs -> RowStatus] /\ req \in [Runs -> RequestType]
      /\ conv.step \in {"find", "push", "track"} => conv.run \in Runs
      /\ conv.step # "free" => conv.chat \in Chats
  BY DataParts DEF DataInv, Inv, ControlTypeOK, Lock
<1>0. log' = log => Authored
  BY DEF Authored
<1>1. CASE Request
  <2>1. log' = log \/ \E c \in Chats, r \in Runs : Clear(c, r) /\ Marks(c, r, "context_cleared")
    BY <1>t, <1>1, RequestOnLog
  <2>2. ASSUME NEW c \in Chats, NEW r \in Runs, Clear(c, r), Marks(c, r, "context_cleared")
        PROVE  Authored
    <3>1. row[r] = "none" /\ row'[r] # "none" /\ req'[r].chat = c
      BY <1>t, <2>2 DEF Clear, CommandEvent, NewRun
    <3> QED
      BY <1>t, <2>2, <3>1, MarksAuthored
  <2> QED
    BY <1>0, <2>1, <2>2
<1>2. CASE Holder
  <2>1. HolderLog
    <3>1. conv.step = "push" => req[conv.run].chat \in Chats
      BY <1>t DEF Placed, OfChat
    <3> QED
      BY <1>t, <1>2, <3>1, HolderOnLog DEF Inv
  <2>2. CASE InjectPush /\ Writes(conv.run, "user", conv.msg)
    <3>1. conv.run \in Runs /\ req' = req
      BY <1>t, <2>2 DEF InjectPush
    <3>2. \A e \in Event : e.run = conv.run /\ e.kind = "user" /\ e.msg = conv.msg => By(e)
      BY <2>2 DEF By
    <3> QED
      BY <1>t, <2>2, <3>1, <3>2, WritesAuthored
  <2>3. CASE Truncate /\ Cuts(conv.chat)
    <3>1. PICK kept : ToSet(kept) \subseteq ToSet(log[conv.chat])
                      /\ log' = [log EXCEPT ![conv.chat] = kept]
      BY <2>3 DEF Cuts
    <3> QED
      BY <1>t, <3>1 DEF Authored, LogTyped
  <2>4. ASSUME NEW r \in Runs, WipeDelete(r), Marks(conv.chat, r, "wiped") PROVE Authored
    <3>1. row[r] = "none" /\ row'[r] # "none" /\ req'[r].chat = conv.chat /\ conv.chat \in Chats
      BY <1>t, <2>4 DEF WipeDelete, CommandEvent, NewRun
    <3> QED
      BY <1>t, <2>4, <3>1, MarksAuthored
  <2> QED
    BY <1>0, <2>1, <2>2, <2>3, <2>4 DEF HolderLog
<1>3. ASSUME NEW r \in Runs, Work(r) PROVE Authored
  BY <1>3, WorkAuthored
<1>4. CASE (\E r \in Runs : ToolLocks(r)) \/ (\E c \in Chats : StopRows(c)) \/ UNCHANGED vars
  BY <1>0, <1>4, <1>t, OthersOnLog
<1>5. CASE Restart
  <2>1. \A c \in Chats : Orphaned(c)
    BY <1>t, <1>5, RestartOnLog
  <2>2. req' = req
    BY <1>5 DEF Restart
  <2> SUFFICES ASSUME NEW c \in Chats, NEW f \in ToSet(log'[c]), f \notin ToSet(log[c])
               PROVE  Author(f, c)
    BY DEF Authored
  <2>3. PICK s \in Seq(Event) :
          /\ log'[c] = log[c] \o s
          /\ \A i \in DOMAIN s : /\ s[i].kind = "done" /\ s[i].msg = NoMsg
                                 /\ row[s[i].run] = "running" /\ req[s[i].run].chat = c
    BY <2>1 DEF Orphaned
  <2>4. log[c] \in Seq(Event)
    BY <1>t DEF LogTyped
  <2>5. f \in ToSet(s)
    BY <2>3, <2>4, ElementsOf
  <2>6. f.kind = "done" /\ row[f.run] = "running" /\ req[f.run].chat = c
    BY <2>3, <2>5 DEF ToSet
  <2> QED
    BY <1>5, <2>2, <2>6 DEF Author, By
<1> QED
  BY <1>1, <1>2, <1>3, <1>4, <1>5 DEF Next

(* Every event stays of a run of its chat. *)
LEMMA LogRunsKept ==
  ASSUME Inv, Outcome, DataInv, LogTyped', LogRuns, Placed, [Next]_vars
  PROVE  LogRuns'
<1>1. Authored
  BY NextAuthored
<1>2. \A q \in Runs : row[q] # "none" => row'[q] # "none" /\ req'[q] = req[q]
  BY RowsStay DEF Stay
<1> SUFFICES ASSUME NEW c \in Chats, NEW e \in ToSet(log'[c])
             PROVE  row'[e.run] # "none" /\ req'[e.run].chat = c
  BY DEF LogRuns
<1>3. e.run \in Runs
  <2>1. log'[c] \in Seq(Event)
    BY DEF LogTyped
  <2>2. e \in Event
    BY <2>1, ElementsOf
  <2> QED
    BY <2>2, EventHas
<1>4. CASE e \in ToSet(log[c])
  BY <1>2, <1>3, <1>4 DEF LogRuns
<1>5. CASE Author(e, c)
  <2>1. CASE Work(e.run) \/ Open(e.run)
    <3>1. Work(e.run)
      BY <2>1 DEF Work
    <3>2. pc[e.run] # "none"
      BY <1>3, <3>1, WorkOnLog, DataParts DEF DataInv
    <3> QED
      BY <1>2, <1>3, <1>5, <3>2 DEF Author, Outcome, Rowless
  <2>2. CASE InjectPush /\ e.run = conv.run
    <3>1. row[e.run] # "none"
      BY <2>2 DEF InjectPush, Placed
    <3> QED
      BY <1>2, <1>3, <1>5, <3>1 DEF Author
  <2>3. CASE row[e.run] = "none" /\ row'[e.run] # "none"
    BY <1>5, <2>3 DEF Author
  <2>4. CASE row[e.run] = "running"
    BY <1>2, <1>3, <1>5, <2>4 DEF Author
  <2> QED
    BY <1>5, <2>1, <2>2, <2>3, <2>4 DEF Author, By
<1> QED
  BY <1>1, <1>4, <1>5 DEF Authored

(* The run the holder works on has a row. *)
LEMMA PlacedKept ==
  ASSUME Inv, Outcome, LogRuns, Placed, [Next]_vars
  PROVE  Placed'
<1> USE DEF dbVars, appVars, runVars, histVars
<1>t. /\ conv = [step |-> conv.step, by |-> conv.by, op |-> conv.op, chat |-> conv.chat,
                 msg |-> conv.msg, old |-> conv.old, run |-> conv.run,
                 wait |-> conv.wait, snap |-> conv.snap]
      /\ \A r \in live : row[r] # "none"
      /\ live \subseteq Runs /\ row \in [Runs -> RowStatus]
      /\ conv.step \in {"find", "push", "track"} => conv.run \in Runs
  BY DEF Inv, ControlTypeOK, HolderType, HasRow, Lock
<1>s. Stay
  BY RowsStay
<1>k. conv' = conv => Placed'
  BY <1>t, <1>s DEF Placed, Stay
<1>1. ASSUME NEW c \in Chats,
             \/ \E op \in {"chat", "idle"} : Send(c, op)
             \/ CompactChat(c) \/ Edit(c) \/ Delete(c)
             \/ \E op \in {"wipe", "wipePart"} : Wipe(c, op)
      PROVE  Placed'
  <2>1. conv'.step \notin {"find", "push", "track"}
    <3>1. \A op, m, old, snap : Cut(op, c, m, old, snap) => conv'.step \in {"truncate", "cancel"}
      BY DEF Cut, Asked
    <3>2. CASE (\E op \in {"chat", "idle"} : Send(c, op)) \/ CompactChat(c)
      BY <3>2 DEF Send, CompactChat, Asked
    <3>3. CASE Edit(c) \/ Delete(c)
      BY <3>1, <3>3 DEF Edit, Delete
    <3>4. ASSUME NEW op, Wipe(c, op) PROVE conv'.step \notin {"find", "push", "track"}
      <4>1. \E snap : Cut(op, c, NoMsg, NoMsg, snap)
        BY <3>4 DEF Wipe
      <4> QED
        BY <3>1, <4>1
    <3> QED
      BY <1>1, <3>2, <3>3, <3>4
  <2> QED
    BY <2>1 DEF Placed
<1>2. ASSUME NEW c \in Chats, Stop(c) \/ (\E r \in Runs : Clear(c, r)) PROVE conv' = conv
  BY <1>2 DEF Stop, Clear
<1>3. ASSUME NEW r \in Runs, TimeOut(r) PROVE conv' = conv
  BY <1>3 DEF TimeOut
<1>4. ASSUME Request PROVE Placed'
  BY <1>k, <1>1, <1>2, <1>3, <1>4 DEF Request
<1>5. ASSUME Holder PROVE Placed'
  <2>1. CASE Look
    <3>1. conv' = Free \/ conv'.step = "create" \/ (conv'.step = "find" /\ conv'.run \in live)
      BY <1>t, <2>1 DEF Look, Release, Live
    <3> QED
      BY <1>t, <1>s, <3>1 DEF Placed, Stay, Free
  <2>2. CASE InjectFind
    BY <1>t, <1>s, <2>2 DEF InjectFind, Placed, Stay
  <2>3. ASSUME NEW r \in Runs, StartCreate(r) PROVE Placed'
    BY <1>t, <2>3 DEF StartCreate, Placed
  <2>4. ASSUME \/ InjectPush \/ InjectRefused \/ Recheck \/ StartRefused \/ StartTrack
        PROVE  conv'.step \notin {"find", "push", "track"}
    BY <1>t, <2>4 DEF InjectPush, InjectRefused, Recheck, StartRefused, StartTrack, Release, Free
  <2>5. ASSUME CutCancel \/ CutRows \/ CutWaited \/ CutDeadline \/ Truncate \/ (\E r \in Runs : WipeDelete(r))
        PROVE  conv'.step \notin {"find", "push", "track"}
    BY <1>t, <2>5 DEF CutCancel, CutRows, CutWaited, CutDeadline, Truncate, WipeDelete, Free, Asked
  <2>6. conv'.step \notin {"find", "push", "track"} => Placed'
    BY DEF Placed
  <2> QED
    BY <1>5, <2>1, <2>2, <2>3, <2>4, <2>5, <2>6 DEF Holder
<1>6. ASSUME NEW r \in Runs, Work(r) PROVE conv' = conv
  BY <1>6, WorkLeaves
<1>7. ASSUME NEW r \in Runs, ToolLocks(r) PROVE Placed'
  <2>1. ASSUME ToolSendsNothing(r) PROVE conv' = conv
    BY <2>1 DEF ToolSendsNothing
  <2>2. ASSUME NEW c \in Chats, ToolSend(r, c) PROVE Placed'
    BY <2>2 DEF ToolSend, Asked, Placed
  <2> QED
    BY <1>k, <1>7, <2>1, <2>2 DEF ToolLocks
<1>8. ASSUME (\E c \in Chats : StopRows(c)) \/ UNCHANGED vars PROVE conv' = conv
  BY <1>8 DEF StopRows, vars
<1>9. ASSUME Restart PROVE Placed'
  BY <1>9 DEF Restart, Free, Placed
<1> QED
  BY <1>k, <1>4, <1>5, <1>6, <1>7, <1>8, <1>9 DEF Next

(* What the types rest on, besides the control state. *)
LogInv == DataInv /\ LogRuns /\ Placed

(* The initial log is empty. *)
LEMMA LogInvInit == Init => LogInv
<1> SUFFICES ASSUME Init PROVE LogInv
  OBVIOUS
<1>0. << >> \in Seq(Event) /\ << >> \in Seq(Item) /\ NoEvent \in EventIds /\ ToSet(<< >>) = {}
  BY DEF NoEvent, EventIds, ToSet
<1>1. /\ log = [c \in Chats |-> << >>] /\ hist = [r \in Runs |-> << >>]
      /\ anchor = [r \in Runs |-> NoEvent] /\ seen = {} /\ conv = Free
      /\ row = [r \in Runs |-> "none"] /\ pc = [r \in Runs |-> "none"]
  BY DEF Init
<1>2. DataTypeOK
  BY <1>0, <1>1 DEF DataTypeOK, Free
<1>3. OfChat /\ Folding
  BY <1>1 DEF OfChat, Folding
<1>4. LogRuns
  BY <1>0, <1>1 DEF LogRuns
<1>5. Placed
  BY <1>1 DEF Placed, Free
<1> QED
  BY <1>2, <1>3, <1>4, <1>5 DEF LogInv, DataInv

(* A tool that takes the lock, StopRun's rows and a restart keep the types. *)
LEMMA OthersKeepData ==
  ASSUME Inv, Outcome, DataInv,
         \/ \E r \in Runs : ToolLocks(r)
         \/ \E c \in Chats : StopRows(c)
         \/ Restart
         \/ UNCHANGED vars
  PROVE  DataInv'
<1> USE DEF dbVars, appVars, runVars, histVars
<1>t. LogTyped /\ OfChat /\ ConvData /\ pc \in [Runs -> PCs] /\ row \in [Runs -> RowStatus]
  BY DataParts DEF DataInv, Inv, ControlTypeOK
<1>1. ASSUME NEW r \in Runs, ToolLocks(r) PROVE DataInv'
  <2>1. UNCHANGED <<anchor, seen, hist, row, req>>
    BY <1>1 DEF ToolLocks, ToolSendsNothing, ToolSend
  <2>2. LogTyped'
    BY <1>t, <1>1, OthersOnLog
  <2>3. ConvData' /\ OfChat'
    BY <1>t, <1>1, <2>1 DEF ToolLocks, ToolSendsNothing, ToolSend, Asked, ConvData, OfChat
  <2>4. \A q \in Runs : pc'[q] = "fold" => pc[q] = "fold"
    BY <1>t, <1>1 DEF ToolLocks, ToolSendsNothing, ToolSend
  <2> QED
    BY <2>1, <2>2, <2>3, <2>4, DataRest
<1>2. ASSUME NEW c \in Chats, StopRows(c) PROVE DataInv'
  <2>1. UNCHANGED <<anchor, seen, hist, req, conv, pc>>
    BY <1>2 DEF StopRows
  <2>2. LogTyped'
    BY <1>t, <1>2, OthersOnLog
  <2>3. ConvData' /\ OfChat'
    BY <1>t, <1>2, <2>1 DEF StopRows, RowsStopped, ConvData, OfChat
  <2> QED
    BY <2>1, <2>2, <2>3, DataRest
<1>3. CASE Restart
  <2>1. LogTyped'
    BY <1>t, <1>3, RestartOnLog
  <2>2. seen' = seen /\ hist' = [r \in Runs |-> << >>] /\ anchor' = [r \in Runs |-> NoEvent]
        /\ conv' = Free /\ req' = req /\ \A r \in Runs : pc'[r] # "fold"
    BY <1>3 DEF Restart
  <2>3. OfChat'
    BY <1>t, <1>3 DEF Restart, OfChat, Orphan
  <2>4. [r \in Runs |-> << >>] \in [Runs -> Seq(Item)] /\ NoEvent \in EventIds
    <3>1. << >> \in Seq(Item)
      OBVIOUS
    <3> QED
      BY <3>1 DEF NoEvent, EventIds
  <2>5. ConvData' /\ Folding' /\ AnchorTyped' /\ seen' \subseteq Msgs
    BY <2>2, <2>4, DataParts DEF ConvData, Free, Folding, AnchorTyped, DataInv
  <2> QED
    BY <2>1, <2>2, <2>3, <2>4, <2>5 DEF DataInv, DataTypeOK, LogTyped, AnchorTyped, ConvData
<1>4. CASE UNCHANGED vars
  <2>1. UNCHANGED <<log, row, req, conv, hist, anchor, seen, pc>>
    BY <1>4 DEF vars
  <2> QED
    BY <2>1 DEF DataInv, DataTypeOK, OfChat, Folding
<1> QED
  BY <1>1, <1>2, <1>3, <1>4

(* Every step keeps the data's types, the log's runs and the found run's row. *)
LEMMA LogInvKept == Inv /\ Outcome /\ LogInv /\ [Next]_vars => LogInv'
<1> SUFFICES ASSUME Inv, Outcome, LogInv, [Next]_vars PROVE LogInv'
  OBVIOUS
<1>1. DataInv /\ LogRuns /\ Placed
  BY DEF LogInv
<1>2. DataInv'
  BY <1>1, RequestKeepsData, HolderKeepsData, WorkKeepsData, OthersKeepData DEF Next
<1>3. LogTyped'
  BY <1>2 DEF DataInv, DataTypeOK, LogTyped
<1> QED
  BY <1>1, <1>2, <1>3, LogRunsKept, PlacedKept DEF LogInv

(* They hold of the specification. *)
LEMMA LogInvHolds == Spec => []LogInv
BY LogInvInit, LogInvKept, InvHolds, OutcomeHolds, PTL DEF Spec

(* Every variable has its type: what is written to the log, what is read    *)
(* back from it into a model's history, what a compaction or a cut of the   *)
(* history remembers meanwhile (emit, replayEvents, compact, StopChatLive). *)
THEOREM TypeCorrect == Spec => []TypeOK
<1>1. Inv /\ LogInv => TypeOK
  BY DEF Inv, LogInv, DataInv, TypeOK
<1> QED
  BY InvHolds, LogInvHolds, <1>1, PTL

-----------------------------------------------------------------------------
(* Who is at work, and who is the newest of a conversation.                *)

AtWork(r) == pc[r] \notin {"none", "over"}

(* A goroutine that does something is there, and goes on until its exit. *)
LEMMA WorkWorks ==
  ASSUME Inv, NEW r \in Runs, Work(r)
  PROVE  /\ AtWork(r) /\ pc'[r] # "none" /\ pc[r] # "toolWait" /\ live' \subseteq live
         /\ pc'[r] = "toolWait" => Has("talk")
         /\ pc'[r] # "over" => (r \in live' \cup ending' <=> r \in live \cup ending)
         /\ pc'[r] = "over" => r \notin live' \cup ending'
         /\ pc'[r] \notin Finishing => pc[r] \notin Finishing /\ (r \in live' <=> r \in live)
<1> USE DEF dbVars, appVars, runVars, histVars, Goto, Finish, CloseInbox
<1>t. pc \in [Runs -> PCs] /\ why \in [Runs -> Reasons]
  BY DEF Inv, ControlTypeOK, DataInv, DataTypeOK
<1>1. CASE NoModel(r) \/ Open(r)
  BY <1>1, <1>t DEF NoModel, Open, AtWork, Has, Finishing
<1>2. CASE OpenCompact(r) \/ DrainTake(r)
  BY <1>2, <1>t DEF OpenCompact, DrainTake, AtWork, Has, Finishing
<1>3. CASE DrainMove(r) \/ Drained(r)
  BY <1>3, <1>t DEF DrainMove, Drained, AtWork, Has, Finishing
<1>4. CASE Check(r) \/ CompactAnchor(r)
  BY <1>4, <1>t DEF Check, CompactAnchor, AtWork, Has, Finishing
<1>5. CASE CompactDone(r) \/ CompactFailed(r)
  <2>1. pc[r] = "summary" /\ UNCHANGED <<live, ending>>
        /\ pc'[r] \in {AfterSummary[why[r]], "check", "erred"}
    BY <1>5, <1>t DEF CompactDone, CompactFailed
  <2>2. why[r] \in {"manual", "auto", "overflow"}
    BY <1>t, <2>1 DEF Inv, Stages, Reasons
  <2> QED
    BY <2>1, <2>2 DEF AfterSummary, AtWork, Finishing
<1>6. CASE Fold(r) \/ TurnOpen(r)
  BY <1>6, <1>t DEF Fold, TurnOpen, AtWork, Has, Finishing
<1>7. CASE Commit(r) \/ Reply(r)
  BY <1>7, <1>t DEF Commit, Reply, AtWork, Has, Finishing
<1>8. CASE StreamFailed(r) \/ Overflow(r)
  BY <1>8, <1>t DEF StreamFailed, Overflow, AtWork, Has, Finishing
<1>9. CASE Erred(r) \/ Close(r)
  BY <1>9, <1>t DEF Erred, Close, AtWork, Has, Finishing
<1>10. CASE ToolTurn(r) \/ ToolTalks(r)
  BY <1>10, <1>t DEF ToolTurn, ToolTalks, AtWork, Has, Finishing
<1>11. CASE ToolAsks(r) \/ ToolReturn(r)
  BY <1>11, <1>t DEF ToolAsks, ToolReturn, AtWork, Has, Finishing
<1>12. CASE TurnEnd(r) \/ SayStopped(r)
  BY <1>12, <1>t DEF TurnEnd, SayStopped, AtWork, Has, Finishing
<1>13. CASE SetStatus(r) \/ Untrack(r)
  BY <1>13, <1>t DEF SetStatus, Untrack, AtWork, Has, Finishing
<1>14. CASE EmitDone(r) \/ Exit(r)
  BY <1>14, <1>t DEF EmitDone, Exit, AtWork, Has, Finishing
<1> QED
  BY <1>1, <1>2, <1>3, <1>4, <1>5, <1>6, <1>7, <1>8, <1>9, <1>10, <1>11, <1>12, <1>13, <1>14 DEF Work

(* Who is tracked is at work, and no one else is. *)
Working == \A r \in Runs : AtWork(r) <=> r \in live \cup ending

(* The run whose tool holds convMu waits in that tool. *)
Calls == conv.by # NoRun => pc[conv.by] = "toolWait"

(* Until its last look at the inbox a run that is not stopped is live. *)
Unstopped ==
  \A r \in Runs : AtWork(r) /\ pc[r] \notin Finishing /\ r \notin cancelled => r \in live

(* Runs are numbered in the order of their rows. *)
Numbered == \A r, q \in Runs : q < r /\ row[r] # "none" => row[q] # "none"

(* A cut goes on with no live run in its conversation. *)
Cleared == conv.step \in {"rows", "wait", "truncate"} => Live(conv.chat) = {}

(* No later run of the same conversation has a row.                        *)
Youngest(r) == \A q \in Runs : q > r /\ req[q].chat = req[r].chat => row[q] = "none"

Newest ==
  /\ \A r \in live : Youngest(r)
  /\ conv.step \in {"find", "push", "track"} => Youngest(conv.run)

(* The run a message goes to is of its conversation and has been started;  *)
(* the one just created has not.                                           *)
Found ==
  /\ conv.step \in {"find", "push"} =>
       req[conv.run].chat = conv.chat /\ pc[conv.run] # "none"
  /\ conv.step = "track" => pc[conv.run] = "none"

PlaceInv ==
  Working /\ Calls /\ Unstopped /\ Numbered /\ Cleared /\ Newest /\ Found

(* What a step that leaves the lock alone finds in it. *)
PlaceParts ==
  /\ conv.step \in {"rows", "wait", "truncate"} => Live(conv.chat) = {}
  /\ conv.step \in {"find", "push", "track"} =>
       /\ conv.run \in Runs /\ Youngest(conv.run)
       /\ IF conv.step = "track" THEN pc[conv.run] = "none"
          ELSE req[conv.run].chat = conv.chat /\ pc[conv.run] # "none"

(* What the invariant of places says of the holder of convMu. *)
LEMMA PlaceConv == Inv /\ PlaceInv => PlaceParts
BY DEF Inv, Lock, PlaceInv, Cleared, Newest, Found, PlaceParts

(* A step that creates no run, tracks none and moves no goroutine.         *)
LEMMA PlaceRest ==
  ASSUME PlaceInv, Outcome, Stay, UNCHANGED pc, live' \subseteq live,
         live' \cup ending' = live \cup ending, live \subseteq Runs, cancelled \subseteq cancelled',
         \A q \in live : q \in live' \/ q \in cancelled',
         \A q \in Runs : row[q] = "none" => row'[q] = "none" /\ req'[q] = req[q],
         conv'.by = conv.by \/ conv'.by = NoRun \/ (pc[conv'.by] = "toolWait" /\ conv'.by \in Runs),
         conv'.step \in {"rows", "wait", "truncate"} => \A q \in live' : req'[q].chat # conv'.chat,
         conv'.step \in {"find", "push", "track"} =>
           /\ conv'.run \in Runs /\ Youngest(conv'.run)
           /\ IF conv'.step = "track" THEN pc[conv'.run] = "none"
              ELSE req[conv'.run].chat = conv'.chat /\ pc[conv'.run] # "none"
  PROVE  PlaceInv'
<1>1. Working' /\ Calls'
  BY DEF PlaceInv, Working, Calls, AtWork
<1>2. Unstopped'
  BY DEF PlaceInv, Unstopped, AtWork
<1>r. \A q \in Runs : req'[q] = req[q] /\ (row'[q] = "none" <=> row[q] = "none")
  BY DEF Stay
<1>3. Numbered'
  BY <1>r DEF PlaceInv, Numbered
<1>4. Cleared'
  BY DEF Cleared, Live, RunsOf
<1>5. \A q \in Runs : Youngest(q) => Youngest(q)'
  BY <1>r DEF Youngest
<1>6. Newest'
  BY <1>5 DEF PlaceInv, Newest
<1>7. Found'
  BY <1>r DEF Found
<1> QED
  BY <1>1, <1>2, <1>3, <1>4, <1>6, <1>7 DEF PlaceInv

(* A run gets its row in a conversation without a live run.                *)
LEMMA PlaceNew ==
  ASSUME PlaceInv, Outcome, Inv, Stay, UNCHANGED <<pc, live, ending, cancelled>>, NEW r \in Runs, NewRun(r),
         NEW c, Live(c) = {}, c \in Chats, req'[r].chat = c,
         \A q \in Runs : q # r => (row'[q] = "none" <=> row[q] = "none") /\ req'[q] = req[q],
         conv'.by = conv.by \/ conv'.by = NoRun,
         conv'.step \notin {"rows", "wait", "truncate", "find", "push"},
         conv'.step = "track" => conv'.run = r,
         row'[r] # "none"
  PROVE  PlaceInv'
<1>t. live \subseteq Runs /\ (\A q \in live : row[q] # "none") /\ row[r] = "none"
      /\ \A q \in Runs : q < r => row[q] # "none"
  <2>1. live \subseteq Runs /\ (\A q \in live : row[q] # "none") /\ row[r] = "none"
    BY DEF Inv, ControlTypeOK, HasRow, NewRun
  <2>2. \A q \in Runs : q < r => q \in 1 .. r - 1
    OBVIOUS
  <2> QED
    BY <2>1, <2>2 DEF NewRun
<1>1. Working' /\ Calls'
  BY DEF PlaceInv, Working, Calls, AtWork
<1>2. Unstopped'
  BY DEF PlaceInv, Unstopped, AtWork
<1>3. Numbered'
  BY <1>t DEF PlaceInv, Numbered
<1>4. Cleared'
  BY DEF Cleared
<1>5. \A q \in live : Youngest(q)'
  <2> SUFFICES ASSUME NEW q \in live, NEW p \in Runs, p > q, req'[p].chat = req'[q].chat
               PROVE  row'[p] = "none"
    BY DEF Youngest
  <2>1. q # r /\ req'[q] = req[q]
    BY <1>t
  <2>2. p # r
    BY <1>t, <2>1 DEF Live, RunsOf
  <2> QED
    BY <1>t, <2>1, <2>2 DEF PlaceInv, Newest, Youngest
<1>6. Youngest(r)'
  <2> SUFFICES ASSUME NEW p \in Runs, p > r PROVE row'[p] = "none"
    BY DEF Youngest
  <2>1. row[p] = "none"
    BY <1>t DEF PlaceInv, Numbered
  <2> QED
    BY <2>1
<1>7. Newest'
  BY <1>5, <1>6 DEF Newest
<1>8. Found'
  BY <1>t DEF Found, Outcome, Rowless
<1> QED
  BY <1>1, <1>2, <1>3, <1>4, <1>7, <1>8 DEF PlaceInv

(* In the initial state nobody is at work and nothing is held. *)
LEMMA PlaceInit == Init => PlaceInv
<1> SUFFICES ASSUME Init PROVE PlaceInv
  OBVIOUS
<1>1. /\ pc = [r \in Runs |-> "none"] /\ live = {} /\ ending = {} /\ conv = Free
      /\ row = [r \in Runs |-> "none"]
  BY DEF Init
<1> QED
  BY <1>1 DEF PlaceInv, Working, Calls, Unstopped, Numbered, Cleared, Newest, Found, AtWork, Free

(* A request takes the lock, or clears, stops or runs out of time.         *)
LEMMA RequestKeepsPlace == ASSUME Inv, Outcome, LogRuns, PlaceInv, Stay, Request PROVE PlaceInv'
<1> USE DEF dbVars, appVars, runVars, histVars
<1>t. /\ row \in [Runs -> RowStatus] /\ req \in [Runs -> RequestType] /\ live \subseteq Runs
  BY DEF Inv, ControlTypeOK
<1>a. ASSUME NEW c \in Chats, NEW op, NEW m, NEW old, NEW snap, Cut(op, c, m, old, snap),
             UNCHANGED <<pc, row, req, live, ending, cancelled>>
      PROVE  PlaceInv'
  <2>1. /\ conv'.by = NoRun /\ conv'.step \in {"cancel", "truncate"}
        /\ conv'.step = "truncate" => Live(conv'.chat) = {}
    BY <1>a DEF Cut, Asked, Tracked, Live
  <2>2. conv'.step = "truncate" => \A q \in live' : req'[q].chat # conv'.chat
    BY <1>a, <1>t, <2>1 DEF Live, RunsOf
  <2> QED
    BY <1>a, <1>t, <2>1, <2>2, PlaceRest
<1>1. ASSUME NEW c \in Chats, (\E op \in {"chat", "idle"} : Send(c, op)) \/ CompactChat(c)
      PROVE  PlaceInv'
  <2>1. /\ conv'.by = NoRun /\ conv'.step \in {"look", "create"}
        /\ UNCHANGED <<pc, row, req, live, ending, cancelled>>
    BY <1>1 DEF Send, CompactChat, Asked
  <2> QED
    BY <1>t, <2>1, PlaceRest
<1>2. ASSUME NEW c \in Chats, NEW r \in Runs, Clear(c, r) PROVE PlaceInv'
  <2>1. /\ UNCHANGED <<pc, conv, cancelled, live, ending>> /\ NewRun(r) /\ Live(c) = {} /\ conv = Free
        /\ row' = [row EXCEPT ![r] = "done"] /\ req'[r].chat = c
        /\ \A q \in Runs : q # r => req'[q] = req[q]
    BY <1>t, <1>2 DEF Clear, CommandEvent
  <2>2. conv'.by = conv.by /\ conv'.step = "free"
    BY <2>1 DEF Free
  <2> QED
    BY <1>t, <2>1, <2>2, PlaceNew
<1>3. ASSUME NEW c \in Chats, Edit(c) PROVE PlaceInv'
  <2>1. /\ Cut("edit", c, sent + 1, LastUserMsg(log[c]), {})
        /\ UNCHANGED <<pc, row, req, live, ending, cancelled>>
    BY <1>3 DEF Edit
  <2> QED
    BY <1>a, <2>1
<1>4. ASSUME NEW c \in Chats, Delete(c) PROVE PlaceInv'
  <2>1. /\ Cut("delete", c, NoMsg, LastUserMsg(log[c]), {})
        /\ UNCHANGED <<pc, row, req, live, ending, cancelled>>
    BY <1>4 DEF Delete
  <2> QED
    BY <1>a, <2>1
<1>5. ASSUME NEW c \in Chats, NEW op \in {"wipe", "wipePart"}, Wipe(c, op) PROVE PlaceInv'
  <2>1. \E snap : Cut(op, c, NoMsg, NoMsg, snap)
    BY <1>5 DEF Wipe
  <2>2. UNCHANGED <<pc, row, req, live, ending, cancelled>>
    BY <1>5 DEF Wipe
  <2> QED
    BY <1>a, <2>1, <2>2
<1>6. ASSUME NEW c \in Chats, Stop(c) PROVE PlaceInv'
  <2>1. /\ UNCHANGED <<pc, conv, row, req>> /\ live' \cup ending' = live \cup ending
        /\ live' = live \ Live(c) /\ cancelled' = cancelled \cup Live(c)
    BY <1>6 DEF Stop, Cancelled, Live
  <2>2. PlaceParts
    BY PlaceConv
  <2>3. conv'.step \in {"rows", "wait", "truncate"} => \A q \in live' : req'[q].chat # conv'.chat
    BY <1>t, <2>1, <2>2 DEF PlaceParts, Live, RunsOf
  <2> QED
    BY <1>t, <2>1, <2>2, <2>3, PlaceRest DEF PlaceParts
<1>7. ASSUME NEW r \in Runs, TimeOut(r) PROVE PlaceInv'
  <2>1. UNCHANGED <<pc, conv, row, req, live, ending>> /\ cancelled' = cancelled \cup {r}
    BY <1>7 DEF TimeOut
  <2>2. PlaceParts
    BY PlaceConv
  <2>3. conv'.step \in {"rows", "wait", "truncate"} => \A q \in live' : req'[q].chat # conv'.chat
    BY <1>t, <2>1, <2>2 DEF PlaceParts, Live, RunsOf
  <2> QED
    BY <1>t, <2>1, <2>2, <2>3, PlaceRest DEF PlaceParts
<1> QED
  BY <1>1, <1>2, <1>3, <1>4, <1>5, <1>6, <1>7 DEF Request

(* So does the holder. *)
LEMMA HolderKeepsPlace == ASSUME Inv, Outcome, LogRuns, PlaceInv, Stay, Holder PROVE PlaceInv'
<1> USE DEF dbVars, appVars, runVars, histVars
<1>t. /\ row \in [Runs -> RowStatus] /\ req \in [Runs -> RequestType] /\ live \subseteq Runs
      /\ pc \in [Runs -> PCs] /\ conv.by \in Runs \cup {NoRun} /\ PlaceParts
      /\ conv = [step |-> conv.step, by |-> conv.by, op |-> conv.op, chat |-> conv.chat,
                 msg |-> conv.msg, old |-> conv.old, run |-> conv.run,
                 wait |-> conv.wait, snap |-> conv.snap]
      /\ conv.step \in {"find", "push", "track"} => conv.run \in Runs
      /\ conv.step # "free" => conv.chat \in Chats
  BY PlaceConv DEF Inv, ControlTypeOK, HolderType, Lock
<1>r. ASSUME Release, UNCHANGED <<row, req, live, ending, cancelled>> PROVE PlaceInv'
  <2>1. conv' = Free /\ pc' = IF conv.by = NoRun THEN pc ELSE [pc EXCEPT ![conv.by] = "toolBack"]
    BY <1>r DEF Release
  <2>2. \A q \in Runs : pc'[q] = pc[q] \/ (pc[q] = "toolWait" /\ pc'[q] = "toolBack")
    BY <1>t, <2>1 DEF PlaceInv, Calls
  <2>3. Working' /\ Unstopped'
    BY <1>r, <2>2 DEF PlaceInv, Working, Unstopped, AtWork, Finishing
  <2>4. Numbered' /\ Calls' /\ Cleared' /\ Found'
    BY <1>r, <2>1 DEF PlaceInv, Numbered, Calls, Cleared, Found, Free
  <2>5. Newest'
    BY <1>r, <2>1 DEF PlaceInv, Newest, Youngest, Free
  <2> QED
    BY <2>3, <2>4, <2>5 DEF PlaceInv
<1>1. CASE Look
  <2>1. /\ UNCHANGED <<row, req, live, ending, cancelled>>
        /\ \/ conv' = [conv EXCEPT !.step = "create"] /\ pc' = pc
           \/ Release
           \/ \E r \in Live(conv.chat) : conv' = [conv EXCEPT !.step = "find", !.run = r] /\ pc' = pc
    BY <1>1 DEF Look
  <2>2. CASE conv' = [conv EXCEPT !.step = "create"] /\ pc' = pc
    <3>1. conv'.by = conv.by /\ conv'.step = "create"
      BY <1>t, <2>2
    <3> QED
      BY <1>t, <2>1, <2>2, <3>1, PlaceRest
  <2>3. ASSUME NEW r \in Live(conv.chat), conv' = [conv EXCEPT !.step = "find", !.run = r], pc' = pc
        PROVE  PlaceInv'
    <3>1. conv'.by = conv.by /\ conv'.step = "find" /\ conv'.run = r /\ conv'.chat = conv.chat
      BY <1>t, <2>3
    <3>2. r \in live /\ r \in Runs /\ req[r].chat = conv.chat
      BY <1>t DEF Live, RunsOf
    <3>3. Youngest(r) /\ pc[r] # "none"
      BY <3>2 DEF PlaceInv, Newest, Working, AtWork
    <3> QED
      BY <1>t, <2>1, <2>3, <3>1, <3>2, <3>3, PlaceRest
  <2> QED
    BY <1>r, <2>1, <2>2, <2>3
<1>2. CASE InjectFind \/ InjectRefused
  <2>1. /\ UNCHANGED <<pc, row, req, live, ending, cancelled>> /\ conv'.by = conv.by
        /\ conv'.run = conv.run /\ conv'.chat = conv.chat
        /\ conv'.step = "recheck" \/ (conv'.step = "push" /\ conv.step = "find")
    BY <1>t, <1>2 DEF InjectFind, InjectRefused
  <2> QED
    BY <1>t, <2>1, PlaceRest DEF PlaceParts
<1>3. CASE InjectPush
  BY <1>r, <1>3 DEF InjectPush
<1>4. CASE Recheck
  <2>1. /\ UNCHANGED <<row, req, live, ending, cancelled>>
        /\ Release \/ (conv' = [conv EXCEPT !.step = "create"] /\ pc' = pc)
    BY <1>4 DEF Recheck
  <2>2. CASE conv' = [conv EXCEPT !.step = "create"] /\ pc' = pc
    <3>1. conv'.by = conv.by /\ conv'.step = "create"
      BY <1>t, <2>2
    <3> QED
      BY <1>t, <2>1, <2>2, <3>1, PlaceRest
  <2> QED
    BY <1>r, <2>1, <2>2
<1>5. ASSUME NEW r \in Runs, StartCreate(r) PROVE PlaceInv'
  <2>1. /\ UNCHANGED <<pc, live, ending, cancelled>> /\ NewRun(r) /\ conv.step = "create"
        /\ conv'.by = conv.by /\ conv'.step = "track" /\ conv'.run = r /\ conv.chat \in Chats
        /\ row' = [row EXCEPT ![r] = "running"] /\ req'[r].chat = conv.chat
        /\ \A q \in Runs : q # r => req'[q] = req[q]
    BY <1>t, <1>5 DEF StartCreate
  <2>2. Live(conv.chat) = {}
    BY <2>1 DEF Inv, Alone
  <2> QED
    BY <1>t, <2>1, <2>2, PlaceNew
<1>6. CASE StartRefused
  BY <1>r, <1>6 DEF StartRefused
<1>7. CASE StartTrack
  <2>1. /\ UNCHANGED <<row, req, ending, cancelled>> /\ conv' = Free /\ live' = live \cup {conv.run}
        /\ conv.run \in Runs /\ conv.step = "track"
        /\ pc' = IF conv.by = NoRun THEN [pc EXCEPT ![conv.run] = "begin"]
                 ELSE [pc EXCEPT ![conv.run] = "begin", ![conv.by] = "toolBack"]
    BY <1>t, <1>7 DEF StartTrack
  <2>2. \A q \in Runs : \/ q # conv.run /\ pc'[q] = pc[q]
                        \/ pc[q] = "toolWait" /\ pc'[q] = "toolBack"
                        \/ q = conv.run /\ pc'[q] = "begin"
    <3>1. /\ conv.by # NoRun => conv.by \in Runs /\ pc[conv.by] = "toolWait"
          /\ pc[conv.run] = "none"
      BY <1>t, <2>1 DEF PlaceInv, Calls, Found
    <3>t. pc \in [Runs -> PCs] /\ conv.run \in Runs
      BY <1>t, <2>1
    <3>2. CASE conv.by = NoRun
      <4>1. pc' = [pc EXCEPT ![conv.run] = "begin"]
        BY <2>1, <3>2
      <4> QED
        BY <3>t, <4>1
    <3>3. CASE conv.by # NoRun
      <4>1. pc' = [pc EXCEPT ![conv.run] = "begin", ![conv.by] = "toolBack"]
        BY <2>1, <3>3
      <4> QED
        BY <3>t, <3>1, <3>3, <4>1
    <3> QED
      BY <3>2, <3>3
  <2>3. Working' /\ Unstopped'
    BY <2>1, <2>2 DEF PlaceInv, Working, Unstopped, AtWork, Finishing
  <2>4. Numbered' /\ Calls' /\ Cleared' /\ Found'
    BY <2>1 DEF PlaceInv, Numbered, Calls, Cleared, Found, Free
  <2>5. Newest'
    BY <2>1 DEF PlaceInv, Newest, Youngest, Free
  <2> QED
    BY <2>3, <2>4, <2>5 DEF PlaceInv
<1>8. CASE CutCancel
  <2>1. /\ UNCHANGED <<pc, row, req>> /\ conv'.by = conv.by /\ conv'.step = "rows"
        /\ conv'.chat = conv.chat /\ live' = live \ Live(conv.chat)
        /\ live' \cup ending' = live \cup ending /\ cancelled' = cancelled \cup Live(conv.chat)
    BY <1>t, <1>8 DEF CutCancel, Cancelled, Live
  <2>2. \A q \in live' : req'[q].chat # conv'.chat
    BY <1>t, <2>1 DEF Live, RunsOf
  <2> QED
    BY <1>t, <2>1, <2>2, PlaceRest
<1>9. CASE CutRows \/ CutWaited \/ CutDeadline
  <2>1. /\ UNCHANGED <<pc, req, live, ending, cancelled>> /\ conv'.by = conv.by
        /\ conv'.chat = conv.chat /\ conv.step \in {"rows", "wait"} /\ conv'.step \in {"wait", "truncate"}
        /\ \A q \in Runs : row[q] = "none" => row'[q] = "none"
    BY <1>t, <1>9 DEF CutRows, CutWaited, CutDeadline, RowsStopped
  <2>2. \A q \in live' : req'[q].chat # conv'.chat
    BY <1>t, <2>1 DEF PlaceInv, Cleared, Live, RunsOf
  <2> QED
    BY <1>t, <2>1, <2>2, PlaceRest
<1>10. CASE Truncate
  <2>1. /\ UNCHANGED <<pc, req, live, ending, cancelled>> /\ conv'.by = NoRun
        /\ conv'.step \in {"look", "free"}
    BY <1>t, <1>10 DEF Truncate, Asked, Free
  <2>2. \A q \in Runs : row[q] = "none" => row'[q] = "none"
    <3>1. \A kept : \A q \in Emptied(conv.chat, kept) : row[q] # "none"
      BY <1>t, <1>10 DEF Truncate, LogRuns, Emptied
    <3> QED
      BY <1>t, <1>10, <3>1 DEF Truncate
  <2> QED
    BY <1>t, <2>1, <2>2, PlaceRest
<1>11. ASSUME NEW r \in Runs, WipeDelete(r) PROVE PlaceInv'
  <2>1. /\ UNCHANGED <<pc, live, ending, cancelled>> /\ NewRun(r) /\ conv.step = "truncate"
        /\ conv' = Free /\ conv.chat \in Chats /\ req'[r].chat = conv.chat
        /\ \A q \in Runs : q # r => req'[q] = req[q]
    BY <1>t, <1>11 DEF WipeDelete, CommandEvent
  <2>2. row'[r] # "none" /\ \A q \in Runs : q # r => (row'[q] = "none" <=> row[q] = "none")
    <3>1. \A kept : \A q \in Emptied(conv.chat, kept) : row[q] # "none"
      BY <2>1 DEF LogRuns, Emptied
    <3> QED
      BY <1>t, <1>11, <3>1 DEF WipeDelete
  <2>3. Live(conv.chat) = {}
    BY <2>1 DEF PlaceInv, Cleared
  <2> QED
    BY <1>t, <2>1, <2>2, <2>3, PlaceNew DEF Free
<1> QED
  BY <1>1, <1>2, <1>3, <1>4, <1>5, <1>6, <1>7, <1>8, <1>9, <1>10, <1>11 DEF Holder

(* So does a goroutine. *)
LEMMA WorkKeepsPlace ==
  ASSUME Inv, Outcome, LogRuns, PlaceInv, Stay, NEW r \in Runs, Work(r) PROVE PlaceInv'
<1>1. UNCHANGED <<req, conv, cancelled>>
  BY WorkLeaves
<1>2. \A q \in Runs : q # r => /\ pc'[q] = pc[q] /\ row'[q] = row[q]
                               /\ (q \in live' <=> q \in live) /\ (q \in ending' <=> q \in ending)
  BY WorkOwnStage, WorkOwnRow, WorkOwnPlace
<1>3. /\ AtWork(r) /\ pc'[r] # "none" /\ pc[r] # "toolWait" /\ live' \subseteq live
      /\ pc'[r] # "over" => (r \in live' \cup ending' <=> r \in live \cup ending)
      /\ pc'[r] = "over" => r \notin live' \cup ending'
      /\ pc'[r] \notin Finishing => pc[r] \notin Finishing /\ (r \in live' <=> r \in live)
  BY WorkWorks
<1>4. row[r] # "none" /\ row'[r] # "none" /\ live \subseteq Runs
  BY <1>3 DEF AtWork, Outcome, Rowless, Stay, Inv, ControlTypeOK
<1>5. Working'
  BY <1>2, <1>3 DEF PlaceInv, Working, AtWork
<1>6. Calls'
  BY <1>1, <1>2, <1>3 DEF PlaceInv, Calls, Inv, ControlTypeOK, HolderType
<1>7. Unstopped'
  BY <1>1, <1>2, <1>3 DEF PlaceInv, Unstopped, AtWork
<1>8. \A q \in Runs : row'[q] = "none" <=> row[q] = "none"
  BY <1>2, <1>4
<1>9. Numbered'
  BY <1>8 DEF PlaceInv, Numbered
<1>10. Cleared'
  BY <1>1, <1>3 DEF PlaceInv, Cleared, Live, RunsOf
<1>11. \A q \in Runs : Youngest(q) => Youngest(q)'
  BY <1>1, <1>8 DEF Youngest
<1>12. conv.step \in {"find", "push", "track"} => conv.run \in Runs
  BY DEF Inv, Lock
<1>13. Newest'
  BY <1>1, <1>3, <1>4, <1>11, <1>12 DEF PlaceInv, Newest
<1>14. Found'
  BY <1>1, <1>2, <1>3, <1>12 DEF PlaceInv, Found, AtWork
<1> QED
  BY <1>5, <1>6, <1>7, <1>9, <1>10, <1>13, <1>14 DEF PlaceInv

(* So do a tool that takes the lock, a stop's rows and a restart. *)
LEMMA OthersKeepPlace ==
  ASSUME Inv, Outcome, PlaceInv, Stay,
         \/ \E r \in Runs : ToolLocks(r)
         \/ \E c \in Chats : StopRows(c)
         \/ Restart
         \/ UNCHANGED vars
  PROVE  PlaceInv'
<1> USE DEF dbVars, appVars, runVars, histVars
<1>t. /\ row \in [Runs -> RowStatus] /\ req \in [Runs -> RequestType] /\ live \subseteq Runs
      /\ pc \in [Runs -> PCs] /\ PlaceParts
  BY PlaceConv DEF Inv, ControlTypeOK
<1>1. ASSUME NEW r \in Runs, NEW c \in Chats, ToolSend(r, c) PROVE PlaceInv'
  <2>1. /\ conv'.by = r /\ conv'.step = "look" /\ pc[r] = "toolWait"
        /\ UNCHANGED <<pc, row, req, live, ending, cancelled>>
    BY <1>1 DEF ToolSend, Asked
  <2> QED
    BY <1>t, <2>1, PlaceRest
<1>2. ASSUME NEW r \in Runs, ToolSendsNothing(r) PROVE PlaceInv'
  <2>1. /\ conv = Free /\ pc[r] = "toolWait" /\ pc' = [pc EXCEPT ![r] = "toolBack"]
        /\ UNCHANGED <<row, req, live, ending, cancelled, conv>>
    BY <1>2 DEF ToolSendsNothing
  <2>2. \A q \in Runs : pc'[q] = pc[q] \/ (pc[q] = "toolWait" /\ pc'[q] = "toolBack")
    BY <1>t, <2>1
  <2>3. Working' /\ Unstopped'
    BY <2>1, <2>2 DEF PlaceInv, Working, Unstopped, AtWork, Finishing
  <2>4. Numbered' /\ Calls' /\ Cleared' /\ Found'
    BY <2>1 DEF PlaceInv, Numbered, Calls, Cleared, Found, Free
  <2>5. Newest'
    BY <2>1 DEF PlaceInv, Newest, Youngest, Free
  <2> QED
    BY <2>3, <2>4, <2>5 DEF PlaceInv
<1>3. ASSUME NEW c \in Chats, StopRows(c) PROVE PlaceInv'
  <2>1. UNCHANGED <<pc, req, live, ending, cancelled, conv>>
        /\ \A q \in Runs : row[q] = "none" => row'[q] = "none"
    BY <1>t, <1>3 DEF StopRows, RowsStopped
  <2> QED
    BY <1>t, <2>1, PlaceRest DEF PlaceParts, Live, RunsOf
<1>4. CASE Restart
  <2>1. /\ live' = {} /\ ending' = {} /\ conv' = Free /\ req' = req
        /\ \A r \in Runs : pc'[r] \in {"none", "over"} /\ (row'[r] = "none" <=> row[r] = "none")
    BY <1>t, <1>4 DEF Restart, Orphan
  <2> QED
    BY <2>1 DEF PlaceInv, Working, Calls, Unstopped, Numbered, Cleared, Newest, Found, AtWork, Free
<1>5. CASE UNCHANGED vars
  <2>1. UNCHANGED <<pc, req, row, live, ending, cancelled, conv>>
    BY <1>5 DEF vars
  <2> QED
    BY <1>t, <2>1, PlaceRest DEF PlaceParts, Live, RunsOf
<1> QED
  BY <1>1, <1>2, <1>3, <1>4, <1>5 DEF ToolLocks

(* Who is tracked is at work, and only the newest run is live or found. *)
LEMMA PlaceHolds == Spec => []PlaceInv
<1>1. Inv /\ Outcome /\ LogInv /\ PlaceInv /\ [Next]_vars => PlaceInv'
  BY RequestKeepsPlace, HolderKeepsPlace, WorkKeepsPlace, OthersKeepPlace, RowsStay DEF Next, LogInv
<1> QED
  BY PlaceInit, InvHolds, OutcomeHolds, LogInvHolds, <1>1, PTL DEF Spec

-----------------------------------------------------------------------------
(* Cuts of the history.                                                    *)

(* A request that cuts waits for every run at work on its conversation.    *)
Waits ==
  conv.step \in {"cancel", "rows", "wait", "truncate"} =>
    \A r \in RunsOf(conv.chat) : AtWork(r) => r \in conv.wait

(* The runs at rest when their conversation was cut are over and done with. *)
Resting ==
  \A r \in sealed :
    /\ r \in Runs /\ ~AtWork(r) /\ row[r] \notin {"none", "running"}
    /\ conv.step \in {"find", "push", "track"} => conv.run # r

CutInv == Waits /\ Resting

(* Steps that leave the lock alone and set nobody to work.                 *)
LEMMA CutRest ==
  ASSUME CutInv, UNCHANGED <<conv, sealed>>,
         \A q \in Runs : AtWork(q)' => AtWork(q) /\ req'[q] = req[q],
         \A q \in Runs : row[q] \notin {"none", "running"} => row'[q] \notin {"none", "running"}
  PROVE  CutInv'
<1>1. Waits'
  BY DEF CutInv, Waits, RunsOf
<1>2. Resting'
  BY DEF CutInv, Resting
<1> QED
  BY <1>1, <1>2 DEF CutInv

(* Taking the lock to cut: everyone at work is waited for. *)
LEMMA CutTaken ==
  ASSUME Working, CutInv, NEW op, NEW c, NEW m, NEW old, NEW snap, Cut(op, c, m, old, snap),
         UNCHANGED <<pc, row, req, sealed>>
  PROVE  CutInv'
<1>1. conv'.chat = c /\ conv'.wait = Tracked(c) /\ conv'.step \in {"cancel", "truncate"}
  BY DEF Cut, Asked
<1>2. \A r \in Runs : AtWork(r)' /\ req'[r].chat = c => r \in Tracked(c)
  BY DEF Working, AtWork, Tracked, RunsOf
<1>3. Waits'
  BY <1>1, <1>2 DEF Waits, RunsOf
<1>4. Resting'
  BY <1>1 DEF CutInv, Resting, AtWork
<1> QED
  BY <1>3, <1>4 DEF CutInv

(* A request keeps what a cut waits for: it begins with all that is tracked *)
(* in its conversation (StopChatLive).                                     *)
LEMMA RequestKeepsCut == ASSUME Inv, Outcome, PlaceInv, CutInv, Request PROVE CutInv'
<1> USE DEF dbVars, appVars, runVars, histVars
<1>t. /\ row \in [Runs -> RowStatus] /\ req \in [Runs -> RequestType] /\ sealed \subseteq Runs
      /\ \A q \in Runs : row[q] = "none" => pc[q] = "none"
      /\ Working
  BY DEF Inv, ControlTypeOK, Outcome, Rowless, PlaceInv
<1>1. ASSUME NEW c \in Chats, (\E op \in {"chat", "idle"} : Send(c, op)) \/ CompactChat(c) PROVE CutInv'
  <2>1. conv'.step \in {"look", "create"} /\ UNCHANGED <<pc, row, sealed>>
    BY <1>1 DEF Send, CompactChat, Asked
  <2> QED
    BY <2>1 DEF CutInv, Waits, Resting, AtWork
<1>2. ASSUME NEW c \in Chats, NEW r \in Runs, Clear(c, r) PROVE CutInv'
  <2>1. /\ UNCHANGED <<pc, conv, sealed>> /\ row[r] = "none"
        /\ row' = [row EXCEPT ![r] = "done"]
        /\ \A q \in Runs : q # r => req'[q] = req[q]
    BY <1>t, <1>2 DEF Clear, CommandEvent, NewRun
  <2>2. \A q \in Runs : AtWork(q)' => AtWork(q) /\ req'[q] = req[q]
    BY <1>t, <2>1 DEF AtWork
  <2>3. \A q \in Runs : row[q] \notin {"none", "running"} => row'[q] \notin {"none", "running"}
    BY <1>t, <2>1
  <2> QED
    BY <2>1, <2>2, <2>3, CutRest
<1>3. ASSUME NEW c \in Chats, Edit(c) PROVE CutInv'
  <2>1. Cut("edit", c, sent + 1, LastUserMsg(log[c]), {}) /\ UNCHANGED <<pc, row, req, sealed>>
    BY <1>3 DEF Edit
  <2> QED
    BY <1>t, <2>1, CutTaken
<1>4. ASSUME NEW c \in Chats, Delete(c) PROVE CutInv'
  <2>1. Cut("delete", c, NoMsg, LastUserMsg(log[c]), {}) /\ UNCHANGED <<pc, row, req, sealed>>
    BY <1>4 DEF Delete
  <2> QED
    BY <1>t, <2>1, CutTaken
<1>5. ASSUME NEW c \in Chats, NEW op \in {"wipe", "wipePart"}, Wipe(c, op) PROVE CutInv'
  <2>1. \E snap : Cut(op, c, NoMsg, NoMsg, snap)
    BY <1>5 DEF Wipe
  <2>2. UNCHANGED <<pc, row, req, sealed>>
    BY <1>5 DEF Wipe
  <2> QED
    BY <1>t, <2>1, <2>2, CutTaken
<1>6. ASSUME NEW c \in Chats, Stop(c) PROVE CutInv'
  <2>1. UNCHANGED <<pc, conv, sealed, row, req>>
    BY <1>6 DEF Stop
  <2> QED
    BY <2>1, CutRest DEF AtWork
<1>7. ASSUME NEW r \in Runs, TimeOut(r) PROVE CutInv'
  <2>1. UNCHANGED <<pc, conv, sealed, row, req>>
    BY <1>7 DEF TimeOut
  <2> QED
    BY <2>1, CutRest DEF AtWork
<1> QED
  BY <1>1, <1>2, <1>3, <1>4, <1>5, <1>6, <1>7 DEF Request

(* Giving the lock back moves one goroutine at most, and out of its tool.  *)
LEMMA ReleaseCut ==
  ASSUME Inv, PlaceInv, CutInv, Release, UNCHANGED <<row, sealed>>
  PROVE  CutInv'
<1>1. conv' = Free /\ pc' = IF conv.by = NoRun THEN pc ELSE [pc EXCEPT ![conv.by] = "toolBack"]
  BY DEF Release
<1>2. \A q \in Runs : pc'[q] = pc[q] \/ (pc[q] = "toolWait" /\ pc'[q] = "toolBack")
  BY <1>1 DEF PlaceInv, Calls, Inv, ControlTypeOK
<1> QED
  BY <1>1, <1>2 DEF CutInv, Waits, Resting, AtWork, Free

(* The holder keeps it: who is at work when the cut comes was waited for.  *)
LEMMA HolderKeepsCut == ASSUME Inv, Outcome, PlaceInv, CutInv, Holder PROVE CutInv'
<1> USE DEF dbVars, appVars, runVars, histVars
<1>t. /\ row \in [Runs -> RowStatus] /\ req \in [Runs -> RequestType] /\ sealed \subseteq Runs
      /\ live \subseteq Runs /\ pc \in [Runs -> PCs] /\ Working
      /\ conv = [step |-> conv.step, by |-> conv.by, op |-> conv.op, chat |-> conv.chat,
                 msg |-> conv.msg, old |-> conv.old, run |-> conv.run,
                 wait |-> conv.wait, snap |-> conv.snap]
      /\ conv.step \in {"find", "push", "track"} => conv.run \in Runs
      /\ conv.by # NoRun => pc[conv.by] = "toolWait"
  BY DEF Inv, ControlTypeOK, HolderType, Lock, PlaceInv, Calls
<1>1. ASSUME Look \/ InjectFind \/ InjectPush \/ InjectRefused \/ Recheck \/ StartRefused
      PROVE  CutInv'
  <2>1. UNCHANGED <<row, sealed>>
    BY <1>1 DEF Look, InjectFind, InjectPush, InjectRefused, Recheck, StartRefused
  <2>2. CASE Release
    BY <2>1, <2>2, ReleaseCut
  <2>3. CASE ~Release
    <3>1. UNCHANGED pc /\ conv'.step \in {"create", "find", "push", "recheck"}
          /\ (conv'.step \in {"find", "push"} => conv'.run \in live \/ (conv.step = "find" /\ conv'.run = conv.run))
      <4>1. CASE Look
        BY <1>t, <2>3, <4>1 DEF Look, Live
      <4>2. CASE InjectFind
        BY <1>t, <4>2 DEF InjectFind
      <4>3. CASE InjectPush \/ StartRefused
        BY <2>3, <4>3 DEF InjectPush, StartRefused
      <4>4. CASE InjectRefused \/ Recheck
        BY <1>t, <2>3, <4>4 DEF InjectRefused, Recheck
      <4> QED
        BY <1>1, <4>1, <4>2, <4>3, <4>4
    <3>2. Waits'
      BY <3>1 DEF Waits
    <3>3. Resting'
      BY <1>t, <2>1, <3>1 DEF CutInv, Working, Resting, AtWork
    <3> QED
      BY <3>2, <3>3 DEF CutInv
  <2> QED
    BY <2>2, <2>3
<1>2. ASSUME NEW r \in Runs, StartCreate(r) PROVE CutInv'
  <2>1. /\ UNCHANGED <<pc, sealed>>
        /\ conv'.step = "track" /\ conv'.run = r /\ row[r] = "none"
        /\ row' = [row EXCEPT ![r] = "running"]
    BY <1>t, <1>2 DEF StartCreate, NewRun
  <2> QED
    BY <2>1, <1>t DEF CutInv, Waits, Resting, AtWork
<1>3. ASSUME StartTrack PROVE CutInv'
  <2>1. UNCHANGED <<row, sealed>> /\ conv' = Free /\ conv.run \in Runs /\ conv.step = "track"
    BY <1>t, <1>3 DEF StartTrack
  <2>2. pc' = IF conv.by = NoRun THEN [pc EXCEPT ![conv.run] = "begin"]
              ELSE [pc EXCEPT ![conv.run] = "begin", ![conv.by] = "toolBack"]
    BY <1>3 DEF StartTrack
  <2>3. \A q \in Runs : q # conv.run => pc'[q] = pc[q] \/ (pc[q] = "toolWait" /\ pc'[q] = "toolBack")
    BY <1>t, <2>2
  <2>4. \A q \in sealed : q # conv.run
    BY <2>1 DEF CutInv, Resting
  <2> QED
    BY <1>t, <2>1, <2>3, <2>4 DEF CutInv, Waits, Resting, AtWork, Free
<1>4. ASSUME CutCancel \/ CutRows \/ CutWaited \/ CutDeadline PROVE CutInv'
  <2>1. /\ UNCHANGED <<pc, req, sealed>> /\ conv'.chat = conv.chat /\ conv'.wait = conv.wait
        /\ conv.step \in {"cancel", "rows", "wait"} /\ conv'.step \in {"rows", "wait", "truncate"}
    BY <1>t, <1>4 DEF CutCancel, CutRows, CutWaited, CutDeadline
  <2>2. \A q \in Runs : row[q] \notin {"none", "running"} => row'[q] \notin {"none", "running"}
    BY <1>t, <1>4 DEF CutCancel, CutRows, CutWaited, CutDeadline, RowsStopped
  <2>3. Waits'
    BY <2>1 DEF CutInv, Waits, AtWork, RunsOf
  <2>4. Resting'
    BY <2>1, <2>2 DEF CutInv, Resting, AtWork
  <2> QED
    BY <2>3, <2>4 DEF CutInv
<1>6. ASSUME Truncate PROVE CutInv'
  <2>1. /\ UNCHANGED pc /\ conv.step = "truncate" /\ conv'.step \in {"look", "free"}
        /\ sealed' = sealed \cup (Begun(conv.chat) \ Outlasting)
    BY <1>t, <1>6 DEF Truncate, Asked, Free
  <2>2. \A q \in Runs : row'[q] = row[q] \/ row'[q] = "gone"
    BY <1>t, <1>6 DEF Truncate
  <2>3. \A r \in Begun(conv.chat) \ Outlasting : r \in Runs /\ ~AtWork(r) /\ row[r] \notin {"none", "running"}
    <3>1. \A r \in Begun(conv.chat) \ Outlasting : r \in Runs /\ ~AtWork(r) /\ row[r] # "none"
      BY <2>1 DEF CutInv, Waits, Begun, Outlasting, RunsOf, AtWork
    <3> QED
      BY <2>1, <3>1 DEF Inv, RunningHasRunner, AtWork
  <2>4. Waits'
    BY <2>1 DEF Waits
  <2>5. Resting'
    BY <1>t, <2>1, <2>2, <2>3 DEF CutInv, Resting, AtWork
  <2> QED
    BY <2>4, <2>5 DEF CutInv
<1>7. ASSUME NEW r \in Runs, WipeDelete(r) PROVE CutInv'
  <2>1. UNCHANGED <<pc, sealed>> /\ conv' = Free
    BY <1>t, <1>7 DEF WipeDelete
  <2>2. \A q \in Runs : row'[q] = row[q] \/ row'[q] \in {"gone", "done"}
    BY <1>t, <1>7 DEF WipeDelete
  <2> QED
    BY <1>t, <2>1, <2>2 DEF CutInv, Waits, Resting, AtWork, Free
<1> QED
  BY <1>1, <1>2, <1>3, <1>4, <1>6, <1>7 DEF Holder

(* A goroutine keeps it: who is waited for writes until it is over. *)
LEMMA WorkKeepsCut ==
  ASSUME Inv, Outcome, CutInv, NEW r \in Runs, Work(r)
  PROVE  CutInv'
<1>1. UNCHANGED <<req, conv, sealed>>
  BY WorkLeaves
<1>2. \A q \in Runs : q # r => pc'[q] = pc[q] /\ row'[q] = row[q]
  BY WorkOwnStage, WorkOwnRow
<1>3. AtWork(r)
  BY WorkWorks
<1>4. \A q \in Runs : AtWork(q)' => AtWork(q)
  BY <1>2, <1>3 DEF AtWork
<1>5. Waits'
  BY <1>1, <1>4 DEF CutInv, Waits, RunsOf
<1>6. r \notin sealed
  BY <1>3 DEF CutInv, Resting
<1>7. Resting'
  BY <1>1, <1>2, <1>4, <1>6 DEF CutInv, Resting
<1> QED
  BY <1>5, <1>7 DEF CutInv

(* So do a tool that takes the lock, a stop's rows and a restart. *)
LEMMA OthersKeepCut ==
  ASSUME Inv, Outcome, CutInv,
         \/ \E r \in Runs : ToolLocks(r)
         \/ \E c \in Chats : StopRows(c)
         \/ Restart
         \/ UNCHANGED vars
  PROVE  CutInv'
<1> USE DEF dbVars, appVars, runVars, histVars
<1>t. row \in [Runs -> RowStatus] /\ pc \in [Runs -> PCs]
  BY DEF Inv, ControlTypeOK
<1>1. ASSUME NEW r \in Runs, ToolSendsNothing(r) PROVE CutInv'
  <2>1. /\ UNCHANGED <<conv, sealed, row, req>>
        /\ \A q \in Runs : pc'[q] = pc[q] \/ pc[q] = "toolWait"
    BY <1>t, <1>1 DEF ToolSendsNothing
  <2> QED
    BY <2>1, CutRest DEF AtWork
<1>2. ASSUME NEW r \in Runs, NEW c \in Chats, ToolSend(r, c) PROVE CutInv'
  <2>1. conv'.step = "look" /\ UNCHANGED <<pc, row, sealed>>
    BY <1>2 DEF ToolSend, Asked
  <2> QED
    BY <2>1 DEF CutInv, Waits, Resting, AtWork
<1>3. ASSUME NEW c \in Chats, StopRows(c) PROVE CutInv'
  <2>1. UNCHANGED <<pc, conv, sealed, req>>
    BY <1>3 DEF StopRows
  <2>2. \A q \in Runs : row[q] \notin {"none", "running"} => row'[q] \notin {"none", "running"}
    BY <1>t, <1>3 DEF StopRows, RowsStopped
  <2> QED
    BY <2>1, <2>2, CutRest DEF AtWork
<1>4. CASE Restart
  <2>1. conv' = Free /\ sealed' = sealed /\ \A r \in Runs : pc'[r] \in {"none", "over"}
    BY <1>4 DEF Restart
  <2>2. \A q \in Runs : row[q] \notin {"none", "running"} => row'[q] = row[q]
    BY <1>4 DEF Restart, Orphan
  <2> QED
    BY <2>1, <2>2 DEF CutInv, Waits, Resting, AtWork, Free
<1>5. CASE UNCHANGED vars
  <2>1. UNCHANGED <<pc, conv, sealed, row, req>>
    BY <1>5 DEF vars
  <2> QED
    BY <2>1, CutRest DEF AtWork
<1> QED
  BY <1>1, <1>2, <1>3, <1>4, <1>5 DEF ToolLocks

(* In the initial state no cut waits and nothing is sealed. *)
LEMMA CutInvInit == Init => CutInv
BY DEF Init, CutInv, Waits, Resting, Free

(* Who may write is never a run of a conversation that was cut. *)
LEMMA CutStep ==
  ASSUME Inv, Outcome, LogInv, CutInv, [Next]_vars, NEW r \in sealed, NEW c \in Chats
  PROVE  EventsOf(r, log'[c]) \subseteq EventsOf(r, log[c])
<1>1. DataInv /\ LogRuns /\ Placed
  BY DEF LogInv
<1>2. Authored /\ LogTyped /\ LogTyped'
  BY <1>1, NextAuthored, LogInvKept, DataParts DEF LogInv, DataInv, DataTypeOK, LogTyped
<1>3. r \in Runs /\ ~AtWork(r) /\ row[r] \notin {"none", "running"}
      /\ (conv.step \in {"find", "push", "track"} => conv.run # r)
  BY DEF CutInv, Resting, Inv, ControlTypeOK
<1> SUFFICES ASSUME NEW i \in DOMAIN log'[c], log'[c][i].run = r
             PROVE  log'[c][i] \in EventsOf(r, log[c])
  BY DEF EventsOf
<1> DEFINE e == log'[c][i]
<1>4. e \in ToSet(log'[c])
  BY DEF ToSet
<1>5. ~Author(e, c)
  <2>1. ~Work(r)
    BY <1>3, WorkWorks
  <2>2. ~Open(r)
    BY <2>1 DEF Work
  <2>3. ~(InjectPush /\ conv.run = r)
    BY <1>3 DEF InjectPush
  <2> QED
    BY <1>3, <2>1, <2>2, <2>3 DEF Author, By
<1>6. e \in ToSet(log[c])
  BY <1>2, <1>4, <1>5 DEF Authored
<1> QED
  BY <1>6 DEF EventsOf, ToSet

(* An edit or a deletion is final: it waits for every run still tracked     *)
(* there, so none of them writes into the history it has cut, except those *)
(* that outlast the five seconds of the wait (StopChatLive, untrackRun,    *)
(* runExited).                                                             *)
THEOREM CutIsFinalHolds == Spec => CutIsFinal
<1>1. Inv /\ Outcome /\ LogInv /\ PlaceInv /\ CutInv /\ [Next]_vars => CutInv'
  BY RequestKeepsCut, HolderKeepsCut, WorkKeepsCut, OthersKeepCut DEF Next
<1>2. Inv /\ Outcome /\ LogInv /\ CutInv /\ [Next]_vars
        => [\A r \in sealed : \A c \in Chats :
              EventsOf(r, log'[c]) \subseteq EventsOf(r, log[c])]_vars
  BY CutStep
<1> QED
  BY CutInvInit, InvHolds, OutcomeHolds, LogInvHolds, PlaceHolds, <1>1, <1>2, PTL DEF Spec, CutIsFinal

-----------------------------------------------------------------------------
(* Messages of the log, and who has read them.                             *)

EventsNow == UNION {ToSet(log[c]) : c \in Chats}

(* The messages that run r was handed. *)
MessagesOf(r) == {e.msg : e \in {f \in EventsNow : f.run = r /\ f.kind = "user"}}

(* A message enters the log when its run opens or when it is injected.     *)
LEMMA NewMessages ==
  ASSUME Inv, Outcome, LogInv, [Next]_vars
  PROVE  /\ EventsNow \subseteq Event /\ EventsNow' \subseteq Event
         /\ \A e \in EventsNow' : e \in EventsNow \/ By(e)
         /\ \A e \in EventsNow' : e.kind = "user" =>
              \/ e \in EventsNow
              \/ Open(e.run) /\ e.msg = req[e.run].msg
              \/ InjectPush /\ e.run = conv.run /\ e.msg = conv.msg
<1>1. LogInv' /\ Authored
  BY LogInvKept, NextAuthored DEF LogInv
<1>2. LogTyped /\ LogTyped'
  BY <1>1 DEF LogInv, DataInv, DataTypeOK, LogTyped
<1>3. EventsNow \subseteq Event /\ EventsNow' \subseteq Event
  <2>1. \A s \in Seq(Event) : ToSet(s) \subseteq Event
    BY ElementsOf
  <2> QED
    BY <1>2, <2>1 DEF EventsNow, LogTyped
<1>4. \A e \in EventsNow' : e \in EventsNow \/ By(e)
  BY <1>1 DEF Authored, Author, EventsNow
<1>5. \A e : By(e) /\ e.kind = "user" =>
              \/ Open(e.run) /\ e.msg = req[e.run].msg
              \/ InjectPush /\ e.run = conv.run /\ e.msg = conv.msg
  BY SpeaksKinds DEF By
<1> QED
  BY <1>3, <1>4, <1>5

(* The same of one run. *)
LEMMA MessagesOfGrows ==
  ASSUME Inv, Outcome, LogInv, [Next]_vars, NEW r \in Runs, NEW m \in MessagesOf(r)'
  PROVE  \/ m \in MessagesOf(r)
         \/ Open(r) /\ m = req[r].msg
         \/ InjectPush /\ r = conv.run /\ m = conv.msg
BY NewMessages DEF MessagesOf

(* Without manual compactions. *)
Unasked ==
  /\ conv.op # "compact"
  /\ \A r \in Runs : req[r].kind # "compact" /\ why[r] # "manual" /\ pc[r] # "fold"

(* Where nobody asks for a summary, no run is one. *)
LEMMA UnaskedKept ==
  ASSUME "compact" \notin Features, Inv, Unasked, [Next]_vars
  PROVE  Unasked'
<1> USE DEF dbVars, appVars, runVars, histVars
<1>t. /\ pc \in [Runs -> PCs] /\ why \in [Runs -> Reasons] /\ req \in [Runs -> RequestType]
      /\ conv = [step |-> conv.step, by |-> conv.by, op |-> conv.op, chat |-> conv.chat,
                 msg |-> conv.msg, old |-> conv.old, run |-> conv.run,
                 wait |-> conv.wait, snap |-> conv.snap]
      /\ \A r \in Runs : pc[r] = "summary" => why[r] \in {"auto", "overflow"}
  BY DEF Inv, ControlTypeOK, HolderType, Stages, Unasked, Reasons
<1>r. ASSUME Release, UNCHANGED <<req, why>> PROVE Unasked'
  BY <1>t, <1>r DEF Release, Free, Unasked
<1>1. CASE Request
  <2>1. ASSUME NEW c \in Chats, (\E op \in {"chat", "idle"} : Send(c, op)) \/ CompactChat(c) PROVE Unasked'
    BY <2>1 DEF Send, CompactChat, Asked, Unasked, Has
  <2>2. ASSUME NEW c \in Chats, NEW r \in Runs, Clear(c, r) PROVE Unasked'
    BY <1>t, <2>2 DEF Clear, CommandEvent, Unasked
  <2>3. ASSUME NEW c \in Chats, Edit(c) \/ Delete(c) PROVE Unasked'
    BY <2>3 DEF Edit, Delete, Cut, Asked, Unasked
  <2>4. ASSUME NEW c \in Chats, NEW op \in {"wipe", "wipePart"}, Wipe(c, op) PROVE Unasked'
    BY <2>4 DEF Wipe, Cut, Asked, Unasked
  <2>5. ASSUME NEW c \in Chats, Stop(c) PROVE Unasked'
    BY <2>5 DEF Stop, Unasked
  <2>6. ASSUME NEW r \in Runs, TimeOut(r) PROVE Unasked'
    BY <2>6 DEF TimeOut, Unasked
  <2> QED
    BY <1>1, <2>1, <2>2, <2>3, <2>4, <2>5, <2>6 DEF Request
<1>2. CASE Holder
  <2>1. CASE Look \/ InjectFind \/ InjectRefused \/ Recheck
    BY <1>t, <1>r, <2>1 DEF Look, InjectFind, InjectRefused, Recheck, Unasked
  <2>2. CASE InjectPush \/ StartRefused
    BY <1>r, <2>2 DEF InjectPush, StartRefused
  <2>3. ASSUME NEW r \in Runs, StartCreate(r) PROVE Unasked'
    BY <1>t, <2>3 DEF StartCreate, Unasked
  <2>4. CASE StartTrack
    BY <1>t, <2>4 DEF StartTrack, Unasked, Free
  <2>5. CASE CutCancel \/ CutRows \/ CutWaited \/ CutDeadline
    BY <1>t, <2>5 DEF CutCancel, CutRows, CutWaited, CutDeadline, Unasked
  <2>6. CASE Truncate
    BY <2>6 DEF Truncate, Free, Asked, Unasked
  <2>7. ASSUME NEW r \in Runs, WipeDelete(r) PROVE Unasked'
    BY <1>t, <2>7 DEF WipeDelete, CommandEvent, Free, Unasked
  <2> QED
    BY <1>2, <2>1, <2>2, <2>3, <2>4, <2>5, <2>6, <2>7 DEF Holder
<1>3. ASSUME NEW r \in Runs, Work(r) PROVE Unasked'
  <2>1. UNCHANGED <<req, conv>>
    BY <1>3, WorkLeaves
  <2>2. \A q \in Runs : q # r => pc'[q] = pc[q] /\ why'[q] = why[q]
    BY <1>3, WorkOwnStage
  <2>3. why'[r] # "manual" /\ pc'[r] # "fold"
    <3> USE DEF Goto, Finish, CloseInbox
    <3>1. CASE NoModel(r) \/ Open(r) \/ DrainTake(r) \/ DrainMove(r) \/ Drained(r) \/ Check(r)
      BY <1>t, <3>1 DEF NoModel, Open, DrainTake, DrainMove, Drained, Check, Unasked
    <3>2. CASE OpenCompact(r) \/ Fold(r)
      BY <3>2 DEF OpenCompact, Fold, Unasked
    <3>3. CASE CompactAnchor(r) \/ CompactDone(r) \/ CompactFailed(r) \/ TurnOpen(r) \/ Commit(r)
      BY <1>t, <3>3 DEF CompactAnchor, CompactDone, CompactFailed, TurnOpen, Commit, Unasked, AfterSummary
    <3>4. CASE Reply(r) \/ StreamFailed(r) \/ Overflow(r) \/ Erred(r) \/ Close(r)
      BY <1>t, <3>4 DEF Reply, StreamFailed, Overflow, Erred, Close, Unasked
    <3>5. CASE ToolTurn(r) \/ ToolTalks(r) \/ ToolAsks(r) \/ ToolReturn(r) \/ TurnEnd(r)
      BY <1>t, <3>5 DEF ToolTurn, ToolTalks, ToolAsks, ToolReturn, TurnEnd, Unasked
    <3>6. CASE SayStopped(r) \/ SetStatus(r) \/ Untrack(r) \/ EmitDone(r) \/ Exit(r)
      BY <1>t, <3>6 DEF SayStopped, SetStatus, Untrack, EmitDone, Exit, Unasked
    <3> QED
      BY <1>3, <3>1, <3>2, <3>3, <3>4, <3>5, <3>6 DEF Work
  <2> QED
    BY <2>1, <2>2, <2>3 DEF Unasked
<1>4. ASSUME NEW r \in Runs, ToolLocks(r) PROVE Unasked'
  BY <1>t, <1>4 DEF ToolLocks, ToolSendsNothing, ToolSend, Asked, Unasked
<1>5. ASSUME NEW c \in Chats, StopRows(c) PROVE Unasked'
  BY <1>5 DEF StopRows, Unasked
<1>6. CASE Restart
  BY <1>t, <1>6 DEF Restart, Free, Unasked
<1>7. CASE UNCHANGED vars
  BY <1>7 DEF vars, Unasked
<1> QED
  BY <1>1, <1>2, <1>3, <1>4, <1>5, <1>6, <1>7 DEF Next

(* Every message that goes out, waits for a run or is logged is one.       *)
Worded ==
  /\ conv.step = "create" => conv.msg \in Msgs
  /\ \A r \in Runs : row[r] # "none" /\ req[r].kind = "chat" => req[r].msg \in Msgs
  /\ \A r \in Runs : NoMsg \notin MessagesOf(r)

(* Every step keeps it: a request's message is sent before it is logged. *)
LEMMA WordedKept ==
  ASSUME Inv, Outcome, LogInv, Unasked, Unasked', Worded, [Next]_vars
  PROVE  Worded'
<1> USE DEF dbVars, appVars, runVars, histVars
<1>t. /\ req \in [Runs -> RequestType] /\ row \in [Runs -> RowStatus]
      /\ conv = [step |-> conv.step, by |-> conv.by, op |-> conv.op, chat |-> conv.chat,
                 msg |-> conv.msg, old |-> conv.old, run |-> conv.run,
                 wait |-> conv.wait, snap |-> conv.snap]
      /\ conv.step \in {"look", "find", "push", "recheck"} => conv.msg \in Msgs
      /\ NoMsg \notin Msgs
  BY DEF Inv, ControlTypeOK, HolderType, Lock
<1>1. \A r \in Runs : NoMsg \notin MessagesOf(r)'
  <2> SUFFICES ASSUME NEW r \in Runs, NoMsg \in MessagesOf(r)' PROVE FALSE
    OBVIOUS
  <2>1. CASE Open(r) /\ NoMsg = req[r].msg
    <3>1. req[r].kind = "chat" /\ pc[r] = "begin"
      BY <2>1 DEF Open
    <3>2. row[r] # "none"
      BY <3>1 DEF Outcome, Rowless
    <3> QED
      BY <1>t, <2>1, <3>1, <3>2 DEF Worded
  <2>2. CASE InjectPush /\ r = conv.run /\ NoMsg = conv.msg
    BY <1>t, <2>2 DEF InjectPush
  <2> QED
    BY <2>1, <2>2, MessagesOfGrows DEF Worded
<1>r. ASSUME Release, UNCHANGED <<req, row>> PROVE Worded'
  BY <1>1, <1>r DEF Release, Free, Worded
<1>u. ASSUME UNCHANGED <<req, row, conv>> PROVE Worded'
  BY <1>1, <1>u DEF Worded
<1>s. ASSUME UNCHANGED <<req, row>>, conv'.step # "create" PROVE Worded'
  BY <1>1, <1>s DEF Worded
<1>2. CASE Request
  <2>1. ASSUME NEW c \in Chats, (\E op \in {"chat", "idle"} : Send(c, op)) PROVE Worded'
    BY <1>s, <2>1 DEF Send, Asked
  <2>2. ASSUME NEW c \in Chats, CompactChat(c) PROVE Worded'
    BY <2>2 DEF CompactChat, Asked, Unasked
  <2>3. ASSUME NEW c \in Chats, NEW r \in Runs, Clear(c, r) PROVE Worded'
    BY <1>1, <1>t, <2>3 DEF Clear, CommandEvent, Worded
  <2>4. ASSUME NEW c \in Chats, Edit(c) \/ Delete(c) PROVE Worded'
    BY <1>s, <2>4 DEF Edit, Delete, Cut, Asked
  <2>5. ASSUME NEW c \in Chats, NEW op \in {"wipe", "wipePart"}, Wipe(c, op) PROVE Worded'
    BY <1>s, <2>5 DEF Wipe, Cut, Asked
  <2>6. ASSUME NEW c \in Chats, Stop(c) PROVE Worded'
    BY <1>u, <2>6 DEF Stop
  <2>7. ASSUME NEW r \in Runs, TimeOut(r) PROVE Worded'
    BY <1>u, <2>7 DEF TimeOut
  <2> QED
    BY <1>2, <2>1, <2>2, <2>3, <2>4, <2>5, <2>6, <2>7 DEF Request
<1>3. CASE Holder
  <2>1. CASE Look \/ Recheck
    <3>1. /\ UNCHANGED <<req, row>> /\ conv.step \in {"look", "recheck"}
          /\ Release \/ conv'.msg = conv.msg
      BY <1>t, <2>1 DEF Look, Recheck
    <3>2. conv.msg \in Msgs
      BY <1>t, <3>1
    <3>3. CASE Release
      BY <1>r, <3>1, <3>3
    <3>4. CASE conv'.msg = conv.msg
      BY <1>1, <3>1, <3>2, <3>4 DEF Worded
    <3> QED
      BY <3>1, <3>3, <3>4
  <2>2. CASE InjectFind \/ InjectRefused
    BY <1>s, <1>t, <2>2 DEF InjectFind, InjectRefused
  <2>3. CASE InjectPush \/ StartRefused
    BY <1>r, <2>3 DEF InjectPush, StartRefused
  <2>4. ASSUME NEW r \in Runs, StartCreate(r) PROVE Worded'
    <3>1. conv'.step = "track" /\ conv.msg \in Msgs /\ req' = [req EXCEPT ![r] = req'[r]]
          /\ req'[r].msg = conv.msg /\ row' = [row EXCEPT ![r] = "running"]
      BY <1>t, <2>4 DEF StartCreate, Worded
    <3> QED
      BY <1>1, <1>t, <3>1 DEF Worded
  <2>5. CASE StartTrack
    BY <1>s, <2>5 DEF StartTrack, Free
  <2>6. CASE CutCancel \/ CutWaited \/ CutDeadline
    BY <1>s, <1>t, <2>6 DEF CutCancel, CutWaited, CutDeadline
  <2>7. CASE CutRows
    BY <1>1, <1>t, <2>7 DEF CutRows, RowsStopped, Worded
  <2>8. CASE Truncate
    <3>1. conv'.step # "create" /\ req' = req /\ \A r \in Runs : row'[r] # "none" => row[r] # "none"
      <4>1. \A kept : \A r \in Emptied(conv.chat, kept) : row[r] # "none"
        BY <2>8 DEF Truncate, LogInv, LogRuns, Emptied, Inv, Lock
      <4> QED
        BY <1>t, <2>8, <4>1 DEF Truncate, Free, Asked
    <3> QED
      BY <1>1, <3>1 DEF Worded
  <2>9. ASSUME NEW r \in Runs, WipeDelete(r) PROVE Worded'
    <3>1. /\ conv'.step # "create" /\ req' = [req EXCEPT ![r] = req'[r]] /\ req'[r].kind = "command"
          /\ \A q \in Runs : q # r /\ row'[q] # "none" => row[q] # "none"
      <4>1. \A kept : \A q \in Emptied(conv.chat, kept) : row[q] # "none"
        BY <2>9 DEF WipeDelete, LogInv, LogRuns, Emptied, Inv, Lock
      <4> QED
        BY <1>t, <2>9, <4>1 DEF WipeDelete, CommandEvent, Free
    <3> QED
      BY <1>1, <1>t, <3>1 DEF Worded
  <2> QED
    BY <1>3, <2>1, <2>2, <2>3, <2>4, <2>5, <2>6, <2>7, <2>8, <2>9 DEF Holder
<1>4. ASSUME NEW r \in Runs, Work(r) PROVE Worded'
  <2>1. UNCHANGED <<req, conv>> /\ Stay /\ (\A q \in Runs : q # r => row'[q] = row[q]) /\ pc[r] # "none"
    BY <1>4, WorkLeaves, WorkOwnRow, RowsStay, WorkWorks DEF AtWork, LogInv
  <2>2. row[r] # "none"
    BY <2>1 DEF Outcome, Rowless
  <2> QED
    BY <1>1, <2>1, <2>2 DEF Worded
<1>5. ASSUME NEW r \in Runs, ToolLocks(r) PROVE Worded'
  <2>1. UNCHANGED <<req, row>> /\ (conv'.step = "look" \/ conv' = conv)
    BY <1>5 DEF ToolLocks, ToolSendsNothing, ToolSend, Asked
  <2> QED
    BY <1>s, <1>u, <2>1
<1>6. ASSUME NEW c \in Chats, StopRows(c) PROVE Worded'
  BY <1>1, <1>t, <1>6 DEF StopRows, RowsStopped, Worded
<1>7. CASE Restart
  BY <1>1, <1>t, <1>7 DEF Restart, Free, Worded, Orphan
<1>8. CASE UNCHANGED vars
  BY <1>u, <1>8 DEF vars
<1> QED
  BY <1>2, <1>3, <1>4, <1>5, <1>6, <1>7, <1>8 DEF Next

(* What every step but a goroutine's and a restart does to the goroutines. *)
Standing ==
  /\ UNCHANGED <<taken, hist, verdict, seen, closed, why>> /\ cancelled \subseteq cancelled'
  /\ \A q \in Runs : \/ pc'[q] = pc[q]
                     \/ pc[q] = "toolWait" /\ pc'[q] = "toolBack"
                     \/ StartTrack /\ q = conv.run /\ pc[q] = "none" /\ pc'[q] = "begin"
  /\ \A q \in Runs : \/ inbox'[q] = inbox[q]
                     \/ InjectPush /\ q = conv.run /\ q \notin closed
                        /\ inbox'[q] = Append(inbox[q], conv.msg)
  /\ \A q \in live' : q \in live \/ (StartTrack /\ q = conv.run)

(* Only a goroutine's own steps and a restart move it further. *)
LEMMA OthersStand ==
  ASSUME Inv, PlaceInv, [Next]_vars
  PROVE  (\E r \in Runs : Work(r)) \/ Restart \/ Standing
<1> USE DEF dbVars, appVars, runVars, histVars
<1>t. /\ pc \in [Runs -> PCs] /\ inbox \in [Runs -> Seq(Msgs)]
      /\ conv.by # NoRun => conv.by \in Runs /\ pc[conv.by] = "toolWait"
      /\ conv.step \in {"find", "push", "track"} => conv.run \in Runs
      /\ conv.step = "track" => pc[conv.run] = "none"
  BY DEF Inv, ControlTypeOK, HolderType, Lock, PlaceInv, Calls, Found
<1>u. ASSUME UNCHANGED <<pc, inbox, taken, hist, verdict, seen, closed, why>>,
             cancelled \subseteq cancelled', live' \subseteq live
      PROVE  Standing
  BY <1>u DEF Standing
<1>r. ASSUME Release, UNCHANGED <<inbox, taken, hist, verdict, seen, closed, why, cancelled, live>>
      PROVE  Standing
  <2>1. \A q \in Runs : pc'[q] = pc[q] \/ (pc[q] = "toolWait" /\ pc'[q] = "toolBack")
    BY <1>r, <1>t DEF Release
  <2> QED
    BY <1>r, <2>1 DEF Standing
<1>1. CASE Request
  <2>1. ASSUME NEW c \in Chats,
               \/ \E op \in {"chat", "idle"} : Send(c, op)
               \/ CompactChat(c) \/ Edit(c) \/ Delete(c)
               \/ \E r \in Runs : Clear(c, r)
               \/ \E op \in {"wipe", "wipePart"} : Wipe(c, op)
        PROVE  Standing
    BY <1>u, <2>1 DEF Send, CompactChat, Edit, Delete, Clear, Wipe
  <2>2. ASSUME NEW c \in Chats, Stop(c) PROVE Standing
    BY <1>u, <2>2 DEF Stop, Cancelled
  <2>3. ASSUME NEW r \in Runs, TimeOut(r) PROVE Standing
    BY <1>u, <2>3 DEF TimeOut
  <2> QED
    BY <1>1, <2>1, <2>2, <2>3 DEF Request
<1>2. CASE Holder
  <2>1. CASE \/ InjectFind \/ InjectRefused \/ CutRows \/ CutWaited \/ CutDeadline \/ Truncate
             \/ \E r \in Runs : StartCreate(r) \/ WipeDelete(r)
    BY <1>u, <2>1 DEF InjectFind, InjectRefused, CutRows, CutWaited, CutDeadline, Truncate,
       StartCreate, WipeDelete
  <2>2. CASE CutCancel
    BY <1>u, <2>2 DEF CutCancel, Cancelled
  <2>3. CASE Look \/ Recheck \/ StartRefused
    BY <1>u, <1>r, <2>3 DEF Look, Recheck, StartRefused
  <2>4. CASE InjectPush
    <3>1. /\ UNCHANGED <<taken, hist, verdict, seen, closed, why, cancelled, live>> /\ conv.run \in Runs
          /\ inbox' = [inbox EXCEPT ![conv.run] = Append(@, conv.msg)] /\ conv.run \notin closed
          /\ \A q \in Runs : pc'[q] = pc[q] \/ (pc[q] = "toolWait" /\ pc'[q] = "toolBack")
      BY <1>t, <2>4 DEF InjectPush, Release, Room
    <3>2. \A q \in Runs : inbox'[q] = IF q = conv.run THEN Append(inbox[q], conv.msg) ELSE inbox[q]
      BY <1>t, <3>1
    <3> QED
      BY <2>4, <3>1, <3>2 DEF Standing
  <2>5. CASE StartTrack
    <3>1. /\ UNCHANGED <<inbox, taken, hist, verdict, seen, closed, why, cancelled>>
          /\ live' = live \cup {conv.run} /\ conv.run \in Runs /\ pc[conv.run] = "none"
          /\ pc' = IF conv.by = NoRun THEN [pc EXCEPT ![conv.run] = "begin"]
                   ELSE [pc EXCEPT ![conv.run] = "begin", ![conv.by] = "toolBack"]
      BY <1>t, <2>5 DEF StartTrack
    <3>2. \A q \in Runs : \/ pc'[q] = pc[q]
                          \/ pc[q] = "toolWait" /\ pc'[q] = "toolBack"
                          \/ q = conv.run /\ pc'[q] = "begin"
      <4>1. CASE conv.by = NoRun
        <5>1. pc' = [pc EXCEPT ![conv.run] = "begin"]
          BY <3>1, <4>1
        <5> QED
          BY <1>t, <5>1
      <4>2. CASE conv.by # NoRun
        <5>1. pc' = [pc EXCEPT ![conv.run] = "begin", ![conv.by] = "toolBack"]
          BY <3>1, <4>2
        <5> QED
          BY <1>t, <3>1, <4>2, <5>1
      <4> QED
        BY <4>1, <4>2
    <3> QED
      BY <2>5, <3>1, <3>2 DEF Standing
  <2> QED
    BY <1>2, <2>1, <2>2, <2>3, <2>4, <2>5 DEF Holder
<1>3. ASSUME NEW r \in Runs, ToolLocks(r) PROVE Standing
  <2>1. ASSUME NEW c \in Chats, ToolSend(r, c) PROVE Standing
    BY <1>u, <2>1 DEF ToolSend
  <2>2. CASE ToolSendsNothing(r)
    <3>1. \A q \in Runs : pc'[q] = pc[q] \/ (pc[q] = "toolWait" /\ pc'[q] = "toolBack")
      BY <1>t, <2>2 DEF ToolSendsNothing
    <3> QED
      BY <2>2, <3>1 DEF ToolSendsNothing, Standing
  <2> QED
    BY <1>3, <2>1, <2>2 DEF ToolLocks
<1>4. ASSUME NEW c \in Chats, StopRows(c) PROVE Standing
  BY <1>u, <1>4 DEF StopRows
<1>5. CASE UNCHANGED vars
  BY <1>u, <1>5 DEF vars
<1> QED
  BY <1>1, <1>2, <1>3, <1>4, <1>5 DEF Next

(* What was taken from an inbox is moved before anything else is done. *)
TakenOnMove == \A r \in Runs : taken[r] # << >> => pc[r] = "move"

(* Every step keeps it (drainInbox moves all it has taken). *)
LEMMA TakenOnMoveKept ==
  ASSUME Inv, LogInv, PlaceInv, TakenOnMove, [Next]_vars
  PROVE  TakenOnMove'
<1>t. pc \in [Runs -> PCs] /\ taken \in [Runs -> Seq(Msgs)]
  BY DEF Inv, ControlTypeOK
<1>1. ASSUME NEW r \in Runs, Work(r) PROVE TakenOnMove'
  <2> USE DEF dbVars, appVars, runVars, histVars, Goto, Finish, CloseInbox
  <2>1. \A q \in Runs : q # r => taken'[q] = taken[q] /\ pc'[q] = pc[q]
    BY <1>1, WorkOwnQueue, WorkOwnStage DEF LogInv
  <2>2. taken'[r] # << >> => pc'[r] = "move"
    <3>1. CASE DrainTake(r) \/ DrainMove(r) \/ Drained(r)
      BY <1>t, <3>1 DEF DrainTake, DrainMove, Drained
    <3>2. CASE NoModel(r) \/ Open(r) \/ OpenCompact(r) \/ Check(r) \/ CompactAnchor(r) \/ CompactDone(r)
               \/ CompactFailed(r) \/ Fold(r)
      BY <1>t, <3>2 DEF NoModel, Open, OpenCompact, Check, CompactAnchor, CompactDone, CompactFailed,
         Fold, TakenOnMove
    <3>3. CASE TurnOpen(r) \/ Commit(r) \/ Reply(r) \/ StreamFailed(r) \/ Overflow(r) \/ Erred(r)
               \/ Close(r) \/ ToolTurn(r) \/ ToolTalks(r) \/ ToolAsks(r) \/ ToolReturn(r)
      BY <1>t, <3>3 DEF TurnOpen, Commit, Reply, StreamFailed, Overflow, Erred, Close, ToolTurn,
         ToolTalks, ToolAsks, ToolReturn, TakenOnMove
    <3>4. CASE TurnEnd(r) \/ SayStopped(r) \/ SetStatus(r) \/ Untrack(r) \/ EmitDone(r) \/ Exit(r)
      BY <1>t, <3>4 DEF TurnEnd, SayStopped, SetStatus, Untrack, EmitDone, Exit, TakenOnMove
    <3> QED
      BY <1>1, <3>1, <3>2, <3>3, <3>4 DEF Work
  <2> QED
    BY <2>1, <2>2 DEF TakenOnMove
<1>2. CASE Restart
  BY <1>2 DEF Restart, TakenOnMove
<1>3. CASE Standing
  BY <1>3 DEF Standing, TakenOnMove
<1> QED
  BY <1>1, <1>2, <1>3, OthersStand

(* A goroutine that begins goes on. *)
LEMMA WorkBegins ==
  ASSUME Inv, NEW r \in Runs, Work(r)
  PROVE  pc'[r] # "begin"
<1> USE DEF dbVars, appVars, runVars, histVars, Goto, Finish, CloseInbox
<1>t. pc \in [Runs -> PCs] /\ why \in [Runs -> Reasons]
  BY DEF Inv, ControlTypeOK
<1>1. CASE NoModel(r) \/ Open(r) \/ OpenCompact(r) \/ DrainTake(r) \/ DrainMove(r) \/ Drained(r) \/ Check(r)
  BY <1>1, <1>t DEF NoModel, Open, OpenCompact, DrainTake, DrainMove, Drained, Check
<1>2. CASE CompactAnchor(r) \/ CompactFailed(r) \/ Fold(r) \/ TurnOpen(r) \/ Commit(r) \/ Reply(r)
  BY <1>2, <1>t DEF CompactAnchor, CompactFailed, Fold, TurnOpen, Commit, Reply
<1>3. CASE CompactDone(r)
  <2>1. why[r] \in {"manual", "auto", "overflow"}
    BY <1>3, <1>t DEF CompactDone, Inv, Stages, Reasons
  <2> QED
    BY <1>3, <1>t, <2>1 DEF CompactDone, AfterSummary
<1>4. CASE StreamFailed(r) \/ Overflow(r) \/ Erred(r) \/ Close(r) \/ ToolTurn(r) \/ ToolTalks(r) \/ ToolAsks(r)
  BY <1>4, <1>t DEF StreamFailed, Overflow, Erred, Close, ToolTurn, ToolTalks, ToolAsks
<1>5. CASE ToolReturn(r) \/ TurnEnd(r) \/ SayStopped(r) \/ SetStatus(r) \/ Untrack(r) \/ EmitDone(r) \/ Exit(r)
  BY <1>5, <1>t DEF ToolReturn, TurnEnd, SayStopped, SetStatus, Untrack, EmitDone, Exit
<1> QED
  BY <1>1, <1>2, <1>3, <1>4, <1>5 DEF Work

(* A run is being tracked after its row was created, and until it is.      *)
LEMMA TrackComes ==
  ASSUME Inv, [Next]_vars, conv'.step = "track"
  PROVE  \/ conv' = conv /\ ~Restart
         \/ \E r \in Runs : StartCreate(r) /\ conv'.run = r
<1> USE DEF dbVars, appVars, runVars, histVars
<1>t. conv = [step |-> conv.step, by |-> conv.by, op |-> conv.op, chat |-> conv.chat,
              msg |-> conv.msg, old |-> conv.old, run |-> conv.run,
              wait |-> conv.wait, snap |-> conv.snap]
  BY DEF Inv, ControlTypeOK, HolderType
<1>r. ~Release
  BY DEF Release, Free
<1>n. ~Restart
  BY DEF Restart, Free
<1>1. CASE Request
  <2>0. \A op, c, m, old, snap : ~Cut(op, c, m, old, snap)
    BY DEF Cut, Asked
  <2>1. ASSUME NEW c \in Chats, \/ \E op \in {"chat", "idle"} : Send(c, op)
                               \/ CompactChat(c) \/ Edit(c) \/ Delete(c)
                               \/ \E op \in {"wipe", "wipePart"} : Wipe(c, op)
        PROVE  FALSE
    BY <2>0, <2>1 DEF Send, CompactChat, Edit, Delete, Wipe, Asked
  <2>2. ASSUME NEW c \in Chats, Stop(c) \/ \E r \in Runs : Clear(c, r) PROVE conv' = conv
    BY <2>2 DEF Stop, Clear
  <2>3. ASSUME NEW r \in Runs, TimeOut(r) PROVE conv' = conv
    BY <2>3 DEF TimeOut
  <2> QED
    BY <1>1, <1>n, <2>1, <2>2, <2>3 DEF Request
<1>2. CASE Holder
  <2>1. CASE Look \/ InjectFind \/ InjectPush \/ InjectRefused \/ Recheck
    BY <1>t, <1>r, <2>1 DEF Look, InjectFind, InjectPush, InjectRefused, Recheck
  <2>2. CASE StartRefused \/ StartTrack \/ CutCancel \/ CutRows \/ CutWaited \/ CutDeadline
    BY <1>t, <1>r, <2>2 DEF StartRefused, StartTrack, CutCancel, CutRows, CutWaited, CutDeadline, Free
  <2>3. CASE Truncate \/ \E r \in Runs : WipeDelete(r)
    BY <2>3 DEF Truncate, WipeDelete, Free, Asked
  <2>4. ASSUME NEW r \in Runs, StartCreate(r) PROVE conv'.run = r
    BY <1>t, <2>4 DEF StartCreate
  <2> QED
    BY <1>2, <2>1, <2>2, <2>3, <2>4 DEF Holder
<1>3. ASSUME NEW r \in Runs, Work(r) PROVE conv' = conv
  BY <1>3, WorkLeaves
<1>4. ASSUME NEW r \in Runs, ToolLocks(r) PROVE conv' = conv
  BY <1>4 DEF ToolLocks, ToolSendsNothing, ToolSend, Asked
<1>5. ASSUME NEW c \in Chats, StopRows(c) PROVE conv' = conv
  BY <1>5 DEF StopRows
<1>6. CASE UNCHANGED vars
  BY <1>6, <1>n DEF vars
<1> QED
  BY <1>1, <1>2, <1>3, <1>4, <1>5, <1>6, <1>n DEF Next

(* Until its run opens a conversation has no more of it than the messages  *)
(* that wait in its inbox; a run that is not tracked yet has nothing.      *)
Unopened ==
  /\ \A e \in EventsNow : pc[e.run] = "begin" => e.kind = "user" /\ e.msg \in ToSet(inbox[e.run])
  /\ conv.step = "track" => \A e \in EventsNow : e.run # conv.run

(* Every step keeps it: before the opening only messages are written for a *)
(* run, each in its inbox (inject).                                        *)
LEMMA UnopenedKept ==
  ASSUME Inv, Outcome, LogInv, PlaceInv, Unopened, [Next]_vars
  PROVE  Unopened'
<1> USE DEF dbVars, appVars, runVars, histVars
<1>t. /\ pc \in [Runs -> PCs] /\ inbox \in [Runs -> Seq(Msgs)]
      /\ conv.step \in {"find", "push", "track"} => conv.run \in Runs
      /\ conv.step \in {"look", "find", "push", "recheck"} => conv.msg \in Msgs
      /\ conv.step = "track" => pc[conv.run] = "none" /\ row[conv.run] # "none"
  BY DEF Inv, ControlTypeOK, Lock, PlaceInv, Found, LogInv, Placed
<1>e. /\ EventsNow \subseteq Event /\ EventsNow' \subseteq Event
      /\ \A e \in EventsNow' : e \in EventsNow \/ By(e)
  BY NewMessages
<1>v. \A e \in Event : e.run \in Runs
  BY EventHas
<1>w. \A q \in Runs : Work(q) => pc'[q] # "begin" /\ pc[q] \notin {"none", "over"}
  BY WorkBegins, WorkWorks DEF AtWork
<1>o. \A q \in Runs : Open(q) => Work(q)
  BY DEF Work
<1>p. InjectPush => /\ conv.run \in Runs /\ conv.step = "push"
                    /\ inbox'[conv.run] = Append(inbox[conv.run], conv.msg)
                    /\ conv.msg \in ToSet(inbox'[conv.run])
                    /\ ToSet(inbox[conv.run]) \subseteq ToSet(inbox'[conv.run])
  <2> SUFFICES ASSUME InjectPush
               PROVE  /\ conv.run \in Runs /\ conv.step = "push"
                      /\ inbox'[conv.run] = Append(inbox[conv.run], conv.msg)
                      /\ conv.msg \in ToSet(inbox'[conv.run])
                      /\ ToSet(inbox[conv.run]) \subseteq ToSet(inbox'[conv.run])
    OBVIOUS
  <2>1. conv.step = "push" /\ conv.run \in Runs /\ conv.msg \in Msgs
    BY <1>t DEF InjectPush
  <2>2. inbox'[conv.run] = Append(inbox[conv.run], conv.msg)
    BY <1>t, <2>1 DEF InjectPush
  <2>3. inbox[conv.run] \in Seq(Msgs)
    BY <1>t, <2>1
  <2> QED
    BY <2>1, <2>2, <2>3, ElementsOf
<1>1. ASSUME NEW e \in EventsNow', pc'[e.run] = "begin"
      PROVE  e.kind = "user" /\ e.msg \in ToSet(inbox'[e.run])
  <2> DEFINE q == e.run
  <2>0. q \in Runs /\ ~Work(q) /\ ~Open(q) /\ ~Restart
    BY <1>1, <1>e, <1>v, <1>w, <1>o DEF Restart
  <2>1. CASE pc[q] = "begin"
    <3>1. row[q] # "none"
      BY <2>0, <2>1 DEF Outcome, Rowless
    <3>2. \/ e \in EventsNow
          \/ InjectPush /\ q = conv.run /\ e.kind = "user" /\ e.msg = conv.msg
      BY <1>1, <1>e, <2>0, <3>1 DEF By
    <3>3. ToSet(inbox[q]) \subseteq ToSet(inbox'[q])
      <4>1. ASSUME NEW r \in Runs, Work(r) PROVE inbox'[q] = inbox[q]
        <5>1. q # r
          BY <2>0, <4>1
        <5> QED
          BY <2>0, <4>1, <5>1, WorkOwnQueue DEF LogInv
      <4>2. CASE Standing
        BY <1>p, <2>0, <4>2 DEF Standing
      <4> QED
        BY <2>0, <4>1, <4>2, OthersStand
    <3> QED
      BY <1>p, <2>1, <3>2, <3>3 DEF Unopened
  <2>2. CASE pc[q] # "begin"
    <3>1. StartTrack /\ q = conv.run /\ pc[q] = "none" /\ conv.step = "track"
      <4>1. ASSUME NEW r \in Runs, Work(r) PROVE FALSE
        <5>1. q # r
          BY <2>0, <4>1
        <5> QED
          BY <1>1, <2>0, <2>2, <4>1, <5>1, WorkOwnStage
      <4>2. CASE Standing
        BY <1>1, <2>0, <2>2, <4>2 DEF Standing, StartTrack
      <4> QED
        BY <2>0, <4>1, <4>2, OthersStand
    <3>2. e \in EventsNow
      BY <1>1, <1>e, <1>t, <2>0, <3>1 DEF By, InjectPush
    <3> QED
      BY <3>1, <3>2 DEF Unopened
  <2> QED
    BY <2>1, <2>2
<1>2. ASSUME conv'.step = "track", NEW e \in EventsNow', e.run = conv'.run PROVE FALSE
  <2>1. ASSUME NEW r \in Runs, StartCreate(r), conv'.run = r PROVE FALSE
    <3>1. EventsNow' = EventsNow /\ row[r] = "none"
      BY <2>1 DEF StartCreate, NewRun, EventsNow
    <3> QED
      BY <1>2, <2>1, <3>1 DEF LogInv, LogRuns, EventsNow
  <2>2. CASE conv' = conv /\ ~Restart
    <3>1. e \in EventsNow
      BY <1>2, <1>e, <1>t, <1>w, <1>o, <2>2 DEF By, InjectPush
    <3> QED
      BY <1>2, <2>2, <3>1 DEF Unopened
  <2> QED
    BY <1>2, <2>1, <2>2, TrackComes
<1> QED
  BY <1>1, <1>2 DEF Unopened

(* The stages of a run that is answering, and of one that drains its inbox. *)
Reading == {"turn", "stream", "erred", "close", "closeMute", "tool", "toolWait", "toolBack",
            "toolEnd", "anchor", "summary"}
Draining == {"drain", "move", "check"}
Answering == {"stream", "close", "closeMute", "tool", "toolWait", "toolBack", "toolEnd"}

(* What run r can still show a model, or has shown one. *)
Known(r) == Unread(r) \cup MsgsIn(hist[r]) \cup seen

Covered(r) == MessagesOf(r) \subseteq Known(r)

(* An item more is at most a message more. *)
LEMMA MsgsInAppended ==
  ASSUME NEW items \in Seq(Item), NEW it \in Item
  PROVE  /\ it.msg = NoMsg => MsgsIn(Append(items, it)) = MsgsIn(items)
         /\ it.msg # NoMsg => MsgsIn(Append(items, it)) = MsgsIn(items) \cup {it.msg}
<1> DEFINE n == Len(items)
           more == Append(items, it)
<1>1. n \in Nat /\ DOMAIN items = 1..n /\ DOMAIN more = 1..(n + 1)
  OBVIOUS
<1>2. more[n + 1] = it /\ \A i \in 1..n : more[i] = items[i]
  OBVIOUS
<1> HIDE DEF more
<1>3. {more[i].msg : i \in DOMAIN more} = {items[i].msg : i \in DOMAIN items} \cup {it.msg}
  <2>1. \A i \in 1..(n + 1) : i \in 1..n \/ i = n + 1
    BY <1>1
  <2>2. n + 1 \in 1..(n + 1) /\ \A i \in 1..n : i \in 1..(n + 1)
    BY <1>1
  <2> HIDE DEF n
  <2> QED
    BY <1>1, <1>2, <2>1, <2>2
<1> QED
  BY <1>3 DEF MsgsIn, more

(* A goroutine forgets no message, and answers only once it has drained.   *)
LEMMA WorkKnows ==
  ASSUME Inv, LogInv, Outcome, Unasked, TakenOnMove, NEW r \in Runs, Work(r),
         pc'[r] \in Reading \cup Draining
  PROVE  \/ Open(r) /\ pc[r] = "begin" /\ pc'[r] = "drain"
         \/ /\ Known(r) \subseteq Known(r)'
            /\ pc[r] \in Reading \cup Draining
            /\ pc'[r] \in Reading /\ pc[r] \in Draining => r \notin cancelled
<1> USE DEF dbVars, appVars, runVars, histVars, Goto, Finish, CloseInbox, Reading, Draining
<1>t. /\ pc \in [Runs -> PCs] /\ why \in [Runs -> Reasons]
      /\ inbox \in [Runs -> Seq(Msgs)] /\ taken \in [Runs -> Seq(Msgs)]
      /\ hist \in [Runs -> Seq(Item)] /\ seen \subseteq Msgs
      /\ hist[r] \in Seq(Item) /\ inbox[r] \in Seq(Msgs) /\ taken[r] \in Seq(Msgs)
  BY DEF Inv, ControlTypeOK, LogInv, DataInv, DataTypeOK
<1>s. ASSUME UNCHANGED <<inbox, taken>>, seen \subseteq seen', MsgsIn(hist[r]) \subseteq MsgsIn(hist'[r]) \cup seen'
      PROVE  Known(r) \subseteq Known(r)'
  BY <1>s DEF Known, Unread
<1>a. \A it \in {AssistantItem(r), TurnItem(r), ResultItem(r)} : MsgsIn(Append(hist[r], it)) = MsgsIn(hist[r])
  <2>0. AssistantItem(r).msg = NoMsg /\ TurnItem(r).msg = NoMsg /\ ResultItem(r).msg = NoMsg
    BY DEF AssistantItem, TurnItem, ResultItem
  <2>1. \A it \in {AssistantItem(r), TurnItem(r), ResultItem(r)} : it \in Item /\ it.msg = NoMsg
    BY <2>0, ItemsAre
  <2> QED
    BY <1>t, <2>1, MsgsInAppended
<1>1. CASE NoModel(r) \/ OpenCompact(r) \/ Fold(r)
  BY <1>1, <1>t DEF NoModel, OpenCompact, Fold, Unasked
<1>2. CASE Open(r)
  BY <1>2, <1>t DEF Open
<1>3. CASE DrainTake(r)
  <2>1. /\ pc[r] = "drain" /\ taken' = [taken EXCEPT ![r] = inbox[r]] /\ UNCHANGED <<hist, seen>>
        /\ pc'[r] = "move"
    BY <1>3, <1>t DEF DrainTake
  <2>2. taken[r] = << >>
    BY <2>1 DEF TakenOnMove
  <2>3. Unread(r) \subseteq Unread(r)'
    BY <1>t, <2>1, <2>2, ElementsOf DEF Unread
  <2> QED
    BY <2>1, <2>3 DEF Known
<1>4. CASE DrainMove(r)
  <2> DEFINE m == Head(taken[r])
  <2>1. /\ pc[r] = "move" /\ pc' = pc /\ taken[r] # << >> /\ taken' = [taken EXCEPT ![r] = Tail(@)]
        /\ hist' = [hist EXCEPT ![r] = Append(@, UserItem(r, m))] /\ UNCHANGED <<inbox, seen>>
    BY <1>4, <1>t DEF DrainMove
  <2>2. m \in Msgs /\ ToSet(taken[r]) = ToSet(Tail(taken[r])) \cup {m}
    BY SMTT(30), <1>t, <2>1, HeadAndTail
  <2> HIDE DEF m
  <2>3. UserItem(r, m) \in Item /\ UserItem(r, m).msg = m
    BY <2>2, ItemsAre DEF UserItem
  <2>6. hist'[r] = Append(hist[r], UserItem(r, m)) /\ m # NoMsg
    BY SMTT(30), <1>t, <2>1, <2>2
  <2>4. MsgsIn(hist'[r]) = MsgsIn(hist[r]) \cup {m}
    BY <1>t, <2>3, <2>6, MsgsInAppended
  <2>5. taken'[r] = Tail(taken[r])
    BY <1>t, <2>1
  <2> QED
    BY <2>1, <2>2, <2>4, <2>5 DEF Known, Unread
<1>5. CASE Drained(r) \/ Check(r)
  BY <1>5, <1>s, <1>t DEF Drained, Check
<1>6. CASE CompactAnchor(r) \/ CompactFailed(r) \/ Overflow(r)
  BY <1>6, <1>s, <1>t DEF CompactAnchor, CompactFailed, Overflow
<1>7. CASE CompactDone(r)
  <2>1. /\ pc[r] = "summary" /\ UNCHANGED <<inbox, taken>> /\ seen' = seen \cup MsgsIn(hist[r])
    BY <1>7 DEF CompactDone
  <2> QED
    BY <1>s, <2>1
<1>8. CASE TurnOpen(r) \/ Commit(r)
  BY <1>8, <1>s, <1>t DEF TurnOpen, Commit
<1>9. CASE Reply(r) \/ StreamFailed(r) \/ Erred(r)
  BY <1>9, <1>s, <1>t DEF Reply, StreamFailed, Erred
<1>10. CASE Close(r)
  BY <1>10, <1>a, <1>s, <1>t DEF Close
<1>11. CASE ToolTurn(r) \/ ToolTalks(r) \/ ToolAsks(r)
  BY <1>11, <1>a, <1>s, <1>t DEF ToolTurn, ToolTalks, ToolAsks
<1>12. CASE ToolReturn(r) \/ TurnEnd(r)
  BY <1>12, <1>a, <1>s, <1>t DEF ToolReturn, TurnEnd
<1>13. CASE SayStopped(r) \/ SetStatus(r) \/ Untrack(r) \/ EmitDone(r) \/ Exit(r)
  BY <1>13, <1>t DEF SayStopped, SetStatus, Untrack, EmitDone, Exit
<1> QED
  BY <1>1, <1>2, <1>3, <1>4, <1>5, <1>6, <1>7, <1>8, <1>9, <1>10, <1>11, <1>12, <1>13 DEF Work

(* While it answers, the model has read all of the run's history.          *)
LEMMA WorkShows ==
  ASSUME Inv, LogInv, Unasked, NEW r \in Runs, Work(r), pc'[r] \in Answering,
         pc[r] \in Answering => MsgsIn(hist[r]) \subseteq seen
  PROVE  MsgsIn(hist'[r]) \subseteq seen'
<1> USE DEF dbVars, appVars, runVars, histVars, Goto, Finish, CloseInbox, Answering
<1>t. /\ pc \in [Runs -> PCs] /\ why \in [Runs -> Reasons]
      /\ hist \in [Runs -> Seq(Item)] /\ hist[r] \in Seq(Item)
  BY DEF Inv, ControlTypeOK, LogInv, DataInv, DataTypeOK
<1>a. \A it \in {AssistantItem(r), TurnItem(r), ResultItem(r)} : MsgsIn(Append(hist[r], it)) = MsgsIn(hist[r])
  <2>0. AssistantItem(r).msg = NoMsg /\ TurnItem(r).msg = NoMsg /\ ResultItem(r).msg = NoMsg
    BY DEF AssistantItem, TurnItem, ResultItem
  <2>1. \A it \in {AssistantItem(r), TurnItem(r), ResultItem(r)} : it \in Item /\ it.msg = NoMsg
    BY <2>0, ItemsAre
  <2> QED
    BY <1>t, <2>1, MsgsInAppended
<1>1. CASE NoModel(r) \/ Open(r) \/ OpenCompact(r) \/ DrainTake(r) \/ DrainMove(r) \/ Drained(r) \/ Check(r)
  BY <1>1, <1>t DEF NoModel, Open, OpenCompact, DrainTake, DrainMove, Drained, Check
<1>2. CASE CompactAnchor(r) \/ CompactFailed(r) \/ Fold(r) \/ StreamFailed(r) \/ Overflow(r) \/ Erred(r)
  BY <1>2, <1>t DEF CompactAnchor, CompactFailed, Fold, StreamFailed, Overflow, Erred
<1>3. CASE CompactDone(r)
  <2>1. why[r] \in {"manual", "auto", "overflow"}
    BY <1>3, <1>t DEF CompactDone, Inv, Stages, Reasons
  <2> QED
    BY <1>3, <1>t, <2>1 DEF CompactDone, AfterSummary
<1>4. CASE TurnOpen(r) \/ Commit(r) \/ Reply(r)
  BY <1>4, <1>t DEF TurnOpen, Commit, Reply
<1>5. CASE Close(r)
  BY <1>5, <1>a, <1>t DEF Close
<1>6. CASE ToolTurn(r) \/ ToolTalks(r) \/ ToolAsks(r)
  BY <1>6, <1>a, <1>t DEF ToolTurn, ToolTalks, ToolAsks
<1>7. CASE ToolReturn(r) \/ TurnEnd(r)
  BY <1>7, <1>a, <1>t DEF ToolReturn, TurnEnd
<1>8. CASE SayStopped(r) \/ SetStatus(r) \/ Untrack(r) \/ EmitDone(r) \/ Exit(r)
  BY <1>8, <1>t DEF SayStopped, SetStatus, Untrack, EmitDone, Exit
<1> QED
  BY <1>1, <1>2, <1>3, <1>4, <1>5, <1>6, <1>7, <1>8 DEF Work

(* A run ends "done" after a last look at an empty inbox, which it closes. *)
LEMMA WorkDone ==
  ASSUME Inv, LogInv, Unasked, NEW r \in Runs, Work(r), verdict'[r] = "done", verdict[r] # "done"
  PROVE  /\ pc[r] \in Answering /\ inbox[r] = << >> /\ UNCHANGED <<inbox, taken, seen, log>>
         /\ r \in closed' /\ r \notin live' /\ pc'[r] \in Finishing
<1> USE DEF dbVars, appVars, runVars, histVars, Goto, Finish, CloseInbox, Answering, Finishing
<1>t. pc \in [Runs -> PCs] /\ verdict \in [Runs -> Verdicts]
  BY DEF Inv, ControlTypeOK
<1>1. CASE NoModel(r) \/ Open(r) \/ OpenCompact(r) \/ DrainTake(r) \/ DrainMove(r) \/ Drained(r) \/ Check(r)
  BY <1>1, <1>t DEF NoModel, Open, OpenCompact, DrainTake, DrainMove, Drained, Check
<1>2. CASE CompactAnchor(r) \/ CompactDone(r) \/ CompactFailed(r) \/ StreamFailed(r) \/ Overflow(r) \/ Erred(r)
  BY <1>2, <1>t DEF CompactAnchor, CompactDone, CompactFailed, StreamFailed, Overflow, Erred
<1>3. CASE Fold(r)
  BY <1>3 DEF Fold, Unasked
<1>4. CASE TurnOpen(r) \/ Commit(r) \/ Reply(r) \/ ToolTurn(r) \/ ToolTalks(r) \/ ToolAsks(r) \/ ToolReturn(r)
  BY <1>4, <1>t DEF TurnOpen, Commit, Reply, ToolTurn, ToolTalks, ToolAsks, ToolReturn
<1>5. CASE Close(r)
  BY <1>5, <1>t DEF Close
<1>6. CASE TurnEnd(r)
  BY <1>6, <1>t DEF TurnEnd
<1>7. CASE SayStopped(r) \/ SetStatus(r) \/ Untrack(r) \/ EmitDone(r) \/ Exit(r)
  BY <1>7, <1>t DEF SayStopped, SetStatus, Untrack, EmitDone, Exit
<1> QED
  BY <1>1, <1>2, <1>3, <1>4, <1>5, <1>6, <1>7 DEF Work

(* A run that is finishing goes on finishing, out of reach of the requests. *)
LEMMA WorkFinishes ==
  ASSUME Inv, NEW r \in Runs, Work(r), pc[r] \in Finishing
  PROVE  /\ pc'[r] \in Finishing /\ UNCHANGED <<verdict, closed, seen>>
         /\ r \in live' => r \in live
<1> USE DEF dbVars, appVars, runVars, histVars, Goto, Finish, CloseInbox, Finishing
<1>t. pc \in [Runs -> PCs]
  BY DEF Inv, ControlTypeOK
<1>1. CASE NoModel(r) \/ Open(r) \/ OpenCompact(r) \/ DrainTake(r) \/ DrainMove(r) \/ Drained(r) \/ Check(r)
  BY <1>1 DEF NoModel, Open, OpenCompact, DrainTake, DrainMove, Drained, Check
<1>2. CASE CompactAnchor(r) \/ CompactDone(r) \/ CompactFailed(r) \/ Fold(r) \/ TurnOpen(r) \/ Commit(r) \/ Reply(r)
  BY <1>2 DEF CompactAnchor, CompactDone, CompactFailed, Fold, TurnOpen, Commit, Reply
<1>3. CASE StreamFailed(r) \/ Overflow(r) \/ Erred(r) \/ Close(r) \/ ToolTurn(r) \/ ToolTalks(r) \/ ToolAsks(r)
  BY <1>3 DEF StreamFailed, Overflow, Erred, Close, ToolTurn, ToolTalks, ToolAsks
<1>4. CASE ToolReturn(r) \/ TurnEnd(r) \/ SayStopped(r)
  BY <1>4 DEF ToolReturn, TurnEnd, SayStopped
<1>5. CASE SetStatus(r) \/ Untrack(r) \/ EmitDone(r) \/ Exit(r)
  BY <1>5, <1>t DEF SetStatus, Untrack, EmitDone, Exit
<1> QED
  BY <1>1, <1>2, <1>3, <1>4, <1>5 DEF Work

(* The run that a message is pushed to was found live under the same lock. *)
LEMMA FindComes ==
  ASSUME Inv, [Next]_vars, conv'.step \in {"find", "push"}
  PROVE  \/ conv.step \in {"find", "push"} /\ conv'.run = conv.run
         \/ conv'.run \in live
<1> USE DEF dbVars, appVars, runVars, histVars
<1>t. conv = [step |-> conv.step, by |-> conv.by, op |-> conv.op, chat |-> conv.chat,
              msg |-> conv.msg, old |-> conv.old, run |-> conv.run,
              wait |-> conv.wait, snap |-> conv.snap]
  BY DEF Inv, ControlTypeOK, HolderType
<1>r. ~Release
  BY DEF Release, Free
<1>n. ~Restart
  BY DEF Restart, Free
<1>1. CASE Request
  <2>0. \A op, c, m, old, snap : ~Cut(op, c, m, old, snap)
    BY DEF Cut, Asked
  <2>1. ASSUME NEW c \in Chats, \/ \E op \in {"chat", "idle"} : Send(c, op)
                               \/ CompactChat(c) \/ Edit(c) \/ Delete(c)
                               \/ \E op \in {"wipe", "wipePart"} : Wipe(c, op)
        PROVE  FALSE
    BY <2>0, <2>1 DEF Send, CompactChat, Edit, Delete, Wipe, Asked
  <2>2. ASSUME NEW c \in Chats, Stop(c) \/ \E r \in Runs : Clear(c, r) PROVE conv' = conv
    BY <2>2 DEF Stop, Clear
  <2>3. ASSUME NEW r \in Runs, TimeOut(r) PROVE conv' = conv
    BY <2>3 DEF TimeOut
  <2> QED
    BY <1>1, <2>1, <2>2, <2>3 DEF Request
<1>2. CASE Holder
  <2>1. CASE Look
    BY <1>t, <1>r, <2>1 DEF Look, Live
  <2>2. CASE InjectFind \/ InjectPush \/ InjectRefused \/ Recheck
    BY <1>t, <1>r, <2>2 DEF InjectFind, InjectPush, InjectRefused, Recheck
  <2>3. CASE StartRefused \/ StartTrack \/ CutCancel \/ CutRows \/ CutWaited \/ CutDeadline
    BY <1>t, <1>r, <2>3 DEF StartRefused, StartTrack, CutCancel, CutRows, CutWaited, CutDeadline, Free
  <2>4. CASE Truncate \/ \E r \in Runs : WipeDelete(r)
    BY <2>4 DEF Truncate, WipeDelete, Free, Asked
  <2>5. ASSUME NEW r \in Runs, StartCreate(r) PROVE FALSE
    BY <1>t, <2>5 DEF StartCreate
  <2> QED
    BY <1>2, <2>1, <2>2, <2>3, <2>4, <2>5 DEF Holder
<1>3. ASSUME NEW r \in Runs, Work(r) PROVE conv' = conv
  BY <1>3, WorkLeaves
<1>4. ASSUME NEW r \in Runs, ToolLocks(r) PROVE conv' = conv
  BY <1>4 DEF ToolLocks, ToolSendsNothing, ToolSend, Asked
<1>5. ASSUME NEW c \in Chats, StopRows(c) PROVE conv' = conv
  BY <1>5 DEF StopRows
<1>6. CASE UNCHANGED vars
  BY <1>6 DEF vars
<1> QED
  BY <1>1, <1>2, <1>3, <1>4, <1>5, <1>6, <1>n DEF Next

(* A run that opens reads every message it has been handed: nothing that is *)
(* read behind them is of a later run, and its own log has only messages.   *)
LEMMA OpenReads ==
  ASSUME Inv, Outcome, LogInv, PlaceInv, Unasked, Unasked', Worded, Unopened, [Next]_vars,
         NEW r \in Runs, Open(r), r \notin cancelled
  PROVE  MessagesOf(r)' \subseteq MsgsIn(hist'[r])
<1> DEFINE c == req[r].chat
<1>1. LogInv' /\ Worded'
  BY LogInvKept, WordedKept
<1>2. /\ LogTyped /\ OfChat /\ req[r].msg \in Msgs \cup {NoMsg} /\ row[r] # "none"
      /\ pc[r] = "begin" /\ UNCHANGED <<row, req>> /\ Work(r) /\ c \in Chats
      /\ hist \in [Runs -> Seq(Item)]
  <2>1. pc[r] = "begin" /\ UNCHANGED <<row, req>> /\ Work(r)
    BY DEF Open, Work
  <2>2. row[r] # "none"
    BY <2>1 DEF Outcome, Rowless
  <2>3. req[r].msg \in Msgs \cup {NoMsg}
    BY DEF Inv, ControlTypeOK, RequestType
  <2>4. LogTyped /\ OfChat /\ hist \in [Runs -> Seq(Item)]
    BY DEF LogInv, DataInv, DataTypeOK, LogTyped
  <2> QED
    BY <2>1, <2>2, <2>3, <2>4 DEF OfChat
<1>3. PICK t \in Seq(Event) : /\ log' = [log EXCEPT ![c] = t]
                              /\ hist' = [hist EXCEPT ![r] = Replay(Ordered(t))]
  BY <1>2, OpenTyped
<1> DEFINE evs == Ordered(t)
<1>4. log'[c] = t /\ hist'[r] = Replay(evs)
  BY <1>2, <1>3 DEF LogTyped
<1>5. /\ evs \in Seq(Event) /\ ToSet(evs) = ToSet(t)
      /\ \E h : RunByRun(evs, t, h, DOMAIN t)
  BY OrderedIs
<1> HIDE DEF evs
<1>6. r \in live /\ Youngest(r)
  BY <1>2 DEF PlaceInv, Unstopped, Newest, AtWork, Finishing
<1>7. \A e \in ToSet(t) : e \in EventsNow' /\ row[e.run] # "none" /\ req[e.run].chat = c /\ e.run \in Runs
  <2>1. \A e \in ToSet(t) : e \in EventsNow'
    BY <1>2, <1>4 DEF EventsNow
  <2>2. \A e \in ToSet(t) : row'[e.run] # "none" /\ req'[e.run].chat = c
    BY <1>1, <1>2, <1>4 DEF LogInv, LogRuns
  <2>3. \A e \in ToSet(t) : e.run \in Runs
    BY <2>1, NewMessages, EventHas
  <2> QED
    BY <1>2, <2>1, <2>2, <2>3
<1>8. \A e \in ToSet(t) : e.run = r => e.kind \in {"user", "error"}
  <2> SUFFICES ASSUME NEW e \in ToSet(t), e.run = r PROVE e.kind \in {"user", "error"}
    OBVIOUS
  <2>1. e \in EventsNow \/ By(e)
    BY <1>7, NewMessages
  <2>2. CASE e \in EventsNow
    BY <1>2, <2>2 DEF Unopened
  <2>3. CASE By(e)
    <3>1. Speaks("begin") = {"error"}
      BY DEF Speaks
    <3>2. ~Restart
      <4>1. pc'[r] = "drain"
        BY <1>2 DEF Open, Goto, Inv, ControlTypeOK
      <4> QED
        BY <1>2, <4>1 DEF Restart
    <3> QED
      BY <1>2, <2>3, <3>1, <3>2 DEF By
  <2> QED
    BY <2>1, <2>2, <2>3
<1>9. PICK h : Tells(Replay(evs), evs, h, StillRead(evs))
  BY <1>5, ReplayIs
<1> SUFFICES ASSUME NEW m \in MessagesOf(r)' PROVE m \in MsgsIn(hist'[r])
  OBVIOUS
<1>10. PICK e \in EventsNow' : e.run = r /\ e.kind = "user" /\ e.msg = m
  BY DEF MessagesOf
<1>11. e \in ToSet(t) /\ m # NoMsg
  <2>1. PICK d \in Chats : e \in ToSet(log'[d])
    BY DEF EventsNow
  <2>2. d = c
    BY <1>1, <1>2, <1>10, <2>1 DEF LogInv, LogRuns
  <2> QED
    BY <1>1, <1>4, <2>1, <2>2 DEF Worded
<1>12. PICK p \in DOMAIN evs : evs[p] = e
  BY <1>5, <1>11 DEF ToSet
<1>13. p \in StillRead(evs)
  <2>1. p \in MsgsAt(evs)
    BY <1>10, <1>11, <1>12 DEF MsgsAt
  <2>2. ASSUME NEW j \in DOMAIN evs, j > p PROVE evs[j].kind \in {"user", "error"}
    <3>0. evs[j] \in ToSet(t)
      BY <1>5 DEF ToSet
    <3>1. evs[j] \in ToSet(t) /\ j \in Nat /\ p \in Nat
      BY <1>5, <3>0
    <3>2. evs[j].run \in Runs /\ (evs[j].run = r \/ r < evs[j].run)
      <4>1. p < j
        BY <2>2, <3>1
      <4>2. evs[p].run < evs[j].run \/ evs[p].run = evs[j].run
        BY <1>5, <4>1 DEF RunByRun
      <4> QED
        BY <1>7, <1>10, <1>12, <3>1, <4>2
    <3>3. evs[j].run = r
      BY <1>6, <1>7, <3>1, <3>2 DEF Youngest
    <3> QED
      BY <1>8, <3>1, <3>3
  <2> QED
    BY <2>1, <2>2 DEF StillRead
<1>14. PICK i \in Told(Replay(evs)) : h[i] = p
  BY <1>9, <1>13 DEF Tells
<1>15. Replay(evs)[i].msg = m
  BY <1>9, <1>10, <1>12, <1>14 DEF Tells
<1> QED
  BY <1>4, <1>11, <1>14, <1>15 DEF Told, MsgsIn

(* What is known where a run answers: every message it was handed waits for *)
(* it, is in its history or has been read; while a model answers, all of the *)
(* history has been.                                                        *)
Reads ==
  \A r \in Runs :
    /\ pc[r] \in Reading \/ (pc[r] \in Draining /\ r \notin cancelled) => Covered(r)
    /\ pc[r] \in Answering => MsgsIn(hist[r]) \subseteq seen

(* What is known once a run is done. *)
Final ==
  \A r \in Runs : verdict[r] = "done" =>
    /\ pc[r] \in Finishing /\ r \notin live /\ MessagesOf(r) \subseteq seen
    /\ conv.step \in {"find", "push"} /\ conv.run = r => r \in closed

ReadInv == Unasked /\ Worded /\ TakenOnMove /\ Unopened /\ Reads /\ Final

(* In the initial state no message has been handed to a run. *)
LEMMA ReadInit == Init => ReadInv
<1> SUFFICES ASSUME Init PROVE ReadInv
  OBVIOUS
<1>1. /\ \A r \in Runs : pc[r] = "none" /\ row[r] = "none" /\ verdict[r] = "none" /\ why[r] = "none"
                         /\ req[r] = NoRequest /\ taken[r] = << >>
      /\ conv = Free /\ log = [c \in Chats |-> << >>]
  BY DEF Init
<1>2. EventsNow = {}
  BY <1>1 DEF EventsNow, ToSet
<1>3. Unasked /\ TakenOnMove
  BY <1>1 DEF Unasked, TakenOnMove, Free, NoRequest
<1>4. Worded /\ Unopened
  BY <1>1, <1>2 DEF Worded, Unopened, MessagesOf, Free
<1>5. Reads /\ Final
  BY <1>1 DEF Reads, Final, Reading, Draining, Answering
<1> QED
  BY <1>3, <1>4, <1>5 DEF ReadInv

(* A message pushed to a run waits in its inbox. *)
LEMMA PushIs ==
  ASSUME Inv, InjectPush
  PROVE  /\ conv.run \in Runs /\ conv.msg \in Msgs /\ conv.run \notin closed /\ conv.step = "push"
         /\ inbox'[conv.run] = Append(inbox[conv.run], conv.msg)
         /\ ToSet(inbox'[conv.run]) = ToSet(inbox[conv.run]) \cup {conv.msg}
<1>1. /\ conv.run \in Runs /\ conv.msg \in Msgs /\ conv.run \notin closed /\ conv.step = "push"
      /\ inbox \in [Runs -> Seq(Msgs)]
  BY DEF Inv, ControlTypeOK, Lock, InjectPush, Room
<1>2. inbox'[conv.run] = Append(inbox[conv.run], conv.msg) /\ inbox[conv.run] \in Seq(Msgs)
  BY <1>1 DEF InjectPush
<1> DEFINE q == inbox[conv.run]
<1>3. \A x \in Msgs : ToSet(Append(q, x)) = ToSet(q) \cup {x}
  <2> HIDE DEF q
  <2>1. q \in Seq(Msgs)
    BY <1>2 DEF q
  <2> QED
    BY <2>1, ElementsOf
<1> QED
  BY <1>1, <1>2, <1>3

(* A run that neither opens nor is handed a message has no more of them.   *)
LEMMA SameMessages ==
  ASSUME Inv, Outcome, LogInv, PlaceInv, [Next]_vars, NEW r \in Runs
  PROVE  /\ pc'[r] = pc[r] /\ ~InjectPush => MessagesOf(r)' \subseteq MessagesOf(r)
         /\ (\E q \in Runs : Work(q)) \/ Restart => ~InjectPush
         /\ pc[r] # "begin" /\ ~InjectPush => MessagesOf(r)' \subseteq MessagesOf(r)
<1>1. Open(r) => pc[r] = "begin" /\ pc'[r] = "drain"
  BY DEF Open, Goto, Inv, ControlTypeOK
<1>2. InjectPush => conv.step = "push" /\ conv' = Free /\ ~Restart
  <2>1. ASSUME InjectPush, Restart PROVE FALSE
    <3>1. conv.run \in Runs /\ conv.msg \in ToSet(inbox'[conv.run])
      BY <2>1, PushIs
    <3>2. inbox'[conv.run] = << >>
      BY <2>1, <3>1 DEF Restart
    <3> QED
      BY <3>1, <3>2 DEF ToSet
  <2> QED
    BY <2>1 DEF InjectPush, Release
<1>3. ASSUME NEW q \in Runs, Work(q) PROVE ~InjectPush
  BY <1>2, <1>3, WorkLeaves DEF Free
<1> QED
  BY <1>1, <1>2, <1>3, MessagesOfGrows

(* Every step keeps the knowledge of a run that answers: a message enters  *)
(* the inbox with its event, the opening reads it from the log and a drain *)
(* moves it to the history (inject, settleInbox, drainInbox).              *)
LEMMA ReadsKept ==
  ASSUME Inv, Outcome, LogInv, PlaceInv, ReadInv, Unasked', [Next]_vars
  PROVE  Reads'
<1>t. /\ pc \in [Runs -> PCs] /\ Unasked /\ Worded /\ TakenOnMove /\ Unopened /\ Reads /\ Final
      /\ seen \subseteq Msgs
  BY DEF Inv, ControlTypeOK, ReadInv, LogInv, DataInv, DataTypeOK
<1>1. ASSUME NEW r \in Runs, Work(r) PROVE Reads'
  <2>1. seen \subseteq seen' /\ cancelled' = cancelled /\ ~InjectPush
    BY <1>1, WorkReads, WorkLeaves, SameMessages
  <2>2. ASSUME NEW q \in Runs, q # r
        PROVE  /\ pc'[q] \in Reading \/ (pc'[q] \in Draining /\ q \notin cancelled') => Covered(q)'
               /\ pc'[q] \in Answering => MsgsIn(hist'[q]) \subseteq seen'
    <3>1. pc'[q] = pc[q] /\ inbox'[q] = inbox[q] /\ taken'[q] = taken[q] /\ hist'[q] = hist[q]
      BY <1>1, <2>2, WorkOwnStage, WorkOwnQueue DEF LogInv
    <3>2. MessagesOf(q)' \subseteq MessagesOf(q)
      BY <2>1, <3>1, SameMessages
    <3> QED
      BY <1>t, <2>1, <3>1, <3>2 DEF Reads, Covered, Known, Unread
  <2>3. ASSUME pc'[r] \in Reading \/ (pc'[r] \in Draining /\ r \notin cancelled') PROVE Covered(r)'
    <3>1. CASE Open(r) /\ pc[r] = "begin" /\ pc'[r] = "drain"
      <4>1. r \notin cancelled
        BY <2>1, <2>3, <3>1 DEF Reading
      <4>2. MessagesOf(r)' \subseteq MsgsIn(hist'[r])
        BY <1>t, <3>1, <4>1, OpenReads
      <4> QED
        BY <4>2 DEF Covered, Known
    <3>2. CASE /\ Known(r) \subseteq Known(r)'
               /\ pc[r] \in Reading \cup Draining
               /\ pc'[r] \in Reading /\ pc[r] \in Draining => r \notin cancelled
      <4>1. Covered(r)
        BY <1>t, <2>1, <2>3, <3>2 DEF Reads
      <4>2. MessagesOf(r)' \subseteq MessagesOf(r)
        <5>1. pc[r] # "begin"
          BY <3>2 DEF Reading, Draining
        <5> QED
          BY <2>1, <5>1, SameMessages
      <4> QED
        BY <3>2, <4>1, <4>2 DEF Covered
    <3>3. pc'[r] \in Reading \cup Draining
      BY <2>3
    <3> QED
      BY <1>1, <1>t, <3>1, <3>2, <3>3, WorkKnows
  <2>4. pc'[r] \in Answering => MsgsIn(hist'[r]) \subseteq seen'
    BY <1>1, <1>t, WorkShows DEF Reads
  <2> QED
    BY <2>2, <2>3, <2>4 DEF Reads
<1>2. CASE Restart
  <2>1. \A q \in Runs : pc'[q] \in {"none", "over"}
    BY <1>2 DEF Restart
  <2> QED
    BY <2>1 DEF Reads, Reading, Draining, Answering
<1>3. CASE Standing
  <2> SUFFICES ASSUME NEW q \in Runs
               PROVE  /\ pc'[q] \in Reading \/ (pc'[q] \in Draining /\ q \notin cancelled') => Covered(q)'
                      /\ pc'[q] \in Answering => MsgsIn(hist'[q]) \subseteq seen'
    BY DEF Reads
  <2>1. /\ UNCHANGED <<taken, hist, seen>> /\ cancelled \subseteq cancelled'
        /\ \/ pc'[q] = pc[q]
           \/ pc[q] = "toolWait" /\ pc'[q] = "toolBack"
           \/ pc[q] = "none" /\ pc'[q] = "begin"
        /\ inbox'[q] = inbox[q] \/ (InjectPush /\ q = conv.run)
    BY <1>3 DEF Standing
  <2>2. CASE pc'[q] = "begin"
    BY <2>2 DEF Reading, Draining, Answering
  <2>3. CASE pc'[q] # "begin"
    <3>1. /\ pc'[q] \in Reading \/ (pc'[q] \in Draining /\ q \notin cancelled')
               => pc[q] \in Reading \/ (pc[q] \in Draining /\ q \notin cancelled)
          /\ pc'[q] \in Answering => pc[q] \in Answering
          /\ ~Open(q)
      <4>1. Open(q) => pc[q] = "begin" /\ pc'[q] = "drain"
        BY <1>t DEF Open, Goto
      <4> QED
        BY <2>1, <2>3, <4>1 DEF Reading, Draining, Answering
    <3>2. MessagesOf(q)' \subseteq MessagesOf(q) \cup Unread(q)' /\ Unread(q) \subseteq Unread(q)'
      <4>1. CASE InjectPush /\ q = conv.run
        <5>1. ToSet(inbox'[q]) = ToSet(inbox[q]) \cup {conv.msg}
          BY <4>1, PushIs
        <5>2. MessagesOf(q)' \subseteq MessagesOf(q) \cup {conv.msg}
          BY <3>1, MessagesOfGrows
        <5> QED
          BY <2>1, <5>1, <5>2 DEF Unread
      <4>2. CASE ~(InjectPush /\ q = conv.run)
        <5>1. inbox'[q] = inbox[q] /\ taken' = taken
          BY <2>1, <4>2
        <5>2. MessagesOf(q)' \subseteq MessagesOf(q)
          BY <3>1, <4>2, MessagesOfGrows
        <5> QED
          BY <5>1, <5>2 DEF Unread
      <4> QED
        BY <4>1, <4>2
    <3>3. Covered(q) => Covered(q)'
      BY <2>1, <3>2 DEF Covered, Known
    <3> QED
      BY <1>t, <2>1, <3>1, <3>3 DEF Reads
  <2> QED
    BY <2>2, <2>3
<1> QED
  BY <1>1, <1>2, <1>3, OthersStand

(* Every step keeps it: the run closed an empty inbox, so no message finds *)
(* its way there (closeInbox, inject).                                     *)
LEMMA FinalKept ==
  ASSUME Inv, Outcome, LogInv, PlaceInv, ReadInv, [Next]_vars
  PROVE  Final'
<1>t. /\ pc \in [Runs -> PCs] /\ Unasked /\ TakenOnMove /\ Reads /\ Final
      /\ seen \subseteq Msgs /\ live \subseteq Runs
  BY DEF Inv, ControlTypeOK, ReadInv, LogInv, DataInv, DataTypeOK
<1>1. ASSUME NEW r \in Runs, Work(r) PROVE Final'
  <2>1. seen \subseteq seen' /\ UNCHANGED <<conv, cancelled>> /\ ~InjectPush
    BY <1>1, WorkReads, WorkLeaves, SameMessages
  <2>2. ASSUME NEW q \in Runs, q # r, verdict'[q] = "done"
        PROVE  /\ pc'[q] \in Finishing /\ q \notin live' /\ MessagesOf(q)' \subseteq seen'
               /\ conv'.step \in {"find", "push"} /\ conv'.run = q => q \in closed'
    <3>1. pc'[q] = pc[q] /\ verdict'[q] = verdict[q] /\ (q \in live' <=> q \in live)
          /\ (q \in closed' <=> q \in closed)
      BY <1>1, <2>2, WorkOwnStage, WorkOwnPlace
    <3>2. MessagesOf(q)' \subseteq MessagesOf(q)
      BY <2>1, <3>1, SameMessages
    <3> QED
      BY <1>t, <2>1, <2>2, <3>1, <3>2 DEF Final
  <2>3. ASSUME verdict'[r] = "done"
        PROVE  /\ pc'[r] \in Finishing /\ r \notin live' /\ MessagesOf(r)' \subseteq seen'
               /\ conv'.step \in {"find", "push"} /\ conv'.run = r => r \in closed'
    <3>1. CASE verdict[r] = "done"
      <4>1. pc[r] \in Finishing /\ r \notin live /\ MessagesOf(r) \subseteq seen
            /\ (conv.step \in {"find", "push"} /\ conv.run = r => r \in closed)
        BY <1>t, <3>1 DEF Final
      <4>2. pc'[r] \in Finishing /\ closed' = closed /\ r \notin live'
        BY <1>1, <4>1, WorkFinishes
      <4>3. MessagesOf(r)' \subseteq MessagesOf(r)
        <5>1. pc[r] # "begin"
          BY <4>1 DEF Finishing
        <5> QED
          BY <2>1, <5>1, SameMessages
      <4> QED
        BY <2>1, <4>1, <4>2, <4>3
    <3>2. CASE verdict[r] # "done"
      <4>1. /\ pc[r] \in Answering /\ inbox[r] = << >> /\ log' = log
            /\ r \in closed' /\ r \notin live' /\ pc'[r] \in Finishing
        BY <1>1, <1>t, <2>3, <3>2, WorkDone
      <4>2. taken[r] = << >> /\ pc[r] \in Reading
        BY <1>t, <4>1 DEF TakenOnMove, Answering, Reading
      <4>3. Unread(r) = {}
        BY <4>1, <4>2 DEF Unread, ToSet
      <4>4. MessagesOf(r) \subseteq seen
        BY <1>t, <4>1, <4>2, <4>3 DEF Reads, Covered, Known
      <4>5. MessagesOf(r)' = MessagesOf(r)
        BY <4>1 DEF MessagesOf, EventsNow
      <4> QED
        BY <2>1, <4>1, <4>4, <4>5
    <3> QED
      BY <3>1, <3>2
  <2> QED
    BY <2>2, <2>3 DEF Final
<1>2. CASE Restart
  <2> SUFFICES ASSUME NEW q \in Runs, verdict'[q] = "done"
               PROVE  /\ pc'[q] \in Finishing /\ q \notin live' /\ MessagesOf(q)' \subseteq seen'
                      /\ (conv'.step \in {"find", "push"} /\ conv'.run = q => q \in closed')
    BY DEF Final
  <2>1. ~InjectPush
    BY <1>2, SameMessages
  <2>2. verdict[q] = "done" /\ seen' = seen /\ live' = {} /\ conv' = Free
        /\ (pc[q] # "none" => pc'[q] = "over")
    BY <1>2 DEF Restart
  <2>3. pc[q] \in Finishing /\ MessagesOf(q) \subseteq seen
    BY <1>t, <2>2 DEF Final
  <2>4. MessagesOf(q)' \subseteq MessagesOf(q)
    <3>1. pc[q] # "begin"
      BY <2>3 DEF Finishing
    <3> QED
      BY <2>1, <3>1, SameMessages
  <2> QED
    BY <2>2, <2>3, <2>4 DEF Finishing, Free
<1>3. CASE Standing
  <2> SUFFICES ASSUME NEW q \in Runs, verdict'[q] = "done"
               PROVE  /\ pc'[q] \in Finishing /\ q \notin live' /\ MessagesOf(q)' \subseteq seen'
                      /\ (conv'.step \in {"find", "push"} /\ conv'.run = q => q \in closed')
    BY DEF Final
  <2>1. /\ verdict[q] = "done" /\ seen' = seen /\ closed' = closed
        /\ \/ pc'[q] = pc[q]
           \/ pc[q] = "toolWait" /\ pc'[q] = "toolBack"
           \/ pc[q] = "none" /\ pc'[q] = "begin"
        /\ q \in live' => q \in live \/ (StartTrack /\ q = conv.run)
    BY <1>3 DEF Standing
  <2>2. /\ pc[q] \in Finishing /\ q \notin live /\ MessagesOf(q) \subseteq seen
        /\ conv.step \in {"find", "push"} /\ conv.run = q => q \in closed
    BY <1>t, <2>1 DEF Final
  <2>3. pc'[q] = pc[q] /\ pc[q] # "begin"
    BY <2>1, <2>2 DEF Finishing
  <2>4. q \notin live'
    <3>1. StartTrack /\ q = conv.run => pc[q] = "none"
      BY DEF StartTrack, PlaceInv, Found
    <3> QED
      BY <2>1, <2>2, <3>1 DEF Finishing
  <2>5. ~(InjectPush /\ q = conv.run)
    BY <2>2, PushIs
  <2>6. MessagesOf(q)' \subseteq MessagesOf(q)
    <3>1. ~Open(q)
      BY <2>3 DEF Open
    <3> QED
      BY <2>5, <3>1, MessagesOfGrows
  <2>7. conv'.step \in {"find", "push"} /\ conv'.run = q => q \in closed'
    BY <2>1, <2>2, FindComes
  <2> QED
    BY <2>1, <2>2, <2>3, <2>4, <2>6, <2>7
<1> QED
  BY <1>1, <1>2, <1>3, OthersStand

(* Where nobody asks for a summary every step keeps it. *)
LEMMA ReadHolds == "compact" \notin Features => (Spec => []ReadInv)
<1> SUFFICES ASSUME "compact" \notin Features PROVE Spec => []ReadInv
  OBVIOUS
<1>1. Inv /\ Outcome /\ LogInv /\ PlaceInv /\ ReadInv /\ [Next]_vars => ReadInv'
  <2> SUFFICES ASSUME Inv, Outcome, LogInv, PlaceInv, ReadInv, [Next]_vars PROVE ReadInv'
    OBVIOUS
  <2>1. Unasked'
    BY UnaskedKept DEF ReadInv
  <2> QED
    BY <2>1, WordedKept, TakenOnMoveKept, UnopenedKept, ReadsKept, FinalKept DEF ReadInv
<1> QED
  BY ReadInit, InvHolds, OutcomeHolds, LogInvHolds, PlaceHolds, <1>1, PTL DEF Spec

(* Where nobody asks for a summary, a run that ends "done" has read every   *)
(* message it accepted (closeInbox, settleInbox, drainInbox); what /compact *)
(* folds behind its summary may not be.                                     *)
THEOREM DoneReadAllHolds == "compact" \notin Features => (Spec => []DoneReadAll)
<1> SUFFICES ASSUME "compact" \notin Features PROVE Spec => []DoneReadAll
  OBVIOUS
<1>1. LogInv /\ ReadInv => DoneReadAll
  <2> SUFFICES ASSUME ReadInv, LogInv, NEW r \in Runs, verdict[r] = "done",
                      NEW c \in Chats, NEW i \in DOMAIN log[c], log[c][i].run = r, log[c][i].kind = "user"
               PROVE  log[c][i].msg \in seen
    BY DEF DoneReadAll
  <2>1. log[c][i] \in EventsNow
    BY DEF EventsNow, ToSet
  <2>2. log[c][i].msg \in MessagesOf(r)
    BY <2>1 DEF MessagesOf
  <2> QED
    BY <2>2 DEF ReadInv, Final
<1> QED
  BY ReadHolds, LogInvHolds, <1>1, PTL
=============================================================================

--------------------------- MODULE SubagentsProofs ---------------------------
(***************************************************************************)
(* Subagents for any number of subagents, runs, tool calls and upsets: the *)
(* types, one live run of the lead, no lost nudge of a sleeping lead, a    *)
(* wake that is owed for every unread result, no result that two wakes     *)
(* tell, and somebody behind every row that says running.                  *)
(***************************************************************************)
EXTENDS Subagents, TLAPS

(* Nobody starts a run of the lead while wakeLead is between its look and its start. *)
WakerAlone == waker.at # "idle" => ~LeadLive

(* Only a run that is live or was cut is in a call. *)
CallsRun == \A l \in Leads : lead[l] \in {"none", "closing", "ended"} => call[l] = Rest

(* A run that reports knows how it ended. *)
EndKnown == \A r \in Runs : work[r].at \in {"ended", "read", "posting"} => work[r].st \in {"done", "stopped"}

Control == CallsRun /\ OneLead /\ WakerAlone
Inv == TypeOK /\ EndKnown /\ Control /\ WakeIsOwed /\ NoLostWakeup

-----------------------------------------------------------------------------
LEMMA Bounds == /\ Leads \subseteq Nat /\ Runs \subseteq Nat /\ Subs \subseteq Nat
                /\ None \notin Leads /\ None \notin Runs /\ None \notin Subs
                /\ NCalls \in Nat /\ MaxDue \in Nat /\ MaxUpsets \in Nat
  BY BoundsAssumption DEF Leads, Runs, Subs, None

(* Types. *)

RowType == row \in [Subs -> [status : Statuses, reported : BOOLEAN, result : Runs \union {None}]]
WorkType == work \in [Runs -> [at : {"none", "live", "closing", "cut", "ended", "read", "posting",
                              "posted", "nudged", "over"},
                        st : {"", "done", "stopped"}, of : Subs \union {None}]]
LeadType == lead \in [Leads -> {"none", "live", "closing", "cut", "ended"}]
CallType == call \in [Leads -> [op : {"none", "spawn", "message", "stop", "detail", "sleep"},
                         of : Subs \union {None},
                         at : {"", "ask", "start", "resume", "quiet", "cut", "mark", "look", "asleep"},
                         saw : Runs \union {None}]]
WakeType == /\ wake \in [Leads -> BOOLEAN]
            /\ timer \in BOOLEAN /\ due \in 0..MaxDue
            /\ waker \in [at : {"idle", "mark", "start"}, chosen : SUBSET Subs, news : SUBSET Runs]
HandType == /\ hand \in [op : {"none", "stop", "delete", "bot"}, todo : SUBSET Subs,
                         at : {"idle", "list", "next", "quiet", "cut", "drop", "all"},
                         of : Subs \union {None}]
            /\ chat \in BOOLEAN
RestType == /\ opened \subseteq Runs /\ lapse \in BOOLEAN /\ failed \subseteq Subs \union {None}
            /\ shown \subseteq Runs /\ passed \subseteq Runs
            /\ calls \in 0..NCalls /\ upsets \in 0..MaxUpsets

LEMMA TypeParts == TypeOK <=> /\ RowType /\ WorkType /\ LeadType /\ CallType
                              /\ WakeType /\ HandType /\ RestType
  BY DEF TypeOK, RowType, WorkType, LeadType, CallType, WakeType, HandType, RestType

LEMMA InvInit == Init => Inv
<1> SUFFICES ASSUME Init PROVE Inv
  OBVIOUS
<1> USE DEF Init
<1>1. TypeOK
  <2>1. RowType /\ WorkType /\ LeadType /\ CallType
    BY DEF RowType, WorkType, LeadType, CallType, NoRow, Rest, Statuses
  <2>2. due \in 0..MaxDue /\ calls \in 0..NCalls /\ upsets \in 0..MaxUpsets
    <3>1. due = 0 /\ calls = 0 /\ upsets = 0
      OBVIOUS
    <3> HIDE DEF Init
    <3> QED
      BY <3>1, Bounds
  <2>3. wake \in [Leads -> BOOLEAN] /\ timer \in BOOLEAN /\ chat \in BOOLEAN /\ lapse \in BOOLEAN
    OBVIOUS
  <2>4. waker \in [at : {"idle", "mark", "start"}, chosen : SUBSET Subs, news : SUBSET Runs]
    BY DEF Awake
  <2>5. /\ hand \in [op : {"none", "stop", "delete", "bot"}, todo : SUBSET Subs,
                    at : {"idle", "list", "next", "quiet", "cut", "drop", "all"},
                    of : Subs \union {None}]
    BY DEF Still
  <2>6. /\ opened \subseteq Runs /\ failed \subseteq Subs \union {None}
        /\ shown \subseteq Runs /\ passed \subseteq Runs
    OBVIOUS
  <2>7. WakeType /\ HandType /\ RestType
    BY <2>2, <2>3, <2>4, <2>5, <2>6 DEF WakeType, HandType, RestType
  <2> QED
    BY <2>1, <2>7, TypeParts
<1>2. EndKnown
  BY DEF EndKnown
<1>3. CallsRun /\ OneLead /\ WakerAlone
  BY DEF CallsRun, OneLead, WakerAlone, Tracked, LeadLive, Awake
<1>4. Unread = {}
  BY DEF Unread, Known, NoRow
<1> QED
  BY <1>1, <1>2, <1>3, <1>4 DEF Inv, Control, WakeIsOwed, NoLostWakeup

-----------------------------------------------------------------------------
(* The helpers keep the type of what they change. *)
LEMMA QuietType == ASSUME RowType, NEW st \in Statuses, NEW W, Quiet(st, W) PROVE RowType'
  BY DEF RowType, Quiet
LEMMA ReportedType == ASSUME RowType, NEW W, NEW b \in BOOLEAN, Reported(W, b) PROVE RowType'
  BY DEF RowType, Reported
LEMMA CutType == ASSUME WorkType, EndKnown, NEW W, CutSubs(W) PROVE WorkType' /\ EndKnown'
  BY ZenonT(60) DEF WorkType, EndKnown, CutSubs, Cut
LEMMA DoesType ==
  ASSUME CallType, NEW l \in Leads, NEW op \in {"none", "spawn", "message", "stop", "detail", "sleep"},
         NEW s \in Subs \union {None},
         NEW at \in {"", "ask", "start", "resume", "quiet", "cut", "mark", "look", "asleep"},
         Does(l, op, s, at)
  PROVE  CallType'
  BY DEF CallType, Does
LEMMA GoesType ==
  ASSUME CallType, NEW l \in Leads,
         NEW at \in {"", "ask", "start", "resume", "quiet", "cut", "mark", "look", "asleep"},
         Goes(l, at)
  PROVE  CallType'
  BY DEF CallType, Goes
LEMMA DoneType == ASSUME CallType, NEW l \in Leads, Done(l) PROVE CallType'
  BY DEF CallType, Done, Rest
LEMMA UpsetType == ASSUME upsets \in 0..MaxUpsets, Upset PROVE upsets' \in 0..MaxUpsets
  BY Bounds DEF Upset
LEMMA StartRunType ==
  ASSUME WorkType, EndKnown, RestType, NEW s \in Subs \union {None}, StartRun(s)
  PROVE  WorkType' /\ EndKnown' /\ failed' \subseteq Subs \union {None} /\ upsets' \in 0..MaxUpsets
<1>1. CASE \E r \in Runs : NextRun(r) /\ Started(s, r)
  <2> PICK r \in Runs : Started(s, r)
    BY <1>1
  <2>1. WorkType' /\ EndKnown'
    BY DEF WorkType, EndKnown, Started
  <2> QED
    BY <2>1, UpsetType DEF RestType, StartRun
<1>2. CASE UNCHANGED work
  <2>1. WorkType' /\ EndKnown'
    BY <1>2 DEF WorkType, EndKnown
  <2> QED
    BY <2>1, UpsetType DEF RestType, StartRun
<1> QED
  BY <1>1, <1>2 DEF StartRun

(* A result a row carries is a run's. *)
LEMMA NewsType == ASSUME RowType, NEW W PROVE News(W) \subseteq Runs
  BY DEF RowType, News, Unread, Known
LEMMA PassesType == ASSUME RestType, NEW R, R \subseteq Runs, Passes(R) PROVE passed' \subseteq Runs
  BY DEF RestType, Passes

CallAts == {"", "ask", "start", "resume", "quiet", "cut", "mark", "look", "asleep"}

(* A step of a lead run. *)
LEMMA LeadTypes == ASSUME TypeOK, EndKnown, NEW l \in Leads, LeadWork(l) \/ LeadCalls(l) \/ LeadCloses(l)
                   PROVE  TypeOK' /\ EndKnown'
<1> USE DEF pending, rare, but, upset, bounds
<1>t. /\ RowType /\ WorkType /\ LeadType /\ CallType /\ WakeType /\ HandType /\ RestType
  BY TypeParts
<1>s. call[l].of \in Subs \union {None} /\ call[l].saw \in Runs \union {None}
  BY <1>t DEF CallType
<1> SUFFICES /\ RowType' /\ WorkType' /\ LeadType' /\ CallType' /\ WakeType' /\ HandType' /\ RestType'
             /\ EndKnown'
  BY DEF TypeOK, RowType, WorkType, LeadType, CallType, WakeType, HandType, RestType
<1> USE Bounds
<1>same. ASSUME UNCHANGED <<row, work, lead, pending, hand, opened, lapse, failed, chat, shown, passed>>,
                wake' \in [Leads -> BOOLEAN], CallType',
                calls' \in 0..NCalls, upsets' \in 0..MaxUpsets
         PROVE  /\ RowType' /\ WorkType' /\ LeadType' /\ CallType' /\ WakeType' /\ HandType' /\ RestType'
                /\ EndKnown'
  <2>1. RowType' /\ WorkType' /\ LeadType' /\ EndKnown'
    BY <1>same, <1>t DEF RowType, WorkType, LeadType, EndKnown
  <2>2. WakeType' /\ HandType'
    BY <1>same, <1>t DEF WakeType, HandType
  <2>3. RestType'
    BY <1>same, <1>t DEF RestType
  <2> QED
    BY <1>same, <2>1, <2>2, <2>3
<1>w. wake \in [Leads -> BOOLEAN] /\ calls \in 0..NCalls /\ upsets \in 0..MaxUpsets
  BY <1>t DEF WakeType, RestType
<1>c. CanCall(l) => calls' \in 0..NCalls
  BY <1>w DEF CanCall, Counted
<1>1. CASE Spawn(l)
  <2>1. CallType'
    BY <1>1, <1>t, DoesType DEF Spawn
  <2> QED
    BY <1>1, <2>1, <1>c, <1>w, <1>same DEF Spawn
<1>2. ASSUME NEW op \in {"message", "stop"}, Find(l, op)
      PROVE  /\ RowType' /\ WorkType' /\ LeadType' /\ CallType' /\ WakeType' /\ HandType' /\ RestType'
             /\ EndKnown'
  <2>1. CallType'
    BY <1>2, <1>t, DoesType DEF Find, Known
  <2> QED
    BY <1>2, <2>1, <1>c, <1>w, <1>same DEF Find
<1>3. CASE Refused(l)
  <2>1. CallType'
    BY <1>3, <1>t, DoneType DEF Refused
  <2> QED
    BY <1>3, <2>1, <1>w, <1>same DEF Refused
<1>4. CASE SpawnRow(l)
  <2> PICK s \in Subs : /\ row' = [row EXCEPT ![s] = [status |-> "running", reported |-> TRUE, result |-> None]]
                        /\ Does(l, "spawn", s, "start")
    BY <1>4 DEF SpawnRow
  <2>1. RowType'
    BY <1>t DEF RowType, Statuses
  <2>2. CallType'
    BY <1>t, DoesType
  <2> QED
    BY ZenonT(60), <1>4, <2>1, <2>2, <1>t DEF SpawnRow, WorkType, LeadType, WakeType, HandType, RestType, EndKnown
<1>5. CASE SpawnStart(l)
  <2>1. WorkType' /\ EndKnown' /\ failed' \subseteq Subs \union {None} /\ upsets' \in 0..MaxUpsets
    BY <1>5, <1>t, <1>s, StartRunType DEF SpawnStart
  <2>2. CallType'
    BY <1>5, <1>t, DoneType DEF SpawnStart
  <2> QED
    BY <1>5, <2>1, <2>2, <1>t DEF SpawnStart, RowType, LeadType, WakeType, HandType, RestType
<1>6. CASE Message(l)
  <2>1. RowType'
    BY <1>6, <1>t DEF Message, RowType, Statuses
  <2>2. CallType'
    BY <1>6, <1>t, DoneType, GoesType DEF Message
  <2>3. passed' \subseteq Runs
    BY <1>6, <1>t, NewsType, PassesType DEF Message
  <2> QED
    BY ZenonT(60), <1>6, <2>1, <2>2, <2>3, <1>t DEF Message, WorkType, LeadType, WakeType, HandType, RestType, EndKnown
<1>7. CASE MessageStart(l)
  <2>1. WorkType' /\ EndKnown' /\ failed' \subseteq Subs \union {None} /\ upsets' \in 0..MaxUpsets
    BY <1>7, <1>t, <1>s, StartRunType DEF MessageStart
  <2>2. CallType'
    BY <1>7, <1>t, DoneType DEF MessageStart
  <2> QED
    BY <1>7, <2>1, <2>2, <1>t DEF MessageStart, RowType, LeadType, WakeType, HandType, RestType
<1>8. CASE StopAgent(l)
  <2>1. CallType'
    BY <1>8, <1>t, DoneType, GoesType DEF StopAgent
  <2> QED
    BY <1>8, <2>1, <1>w, <1>same DEF StopAgent
<1>9. CASE StopAgentQuiet(l)
  <2>1. RowType'
    BY <1>9, <1>t, QuietType DEF StopAgentQuiet, Statuses
  <2>2. CallType'
    BY <1>9, <1>t, GoesType DEF StopAgentQuiet
  <2> QED
    BY ZenonT(60), <1>9, <2>1, <2>2, <1>t DEF StopAgentQuiet, WorkType, LeadType, WakeType, HandType, RestType, EndKnown
<1>10. CASE StopAgentCut(l)
  <2>1. WorkType' /\ EndKnown'
    BY <1>10, <1>t, CutType DEF StopAgentCut
  <2>2. CallType'
    BY <1>10, <1>t, DoneType DEF StopAgentCut
  <2> QED
    BY <1>10, <2>1, <2>2, <1>t DEF StopAgentCut, RowType, LeadType, WakeType, HandType, RestType
<1>11. CASE DetailRead(l)
  <2>1. CallType'
    <3> PICK s \in Subs : call' = [call EXCEPT ![l] = [op |-> "detail", of |-> s, at |-> "mark",
                                                      saw |-> row[s].result]]
      BY <1>11 DEF DetailRead, Known
    <3>1. row[s].result \in Runs \union {None}
      BY <1>t DEF RowType
    <3> QED
      BY <3>1, <1>t DEF CallType
  <2> QED
    BY <1>11, <2>1, <1>c, <1>w, <1>same DEF DetailRead
<1>12. CASE DetailMark(l)
  <2>1. RowType'
    <3>1. row' = row \/ row' = [row EXCEPT ![call[l].of].reported = TRUE]
      BY <1>12 DEF DetailMark
    <3> QED
      BY ZenonT(60), <3>1, <1>t DEF RowType
  <2>2. CallType'
    BY <1>12, <1>t, DoneType DEF DetailMark
  <2>3. shown' \subseteq Runs /\ passed' \subseteq Runs
    <3> DEFINE gives == IF lead[l] = "live" THEN {call[l].saw} \ {None} ELSE {}
    <3>1. gives \subseteq Runs /\ News({call[l].of}) \ gives \subseteq Runs
      BY <1>s, <1>t, NewsType
    <3>2. /\ shown' = shown \/ shown' = shown \union gives
          /\ passed' = passed \/ Passes(News({call[l].of}) \ gives)
      BY <1>12 DEF DetailMark
    <3> HIDE DEF gives
    <3> QED
      BY <3>1, <3>2, <1>t, PassesType DEF RestType
  <2> QED
    BY ZenonT(60), <1>12, <2>1, <2>2, <2>3, <1>t DEF DetailMark, WorkType, LeadType, WakeType, HandType, RestType, EndKnown
<1>13. CASE SleepDrain(l)
  <2>1. CallType'
    BY <1>13, <1>t, DoesType DEF SleepDrain
  <2>2. wake' \in [Leads -> BOOLEAN]
    BY <1>13, <1>w DEF SleepDrain
  <2> QED
    BY <1>13, <2>1, <2>2, <1>c, <1>w, <1>same DEF SleepDrain
<1>14. CASE SleepLook(l)
  <2>1. CallType'
    BY <1>14, <1>t, DoneType, GoesType DEF SleepLook
  <2> QED
    BY <1>14, <2>1, <1>w, <1>same DEF SleepLook
<1>15. CASE SleepEnds(l)
  <2>1. CallType'
    BY <1>15, <1>t, DoneType DEF SleepEnds
  <2>2. wake' \in [Leads -> BOOLEAN]
    BY <1>15, <1>w DEF SleepEnds
  <2> QED
    BY <1>15, <2>1, <2>2, <1>w, <1>same DEF SleepEnds
<1>16. CASE LeadUntracks(l) \/ LeadLeaves(l) \/ LeadCloses(l)
  <2>1. LeadType'
    BY <1>16, <1>t DEF LeadUntracks, LeadLeaves, LeadCloses, LeadType
  <2> QED
    BY ZenonT(60), <1>16, <2>1, <1>t
    DEF LeadUntracks, LeadLeaves, LeadCloses, RowType, WorkType, CallType, WakeType, HandType, RestType, EndKnown
<1>17. CASE LeadAfter(l)
  <2>1. LeadType'
    BY <1>17, <1>t DEF LeadAfter, LeadType
  <2>2. timer' \in BOOLEAN /\ lapse' \in BOOLEAN
    BY <1>17, <1>t, ZenonT(30) DEF LeadAfter, ScheduleWake, WakeType, RestType
  <2> QED
    BY <1>17, <2>1, <2>2, <1>t DEF LeadAfter, RowType, WorkType, CallType, WakeType, HandType, RestType, EndKnown
<1> QED
  BY <1>1, <1>2, <1>3, <1>4, <1>5, <1>6, <1>7, <1>8, <1>9, <1>10, <1>11, <1>12, <1>13, <1>14,
     <1>15, <1>16, <1>17 DEF LeadWork, LeadCalls

(* A step of a subagent's run, of the wake, of a person, and the restart. *)
LEMMA OtherTypes ==
  ASSUME TypeOK, EndKnown,
         \/ \E r \in Runs : RunWork(r)
         \/ TimerFires \/ WakeWork \/ HandWork
         \/ \E l \in Leads : PersonStarts(l)
         \/ Stop("stop") \/ Stop("delete")
         \/ \E s \in Subs : StopSub(s)
         \/ BotQuiets \/ Restart
  PROVE  TypeOK' /\ EndKnown'
<1> USE DEF pending, rare, but, upset, bounds
<1>t. /\ RowType /\ WorkType /\ LeadType /\ CallType /\ WakeType /\ HandType /\ RestType
  BY TypeParts
<1> SUFFICES /\ RowType' /\ WorkType' /\ LeadType' /\ CallType' /\ WakeType' /\ HandType' /\ RestType'
             /\ EndKnown'
  BY DEF TypeOK, RowType, WorkType, LeadType, CallType, WakeType, HandType, RestType
<1> DEFINE Typed == /\ RowType' /\ WorkType' /\ LeadType' /\ CallType' /\ WakeType' /\ HandType' /\ RestType'
                    /\ EndKnown'
<1>u. ASSUME Upset PROVE upsets' \in 0..MaxUpsets
  BY <1>u, <1>t, UpsetType DEF RestType
<1>1. ASSUME NEW r \in Runs, RunWork(r) PROVE Typed
  <2>1. CASE WorkCloses(r) \/ WorkUntracks(r) \/ AfterReads(r) \/ AfterLooks(r)
    <3>1. WorkType' /\ EndKnown'
      <4>1. CASE WorkCloses(r)
        BY <4>1, <1>t DEF WorkCloses, Moves, WorkType, EndKnown
      <4>2. CASE WorkUntracks(r)
        <5> PICK st \in {"done", "stopped"} : work' = [work EXCEPT ![r].at = "ended", ![r].st = st]
          BY <4>2 DEF WorkUntracks
        <5> QED
          BY ZenonT(60), <1>t DEF WorkType, EndKnown
      <4>3. CASE AfterReads(r)
        <5>1. work[r].at = "ended" /\ (Moves(r, "over") \/ Moves(r, "read"))
          BY <4>3 DEF AfterReads
        <5> QED
          BY ZenonT(60), <5>1, <1>t DEF Moves, WorkType, EndKnown
      <4>4. CASE AfterLooks(r)
        <5>1. work[r].at = "read" /\ (Moves(r, "over") \/ Moves(r, "posting"))
          BY <4>4 DEF AfterLooks
        <5> QED
          BY ZenonT(60), <5>1, <1>t DEF Moves, WorkType, EndKnown
      <4> QED
        BY <2>1, <4>1, <4>2, <4>3, <4>4
    <3> QED
      BY <2>1, <3>1, <1>t DEF WorkCloses, WorkUntracks, AfterReads, AfterLooks,
        RowType, LeadType, CallType, WakeType, HandType, RestType
  <2>2. CASE AfterPosts(r)
    <3>1. WorkType' /\ EndKnown'
      BY <2>2, <1>t DEF AfterPosts, Moves, WorkType, EndKnown
    <3>2. work[r].st \in {"done", "stopped"} /\ work[r].of \in Subs \union {None}
      BY <2>2, <1>t DEF AfterPosts, EndKnown, WorkType
    <3>3. RowType'
      BY <2>2, <3>2, <1>t DEF AfterPosts, RowType, Statuses
    <3>4. passed' \subseteq Runs
      BY <2>2, <1>t, NewsType, PassesType DEF AfterPosts
    <3> QED
      BY ZenonT(60), <2>2, <3>1, <3>3, <3>4, <1>t DEF AfterPosts, LeadType, CallType, WakeType, HandType, RestType
  <2>3. CASE AfterNudges(r)
    <3>1. WorkType' /\ EndKnown'
      BY <2>3, <1>t DEF AfterNudges, Moves, WorkType, EndKnown
    <3>2. wake' \in [Leads -> BOOLEAN]
      BY <2>3, ZenonT(30) DEF AfterNudges
    <3> QED
      BY ZenonT(60), <2>3, <3>1, <3>2, <1>t DEF AfterNudges, RowType, LeadType, CallType, WakeType, HandType, RestType
  <2>4. CASE AfterSchedules(r)
    <3>1. WorkType' /\ EndKnown'
      BY <2>4, <1>t DEF AfterSchedules, Moves, WorkType, EndKnown
    <3>2. timer' \in BOOLEAN /\ lapse' \in BOOLEAN
      BY <2>4, ZenonT(30) DEF AfterSchedules, ScheduleWake
    <3> QED
      BY <2>4, <3>1, <3>2, <1>t DEF AfterSchedules, RowType, LeadType, CallType, WakeType, HandType, RestType
  <2> QED
    BY <1>1, <2>1, <2>2, <2>3, <2>4 DEF RunWork
<1>2. CASE TimerFires
  <2>1. due' \in 0..MaxDue
    BY <1>2, <1>t, Bounds DEF TimerFires, WakeType
  <2> QED
    BY ZenonT(60), <1>2, <2>1, <1>t DEF TimerFires, RowType, WorkType, LeadType, CallType, WakeType, HandType, RestType, EndKnown
<1>3. CASE WakeLooks
  <2>1. due' \in 0..MaxDue
    BY <1>3, <1>t, Bounds DEF WakeLooks, WakeType
  <2>2. waker' \in [at : {"idle", "mark", "start"}, chosen : SUBSET Subs, news : SUBSET Runs]
    <3>1. Unread \subseteq Subs /\ News(Subs) \subseteq Runs
      BY <1>t, NewsType DEF Unread, Known
    <3> QED
      BY <1>3, <3>1 DEF WakeLooks, Awake
  <2> QED
    BY ZenonT(60), <1>3, <2>1, <2>2, <1>t DEF WakeLooks, RowType, WorkType, LeadType, CallType, WakeType, HandType, RestType, EndKnown
<1>4. CASE WakeMarks
  <2>1. RowType'
    BY <1>4, <1>t, ReportedType DEF WakeMarks
  <2>2. passed' \subseteq Runs
    <3>1. Passes(News(waker.chosen) \ waker.news) /\ News(waker.chosen) \ waker.news \subseteq Runs
      BY <1>4, <1>t, NewsType DEF WakeMarks
    <3> QED
      BY <3>1, <1>t, PassesType
  <2> QED
    BY <1>4, <2>1, <2>2, <1>t DEF WakeMarks, WorkType, LeadType, CallType, WakeType, HandType, RestType, EndKnown
<1>s. ASSUME NEW l \in Leads, LeadStarts(l) PROVE LeadType' /\ wake' \in [Leads -> BOOLEAN]
  BY <1>s, <1>t DEF LeadStarts, LeadType, WakeType
<1>a. Awake \in [at : {"idle", "mark", "start"}, chosen : SUBSET Subs, news : SUBSET Runs]
  BY DEF Awake
<1>5. ASSUME NEW l \in Leads, WakeStarts(l) PROVE Typed
  <2>1. LeadType' /\ wake' \in [Leads -> BOOLEAN]
    BY <1>5, <1>s DEF WakeStarts
  <2>2. opened' \subseteq Runs
    BY <1>5, <1>t DEF WakeStarts, RestType, WakeType
  <2> QED
    <3>1. WakeType'
      BY <1>5, <2>1, <1>a, <1>t DEF WakeStarts, WakeType
    <3> QED
      BY <1>5, <2>1, <2>2, <3>1, <1>t DEF WakeStarts, RowType, WorkType, CallType, HandType, RestType, EndKnown
<1>6. CASE WakeFails
  <2>1. RowType'
    BY <1>6, <1>t, ReportedType DEF WakeFails
  <2> QED
    BY ZenonT(60), <1>6, <2>1, <1>a, <1>u, <1>t DEF WakeFails, WorkType, LeadType, CallType, WakeType, HandType, RestType, EndKnown
<1>7. ASSUME NEW l \in Leads, PersonStarts(l) PROVE Typed
  <2>1. LeadType' /\ wake' \in [Leads -> BOOLEAN]
    BY <1>7, <1>s DEF PersonStarts
  <2>2. calls' \in 0..NCalls
    BY <1>7, <1>t, Bounds DEF PersonStarts, Counted, RestType
  <2> QED
    BY ZenonT(60), <1>7, <2>1, <2>2, <1>t DEF PersonStarts, RowType, WorkType, CallType, WakeType, HandType, RestType, EndKnown
<1>c. ASSUME CutLead PROVE LeadType' /\ lapse' \in BOOLEAN
  <2>1. LeadType'
    BY <1>c, <1>t DEF CutLead, LeadType, Cut
  <2>2. lapse' \in BOOLEAN
    BY <1>c, ZenonT(30) DEF CutLead
  <2> QED
    BY <2>1, <2>2
<1>h. Still \in [op : {"none", "stop", "delete", "bot"}, todo : SUBSET Subs,
                 at : {"idle", "list", "next", "quiet", "cut", "drop", "all"},
                 of : Subs \union {None}]
  BY DEF Still
<1>8. ASSUME NEW op \in {"stop", "delete"}, Stop(op) PROVE Typed
  <2>1. hand' \in [op : {"none", "stop", "delete", "bot"}, todo : SUBSET Subs,
                   at : {"idle", "list", "next", "quiet", "cut", "drop", "all"},
                   of : Subs \union {None}]
    BY <1>8 DEF Stop, Still
  <2> QED
    BY <1>8, <2>1, <1>c, <1>u, <1>t DEF Stop, RowType, WorkType, CallType, WakeType, HandType, RestType, EndKnown
<1>9. CASE HandWork
  <2>1. CASE HandLists \/ HandTakes \/ HandDone
    <3>1. HandType'
      <4>1. CASE HandLists
        BY <4>1, <1>t DEF HandLists, HandType, Known
      <4>2. CASE HandTakes
        <5> PICK s \in hand.todo :
              \/ hand' = [hand EXCEPT !.todo = hand.todo \ {s}]
              \/ hand' = [hand EXCEPT !.todo = hand.todo \ {s}, !.of = s, !.at = "quiet"]
          BY <4>2 DEF HandTakes
        <5>1. s \in Subs
          BY <1>t DEF HandType
        <5>2. hand.todo \ {s} \subseteq Subs /\ chat' = chat
          BY <1>t, <4>2 DEF HandType, HandTakes
        <5> QED
          BY <5>1, <5>2, <1>t DEF HandType
      <4>3. CASE HandDone
        <5>1. chat' \in BOOLEAN
          BY <4>3, ZenonT(30) DEF HandDone
        <5> QED
          BY <4>3, <5>1, <1>h DEF HandDone, HandType
      <4> QED
        BY <2>1, <4>1, <4>2, <4>3
    <3> QED
      BY <2>1, <3>1, <1>t DEF HandLists, HandTakes, HandDone,
        RowType, WorkType, LeadType, CallType, WakeType, RestType, EndKnown
  <2>2. CASE HandQuiets
    <3>1. RowType'
      BY <2>2, <1>t, QuietType DEF HandQuiets, Statuses
    <3> QED
      BY <2>2, <3>1, <1>t DEF HandQuiets, WorkType, LeadType, CallType, WakeType, HandType, RestType, EndKnown
  <2>3. CASE HandCuts
    <3>1. WorkType' /\ EndKnown'
      BY <2>3, <1>t, CutType DEF HandCuts
    <3> QED
      BY <2>3, <3>1, <1>t DEF HandCuts, RowType, LeadType, CallType, WakeType, HandType, RestType
  <2>4. CASE HandDrops
    <3>1. RowType'
      BY <2>4, <1>t DEF HandDrops, RowType, NoRow, Statuses
    <3> QED
      BY <2>4, <3>1, <1>t DEF HandDrops, WorkType, LeadType, CallType, WakeType, HandType, RestType, EndKnown
  <2>5. CASE BotCuts
    <3>1. WorkType' /\ EndKnown'
      BY <2>5, <1>t, CutType DEF BotCuts
    <3> QED
      BY ZenonT(60), <2>5, <3>1, <1>c, <1>h, <1>t DEF BotCuts, RowType, CallType, WakeType, HandType, RestType
  <2> QED
    BY <1>9, <2>1, <2>2, <2>3, <2>4, <2>5 DEF HandWork
<1>10. ASSUME NEW s \in Subs, StopSub(s) PROVE Typed
  <2>1. WorkType' /\ EndKnown'
    BY <1>10, <1>t, CutType DEF StopSub
  <2> QED
    BY ZenonT(60), <1>10, <2>1, <1>u, <1>t DEF StopSub, RowType, LeadType, CallType, WakeType, HandType, RestType
<1>11. CASE BotQuiets
  <2>1. RowType'
    BY <1>11, <1>t, QuietType DEF BotQuiets, Statuses
  <2>2. HandType'
    BY <1>11, <1>t DEF BotQuiets, Still, HandType
  <2> QED
    BY <1>11, <2>1, <2>2, <1>u, <1>t DEF BotQuiets, WorkType, LeadType, CallType, WakeType, RestType, EndKnown
<1>12. CASE Restart
  <2>1. RowType'
    BY <1>12, <1>t, QuietType DEF Restart, Statuses
  <2>2. WorkType' /\ EndKnown'
    BY ZenonT(60), <1>12, <1>t DEF Restart, WorkType, EndKnown
  <2>3. LeadType' /\ CallType'
    BY <1>12 DEF Restart, LeadType, CallType, Rest
  <2>4. /\ wake' \in [Leads -> BOOLEAN] /\ timer' \in BOOLEAN /\ due' = 0 /\ waker' = Awake
        /\ hand' = Still /\ lapse' \in BOOLEAN /\ chat' = chat
    BY <1>12 DEF Restart
  <2>5. due' \in 0..MaxDue
    BY <2>4, Bounds
  <2>6. WakeType' /\ HandType'
    BY <2>4, <2>5, <1>a, <1>h, <1>t DEF WakeType, HandType
  <2> QED
    BY <1>12, <2>1, <2>2, <2>3, <2>4, <2>6, <1>u, <1>t DEF Restart, RestType
<1> QED
  BY <1>1, <1>2, <1>3, <1>4, <1>5, <1>6, <1>7, <1>8, <1>9, <1>10, <1>11, <1>12 DEF WakeWork
-----------------------------------------------------------------------------
(* What most steps leave as it is.  A lead run moves on; a call moves only in a
   run that is live or cut; nothing becomes unread; what will look for an unread
   result goes on. *)

Asleep(l) == At(l, "sleep", "asleep")

LeadMoves(k) == \/ lead'[k] = lead[k]
                \/ lead[k] = "live" /\ lead'[k] = "closing" /\ call[k] = Rest
                \/ lead[k] = "closing" /\ lead'[k] = "ended"
                \/ lead[k] = "cut" /\ lead'[k] = "none" /\ call[k] = Rest
                \/ lead[k] = "live" /\ lead'[k] = "cut" /\ lapse'

CallMoves(k) == \/ call'[k] = call[k]
                \/ /\ lead[k] \in {"live", "cut"} /\ lead'[k] = lead[k]
                   /\ Asleep(k)' => Unread = {}

LEMMA ControlKept ==
  ASSUME TypeOK, Control, \A k \in Leads : LeadMoves(k) /\ CallMoves(k), waker' = waker
  PROVE  Control'
<1>1. \A k \in Leads : lead'[k] \in Tracked => lead[k] \in Tracked
  BY DEF LeadMoves, Tracked
<1>2. OneLead'
  BY <1>1 DEF Control, OneLead
<1>3. WakerAlone'
  BY <1>1 DEF Control, WakerAlone, LeadLive
<1>4. CallsRun'
  <2> SUFFICES ASSUME NEW k \in Leads, lead'[k] \in {"none", "closing", "ended"} PROVE call'[k] = Rest
    BY DEF CallsRun
  <2>1. call'[k] = call[k]
    BY DEF LeadMoves, CallMoves
  <2> QED
    BY <2>1 DEF LeadMoves, Control, CallsRun
<1> QED
  BY <1>2, <1>3, <1>4 DEF Control

LEMMA OwedKept ==
  ASSUME TypeOK, WakeIsOwed, Unread' \subseteq Unread, lapse => lapse', chat' => chat,
         UNCHANGED pending,
         \A r \in Runs : work[r].at \in {"posted", "nudged"} => work'[r].at \in {"posted", "nudged"},
         \A k \in Leads : LeadMoves(k)
  PROVE  WakeIsOwed'
<1> SUFFICES ASSUME Unread' # {}, ~lapse', chat'
             PROVE  \/ timer' \/ due' > 0 \/ waker'.at # "idle"
                    \/ \E r \in Runs : work'[r].at \in {"posted", "nudged"}
                    \/ \E l \in Leads : lead'[l] \in Tracked \union {"ended"}
  BY DEF WakeIsOwed
<1>1. Unread # {} /\ ~lapse /\ chat
  OBVIOUS
<1>2. \A k \in Leads : lead[k] \in Tracked \union {"ended"} => lead'[k] \in Tracked \union {"ended"}
  BY DEF LeadMoves, Tracked
<1>3. \/ timer \/ due > 0 \/ waker.at # "idle"
      \/ \E r \in Runs : work[r].at \in {"posted", "nudged"}
      \/ \E l \in Leads : lead[l] \in Tracked \union {"ended"}
  BY <1>1 DEF WakeIsOwed
<1> QED
  BY <1>2, <1>3 DEF pending

LEMMA NudgeKept ==
  ASSUME TypeOK, NoLostWakeup, Unread' \subseteq Unread,
         \A r \in Runs : work[r].at = "posted" => work'[r].at = "posted",
         \A k \in Leads : /\ LeadMoves(k) /\ CallMoves(k)
                          /\ wake'[k] = wake[k] \/ ~Asleep(k)'
  PROVE  NoLostWakeup'
<1> SUFFICES ASSUME NEW k \in Leads, Asleep(k)', lead'[k] = "live", Unread' # {}
             PROVE  wake'[k] \/ \E r \in Runs : work'[r].at = "posted"
  BY DEF NoLostWakeup, Asleep
<1>1. lead[k] = "live"
  BY DEF LeadMoves
<1>2. call'[k] = call[k]
  BY DEF CallMoves
<1>3. wake[k] \/ \E r \in Runs : work[r].at = "posted"
  BY <1>1, <1>2 DEF NoLostWakeup, Asleep, At
<1> QED
  BY <1>3

Kept == Control' /\ WakeIsOwed' /\ NoLostWakeup'

LEMMA StepKept ==
  ASSUME Inv, Unread' \subseteq Unread, lapse => lapse', chat' => chat, UNCHANGED pending,
         \A r \in Runs : work[r].at \in {"posted", "nudged"} => work'[r].at = work[r].at,
         \A k \in Leads : /\ LeadMoves(k) /\ CallMoves(k)
                          /\ wake'[k] = wake[k] \/ ~Asleep(k)'
  PROVE  Kept
<1>1. Control'
  BY ControlKept DEF Inv, pending
<1>2. WakeIsOwed'
  BY OwedKept DEF Inv
<1>3. NoLostWakeup'
  BY NudgeKept DEF Inv
<1> QED
  BY <1>1, <1>2, <1>3 DEF Kept

(* Nothing becomes unread by a quieting, a mark, a resumption or a drop. *)
LEMMA SameUnread == ASSUME row' = row PROVE Unread' = Unread
  BY DEF Unread, Known
LEMMA QuietUnread == ASSUME RowType, NEW st, NEW W, Quiet(st, W) PROVE Unread' \subseteq Unread
  BY DEF RowType, Quiet, Unread, Known
LEMMA MarkUnread == ASSUME RowType, NEW W, Reported(W, TRUE) PROVE Unread' \subseteq Unread
  BY DEF RowType, Reported, Unread, Known
LEMMA OneUnread ==
  ASSUME RowType, NEW s, NEW new, row' = [row EXCEPT ![s] = new], new.reported = TRUE
  PROVE  Unread' \subseteq Unread
  BY DEF RowType, Unread, Known

(* A run that is in a call is live or cut. *)
LEMMA InCall == ASSUME TypeOK, CallsRun, NEW l \in Leads, call[l] # Rest PROVE lead[l] \in {"live", "cut"}
  BY DEF TypeOK, CallsRun

(* The call of one lead run moves and the leads do not. *)
LEMMA CallStep ==
  ASSUME TypeOK, NEW l \in Leads, lead[l] \in {"live", "cut"}, lead' = lead,
         NEW rec, call' = [call EXCEPT ![l] = rec], rec.at # "asleep" \/ Unread = {},
         wake' = wake \/ (rec.at # "asleep" /\ wake' = [wake EXCEPT ![l] = FALSE])
  PROVE  \A k \in Leads : /\ LeadMoves(k) /\ CallMoves(k)
                          /\ wake'[k] = wake[k] \/ ~Asleep(k)'
  BY ZenonT(60) DEF LeadMoves, CallMoves, Asleep, At, TypeOK

LEMMA LeadKeeps == ASSUME Inv, NEW l \in Leads, LeadWork(l) \/ LeadCalls(l) \/ LeadCloses(l) PROVE Kept
<1> USE DEF pending, rare, but, upset, bounds
<1>t. /\ RowType /\ WorkType /\ LeadType /\ CallType /\ TypeOK /\ CallsRun
  BY TypeParts DEF Inv, Control
<1>r. row' = row => Unread' = Unread
  BY SameUnread
<1>call. ASSUME lead[l] \in {"live", "cut"}, lead' = lead, Unread' \subseteq Unread, UNCHANGED <<pending, lapse, chat>>,
                \E rec : /\ call' = [call EXCEPT ![l] = rec]
                         /\ rec.at # "asleep" \/ Unread = {}
                         /\ wake' = wake \/ (rec.at # "asleep" /\ wake' = [wake EXCEPT ![l] = FALSE]),
                \A r \in Runs : work[r].at \in {"posted", "nudged"} => work'[r].at = work[r].at
         PROVE  Kept
  <2>1. \A k \in Leads : /\ LeadMoves(k) /\ CallMoves(k)
                         /\ wake'[k] = wake[k] \/ ~Asleep(k)'
    BY <1>call, <1>t, CallStep
  <2> QED
    BY <1>call, <2>1, StepKept
<1>rest. Rest.at = ""
  BY DEF Rest
<1>in. call[l].at # "" => lead[l] \in {"live", "cut"}
  BY <1>t, <1>rest, InCall
<1>go. \A at : Goes(l, at) => \E rec : call' = [call EXCEPT ![l] = rec] /\ rec.at = at
  <2> SUFFICES ASSUME NEW at, Goes(l, at) PROVE \E rec : call' = [call EXCEPT ![l] = rec] /\ rec.at = at
    OBVIOUS
  <2>1. call' = [call EXCEPT ![l] = [call[l] EXCEPT !.at = at]] /\ [call[l] EXCEPT !.at = at].at = at
    BY <1>t DEF Goes, CallType
  <2> QED
    BY <2>1
<1>ok. Done(l) => call' = [call EXCEPT ![l] = Rest]
  BY DEF Done
<1>do. \A op, s, at : Does(l, op, s, at) => \E rec : call' = [call EXCEPT ![l] = rec] /\ rec.at = at
  <2> SUFFICES ASSUME NEW op, NEW s, NEW at, Does(l, op, s, at)
               PROVE  \E rec : call' = [call EXCEPT ![l] = rec] /\ rec.at = at
    OBVIOUS
  <2>1. call' = [call EXCEPT ![l] = [op |-> op, of |-> s, at |-> at, saw |-> None]]
    BY DEF Does
  <2>2. [op |-> op, of |-> s, at |-> at, saw |-> None].at = at
    OBVIOUS
  <2> QED
    BY <2>1, <2>2, Zenon
<1>1. CASE Spawn(l) \/ Find(l, "message") \/ Find(l, "stop")
  <2>1. lead[l] = "live" /\ \E rec : call' = [call EXCEPT ![l] = rec] /\ rec.at = "ask"
    BY <1>1, <1>do DEF Spawn, Find, CanCall, Free
  <2> QED
    BY <1>1, <2>1, <1>r, <1>call DEF Spawn, Find
<1>2. CASE DetailRead(l)
  <2>1. lead[l] = "live" /\ \E rec : call' = [call EXCEPT ![l] = rec] /\ rec.at = "mark"
    <3> PICK s \in Known : call' = [call EXCEPT ![l] = [op |-> "detail", of |-> s, at |-> "mark",
                                                      saw |-> row[s].result]]
      BY <1>2 DEF DetailRead
    <3>1. [op |-> "detail", of |-> s, at |-> "mark", saw |-> row[s].result].at = "mark"
      OBVIOUS
    <3>2. lead[l] = "live"
      BY <1>2 DEF DetailRead, CanCall, Free
    <3> QED
      BY <3>1, <3>2, Zenon
  <2> QED
    BY <1>2, <2>1, <1>r, <1>call DEF DetailRead
<1>3. CASE SleepDrain(l)
  <2>1. lead[l] = "live" /\ \E rec : call' = [call EXCEPT ![l] = rec] /\ rec.at = "look"
    BY <1>3, <1>do DEF SleepDrain, CanCall, Free
  <2> QED
    BY <1>3, <2>1, <1>r, <1>call DEF SleepDrain
<1>4. CASE Refused(l)
  <2>1. lead[l] \in {"live", "cut"} /\ call' = [call EXCEPT ![l] = Rest]
    BY <1>4, <1>in, <1>ok DEF Refused, At
  <2> QED
    BY <1>4, <2>1, <1>r, <1>rest, <1>call DEF Refused
<1>5. CASE SpawnRow(l)
  <2> PICK s \in Subs : /\ row' = [row EXCEPT ![s] = [status |-> "running", reported |-> TRUE, result |-> None]]
                        /\ Does(l, "spawn", s, "start")
    BY <1>5 DEF SpawnRow
  <2>1. Unread' \subseteq Unread
    <3>1. [status |-> "running", reported |-> TRUE, result |-> None].reported = TRUE
      OBVIOUS
    <3> QED
      BY <3>1, <1>t, OneUnread
  <2>2. lead[l] \in {"live", "cut"} /\ \E rec : call' = [call EXCEPT ![l] = rec] /\ rec.at = "start"
    BY <1>5, <1>in, <1>do DEF SpawnRow, At
  <2> QED
    BY <1>5, <2>1, <2>2, <1>call DEF SpawnRow
<1>w. \A s : StartRun(s) => \A r \in Runs : work[r].at \in {"posted", "nudged"} => work'[r].at = work[r].at
  BY <1>t DEF StartRun, Started, NextRun, WorkType
<1>6. CASE SpawnStart(l) \/ MessageStart(l)
  <2>1. lead[l] \in {"live", "cut"} /\ call' = [call EXCEPT ![l] = Rest]
    BY <1>6, <1>in, <1>ok DEF SpawnStart, MessageStart, At
  <2>2. \A r \in Runs : work[r].at \in {"posted", "nudged"} => work'[r].at = work[r].at
    BY <1>6, <1>w DEF SpawnStart, MessageStart
  <2> QED
    BY <1>6, <2>1, <2>2, <1>r, <1>rest, <1>call DEF SpawnStart, MessageStart
<1>7. CASE Message(l)
  <2>1. Unread' \subseteq Unread
    BY <1>7, <1>t DEF Message, RowType, Unread, Known
  <2>2. lead[l] \in {"live", "cut"} /\ \E rec : call' = [call EXCEPT ![l] = rec] /\ rec.at # "asleep"
    <3>1. call[l].at = "ask" /\ (Done(l) \/ Goes(l, "resume"))
      BY <1>7 DEF Message, At
    <3>2. CASE Done(l)
      BY <3>1, <3>2, <1>in, <1>ok, <1>rest
    <3>3. CASE Goes(l, "resume")
      BY <3>1, <3>3, <1>in, <1>go
    <3> QED
      BY <3>1, <3>2, <3>3
  <2> QED
    BY <1>7, <2>1, <2>2, <1>call DEF Message
<1>8. CASE StopAgent(l)
  <2>1. lead[l] \in {"live", "cut"} /\ \E rec : call' = [call EXCEPT ![l] = rec] /\ rec.at # "asleep"
    <3>1. call[l].at = "ask" /\ (Done(l) \/ Goes(l, "quiet"))
      BY <1>8 DEF StopAgent, At
    <3>2. CASE Done(l)
      BY <3>1, <3>2, <1>in, <1>ok, <1>rest
    <3>3. CASE Goes(l, "quiet")
      BY <3>1, <3>3, <1>in, <1>go
    <3> QED
      BY <3>1, <3>2, <3>3
  <2> QED
    BY <1>8, <2>1, <1>r, <1>call DEF StopAgent
<1>9. CASE StopAgentQuiet(l)
  <2>1. Unread' \subseteq Unread
    BY <1>9, <1>t, QuietUnread DEF StopAgentQuiet
  <2>2. lead[l] \in {"live", "cut"} /\ \E rec : call' = [call EXCEPT ![l] = rec] /\ rec.at = "cut"
    BY <1>9, <1>in, <1>go DEF StopAgentQuiet, At
  <2> QED
    BY <1>9, <2>1, <2>2, <1>call DEF StopAgentQuiet
<1>10. CASE StopAgentCut(l)
  <2>1. lead[l] \in {"live", "cut"} /\ call' = [call EXCEPT ![l] = Rest]
    BY <1>10, <1>in, <1>ok DEF StopAgentCut, At
  <2>2. \A r \in Runs : work[r].at \in {"posted", "nudged"} => work'[r].at = work[r].at
    BY <1>10, <1>t DEF StopAgentCut, CutSubs, Cut, WorkType
  <2> QED
    BY <1>10, <2>1, <2>2, <1>r, <1>rest, <1>call DEF StopAgentCut
<1>11. CASE DetailMark(l)
  <2>1. Unread' \subseteq Unread
    <3>1. row' = row \/ row' = [row EXCEPT ![call[l].of].reported = TRUE]
      BY <1>11 DEF DetailMark
    <3> QED
      BY <3>1, <1>t DEF RowType, Unread, Known
  <2>2. lead[l] \in {"live", "cut"} /\ call' = [call EXCEPT ![l] = Rest]
    BY <1>11, <1>in, <1>ok DEF DetailMark, At
  <2> QED
    BY <1>11, <2>1, <2>2, <1>rest, <1>call DEF DetailMark
<1>12. CASE SleepLook(l)
  <2>1. lead[l] \in {"live", "cut"} /\ \E rec : call' = [call EXCEPT ![l] = rec] /\ (rec.at # "asleep" \/ Unread = {})
    BY <1>12, <1>in, <1>ok, <1>go, <1>rest DEF SleepLook, At
  <2> QED
    BY <1>12, <2>1, <1>r, <1>call DEF SleepLook
<1>13. CASE SleepEnds(l)
  <2>1. lead[l] \in {"live", "cut"} /\ call' = [call EXCEPT ![l] = Rest]
    BY <1>13, <1>in, <1>ok DEF SleepEnds, At
  <2> QED
    BY <1>13, <2>1, <1>r, <1>rest, <1>call DEF SleepEnds
<1>14. CASE LeadUntracks(l) \/ LeadLeaves(l) \/ LeadCloses(l)
  <2>1. \A k \in Leads : LeadMoves(k) /\ CallMoves(k)
    BY <1>14, <1>t DEF LeadUntracks, LeadLeaves, LeadCloses, Free, LeadMoves, CallMoves, LeadType
  <2> QED
    BY <1>14, <2>1, <1>r, StepKept DEF LeadUntracks, LeadLeaves, LeadCloses
<1>15. CASE LeadAfter(l)
  <2>1. Unread' = Unread
    BY <1>15, <1>r DEF LeadAfter
  <2>2. \A k \in Leads : lead'[k] = (IF k = l THEN "none" ELSE lead[k])
    BY <1>15, <1>t DEF LeadAfter, LeadType
  <2>3. call[l] = Rest
    BY <1>15, <1>t DEF LeadAfter, CallsRun
  <2>4. Control'
    BY <1>15, <2>2, <2>3 DEF LeadAfter, Inv, Control, CallsRun, OneLead, WakerAlone, LeadLive, Tracked
  <2>5. WakeIsOwed'
    BY <1>15, <2>1 DEF LeadAfter, ScheduleWake, WakeIsOwed
  <2>6. NoLostWakeup'
    BY <1>15, <2>1, <2>2 DEF LeadAfter, Inv, NoLostWakeup, At
  <2> QED
    BY <2>4, <2>5, <2>6 DEF Kept
<1> QED
  BY <1>1, <1>2, <1>3, <1>4, <1>5, <1>6, <1>7, <1>8, <1>9, <1>10, <1>11, <1>12, <1>13, <1>14, <1>15
  DEF LeadWork, LeadCalls

LEMMA RunKeeps == ASSUME Inv, NEW r \in Runs, RunWork(r) PROVE Kept
<1> USE DEF pending, rare
<1>t. /\ RowType /\ WorkType /\ LeadType /\ CallType /\ TypeOK
  BY TypeParts DEF Inv
<1>r. row' = row => Unread' = Unread
  BY SameUnread
<1>m. UNCHANGED <<lead, call>> => \A k \in Leads : LeadMoves(k) /\ CallMoves(k)
  BY DEF LeadMoves, CallMoves
<1>c. UNCHANGED <<lead, call, waker>> => Control'
  BY <1>m, ControlKept DEF Inv
<1>1. CASE WorkCloses(r) \/ WorkUntracks(r) \/ AfterReads(r) \/ AfterLooks(r)
  <2>1. work[r].at \notin {"posted", "nudged"} /\ \A q \in Runs \ {r} : work'[q] = work[q]
    BY <1>1, <1>t DEF WorkCloses, WorkUntracks, AfterReads, AfterLooks, Moves, WorkType
  <2>2. UNCHANGED <<row, lead, call, wake, pending, lapse, chat>>
    BY <1>1 DEF WorkCloses, WorkUntracks, AfterReads, AfterLooks
  <2>3. \A q \in Runs : work[q].at \in {"posted", "nudged"} => work'[q].at = work[q].at
    BY <2>1
  <2> QED
    BY <2>2, <2>3, <1>r, <1>m, StepKept
<1>2. CASE AfterPosts(r)
  <2>1. work'[r].at = "posted"
    BY <1>2, <1>t DEF AfterPosts, Moves, WorkType
  <2>2. Control'
    BY <1>2, <1>c DEF AfterPosts
  <2> QED
    BY <2>1, <2>2 DEF Kept, WakeIsOwed, NoLostWakeup
<1>3. CASE AfterNudges(r)
  <2>1. work'[r].at = "nudged" /\ \A q \in Runs \ {r} : work'[q] = work[q]
    BY <1>3, <1>t DEF AfterNudges, Moves, WorkType
  <2>2. Control'
    BY <1>3, <1>c DEF AfterNudges
  <2>3. WakeIsOwed'
    BY <2>1 DEF WakeIsOwed
  <2>4. \A k \in Leads : lead'[k] = "live" => wake'[k]
    BY <1>3 DEF AfterNudges, Tracked
  <2> QED
    BY <2>2, <2>3, <2>4 DEF Kept, NoLostWakeup
<1>4. CASE AfterSchedules(r)
  <2>1. work[r].at = "nudged" /\ \A q \in Runs \ {r} : work'[q] = work[q]
    BY <1>4, <1>t DEF AfterSchedules, Moves, WorkType
  <2>2. Control'
    BY <1>4, <1>c DEF AfterSchedules
  <2>3. WakeIsOwed'
    BY <1>4, <1>r DEF AfterSchedules, ScheduleWake, WakeIsOwed
  <2>4. NoLostWakeup'
    BY <1>4, <2>1, <1>r, <1>m, <1>t, NudgeKept DEF AfterSchedules, Inv
  <2> QED
    BY <2>2, <2>3, <2>4 DEF Kept
<1> QED
  BY <1>1, <1>2, <1>3, <1>4 DEF RunWork

LEMMA WakeKeeps == ASSUME Inv, TimerFires \/ WakeWork PROVE Kept
<1> USE DEF pending, rare, upset
<1>t. /\ RowType /\ WorkType /\ LeadType /\ CallType /\ WakeType /\ TypeOK
  BY TypeParts DEF Inv
<1>r. row' = row => Unread' = Unread
  BY SameUnread
<1>m. UNCHANGED <<lead, call>> => \A k \in Leads : LeadMoves(k) /\ CallMoves(k)
  BY DEF LeadMoves, CallMoves
<1>n. ASSUME Unread' \subseteq Unread, UNCHANGED <<work, lead, call, wake>> PROVE NoLostWakeup'
  BY <1>n, <1>m, <1>t, NudgeKept DEF Inv
<1>c. ASSUME UNCHANGED <<lead, call>>, waker'.at # "idle" => ~LeadLive PROVE Control'
  BY <1>c DEF Inv, Control, CallsRun, OneLead, WakerAlone, LeadLive
<1>1. CASE TimerFires
  <2>1. due' > 0
    BY <1>1, <1>t, Bounds DEF TimerFires, WakeType
  <2>2. WakeIsOwed'
    BY <2>1 DEF WakeIsOwed
  <2> QED
    BY <1>1, <2>2, <1>r, <1>n, <1>c DEF TimerFires, Inv, Control, WakerAlone, Kept
<1>2. CASE WakeLooks
  <2>1. CASE LeadLive \/ ~chat \/ Unread = {}
    <3>1. waker'.at = "idle"
      BY <1>2, <2>1 DEF WakeLooks, Awake
    <3>2. Control'
      BY <1>2, <3>1, <1>c DEF WakeLooks
    <3>3. WakeIsOwed'
      BY <1>2, <2>1, <1>r DEF WakeLooks, WakeIsOwed, LeadLive
    <3> QED
      BY <1>2, <3>2, <3>3, <1>r, <1>n DEF WakeLooks, Kept
  <2>2. CASE ~(LeadLive \/ ~chat \/ Unread = {})
    <3>1. waker'.at = "mark"
      BY <1>2, <2>2 DEF WakeLooks
    <3>2. Control'
      BY <1>2, <2>2, <1>c DEF WakeLooks
    <3>3. WakeIsOwed'
      BY <3>1 DEF WakeIsOwed
    <3> QED
      BY <1>2, <3>2, <3>3, <1>r, <1>n DEF WakeLooks, Kept
  <2> QED
    BY <2>1, <2>2
<1>3. CASE WakeMarks
  <2>1. Unread' \subseteq Unread
    BY <1>3, <1>t, MarkUnread DEF WakeMarks
  <2>2. waker'.at = "start" /\ ~LeadLive
    BY <1>3, <1>t DEF WakeMarks, WakeType, Inv, Control, WakerAlone
  <2>3. Control'
    BY <1>3, <2>2, <1>c DEF WakeMarks
  <2>4. WakeIsOwed'
    BY <2>2 DEF WakeIsOwed
  <2> QED
    BY <1>3, <2>1, <2>3, <2>4, <1>n DEF WakeMarks, Kept
<1>4. CASE WakeFails
  <2>1. ~LeadLive /\ waker'.at = "idle"
    BY <1>4 DEF WakeFails, Inv, Control, WakerAlone, Awake
  <2>2. Control'
    BY <1>4, <2>1, <1>c DEF WakeFails
  <2>3. WakeIsOwed'
    BY <1>4 DEF WakeFails, WakeIsOwed
  <2>4. NoLostWakeup'
    BY <1>4, <2>1 DEF WakeFails, NoLostWakeup, LeadLive, Tracked
  <2> QED
    BY <2>2, <2>3, <2>4 DEF Kept
<1> QED
  <2>1. ASSUME NEW l \in Leads, WakeStarts(l) PROVE Kept
    <3>1. ~LeadLive /\ call[l] = Rest
      BY <2>1 DEF WakeStarts, NextLead, Inv, Control, WakerAlone, CallsRun
    <3>2. /\ \A k \in Leads : lead'[k] = (IF k = l THEN "live" ELSE lead[k])
          /\ UNCHANGED <<call, row, work>> /\ waker'.at = "idle"
      BY <2>1, <1>t DEF WakeStarts, LeadStarts, LeadType, Awake
    <3>4. Control'
      BY <3>1, <3>2 DEF Inv, Control, CallsRun, OneLead, WakerAlone, LeadLive, Tracked
    <3>5. WakeIsOwed'
      BY <3>2 DEF WakeIsOwed, Tracked
    <3>6. NoLostWakeup'
      <4>1. \A k \in Leads : lead'[k] = "live" => k = l
        BY <3>1, <3>2 DEF LeadLive, Tracked
      <4>2. call'[l].at = ""
        <5>1. call'[l] = Rest
          BY <3>1, <3>2
        <5>2. Rest.at = ""
          BY DEF Rest
        <5> QED
          BY <5>1, <5>2, Zenon
      <4> QED
        BY <4>1, <4>2 DEF NoLostWakeup, At
    <3> QED
      BY <3>4, <3>5, <3>6 DEF Kept
  <2> QED
    BY <2>1, <1>1, <1>2, <1>3, <1>4 DEF WakeWork

LEMMA PersonKeeps ==
  ASSUME Inv,
         \/ HandWork
         \/ \E l \in Leads : PersonStarts(l)
         \/ Stop("stop") \/ Stop("delete")
         \/ \E s \in Subs : StopSub(s)
         \/ BotQuiets \/ Restart
  PROVE  Kept
<1> USE DEF pending, rare, upset, but
<1>t. /\ RowType /\ WorkType /\ LeadType /\ CallType /\ WakeType /\ HandType /\ RestType /\ TypeOK
  BY TypeParts DEF Inv
<1>r. row' = row => Unread' = Unread
  BY SameUnread
<1>w. \A W : CutSubs(W) => \A r \in Runs : work[r].at \in {"posted", "nudged"} => work'[r].at = work[r].at
  BY ZenonT(60), <1>t DEF CutSubs, Cut, WorkType
<1>step. ASSUME Unread' \subseteq Unread, lapse => lapse', chat' => chat, UNCHANGED <<pending, call, wake>>,
                \A r \in Runs : work[r].at \in {"posted", "nudged"} => work'[r].at = work[r].at,
                \A k \in Leads : LeadMoves(k)
         PROVE  Kept
  <2>1. \A k \in Leads : CallMoves(k)
    BY <1>step DEF CallMoves
  <2> QED
    BY <1>step, <2>1, StepKept
<1>l. lead' = lead => \A k \in Leads : LeadMoves(k)
  BY DEF LeadMoves
<1>c. CutLead => (lapse => lapse') /\ \A k \in Leads : LeadMoves(k)
  <2> SUFFICES ASSUME CutLead PROVE (lapse => lapse') /\ \A k \in Leads : LeadMoves(k)
    OBVIOUS
  <2>1. \A k \in Leads : lead[k] = "live" => lapse'
    BY DEF CutLead
  <2>2. \A k \in Leads : lead'[k] = Cut(lead[k])
    BY DEF CutLead
  <2>3. lapse => lapse'
    BY DEF CutLead
  <2> QED
    BY <2>1, <2>2, <2>3, <1>t DEF LeadMoves, Cut, LeadType
<1>1. CASE HandLists \/ HandTakes
  <2>1. UNCHANGED <<row, work, lead, call, wake, pending, lapse, chat>>
    BY <1>1 DEF HandLists, HandTakes
  <2> QED
    BY <2>1, <1>r, <1>l, <1>step
<1>2. CASE HandDone
  <2>1. chat' => chat
    BY <1>2 DEF HandDone
  <2> QED
    BY <1>2, <2>1, <1>r, <1>l, <1>step DEF HandDone
<1>3. CASE HandQuiets \/ BotQuiets
  <2>1. Unread' \subseteq Unread
    BY <1>3, <1>t, QuietUnread DEF HandQuiets, BotQuiets
  <2> QED
    BY <1>3, <2>1, <1>l, <1>step DEF HandQuiets, BotQuiets
<1>4. CASE HandCuts
  <2>1. \A r \in Runs : work[r].at \in {"posted", "nudged"} => work'[r].at = work[r].at
    BY <1>4, <1>w DEF HandCuts
  <2> QED
    BY <1>4, <2>1, <1>r, <1>l, <1>step DEF HandCuts
<1>5. ASSUME NEW s \in Subs, StopSub(s) PROVE Kept
  <2>1. \A r \in Runs : work[r].at \in {"posted", "nudged"} => work'[r].at = work[r].at
    BY <1>5, <1>w DEF StopSub
  <2> QED
    BY <1>5, <2>1, <1>r, <1>l, <1>step DEF StopSub
<1>6. CASE HandDrops
  <2>1. Unread' \subseteq Unread
    <3>1. NoRow.reported = TRUE
      BY DEF NoRow
    <3> QED
      BY <3>1, <1>6, <1>t, OneUnread DEF HandDrops
  <2> QED
    BY <1>6, <2>1, <1>l, <1>step DEF HandDrops
<1>7. CASE BotCuts
  <2>1. \A r \in Runs : work[r].at \in {"posted", "nudged"} => work'[r].at = work[r].at
    BY <1>7, <1>w DEF BotCuts
  <2> QED
    BY <1>7, <2>1, <1>r, <1>c, <1>step DEF BotCuts
<1>8. CASE Stop("stop") \/ Stop("delete")
  BY <1>8, <1>r, <1>c, <1>step DEF Stop
<1>9. ASSUME NEW l \in Leads, PersonStarts(l) PROVE Kept
  <2>1. ~LeadLive /\ call[l] = Rest /\ waker.at = "idle"
    BY <1>9 DEF PersonStarts, NextLead, ConvFree, Inv, Control, CallsRun
  <2>2. /\ \A k \in Leads : lead'[k] = (IF k = l THEN "live" ELSE lead[k])
        /\ UNCHANGED <<call, row, work>> /\ waker' = waker
    BY <1>9, <1>t DEF PersonStarts, LeadStarts, LeadType
  <2>4. Control'
    BY <2>1, <2>2 DEF Inv, Control, CallsRun, OneLead, WakerAlone, LeadLive, Tracked
  <2>5. WakeIsOwed'
    BY <2>2 DEF WakeIsOwed, Tracked
  <2>6. NoLostWakeup'
    <3>1. \A k \in Leads : lead'[k] = "live" => k = l
      BY <2>1, <2>2 DEF LeadLive, Tracked
    <3>2. call'[l].at = ""
      <4>1. call'[l] = Rest
        BY <2>1, <2>2
      <4>2. Rest.at = ""
        BY DEF Rest
      <4> QED
        BY <4>1, <4>2, Zenon
    <3> QED
      BY <3>1, <3>2 DEF NoLostWakeup, At
  <2> QED
    BY <2>4, <2>5, <2>6 DEF Kept
<1>10. CASE Restart
  <2>1. \A l \in Leads : lead'[l] = "none" /\ call'[l] = Rest
    BY <1>10 DEF Restart
  <2>2. lapse' = TRUE /\ waker'.at = "idle"
    BY <1>10 DEF Restart, Awake
  <2> QED
    BY <2>1, <2>2 DEF Kept, Control, CallsRun, OneLead, WakerAlone, Tracked, WakeIsOwed, NoLostWakeup
<1> QED
  BY <1>1, <1>2, <1>3, <1>4, <1>5, <1>6, <1>7, <1>8, <1>9, <1>10 DEF HandWork

-----------------------------------------------------------------------------
LEMMA InvStep == Inv /\ [Next]_vars => Inv'
<1> SUFFICES ASSUME Inv, [Next]_vars PROVE Inv'
  OBVIOUS
<1>1. CASE Next
  <2>1. ASSUME NEW l \in Leads, LeadWork(l) \/ LeadCalls(l) \/ LeadCloses(l) PROVE TypeOK' /\ EndKnown' /\ Kept
    BY <2>1, LeadTypes, LeadKeeps DEF Inv
  <2>2. ASSUME NEW r \in Runs, RunWork(r) PROVE TypeOK' /\ EndKnown' /\ Kept
    BY <2>2, OtherTypes, RunKeeps DEF Inv
  <2>3. ASSUME TimerFires \/ WakeWork PROVE TypeOK' /\ EndKnown' /\ Kept
    BY <2>3, OtherTypes, WakeKeeps DEF Inv
  <2>4. ASSUME \/ HandWork
               \/ \E l \in Leads : PersonStarts(l)
               \/ Stop("stop") \/ Stop("delete")
               \/ \E s \in Subs : StopSub(s)
               \/ BotQuiets \/ Restart
        PROVE  TypeOK' /\ EndKnown' /\ Kept
    BY <2>4, OtherTypes, PersonKeeps DEF Inv
  <2>5. TypeOK' /\ EndKnown' /\ Kept
    BY <1>1, <2>1, <2>2, <2>3, <2>4 DEF Next, System
  <2> QED
    BY <2>5 DEF Inv, Kept
<1>2. CASE UNCHANGED vars
  <2> USE <1>2 DEF vars
  <2>1. TypeOK' /\ EndKnown'
    BY ZenonT(60) DEF Inv, TypeOK, EndKnown
  <2>2. Control'
    BY DEF Inv, Control, CallsRun, OneLead, WakerAlone, LeadLive
  <2>3. Unread' = Unread
    BY SameUnread
  <2>4. WakeIsOwed' /\ NoLostWakeup'
    BY <2>3 DEF Inv, WakeIsOwed, NoLostWakeup, At
  <2> QED
    BY <2>1, <2>2, <2>4 DEF Inv
<1> QED
  BY <1>1, <1>2

LEMMA InvAlways == Spec => []Inv
  BY InvInit, InvStep, PTL DEF Spec

(* Every variable of the subagents keeps its type. *)
THEOREM TypeCorrect == Spec => []TypeOK
<1>1. Inv => TypeOK
  BY DEF Inv
<1> QED
  BY <1>1, InvAlways, PTL

(* A person's message and a wake never start two runs of the lead: convMu is
   held from wakeLead's look to its start. *)
THEOREM OneLeadHolds == Spec => []OneLead
<1>1. Inv => OneLead
  BY DEF Inv, Control
<1> QED
  BY <1>1, InvAlways, PTL

(* A lead that sleeps with a result unread has a nudge in its channel or on its
   way: sleepTool drains first and looks after, subagentFinished writes the row
   first and signals after. *)
THEOREM NoLostWakeupHolds == Spec => []NoLostWakeup
<1>1. Inv => NoLostWakeup
  BY DEF Inv
<1> QED
  BY <1>1, InvAlways, PTL

(* For an unread result there is always a timer, a wakeLead, a finisher or a
   run of the lead that will ask for the wake, unless the lead was stopped, a
   start failed, the process restarted or the chat is gone. *)
THEOREM WakeIsOwedHolds == Spec => []WakeIsOwed
<1>1. Inv => WakeIsOwed
  BY DEF Inv
<1> QED
  BY <1>1, InvAlways, PTL
-----------------------------------------------------------------------------
(* What a wake brings, and what stands behind a row that says running. *)

Settled == {"posted", "nudged", "over"}
Working == {"live", "closing", "cut", "ended", "read", "posting"}
Starting == {"start", "resume"}

(* A result is of a run of that subagent that has posted it, and of none that
   has not: no two rows, and no run yet to come, have the same one. *)
ResultsKnown ==
  /\ \A s \in Subs : row[s].result # None =>
       work[row[s].result].of = s /\ work[row[s].result].at \in Settled
  /\ \A r \in opened : work[r].at \in Settled
  /\ \A s \in Subs : row[s].status = "none" => row[s].reported

(* What is not reported was not told; what wakeLead carries was not either,
   and once it is marked no row offers it again. *)
NewsUntold ==
  /\ \A s \in Subs : ~row[s].reported => row[s].result \notin opened
  /\ waker.at # "idle" =>
       /\ \A r \in waker.news : /\ work[r].at \in Settled /\ work[r].of \in waker.chosen
                                /\ r \notin opened
       /\ \A s \in waker.chosen : row[s].result \notin opened
  /\ waker.at = "start" => \A s \in Subs : ~row[s].reported => row[s].result \notin waker.news

Told == ResultsKnown /\ NewsUntold

(* A step that posts nothing, wakes nobody and unmarks no row. *)
WorkGrows == \A r \in Runs : work[r].at \in Settled => work'[r].at \in Settled /\ work'[r].of = work[r].of
RowsQuiet == \A s \in Subs : /\ row'[s].result \in {row[s].result, None}
                             /\ ~row'[s].reported =>
                                  ~row[s].reported /\ (row'[s].status = "none" => row[s].status = "none")
(* A step that takes nothing from behind a row that says running. *)
BackersStay ==
  /\ \A r \in Runs : work[r].at \in Working => work'[r].at \in Working /\ work'[r].of = work[r].of
  /\ failed \subseteq failed'
  /\ \A l \in Leads : call[l].at \in Starting => call'[l].at = call[l].at /\ call'[l].of = call[l].of
RowsRest == \A s \in Subs : row'[s].status = "running" => row[s].status = "running"

Backed(s) ==
  \/ s \in failed
  \/ \E r \in Runs : work[r].of = s /\ work[r].at \in Working
  \/ \E l \in Leads : call[l].of = s /\ call[l].at \in Starting

LEMMA BackedSuffices ==
  ASSUME TypeOK PROVE RunningIsBacked <=> \A s \in Subs : row[s].status = "running" => Backed(s)
<1>1. \A r \in Runs : work[r].at \notin {"none", "posted", "nudged", "over"} <=> work[r].at \in Working
  BY DEF TypeOK, Working
<1> QED
  BY <1>1 DEF RunningIsBacked, Backed, Starting

LEMMA ToldKept ==
  ASSUME TypeOK, Told, WorkGrows, RowsQuiet, opened' = opened, waker' = waker \/ waker'.at = "idle"
  PROVE  Told'
<1>1. /\ None \notin opened /\ None \notin waker.news /\ opened \subseteq Runs
      /\ waker.news \subseteq Runs /\ waker.chosen \subseteq Subs
      /\ \A s \in Subs : row[s].result \in Runs \union {None}
  BY Bounds DEF TypeOK
<1>2. ResultsKnown'
  BY <1>1 DEF Told, ResultsKnown, WorkGrows, RowsQuiet
<1>3. \A s \in Subs : ~row'[s].reported => row'[s].result \notin opened
  BY <1>1 DEF Told, NewsUntold, RowsQuiet
<1>4. CASE waker' = waker
  <2>1. waker.at # "idle" =>
          /\ \A r \in waker.news : /\ work'[r].at \in Settled /\ work'[r].of \in waker.chosen
                                   /\ r \notin opened
          /\ \A s \in waker.chosen : row'[s].result \notin opened
    BY <1>1 DEF Told, NewsUntold, WorkGrows, RowsQuiet
  <2>2. waker.at = "start" => \A s \in Subs : ~row'[s].reported => row'[s].result \notin waker.news
    BY <1>1 DEF Told, NewsUntold, RowsQuiet
  <2> QED
    BY <1>2, <1>3, <1>4, <2>1, <2>2 DEF Told, NewsUntold
<1>5. CASE waker'.at = "idle"
  BY <1>2, <1>3, <1>5 DEF Told, NewsUntold
<1> QED
  BY <1>4, <1>5

LEMMA BackedKept ==
  ASSUME RunningIsBacked, TypeOK, TypeOK', BackersStay, RowsRest PROVE RunningIsBacked'
<1>1. \A s \in Subs : Backed(s) => Backed(s)'
  BY DEF Backed, BackersStay
<1>2. \A s \in Subs : row[s].status = "running" => Backed(s)
  BY BackedSuffices
<1>3. \A s \in Subs : row'[s].status = "running" => Backed(s)'
  BY <1>1, <1>2 DEF RowsRest
<1>4. \A r \in Runs : work'[r].at \notin {"none", "posted", "nudged", "over"} <=> work'[r].at \in Working
  <2>1. WorkType'
    BY DEF TypeOK, WorkType
  <2> QED
    BY <2>1 DEF WorkType, Working
<1> QED
  BY <1>3, <1>4 DEF RunningIsBacked, Backed, Starting

(* The helpers post nothing, and take nothing from behind a running row. *)
LEMMA RowsStay == ASSUME row' = row PROVE RowsQuiet /\ RowsRest
BY DEF RowsQuiet, RowsRest
LEMMA WorkStays ==
  ASSUME work' = work PROVE WorkGrows /\ \A r \in Runs : work[r].at \in Working => work'[r].at \in Working /\ work'[r].of = work[r].of
BY DEF WorkGrows
LEMMA QuietStays ==
  ASSUME RowType, NEW st \in Statuses \ {"running"}, NEW W, Quiet(st, W) PROVE RowsQuiet /\ RowsRest
<1>1. ASSUME NEW s \in Subs PROVE /\ row'[s].result = row[s].result
                                  /\ ~row'[s].reported =>
                                       ~row[s].reported /\ (row'[s].status = "none" => row[s].status = "none")
                                  /\ row'[s].status = "running" => row[s].status = "running"
  <2>1. row'[s] = row[s] \/ row'[s] = [row[s] EXCEPT !.status = st, !.reported = TRUE]
    BY DEF Quiet
  <2> QED
    BY <2>1 DEF RowType
<1> QED
  BY <1>1 DEF RowsQuiet, RowsRest
LEMMA CutStays ==
  ASSUME WorkType, NEW W, CutSubs(W)
  PROVE  WorkGrows /\ \A r \in Runs : work[r].at \in Working => work'[r].at \in Working /\ work'[r].of = work[r].of
<1>1. ASSUME NEW r \in Runs PROVE work'[r].of = work[r].of /\ work'[r].at \in {work[r].at, Cut(work[r].at)}
  BY DEF CutSubs, WorkType
<1> QED
  BY <1>1 DEF WorkGrows, Cut, Settled, Working
LEMMA MoveStays ==
  ASSUME WorkType, NEW r \in Runs, NEW at, Moves(r, at),
         work[r].at \in Settled => at \in Settled
  PROVE  /\ WorkGrows
         /\ \A q \in Runs : work'[q].of = work[q].of /\ work'[q].at = (IF q = r THEN at ELSE work[q].at)
BY DEF WorkGrows, Moves, WorkType
LEMMA CallStays ==
  ASSUME CallType, NEW l \in Leads, call[l].at \notin Starting, NEW rec, call' = [call EXCEPT ![l] = rec]
  PROVE  \A k \in Leads : call[k].at \in Starting => call'[k].at = call[k].at /\ call'[k].of = call[k].of
BY DEF CallType
LEMMA StartStays ==
  ASSUME WorkType, NEW s \in Subs \union {None}, StartRun(s)
  PROVE  /\ WorkGrows
         /\ \A r \in Runs : work[r].at \in Working => work'[r].at \in Working /\ work'[r].of = work[r].of
         /\ failed \subseteq failed' \union {s}
         /\ s \in failed' \/ \E r \in Runs : work'[r].of = s /\ work'[r].at \in Working
<1>1. CASE \E r \in Runs : NextRun(r) /\ Started(s, r) /\ failed' = failed \ {s}
  <2> PICK r \in Runs : NextRun(r) /\ Started(s, r) /\ failed' = failed \ {s}
    BY <1>1
  <2>1. /\ work[r].at = "none" /\ work'[r].of = s /\ work'[r].at = "live"
        /\ \A q \in Runs \ {r} : work'[q] = work[q]
    BY DEF NextRun, Started, WorkType
  <2> QED
    BY <2>1 DEF WorkGrows, Working, Settled
<1>2. CASE UNCHANGED work /\ failed' = failed \union {s}
  BY <1>2, WorkStays
<1> QED
  BY <1>1, <1>2 DEF StartRun

(* What a call that is over leaves. *)
LEMMA DoneStays ==
  ASSUME CallType, NEW l \in Leads, call[l].at \notin Starting, Done(l) \/ \E at : Goes(l, at)
  PROVE  \A k \in Leads : call[k].at \in Starting => call'[k].at = call[k].at /\ call'[k].of = call[k].of
<1>1. CASE Done(l)
  BY <1>1, CallStays DEF Done
<1>2. ASSUME NEW at, Goes(l, at) PROVE \A k \in Leads : call[k].at \in Starting => call'[k].at = call[k].at /\ call'[k].of = call[k].of
  BY <1>2 DEF Goes, CallType
<1> QED
  BY <1>1, <1>2

(* A step of a lead run. *)
LEMMA LeadTells ==
  ASSUME Inv, TypeOK', Told, RunningIsBacked, NEW l \in Leads,
         LeadWork(l) \/ LeadCalls(l) \/ LeadCloses(l)
  PROVE  Told' /\ RunningIsBacked'
<1> USE DEF pending, rare, but, upset, bounds
<1>t. /\ RowType /\ WorkType /\ CallType /\ TypeOK
  BY TypeParts DEF Inv
<1>b. \A s \in Subs : row[s].status = "running" => Backed(s)
  BY <1>t, BackedSuffices
<1>b2. (\A s \in Subs : row'[s].status = "running" => Backed(s)') => RunningIsBacked'
  <2>1. \A r \in Runs : work'[r].at \notin {"none", "posted", "nudged", "over"} <=> work'[r].at \in Working
    <3>1. WorkType'
      BY DEF TypeOK, WorkType
    <3> QED
      BY <3>1 DEF WorkType, Working
  <2> QED
    BY <2>1 DEF RunningIsBacked, Backed, Starting
<1>same. ASSUME WorkGrows, RowsQuiet, UNCHANGED <<opened, waker>>, BackersStay, RowsRest
         PROVE  Told' /\ RunningIsBacked'
  BY <1>same, <1>t, ToldKept, BackedKept
<1>calls. ASSUME UNCHANGED <<row, work, waker, opened, failed>>,
                 \A k \in Leads : call[k].at \in Starting => call'[k].at = call[k].at /\ call'[k].of = call[k].of
          PROVE  Told' /\ RunningIsBacked'
  BY <1>calls, <1>same, RowsStay, WorkStays DEF BackersStay
<1>can. CanCall(l) => call[l].at \notin Starting
  <2>1. Rest.at \notin Starting
    BY DEF Rest, Starting
  <2> QED
    BY <2>1 DEF CanCall, Free
<1>1. CASE Spawn(l) \/ SleepDrain(l) \/ (\E op \in {"message", "stop"} : Find(l, op)) \/ DetailRead(l)
  <2>1. call[l].at \notin Starting
    BY <1>1, <1>can DEF Spawn, SleepDrain, Find, DetailRead
  <2>2. \E rec : call' = [call EXCEPT ![l] = rec]
    BY <1>1 DEF Spawn, SleepDrain, Find, DetailRead, Does
  <2>3. UNCHANGED <<row, work, waker, opened, failed>>
    BY <1>1 DEF Spawn, SleepDrain, Find, DetailRead
  <2> QED
    BY <2>1, <2>2, <2>3, <1>t, <1>calls, CallStays
<1>2. CASE Refused(l) \/ StopAgent(l) \/ SleepLook(l) \/ SleepEnds(l)
  <2>1. call[l].at \notin Starting /\ (Done(l) \/ \E at : Goes(l, at))
    BY <1>2 DEF Refused, StopAgent, SleepLook, SleepEnds, At, Starting
  <2>2. UNCHANGED <<row, work, waker, opened, failed>>
    BY <1>2 DEF Refused, StopAgent, SleepLook, SleepEnds
  <2> QED
    BY <2>1, <2>2, <1>t, <1>calls, DoneStays
<1>3. CASE LeadUntracks(l) \/ LeadLeaves(l) \/ LeadCloses(l) \/ LeadAfter(l)
  <2>1. UNCHANGED <<row, work, call, waker, opened, failed>>
    BY <1>3 DEF LeadUntracks, LeadLeaves, LeadCloses, LeadAfter
  <2> QED
    BY <2>1, <1>calls
<1>4. CASE SpawnRow(l)
  <2>1. PICK s \in Subs :
          /\ row' = [row EXCEPT ![s] = [status |-> "running", reported |-> TRUE, result |-> None]]
          /\ Does(l, "spawn", s, "start")
    BY <1>4 DEF SpawnRow
  <2>2. /\ \A u \in Subs \ {s} : row'[u] = row[u]
        /\ row'[s].reported /\ row'[s].result = None
    BY <2>1, <1>t DEF RowType
  <2>3. RowsQuiet
    BY <2>2 DEF RowsQuiet
  <2>4. Told'
    BY <1>4, <2>3, <1>t, ToldKept, WorkStays DEF SpawnRow
  <2>5. call[l].at \notin Starting
    BY <1>4 DEF SpawnRow, At, Starting
  <2>6. call'[l].of = s /\ call'[l].at \in Starting
    BY <2>1, <1>t DEF Does, CallType, Starting
  <2>7. \A k \in Leads : call[k].at \in Starting => call'[k].at = call[k].at /\ call'[k].of = call[k].of
    BY <2>1, <2>5, <1>t, CallStays DEF Does
  <2>8. ASSUME NEW u \in Subs, row'[u].status = "running" PROVE Backed(u)'
    <3>1. CASE u = s
      BY <3>1, <2>6 DEF Backed
    <3>2. CASE u # s
      <4>1. Backed(u)
        BY <3>2, <2>2, <2>8, <1>b
      <4> QED
        BY <4>1, <2>7, <1>4 DEF Backed, SpawnRow
    <3> QED
      BY <3>1, <3>2
  <2> QED
    BY <2>4, <2>8, <1>b2
<1>5. CASE SpawnStart(l) \/ MessageStart(l)
  <2> DEFINE s == call[l].of
  <2>1. /\ StartRun(s) /\ call' = [call EXCEPT ![l] = Rest]
        /\ UNCHANGED <<row, waker, opened>> /\ s \in Subs \union {None}
    BY <1>5, <1>t DEF SpawnStart, MessageStart, Done, CallType
  <2>2. /\ WorkGrows /\ failed \subseteq failed' \union {s}
        /\ \A r \in Runs : work[r].at \in Working => work'[r].at \in Working /\ work'[r].of = work[r].of
        /\ s \in failed' \/ \E r \in Runs : work'[r].of = s /\ work'[r].at \in Working
    BY <2>1, <1>t, StartStays
  <2>3. Told'
    BY <2>1, <2>2, <1>t, ToldKept, RowsStay
  <2>4. \A k \in Leads \ {l} : call'[k] = call[k]
    BY <2>1, <1>t DEF CallType
  <2>5. ASSUME NEW u \in Subs, row'[u].status = "running" PROVE Backed(u)'
    <3>1. CASE u = s
      BY <3>1, <2>2 DEF Backed
    <3>2. CASE u # s
      <4>1. Backed(u)
        BY <2>1, <2>5, <1>b
      <4> QED
        BY <4>1, <3>2, <2>2, <2>4 DEF Backed
    <3> QED
      BY <3>1, <3>2
  <2> QED
    BY <2>3, <2>5, <1>b2
<1>6. CASE Message(l)
  <2> DEFINE s == call[l].of
  <2>1. call[l].at \notin Starting /\ UNCHANGED <<work, waker, opened, failed>>
    BY <1>6 DEF Message, At, Starting
  <2>2. CASE SubLive(s)
    <3>1. Done(l) /\ row' = row
      BY <1>6, <2>2 DEF Message
    <3> QED
      BY <3>1, <2>1, <1>t, <1>calls, DoneStays
  <2>3. CASE ~SubLive(s)
    <3>1. /\ Goes(l, "resume")
          /\ row' = row \/ row' = [row EXCEPT ![s].status = "running", ![s].reported = TRUE]
      BY <1>6, <2>3 DEF Message
    <3>2. /\ \A u \in Subs : /\ row'[u].result = row[u].result
                             /\ ~row'[u].reported =>
                                  ~row[u].reported /\ (row'[u].status = "none" => row[u].status = "none")
          /\ \A u \in Subs \ {s} : row'[u] = row[u]
      BY <3>1, <1>t DEF RowType
    <3>q. RowsQuiet
      BY <3>2 DEF RowsQuiet
    <3>3. Told'
      BY <3>q, <2>1, <1>t, ToldKept, WorkStays
    <3>4. call'[l].of = s /\ call'[l].at \in Starting
      BY <3>1, <1>t DEF Goes, CallType, Starting
    <3>5. \A k \in Leads : call[k].at \in Starting => call'[k].at = call[k].at /\ call'[k].of = call[k].of
      BY <3>1, <2>1, <1>t, DoneStays
    <3>6. ASSUME NEW u \in Subs, row'[u].status = "running" PROVE Backed(u)'
      <4>1. CASE u = s
        BY <4>1, <3>4 DEF Backed
      <4>2. CASE u # s
        <5>1. Backed(u)
          BY <4>2, <3>2, <3>6, <1>b
        <5> QED
          BY <5>1, <3>5, <2>1 DEF Backed
      <4> QED
        BY <4>1, <4>2
    <3> QED
      BY <3>3, <3>6, <1>b2
  <2> QED
    BY <2>2, <2>3
<1>7. CASE StopAgentQuiet(l)
  <2>1. RowsQuiet /\ RowsRest
    BY <1>7, <1>t, QuietStays DEF StopAgentQuiet, Statuses
  <2>2. \A k \in Leads : call[k].at \in Starting => call'[k].at = call[k].at /\ call'[k].of = call[k].of
    BY <1>7, <1>t, DoneStays DEF StopAgentQuiet, At, Starting
  <2> QED
    BY <1>7, <2>1, <2>2, <1>same, WorkStays DEF StopAgentQuiet, BackersStay
<1>8. CASE StopAgentCut(l)
  <2>1. /\ WorkGrows
        /\ \A r \in Runs : work[r].at \in Working => work'[r].at \in Working /\ work'[r].of = work[r].of
    BY <1>8, <1>t, CutStays DEF StopAgentCut
  <2>2. \A k \in Leads : call[k].at \in Starting => call'[k].at = call[k].at /\ call'[k].of = call[k].of
    BY <1>8, <1>t, DoneStays DEF StopAgentCut, At, Starting
  <2> QED
    BY <1>8, <2>1, <2>2, <1>same, RowsStay DEF StopAgentCut, BackersStay
<1>9. CASE DetailMark(l)
  <2>1. row' = row \/ row' = [row EXCEPT ![call[l].of].reported = TRUE]
    BY <1>9 DEF DetailMark
  <2>2. RowsQuiet /\ RowsRest
    BY <2>1, <1>t DEF RowsQuiet, RowsRest, RowType
  <2>3. \A k \in Leads : call[k].at \in Starting => call'[k].at = call[k].at /\ call'[k].of = call[k].of
    BY <1>9, <1>t, DoneStays DEF DetailMark, At, Starting
  <2> QED
    BY <1>9, <2>2, <2>3, <1>same, WorkStays DEF DetailMark, BackersStay
<1> QED
  BY <1>1, <1>2, <1>3, <1>4, <1>5, <1>6, <1>7, <1>8, <1>9 DEF LeadWork, LeadCalls

(* A step of a subagent's run. *)
LEMMA RunTells ==
  ASSUME Inv, TypeOK', Told, RunningIsBacked, NEW r \in Runs, RunWork(r)
  PROVE  Told' /\ RunningIsBacked'
<1> USE DEF pending, rare
<1>t. /\ RowType /\ WorkType /\ CallType /\ TypeOK
  BY TypeParts DEF Inv
<1>b. \A s \in Subs : row[s].status = "running" => Backed(s)
  BY <1>t, BackedSuffices
<1>b2. (\A s \in Subs : row'[s].status = "running" => Backed(s)') => RunningIsBacked'
  <2>1. \A q \in Runs : work'[q].at \notin {"none", "posted", "nudged", "over"} <=> work'[q].at \in Working
    <3>1. WorkType'
      BY DEF TypeOK, WorkType
    <3> QED
      BY <3>1 DEF WorkType, Working
  <2> QED
    BY <2>1 DEF RunningIsBacked, Backed, Starting
<1>back. ASSUME UNCHANGED <<call, failed>>,
                \A q \in Runs : work'[q].of = work[q].of /\ (q # r => work'[q].at = work[q].at),
                \A u \in Subs \ {work[r].of} : row'[u] = row[u],
                row'[work[r].of].status = "running" => Backed(work[r].of)'
         PROVE  RunningIsBacked'
  <2>1. ASSUME NEW u \in Subs, row'[u].status = "running" PROVE Backed(u)'
    <3>1. CASE u = work[r].of
      BY <3>1, <2>1, <1>back
    <3>2. CASE u # work[r].of
      <4>1. Backed(u)
        BY <3>2, <2>1, <1>b, <1>back
      <4> QED
        BY <3>2, <4>1, <1>back DEF Backed
    <3> QED
      BY <3>1, <3>2
  <2> QED
    BY <2>1, <1>b2
<1>own. ASSUME work'[r].of = work[r].of, work'[r].at \in Working PROVE Backed(work[r].of)'
  BY <1>own DEF Backed
<1>1. CASE WorkCloses(r)
  <2>1. /\ WorkGrows
        /\ \A q \in Runs : work'[q].of = work[q].of /\ work'[q].at = (IF q = r THEN "closing" ELSE work[q].at)
    BY <1>1, <1>t, MoveStays DEF WorkCloses, Settled
  <2>2. work'[r].at \in Working
    BY <2>1 DEF Working
  <2> QED
    BY <1>1, <2>1, <2>2, <1>t, <1>back, <1>own, ToldKept, RowsStay DEF WorkCloses
<1>2. CASE WorkUntracks(r)
  <2>1. /\ \A q \in Runs : work'[q].of = work[q].of /\ work'[q].at = (IF q = r THEN "ended" ELSE work[q].at)
        /\ work[r].at \notin Settled
    BY <1>2, <1>t DEF WorkUntracks, WorkType, Settled
  <2>2. WorkGrows /\ work'[r].at \in Working
    BY <2>1 DEF WorkGrows, Working
  <2> QED
    BY <1>2, <2>1, <2>2, <1>t, <1>back, <1>own, ToldKept, RowsStay DEF WorkUntracks
<1>3. CASE AfterReads(r)
  <2>1. PICK at \in {"over", "read"} :
          Moves(r, at) /\ (at = "over" => work[r].of \notin Known \/ Quieted(r))
    BY <1>3 DEF AfterReads
  <2>2. /\ WorkGrows
        /\ \A q \in Runs : work'[q].of = work[q].of /\ work'[q].at = (IF q = r THEN at ELSE work[q].at)
    BY <1>3, <2>1, <1>t, MoveStays DEF AfterReads, Settled
  <2>3. at = "over" => row'[work[r].of].status # "running" \/ work[r].of \notin Subs
    BY <1>3, <2>1 DEF AfterReads, Known, Quieted
  <2>4. at = "read" => Backed(work[r].of)'
    BY <2>2, <1>own DEF Working
  <2>5. Told'
    BY <1>3, <2>2, <1>t, ToldKept, RowsStay DEF AfterReads
  <2>6. ASSUME NEW u \in Subs, row'[u].status = "running" PROVE Backed(u)'
    <3>1. Backed(u)
      BY <1>3, <2>6, <1>b DEF AfterReads
    <3>2. CASE u = work[r].of
      <4>1. work'[r].of = u
        BY <2>2, <3>2
      <4>2. at = "read"
        BY <2>3, <2>6, <3>2
      <4> QED
        BY <2>4, <4>1, <4>2 DEF Backed
    <3>3. CASE u # work[r].of
      BY <1>3, <2>2, <3>1, <3>3 DEF Backed, AfterReads
    <3> QED
      BY <3>2, <3>3
  <2> QED
    BY <2>5, <2>6, <1>b2
<1>4. CASE AfterLooks(r)
  <2>1. PICK at \in {"over", "posting"} :
          Moves(r, at) /\ (at = "over" => SubLive(work[r].of))
    BY <1>4 DEF AfterLooks
  <2>2. /\ WorkGrows /\ work[r].at = "read"
        /\ \A q \in Runs : work'[q].of = work[q].of /\ work'[q].at = (IF q = r THEN at ELSE work[q].at)
    BY <1>4, <2>1, <1>t, MoveStays DEF AfterLooks, Settled
  <2>3. at = "over" => Backed(work[r].of)'
    BY <2>1, <2>2 DEF SubLive, Tracked, Backed, Working
  <2>4. at = "posting" => Backed(work[r].of)'
    BY <2>2, <1>own DEF Working
  <2> QED
    BY <1>4, <2>1, <2>2, <2>3, <2>4, <1>t, <1>back, ToldKept, RowsStay DEF AfterLooks
<1>5. CASE AfterNudges(r) \/ AfterSchedules(r)
  <2>1. PICK at \in {"nudged", "over"} : Moves(r, at)
    BY <1>5 DEF AfterNudges, AfterSchedules
  <2>2. /\ WorkGrows /\ work[r].at \notin Working
        /\ \A q \in Runs : work'[q].of = work[q].of /\ work'[q].at = (IF q = r THEN at ELSE work[q].at)
    BY <1>5, <2>1, <1>t, MoveStays DEF AfterNudges, AfterSchedules, Settled, Working
  <2>3. UNCHANGED <<row, call, opened, waker, failed>>
    BY <1>5 DEF AfterNudges, AfterSchedules
  <2>4. BackersStay
    BY <2>2, <2>3 DEF BackersStay
  <2> QED
    BY <2>2, <2>3, <2>4, <1>t, ToldKept, BackedKept, RowsStay
<1>6. CASE AfterPosts(r)
  <2> DEFINE s == work[r].of
  <2>1. /\ WorkGrows /\ work[r].at = "posting"
        /\ \A q \in Runs : work'[q].of = work[q].of /\ work'[q].at = (IF q = r THEN "posted" ELSE work[q].at)
    BY <1>6, <1>t, MoveStays DEF AfterPosts, Settled
  <2>2. UNCHANGED <<call, opened, waker, failed>>
    BY <1>6 DEF AfterPosts
  <2>3. CASE s \notin Known
    <3>1. row' = row
      BY <1>6, <2>3 DEF AfterPosts
    <3>2. s \in Subs => row[s].status = "none"
      BY <2>3 DEF Known
    <3>3. ASSUME NEW u \in Subs, row'[u].status = "running" PROVE Backed(u)'
      <4>1. Backed(u) /\ u # s
        BY <3>1, <3>2, <3>3, <1>b
      <4> QED
        BY <2>1, <2>2, <4>1 DEF Backed
    <3> QED
      BY <2>1, <2>2, <3>1, <3>3, <1>t, <1>b2, ToldKept, RowsStay
  <2>4. CASE s \in Known
    <3>1. /\ s \in Subs /\ \A u \in Subs \ {s} : row'[u] = row[u]
          /\ row'[s].status = work[r].st /\ row'[s].result = r
      BY <1>6, <2>4, <1>t DEF AfterPosts, Known, RowType
    <3>2. row'[s].status # "running"
      BY <2>1, <3>1 DEF Inv, EndKnown
    <3>3. RunningIsBacked'
      BY <2>1, <2>2, <3>1, <3>2, <1>back
    <3>4. work[r].at \notin Settled
      BY <2>1 DEF Settled
    <3>5. ResultsKnown'
      <4>1. ASSUME NEW u \in Subs, row'[u].result # None
            PROVE  work'[row'[u].result].of = u /\ work'[row'[u].result].at \in Settled
        <5>1. CASE u = s
          BY <5>1, <2>1, <3>1 DEF Settled
        <5>2. CASE u # s
          <6>1. row[u].result \in Runs /\ row'[u].result = row[u].result
            BY <5>2, <3>1, <4>1, <1>t DEF RowType
          <6>2. work[row[u].result].of = u /\ work[row[u].result].at \in Settled
            BY <6>1, <4>1 DEF Told, ResultsKnown
          <6> QED
            BY <6>1, <6>2, <2>1 DEF WorkGrows
        <5> QED
          BY <5>1, <5>2
      <4>2. \A q \in opened : work'[q].at \in Settled
        BY <2>1, <1>t DEF WorkGrows, Told, ResultsKnown, TypeOK
      <4>3. row'[s].status # "none"
        BY <2>1, <3>1 DEF Inv, EndKnown
      <4>4. \A u \in Subs : row'[u].status = "none" => row'[u].reported
        BY <3>1, <4>3 DEF Told, ResultsKnown
      <4> QED
        BY <4>1, <4>2, <4>4, <2>2 DEF ResultsKnown
    <3>6. r \notin opened /\ (waker.at # "idle" => r \notin waker.news)
      BY <3>4 DEF Told, ResultsKnown, NewsUntold
    <3>7. \A u \in Subs : \/ /\ row'[u].result = row[u].result
                             /\ row'[u].reported = row[u].reported
                          \/ row'[u].result = r
      BY <3>1
    <3>8. \A u \in Subs : ~row'[u].reported => row'[u].result \notin opened
      BY <3>6, <3>7 DEF Told, NewsUntold
    <3>9. waker.at # "idle" =>
            /\ \A q \in waker.news : /\ work'[q].at \in Settled /\ work'[q].of \in waker.chosen
                                     /\ q \notin opened
            /\ \A u \in waker.chosen : row'[u].result \notin opened
      <4> SUFFICES ASSUME waker.at # "idle"
                   PROVE  /\ \A q \in waker.news : /\ work'[q].at \in Settled /\ work'[q].of \in waker.chosen
                                                   /\ q \notin opened
                          /\ \A u \in waker.chosen : row'[u].result \notin opened
        OBVIOUS
      <4>1. waker.news \subseteq Runs /\ waker.chosen \subseteq Subs
        BY <1>t DEF TypeOK
      <4>2. \A q \in waker.news : work[q].at \in Settled /\ work[q].of \in waker.chosen /\ q \notin opened
        BY DEF Told, NewsUntold
      <4>3. \A u \in waker.chosen : row[u].result \notin opened
        BY DEF Told, NewsUntold
      <4> QED
        BY <2>1, <3>6, <3>7, <4>1, <4>2, <4>3 DEF WorkGrows
    <3>10. waker.at = "start" => \A u \in Subs : ~row'[u].reported => row'[u].result \notin waker.news
      BY <3>6, <3>7 DEF Told, NewsUntold
    <3> QED
      BY <2>2, <3>3, <3>5, <3>8, <3>9, <3>10 DEF Told, NewsUntold
  <2> QED
    BY <2>3, <2>4
<1> QED
  BY <1>1, <1>2, <1>3, <1>4, <1>5, <1>6 DEF RunWork

(* The timer and wakeLead. *)
LEMMA WakeTells ==
  ASSUME Inv, TypeOK', Told, RunningIsBacked, TimerFires \/ WakeWork PROVE Told' /\ RunningIsBacked'
<1> USE DEF pending, rare, upset
<1>t. /\ RowType /\ WorkType /\ CallType /\ TypeOK
  BY TypeParts DEF Inv
<1>n. /\ None \notin opened /\ None \notin waker.news /\ opened \subseteq Runs
      /\ waker.news \subseteq Runs /\ waker.chosen \subseteq Subs
      /\ \A s \in Subs : row[s].result \in Runs \union {None}
      /\ waker.at \in {"idle", "mark", "start"}
  BY <1>t, Bounds DEF TypeOK
<1>back. UNCHANGED <<work, failed, call>> => BackersStay
  BY WorkStays DEF BackersStay
<1>results. ASSUME UNCHANGED <<work, opened>>,
                   \A s \in Subs : /\ row'[s].result = row[s].result
                                   /\ row'[s].status = "none" => row'[s].reported
            PROVE  ResultsKnown'
  BY <1>results DEF Told, ResultsKnown
<1>1. CASE TimerFires
  BY <1>1, <1>t, <1>back, ToldKept, BackedKept, RowsStay, WorkStays DEF TimerFires
<1>2. CASE WakeLooks
  <2>1. RunningIsBacked'
    BY <1>2, <1>t, <1>back, BackedKept, RowsStay DEF WakeLooks
  <2>2. CASE waker' = Awake
    <3>1. waker'.at = "idle"
      BY <2>2 DEF Awake
    <3> QED
      BY <1>2, <2>1, <3>1, <1>t, ToldKept, RowsStay, WorkStays DEF WakeLooks
  <2>3. CASE waker' = [at |-> "mark", chosen |-> Unread, news |-> News(Subs)]
    <3>1. UNCHANGED <<row, work, opened>>
      BY <1>2 DEF WakeLooks
    <3>2. waker'.at = "mark" /\ waker'.chosen = Unread /\ waker'.news = {row[s].result : s \in Unread} \ {None}
      BY <2>3 DEF News, Unread, Known
    <3>3. \A s \in Unread : s \in Subs /\ ~row[s].reported
      BY DEF Unread, Known
    <3>4. \A q \in waker'.news : \E s \in Unread : q = row[s].result /\ q # None
      BY <3>2
    <3>5. \A q \in waker'.news : work[q].at \in Settled /\ work[q].of \in Unread /\ q \notin opened
      BY <3>3, <3>4 DEF Told, ResultsKnown, NewsUntold
    <3>6. \A s \in Unread : row[s].result \notin opened
      BY <3>3 DEF Told, NewsUntold
    <3>7. NewsUntold'
      BY <3>1, <3>2, <3>5, <3>6 DEF Told, NewsUntold
    <3> QED
      BY <2>1, <3>1, <3>7, <1>results DEF Told, ResultsKnown
  <2> QED
    BY <1>2, <2>2, <2>3 DEF WakeLooks
<1>3. CASE WakeMarks
  <2>1. /\ waker.at = "mark" /\ waker'.at = "start" /\ waker'.chosen = waker.chosen
        /\ waker'.news = waker.news /\ UNCHANGED <<work, call, opened, failed>>
    BY <1>3, <1>t DEF WakeMarks, TypeOK
  <2>2. \A s \in Subs : /\ row'[s].result = row[s].result /\ row'[s].status = row[s].status
                        /\ s \in waker.chosen /\ s \in Known => row'[s].reported
                        /\ row[s].reported => row'[s].reported
    <3>1. ASSUME NEW s \in Subs
          PROVE  /\ row'[s].result = row[s].result /\ row'[s].status = row[s].status
                 /\ s \in waker.chosen /\ s \in Known => row'[s].reported
                 /\ row[s].reported => row'[s].reported
      <4>1. row'[s] = IF s \in waker.chosen /\ s \in Known THEN [row[s] EXCEPT !.reported = TRUE] ELSE row[s]
        BY <1>3 DEF WakeMarks, Reported
      <4>2. CASE s \in waker.chosen /\ s \in Known
        BY <4>1, <4>2, <1>t DEF RowType
      <4>3. CASE ~(s \in waker.chosen /\ s \in Known)
        BY <4>1, <4>3
      <4> QED
        BY <4>2, <4>3
    <3> QED
      BY <3>1
  <2>3. RunningIsBacked'
    BY <2>1, <2>2, <1>t, <1>back, BackedKept DEF RowsRest
  <2>4. \A s \in Subs : ~row'[s].reported => ~row[s].reported
    BY <2>2
  <2>5. ASSUME NEW s \in Subs, ~row'[s].reported, row[s].result \in waker.news PROVE FALSE
    <3>1. work[row[s].result].of \in waker.chosen
      BY <2>1, <2>5 DEF Told, NewsUntold
    <3>2. work[row[s].result].of = s
      BY <2>5, <1>n DEF Told, ResultsKnown
    <3>3. s \notin Known
      BY <2>2, <2>5, <3>1, <3>2
    <3> QED
      BY <3>3, <2>4, <2>5 DEF Known, Told, ResultsKnown
  <2> QED
    <3>1. \A s \in Subs : row'[s].status = "none" => row'[s].reported
      BY <2>2, <2>4 DEF Told, ResultsKnown
    <3>2. ResultsKnown'
      BY <2>1, <2>2, <3>1, <1>results
    <3>3. \A s \in Subs : row'[s].result = row[s].result
      BY <2>2
    <3>4. \A s \in Subs : ~row'[s].reported => row'[s].result \notin opened /\ row'[s].result \notin waker.news
      BY <2>4, <2>5, <3>3 DEF Told, NewsUntold
    <3>5. \A s \in waker.chosen : row'[s].result \notin opened
      BY <2>1, <3>3, <1>n DEF Told, NewsUntold
    <3> QED
      BY <2>1, <2>3, <3>2, <3>4, <3>5 DEF Told, NewsUntold
<1>4. CASE WakeFails
  <2>1. /\ waker.at = "start" /\ waker'.at = "idle" /\ UNCHANGED <<work, call, opened, failed>>
    BY <1>4 DEF WakeFails, Awake
  <2>2. \A s \in Subs : /\ row'[s].result = row[s].result /\ row'[s].status = row[s].status
                        /\ \/ s \in waker.chosen /\ s \in Known
                           \/ (row[s].reported => row'[s].reported)
    <3>1. ASSUME NEW s \in Subs
          PROVE  /\ row'[s].result = row[s].result /\ row'[s].status = row[s].status
                 /\ \/ s \in waker.chosen /\ s \in Known
                    \/ (row[s].reported => row'[s].reported)
      <4>1. row'[s] = IF s \in waker.chosen /\ s \in Known THEN [row[s] EXCEPT !.reported = FALSE] ELSE row[s]
        BY <1>4 DEF WakeFails, Reported
      <4>2. CASE s \in waker.chosen /\ s \in Known
        BY <4>1, <4>2, <1>t DEF RowType
      <4>3. CASE ~(s \in waker.chosen /\ s \in Known)
        BY <4>1, <4>3
      <4> QED
        BY <4>2, <4>3
    <3> QED
      BY <3>1
  <2>3. RunningIsBacked'
    BY <2>1, <2>2, <1>t, <1>back, BackedKept DEF RowsRest
  <2>4. \A s \in Subs : ~row'[s].reported => row'[s].result \notin opened
    BY <2>1, <2>2 DEF Told, NewsUntold
  <2> QED
    <3>1. \A s \in Subs : row'[s].status = "none" => row'[s].reported
      BY <2>2 DEF Told, ResultsKnown, Known
    <3> QED
      BY <2>1, <2>2, <2>3, <2>4, <3>1, <1>results DEF Told, NewsUntold
<1>5. ASSUME NEW l \in Leads, WakeStarts(l) PROVE Told' /\ RunningIsBacked'
  <2>1. /\ waker.at = "start" /\ waker'.at = "idle" /\ UNCHANGED <<row, work, call, failed>>
        /\ opened' = opened \union waker.news
    BY <1>5 DEF WakeStarts, Awake
  <2>2. RunningIsBacked'
    BY <2>1, <1>t, <1>back, BackedKept, RowsStay
  <2>3. ResultsKnown'
    BY <2>1 DEF Told, ResultsKnown, NewsUntold
  <2>4. \A s \in Subs : ~row'[s].reported => row'[s].result \notin opened'
    BY <2>1 DEF Told, NewsUntold
  <2> QED
    BY <2>1, <2>2, <2>3, <2>4 DEF Told, NewsUntold
<1> QED
  BY <1>1, <1>2, <1>3, <1>4, <1>5 DEF WakeWork

(* A person, a stop, a deletion and the restart. *)
LEMMA PersonTells ==
  ASSUME Inv, TypeOK', Told, RunningIsBacked,
         \/ HandWork
         \/ \E l \in Leads : PersonStarts(l)
         \/ Stop("stop") \/ Stop("delete")
         \/ \E s \in Subs : StopSub(s)
         \/ BotQuiets \/ Restart
  PROVE  Told' /\ RunningIsBacked'
<1> USE DEF pending, rare, upset, but
<1>t. /\ RowType /\ WorkType /\ CallType /\ TypeOK
  BY TypeParts DEF Inv
<1>same. ASSUME WorkGrows, RowsQuiet, UNCHANGED <<opened, waker, call, failed>>, RowsRest,
                \A r \in Runs : work[r].at \in Working => work'[r].at \in Working /\ work'[r].of = work[r].of
         PROVE  Told' /\ RunningIsBacked'
  BY <1>same, <1>t, ToldKept, BackedKept DEF BackersStay
<1>1. CASE HandLists \/ HandTakes \/ HandDone \/ Stop("stop") \/ Stop("delete") \/ \E l \in Leads : PersonStarts(l)
  <2>1. UNCHANGED <<row, work, opened, waker, call, failed>>
    BY <1>1 DEF HandLists, HandTakes, HandDone, Stop, PersonStarts
  <2> QED
    BY <2>1, <1>same, RowsStay, WorkStays
<1>2. CASE HandQuiets \/ BotQuiets
  <2>1. RowsQuiet /\ RowsRest
    BY <1>2, <1>t, QuietStays DEF HandQuiets, BotQuiets, Statuses
  <2> QED
    BY <1>2, <2>1, <1>same, WorkStays DEF HandQuiets, BotQuiets
<1>3. CASE HandCuts \/ BotCuts \/ \E s \in Subs : StopSub(s)
  <2>1. \E W : CutSubs(W)
    BY <1>3 DEF HandCuts, BotCuts, StopSub
  <2>2. UNCHANGED <<row, opened, waker, call, failed>>
    BY <1>3 DEF HandCuts, BotCuts, StopSub
  <2> QED
    BY <2>1, <2>2, <1>t, <1>same, CutStays, RowsStay
<1>4. CASE HandDrops
  <2>1. \A s \in Subs : row'[s] = row[s] \/ row'[s] = NoRow
    BY <1>4, <1>t DEF HandDrops, RowType
  <2>2. NoRow.reported /\ NoRow.result = None /\ NoRow.status # "running"
    BY DEF NoRow
  <2>3. RowsQuiet /\ RowsRest
    BY <2>1, <2>2 DEF RowsQuiet, RowsRest
  <2> QED
    BY <1>4, <2>3, <1>same, WorkStays DEF HandDrops
<1>5. CASE Restart
  <2>1. waker'.at = "idle" /\ UNCHANGED <<opened, failed>> /\ Quiet("interrupted", Subs)
    BY <1>5 DEF Restart, Awake
  <2>2. RowsQuiet
    BY <2>1, <1>t, QuietStays DEF Statuses
  <2>3. WorkGrows
    <3>1. ASSUME NEW r \in Runs PROVE work'[r] = work[r] \/ work'[r] = [work[r] EXCEPT !.at = "over"]
      BY <1>5 DEF Restart
    <3> QED
      BY ZenonT(60), <3>1, <1>t DEF WorkGrows, WorkType, Settled
  <2>4. \A s \in Subs : row'[s].status # "running"
    BY <2>1, <1>t DEF Quiet, RowType
  <2>5. RunningIsBacked'
    BY <2>4 DEF RunningIsBacked
  <2> QED
    BY <2>1, <2>2, <2>3, <2>5, <1>t, ToldKept
<1> QED
  BY <1>1, <1>2, <1>3, <1>4, <1>5 DEF HandWork

LEMMA TellsInit == Init => Told /\ RunningIsBacked
<1> SUFFICES ASSUME Init PROVE Told /\ RunningIsBacked
  OBVIOUS
<1>1. \A s \in Subs : row[s].result = None /\ row[s].reported /\ row[s].status # "running"
  BY DEF Init, NoRow
<1>2. waker.at = "idle" /\ opened = {}
  BY DEF Init, Awake
<1> QED
  BY <1>1, <1>2 DEF Told, ResultsKnown, NewsUntold, RunningIsBacked

LEMMA TellsStep == Inv /\ Inv' /\ Told /\ RunningIsBacked /\ [Next]_vars => Told' /\ RunningIsBacked'
<1> SUFFICES ASSUME Inv, TypeOK', Told, RunningIsBacked, [Next]_vars PROVE Told' /\ RunningIsBacked'
  BY DEF Inv
<1>1. CASE Next
  <2>1. ASSUME NEW l \in Leads, LeadWork(l) \/ LeadCalls(l) \/ LeadCloses(l)
        PROVE  Told' /\ RunningIsBacked'
    BY <2>1, LeadTells
  <2>2. ASSUME NEW r \in Runs, RunWork(r) PROVE Told' /\ RunningIsBacked'
    BY <2>2, RunTells
  <2>3. ASSUME TimerFires \/ WakeWork PROVE Told' /\ RunningIsBacked'
    BY <2>3, WakeTells
  <2>4. ASSUME \/ HandWork
               \/ \E l \in Leads : PersonStarts(l)
               \/ Stop("stop") \/ Stop("delete")
               \/ \E s \in Subs : StopSub(s)
               \/ BotQuiets \/ Restart
        PROVE  Told' /\ RunningIsBacked'
    BY <2>4, PersonTells
  <2> QED
    BY <1>1, <2>1, <2>2, <2>3, <2>4 DEF Next, System
<1>2. CASE UNCHANGED vars
  <2> USE <1>2 DEF vars
  <2>1. Told'
    BY DEF Told, ResultsKnown, NewsUntold
  <2>2. RunningIsBacked'
    BY DEF RunningIsBacked
  <2> QED
    BY <2>1, <2>2
<1> QED
  BY <1>1, <1>2

LEMMA TellsAlways == Spec => [](Inv /\ Told /\ RunningIsBacked)
<1>1. Inv /\ Told /\ RunningIsBacked /\ [Next]_vars => (Inv /\ Told /\ RunningIsBacked)'
  BY InvStep, TellsStep
<1> QED
  BY <1>1, InvInit, TellsInit, PTL DEF Spec

(* No result opens two runs of the lead: whatever finishes, fails to start or
   is read between, wakeLead carries only what no earlier wake brought. *)
THEOREM ToldOnceHolds == Spec => []ToldOnce
<1>1. Inv /\ Told => ToldOnce
  BY DEF Told, NewsUntold, ToldOnce
<1> QED
  BY <1>1, TellsAlways, PTL

(* A subagent's row that says running has a run that will settle it or a call
   about to start one, unless its start failed. *)
THEOREM RunningIsBackedHolds == Spec => []RunningIsBacked
  BY TellsAlways, PTL
=============================================================================

----------------------------- MODULE Subagents -----------------------------
(***************************************************************************)
(* The subagents of one chat: src/internal/app/subagents*.go, with the     *)
(* parts of app.go, agent.go, ui.go and chats.go that start, stop and end  *)
(* their runs.  The lead's tool calls, the subagents' runs, the timer that *)
(* batches reports, the wake it sends the lead, a person who writes, stops *)
(* or deletes, and a restart all interleave between the code's own reads   *)
(* and writes; only convMu and App.mu make a step longer than one of them. *)
(***************************************************************************)
EXTENDS Naturals, FiniteSets

CONSTANTS NSubs,      \* bound: subagents a lead spawns
          NRuns,      \* bound: runs they have between them
          NLeads,     \* bound: lead runs whose goroutines overlap
          NCalls,     \* bound: the person's messages and the lead's tool calls
          MaxLive,    \* subagentMaxLive
          MaxDue,     \* bound: fired timers whose wakeLead waits for convMu
          MaxUpsets   \* bound: stops, deletions, restarts and failed starts

ASSUME BoundsAssumption ==
  /\ NSubs \in Nat /\ NRuns \in Nat /\ NLeads \in Nat /\ NCalls \in Nat
  /\ MaxLive \in Nat
  /\ MaxDue \in Nat /\ MaxUpsets \in Nat

Subs  == 1..NSubs
Runs  == 1..NRuns
Leads == 1..NLeads
None  == 0          \* no subagent, no run

VARIABLES row,      \* the Subagent rows: status, reported, whose result
          work,     \* the subagents' runs: how far, how it ended, of whom
          lead,     \* the lead's runs
          call,     \* the tool call each lead run is in
          wake,     \* a nudge waits in the lead run's wake channel
          timer,    \* App.wakeTimers holds a timer of this chat
          due,      \* fired timers whose wakeLead has not taken convMu
          waker,    \* the wakeLead that holds convMu
          hand,     \* the stop, Bot stop or deletion under way
          chat,     \* the lead's Chat row exists
          opened,   \* history: the results that opened a run of the lead
          lapse,    \* history: no wake is owed until something asks for one
          failed,   \* history: subagents whose StartRun failed
          shown,    \* history: the results agent_status gave a live lead run
          passed,   \* history: unread results marked or replaced, told to nobody
          calls, upsets

vars == <<row, work, lead, call, wake, timer, due, waker, hand, chat, opened,
          lapse, failed, shown, passed, calls, upsets>>
rare == <<chat, shown, passed, calls, upsets>>
but  == <<chat, shown, passed, upsets>>
upset == <<chat, shown, passed, calls>>
bounds == <<chat, calls, upsets>>
pending == <<timer, due, waker>>

-----------------------------------------------------------------------------
(* The runs that App.runs holds, and who is at a step that holds convMu. *)

Tracked   == {"live", "closing"}
SubLive(s) == \E r \in Runs : work[r].of = s /\ work[r].at \in Tracked
LeadLive  == \E l \in Leads : lead[l] \in Tracked
ConvFree  == /\ waker.at = "idle"
             /\ \A l \in Leads : call[l].at # "resume"

Known   == {s \in Subs : row[s].status # "none"}
Unread  == {s \in Known : row[s].status # "running" /\ ~row[s].reported}
Rest    == [op |-> "none", of |-> None, at |-> "", saw |-> None]
Awake   == [at |-> "idle", chosen |-> {}, news |-> {}]
Still   == [op |-> "none", todo |-> {}, at |-> "idle", of |-> None]
NoRow   == [status |-> "none", reported |-> TRUE, result |-> None]

\* The results that rows carry and nobody has been told of.
News(which) == {row[s].result : s \in which \cap Unread} \ {None}
Passes(results) == passed' = passed \union results

\* The next run and the next name, taken in order.
NextRun(r) == work[r].at = "none" /\ \A q \in Runs : work[q].at = "none" => r =< q
\* A subagent has a name of its own; that of a deleted one is given again only
\* when nothing of it is left.
Vacant == {s \in Subs \ Known : /\ \A r \in Runs : work[r].of = s => work[r].at \in {"none", "over"}
                               /\ \A l \in Leads : call[l].of # s}
NextSub(s) == s \in Vacant /\ \A t \in Vacant : s =< t
NextLead(l) == lead[l] = "none" /\ \A k \in Leads : lead[k] = "none" => l =< k

Started(s, r) == work' = [work EXCEPT ![r] = [at |-> "live", st |-> "", of |-> s]]

Quiet(status, which) ==
  row' = [s \in Subs |-> IF s \in which /\ row[s].status = "running"
                         THEN [row[s] EXCEPT !.status = status, !.reported = TRUE]
                         ELSE row[s]]

\* cancelRuns: a run past its last look at its context ends as it meant to.
Cut(at) == CASE at = "live" -> "cut" [] at = "closing" -> "ended" [] OTHER -> at
CutSubs(which) ==
  work' = [r \in Runs |->
             IF work[r].of \in which
             THEN [work[r] EXCEPT !.at = Cut(@),
                                  !.st = IF work[r].at = "closing" THEN "done" ELSE @]
             ELSE work[r]]
CutLead == /\ lead' = [l \in Leads |-> Cut(lead[l])]
           /\ lapse' = (lapse \/ \E l \in Leads : lead[l] = "live")

\* scheduleWake: the timer is set, or set again, when a result is unread.
ScheduleWake == /\ timer' = (timer \/ Unread # {})
                /\ lapse' = (lapse /\ Unread = {})

-----------------------------------------------------------------------------
(* The lead: its runs and its tool calls, one at a time in each run. *)

Does(l, op, s, at) == call' = [call EXCEPT ![l] = [op |-> op, of |-> s, at |-> at, saw |-> None]]
Goes(l, at) == call' = [call EXCEPT ![l].at = at]
Done(l) == call' = [call EXCEPT ![l] = Rest]
At(l, op, at) == call[l].op = op /\ call[l].at = at
Free(l) == lead[l] = "live" /\ call[l] = Rest
Upset == upsets < MaxUpsets /\ upsets' = upsets + 1
Counted == calls < NCalls /\ calls' = calls + 1
CanCall(l) == Free(l) /\ Counted

LiveCount == Cardinality({s \in Subs : SubLive(s)})

\* spawnAgent up to the person it asks: the limit is looked up here.
Spawn(l) == /\ CanCall(l)
            /\ Subs # Known
            /\ LiveCount < MaxLive
            /\ Does(l, "spawn", None, "ask")
            /\ UNCHANGED <<row, work, lead, wake, pending, hand, opened, lapse, failed, but>>

\* A call by name: the row is looked up, then a person may be asked.
Find(l, op) == \E s \in Known :
  /\ CanCall(l)
  /\ Does(l, op, s, "ask")
  /\ UNCHANGED <<row, work, lead, wake, pending, hand, opened, lapse, failed, but>>

\* AuthorizeAction refuses, or the run was cut while it waited.
Refused(l) == /\ call[l].at = "ask"
              /\ Done(l)
              /\ UNCHANGED <<row, work, lead, wake, pending, hand, opened, lapse, failed, rare>>

SpawnRow(l) == \E s \in Subs :
  /\ At(l, "spawn", "ask")
  /\ NextSub(s)
  /\ row' = [row EXCEPT ![s] = [status |-> "running", reported |-> TRUE, result |-> None]]
  /\ Does(l, "spawn", s, "start")
  /\ UNCHANGED <<work, lead, wake, pending, hand, opened, lapse, failed, rare>>

\* StartRun of a subagent's run; it fails for a disabled owner, or a row that
\* cannot be written.  Bound: also when no run is left.
StartRun(s) ==
  \/ /\ \E r \in Runs : NextRun(r) /\ Started(s, r)
     /\ failed' = failed \ {s}
     /\ UNCHANGED upsets
  \/ /\ Upset \/ (UNCHANGED upsets /\ \A r \in Runs : work[r].at # "none")
     /\ failed' = failed \union {s}
     /\ UNCHANGED work

SpawnStart(l) == LET s == call[l].of IN
  /\ At(l, "spawn", "start")
  /\ ConvFree
  /\ StartRun(s)
  /\ Done(l)
  /\ UNCHANGED <<row, lead, wake, pending, hand, opened, lapse, upset>>

\* messageSubagent: a live run takes the message or its inbox is full; the row
\* of one that is not live says running, and reported, before StartRun is tried:
\* a result of it that nobody has read is passed over.
Message(l) == LET s == call[l].of IN
  /\ At(l, "message", "ask")
  /\ ConvFree
  /\ IF SubLive(s)
     THEN Done(l) /\ UNCHANGED row
     ELSE /\ row' = IF s \in Known
                    THEN [row EXCEPT ![s].status = "running", ![s].reported = TRUE]
                    ELSE row
          /\ Goes(l, "resume")
  /\ Passes(IF SubLive(s) THEN {} ELSE News({s}))
  /\ UNCHANGED <<work, lead, wake, pending, hand, opened, lapse, failed, shown, bounds>>

MessageStart(l) == LET s == call[l].of IN
  /\ At(l, "message", "resume")
  /\ StartRun(s)
  /\ Done(l)
  /\ UNCHANGED <<row, lead, wake, pending, hand, opened, lapse, upset>>

\* stop_agent: live?, then the row is quieted, then its runs are cut.
StopAgent(l) == LET s == call[l].of IN
  /\ At(l, "stop", "ask")
  /\ IF SubLive(s) THEN Goes(l, "quiet") ELSE Done(l)
  /\ UNCHANGED <<row, work, lead, wake, pending, hand, opened, lapse, failed, rare>>

StopAgentQuiet(l) ==
  /\ At(l, "stop", "quiet")
  /\ Quiet("stopped", {call[l].of})
  /\ Goes(l, "cut")
  /\ UNCHANGED <<work, lead, wake, pending, hand, opened, lapse, failed, rare>>

StopAgentCut(l) ==
  /\ At(l, "stop", "cut")
  /\ CutSubs({call[l].of})
  /\ Done(l)
  /\ UNCHANGED <<row, lead, wake, pending, hand, opened, lapse, failed, rare>>

\* agent_status of one subagent: the row is read when the call is allowed, and
\* its result, as it was then, is given when no run is live any more.
DetailRead(l) == \E s \in Known :
  /\ CanCall(l)
  /\ call' = [call EXCEPT ![l] = [op |-> "detail", of |-> s, at |-> "mark", saw |-> row[s].result]]
  /\ UNCHANGED <<row, work, lead, wake, pending, hand, opened, lapse, failed, but>>

DetailMark(l) ==
  LET s     == call[l].of
      gives == IF lead[l] = "live" THEN {call[l].saw} \ {None} ELSE {}
  IN /\ At(l, "detail", "mark")
     /\ IF SubLive(s)
        THEN UNCHANGED <<row, shown, passed>>
        ELSE /\ row' = [row EXCEPT ![s].reported = TRUE]
             /\ shown' = shown \union gives
             /\ Passes(News({s}) \ gives)
     /\ Done(l)
     /\ UNCHANGED <<work, lead, wake, pending, hand, opened, lapse, failed, bounds>>

\* sleepTool: old nudges go, what already waits ends it, then it listens.
SleepDrain(l) == /\ CanCall(l)
                 /\ wake' = [wake EXCEPT ![l] = FALSE]
                 /\ Does(l, "sleep", None, "look")
                 /\ UNCHANGED <<row, work, lead, pending, hand, opened, lapse, failed, but>>

SleepStraight(l) == /\ At(l, "sleep", "look")
                    /\ Goes(l, "asleep")
                    /\ UNCHANGED <<row, work, lead, wake, pending, hand, opened, lapse, failed, rare>>

SleepLook(l) == /\ At(l, "sleep", "look")
                /\ IF Unread # {} THEN Done(l) ELSE Goes(l, "asleep")
                /\ UNCHANGED <<row, work, lead, wake, pending, hand, opened, lapse, failed, rare>>

SleepEnds(l) == /\ At(l, "sleep", "asleep")
                /\ Done(l)
                /\ wake' = [wake EXCEPT ![l] = FALSE]    \* a nudge, the time, or the cut
                /\ UNCHANGED <<row, work, lead, pending, hand, opened, lapse, failed, rare>>

\* closeInbox, then finish: the row, untrackRun; then afterRun.
LeadCloses(l) == /\ Free(l)
                 /\ lead' = [lead EXCEPT ![l] = "closing"]
                 /\ UNCHANGED <<row, work, call, wake, pending, hand, opened, lapse, failed, rare>>

LeadUntracks(l) == /\ lead[l] = "closing"
                   /\ lead' = [lead EXCEPT ![l] = "ended"]
                   /\ UNCHANGED <<row, work, call, wake, pending, hand, opened, lapse, failed, rare>>

LeadAfterUnasked(l) == /\ lead[l] = "ended"
                       /\ lead' = [lead EXCEPT ![l] = "none"]
                       /\ UNCHANGED <<row, work, call, wake, pending, hand, opened, lapse, failed, rare>>

LeadAfter(l) == /\ lead[l] = "ended"
                /\ lead' = [lead EXCEPT ![l] = "none"]
                /\ ScheduleWake
                /\ UNCHANGED <<row, work, call, wake, due, waker, hand, opened, failed, rare>>

\* A run that was cut leaves as stopped, which wakes nobody.
LeadLeaves(l) == /\ lead[l] = "cut" /\ call[l] = Rest
                 /\ lead' = [lead EXCEPT ![l] = "none"]
                 /\ UNCHANGED <<row, work, call, wake, pending, hand, opened, lapse, failed, rare>>

LeadStarts(l) == /\ lead' = [lead EXCEPT ![l] = "live"]
                 /\ wake' = [wake EXCEPT ![l] = FALSE]

-----------------------------------------------------------------------------
(* A subagent's run, from its last turn to the report it leaves. *)

Moves(r, at) == work' = [work EXCEPT ![r].at = at]

WorkCloses(r) == /\ work[r].at = "live"
                 /\ Moves(r, "closing")
                 /\ UNCHANGED <<row, lead, call, wake, pending, hand, opened, lapse, failed, rare>>

WorkUntracks(r) == /\ work[r].at \in {"closing", "cut"}
                   /\ work' = [work EXCEPT ![r].at = "ended",
                                 ![r].st = IF work[r].at = "cut" THEN "stopped" ELSE "done"]
                   /\ UNCHANGED <<row, lead, call, wake, pending, hand, opened, lapse, failed, rare>>

QuietedWhenStopped(r) == work[r].st = "stopped"

\* A stop the lead already knows about.
Quieted(r) == /\ work[r].st = "stopped"
              /\ row[work[r].of].status # "running"
              /\ row[work[r].of].reported

\* afterRun reads the row: a dropped one is nobody's, a quieted one is left be.
AfterReads(r) == LET gone == work[r].of \notin Known IN
  /\ work[r].at = "ended"
  /\ Moves(r, IF gone \/ Quieted(r) THEN "over" ELSE "read")
  /\ UNCHANGED <<row, lead, call, wake, pending, hand, opened, lapse, failed, rare>>

\* Resumed while this run was unwinding: the new run reports.
AfterLooks(r) ==
  /\ work[r].at = "read"
  /\ Moves(r, IF SubLive(work[r].of) THEN "over" ELSE "posting")
  /\ UNCHANGED <<row, lead, call, wake, pending, hand, opened, lapse, failed, rare>>

AfterPostsBlank(r) == LET s == work[r].of IN
  /\ work[r].at = "posting"
  /\ row' = [row EXCEPT ![s] = [status |-> "", reported |-> FALSE, result |-> r]]
  /\ Moves(r, "posted")
  /\ UNCHANGED <<lead, call, wake, pending, hand, opened, lapse, failed, rare>>

AfterPosts(r) == LET s == work[r].of IN
  /\ work[r].at = "posting"
  /\ row' = IF s \in Known
            THEN [row EXCEPT ![s] = [status |-> work[r].st, reported |-> FALSE, result |-> r]]
            ELSE row
  /\ Passes(News({s}))
  /\ Moves(r, "posted")
  /\ UNCHANGED <<lead, call, wake, pending, hand, opened, lapse, failed, shown, bounds>>

AfterNudges(r) ==
  /\ work[r].at = "posted"
  /\ wake' = [l \in Leads |-> wake[l] \/ lead[l] \in Tracked]
  /\ Moves(r, "nudged")
  /\ UNCHANGED <<row, lead, call, pending, hand, opened, lapse, failed, rare>>

AfterOnlyNudged(r) ==
  /\ work[r].at = "nudged"
  /\ Moves(r, "over")
  /\ UNCHANGED <<row, lead, call, wake, pending, hand, opened, lapse, failed, rare>>

AfterSchedules(r) ==
  /\ work[r].at = "nudged"
  /\ Moves(r, "over")
  /\ ScheduleWake
  /\ UNCHANGED <<row, lead, call, wake, due, waker, hand, opened, failed, rare>>

-----------------------------------------------------------------------------
(* The wake: the timer, and wakeLead under convMu. *)

TimerFires == /\ timer /\ due < MaxDue
              /\ timer' = FALSE
              /\ due' = due + 1
              /\ UNCHANGED <<row, work, lead, call, wake, waker, hand, opened, lapse, failed, rare>>

WakeLooks == /\ due > 0 /\ ConvFree
             /\ due' = due - 1
             /\ waker' = IF LeadLive \/ ~chat \/ Unread = {} THEN Awake
                         ELSE [at |-> "mark", chosen |-> Unread,
                               news |-> News(Subs)]
             /\ UNCHANGED <<row, work, lead, call, wake, timer, hand, opened, lapse, failed, rare>>

Reported(which, b) == row' = [s \in Subs |-> IF s \in which \cap Known
                                             THEN [row[s] EXCEPT !.reported = b] ELSE row[s]]

WakeMarksOne == /\ waker.at = "mark"
                /\ \E s \in waker.chosen : Reported({s}, TRUE)
                /\ waker' = [waker EXCEPT !.at = "start"]
                /\ UNCHANGED <<work, lead, call, wake, timer, due, hand, opened, lapse, failed, rare>>

\* The rows are marked by name: what was posted since they were read is marked
\* with what was.
WakeMarks == /\ waker.at = "mark"
             /\ Reported(waker.chosen, TRUE)
             /\ Passes(News(waker.chosen) \ waker.news)
             /\ waker' = [waker EXCEPT !.at = "start"]
             /\ UNCHANGED <<work, lead, call, wake, timer, due, hand, opened, lapse, failed,
                            shown, bounds>>

WakeStarts(l) == /\ waker.at = "start"
                 /\ NextLead(l)
                 /\ LeadStarts(l)
                 /\ opened' = opened \union waker.news
                 /\ waker' = Awake
                 /\ UNCHANGED <<row, work, call, timer, due, hand, lapse, failed, rare>>

WakeFails == /\ waker.at = "start" /\ Upset
             /\ Reported(waker.chosen, FALSE)
             /\ waker' = Awake
             /\ lapse' = TRUE
             /\ UNCHANGED <<work, lead, call, wake, timer, due, hand, opened, failed, upset>>

-----------------------------------------------------------------------------
(* A person: writes to the lead, stops, deletes.  And the restart. *)

PersonStartsBesideWake(l) ==
  /\ chat /\ ~LeadLive
  /\ NextLead(l) /\ Counted
  /\ LeadStarts(l)
  /\ UNCHANGED <<row, work, call, pending, hand, opened, lapse, failed, but>>

PersonStarts(l) == /\ chat /\ ConvFree /\ ~LeadLive
                   /\ NextLead(l) /\ Counted
                   /\ LeadStarts(l)
                   /\ UNCHANGED <<row, work, call, pending, hand, opened, lapse, failed, but>>

\* StopRun and DeleteChat cut the lead first, then read who its subagents are.
Stop(op) == /\ hand = Still /\ Upset /\ chat
            /\ CutLead
            /\ hand' = [Still EXCEPT !.op = op, !.at = "list"]
            /\ UNCHANGED <<row, work, call, wake, pending, opened, failed, upset>>

HandLists == /\ hand.at = "list"
             /\ hand' = [hand EXCEPT !.todo = Known, !.at = "next"]
             /\ UNCHANGED <<row, work, lead, call, wake, pending, opened, lapse, failed, rare>>

\* stopSubagents passes over one that is not live; dropSubagents takes all.
HandTakes == \E s \in hand.todo :
  /\ hand.at = "next"
  /\ hand' = IF hand.op = "stop" /\ ~SubLive(s)
             THEN [hand EXCEPT !.todo = @ \ {s}]
             ELSE [hand EXCEPT !.todo = @ \ {s}, !.of = s, !.at = "quiet"]
  /\ UNCHANGED <<row, work, lead, call, wake, pending, opened, lapse, failed, rare>>

HandQuiets == /\ hand.at = "quiet"
              /\ Quiet("stopped", {hand.of})
              /\ hand' = [hand EXCEPT !.at = "cut"]
              /\ UNCHANGED <<work, lead, call, wake, pending, opened, lapse, failed, rare>>

HandCuts == /\ hand.at = "cut"
            /\ CutSubs({hand.of})
            /\ hand' = [hand EXCEPT !.at = IF hand.op = "stop" THEN "next" ELSE "drop"]
            /\ UNCHANGED <<row, lead, call, wake, pending, opened, lapse, failed, rare>>

HandDrops == /\ hand.at = "drop"
             /\ row' = [row EXCEPT ![hand.of] = NoRow]
             /\ hand' = [hand EXCEPT !.at = "next"]
             /\ UNCHANGED <<work, lead, call, wake, pending, opened, lapse, failed, rare>>

HandDone == /\ hand.at = "next" /\ hand.todo = {}
            /\ hand' = Still
            /\ chat' = (chat /\ hand.op = "stop")
            /\ UNCHANGED <<row, work, lead, call, wake, pending, opened, lapse, failed,
                           shown, passed, calls, upsets>>

\* Stop on a subagent's own page.
StopSub(s) == /\ s \in Known /\ Upset
              /\ CutSubs({s})
              /\ UNCHANGED <<row, lead, call, wake, pending, hand, opened, lapse, failed, upset>>

\* cancelBot: every row is quieted, then every run of the Bot is cut.
BotQuiets == /\ hand = Still /\ Upset
             /\ Quiet("interrupted", Subs)
             /\ hand' = [Still EXCEPT !.op = "bot", !.at = "all"]
             /\ UNCHANGED <<work, lead, call, wake, pending, opened, lapse, failed, upset>>

BotCuts == /\ hand.at = "all"
           /\ CutSubs(Subs) /\ CutLead
           /\ hand' = Still
           /\ UNCHANGED <<row, call, wake, pending, opened, failed, rare>>

\* A restart, with recoverOrphans: the rows that ran are settled, timers are gone.
Restart == /\ Upset
           /\ Quiet("interrupted", Subs)
           /\ work' = [r \in Runs |-> IF work[r].at = "none" THEN work[r]
                                      ELSE [work[r] EXCEPT !.at = "over"]]
           /\ lead' = [l \in Leads |-> "none"]
           /\ call' = [l \in Leads |-> Rest]
           /\ wake' = [l \in Leads |-> FALSE]
           /\ timer' = FALSE /\ due' = 0 /\ waker' = Awake
           /\ hand' = Still /\ lapse' = TRUE
           /\ UNCHANGED <<opened, failed, upset>>

-----------------------------------------------------------------------------
Init == /\ row = [s \in Subs |-> NoRow]
        /\ work = [r \in Runs |-> [at |-> "none", st |-> "", of |-> None]]
        /\ lead = [l \in Leads |-> "none"]
        /\ call = [l \in Leads |-> Rest]
        /\ wake = [l \in Leads |-> FALSE]
        /\ timer = FALSE /\ due = 0 /\ waker = Awake
        /\ hand = Still /\ chat = TRUE
        /\ opened = {} /\ lapse = FALSE /\ failed = {} /\ shown = {} /\ passed = {}
        /\ calls = 0 /\ upsets = 0

\* What a lead run goes on to do by itself once it is in a call or ending.
LeadWork(l) == \/ Refused(l) \/ SpawnRow(l) \/ SpawnStart(l)
               \/ Message(l) \/ MessageStart(l)
               \/ StopAgent(l) \/ StopAgentQuiet(l) \/ StopAgentCut(l)
               \/ DetailMark(l) \/ SleepLook(l) \/ SleepEnds(l)
               \/ LeadUntracks(l) \/ LeadAfter(l) \/ LeadLeaves(l)
LeadCalls(l) == \/ Spawn(l) \/ Find(l, "message") \/ Find(l, "stop")
                \/ DetailRead(l) \/ SleepDrain(l)
RunWork(r) == \/ WorkCloses(r) \/ WorkUntracks(r) \/ AfterReads(r) \/ AfterLooks(r)
              \/ AfterPosts(r) \/ AfterNudges(r) \/ AfterSchedules(r)
WakeWork == WakeLooks \/ WakeMarks \/ (\E l \in Leads : WakeStarts(l)) \/ WakeFails
HandWork == HandLists \/ HandTakes \/ HandQuiets \/ HandCuts \/ HandDrops \/ HandDone \/ BotCuts

\* What happens by itself: goroutines run, timers fire, requests go on.
System == \/ \E l \in Leads : LeadWork(l) \/ LeadCloses(l)
          \/ \E r \in Runs : RunWork(r)
          \/ TimerFires \/ WakeWork \/ HandWork

Next == \/ System
        \/ \E l \in Leads : LeadCalls(l) \/ PersonStarts(l)
        \/ Stop("stop") \/ Stop("delete")
        \/ \E s \in Subs : StopSub(s)
        \/ BotQuiets \/ Restart

\* Messages and tool calls are bounded, so the system comes to rest; it does
\* not rest while a goroutine, a timer or a request of its own can still move.
Fairness == WF_vars(System)

Spec == Init /\ [][Next]_vars /\ Fairness

-----------------------------------------------------------------------------
(* Properties. *)

Statuses == {"none", "running", "done", "stopped", "interrupted"}

TypeOK ==
  /\ row \in [Subs -> [status : Statuses, reported : BOOLEAN, result : Runs \union {None}]]
  /\ work \in [Runs -> [at : {"none", "live", "closing", "cut", "ended", "read", "posting",
                              "posted", "nudged", "over"},
                        st : {"", "done", "stopped"}, of : Subs \union {None}]]
  /\ lead \in [Leads -> {"none", "live", "closing", "cut", "ended"}]
  /\ call \in [Leads -> [op : {"none", "spawn", "message", "stop", "detail", "sleep"},
                         of : Subs \union {None},
                         at : {"", "ask", "start", "resume", "quiet", "cut", "mark", "look", "asleep"},
                         saw : Runs \union {None}]]
  /\ wake \in [Leads -> BOOLEAN]
  /\ timer \in BOOLEAN /\ due \in 0..MaxDue
  /\ waker \in [at : {"idle", "mark", "start"}, chosen : SUBSET Subs, news : SUBSET Runs]
  /\ hand \in [op : {"none", "stop", "delete", "bot"}, todo : SUBSET Subs,
               at : {"idle", "list", "next", "quiet", "cut", "drop", "all"},
               of : Subs \union {None}]
  /\ chat \in BOOLEAN /\ opened \subseteq Runs
  /\ lapse \in BOOLEAN /\ failed \subseteq Subs \union {None}
  /\ shown \subseteq Runs /\ passed \subseteq Runs
  /\ calls \in 0..NCalls /\ upsets \in 0..MaxUpsets

\* The lead has one live run, whoever starts it: a person, or the wake that a
\* finish, a failed start or the end of another lead run asked for.
OneLead == \A l, k \in Leads : lead[l] \in Tracked /\ lead[k] \in Tracked => l = k

\* "A second run beside it would interleave the conversation": one live run in
\* the log of a subagent.
OneEach == \A q, r \in Runs : /\ work[q].at \in Tracked /\ work[r].at \in Tracked
                             /\ work[q].of = work[r].of
                             => q = r

\* A result opens at most one run of the lead: a wake never carries a result an
\* earlier wake brought, whatever finished, failed or was read in between.
ToldOnce == waker.at = "start" => waker.news \cap opened = {}

\* sleep does not miss what it waits for: while a run sleeps with a result
\* waiting, a nudge is in its channel or on its way there.
NoLostWakeup ==
  \A l \in Leads :
    At(l, "sleep", "asleep") /\ lead[l] = "live" /\ Unread # {}
      => wake[l] \/ \E r \in Runs : work[r].at = "posted"

\* A row that says running has a run that will settle it, a call about to start
\* one, or a StartRun that failed after the row was written.
RunningIsBacked ==
  \A s \in Subs : row[s].status = "running" =>
    \/ s \in failed
    \/ \E r \in Runs : work[r].of = s /\ work[r].at \notin {"none", "posted", "nudged", "over"}
    \/ \E l \in Leads : call[l].of = s /\ call[l].at \in {"start", "resume"}

\* A wake is owed for every unread result, and something that will look for it
\* is under way: the lead's own run, the finisher, the timer or wakeLead.
WakeIsOwed ==
  Unread # {} /\ ~lapse /\ chat =>
    \/ timer \/ due > 0 \/ waker.at # "idle"
    \/ \E r \in Runs : work[r].at \in {"posted", "nudged"}
    \/ \E l \in Leads : lead[l] \in Tracked \union {"ended"}

\* A result posted for the lead is told to it: it opens a run of the lead, or
\* agent_status gives it to one.  Exempt is a result the code passes over: one
\* whose subagent is messaged again before it was read, one a later result of
\* the subagent replaces, and one marked by a wake or an agent_status that had
\* read an older result or answered a run already cut (passed).  So is what
\* nothing looks for any more: the lead was stopped, its start failed or the
\* control plane restarted (lapse), or the chat is deleted.
ResultReachesLead ==
  \A r \in Runs :
    r \in News(Subs) ~> (r \in opened \union shown \union passed \/ lapse \/ ~chat)

\* "stopSubagents stops every live subagent of a lead chat without waking it":
\* what a stop has quieted does not become news while it is being stopped.
StopIsQuiet == hand.op = "stop" /\ hand.at = "cut" => hand.of \notin Unread

\* "At most MaxLive subagents may run at once".
LiveLimit == LiveCount =< MaxLive

\* agent_status gives the result it marks as seen.
SeenIsShown ==
  \A l \in Leads : At(l, "detail", "mark") =>
    LET s == call[l].of IN
      s \in Unread /\ ~SubLive(s) => call[l].saw = row[s].result
=============================================================================

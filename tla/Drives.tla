------------------------------- MODULE Drives -------------------------------
(***************************************************************************)
(* The sign-in of one drive mounted in several Bots                        *)
(* (internal/app/drive/drive.go, internal/drivehost).  Each Bot's sidecar  *)
(* runs rclone, which refreshes the token by itself; the sidecar reports a *)
(* refresh to the control plane, which keeps it in the drive's row and     *)
(* applies it to the other Bots.  Sessions come and go; a mount outlives   *)
(* them.                                                                   *)
(*                                                                         *)
(* Tokens are numbered as the provider issues them: it honours the last    *)
(* one only (a refresh kills the token it was made with).                  *)
(***************************************************************************)
EXTENDS Integers, Sequences

CONSTANTS NBots,     \* Bots the drive is granted to
          MaxIssued, \* tokens the provider issues
          OutboxCap, \* frames the sidecar holds (256)
          MaxSlips   \* sessions lost, and crashes of rclone

ASSUME DriveBounds ==
  {NBots, MaxIssued, OutboxCap} \subseteq Nat \ {0} /\ MaxSlips \in Nat

Bots   == 1..NBots
Issued == 1..MaxIssued

VARIABLES kept,     \* the drive's row: its token
          newest,   \* the last token issued
          online,   \* Bots whose sidecar has a session
          applies,  \* DriveApply frames on their way to a sidecar
          reports,  \* token frames on their way to the control plane
          rendered, \* desired sets rendered and not pushed yet
          spec,     \* the token a mount was started with
          last,     \* the last token the sidecar saw on it
          conf,     \* the one in rclone's config file
          slips,
          cutOff,   \* history: rclone's newest token went with its file
          spilled,  \* history: a token frame found the outbox full
          setBack   \* history: mounts restarted on an older token; 0 is the row,
                    \* written with an older one

driveVars == <<kept, newest, online, applies, reports, rendered, spec, last, conf,
               slips, cutOff, spilled, setBack>>

DrivesInit ==
  /\ kept = 1 /\ newest = 1 /\ online = Bots
  /\ applies = [b \in Bots |-> << >>] /\ reports = [b \in Bots |-> << >>]
  /\ rendered = [b \in Bots |-> {}]
  /\ spec = [b \in Bots |-> 1] /\ last = spec /\ conf = spec
  /\ slips = 0 /\ cutOff = {} /\ spilled = FALSE /\ setBack = {}

Reported(b, t) ==
  IF Len(reports[b]) < OutboxCap
  THEN reports' = [reports EXCEPT ![b] = Append(@, t)] /\ UNCHANGED spilled
  ELSE spilled' = TRUE /\ UNCHANGED reports

-----------------------------------------------------------------------------
(* rclone refreshes the token in its file.                                 *)
RcloneRefreshes(b) ==
  /\ conf[b] = newest /\ newest < MaxIssued
  /\ newest' = newest + 1 /\ conf' = [conf EXCEPT ![b] = newest + 1]
  /\ UNCHANGED <<kept, online, applies, reports, rendered, spec, last, slips, cutOff, spilled,
                 setBack>>

(* watch sees it at its next look and reports it.                          *)
WatchSees(b) ==
  /\ conf[b] # last[b] /\ last' = [last EXCEPT ![b] = conf[b]]
  /\ Reported(b, conf[b])
  /\ UNCHANGED <<kept, newest, online, applies, rendered, spec, conf, slips, cutOff, setBack>>

(* rclone stops; loop starts it again on the last token seen.              *)
RcloneExits(b) ==
  /\ slips < MaxSlips /\ slips' = slips + 1
  /\ cutOff' = IF conf[b] # last[b] THEN cutOff \union {b} ELSE cutOff
  /\ conf' = [conf EXCEPT ![b] = last[b]]
  /\ UNCHANGED <<kept, newest, online, applies, reports, rendered, spec, last, spilled, setBack>>

(* Apply: a token the mount has not seen is taken for a fresh sign-in, and *)
(* the mount starts again on it.                                           *)
IgnoresToken(b) ==
  /\ b \in online /\ applies[b] # << >>
  /\ applies' = [applies EXCEPT ![b] = Tail(@)]
  /\ UNCHANGED <<kept, newest, online, reports, rendered, spec, last, conf, slips, cutOff,
                 spilled, setBack>>
GetsApply(b) ==
  /\ b \in online /\ applies[b] # << >>
  /\ applies' = [applies EXCEPT ![b] = Tail(@)]
  /\ LET t == Head(applies[b]) IN
       IF t = last[b] THEN UNCHANGED <<spec, last, conf, cutOff, setBack>>
       ELSE /\ spec' = [spec EXCEPT ![b] = t] /\ last' = [last EXCEPT ![b] = t]
            /\ conf' = [conf EXCEPT ![b] = t]
            /\ cutOff' = IF conf[b] # last[b] THEN cutOff \union {b} ELSE cutOff
            /\ setBack' = IF t < last[b] THEN setBack \union {b} ELSE setBack
  /\ UNCHANGED <<kept, newest, online, reports, rendered, slips, spilled>>

-----------------------------------------------------------------------------
(* saveDriveToken keeps a token a sidecar reports, and renders it for the  *)
(* other Bots.                                                             *)
SavesOnly(b) ==
  /\ b \in online /\ reports[b] # << >>
  /\ reports' = [reports EXCEPT ![b] = Tail(@)] /\ kept' = Head(reports[b])
  /\ UNCHANGED <<newest, online, applies, rendered, spec, last, conf, slips, cutOff, spilled,
                 setBack>>
SavesToken(b) ==
  LET t == Head(reports[b]) IN
  /\ b \in online /\ reports[b] # << >>
  /\ reports' = [reports EXCEPT ![b] = Tail(@)]
  /\ kept' = t /\ setBack' = IF t < kept THEN setBack \union {0} ELSE setBack
  /\ rendered' = IF t = kept THEN rendered
                 ELSE [o \in Bots |-> IF o = b THEN rendered[o] ELSE rendered[o] \union {t}]
  /\ UNCHANGED <<newest, online, applies, spec, last, conf, slips, cutOff, spilled>>

(* ensureDrives renders for a run that is about to use the drives.         *)
RendersForRun(b) ==
  /\ b \in online /\ kept \notin rendered[b]
  /\ rendered' = [rendered EXCEPT ![b] = @ \union {kept}]
  /\ UNCHANGED <<kept, newest, online, applies, reports, spec, last, conf, slips, cutOff, spilled,
                 setBack>>

(* A rendered set goes to the session there is; none needs it, the next    *)
(* one starts from a set of its own.                                       *)
PushesApply(b, t) ==
  /\ t \in rendered[b] /\ Len(applies[b]) < OutboxCap
  /\ rendered' = [rendered EXCEPT ![b] = @ \ {t}]
  /\ applies' = IF b \in online THEN [applies EXCEPT ![b] = Append(@, t)] ELSE applies
  /\ UNCHANGED <<kept, newest, online, reports, spec, last, conf, slips, cutOff, spilled, setBack>>

(* A person signs in again: applied to every Bot.                          *)
SignsInAgain ==
  /\ newest < MaxIssued
  /\ newest' = newest + 1 /\ kept' = newest + 1
  /\ rendered' = [b \in Bots |-> rendered[b] \union {newest + 1}]
  /\ UNCHANGED <<online, applies, reports, spec, last, conf, slips, cutOff, spilled, setBack>>

-----------------------------------------------------------------------------
(* A session ends: what is on its way is lost, what the sidecar still      *)
(* holds is not.                                                           *)
SessionLost(b) ==
  /\ b \in online /\ slips < MaxSlips /\ slips' = slips + 1
  /\ online' = online \ {b}
  /\ applies' = [applies EXCEPT ![b] = << >>]
  /\ \E k \in 0..Len(reports[b]) :
       /\ reports' = [reports EXCEPT ![b] = SubSeq(@, k + 1, Len(@))]
       /\ cutOff' = IF \E i \in 1..k : reports[b][i] # last[b] THEN cutOff \union {b} ELSE cutOff
  /\ UNCHANGED <<kept, newest, rendered, spec, last, conf, spilled, setBack>>

(* A new session: the sidecar sends its snapshot, and the control plane    *)
(* the set it renders then.                                                *)
NoSnapshot(b) == << >>
Snapshot(b) == IF last[b] # spec[b] THEN <<last[b]>> ELSE << >>
SessionOpens(b) ==
  /\ b \notin online /\ online' = online \union {b}
  /\ applies' = [applies EXCEPT ![b] = <<kept>>]
  /\ reports' = [reports EXCEPT ![b] = Snapshot(b) \o @]
  /\ UNCHANGED <<kept, newest, rendered, spec, last, conf, slips, cutOff, spilled, setBack>>

-----------------------------------------------------------------------------
DrivesNext ==
  \/ SignsInAgain
  \/ \E b \in Bots :
       \/ RcloneRefreshes(b) \/ WatchSees(b) \/ RcloneExits(b) \/ GetsApply(b)
       \/ SavesToken(b) \/ RendersForRun(b) \/ SessionLost(b) \/ SessionOpens(b)
       \/ \E t \in Issued : PushesApply(b, t)
DrivesSpec == DrivesInit /\ [][DrivesNext]_driveVars

-----------------------------------------------------------------------------
(* Every variable of the drive keeps its type.                             *)
DrivesTypeOK ==
  /\ kept \in Issued /\ newest \in Issued /\ online \subseteq Bots
  /\ applies \in [Bots -> Seq(Issued)] /\ reports \in [Bots -> Seq(Issued)]
  /\ \A b \in Bots : Len(applies[b]) <= OutboxCap /\ Len(reports[b]) <= OutboxCap + MaxSlips
  /\ rendered \in [Bots -> SUBSET Issued]
  /\ {spec, last, conf} \subseteq [Bots -> Issued]
  /\ slips \in 0..MaxSlips /\ cutOff \subseteq Bots /\ spilled \in BOOLEAN
  /\ setBack \subseteq Bots \union {0}

(* When all that was sent has arrived, the row and every sidecar hold the  *)
(* same token, whoever refreshed it and whichever sessions were lost --    *)
(* unless one of them was set back to an older one.                        *)
Settled ==
  /\ online = Bots
  /\ \A b \in Bots : /\ applies[b] = << >> /\ reports[b] = << >> /\ rendered[b] = {}
                     /\ conf[b] = last[b]
SettledAgree ==
  (Settled /\ setBack = {} /\ ~spilled) => \A b \in Bots : last[b] = kept

(* The token the provider honours is known to the control plane once all   *)
(* has arrived, even if the session it was reported on was lost.           *)
RefreshIsKept ==
  (Settled /\ 0 \notin setBack /\ cutOff = {} /\ ~spilled) => kept = newest

(* "A CP restart must not unmount the Bot's drives": a mount is not started *)
(* again on a token older than the one it has.                             *)
MountIsKept == setBack \subseteq {0}

(* What holds of a drive's token, wherever it is held, in every state.     *)
DrivesSafe == DrivesTypeOK /\ SettledAgree /\ RefreshIsKept
=============================================================================

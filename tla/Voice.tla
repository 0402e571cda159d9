--------------------------------- MODULE Voice ---------------------------------
(***************************************************************************)
(* One voice call (internal/app/voice/call.go, out.go): what the Bot       *)
(* writes is followed on the bus and read aloud piece by piece, a human    *)
(* who speaks cuts it off, spoken turns are heard one by one and handed to *)
(* the Bot, and the call ends without losing what was said on it.          *)
(*                                                                         *)
(* Left out: the talker, turns heard live, the state and words shown, the  *)
(* frames of a piece, ducking, the call's own sentences (not heard, failed,*)
(* approval wanted), and a second call that takes over (it ends this one   *)
(* like any other cause).                                                  *)
(***************************************************************************)
EXTENDS Naturals, FiniteSets, SequencesExt

CONSTANTS NAnswers, \* model turns the Bot writes in the chat
          NPieces,  \* pieces of speech in all of them
          NTurns,   \* turns the human speaks, times the browser is sure of speech
          TurnCap,  \* call.turns (4 in the code)
          FeedCap   \* the subscription's channel (256 in the code)

ASSUME VoiceBounds ==
  /\ NAnswers \in Nat /\ NPieces \in Nat \ {0} /\ NTurns \in Nat
  /\ TurnCap \in Nat \ {0} /\ FeedCap \in Nat \ {0}

VARIABLES callState, \* open, canceled, closed (goodbye said), ended
          reader,    \* the goroutine that reads the browser: on, flushed, off
          spoken, browserCuts, \* turns and cuts the browser has sent
          turns,     \* call.turns
          listener,  \* waits, hears, flushed, hands, or is done
          hearing,   \* the turn it hears
          dealt,     \* turns dealt with, in order
          refused,   \* turns dropped: too many waiting
          tooLate,   \* history: turns that came when nobody listened any more
          answer,    \* the turn the Bot writes, 0 between two
          answers, written, \* turns begun, pieces published
          feedOf,    \* the subscription: events not read yet
          deaf,      \* the bus has cut the subscription off
          follower,  \* follow: next, checks, says
          inHand,    \* the piece it holds
          open,      \* the model turn that is being read, call.replies
          muted,     \* call.muted has its run
          outbox,    \* pieces queued to be spoken
          unsaid,    \* history: pieces that were not even queued
          cutOff,    \* history: model turns a human spoke over
          slipped    \* history: pieces of those that were on their way into the queue

turnVars   == <<spoken, turns, listener, hearing, dealt, refused, tooLate>>
botVars    == <<answer, answers, written>>
followVars == <<follower, inHand, open, muted, unsaid>>
voiceVars  == <<callState, reader, browserCuts, turnVars, botVars, feedOf, deaf, followVars, outbox,
                cutOff, slipped>>

Answers == 1..NAnswers
Turns   == 1..NTurns
Piece   == [of : Answers, n : 0..NPieces]  \* 0: what its end leaves to be said
NoPiece == [of |-> 0, n |-> 0]

VoiceInit ==
  /\ callState = "open" /\ reader = "on" /\ browserCuts = 0
  /\ spoken = 0 /\ turns = <<>> /\ listener = "waits" /\ hearing = 0 /\ dealt = <<>>
  /\ refused = {} /\ tooLate = {}
  /\ answer = 0 /\ answers = 0 /\ written = 0
  /\ feedOf = <<>> /\ deaf = FALSE
  /\ follower = "next" /\ inHand = NoPiece /\ open = 0 /\ muted = FALSE
  /\ outbox = <<>> /\ unsaid = {} /\ cutOff = {} /\ slipped = {}

-----------------------------------------------------------------------------
(* The Bot's events reach a subscriber that keeps up.                      *)
PublishToCall(ev) ==
  IF deaf \/ callState # "open" THEN UNCHANGED <<feedOf, deaf>>
  ELSE IF Len(feedOf) = FeedCap THEN deaf' = TRUE /\ UNCHANGED feedOf
  ELSE feedOf' = Append(feedOf, ev) /\ UNCHANGED deaf

BotBegins ==
  /\ answer = 0 /\ answers < NAnswers
  /\ answers' = answers + 1 /\ answer' = answers'
  /\ UNCHANGED <<callState, reader, browserCuts, turnVars, written, feedOf, deaf, followVars,
                 outbox, cutOff, slipped>>

BotWrites ==
  /\ answer # 0 /\ written < NPieces
  /\ written' = written + 1
  /\ PublishToCall([of |-> answer, n |-> written'])
  /\ UNCHANGED <<callState, reader, browserCuts, turnVars, answer, answers, followVars, outbox,
                 cutOff, slipped>>

(* assistant, section, tool or done: the model turn is over.               *)
BotEndsTurn ==
  /\ answer # 0
  /\ PublishToCall([of |-> answer, n |-> 0])
  /\ answer' = 0
  /\ UNCHANGED <<callState, reader, browserCuts, turnVars, answers, written, followVars, outbox,
                 cutOff, slipped>>

-----------------------------------------------------------------------------
Following == callState = "open" /\ follower = "next" /\ feedOf # <<>>

(* Text of a muted turn is not read.                                       *)
FollowChunk ==
  /\ Following /\ Head(feedOf).n # 0
  /\ feedOf' = Tail(feedOf)
  /\ IF muted
     THEN unsaid' = unsaid \union {Head(feedOf)} /\ UNCHANGED <<follower, inHand, open>>
     ELSE /\ follower' = "checks" /\ inHand' = Head(feedOf) /\ open' = Head(feedOf).of
          /\ UNCHANGED unsaid
  /\ UNCHANGED <<callState, reader, browserCuts, turnVars, botVars, deaf, muted, outbox, cutOff,
                 slipped>>

(* The end of a model turn: what is left of it is said, and what comes     *)
(* next is said again.                                                     *)
EndReply ==
  /\ Following /\ Head(feedOf).n = 0
  /\ feedOf' = Tail(feedOf)
  /\ open' = 0
  /\ IF muted \/ open = 0 THEN UNCHANGED <<follower, inHand>>
     ELSE \/ UNCHANGED <<follower, inHand>>
          \/ follower' = "checks" /\ inHand' = Head(feedOf)
  /\ UNCHANGED <<callState, reader, browserCuts, turnVars, botVars, deaf, unsaid, outbox, cutOff,
                 slipped>>

FollowEndMuted == EndReply /\ UNCHANGED muted

FollowEnd == EndReply /\ muted' = FALSE

(* say looks once more whether the run was muted, then queues the piece.   *)
CheckMuted ==
  /\ follower = "checks"
  /\ IF muted
     THEN /\ unsaid' = unsaid \union {inHand} /\ inHand' = NoPiece /\ follower' = "next"
     ELSE /\ follower' = "says" /\ UNCHANGED <<inHand, unsaid>>
  /\ UNCHANGED <<callState, reader, browserCuts, turnVars, botVars, feedOf, deaf, open, muted,
                 outbox, cutOff, slipped>>

SayPiece ==
  /\ follower = "says"
  /\ outbox' = Append(outbox, inHand)
  /\ inHand' = NoPiece /\ follower' = "next"
  /\ UNCHANGED <<callState, reader, browserCuts, turnVars, botVars, feedOf, deaf, open, muted,
                 unsaid, cutOff, slipped>>

PlayPiece ==
  /\ callState = "open" /\ outbox # <<>>
  /\ outbox' = Tail(outbox)
  /\ UNCHANGED <<callState, reader, browserCuts, turnVars, botVars, feedOf, deaf, followVars,
                 cutOff, slipped>>

-----------------------------------------------------------------------------
(* interrupt: the queue is dropped first, then the turn being read is      *)
(* muted, or whichever is read by then.                                    *)
FlushOutbox ==
  /\ outbox' = <<>>
  /\ cutOff' = IF open = 0 THEN cutOff ELSE cutOff \union {open}

(* A piece that no mute stops any more: it passed the check, or it is the  *)
(* last of a turn that has ended.                                          *)
OnItsWay == IF follower = "says" \/ (follower = "checks" /\ open = 0) THEN {inHand} ELSE {}

MuteNothing ==
  /\ cutOff' = IF open = 0 THEN cutOff ELSE cutOff \union {open}
  /\ slipped' = slipped \union ToSet(outbox) \union OnItsWay
  /\ UNCHANGED <<muted, open>>

MuteReply ==
  /\ cutOff' = IF open = 0 THEN cutOff ELSE cutOff \union {open}
  /\ slipped' = slipped \union ToSet(outbox) \union OnItsWay
  /\ muted' = (muted \/ open # 0) /\ open' = 0

BrowserInterrupts ==
  /\ reader = "on" /\ spoken + browserCuts < NTurns
  /\ browserCuts' = browserCuts + 1
  /\ FlushOutbox
  /\ reader' = "flushed"
  /\ UNCHANGED <<callState, turnVars, botVars, feedOf, deaf, followVars, slipped>>

BrowserMutes ==
  /\ reader = "flushed"
  /\ MuteReply
  /\ reader' = IF callState \in {"closed", "ended"} THEN "off" ELSE "on"
  /\ UNCHANGED <<callState, browserCuts, turnVars, botVars, feedOf, deaf, follower, inHand, unsaid,
                 outbox>>

(* A finished turn waits for the one being heard, as long as there is room.*)
SpeakTurn ==
  /\ reader = "on" /\ spoken + browserCuts < NTurns
  /\ spoken' = spoken + 1
  /\ IF Len(turns) < TurnCap
     THEN turns' = Append(turns, spoken') /\ UNCHANGED refused
     ELSE refused' = refused \union {spoken'} /\ UNCHANGED turns
  /\ tooLate' = IF listener = "done" THEN tooLate \union {spoken'} ELSE tooLate
  /\ UNCHANGED <<callState, reader, browserCuts, listener, hearing, dealt, botVars, feedOf, deaf,
                 followVars, outbox, cutOff, slipped>>

-----------------------------------------------------------------------------
(* Turns are heard one at a time; once the call is over, down to the last. *)
TakeTurn ==
  /\ listener = "waits" /\ turns # <<>>
  /\ hearing' = Head(turns) /\ turns' = Tail(turns) /\ listener' = "hears"
  /\ UNCHANGED <<callState, reader, browserCuts, spoken, dealt, refused, tooLate, botVars, feedOf,
                 deaf, followVars, outbox, cutOff, slipped>>

LeaveTurns ==
  /\ listener = "waits" /\ callState # "open"
  /\ listener' = "done"
  /\ UNCHANGED <<callState, reader, browserCuts, spoken, turns, hearing, dealt, refused, tooLate,
                 botVars, feedOf, deaf, followVars, outbox, cutOff, slipped>>

StopListening ==
  /\ listener = "waits" /\ callState # "open" /\ turns = <<>>
  /\ listener' = "done"
  /\ UNCHANGED <<callState, reader, browserCuts, spoken, turns, hearing, dealt, refused, tooLate,
                 botVars, feedOf, deaf, followVars, outbox, cutOff, slipped>>

Deal ==
  /\ dealt' = Append(dealt, hearing) /\ hearing' = 0 /\ listener' = "waits"
  /\ UNCHANGED <<callState, reader, browserCuts, spoken, turns, refused, tooLate, botVars, feedOf,
                 deaf>>

(* No words in it, or it could not be transcribed.                         *)
HearNothing ==
  /\ listener = "hears"
  /\ Deal
  /\ UNCHANGED <<followVars, outbox, cutOff, slipped>>

(* Words, while the voice speaks: the human comes first.                   *)
HearOver ==
  /\ listener = "hears" /\ outbox # <<>>
  /\ FlushOutbox
  /\ listener' = "flushed"
  /\ UNCHANGED <<callState, reader, browserCuts, spoken, turns, hearing, dealt, refused, tooLate,
                 botVars, feedOf, deaf, followVars, slipped>>

ListenerMutes ==
  /\ listener = "flushed"
  /\ MuteReply
  /\ listener' = "hands"
  /\ UNCHANGED <<callState, reader, browserCuts, spoken, turns, hearing, dealt, refused, tooLate,
                 botVars, feedOf, deaf, follower, inHand, unsaid, outbox>>

(* The Bot gets the turn.                                                  *)
HandTurn ==
  /\ listener = "hands" \/ (listener = "hears" /\ outbox = <<>>)
  /\ Deal
  /\ UNCHANGED <<followVars, outbox, cutOff, slipped>>

-----------------------------------------------------------------------------
(* The human hangs up, or the call is too long, idle, replaced or lost.    *)
Hangup ==
  /\ callState = "open" /\ reader = "on"
  /\ callState' = "canceled" /\ reader' = "off"
  /\ UNCHANGED <<browserCuts, turnVars, botVars, feedOf, deaf, followVars, outbox, cutOff, slipped>>

CancelCall ==
  /\ callState = "open"
  /\ callState' = "canceled"
  /\ UNCHANGED <<reader, browserCuts, turnVars, botVars, feedOf, deaf, followVars, outbox, cutOff,
                 slipped>>

CloseSocket ==
  /\ callState = "canceled"
  /\ callState' = "closed" /\ reader' = IF reader = "flushed" THEN reader ELSE "off"
  /\ UNCHANGED <<browserCuts, turnVars, botVars, feedOf, deaf, followVars, outbox, cutOff, slipped>>

(* The call's end is written behind what was said on it.                   *)
EndCall ==
  /\ callState = "closed" /\ listener = "done"
  /\ callState' = "ended"
  /\ UNCHANGED <<reader, browserCuts, turnVars, botVars, feedOf, deaf, followVars, outbox, cutOff,
                 slipped>>

-----------------------------------------------------------------------------
Listens == TakeTurn \/ StopListening \/ HearNothing \/ HearOver \/ ListenerMutes \/ HandTurn
Follows == FollowChunk \/ FollowEnd \/ CheckMuted \/ SayPiece
CallRuns == Listens \/ Follows \/ PlayPiece \/ BrowserMutes \/ CloseSocket \/ EndCall

VoiceNext ==
  \/ CallRuns \/ BotBegins \/ BotWrites \/ BotEndsTurn
  \/ BrowserInterrupts \/ SpeakTurn \/ Hangup \/ CancelCall

VoiceSpec == VoiceInit /\ [][VoiceNext]_voiceVars /\ WF_voiceVars(CallRuns)

-----------------------------------------------------------------------------
(* Every variable of the call keeps its type.                              *)
VoiceTypeOK ==
  /\ callState \in {"open", "canceled", "closed", "ended"} /\ reader \in {"on", "flushed", "off"}
  /\ listener \in {"waits", "hears", "flushed", "hands", "done"} /\ hearing \in 0..NTurns
  /\ Len(turns) <= TurnCap /\ Len(feedOf) <= FeedCap
  /\ follower \in {"next", "checks", "says"} /\ inHand \in Piece \union {NoPiece}
  /\ open \in 0..NAnswers /\ muted \in BOOLEAN /\ ToSet(outbox) \subseteq Piece

(* What waits to be said is of no model turn that a human spoke over, but  *)
(* what was on its way into the queue when the turn was muted.             *)
NothingStaleIsSaid == \A p \in ToSet(outbox) :
  p.of \in cutOff => p \in slipped \/ reader = "flushed" \/ listener = "flushed"

(* Nothing else goes unsaid: a piece is left out only of a turn a human    *)
(* spoke over; the next turn is read again from its first word.            *)
OnlyCutIsUnsaid == \A p \in unsaid : p.of \in cutOff

(* Turns are dealt with in the order they were spoken, and a call that has *)
(* ended has dealt with each it took, but one that came while it closed.   *)
TurnsBeforeEnd ==
  /\ \A i, j \in DOMAIN dealt : i < j => dealt[i] < dealt[j]
  /\ callState = "ended" => 1..spoken = ToSet(dealt) \union refused \union tooLate

(* What holds of a call in every state.                                    *)
VoiceSafe == VoiceTypeOK /\ NothingStaleIsSaid /\ OnlyCutIsUnsaid /\ TurnsBeforeEnd

(* A call that is over ends, and what was said on it was dealt with.       *)
CallIsOver == []<>(callState \in {"open", "ended"} /\ listener \in {"waits", "done"})
================================================================================

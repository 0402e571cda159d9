-------------------------------- MODULE Gate --------------------------------
(***************************************************************************)
(* What the approval gate promises each call, with no rows, channels,      *)
(* votes, stops or restarts: a call is let through, put to a model or      *)
(* asked about as far as the floors that stood demand, an asked call goes  *)
(* on only with a person's yes, and what is over stays over.               *)
(* Approvals implements it.                                                *)
(***************************************************************************)
EXTENDS Naturals

CONSTANTS Calls,    \* calls of the Bot
          Answers,  \* what a person may say
          Yes       \* the answers that grant

VARIABLES
  state,   \* how far each call is
  said,    \* what people told it
  demand   \* the least the floors demanded while the call read them, 0 .. 3

vars == <<state, said, demand>>

Stages == {"out", "reading", "judging", "asking", "passed", "refused"}
Within == {"reading", "judging", "asking"}

Init ==
  /\ state  = [c \in Calls |-> "out"]
  /\ said   = [c \in Calls |-> {}]
  /\ demand = [c \in Calls |-> 0]

Enter(c) ==
  /\ state[c] = "out"
  /\ state' = [state EXCEPT ![c] = "reading"]
  /\ \E d \in 0 .. 3 : demand' = [demand EXCEPT ![c] = d]
  /\ UNCHANGED said

(* A floor is lowered while calls read: they are held to the lower one. *)
Relent ==
  /\ demand' \in [Calls -> 0 .. 3]
  /\ \A c \in Calls : \/ demand'[c] = demand[c]
                      \/ state[c] = "reading" /\ demand'[c] < demand[c]
  /\ UNCHANGED <<state, said>>

Move(c, from, to) ==
  /\ state[c] = from
  /\ state' = [state EXCEPT ![c] = to]
  /\ UNCHANGED <<said, demand>>

LetThrough(c) == demand[c] = 0 /\ Move(c, "reading", "passed")
PutToModel(c) == demand[c] <= 1 /\ Move(c, "reading", "judging")
ModelLets(c)  == Move(c, "judging", "passed")
Ask(c)        == demand[c] <= 2 /\ (Move(c, "reading", "asking") \/ Move(c, "judging", "asking"))
Grant(c)      == said[c] \cap Yes # {} /\ Move(c, "asking", "passed")
Refuse(c)     == \E s \in Within : Move(c, s, "refused")

(* A call is told something while it asks, or too late. *)
Tell(c, answer) ==
  /\ state[c] \in {"asking", "passed", "refused"}
  /\ said' = [said EXCEPT ![c] = @ \cup {answer}]
  /\ UNCHANGED <<state, demand>>

(* The control plane goes down and takes every call inside with it. *)
Down ==
  /\ state' = [c \in Calls |-> IF state[c] \in Within THEN "refused" ELSE state[c]]
  /\ UNCHANGED <<said, demand>>

Next ==
  \/ \E c \in Calls :
       \/ Enter(c) \/ LetThrough(c) \/ PutToModel(c) \/ ModelLets(c)
       \/ Ask(c) \/ Grant(c) \/ Refuse(c)
       \/ \E answer \in Answers : Tell(c, answer)
  \/ Relent
  \/ Down

Spec == Init /\ [][Next]_vars
=============================================================================

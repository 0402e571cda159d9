------------------------------- MODULE Tokens -------------------------------
(***************************************************************************)
(* The OAuth sign-in of one connection (internal/app/connector/token.go,   *)
(* oauth.go): the cell every session on it shares, its row, and a provider *)
(* that rotates refresh tokens: a refresh kills the token it was made      *)
(* with.  Sessions of several Bots meet an expired token, people sign in   *)
(* and out meanwhile, and the control plane may restart.                   *)
(*                                                                         *)
(* A sign-in is a family of tokens, named by who made it; its n-th token   *)
(* has number n.  The provider honours the last one of each family.        *)
(***************************************************************************)
EXTENDS Integers

CONSTANTS NCallers,   \* sessions that ask for the token
          NSignIns,   \* sign-ins people start
          MaxTokens,  \* tokens a family has at most
          MaxReboots  \* restarts of the control plane

ASSUME TokenBounds ==
  {NCallers, NSignIns, MaxReboots} \subseteq Nat /\ MaxTokens \in Nat \ {0}

Callers == 1..NCallers
SignIns == 1..NSignIns
NoToken == [by |-> 0, n |-> 0]
Token   == [by : SignIns, n : 1..MaxTokens] \union {NoToken}

VARIABLES cell,     \* what the cell holds, and whether it was loaded
          locked,   \* the caller that holds the cell's lock, 0 for nobody
          stored,   \* connectors.token_json
          lent,     \* connectors.lent_by: whose sign-in the row says it is
          provider,\* the last token of each family
          expired,  \* the caller's token has expired
          caller,   \* where each session's Token() stands
          got,      \* the token it brings back
          signing,  \* where each sign-in stands
          reboots,
          torn,     \* history: a refresh was cut between the provider and the row
          wasted    \* history: a refresh was sent with a dead token

tokenVars == <<cell, locked, stored, lent, provider, expired, caller, got,
               signing, reboots, torn, wasted>>

TokensInit ==
  /\ cell = [loaded |-> FALSE, tok |-> NoToken] /\ locked = 0
  /\ stored = NoToken /\ lent = 0
  /\ provider = [p \in SignIns |-> 0] /\ expired = FALSE
  /\ caller = [c \in Callers |-> "idle"] /\ got = [c \in Callers |-> NoToken]
  /\ signing = [p \in SignIns |-> "idle"]
  /\ reboots = 0 /\ torn = FALSE /\ wasted = FALSE

-----------------------------------------------------------------------------
(* The token in use expires.                                               *)
TokenExpires ==
  /\ ~expired /\ expired' = TRUE
  /\ UNCHANGED <<cell, locked, stored, lent, provider, caller, got, signing, reboots, torn, wasted>>

(* connToken.Token: load the cell under its lock, and return what is there *)
(* when it is valid or nothing can refresh it.                             *)
Loaded == IF cell.loaded THEN cell ELSE [loaded |-> TRUE, tok |-> stored]
AsksUnlocked(c) ==
  /\ caller[c] = "idle"
  /\ cell' = Loaded
  /\ IF Loaded.tok # NoToken /\ expired
     THEN caller' = [caller EXCEPT ![c] = "refreshes"] /\ UNCHANGED got
     ELSE /\ caller' = [caller EXCEPT ![c] = "has"]
          /\ got' = [got EXCEPT ![c] = Loaded.tok]
  /\ UNCHANGED <<locked, stored, lent, provider, expired, signing, reboots, torn, wasted>>
AsksForToken(c) ==
  /\ caller[c] = "idle" /\ locked = 0
  /\ cell' = Loaded
  /\ IF Loaded.tok # NoToken /\ expired
     THEN locked' = c /\ caller' = [caller EXCEPT ![c] = "refreshes"] /\ UNCHANGED got
     ELSE /\ caller' = [caller EXCEPT ![c] = "has"]
          /\ got' = [got EXCEPT ![c] = Loaded.tok] /\ UNCHANGED locked
  /\ UNCHANGED <<stored, lent, provider, expired, signing, reboots, torn, wasted>>

(* The provider hears the refresh: a new token for the last one, an error  *)
(* for any other.                                                          *)
ProviderRotates(c) ==
  LET t == cell.tok IN
  /\ caller[c] = "refreshes" /\ t # NoToken
  /\ IF t.n = provider[t.by]
     THEN /\ t.n < MaxTokens
          /\ provider' = [provider EXCEPT ![t.by] = t.n + 1]
          /\ caller' = [caller EXCEPT ![c] = "keeps"]
          /\ got' = [got EXCEPT ![c] = [t EXCEPT !.n = t.n + 1]]
          /\ UNCHANGED <<locked, wasted>>
     ELSE /\ caller' = [caller EXCEPT ![c] = "has"]
          /\ got' = [got EXCEPT ![c] = NoToken]
          /\ locked' = 0 /\ wasted' = TRUE /\ UNCHANGED provider
  /\ UNCHANGED <<cell, stored, lent, expired, signing, reboots, torn>>

(* The refresh never reached it, or took 30 s.                             *)
RefreshFails(c) ==
  /\ caller[c] = "refreshes"
  /\ caller' = [caller EXCEPT ![c] = "has"] /\ got' = [got EXCEPT ![c] = NoToken]
  /\ locked' = 0
  /\ UNCHANGED <<cell, stored, lent, provider, expired, signing, reboots, torn, wasted>>

(* ... or its answer is lost after it rotated the token.                   *)
AnswerLost(c) ==
  /\ caller[c] = "keeps"
  /\ caller' = [caller EXCEPT ![c] = "has"] /\ got' = [got EXCEPT ![c] = NoToken]
  /\ locked' = 0 /\ torn' = TRUE
  /\ UNCHANGED <<cell, stored, lent, provider, expired, signing, reboots, wasted>>

(* The new token goes to the cell and the row before the lock is let go.   *)
KeepsInCell(c) ==
  /\ caller[c] = "keeps"
  /\ caller' = [caller EXCEPT ![c] = "has"]
  /\ cell' = [cell EXCEPT !.tok = got[c]] /\ locked' = 0 /\ expired' = FALSE
  /\ UNCHANGED <<stored, lent, provider, got, signing, reboots, torn, wasted>>
KeepsRefreshed(c) ==
  /\ caller[c] = "keeps"
  /\ caller' = [caller EXCEPT ![c] = "has"]
  /\ cell' = [cell EXCEPT !.tok = got[c]] /\ stored' = got[c]
  /\ locked' = 0 /\ expired' = FALSE
  /\ UNCHANGED <<lent, provider, got, signing, reboots, torn, wasted>>

UsesToken(c) ==
  /\ caller[c] = "has"
  /\ caller' = [caller EXCEPT ![c] = "idle"] /\ got' = [got EXCEPT ![c] = NoToken]
  /\ UNCHANGED <<cell, locked, stored, lent, provider, expired, signing, reboots, torn, wasted>>

-----------------------------------------------------------------------------
(* A person's consent comes back and the code is exchanged: the provider   *)
(* has a new family of tokens.                                             *)
ConsentReturns(p) ==
  /\ signing[p] = "idle" /\ provider[p] = 0
  /\ signing' = [signing EXCEPT ![p] = "keeps"]
  /\ provider' = [provider EXCEPT ![p] = 1]
  /\ UNCHANGED <<cell, locked, stored, lent, expired, caller, got, reboots, torn, wasted>>

(* keepSignIn waits for the lock and stores it for every session.          *)
KeepsSignIn(p) ==
  /\ signing[p] = "keeps" /\ locked = 0
  /\ signing' = [signing EXCEPT ![p] = "lends"]
  /\ cell' = [loaded |-> TRUE, tok |-> [by |-> p, n |-> 1]]
  /\ stored' = [by |-> p, n |-> 1] /\ expired' = FALSE
  /\ UNCHANGED <<locked, lent, provider, caller, got, reboots, torn, wasted>>

(* The sign-in's own session is up: the row says who lends it.             *)
Lends(p) ==
  /\ signing[p] = "lends"
  /\ signing' = [signing EXCEPT ![p] = "done"] /\ lent' = p
  /\ UNCHANGED <<cell, locked, stored, provider, expired, caller, got, reboots, torn, wasted>>

(* The sign-in's own session never comes up: the token stays.              *)
SignInBreaks(p) ==
  /\ signing[p] = "lends"
  /\ signing' = [signing EXCEPT ![p] = "done"]
  /\ UNCHANGED <<cell, locked, stored, lent, provider, expired, caller, got, reboots, torn, wasted>>

(* forgetToken signs the connection out.                                   *)
SignOut ==
  /\ locked = 0 /\ stored # NoToken
  /\ cell' = [loaded |-> TRUE, tok |-> NoToken] /\ stored' = NoToken
  /\ UNCHANGED <<locked, lent, provider, expired, caller, got, signing, reboots, torn, wasted>>

(* A restart empties the cell and ends every call and sign-in.             *)
RestartConnectors ==
  /\ reboots < MaxReboots /\ reboots' = reboots + 1
  /\ cell' = [loaded |-> FALSE, tok |-> NoToken] /\ locked' = 0
  /\ torn' = (torn \/ \E c \in Callers : caller[c] = "keeps")
  /\ caller' = [c \in Callers |-> "idle"] /\ got' = [c \in Callers |-> NoToken]
  /\ signing' = [p \in SignIns |-> IF signing[p] = "idle" THEN "idle" ELSE "done"]
  /\ UNCHANGED <<stored, lent, provider, expired, wasted>>

-----------------------------------------------------------------------------
TokensNext ==
  \/ TokenExpires \/ SignOut \/ RestartConnectors
  \/ \E c \in Callers : \/ AsksForToken(c) \/ ProviderRotates(c) \/ RefreshFails(c)
                        \/ AnswerLost(c) \/ KeepsRefreshed(c) \/ UsesToken(c)
  \/ \E p \in SignIns : ConsentReturns(p) \/ KeepsSignIn(p) \/ Lends(p) \/ SignInBreaks(p)
TokensSpec == TokensInit /\ [][TokensNext]_tokenVars

-----------------------------------------------------------------------------
(* Every variable of the sign-in keeps its type.                           *)
TokensTypeOK ==
  /\ cell \in [loaded : BOOLEAN, tok : Token] /\ locked \in 0..NCallers
  /\ stored \in Token /\ lent \in 0..NSignIns
  /\ provider \in [SignIns -> 0..MaxTokens] /\ expired \in BOOLEAN
  /\ caller \in [Callers -> {"idle", "refreshes", "keeps", "has"}]
  /\ got \in [Callers -> Token]
  /\ signing \in [SignIns -> {"idle", "keeps", "lends", "done"}]
  /\ reboots \in 0..MaxReboots /\ torn \in BOOLEAN /\ wasted \in BOOLEAN

(* Sessions that meet an expired token together never strand each other:   *)
(* a refresh is never sent with a token another refresh has killed, unless *)
(* one was cut between the provider and the row.                           *)
NoneIsStranded == wasted => torn

(* A restart loses no sign-in: whenever nobody is inside the lock, the row *)
(* holds the last token of its family.                                     *)
RowIsCurrent ==
  (locked = 0 /\ stored # NoToken /\ ~torn) => stored.n = provider[stored.by]

(* "The sign-in is now the connection's, lent by whoever made it": once    *)
(* every sign-in has ended, the row names the person whose token it holds. *)
LentByItsOwner ==
  (stored # NoToken /\ reboots = 0 /\ \A p \in SignIns : signing[p] \in {"idle", "done"})
    => lent = stored.by

(* What holds of a connection's tokens in every state.                     *)
TokensSafe == TokensTypeOK /\ NoneIsStranded /\ RowIsCurrent
=============================================================================

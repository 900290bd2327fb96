------------------------------ MODULE Sessions ------------------------------
(***************************************************************************)
(* The sessions of one account (auth.service.ts): a login starts a family  *)
(* of refresh tokens, a refresh rotates the token it is given, and a new   *)
(* password, a logout everywhere or a disabled account ends them all.      *)
(* Every statement on the database or on Redis is a step of its own, so    *)
(* that requests of the same account overlap; a request that dies between  *)
(* two of them leaves the rest undone.                                     *)
(***************************************************************************)
EXTENDS Naturals, Sequences, FiniteSets

CONSTANTS
    Clients,      \* requests that overlap
    MaxTokens,    \* bound of the model: token pairs that are signed
    MaxEpochs     \* bound of the model: events that end every session

ASSUME SessionsAssumption ==
    IsFiniteSet(Clients) /\ MaxTokens \in Nat /\ MaxEpochs \in Nat \ {0}

VARIABLES
    account,   \* the user document
    session,   \* the session documents, in the order their tokens were signed
    request,   \* the requests in flight
    late,      \* history: sessions a sweep missed, and those refreshed from them
    reused,    \* history: families that were revoked for reuse
    forks      \* history: rotations that came second, by family

history == <<late, reused, forks>>
vars == <<account, session, request, history>>

Tokens == 1..MaxTokens
Epochs == 1..MaxEpochs

(* epoch counts new passwords, logouts everywhere and the disabling; firm  *)
(* is the last of them that refuses access tokens, too.                    *)
Account == [active: BOOLEAN, epoch: Epochs, firm: Epochs, reset: BOOLEAN]

(* A family is known by its first token; root is the epoch of its login.   *)
Session == [state: {"none", "signed", "active", "revoked"},
            family: 0..MaxTokens, root: 0..MaxEpochs, denied: BOOLEAN]

NoSession == [state |-> "none", family |-> 0, root |-> 0, denied |-> FALSE]

Idle == [stage |-> "idle"]

(* Requests that will issue a pair; family 0 is a new one.                 *)
Issuing == [stage: {"rotate", "check", "sign", "insert"}, token: 0..MaxTokens,
            family: 0..MaxTokens, root: Epochs, overtaken: BOOLEAN]

Request ==
    {Idle} \cup Issuing
      \cup [stage: {"reuse"}, family: Tokens]
      \cup [stage: {"write"}, op: {"change", "reset", "disable"}]
      \cup [stage: {"end"}, todo: {<<"sweep">>, <<"deny">>, <<"sweep", "deny">>, <<"deny", "sweep">>}]

TypeOK ==
    /\ account \in Account
    /\ session \in [Tokens -> Session]
    /\ request \in [Clients -> Request]
    /\ late \subseteq Tokens
    /\ reused \subseteq Tokens
    /\ forks \in [Tokens -> Nat]

Init ==
    /\ account = [active |-> TRUE, epoch |-> 1, firm |-> 1, reset |-> FALSE]
    /\ session = [t \in Tokens |-> NoSession]
    /\ request = [c \in Clients |-> Idle]
    /\ late = {}
    /\ reused = {}
    /\ forks = [t \in Tokens |-> 0]

Goto(c, state) == request' = [request EXCEPT ![c] = state]

IsIssuing(r) == r.stage \in {"rotate", "check", "sign", "insert"}

Issuers == {d \in Clients : IsIssuing(request[d])}

(* The requests after c went on to state, the others overtaken.            *)
GotoOvertaking(c, state, others) ==
    request' = [d \in Clients |->
        IF d = c THEN state
        ELSE IF d \in others
        THEN [request[d] EXCEPT !.overtaken = TRUE] ELSE request[d]]

-----------------------------------------------------------------------------
(* login                                                                   *)

ReadCandidate(c) ==
    /\ request[c] = Idle
    /\ account.active
    /\ Goto(c, [stage |-> "sign", token |-> 0, family |-> 0, root |-> account.epoch,
                overtaken |-> FALSE])
    /\ UNCHANGED <<account, session, history>>

-----------------------------------------------------------------------------
(* issueTokenPair, for a login and for a refresh                           *)

Signed == {t \in Tokens : session[t].state # "none"}

Sign(c) ==
    LET new == Cardinality(Signed) + 1
        r == request[c]
        family == IF r.family = 0 THEN new ELSE r.family
    IN  /\ r.stage = "sign"
        /\ new \in Tokens
        /\ session' = [session EXCEPT ![new] =
                         [state |-> "signed", family |-> family, root |-> r.root, denied |-> FALSE]]
        /\ Goto(c, [r EXCEPT !.stage = "insert", !.token = new, !.family = family])
        /\ UNCHANGED <<account, history>>

Insert(c) ==
    LET r == request[c] IN
    /\ r.stage = "insert"
    /\ session' = [session EXCEPT ![r.token].state = "active"]
    /\ late' = IF r.overtaken THEN late \cup {r.token} ELSE late
    /\ Goto(c, Idle)
    /\ UNCHANGED <<account, reused, forks>>

-----------------------------------------------------------------------------
(* refresh and logout, with any token that was handed out                  *)

HandedOut == {t \in Tokens : session[t].state \in {"active", "revoked"}}

(* A session that came late hands that on.                                 *)
FindSession(c, t) ==
    /\ request[c] = Idle
    /\ t \in HandedOut
    /\ Goto(c, IF session[t].state = "active"
               THEN [stage |-> "rotate", token |-> t, family |-> session[t].family,
                     root |-> session[t].root, overtaken |-> t \in late]
               ELSE [stage |-> "reuse", family |-> session[t].family])
    /\ UNCHANGED <<account, session, history>>

Rotate(c) ==
    LET r == request[c] IN
    /\ r.stage = "rotate"
    /\ session' = [session EXCEPT ![r.token].state = "revoked"]
    /\ forks' = IF session[r.token].state = "active" THEN forks
                ELSE [forks EXCEPT ![r.family] = @ + 1]
    /\ Goto(c, [r EXCEPT !.stage = "check"])
    /\ UNCHANGED <<account, late, reused>>

CheckUser(c) ==
    /\ request[c].stage = "check"
    /\ Goto(c, IF account.active THEN [request[c] EXCEPT !.stage = "sign"] ELSE Idle)
    /\ UNCHANGED <<account, session, history>>

Revoked(tokens) ==
    [t \in Tokens |-> IF session[t].state = "active" /\ t \in tokens
                      THEN [session[t] EXCEPT !.state = "revoked"] ELSE session[t]]

(* Mutant: only the first session of the family is revoked.               *)
RevokeFirst(c) ==
    /\ request[c].stage = "reuse"
    /\ session' = [session EXCEPT ![request[c].family].state = "revoked"]
    /\ reused' = reused \cup {request[c].family}
    /\ GotoOvertaking(c, Idle, {d \in Issuers : request[d].family = request[c].family})
    /\ UNCHANGED <<account, late, forks>>

RevokeFamily(c) ==
    /\ request[c].stage = "reuse"
    /\ session' = Revoked({t \in Tokens : session[t].family = request[c].family})
    /\ reused' = reused \cup {request[c].family}
    /\ GotoOvertaking(c, Idle, {d \in Issuers : request[d].family = request[c].family})
    /\ UNCHANGED <<account, late, forks>>

(* Its look-up and its update by id come to the same as one step.          *)
Logout(t) ==
    /\ session[t].state = "active"
    /\ session' = [session EXCEPT ![t].state = "revoked"]
    /\ UNCHANGED <<account, request, history>>

-----------------------------------------------------------------------------
(* changePassword, resetPassword, disableUser, logoutEverywhere            *)

ForgotPassword ==
    /\ account.active
    /\ account' = [account EXCEPT !.reset = TRUE]
    /\ UNCHANGED <<session, request, history>>

ResetExpires ==
    /\ account.reset
    /\ account' = [account EXCEPT !.reset = FALSE]
    /\ UNCHANGED <<session, request, history>>

(* Its reads; a reset link that was used or is out of date is refused.     *)
BeginWrite(c, op) ==
    /\ request[c] = Idle
    /\ account.active \/ op = "reset"
    /\ op = "reset" => account.reset
    /\ Goto(c, [stage |-> "write", op |-> op])
    /\ UNCHANGED <<account, session, history>>

Ended(firm) ==
    [account EXCEPT !.epoch = @ + 1, !.firm = IF firm THEN account.epoch + 1 ELSE @]

(* None of the three updates has a condition.                              *)
Write(c) ==
    LET op == request[c].op IN
    /\ request[c].stage = "write"
    /\ account.epoch < MaxEpochs
    /\ account' = CASE op = "change"  -> Ended(TRUE)
                    [] op = "disable" -> [Ended(TRUE) EXCEPT !.active = FALSE]
                    [] op = "reset"   -> [Ended(FALSE) EXCEPT !.reset = FALSE]
    /\ Goto(c, [stage |-> "end", todo |-> CASE op = "change"  -> <<"sweep", "deny">>
                                            [] op = "disable" -> <<"deny", "sweep">>
                                            [] op = "reset"   -> <<"sweep">>])
    /\ UNCHANGED <<session, late, reused, forks>>

LogoutEverywhere(c) ==
    /\ request[c] = Idle
    /\ account.epoch < MaxEpochs
    /\ account' = Ended(TRUE)
    /\ Goto(c, [stage |-> "end", todo |-> <<"sweep", "deny">>])
    /\ UNCHANGED <<session, history>>

Todo(c) == IF request[c].stage = "end" THEN request[c].todo ELSE <<>>

(* Mutant: the last step does not end the request.                         *)
AfterStays(c) == [stage |-> "end", todo |-> Tail(request[c].todo)]

After(c) ==
    IF Len(request[c].todo) = 1 THEN Idle ELSE [stage |-> "end", todo |-> Tail(request[c].todo)]

(* Every active session of the user, in one update.                        *)
Sweep(c) ==
    /\ Todo(c) # <<>>
    /\ Head(Todo(c)) = "sweep"
    /\ session' = Revoked(Tokens)
    /\ GotoOvertaking(c, After(c), Issuers)
    /\ UNCHANGED <<account, history>>

(* Mutant: only the tokens whose session is active are refused.            *)
DenyActive(c) ==
    /\ Todo(c) # <<>>
    /\ Head(Todo(c)) = "deny"
    /\ session' = [t \in Tokens |-> [session[t] EXCEPT !.denied = @ \/ session[t].state = "active"]]
    /\ GotoOvertaking(c, After(c), Issuers)
    /\ UNCHANGED <<account, history>>

(* The watermark: tokens that were signed before it are refused.           *)
Deny(c) ==
    /\ Todo(c) # <<>>
    /\ Head(Todo(c)) = "deny"
    /\ session' = [t \in Tokens |-> [session[t] EXCEPT !.denied = @ \/ t \in Signed]]
    /\ GotoOvertaking(c, After(c), Issuers)
    /\ UNCHANGED <<account, history>>

(* The process dies, or Redis refuses the watermark, which is only logged: *)
(* what was to be ended goes on.  A request that issues tokens and dies is *)
(* one that takes no further step.                                         *)
GiveUp(c) ==
    /\ Todo(c) # <<>>
    /\ late' = late \cup HandedOut
    /\ GotoOvertaking(c, IF Head(Todo(c)) = "deny" THEN After(c) ELSE Idle, Issuers)
    /\ UNCHANGED <<account, session, reused, forks>>

-----------------------------------------------------------------------------
Next ==
    \/ ForgotPassword \/ ResetExpires
    \/ \E t \in Tokens : Logout(t)
    \/ \E c \in Clients :
         \/ ReadCandidate(c) \/ Sign(c) \/ Insert(c)
         \/ \E t \in Tokens : FindSession(c, t)
         \/ Rotate(c) \/ CheckUser(c) \/ RevokeFamily(c)
         \/ \E op \in {"change", "reset", "disable"} : BeginWrite(c, op)
         \/ Write(c) \/ LogoutEverywhere(c) \/ Sweep(c) \/ Deny(c) \/ GiveUp(c)

Spec == Init /\ [][Next]_vars

-----------------------------------------------------------------------------
Awaits(step) ==
    \E c \in Clients : \E n \in DOMAIN Todo(c) : Todo(c)[n] = step

(* Once a new password, a logout everywhere or the disabling of the        *)
(* account has swept the sessions, none from before is active, except the  *)
(* ones that a request which overlapped the sweep inserted after it, or    *)
(* that a sweep which died left behind, and their successors               *)
(* (changePassword, resetPassword, disableUser, logoutEverywhere).         *)
SessionsEnd ==
    \A t \in Tokens :
        session[t].state = "active" /\ session[t].root < account.epoch =>
            t \in late \/ Awaits("sweep")

(* The access tokens from before are refused as well, with the same        *)
(* exceptions; a reset password alone does not refuse them                 *)
(* (tokenDenylist.ts denylistAllForUser).                                  *)
AccessEnds ==
    \A t \in HandedOut :
        session[t].root < account.firm => session[t].denied \/ t \in late \/ Awaits("deny")

InFlight(f) ==
    {c \in Clients : request[c].stage \in {"check", "sign", "insert"} /\ request[c].family = f}

(* A family has one active session, counting the one that a refresh is     *)
(* about to insert, and one more for every refresh whose rotation came     *)
(* second (refresh, revokeSession).                                        *)
OneSessionPerFamily ==
    \A f \in Tokens :
        Cardinality({t \in Tokens : session[t].state = "active" /\ session[t].family = f})
          + Cardinality(InFlight(f)) <= 1 + forks[f]

(* A family that was revoked for reuse stays ended, but for the sessions   *)
(* that a refresh already past its look-up inserts (revokeFamily).         *)
ReuseEndsFamily ==
    \A t \in Tokens : session[t].state = "active" /\ session[t].family \in reused => t \in late

(* What was to be ended stays ended: the sessions and the access tokens.   *)
RevokedForGood == SessionsEnd /\ AccessEnds

(* A login has one active session, and none once a revoked token of it was *)
(* used again.                                                             *)
FamiliesSound == OneSessionPerFamily /\ ReuseEndsFamily
=============================================================================

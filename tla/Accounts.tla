------------------------------ MODULE Accounts ------------------------------
(***************************************************************************)
(* The users of one company, their roles and the seats of its plan:        *)
(* auth.service.ts (invitations, roles, disabling, verification) and       *)
(* reserveSeat of access.policy.ts, against the transactions of            *)
(* billing.service.ts that check the seats of a plan.  A transaction reads *)
(* a snapshot and is run again when a document it writes was changed       *)
(* since; role changes are plain reads and writes.                         *)
(***************************************************************************)
EXTENDS Naturals, FiniteSets

CONSTANTS
    Users,      \* e-mail addresses
    Founder,    \* the one that registered the company
    Roles,
    Tiers,      \* plans
    Trial,      \* the plan of a company that never paid
    Seats,      \* seats of a plan
    Clients     \* requests that overlap

ASSUME AccountsAssumption ==
    /\ IsFiniteSet(Users) /\ Founder \in Users /\ "owner" \in Roles
    /\ Trial \in Tiers /\ Seats \in [Tiers -> Nat \ {0}]

VARIABLES
    user,      \* the user documents
    sub,       \* the subscription document and the pending checkout orders
    request,   \* the requests in flight
    raced      \* history: an owner was removed by a request that was overtaken

vars == <<user, sub, request, raced>>

None == "none"

(* mail is the token in the user's mailbox, of an invitation or to verify  *)
(* the address, until the address is verified.                             *)
User == [status: {None, "invited", "active", "disabled"}, role: Roles,
         mail: {"live", "over", "verified"}]

(* A trial is neither scheduled nor ordered.                               *)
Paid == Tiers \ {Trial}

Sub == [tier: Tiers, scheduled: Paid \cup {None}, checkouts: SUBSET Paid, full: BOOLEAN]

Task ==
    [op: {"invite", "role"}, user: Users, role: Roles]
      \cup [op: {"accept", "disable"}, user: Users]
      \cup [op: {"schedule", "checkout", "trial"}, tier: Tiers]

Idle == [stage |-> "idle"]

(* overtaken: a document of the transaction was written since its snapshot; *)
(* for a change of role, the owners changed since the user was read.       *)
Request ==
    {Idle} \cup [stage: {"begin", "commit", "target", "count", "write"},
                 task: Task, overtaken: BOOLEAN]

TypeOK ==
    /\ user \in [Users -> User]
    /\ sub \in Sub
    /\ request \in [Clients -> Request]
    /\ raced \in BOOLEAN

(* registerFactory                                                         *)
Init ==
    /\ user = [u \in Users |-> [status |-> IF u = Founder THEN "active" ELSE None,
                                role |-> "owner", mail |-> "live"]]
    /\ sub = [tier |-> Trial, scheduled |-> None, checkouts |-> {}, full |-> TRUE]
    /\ request = [c \in Clients |-> Idle]
    /\ raced = FALSE

Goto(c, stage, task) ==
    request' = [request EXCEPT ![c] = [stage |-> stage, task |-> task, overtaken |-> FALSE]]

-----------------------------------------------------------------------------
(* Seats                                                                   *)

Occupies(u) ==
    \/ user[u].status = "active"
    \/ user[u].status = "invited" /\ user[u].mail = "live"

Used == Cardinality({u \in Users : Occupies(u)})

(* The plans whose seats are a limit at present.                           *)
Plans == {sub.tier} \cup {t \in {sub.scheduled} : t # None} \cup sub.checkouts

(* reserveSeat: one more seat, which u may have already.                   *)
HasSeatFor(u) ==
    \A t \in Plans : Cardinality({v \in Users \ {u} : Occupies(v)}) < Seats[t]

Fits(tier) == Used <= Seats[tier]

-----------------------------------------------------------------------------
(* Transactions: the request is admitted, reads, and commits.              *)

Assignable(role) ==
    CASE role = "owner"   -> Roles
      [] role = "manager" -> Roles \ {"owner"}
      [] OTHER            -> {}

Offered(op) == IF op = "trial" THEN {Trial} ELSE Paid

(* The middleware lets active users with a verified address through.       *)
MayAct(actor) == user[actor].status = "active" /\ user[actor].mail = "verified"

(* Users are never deleted: whoever is there stays refused as a new one,   *)
(* and whoever joined as one to join, so these are not asked for.          *)
Ask(c) ==
    /\ request[c] = Idle
    /\ \/ \E actor, u \in Users : \E role \in Roles :
            /\ MayAct(actor)
            /\ role \in Assignable(user[actor].role)
            /\ sub.full /\ user[u].status = None
            /\ Goto(c, "begin", [op |-> "invite", user |-> u, role |-> role])
       \/ \E u \in Users :
            /\ user[u].status = "invited"
            /\ user[u].mail = "live"
            /\ Goto(c, "begin", [op |-> "accept", user |-> u])
       \/ \E actor \in Users : \E tier \in Tiers, op \in {"schedule", "checkout", "trial"} :
            /\ MayAct(actor)
            /\ user[actor].role = "owner"
            /\ tier \in Offered(op)
            /\ Goto(c, "begin", [op |-> op, tier |-> tier])
    /\ UNCHANGED <<user, sub, raced>>

Admissible(task) ==
    CASE task.op = "invite" -> user[task.user].status = None /\ HasSeatFor(task.user)
      [] task.op = "accept" -> /\ user[task.user].status = "invited"
                               /\ user[task.user].mail = "live"
                               /\ sub.full
                               /\ HasSeatFor(task.user)
      [] OTHER              -> Fits(task.tier)

(* A request that is refused ends.                                         *)
Snapshot(c) ==
    /\ request[c].stage = "begin"
    /\ IF Admissible(request[c].task) THEN Goto(c, "commit", request[c].task)
       ELSE request' = [request EXCEPT ![c] = Idle]
    /\ UNCHANGED <<user, sub, raced>>

(* The subscription has been written, and user u if it is not None.        *)
Finish(c, u) ==
    request' = [d \in Clients |->
        IF d = c THEN Idle
        ELSE IF request[d].stage = "commit"
        THEN [request[d] EXCEPT !.overtaken = TRUE] ELSE request[d]]

UserAfter(task) ==
    CASE task.op = "invite" -> [user EXCEPT ![task.user] =
                                  [status |-> "invited", role |-> task.role, mail |-> "live"]]
      [] task.op = "accept" -> [user EXCEPT ![task.user].status = "active",
                                            ![task.user].mail = "verified"]
      [] OTHER -> user

SubAfter(task) ==
    CASE task.op = "schedule" -> [sub EXCEPT !.scheduled = task.tier]
      [] task.op = "checkout" -> [sub EXCEPT !.checkouts = @ \cup {task.tier}]
      [] task.op = "trial"    -> [tier |-> Trial, scheduled |-> None, checkouts |-> {}, full |-> TRUE]
      [] OTHER -> sub

(* Mutant: nothing makes two reservations conflict.                        *)
CommitUnserialized(c) ==
    /\ request[c].stage = "commit"
    /\ user' = UserAfter(request[c].task)
    /\ sub' = SubAfter(request[c].task)
    /\ request' = [request EXCEPT ![c] = Idle]
    /\ UNCHANGED raced

(* Every one of them writes seatVersion; a conflict repeats the whole.     *)
Commit(c) ==
    /\ request[c].stage = "commit"
    /\ IF request[c].overtaken
       THEN Goto(c, "begin", request[c].task) /\ UNCHANGED <<user, sub>>
       ELSE /\ user' = UserAfter(request[c].task)
            /\ sub' = SubAfter(request[c].task)
            /\ Finish(c, None)
    /\ UNCHANGED raced

(* syncSubscription, which writes seatVersion as well, and the end of the  *)
(* period; the provider decides.                                           *)
SubscriptionChanges ==
    /\ \E tier \in Tiers, full \in BOOLEAN :
         sub' = [sub EXCEPT !.tier = tier, !.full = full,
                            !.scheduled = IF full /\ @ = tier THEN None ELSE @]
    /\ request' = [c \in Clients |-> IF request[c].stage = "commit"
                                     THEN [request[c] EXCEPT !.overtaken = TRUE] ELSE request[c]]
    /\ UNCHANGED <<user, raced>>

(* An order is paid, expires, or is a day old.                             *)
CheckoutEnds ==
    /\ \E t \in sub.checkouts : sub' = [sub EXCEPT !.checkouts = @ \ {t}]
    /\ UNCHANGED <<user, request, raced>>

-----------------------------------------------------------------------------
(* updateUserRole and disableUser, which the routes leave to owners        *)

Owners(users) == {u \in Users : users[u].role = "owner" /\ users[u].status \notin {None, "disabled"}}

AskChange(c) ==
    /\ request[c] = Idle
    /\ \E actor \in Users : \E target \in Users \ {actor} :
         /\ MayAct(actor)
         /\ user[actor].role = "owner"
         /\ \/ \E role \in Roles :
                 /\ sub.full
                 /\ Goto(c, "target", [op |-> "role", user |-> target, role |-> role])
            \/ Goto(c, "target", [op |-> "disable", user |-> target])
    /\ UNCHANGED <<user, sub, raced>>

Demotes(task) == task.op = "disable" \/ task.role # "owner"

ReadTarget(c) ==
    LET task == request[c].task IN
    /\ request[c].stage = "target"
    /\ IF user[task.user].status = None THEN request' = [request EXCEPT ![c] = Idle]
       ELSE Goto(c, IF user[task.user].role = "owner" /\ Demotes(task) THEN "count" ELSE "write", task)
    /\ UNCHANGED <<user, sub, raced>>

(* Mutant: an owner who is disabled is counted.                            *)
CountAllOwners(c) ==
    /\ request[c].stage = "count"
    /\ request' = [request EXCEPT ![c] =
                     IF Cardinality({u \in Users : user[u].role = "owner" /\ user[u].status # None}) <= 1
                     THEN Idle ELSE [@ EXCEPT !.stage = "write"]]
    /\ UNCHANGED <<user, sub, raced>>

(* countByRole: invited owners count.                                      *)
CountOwners(c) ==
    /\ request[c].stage = "count"
    /\ request' = [request EXCEPT ![c] = IF Cardinality(Owners(user)) <= 1 THEN Idle
                                         ELSE [@ EXCEPT !.stage = "write"]]
    /\ UNCHANGED <<user, sub, raced>>

Changed(task) ==
    IF task.op = "role" THEN [user EXCEPT ![task.user].role = task.role]
    ELSE [user EXCEPT ![task.user].status = "disabled"]

(* Mutant: the user that is accepted does not make its transaction conflict. *)
ConflictsOfOwners(r, u, ownersChange) ==
    r.stage \in {"count", "write"} /\ ownersChange

(* The write of user u overtakes r.                                        *)
Conflicts(r, u, ownersChange) ==
    \/ r.stage = "commit" /\ r.task = [op |-> "accept", user |-> u]
    \/ r.stage \in {"count", "write"} /\ ownersChange

(* By id; a transaction that writes the same user is overtaken.            *)
WriteChange(c) ==
    LET task == request[c].task
        lost == Owners(user) \ Owners(user')
    IN  /\ request[c].stage = "write"
        /\ user' = Changed(task)
        /\ raced' = (raced \/ (request[c].overtaken /\ lost # {}))
        /\ request' = [d \in Clients |->
             IF d = c THEN Idle
             ELSE IF Conflicts(request[d], task.user, Owners(user) # Owners(user'))
             THEN [request[d] EXCEPT !.overtaken = TRUE] ELSE request[d]]
        /\ UNCHANGED sub

-----------------------------------------------------------------------------
(* The mailbox                                                             *)

(* One update whose filter has all the conditions.                         *)
VerifyEmail(u) ==
    /\ user[u].status = "active"
    /\ user[u].mail = "live"
    /\ user' = [user EXCEPT ![u].mail = "verified"]
    /\ UNCHANGED <<sub, request, raced>>

(* resendVerification; its waiting time of a minute is left out.           *)
Resend(u) ==
    /\ user[u].status = "active"
    /\ user[u].mail = "over"
    /\ user' = [user EXCEPT ![u].mail = "live"]
    /\ UNCHANGED <<sub, request, raced>>

TokenExpires(u) ==
    /\ user[u].status \in {"invited", "active"}
    /\ user[u].mail = "live"
    /\ \A c \in Clients :
         request[c].stage = "commit" => request[c].task # [op |-> "accept", user |-> u]
    /\ user' = [user EXCEPT ![u].mail = "over"]
    /\ UNCHANGED <<sub, request, raced>>

-----------------------------------------------------------------------------
Next ==
    \/ \E c \in Clients :
         \/ Ask(c) \/ Snapshot(c) \/ Commit(c)
         \/ AskChange(c) \/ ReadTarget(c) \/ CountOwners(c) \/ WriteChange(c)
    \/ SubscriptionChanges \/ CheckoutEnds
    \/ \E u \in Users : VerifyEmail(u) \/ Resend(u) \/ TokenExpires(u)

Spec == Init /\ [][Next]_vars

-----------------------------------------------------------------------------
(* A plan that was scheduled or ordered has seats for everyone, however    *)
(* invitations and acceptances overlap with the request for the plan       *)
(* (reserveSeat, changeSubscription, createCheckoutSession).               *)
OrderedPlansFit ==
    \A t \in sub.checkouts \cup ({sub.scheduled} \ {None}) : Used <= Seats[t]

(* Seats are never taken beyond any plan that is in force, scheduled or    *)
(* ordered (reserveSeat: a transactional write serializes the invitations). *)
BookingStep == Used' > Used => \A t \in Plans' : Used' <= Seats[t]
NoOverbooking == [][BookingStep]_vars

(* The last owner is kept, unless two requests that remove owners overlap  *)
(* (updateUserRole, disableUser: "Cannot remove the last Owner").          *)
OwnerRemains == Owners(user) = {} => raced

(* The users are well-formed, one of them owns the company, and the plans  *)
(* the company is about to have are large enough for them all.             *)
AccountsSound == TypeOK /\ OwnerRemains /\ OrderedPlansFit

(* A user who was disabled never comes back, not even through an           *)
(* invitation that is being accepted (acceptInvite's transaction).         *)
DisabledStep ==
    \A u \in Users : user[u].status = "disabled" => user'[u].status = "disabled"
DisabledForGood == [][DisabledStep]_vars
=============================================================================

--------------------------- MODULE Accounts_proofs ---------------------------
(***************************************************************************)
(* Proofs about Accounts: the inductive invariant, and with it the safety  *)
(* invariants and the two action properties, for every number of users,    *)
(* plans and requests that overlap.                                        *)
(***************************************************************************)
EXTENDS Accounts, FiniteSetTheorems, TLAPS

Stages == {"begin", "commit", "target", "count", "write"}

(* The tasks that run in a transaction, and what is asked for in them.     *)
Reserves(task) ==
    /\ task.op \in {"invite", "accept", "schedule", "checkout", "trial"}
    /\ task.op \in {"schedule", "checkout"} => task.tier \in Paid

(* An owner whom request r is about to remove is not the last one.         *)
Spares(r) ==
    Demotes(r.task) /\ r.task.user \in Owners(user) =>
        \E o \in Owners(user) : o # r.task.user

(* What a request that was not overtaken has read still holds.             *)
RequestOK(r) ==
    /\ r.stage \in {"begin", "commit"} => Reserves(r.task)
    /\ r.stage = "commit" /\ ~r.overtaken => Admissible(r.task)
    /\ r.stage \in {"target", "count", "write"} => r.task.op \in {"role", "disable"}
    /\ r.stage \in {"count", "write"} => user[r.task.user].status # None
    /\ r.stage = "write" /\ ~r.overtaken => Spares(r)

RequestsOK == \A c \in Clients : RequestOK(request[c])

InductiveInv == TypeOK /\ RequestsOK /\ OwnerRemains /\ OrderedPlansFit

-----------------------------------------------------------------------------
(* The data.                                                               *)

LEMMA TaskType ==
    ASSUME NEW task \in Task
    PROVE  /\ task.op \in {"invite", "accept", "schedule", "checkout", "trial", "role", "disable"}
           /\ task.op \in {"invite", "accept", "role", "disable"} => task.user \in Users
           /\ task.op \in {"invite", "role"} => task.role \in Roles
           /\ task.op \in {"schedule", "checkout", "trial"} => task.tier \in Tiers
BY DEF Task

LEMMA RequestType ==
    ASSUME NEW r \in Request
    PROVE  /\ r.stage \in Stages \cup {"idle"}
           /\ r.stage = "idle" <=> r = Idle
           /\ r # Idle => /\ r \in [stage: Stages, task: Task, overtaken: BOOLEAN]
                          /\ r.stage \in Stages /\ r.task \in Task /\ r.overtaken \in BOOLEAN
BY DEF Request, Idle, Stages

LEMMA OvertakenType ==
    ASSUME NEW r \in Request, r # Idle
    PROVE  /\ [r EXCEPT !.overtaken = TRUE] \in Request
           /\ [r EXCEPT !.overtaken = TRUE].stage = r.stage
           /\ [r EXCEPT !.overtaken = TRUE].task = r.task
           /\ [r EXCEPT !.overtaken = TRUE].overtaken
<1>1. r \in [stage: Stages, task: Task, overtaken: BOOLEAN]
  BY RequestType
<1>2. [r EXCEPT !.overtaken = TRUE] \in [stage: Stages, task: Task, overtaken: BOOLEAN]
  BY <1>1
<1> QED
  BY <1>1, <1>2 DEF Request, Stages

-----------------------------------------------------------------------------
(* Seats and owners.                                                       *)

LEMMA SeatsFinite ==
    ASSUME NEW S \in SUBSET Users
    PROVE  IsFiniteSet(S) /\ Cardinality(S) \in Nat
BY AccountsAssumption, FS_Subset, FS_CardinalityType

LEMMA FewerSeats ==
    ASSUME NEW S \in SUBSET Users, NEW T \in SUBSET S
    PROVE  Cardinality(T) <= Cardinality(S) /\ Cardinality(T) \in Nat /\ Cardinality(S) \in Nat
BY SeatsFinite, FS_Subset

(* A seat for u is at most one more than the others occupy.                *)
LEMMA OneMoreSeat ==
    ASSUME NEW u \in Users, NEW S \in SUBSET Users, NEW T \in SUBSET Users, T \ {u} \subseteq S \ {u}
    PROVE  Cardinality(T) <= Cardinality(S \ {u}) + 1
<1>1. T \subseteq (S \ {u}) \cup {u}
  OBVIOUS
<1>2. IsFiniteSet(S \ {u}) /\ Cardinality(S \ {u}) \in Nat
  BY SeatsFinite
<1>3. Cardinality((S \ {u}) \cup {u}) = Cardinality(S \ {u}) + 1
  BY <1>2, FS_AddElement
<1>4. Cardinality(T) <= Cardinality((S \ {u}) \cup {u})
  BY <1>1, FewerSeats
<1> QED
  BY <1>3, <1>4

(* Whoever counts more than one owner leaves one beside the owner removed. *)
LEMMA AnotherOwner ==
    ASSUME NEW S \in SUBSET Users, NEW u, ~(Cardinality(S) <= 1)
    PROVE  \E o \in S : o # u
<1> SUFFICES ASSUME \A o \in S : o = u
             PROVE  FALSE
  OBVIOUS
<1>1. S \subseteq {u}
  OBVIOUS
<1>2. IsFiniteSet({u}) /\ Cardinality({u}) = 1
  BY FS_Singleton
<1>3. Cardinality(S) <= 1
  BY <1>1, <1>2, FS_Subset
<1> QED
  BY <1>3

LEMMA OwnersType == TypeOK => Owners(user) \in SUBSET Users
BY DEF Owners

Others(u) == {v \in Users \ {u} : Occupies(v)}

(* Where nobody takes a seat, there are no more in use, and a plan is not  *)
(* too small for them that was not before.                                 *)
LEMMA SeatsShrink ==
    ASSUME \A v \in Users : Occupies(v)' => Occupies(v)
    PROVE  /\ Used' <= Used /\ Used \in Nat /\ Used' \in Nat
           /\ \A u \in Users :
                /\ Cardinality(Others(u)') <= Cardinality(Others(u))
                /\ Cardinality(Others(u)) \in Nat /\ Cardinality(Others(u)') \in Nat
<1>1. {v \in Users : Occupies(v)'} \subseteq {v \in Users : Occupies(v)}
  OBVIOUS
<1>2. Used' <= Used /\ Used \in Nat /\ Used' \in Nat
  BY <1>1, FewerSeats DEF Used
<1>3. ASSUME NEW u \in Users
      PROVE  /\ Cardinality(Others(u)') <= Cardinality(Others(u))
             /\ Cardinality(Others(u)) \in Nat /\ Cardinality(Others(u)') \in Nat
  <2>1. Others(u)' \subseteq Others(u) /\ Others(u) \subseteq Users
    BY DEF Others
  <2> QED
    BY <2>1, FewerSeats
<1> QED
  BY <1>2, <1>3

LEMMA PlansType == TypeOK => Plans \subseteq Tiers
BY DEF TypeOK, Sub, Paid, Plans

LEMMA AdmissionKept ==
    ASSUME TypeOK, TypeOK',
           \A v \in Users : Occupies(v)' => Occupies(v),
           Plans' \subseteq Plans, sub'.full = sub.full,
           NEW task \in Task, Reserves(task), Admissible(task),
           task.op \in {"invite", "accept"} => user'[task.user] = user[task.user]
    PROVE  Admissible(task)'
<1>1. ASSUME NEW u \in Users, HasSeatFor(u)
      PROVE  HasSeatFor(u)'
  <2>1. ASSUME NEW t \in Plans'
        PROVE  Cardinality(Others(u)') < Seats[t]
    <3>1. Cardinality(Others(u)) < Seats[t]
      BY <1>1 DEF HasSeatFor, Others
    <3>2. Seats[t] \in Nat
      BY PlansType, AccountsAssumption
    <3> QED
      BY <3>1, <3>2, SeatsShrink
  <2> QED
    BY <2>1 DEF HasSeatFor, Others
<1>2. ASSUME NEW t \in Tiers, Fits(t)
      PROVE  Fits(t)'
  <2>1. Seats[t] \in Nat
    BY AccountsAssumption
  <2> QED
    BY <1>2, <2>1, SeatsShrink DEF Fits
<1>3. CASE task.op = "invite"
  BY <1>1, <1>3, TaskType DEF Admissible
<1>4. CASE task.op = "accept"
  BY <1>1, <1>4, TaskType DEF Admissible
<1>5. CASE task.op \in {"schedule", "checkout", "trial"}
  <2>1. task.tier \in Tiers
    BY <1>5, TaskType
  <2>2. Fits(task.tier)
    BY <1>5 DEF Admissible
  <2>3. Fits(task.tier)'
    BY <1>2, <2>1, <2>2
  <2> QED
    BY <1>5, <2>3 DEF Admissible
<1> QED
  BY <1>3, <1>4, <1>5 DEF Reserves

-----------------------------------------------------------------------------
(* Requests that are not the one that takes the step.                      *)

LEMMA RequestKept ==
    ASSUME TypeOK, TypeOK', NEW r \in Request, RequestOK(r),
           \A u \in Users : user[u].status # None => user'[u].status # None,
           r.stage = "commit" /\ ~r.overtaken =>
              /\ \A v \in Users : Occupies(v)' => Occupies(v)
              /\ Plans' \subseteq Plans /\ sub'.full = sub.full
              /\ r.task.op \in {"invite", "accept"} => user'[r.task.user] = user[r.task.user],
           r.stage = "write" /\ ~r.overtaken =>
              /\ Owners(user) \subseteq Owners(user')
              /\ \A o \in Owners(user') \ Owners(user) : user[o].status = None
    PROVE  RequestOK(r)'
<1>1. CASE r = Idle
  BY <1>1 DEF RequestOK, Idle
<1>2. CASE r # Idle
  <2>1. r.task \in Task /\ r.overtaken \in BOOLEAN
    BY <1>2, RequestType
  <2>2. r.stage = "commit" /\ ~r.overtaken => Admissible(r.task)'
    BY <2>1, AdmissionKept DEF RequestOK
  <2>3. r.stage \in {"count", "write"} => r.task.user \in Users
    BY <2>1, TaskType DEF RequestOK
  <2>4. r.stage = "write" /\ ~r.overtaken => Spares(r)'
    BY <2>3 DEF RequestOK, Spares, Demotes
  <2> QED
    BY <2>2, <2>3, <2>4 DEF RequestOK, Reserves
<1> QED
  BY <1>1, <1>2

LEMMA OvertakenKept ==
    ASSUME TypeOK, NEW r \in Request, r # Idle, RequestOK(r),
           \A u \in Users : user[u].status # None => user'[u].status # None
    PROVE  RequestOK([r EXCEPT !.overtaken = TRUE])'
<1> DEFINE s == [r EXCEPT !.overtaken = TRUE]
<1>1. s.stage = r.stage /\ s.task = r.task /\ s.overtaken
  BY OvertakenType
<1>2. r.task \in Task
  BY RequestType
<1>3. r.stage \in {"count", "write"} => r.task.user \in Users
  BY <1>2, TaskType DEF RequestOK
<1> HIDE DEF s
<1>4. RequestOK(s)'
  BY <1>1, <1>3 DEF RequestOK, Reserves
<1> QED
  BY <1>4 DEF s

LEMMA MoveKeeps ==
    ASSUME InductiveInv, NEW c \in Clients, NEW r \in Request, RequestOK(r),
           UNCHANGED <<user, sub, raced>>,
           request' = [request EXCEPT ![c] = r]
    PROVE  InductiveInv'
<1>1. TypeOK'
  BY DEF InductiveInv, TypeOK
<1>2. \A q \in Request : RequestOK(q) => RequestOK(q)'
  BY DEF RequestOK, Admissible, HasSeatFor, Fits, Used, Plans, Occupies, Spares
<1>3. RequestsOK'
  <2>1. \A d \in Clients : request'[d] \in Request /\ RequestOK(request[d])
    BY <1>1 DEF InductiveInv, TypeOK, RequestsOK
  <2>2. \A d \in Clients : request'[d] = IF d = c THEN r ELSE request[d]
    BY DEF InductiveInv, TypeOK
  <2> SUFFICES ASSUME NEW d \in Clients PROVE RequestOK(request[d])'
    BY DEF RequestsOK
  <2>3. PICK q \in Request : q = request'[d] /\ RequestOK(q)
    BY <2>1, <2>2 DEF InductiveInv, TypeOK
  <2>4. RequestOK(q)'
    BY <1>2, <2>3
  <2> QED
    BY <2>3, <2>4 DEF RequestOK
<1>4. OwnerRemains' /\ OrderedPlansFit'
  BY DEF InductiveInv, OwnerRemains, OrderedPlansFit, Used, Occupies
<1> QED
  BY <1>1, <1>3, <1>4 DEF InductiveInv

LEMMA GotoKeeps ==
    ASSUME InductiveInv, NEW c \in Clients, NEW stage \in Stages, NEW task \in Task,
           stage \in {"begin", "commit"} => Reserves(task),
           stage = "commit" => Admissible(task),
           stage \in {"target", "count", "write"} => task.op \in {"role", "disable"},
           stage \in {"count", "write"} => user[task.user].status # None,
           stage = "write" /\ Demotes(task) => user[task.user].role # "owner",
           Goto(c, stage, task), UNCHANGED <<user, sub, raced>>
    PROVE  InductiveInv'
<1> DEFINE r == [stage |-> stage, task |-> task, overtaken |-> FALSE]
<1>1. r \in Request
  BY DEF Request, Stages
<1>2. stage = "write" => Spares(r)
  BY DEF Spares, Owners
<1>3. RequestOK(r)
  BY <1>2 DEF RequestOK
<1>4. request' = [request EXCEPT ![c] = r]
  BY DEF Goto
<1> HIDE DEF r
<1> QED
  BY <1>1, <1>3, <1>4, MoveKeeps

LEMMA EndKeeps ==
    ASSUME InductiveInv, NEW c \in Clients,
           request' = [request EXCEPT ![c] = Idle], UNCHANGED <<user, sub, raced>>
    PROVE  InductiveInv'
<1>1. Idle \in Request /\ RequestOK(Idle)
  BY DEF Request, RequestOK, Idle
<1> QED
  BY <1>1, MoveKeeps

LEMMA WorkingType ==
    ASSUME TypeOK, NEW c \in Clients, request[c].stage \in Stages
    PROVE  request[c] # Idle /\ request[c].task \in Task /\ request[c].overtaken \in BOOLEAN
<1>1. request[c] \in Request
  BY DEF TypeOK
<1> QED
  BY <1>1, RequestType DEF Idle, Stages

-----------------------------------------------------------------------------
(* The steps that only read.                                               *)

LEMMA AskKeeps ==
    ASSUME InductiveInv, NEW c \in Clients, Ask(c)
    PROVE  InductiveInv'
<1>1. UNCHANGED <<user, sub, raced>>
  BY DEF Ask
<1>2. PICK task \in Task : Reserves(task) /\ Goto(c, "begin", task)
  <2>1. CASE \E u \in Users, role \in Roles :
               Goto(c, "begin", [op |-> "invite", user |-> u, role |-> role])
    BY <2>1 DEF Task, Reserves
  <2>2. CASE \E u \in Users : Goto(c, "begin", [op |-> "accept", user |-> u])
    BY <2>2 DEF Task, Reserves
  <2>3. CASE \E tier \in Tiers, op \in {"schedule", "checkout", "trial"} :
               tier \in Offered(op) /\ Goto(c, "begin", [op |-> op, tier |-> tier])
    BY <2>3 DEF Task, Reserves, Offered
  <2>4. \A actor \in Users : Assignable(user[actor].role) \subseteq Roles
    BY DEF Assignable
  <2> QED
    BY <2>1, <2>2, <2>3, <2>4 DEF Ask
<1> QED
  BY <1>1, <1>2, GotoKeeps DEF Stages

LEMMA SnapshotKeeps ==
    ASSUME InductiveInv, NEW c \in Clients, Snapshot(c)
    PROVE  InductiveInv'
<1>1. request[c].task \in Task /\ Reserves(request[c].task)
  BY WorkingType DEF InductiveInv, RequestsOK, RequestOK, Snapshot, Stages
<1> QED
  BY <1>1, GotoKeeps, EndKeeps DEF Snapshot, Stages

LEMMA AskChangeKeeps ==
    ASSUME InductiveInv, NEW c \in Clients, AskChange(c)
    PROVE  InductiveInv'
<1>1. PICK task \in Task : task.op \in {"role", "disable"} /\ Goto(c, "target", task)
  BY DEF AskChange, Task
<1> QED
  BY <1>1, GotoKeeps DEF AskChange, Stages

LEMMA ReadTargetKeeps ==
    ASSUME InductiveInv, NEW c \in Clients, ReadTarget(c)
    PROVE  InductiveInv'
<1>1. request[c].task \in Task /\ request[c].task.op \in {"role", "disable"}
  BY WorkingType DEF InductiveInv, RequestsOK, RequestOK, ReadTarget, Stages
<1> QED
  BY <1>1, GotoKeeps, EndKeeps DEF ReadTarget, Stages

(* Whoever counts two owners may remove one.                               *)
LEMMA CountOwnersKeeps ==
    ASSUME InductiveInv, NEW c \in Clients, CountOwners(c)
    PROVE  InductiveInv'
<1>1. CASE Cardinality(Owners(user)) <= 1
  BY <1>1, EndKeeps DEF CountOwners
<1>2. CASE ~(Cardinality(Owners(user)) <= 1)
  <2> DEFINE r == [request[c] EXCEPT !.stage = "write"]
  <2>1. /\ request[c] \in [stage: Stages, task: Task, overtaken: BOOLEAN]
        /\ RequestOK(request[c]) /\ request[c].stage = "count"
    BY RequestType DEF InductiveInv, TypeOK, RequestsOK, CountOwners, Idle
  <2>2. /\ r \in Request /\ r.stage = "write"
        /\ r.task = request[c].task /\ r.overtaken = request[c].overtaken
    BY <2>1 DEF Request, Stages
  <2> HIDE DEF r
  <2>3. Spares(r)
    BY <1>2, AnotherOwner, OwnersType DEF Spares, InductiveInv
  <2>4. RequestOK(r)
    BY <2>1, <2>2, <2>3 DEF RequestOK
  <2>5. request' = [request EXCEPT ![c] = r]
    BY <1>2 DEF CountOwners, r
  <2> QED
    BY <2>2, <2>4, <2>5, MoveKeeps DEF CountOwners
<1> QED
  BY <1>1, <1>2

-----------------------------------------------------------------------------
(* The steps that write: request c, if any, is over; those in over were    *)
(* overtaken; what the others have read is as it was.                      *)

LEMMA WriteKeeps ==
    ASSUME TypeOK, RequestsOK, user' \in [Users -> User], sub' \in Sub, raced' \in BOOLEAN,
           NEW done \in SUBSET Clients, NEW over \in SUBSET Clients,
           \A d \in over \ done : request[d] # Idle,
           request' = [d \in Clients |->
              IF d \in done THEN Idle
              ELSE IF d \in over THEN [request[d] EXCEPT !.overtaken = TRUE] ELSE request[d]],
           \A u \in Users : user[u].status # None => user'[u].status # None,
           \A d \in Clients \ (done \cup over) :
              LET r == request[d] IN
              /\ r.stage = "commit" /\ ~r.overtaken =>
                   /\ \A v \in Users : Occupies(v)' => Occupies(v)
                   /\ Plans' \subseteq Plans /\ sub'.full = sub.full
                   /\ r.task.op \in {"invite", "accept"} => user'[r.task.user] = user[r.task.user]
              /\ r.stage = "write" /\ ~r.overtaken =>
                   /\ Owners(user) \subseteq Owners(user')
                   /\ \A o \in Owners(user') \ Owners(user) : user[o].status = None
    PROVE  TypeOK' /\ RequestsOK'
<1>1. Idle \in Request
  BY DEF Request
<1>2. \A d \in Clients : request[d] \in Request
  BY DEF TypeOK
<1>3. request' \in [Clients -> Request]
  BY <1>1, <1>2, OvertakenType
<1>4. TypeOK'
  BY <1>3 DEF TypeOK
<1> SUFFICES ASSUME NEW d \in Clients
             PROVE  RequestOK(request[d])'
  BY <1>4 DEF RequestsOK
<1>5. PICK q \in Request : q = request[d] /\ RequestOK(q)
  BY <1>2 DEF RequestsOK
<1>6. CASE d \in done
  BY <1>6 DEF RequestOK, Idle
<1>7. CASE d \notin done /\ d \in over
  <2>1. RequestOK([q EXCEPT !.overtaken = TRUE])'
    BY <1>5, <1>7, OvertakenKept
  <2>2. request'[d] = [q EXCEPT !.overtaken = TRUE]
    BY <1>5, <1>7
  <2> QED
    BY <2>1, <2>2 DEF RequestOK
<1>8. CASE d \notin done /\ d \notin over
  <2>1. RequestOK(q)'
    BY <1>4, <1>5, <1>8, RequestKept
  <2>2. request'[d] = q
    BY <1>5, <1>8
  <2> QED
    BY <2>1, <2>2 DEF RequestOK
<1> QED
  BY <1>6, <1>7, <1>8

(* Fewer seats in use, and no plan more than before.                       *)
LEMMA OrderedPlansKept ==
    ASSUME TypeOK, TypeOK', OrderedPlansFit,
           \A v \in Users : Occupies(v)' => Occupies(v),
           sub'.checkouts \subseteq sub.checkouts, sub'.scheduled \in {sub.scheduled, None}
    PROVE  OrderedPlansFit'
<1> SUFFICES ASSUME NEW t \in sub'.checkouts \cup ({sub'.scheduled} \ {None})
             PROVE  Used' <= Seats[t]
  BY DEF OrderedPlansFit
<1>1. Used <= Seats[t]
  BY DEF OrderedPlansFit
<1>2. t \in Tiers
  BY DEF TypeOK, Sub, Paid
<1>3. Seats[t] \in Nat
  BY <1>2, AccountsAssumption
<1> QED
  BY <1>1, <1>3, SeatsShrink

-----------------------------------------------------------------------------
(* Commit.                                                                 *)

LEMMA UserAfterType ==
    ASSUME TypeOK, NEW task \in Task
    PROVE  /\ UserAfter(task) \in [Users -> User]
           /\ \A u \in Users : user[u].status # None => UserAfter(task)[u].status # None
<1>1. CASE task.op = "invite"
  BY <1>1, TaskType DEF TypeOK, User, UserAfter, None
<1>2. CASE task.op = "accept"
  BY <1>2, TaskType DEF TypeOK, User, UserAfter, None
<1>3. CASE task.op \notin {"invite", "accept"}
  BY <1>3, TaskType DEF TypeOK, UserAfter
<1> QED
  BY <1>1, <1>2, <1>3

LEMMA SubAfterType ==
    ASSUME TypeOK, NEW task \in Task, Reserves(task)
    PROVE  SubAfter(task) \in Sub
<1>1. sub \in [tier: Tiers, scheduled: Paid \cup {None}, checkouts: SUBSET Paid, full: BOOLEAN]
  BY DEF TypeOK, Sub
<1>2. CASE task.op = "schedule"
  BY <1>1, <1>2 DEF SubAfter, Sub, Reserves
<1>3. CASE task.op = "checkout"
  BY <1>1, <1>3 DEF SubAfter, Sub, Reserves
<1>4. CASE task.op = "trial"
  BY <1>1, <1>4, AccountsAssumption DEF SubAfter, Sub
<1>5. CASE task.op \in {"invite", "accept"}
  BY <1>1, <1>5 DEF SubAfter, Sub
<1> QED
  BY <1>2, <1>3, <1>4, <1>5 DEF Reserves

(* An invitation, or an acceptance, that was admitted takes one seat, and  *)
(* every plan that is a limit at present has it.                           *)
LEMMA OneSeatTaken ==
    ASSUME TypeOK, NEW u \in Users, HasSeatFor(u),
           \A v \in Users \ {u} : user'[v] = user[v]
    PROVE  \A t \in Plans : Used' <= Seats[t]
<1> SUFFICES ASSUME NEW t \in Plans
             PROVE  Used' <= Seats[t]
  OBVIOUS
<1> DEFINE S == {v \in Users : Occupies(v)}
           T == {v \in Users : Occupies(v)'}
<1>1. T \ {u} \subseteq S \ {u} /\ S \ {u} = Others(u)
  BY DEF Occupies, Others
<1>2. Cardinality(Others(u)) < Seats[t]
  BY DEF HasSeatFor, Others
<1>3. Cardinality(T) <= Cardinality(S \ {u}) + 1
  BY <1>1, OneMoreSeat
<1>4. Cardinality(Others(u)) \in Nat /\ Cardinality(T) \in Nat
  BY SeatsFinite DEF Others
<1>5. Seats[t] \in Nat
  BY PlansType, AccountsAssumption
<1>6. Used' = Cardinality(T)
  BY DEF Used
<1> HIDE DEF S, T
<1> QED
  BY <1>1, <1>2, <1>3, <1>4, <1>5, <1>6

(* What a transaction that commits knows of its task.                      *)
LEMMA CommitAdmitted ==
    ASSUME InductiveInv, NEW c \in Clients, Commit(c), ~request[c].overtaken
    PROVE  /\ request[c].task \in Task /\ Reserves(request[c].task)
           /\ Admissible(request[c].task)
           /\ user' = UserAfter(request[c].task) /\ sub' = SubAfter(request[c].task)
           /\ Finish(c, None) /\ raced' = raced
BY WorkingType DEF InductiveInv, RequestsOK, RequestOK, Commit, Stages

LEMMA CommitFits ==
    ASSUME InductiveInv, NEW c \in Clients, Commit(c), ~request[c].overtaken
    PROVE  OrderedPlansFit'
<1> DEFINE task == request[c].task
<1>1. /\ task \in Task /\ Reserves(task) /\ Admissible(task)
      /\ user' = UserAfter(task) /\ sub' = SubAfter(task) /\ TypeOK /\ OrderedPlansFit
  BY CommitAdmitted DEF InductiveInv
<1>2. sub.scheduled # None => sub.scheduled \in Plans
  BY DEF Plans
<1> HIDE DEF task
<1>3. CASE task.op \in {"invite", "accept"}
  <2>1. task.user \in Users /\ HasSeatFor(task.user)
    BY <1>1, <1>3, TaskType DEF Admissible
  <2>2. \A v \in Users \ {task.user} : user'[v] = user[v]
    BY <1>1, <1>3, <2>1 DEF UserAfter, TypeOK
  <2>3. sub' = sub
    BY <1>1, <1>3 DEF SubAfter
  <2> QED
    BY <1>1, <1>2, <2>1, <2>2, <2>3, OneSeatTaken DEF OrderedPlansFit, Plans
<1>4. CASE task.op \in {"schedule", "checkout"}
  <2>1. user' = user /\ Used' = Used
    BY <1>1, <1>4 DEF UserAfter, Used, Occupies
  <2>2. Used <= Seats[task.tier]
    BY <1>1, <1>4 DEF Admissible, Fits
  <2>3. /\ sub'.checkouts \subseteq sub.checkouts \cup {task.tier}
        /\ sub'.scheduled \in {sub.scheduled, task.tier}
    BY <1>1, <1>4 DEF SubAfter, TypeOK, Sub
  <2> QED
    BY <1>1, <2>1, <2>2, <2>3 DEF OrderedPlansFit
<1>5. CASE task.op = "trial"
  BY <1>1, <1>5 DEF SubAfter, OrderedPlansFit
<1> QED
  BY <1>1, <1>3, <1>4, <1>5 DEF Reserves

(* Only an invitation makes an owner, of one who was nobody.               *)
LEMMA CommitOwners ==
    ASSUME InductiveInv, NEW c \in Clients, Commit(c), ~request[c].overtaken
    PROVE  /\ Owners(user) \subseteq Owners(user')
           /\ \A o \in Owners(user') \ Owners(user) : user[o].status = None
<1> DEFINE task == request[c].task
<1>1. /\ task \in Task /\ Reserves(task) /\ Admissible(task)
      /\ user' = UserAfter(task) /\ TypeOK
  BY CommitAdmitted DEF InductiveInv
<1> HIDE DEF task
<1>2. CASE task.op = "invite"
  BY <1>1, <1>2, TaskType DEF Admissible, UserAfter, Owners, TypeOK, User, None
<1>3. CASE task.op = "accept"
  BY <1>1, <1>3, TaskType DEF Admissible, UserAfter, Owners, TypeOK, User, None
<1>4. CASE task.op \notin {"invite", "accept"}
  BY <1>1, <1>4 DEF UserAfter
<1> QED
  BY <1>2, <1>3, <1>4

LEMMA CommitKeeps ==
    ASSUME InductiveInv, NEW c \in Clients, Commit(c)
    PROVE  InductiveInv'
<1>1. CASE request[c].overtaken
  <2>1. request[c].task \in Task /\ Reserves(request[c].task)
    BY WorkingType DEF InductiveInv, RequestsOK, RequestOK, Commit, Stages
  <2> QED
    BY <1>1, <2>1, GotoKeeps DEF Commit, Stages
<1>2. CASE ~request[c].overtaken
  <2> DEFINE task == request[c].task
             over == {d \in Clients : request[d].stage = "commit"}
  <2>1. /\ task \in Task /\ Reserves(task)
        /\ user' = UserAfter(task) /\ sub' = SubAfter(task)
        /\ Finish(c, None) /\ raced' = raced /\ TypeOK /\ RequestsOK /\ OwnerRemains
    BY <1>2, CommitAdmitted DEF InductiveInv
  <2>2. user' \in [Users -> User] /\ sub' \in Sub /\ raced' \in BOOLEAN
    BY <2>1, UserAfterType, SubAfterType DEF TypeOK
  <2>3. \A u \in Users : user[u].status # None => user'[u].status # None
    BY <2>1, UserAfterType
  <2>4. request' = [d \in Clients |->
           IF d \in {c} THEN Idle
           ELSE IF d \in over THEN [request[d] EXCEPT !.overtaken = TRUE] ELSE request[d]]
    BY <2>1 DEF Finish
  <2>5. \A d \in over \ {c} : request[d] # Idle
    BY DEF Idle
  <2>6. \A d \in Clients \ ({c} \cup over) : request[d].stage # "commit"
    OBVIOUS
  <2>7. /\ Owners(user) \subseteq Owners(user')
        /\ \A o \in Owners(user') \ Owners(user) : user[o].status = None
    BY <1>2, CommitOwners
  <2>8. over \in SUBSET Clients /\ {c} \in SUBSET Clients
    OBVIOUS
  <2> HIDE DEF over, task
  <2>9. TypeOK' /\ RequestsOK'
    BY <2>1, <2>2, <2>3, <2>4, <2>5, <2>6, <2>7, <2>8, WriteKeeps
  <2>10. OwnerRemains'
    BY <2>1, <2>7 DEF OwnerRemains
  <2> QED
    BY <1>2, <2>9, <2>10, CommitFits DEF InductiveInv
<1> QED
  BY <1>1, <1>2

-----------------------------------------------------------------------------
(* The subscription.                                                       *)

LEMMA SubscriptionChangesKeeps ==
    ASSUME InductiveInv, SubscriptionChanges
    PROVE  InductiveInv'
<1> DEFINE none == {}
           over == {d \in Clients : request[d].stage = "commit"}
<1>1. /\ TypeOK /\ RequestsOK /\ OwnerRemains /\ OrderedPlansFit
      /\ UNCHANGED <<user, raced>>
  BY DEF InductiveInv, SubscriptionChanges
<1>2. /\ sub' \in Sub /\ sub'.checkouts \subseteq sub.checkouts
      /\ sub'.scheduled \in {sub.scheduled, None}
  BY <1>1 DEF SubscriptionChanges, TypeOK, Sub
<1>3. user' \in [Users -> User] /\ raced' \in BOOLEAN
  BY <1>1 DEF TypeOK
<1>4. request' = [d \in Clients |->
         IF d \in none THEN Idle
         ELSE IF d \in over THEN [request[d] EXCEPT !.overtaken = TRUE] ELSE request[d]]
  BY DEF SubscriptionChanges
<1>5. \A d \in over : request[d] # Idle
  BY DEF Idle
<1>6. \A d \in Clients \ over : request[d].stage # "commit"
  OBVIOUS
<1>7. \A v \in Users : Occupies(v)' => Occupies(v)
  BY <1>1 DEF Occupies
<1>8. over \in SUBSET Clients /\ none \in SUBSET Clients /\ over \ none = over
      /\ none \cup over = over
  OBVIOUS
<1> HIDE DEF over, none
<1>9. TypeOK' /\ RequestsOK'
  BY <1>1, <1>2, <1>3, <1>4, <1>5, <1>6, <1>8, WriteKeeps
<1>10. OrderedPlansFit'
  BY <1>1, <1>2, <1>7, <1>9, OrderedPlansKept
<1> QED
  BY <1>1, <1>9, <1>10 DEF InductiveInv, OwnerRemains

LEMMA CheckoutEndsKeeps ==
    ASSUME InductiveInv, CheckoutEnds
    PROVE  InductiveInv'
<1> DEFINE none == {}
<1>1. /\ TypeOK /\ RequestsOK /\ OwnerRemains /\ OrderedPlansFit
      /\ UNCHANGED <<user, request, raced>>
  BY DEF InductiveInv, CheckoutEnds
<1>2. /\ sub' \in Sub /\ sub'.checkouts \subseteq sub.checkouts
      /\ sub'.tier = sub.tier /\ sub'.scheduled = sub.scheduled /\ sub'.full = sub.full
  BY <1>1 DEF CheckoutEnds, TypeOK, Sub
<1>3. Plans' \subseteq Plans
  BY <1>2 DEF Plans
<1>4. \A v \in Users : Occupies(v)' => Occupies(v)
  BY <1>1 DEF Occupies
<1>5. user' \in [Users -> User] /\ raced' \in BOOLEAN
  BY <1>1 DEF TypeOK
<1>6. request' = [d \in Clients |->
         IF d \in none THEN Idle
         ELSE IF d \in none THEN [request[d] EXCEPT !.overtaken = TRUE] ELSE request[d]]
  BY <1>1 DEF TypeOK
<1>7. none \in SUBSET Clients /\ none = {}
  OBVIOUS
<1> HIDE DEF none
<1>8. TypeOK' /\ RequestsOK'
  BY <1>1, <1>2, <1>3, <1>4, <1>5, <1>6, <1>7, WriteKeeps
<1>9. OrderedPlansFit'
  BY <1>1, <1>2, <1>4, <1>8, OrderedPlansKept
<1> QED
  BY <1>1, <1>8, <1>9 DEF InductiveInv, OwnerRemains

-----------------------------------------------------------------------------
(* The mailbox: one user's token changes, and nobody takes a seat.         *)

LEMMA MailKeeps ==
    ASSUME InductiveInv, NEW u \in Users, NEW mail \in {"live", "over", "verified"},
           user[u].status \in {"invited", "active"},
           user[u].status = "active" \/ mail = "over",
           \A c \in Clients :
              request[c].stage = "commit" /\ ~request[c].overtaken
                /\ request[c].task.op = "accept" => request[c].task.user # u,
           user' = [user EXCEPT ![u].mail = mail], UNCHANGED <<sub, request, raced>>
    PROVE  InductiveInv'
<1> DEFINE none == {}
<1>1. /\ TypeOK /\ RequestsOK /\ OwnerRemains /\ OrderedPlansFit
      /\ user \in [Users -> User]
  BY DEF InductiveInv, TypeOK
<1>2. user' \in [Users -> User] /\ sub' \in Sub /\ raced' \in BOOLEAN
  BY <1>1 DEF TypeOK, User
<1>3. \A v \in Users : /\ user'[v].status = user[v].status /\ user'[v].role = user[v].role
                       /\ v # u => user'[v] = user[v]
  BY <1>1 DEF User
<1>4. \A v \in Users : Occupies(v)' => Occupies(v)
  BY <1>1, <1>3 DEF Occupies, User
<1>5. Plans' \subseteq Plans
  BY DEF Plans
<1>6. Owners(user') = Owners(user)
  BY <1>3 DEF Owners
<1>7. \A c \in Clients :
         LET r == request[c] IN
         r.stage = "commit" /\ ~r.overtaken /\ r.task.op \in {"invite", "accept"} =>
            user'[r.task.user] = user[r.task.user]
  <2> SUFFICES ASSUME NEW c \in Clients, request[c].stage = "commit", ~request[c].overtaken,
                      request[c].task.op \in {"invite", "accept"}
               PROVE  request[c].task.user \in Users \ {u}
    BY <1>3
  <2>1. request[c].task \in Task /\ Admissible(request[c].task)
    BY <1>1, WorkingType DEF RequestsOK, RequestOK, Stages
  <2>2. request[c].task.user \in Users
    BY <2>1, TaskType
  <2>3. request[c].task.op = "invite" => user[request[c].task.user].status = None
    BY <2>1 DEF Admissible
  <2> QED
    BY <2>2, <2>3 DEF None
<1>8. request' = [d \in Clients |->
         IF d \in none THEN Idle
         ELSE IF d \in none THEN [request[d] EXCEPT !.overtaken = TRUE] ELSE request[d]]
  BY DEF InductiveInv, TypeOK
<1>9. none \in SUBSET Clients /\ none = {}
  OBVIOUS
<1> HIDE DEF none
<1>10. \A d \in Clients \ (none \cup none) :
          LET r == request[d] IN
          /\ r.stage = "commit" /\ ~r.overtaken =>
               /\ \A v \in Users : Occupies(v)' => Occupies(v)
               /\ Plans' \subseteq Plans /\ sub'.full = sub.full
               /\ r.task.op \in {"invite", "accept"} => user'[r.task.user] = user[r.task.user]
          /\ r.stage = "write" /\ ~r.overtaken =>
               /\ Owners(user) \subseteq Owners(user')
               /\ \A o \in Owners(user') \ Owners(user) : user[o].status = None
  BY <1>4, <1>5, <1>6, <1>7
<1>11. \A v \in Users : user[v].status # None => user'[v].status # None
  BY <1>3
<1>12. \A d \in none \ none : request[d] # Idle
  OBVIOUS
<1>13. TypeOK' /\ RequestsOK'
  BY <1>1, <1>2, <1>8, <1>9, <1>10, <1>11, <1>12, WriteKeeps
<1>14. OrderedPlansFit'
  BY <1>1, <1>4, <1>13, OrderedPlansKept
<1> QED
  BY <1>1, <1>6, <1>13, <1>14 DEF InductiveInv, OwnerRemains

LEMMA MailboxKeeps ==
    ASSUME InductiveInv, NEW u \in Users, VerifyEmail(u) \/ Resend(u) \/ TokenExpires(u)
    PROVE  InductiveInv'
<1>1. \A c \in Clients :
         request[c].stage = "commit" /\ ~request[c].overtaken /\ request[c].task.op = "accept" =>
            user[request[c].task.user].status = "invited"
  BY DEF InductiveInv, RequestsOK, RequestOK, Admissible
<1>2. CASE VerifyEmail(u) \/ Resend(u)
  BY <1>1, <1>2, MailKeeps DEF VerifyEmail, Resend
<1>3. CASE TokenExpires(u)
  <2>1. \A c \in Clients : request[c].stage = "commit" /\ request[c].task.op = "accept" =>
           request[c].task = [op |-> "accept", user |-> request[c].task.user]
    BY WorkingType DEF InductiveInv, Stages, Task
  <2> QED
    BY <1>3, <2>1, MailKeeps DEF TokenExpires
<1> QED
  BY <1>2, <1>3

-----------------------------------------------------------------------------
(* The write of a change of role or of a disabling.                        *)

(* The only one of its users that changes is one it knows, and nobody      *)
(* takes a seat by it.                                                     *)
LEMMA WriteChangeUsers ==
    ASSUME InductiveInv, NEW c \in Clients, WriteChange(c)
    PROVE  /\ request[c].task \in Task /\ request[c].task.user \in Users
           /\ request[c].task.op \in {"role", "disable"}
           /\ user[request[c].task.user].status # None
           /\ user' = Changed(request[c].task) /\ user' \in [Users -> User]
           /\ \A u \in Users : u # request[c].task.user => user'[u] = user[u]
           /\ \A u \in Users : user[u].status # None => user'[u].status # None
           /\ \A v \in Users : Occupies(v)' => Occupies(v)
<1> DEFINE task == request[c].task
<1>1. /\ task \in Task /\ task.op \in {"role", "disable"}
      /\ user[task.user].status # None /\ user' = Changed(task)
      /\ user \in [Users -> User]
  BY WorkingType DEF InductiveInv, TypeOK, RequestsOK, RequestOK, WriteChange, Stages
<1>2. task.user \in Users /\ (task.op = "role" => task.role \in Roles)
  BY <1>1, TaskType
<1> HIDE DEF task
<1>3. \A u \in Users : u # task.user => user'[u] = user[u]
  BY <1>1, <1>2 DEF Changed
<1>4. CASE task.op = "role"
  <2>1. user'[task.user] = [user[task.user] EXCEPT !.role = task.role]
    BY <1>1, <1>2, <1>4 DEF Changed
  <2>2. user' \in [Users -> User]
    BY <1>1, <1>2, <1>4 DEF Changed, User
  <2> QED
    BY <1>1, <1>2, <1>3, <2>1, <2>2 DEF Occupies, User, task
<1>5. CASE task.op = "disable"
  <2>1. user'[task.user] = [user[task.user] EXCEPT !.status = "disabled"]
    BY <1>1, <1>2, <1>5 DEF Changed
  <2>2. user' \in [Users -> User]
    BY <1>1, <1>2, <1>5 DEF Changed, User
  <2> QED
    BY <1>1, <1>2, <1>3, <2>1, <2>2 DEF Occupies, User, None, task
<1> QED
  BY <1>1, <1>4, <1>5

LEMMA WriteChangeRequests ==
    ASSUME InductiveInv, NEW c \in Clients, WriteChange(c)
    PROVE  TypeOK' /\ RequestsOK'
<1> DEFINE task == request[c].task
           differ == Owners(user) # Owners(user')
           over == {d \in Clients : Conflicts(request[d], task.user, differ)}
           one == {c}
<1>1. /\ task \in Task /\ task.user \in Users /\ user[task.user].status # None
      /\ user' \in [Users -> User]
      /\ \A u \in Users : u # task.user => user'[u] = user[u]
      /\ \A u \in Users : user[u].status # None => user'[u].status # None
      /\ \A v \in Users : Occupies(v)' => Occupies(v)
  BY WriteChangeUsers
<1>2. TypeOK /\ RequestsOK /\ sub' = sub /\ sub' \in Sub /\ Plans' \subseteq Plans
  BY DEF InductiveInv, WriteChange, TypeOK, Plans
<1>3. raced' \in BOOLEAN
  BY DEF WriteChange
<1>4. request' = [d \in Clients |->
         IF d \in one THEN Idle
         ELSE IF d \in over THEN [request[d] EXCEPT !.overtaken = TRUE] ELSE request[d]]
  BY DEF WriteChange
<1>5. \A d \in over \ one : request[d] # Idle
  BY DEF Conflicts, Idle
<1>6. ASSUME NEW d \in Clients \ over, request[d].stage = "write"
      PROVE  Owners(user) = Owners(user')
  BY <1>6 DEF Conflicts
<1>7. ASSUME NEW d \in Clients \ over, request[d].stage = "commit", ~request[d].overtaken,
             request[d].task.op \in {"invite", "accept"}
      PROVE  user'[request[d].task.user] = user[request[d].task.user]
  <2>1. request[d].task \in Task /\ Admissible(request[d].task)
    BY <1>2, <1>7, WorkingType DEF RequestsOK, RequestOK, Stages
  <2>2. request[d].task.user \in Users
    BY <1>7, <2>1, TaskType
  <2>3. CASE request[d].task.op = "invite"
    <3>1. user[request[d].task.user].status = None
      BY <2>1, <2>3 DEF Admissible
    <3> QED
      BY <1>1, <2>2, <3>1
  <2>4. CASE request[d].task.op = "accept"
    <3>1. request[d].task = [op |-> "accept", user |-> request[d].task.user]
      BY <2>1, <2>4 DEF Task
    <3>2. request[d].task.user # task.user
      BY <1>7, <3>1 DEF Conflicts
    <3> QED
      BY <1>1, <2>2, <3>2
  <2> QED
    BY <1>7, <2>3, <2>4
<1>8. over \in SUBSET Clients /\ one \in SUBSET Clients
  OBVIOUS
<1> HIDE DEF task, differ, over, one
<1> QED
  BY <1>1, <1>2, <1>3, <1>4, <1>5, <1>6, <1>7, <1>8, WriteKeeps

(* The owner who is lost was not the last one, or the request was          *)
(* overtaken by another that removed one.                                  *)
LEMMA WriteChangeOwners ==
    ASSUME InductiveInv, NEW c \in Clients, WriteChange(c)
    PROVE  OwnerRemains'
<1> DEFINE task == request[c].task
<1>1. SUFFICES ASSUME Owners(user') = {}, ~raced'
               PROVE  FALSE
  BY DEF OwnerRemains
<1>2. ~raced /\ Owners(user) # {}
  BY <1>1 DEF WriteChange, InductiveInv, OwnerRemains
<1>3. Owners(user) \ Owners(user') # {}
  BY <1>1, <1>2
<1>4. ~request[c].overtaken
  BY <1>1, <1>3 DEF WriteChange
<1>5. /\ task \in Task /\ task.user \in Users
      /\ task.op \in {"role", "disable"} /\ user' = Changed(task)
      /\ user \in [Users -> User]
      /\ \A u \in Users : u # task.user => user'[u] = user[u]
  BY WriteChangeUsers DEF InductiveInv, TypeOK
<1>6. \A o \in Owners(user) : o = task.user
  BY <1>1, <1>5 DEF Owners
<1>7. Demotes(task)
  <2> SUFFICES ASSUME task.op = "role", task.role = "owner"
               PROVE  FALSE
    BY <1>5 DEF Demotes
  <2>1. user'[task.user] = [user[task.user] EXCEPT !.role = "owner"]
    BY <1>5 DEF Changed
  <2>2. task.user \in Owners(user)
    BY <1>2, <1>6
  <2> HIDE DEF task
  <2>3. task.user \in Owners(user')
    BY <1>5, <2>1, <2>2 DEF Owners, User
  <2> QED
    BY <1>1, <2>3
<1>8. \E o \in Owners(user) : o # task.user
  BY <1>2, <1>4, <1>6, <1>7 DEF InductiveInv, RequestsOK, RequestOK, WriteChange, Spares
<1> QED
  BY <1>6, <1>8

LEMMA WriteChangeKeeps ==
    ASSUME InductiveInv, NEW c \in Clients, WriteChange(c)
    PROVE  InductiveInv'
<1>1. TypeOK' /\ RequestsOK'
  BY WriteChangeRequests
<1>2. \A v \in Users : Occupies(v)' => Occupies(v)
  BY WriteChangeUsers
<1>3. OrderedPlansFit'
  BY <1>1, <1>2, OrderedPlansKept DEF InductiveInv, WriteChange, TypeOK, Sub
<1> QED
  BY <1>1, <1>3, WriteChangeOwners DEF InductiveInv

-----------------------------------------------------------------------------
(* The theorems.                                                           *)

LEMMA InitInv == Init => InductiveInv
<1> SUFFICES ASSUME Init
             PROVE  InductiveInv
  OBVIOUS
<1>1. TypeOK
  BY AccountsAssumption DEF Init, TypeOK, User, Sub, Request, None
<1>2. RequestsOK
  BY DEF Init, RequestsOK, RequestOK, Idle
<1>3. Founder \in Owners(user)
  BY AccountsAssumption DEF Init, Owners, None
<1>4. OrderedPlansFit
  BY DEF Init, OrderedPlansFit
<1> QED
  BY <1>1, <1>2, <1>3, <1>4 DEF InductiveInv, OwnerRemains

LEMMA NextInv == InductiveInv /\ [Next]_vars => InductiveInv'
<1> SUFFICES ASSUME InductiveInv, [Next]_vars
             PROVE  InductiveInv'
  OBVIOUS
<1>1. ASSUME NEW c \in Clients, Ask(c) \/ Snapshot(c) \/ Commit(c)
      PROVE  InductiveInv'
  BY <1>1, AskKeeps, SnapshotKeeps, CommitKeeps
<1>2. ASSUME NEW c \in Clients, AskChange(c) \/ ReadTarget(c) \/ CountOwners(c) \/ WriteChange(c)
      PROVE  InductiveInv'
  BY <1>2, AskChangeKeeps, ReadTargetKeeps, CountOwnersKeeps, WriteChangeKeeps
<1>3. CASE SubscriptionChanges \/ CheckoutEnds
  BY <1>3, SubscriptionChangesKeeps, CheckoutEndsKeeps
<1>4. ASSUME NEW u \in Users, VerifyEmail(u) \/ Resend(u) \/ TokenExpires(u)
      PROVE  InductiveInv'
  BY <1>4, MailboxKeeps
<1>5. CASE UNCHANGED vars
  BY <1>5 DEF vars, InductiveInv, TypeOK, RequestsOK, RequestOK, OwnerRemains, OrderedPlansFit,
     Admissible, HasSeatFor, Fits, Used, Plans, Occupies, Spares
<1> QED
  BY <1>1, <1>2, <1>3, <1>4, <1>5 DEF Next

(* However requests of the company overlap, the inductive invariant holds  *)
(* (auth.service.ts).                                                      *)
THEOREM InductiveInvariant == Spec => []InductiveInv
BY InitInv, NextInv, PTL DEF Spec

(* The users are well-formed, the company keeps an owner unless two        *)
(* requests that remove owners overlap, and the plans that were scheduled  *)
(* or ordered have seats for everyone (updateUserRole, disableUser,        *)
(* reserveSeat, changeSubscription, createCheckoutSession).                *)
THEOREM AccountsAreSound == Spec => []AccountsSound
<1>1. InductiveInv => AccountsSound
  BY DEF InductiveInv, AccountsSound
<1> QED
  BY <1>1, InductiveInvariant, PTL

(* Nobody takes a seat beyond any plan that is a limit at present, however *)
(* invitations, acceptances and plan changes overlap (reserveSeat).        *)
THEOREM SeatsAreBookedOnce == Spec => NoOverbooking
<1>1. ASSUME InductiveInv, [Next]_vars
      PROVE  [BookingStep]_vars
  <2>1. ASSUME \A v \in Users : Occupies(v)' => Occupies(v)
        PROVE  BookingStep
    BY <2>1, SeatsShrink DEF BookingStep
  <2>2. ASSUME NEW c \in Clients, Commit(c)
        PROVE  BookingStep
    <3>1. CASE request[c].overtaken
      BY <2>1, <2>2, <3>1 DEF Commit, Occupies
    <3>2. CASE ~request[c].overtaken
      <4> DEFINE task == request[c].task
      <4>1. /\ task \in Task /\ Reserves(task) /\ Admissible(task)
            /\ user' = UserAfter(task) /\ sub' = SubAfter(task) /\ TypeOK
        BY <1>1, <2>2, <3>2, CommitAdmitted DEF InductiveInv
      <4> HIDE DEF task
      <4>2. CASE task.op \in {"invite", "accept"}
        <5>1. task.user \in Users /\ HasSeatFor(task.user)
          BY <4>1, <4>2, TaskType DEF Admissible
        <5>2. \A v \in Users \ {task.user} : user'[v] = user[v]
          BY <4>1, <4>2, <5>1 DEF UserAfter, TypeOK
        <5>3. Plans' = Plans
          BY <4>1, <4>2 DEF SubAfter, Plans
        <5> QED
          BY <4>1, <5>1, <5>2, <5>3, OneSeatTaken DEF BookingStep
      <4>3. CASE task.op \notin {"invite", "accept"}
        BY <2>1, <4>1, <4>3 DEF UserAfter, Occupies
      <4> QED
        BY <4>2, <4>3
    <3> QED
      BY <3>1, <3>2
  <2>3. ASSUME NEW c \in Clients, WriteChange(c)
        PROVE  BookingStep
    BY <1>1, <2>1, <2>3, WriteChangeUsers
  <2>4. ASSUME NEW u \in Users, VerifyEmail(u) \/ Resend(u) \/ TokenExpires(u)
        PROVE  BookingStep
    <3>1. \A v \in Users : Occupies(v)' => Occupies(v)
      BY <1>1, <2>4 DEF VerifyEmail, Resend, TokenExpires, Occupies, InductiveInv, TypeOK, User
    <3> QED
      BY <2>1, <3>1
  <2>5. CASE UNCHANGED user
    BY <2>1, <2>5 DEF Occupies
  <2> QED
    BY <1>1, <2>2, <2>3, <2>4, <2>5 DEF Next, vars, Ask, Snapshot, AskChange, ReadTarget,
       CountOwners, SubscriptionChanges, CheckoutEnds
<1> QED
  BY <1>1, InductiveInvariant, PTL DEF Spec, NoOverbooking

(* A user who was disabled never comes back (acceptInvite, disableUser).   *)
THEOREM DisabledStaysDisabled == Spec => DisabledForGood
<1>1. ASSUME InductiveInv, [Next]_vars
      PROVE  [DisabledStep]_vars
  <2>1. ASSUME NEW c \in Clients, Commit(c)
        PROVE  DisabledStep
    <3>1. CASE request[c].overtaken
      BY <2>1, <3>1 DEF Commit, DisabledStep
    <3>2. CASE ~request[c].overtaken
      <4> DEFINE task == request[c].task
      <4>1. /\ task \in Task /\ Reserves(task) /\ Admissible(task)
            /\ user' = UserAfter(task) /\ user \in [Users -> User]
        BY <1>1, <2>1, <3>2, CommitAdmitted DEF InductiveInv, TypeOK
      <4> HIDE DEF task
      <4>2. CASE task.op \in {"invite", "accept"}
        <5>1. task.user \in Users /\ user[task.user].status # "disabled"
          BY <4>1, <4>2, TaskType DEF Admissible, None
        <5>2. \A v \in Users \ {task.user} : user'[v] = user[v]
          BY <4>1, <4>2, <5>1 DEF UserAfter
        <5> QED
          BY <5>1, <5>2 DEF DisabledStep
      <4>3. CASE task.op \notin {"invite", "accept"}
        BY <4>1, <4>3 DEF UserAfter, DisabledStep
      <4> QED
        BY <4>2, <4>3
    <3> QED
      BY <3>1, <3>2
  <2>2. ASSUME NEW c \in Clients, WriteChange(c)
        PROVE  DisabledStep
    <3> DEFINE task == request[c].task
    <3>1. /\ task \in Task /\ task.user \in Users /\ user' = Changed(task)
          /\ \A u \in Users : u # task.user => user'[u] = user[u]
          /\ user \in [Users -> User]
      BY <1>1, <2>2, WriteChangeUsers DEF InductiveInv, TypeOK
    <3> HIDE DEF task
    <3> QED
      BY <3>1 DEF Changed, DisabledStep, User
  <2>3. ASSUME NEW u \in Users, VerifyEmail(u) \/ Resend(u) \/ TokenExpires(u)
        PROVE  DisabledStep
    BY <1>1, <2>3 DEF VerifyEmail, Resend, TokenExpires, DisabledStep, InductiveInv, TypeOK, User
  <2>4. CASE UNCHANGED user
    BY <2>4 DEF DisabledStep
  <2> QED
    BY <1>1, <2>1, <2>2, <2>3, <2>4 DEF Next, vars, Ask, Snapshot, AskChange, ReadTarget,
       CountOwners, SubscriptionChanges, CheckoutEnds
<1> QED
  BY <1>1, InductiveInvariant, PTL DEF Spec, DisabledForGood
=============================================================================

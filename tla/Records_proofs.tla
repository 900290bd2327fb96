---------------------------- MODULE Records_proofs --------------------------
(***************************************************************************)
(* Proofs about Records. The monitor of low stock: the inductive           *)
(* invariant, and with it that no alert is missed, mailed twice or left    *)
(* open, for every number of recipients, overlapping runs, attempts and    *)
(* episodes. The suppliers, the notices, the deliveries, the spending and  *)
(* the stock: an inductive invariant of each, for every set of calls,      *)
(* people, deals and places and every bound, and with them the properties  *)
(* of the parts together.                                                  *)
(***************************************************************************)
EXTENDS RecordsInvariants, FiniteSetTheorems, SequenceTheorems, WellFoundedInduction, TLAPS

-----------------------------------------------------------------------------
(* The data.                                                               *)

LEMMA RunType ==
    ASSUME NEW s \in Run, s # Idle
    PROVE  /\ s.stage \in {"feed", "mail", "mark", "forecast"}
           /\ s.seen \in Row /\ s.user \in 1..Users + 1
           /\ s \in [stage: {"feed", "mail", "mark", "forecast"}, seen: Row, user: 1..Users + 1]
BY DEF Run

LEMMA RowType ==
    ASSUME NEW w \in Row
    PROVE  /\ w.episode \in Nat /\ w.episode <= MaxEpisodes
           /\ w.episode # 0 => w.episode \in Episodes
           /\ w.notified \in BOOLEAN /\ w.forecast \in {"unset", "later", "due"}
BY BoundsAssumption DEF Row, Episodes

LEMMA ResolvedType == Resolved \in Row
BY BoundsAssumption DEF Resolved, Row

LEMMA JobType ==
    ASSUME TypeOK, NEW m \in Episodes \X ByMail
    PROVE  /\ job[m] \in Job /\ job[m].attempts \in Nat
           /\ job[m].stage \in {"none", "waiting", "sending", "sent", "recorded", "done", "failed"}
           /\ sent[m] \in Nat /\ unrecorded[m] \in Nat
BY AttemptsAssumption DEF TypeOK, Job

-----------------------------------------------------------------------------
(* What a step leaves of the runs.                                         *)

LEMMA RunKept ==
    ASSUME TypeOK, NEW s \in Run, RunOK(s),
           opened' \in Nat, opened <= opened',
           \A n \in Episodes \X InApp : feed[n] # "none" => feed'[n] # "none",
           \A m \in Episodes \X ByMail : job[m].stage # "none" => job'[m].stage # "none",
           \A e \in 1..opened :
              (row.episode = e => row.notified) => (row'.episode = e => row'.notified)
    PROVE  RunOK(s)'
<1> SUFFICES ASSUME s # Idle
             PROVE  RunOK(s)'
  BY DEF RunOK
<1>1. s.seen.episode \in 1..opened /\ opened \in Nat /\ 1..opened \subseteq Episodes
  BY BoundsAssumption DEF RunOK, TypeOK, Episodes
<1>2. s.seen.episode \in 1..opened'
  BY <1>1
<1>3. \A u \in InApp : <<s.seen.episode, u>> \in Episodes \X InApp
  BY <1>1
<1>4. \A u \in ByMail : <<s.seen.episode, u>> \in Episodes \X ByMail
  BY <1>1
<1> QED
  BY <1>1, <1>2, <1>3, <1>4 DEF RunOK

LEMMA RunsKept ==
    ASSUME TypeOK, RunsOK, run' = run,
           opened' \in Nat, opened <= opened',
           \A n \in Episodes \X InApp : feed[n] # "none" => feed'[n] # "none",
           \A m \in Episodes \X ByMail : job[m].stage # "none" => job'[m].stage # "none",
           \A e \in 1..opened :
              (row.episode = e => row.notified) => (row'.episode = e => row'.notified)
    PROVE  RunsOK'
<1> SUFFICES ASSUME NEW r \in Runs
             PROVE  RunOK(run[r])'
  BY DEF RunsOK
<1>1. PICK s \in Run : s = run[r] /\ RunOK(s)
  BY DEF TypeOK, RunsOK
<1>2. RunOK(s)'
  BY <1>1, RunKept
<1> QED
  BY <1>1, <1>2 DEF RunOK

(* One run goes on, and the others are left as they are.                   *)
LEMMA RunGoesOn ==
    ASSUME TypeOK, RunsOK, NEW r \in Runs, NEW t \in Run, RunOK(t)', Goto(r, t),
           opened' \in Nat, opened <= opened',
           \A n \in Episodes \X InApp : feed[n] # "none" => feed'[n] # "none",
           \A m \in Episodes \X ByMail : job[m].stage # "none" => job'[m].stage # "none",
           \A e \in 1..opened :
              (row.episode = e => row.notified) => (row'.episode = e => row'.notified)
    PROVE  RunsOK' /\ run' \in [Runs -> Run]
<1>1. run' \in [Runs -> Run] /\ run'[r] = t /\ \A q \in Runs \ {r} : run'[q] = run[q]
  BY DEF TypeOK, Goto
<1>2. ASSUME NEW q \in Runs
      PROVE  RunOK(run[q])'
  <2>1. CASE q = r
    BY <1>1, <2>1 DEF RunOK
  <2>2. CASE q # r
    <3>1. PICK s \in Run : s = run[q] /\ RunOK(s)
      BY DEF TypeOK, RunsOK
    <3>2. RunOK(s)'
      BY <3>1, RunKept
    <3> QED
      BY <1>1, <2>2, <3>1, <3>2 DEF RunOK
  <2> QED
    BY <2>1, <2>2
<1> QED
  BY <1>1, <1>2 DEF RunsOK

LEMMA JobsUnchanged ==
    ASSUME JobsOK, UNCHANGED <<job, mail>>
    PROVE  JobsOK'
BY DEF JobsOK, JobOK, mail

-----------------------------------------------------------------------------
(* Stock operations.                                                       *)

LEMMA ResolvedFeedType ==
    ASSUME TypeOK, NEW N
    PROVE  /\ ResolvedFeed(N) \in [Episodes \X InApp -> {"none", "open", "resolved"}]
           /\ \A n \in Episodes \X InApp :
                /\ ResolvedFeed(N)[n] = "open" => feed[n] = "open" /\ n \notin N
                /\ feed[n] # "none" => ResolvedFeed(N)[n] # "none"
BY DEF TypeOK, ResolvedFeed

LEMMA OpenNoticesType ==
    ASSUME TypeOK, NEW e
    PROVE  /\ OpenNotices(e) \subseteq Episodes \X InApp
           /\ \A n \in Episodes \X InApp : n \in OpenNotices(e) <=> n[1] = e /\ feed[n] = "open"
BY DEF TypeOK, OpenNotices

(* The row gets no episode, or one that is new.                            *)
LEMMA RowReplaced ==
    ASSUME InductiveInv, row' \in Row, opened' \in 0..MaxEpisodes, opened <= opened',
           row'.episode <= opened', row'.episode \notin 1..opened,
           ~row'.notified, row'.forecast = "unset", txn' = NoTxn,
           UNCHANGED <<monitor, job, mail>>,
           feed' \in [Episodes \X InApp -> {"none", "open", "resolved"}],
           plain' \in [Checks -> Check], missed' \subseteq Episodes \X InApp,
           \A n \in Episodes \X InApp : feed[n] # "none" => feed'[n] # "none",
           ResolvedUnlessMissed'
    PROVE  InductiveInv'
<1>1. opened' \in Nat /\ UNCHANGED <<run, failures, job, delivered, sent, unrecorded>>
  BY BoundsAssumption DEF monitor, mail
<1>2. TypeOK'
  BY <1>1 DEF InductiveInv, TypeOK, Txn
<1>3. RunsOK'
  BY <1>1, RunsKept DEF InductiveInv
<1>4. EpisodeServed'
  BY DEF EpisodeServed
<1>5. TxnOK'
  BY DEF TxnOK
<1> QED
  BY <1>1, <1>2, <1>3, <1>4, <1>5, JobsUnchanged DEF InductiveInv

(* The row stays as it is.                                                 *)
LEMMA RowLeft ==
    ASSUME InductiveInv, txn' \in Txn, txn' = NoTxn \/ txn'.seen = row.episode,
           UNCHANGED <<row, opened, monitor, job, mail>>,
           feed' \in [Episodes \X InApp -> {"none", "open", "resolved"}],
           plain' \in [Checks -> Check], missed' \subseteq Episodes \X InApp,
           \A n \in Episodes \X InApp : feed[n] # "none" => feed'[n] # "none",
           ResolvedUnlessMissed'
    PROVE  InductiveInv'
<1>1. opened \in Nat /\ UNCHANGED <<run, failures, job, delivered, sent, unrecorded>>
  BY BoundsAssumption DEF InductiveInv, TypeOK, monitor, mail
<1>2. TypeOK'
  BY <1>1 DEF InductiveInv, TypeOK
<1>3. RunsOK'
  BY <1>1, RunsKept DEF InductiveInv
<1>4. EpisodeServed'
  <2>1. row.episode # 0 => row.episode \in Episodes
    BY RowType DEF InductiveInv, TypeOK
  <2>2. \A u \in InApp : row.episode # 0 => <<row.episode, u>> \in Episodes \X InApp
    BY <2>1
  <2> QED
    BY <1>1, <2>2 DEF InductiveInv, EpisodeServed
<1>5. TxnOK'
  BY DEF TxnOK
<1> QED
  BY <1>1, <1>2, <1>3, <1>4, <1>5, JobsUnchanged DEF InductiveInv

LEMMA NewEpisodeType ==
    ASSUME InductiveInv, opened < MaxEpisodes
    PROVE  /\ NewEpisode \in Row /\ NewEpisode.episode = opened + 1
           /\ ~NewEpisode.notified /\ NewEpisode.forecast = "unset"
           /\ opened + 1 \in 0..MaxEpisodes /\ opened \in Nat
<1>1. NewEpisode = [episode |-> opened + 1, notified |-> FALSE, forecast |-> "unset"]
  BY DEF NewEpisode
<1>2. opened \in Nat /\ opened + 1 \in 0..MaxEpisodes
  BY BoundsAssumption DEF InductiveInv, TypeOK
<1> QED
  BY <1>1, <1>2 DEF Row

LEMMA ResolvedFields ==
    /\ Resolved \in Row /\ Resolved.episode = 0
    /\ ~Resolved.notified /\ Resolved.forecast = "unset"
BY ResolvedType DEF Resolved

(* What a transaction does.                                                *)
LEMMA TxnKeeps ==
    ASSUME InductiveInv, Begin \/ StockFalls \/ StockRecovers \/ EndTxn
    PROVE  InductiveInv'
<1>1. /\ TypeOK /\ DOMAIN feed = Episodes \X InApp /\ row \in Row /\ TxnOK
      /\ \A n \in DOMAIN feed : n[1] \in Episodes
      /\ opened \in 0..MaxEpisodes /\ opened \in Nat
  BY BoundsAssumption DEF InductiveInv, TypeOK
<1>2. CASE Begin \/ EndTxn
  <2>1. /\ UNCHANGED <<row, opened, feed, plain, missed, monitor, job, mail>>
        /\ txn' \in {NoTxn, [stage |-> "open", seen |-> row.episode, late |-> {}]}
    BY <1>2 DEF Begin, EndTxn, alerts
  <2>2. txn' \in Txn /\ (txn' = NoTxn \/ txn'.seen = row.episode)
    BY <1>1, <2>1 DEF Txn, Row
  <2>3. ResolvedUnlessMissed'
    BY <2>1 DEF InductiveInv, ResolvedUnlessMissed, Unresolved
  <2> QED
    BY <1>1, <2>1, <2>2, <2>3, RowLeft DEF TypeOK
<1>3. CASE StockFalls
  <2>1. /\ opened < MaxEpisodes /\ opened' = opened + 1 /\ row' = NewEpisode /\ txn' = NoTxn
        /\ txn.stage = "open" /\ txn.seen = 0
        /\ UNCHANGED <<feed, plain, missed, monitor, job, mail>>
    BY <1>3 DEF StockFalls
  <2>2. row.episode = 0
    BY <1>1, <2>1 DEF TxnOK, NoTxn
  <2>3. ResolvedUnlessMissed'
    BY <1>1, <2>1, <2>2 DEF InductiveInv, ResolvedUnlessMissed, Unresolved, Episodes
  <2>4. row'.episode \notin 1..opened /\ row'.episode <= opened' /\ opened <= opened'
    BY <1>1, <2>1, NewEpisodeType
  <2> QED
    BY <1>1, <2>1, <2>3, <2>4, NewEpisodeType, RowReplaced DEF TypeOK
<1>4. CASE StockRecovers
  <2> DEFINE N == OpenNotices(txn.seen) \ txn.late
  <2>1. /\ row' = Resolved /\ txn' = NoTxn /\ txn.stage = "open" /\ txn # NoTxn
        /\ feed' = ResolvedFeed(N) /\ missed' = missed \cup txn.late
        /\ UNCHANGED <<opened, plain, monitor, job, mail>>
    BY <1>4 DEF StockRecovers, NoTxn
  <2>2. txn.seen = row.episode /\ txn.late \subseteq Episodes \X InApp
    BY <1>1, <2>1 DEF TxnOK, TypeOK, Txn
  <2>3. \A n \in Episodes \X InApp :
            n \in N <=> n[1] = row.episode /\ feed[n] = "open" /\ n \notin txn.late
    BY <1>1, <2>2, OpenNoticesType
  <2> HIDE DEF N
  <2>4. /\ feed' \in [Episodes \X InApp -> {"none", "open", "resolved"}]
        /\ \A n \in Episodes \X InApp :
              /\ feed[n] # "none" => feed'[n] # "none"
              /\ feed'[n] = "open" => feed[n] = "open" /\ n \notin N
    BY <1>1, <2>1, ResolvedFeedType
  <2>5. ResolvedUnlessMissed'
    BY <1>1, <2>1, <2>3, <2>4 DEF InductiveInv, ResolvedUnlessMissed, Unresolved
  <2>6. missed' \subseteq Episodes \X InApp
    BY <1>1, <2>1, <2>2 DEF TypeOK
  <2> QED
    BY <1>1, <2>1, <2>4, <2>5, <2>6, ResolvedFields, RowReplaced DEF TypeOK
<1> QED
  BY <1>2, <1>3, <1>4

LEMMA SetCheckType ==
    ASSUME TypeOK, NEW c \in Checks, NEW stage \in {"none", "write", "feed"},
           NEW seen \in 0..MaxEpisodes, SetCheck(c, stage, seen)
    PROVE  /\ plain' \in [Checks -> Check]
           /\ plain'[c].stage = stage /\ plain'[c].seen = seen
           /\ \A d \in Checks \ {c} : plain'[d] = plain[d]
BY DEF TypeOK, SetCheck, Check

(* A reconciliation outside of a transaction.                              *)
LEMMA CheckStepKeeps ==
    ASSUME InductiveInv, NEW c \in Checks, CheckStep(c)
    PROVE  InductiveInv'
<1>1. /\ TypeOK /\ DOMAIN feed = Episodes \X InApp /\ row \in Row /\ txn \in Txn
      /\ txn = NoTxn \/ txn.seen = row.episode
      /\ \A n \in DOMAIN feed : n[1] \in Episodes
      /\ plain[c].seen \in 0..MaxEpisodes /\ plain[c].stage \in {"none", "write", "feed"}
      /\ opened \in 0..MaxEpisodes /\ opened \in Nat /\ 0 \in 0..MaxEpisodes
      /\ missed \subseteq Episodes \X InApp
      /\ feed \in [Episodes \X InApp -> {"none", "open", "resolved"}]
      /\ \A n \in DOMAIN feed : feed[n] = "open" =>
            n[1] = row.episode \/ n \in missed
              \/ \E d \in Checks : plain[d].stage = "feed" /\ plain[d].seen = n[1]
  BY BoundsAssumption DEF InductiveInv, TypeOK, TxnOK, Check, ResolvedUnlessMissed, Unresolved
<1> USE DEF Unresolved
<1>2. CASE ReadRow(c)
  <2>1. /\ plain[c].stage = "none" /\ SetCheck(c, "write", row.episode)
        /\ UNCHANGED <<row, opened, feed, txn, missed, monitor, job, mail>>
    BY <1>2 DEF ReadRow, alerts
  <2>2. /\ plain' \in [Checks -> Check] /\ plain'[c].stage = "write"
        /\ \A d \in Checks \ {c} : plain'[d] = plain[d]
    BY <1>1, <2>1, SetCheckType DEF Row
  <2>3. ResolvedUnlessMissed'
    BY <1>1, <2>1, <2>2 DEF ResolvedUnlessMissed
  <2> QED
    BY <1>1, <2>1, <2>2, <2>3, RowLeft
<1>3. CASE OpenRow(c)
  <2>1. /\ plain[c].stage = "write" /\ opened < MaxEpisodes /\ opened' = opened + 1
        /\ row' = NewEpisode /\ missed' = missed \cup OpenNotices(row.episode)
        /\ txn' = NoTxn /\ SetCheck(c, "none", 0) /\ UNCHANGED <<feed, monitor, job, mail>>
    BY <1>3 DEF OpenRow, EndCheck
  <2>2. /\ plain' \in [Checks -> Check] /\ plain'[c].stage = "none"
        /\ \A d \in Checks \ {c} : plain'[d] = plain[d]
    BY <1>1, <2>1, SetCheckType
  <2>3. ResolvedUnlessMissed'
    BY <1>1, <2>1, <2>2, OpenNoticesType DEF ResolvedUnlessMissed
  <2>4. row'.episode \notin 1..opened /\ row'.episode <= opened' /\ opened <= opened'
    BY <1>1, <2>1, NewEpisodeType
  <2>5. missed' \subseteq Episodes \X InApp
    BY <1>1, <2>1, OpenNoticesType
  <2> QED
    BY <1>1, <2>1, <2>2, <2>3, <2>4, <2>5, NewEpisodeType, RowReplaced
<1>4. CASE ClearRow(c)
  <2> DEFINE seen == plain[c].seen
  <2>1. /\ plain[c].stage = "write" /\ row' = Resolved /\ txn' = NoTxn
        /\ missed' = (IF row.episode = seen THEN missed ELSE missed \cup OpenNotices(row.episode))
        /\ SetCheck(c, "feed", seen) /\ UNCHANGED <<opened, feed, monitor, job, mail>>
    BY <1>4 DEF ClearRow
  <2>2. /\ plain' \in [Checks -> Check] /\ plain'[c].stage = "feed" /\ plain'[c].seen = seen
        /\ \A d \in Checks \ {c} : plain'[d] = plain[d]
    BY <1>1, <2>1, SetCheckType
  <2> HIDE DEF seen
  <2>3. ResolvedUnlessMissed'
    BY <1>1, <2>1, <2>2, OpenNoticesType DEF ResolvedUnlessMissed
  <2>5. missed' \subseteq Episodes \X InApp
    BY <1>1, <2>1, OpenNoticesType
  <2> QED
    BY <1>1, <2>1, <2>2, <2>3, <2>5, ResolvedFields, RowReplaced
<1>5. CASE ClearFeed(c)
  <2> DEFINE N == OpenNotices(plain[c].seen)
  <2>1. /\ plain[c].stage = "feed" /\ feed' = ResolvedFeed(N) /\ SetCheck(c, "none", 0)
        /\ UNCHANGED <<row, opened, txn, missed, monitor, job, mail>>
    BY <1>5 DEF ClearFeed, EndCheck
  <2>2. /\ plain' \in [Checks -> Check] /\ plain'[c].stage = "none"
        /\ \A d \in Checks \ {c} : plain'[d] = plain[d]
    BY <1>1, <2>1, SetCheckType
  <2>3. \A n \in Episodes \X InApp : n \in N <=> n[1] = plain[c].seen /\ feed[n] = "open"
    BY <1>1, OpenNoticesType
  <2> HIDE DEF N
  <2>4. /\ feed' \in [Episodes \X InApp -> {"none", "open", "resolved"}]
        /\ \A n \in Episodes \X InApp :
              /\ feed[n] # "none" => feed'[n] # "none"
              /\ feed'[n] = "open" => feed[n] = "open" /\ n \notin N
    BY <1>1, <2>1, ResolvedFeedType
  <2>5. ResolvedUnlessMissed'
    BY <1>1, <2>1, <2>2, <2>3, <2>4 DEF ResolvedUnlessMissed
  <2> QED
    BY <1>1, <2>1, <2>2, <2>4, <2>5, RowLeft
<1>6. CASE StopCheck(c)
  <2>1. /\ missed' = (IF plain[c].stage = "feed"
                      THEN missed \cup OpenNotices(plain[c].seen) ELSE missed)
        /\ SetCheck(c, "none", 0) /\ UNCHANGED <<row, opened, feed, txn, monitor, job, mail>>
    BY <1>6 DEF StopCheck, EndCheck
  <2>2. /\ plain' \in [Checks -> Check] /\ plain'[c].stage = "none"
        /\ \A d \in Checks \ {c} : plain'[d] = plain[d]
    BY <1>1, <2>1, SetCheckType
  <2>3. ResolvedUnlessMissed'
    BY <1>1, <2>1, <2>2, OpenNoticesType DEF ResolvedUnlessMissed
  <2>4. missed' \subseteq Episodes \X InApp
    BY <1>1, <2>1, OpenNoticesType
  <2> QED
    BY <1>1, <2>1, <2>2, <2>3, <2>4, RowLeft
<1> QED
  BY <1>2, <1>3, <1>4, <1>5, <1>6 DEF CheckStep

LEMMA ForecastDueKeeps ==
    ASSUME InductiveInv, ForecastDue
    PROVE  InductiveInv'
<1>1. /\ TypeOK /\ opened \in Nat /\ row.forecast = "later"
      /\ row' = [row EXCEPT !.forecast = "due"]
      /\ UNCHANGED <<opened, feed, txn, plain, missed, run, failures, job, delivered, sent, unrecorded>>
  BY BoundsAssumption DEF InductiveInv, TypeOK, ForecastDue, checks, monitor, mail
<1>2. /\ row' \in Row /\ row'.episode = row.episode /\ row'.notified = row.notified
      /\ row'.forecast = "due"
  BY <1>1 DEF TypeOK, Row
<1>3. TypeOK'
  BY <1>1, <1>2 DEF TypeOK
<1>4. RunsOK'
  BY <1>1, <1>2, RunsKept DEF InductiveInv
<1>5. EpisodeServed' /\ ResolvedUnlessMissed' /\ TxnOK'
  BY <1>1, <1>2 DEF InductiveInv, EpisodeServed, ResolvedUnlessMissed,
     Unresolved, TxnOK
<1> QED
  BY <1>1, <1>2, <1>3, <1>4, <1>5, JobsUnchanged DEF InductiveInv, mail

-----------------------------------------------------------------------------
(* The monitor.                                                            *)

LEMMA VisitKeeps ==
    ASSUME InductiveInv, NEW r \in Runs, Visit(r)
    PROVE  InductiveInv'
<1> PICK w : w = row
  OBVIOUS
<1> DEFINE t == [stage |-> FirstStage(w), seen |-> w, user |-> 1]
<1>1. /\ TypeOK /\ RunsOK /\ opened \in Nat /\ row \in Row /\ row.episode # 0
      /\ UNCHANGED <<row, opened, feed, txn, plain, missed, failures, job, delivered, sent, unrecorded>>
  BY BoundsAssumption DEF InductiveInv, TypeOK, Visit, alerts, checks, mail
<1>2. t \in Run
  BY <1>1, UsersAssumption DEF Run, FirstStage
<1>3. row.episode \in 1..opened
  BY <1>1, RowType DEF InductiveInv
<1>4. RunOK(t)'
  <2>1. t.stage \in {"feed", "mail"} => Users # 0
    BY DEF FirstStage
  <2>2. t.stage = "mark" => Users = 0
    BY DEF FirstStage
  <2>3. t.stage = "forecast" => w.notified
    BY DEF FirstStage
  <2>4. t.stage # "mail" /\ t.user = 1 /\ t.seen = w
    BY DEF FirstStage
  <2>5. InApp \subseteq 1..Users /\ ByMail \subseteq 1..Users
    BY PreferencesAssumption
  <2> HIDE DEF t
  <2> QED
    BY <1>1, <1>3, <2>1, <2>2, <2>3, <2>4, <2>5, UsersAssumption DEF RunOK
<1>5. Goto(r, t)
  BY DEF Visit
<1> HIDE DEF t
<1>6. RunsOK' /\ run' \in [Runs -> Run]
  BY <1>1, <1>2, <1>4, <1>5, RunGoesOn
<1>7. TypeOK'
  BY <1>1, <1>6 DEF TypeOK
<1> QED
  BY <1>1, <1>6, <1>7, JobsUnchanged DEF InductiveInv, EpisodeServed, ResolvedUnlessMissed,
     Unresolved, TxnOK, mail

LEMMA RunAt ==
    ASSUME InductiveInv, NEW r \in Runs, run[r] # Idle
    PROVE  /\ run[r] \in [stage: {"feed", "mail", "mark", "forecast"}, seen: Row, user: 1..Users + 1]
           /\ run[r].user \in Nat /\ RunOK(run[r])
           /\ run[r].seen.episode \in 1..opened /\ run[r].seen.episode \in Episodes
           /\ opened \in Nat
<1>1. run[r] \in Run /\ RunOK(run[r]) /\ opened \in 0..MaxEpisodes
  BY DEF InductiveInv, TypeOK, RunsOK
<1>2. run[r].seen.episode \in 1..opened
  BY <1>1 DEF RunOK
<1>3. 1..opened \subseteq Episodes /\ opened \in Nat
  BY <1>1, BoundsAssumption DEF Episodes
<1> QED
  BY <1>1, <1>2, <1>3, RunType, UsersAssumption

LEMMA NotifyKeeps ==
    ASSUME InductiveInv, NEW r \in Runs, Notify(r)
    PROVE  InductiveInv'
<1> PICK s : s = run[r]
  OBVIOUS
<1> DEFINE n == <<s.seen.episode, s.user>>
           inserts == n \in DOMAIN feed /\ feed[n] = "none"
           t == [s EXCEPT !.stage = "mail"]
<1>1. /\ s.stage = "feed" /\ s # Idle /\ Goto(r, t) /\ TypeOK /\ RunsOK
      /\ feed' = (IF inserts THEN [feed EXCEPT ![n] = "open"] ELSE feed)
      /\ missed' = (IF inserts /\ row.episode # n[1] THEN missed \cup {n} ELSE missed)
      /\ txn' = (IF inserts /\ txn.stage = "open" THEN [txn EXCEPT !.late = @ \cup {n}] ELSE txn)
      /\ UNCHANGED <<row, opened, plain, failures, job, delivered, sent, unrecorded>>
  BY DEF InductiveInv, Notify, mail, Idle
<1>2. /\ s \in [stage: {"feed", "mail", "mark", "forecast"}, seen: Row, user: 1..Users + 1]
      /\ s.user \in Nat /\ RunOK(s) /\ s.seen.episode \in 1..opened
      /\ s.seen.episode \in Episodes /\ opened \in Nat
  BY <1>1, RunAt
<1>3. /\ t \in Run /\ t # Idle /\ t.stage = "mail" /\ t.seen = s.seen /\ t.user = s.user
  BY <1>2 DEF Run, Idle
<1>4. feed \in [Episodes \X InApp -> {"none", "open", "resolved"}]
  BY <1>1 DEF TypeOK
<1>5. /\ feed' \in [Episodes \X InApp -> {"none", "open", "resolved"}]
      /\ missed' \subseteq Episodes \X InApp
      /\ \A k \in Episodes \X InApp : feed[k] # "none" => feed'[k] # "none"
      /\ s.user \in InApp => feed'[n] # "none"
      /\ \A k \in Episodes \X InApp : feed'[k] = "open" =>
           feed[k] = "open" \/ k[1] = row.episode \/ k \in missed'
  BY <1>1, <1>2, <1>4 DEF TypeOK
<1>11. txn' \in Txn /\ TxnOK'
  <2>1. inserts => n \in Episodes \X InApp
    BY <1>4
  <2>2. txn \in Txn /\ (txn = NoTxn \/ txn.seen = row.episode)
    BY <1>1 DEF TypeOK, InductiveInv, TxnOK
  <2>3. CASE inserts /\ txn.stage = "open"
    <3>1. txn \in [stage: {"open"}, seen: 0..MaxEpisodes, late: SUBSET (Episodes \X InApp)]
      BY <2>2, <2>3 DEF Txn, NoTxn
    <3> HIDE DEF n, inserts
    <3>2. /\ txn' \in [stage: {"open"}, seen: 0..MaxEpisodes, late: SUBSET (Episodes \X InApp)]
          /\ txn'.seen = txn.seen
      BY <1>1, <2>1, <2>3, <3>1
    <3> QED
      BY <1>1, <2>2, <2>3, <3>2 DEF Txn, TxnOK, NoTxn
  <2>4. CASE ~(inserts /\ txn.stage = "open")
    <3> HIDE DEF n, inserts
    <3> QED
      BY <1>1, <2>2, <2>4 DEF TxnOK
  <2> QED
    BY <2>3, <2>4
<1> HIDE DEF n, t, inserts
<1>6. RunOK(t)'
  <2>1. \A u \in InApp : <<s.seen.episode, u>> \in Episodes \X InApp
    BY <1>2
  <2> QED
    BY <1>1, <1>2, <1>3, <1>5, <2>1 DEF RunOK, n
<1>7. RunsOK' /\ run' \in [Runs -> Run]
  BY <1>1, <1>2, <1>3, <1>5, <1>6, RunGoesOn
<1>8. TypeOK'
  BY <1>1, <1>5, <1>7, <1>11 DEF TypeOK
<1>9. EpisodeServed'
  <2>1. row.episode # 0 => row.episode \in Episodes
    BY <1>1, RowType DEF TypeOK
  <2>2. \A u \in InApp : row.episode # 0 => <<row.episode, u>> \in Episodes \X InApp
    BY <2>1
  <2> QED
    BY <1>1, <1>5, <2>2 DEF InductiveInv, EpisodeServed
<1>10. ResolvedUnlessMissed'
  BY <1>1, <1>4, <1>5 DEF InductiveInv, ResolvedUnlessMissed, Unresolved
<1> QED
  BY <1>1, <1>7, <1>8, <1>9, <1>10, <1>11, JobsUnchanged DEF InductiveInv, mail

LEMMA QueueMailKeeps ==
    ASSUME InductiveInv, NEW r \in Runs, QueueMail(r)
    PROVE  InductiveInv'
<1> PICK s : s = run[r]
  OBVIOUS
<1> DEFINE m == <<s.seen.episode, s.user>>
           adds == m \in DOMAIN job /\ job[m].stage = "none"
           t == [s EXCEPT !.stage = IF s.user + 1 > Users THEN "mark" ELSE "feed",
                          !.user = s.user + 1]
<1>1. /\ s.stage = "mail" /\ s # Idle /\ Goto(r, t) /\ TypeOK /\ RunsOK
      /\ job' = (IF adds THEN [job EXCEPT ![m].stage = "waiting"] ELSE job)
      /\ UNCHANGED <<row, opened, feed, txn, plain, missed, failures, delivered, sent, unrecorded>>
  BY DEF InductiveInv, QueueMail, mail, alerts, checks, Idle
<1>2. /\ s \in [stage: {"feed", "mail", "mark", "forecast"}, seen: Row, user: 1..Users + 1]
      /\ s.user \in Nat /\ RunOK(s) /\ s.seen.episode \in 1..opened
      /\ s.seen.episode \in Episodes /\ opened \in Nat
  BY <1>1, RunAt
<1>3. s.user <= Users /\ s.user + 1 \in 1..Users + 1
  BY <1>1, <1>2, UsersAssumption DEF RunOK
<1>4. /\ t \in Run /\ t # Idle /\ t.stage = (IF s.user + 1 > Users THEN "mark" ELSE "feed")
      /\ t.seen = s.seen /\ t.user = s.user + 1
  BY <1>2, <1>3 DEF Run, Idle
<1>5. job \in [Episodes \X ByMail -> Job]
  BY <1>1 DEF TypeOK
<1>6. /\ job' \in [Episodes \X ByMail -> Job]
      /\ \A k \in Episodes \X ByMail :
           /\ job[k].stage # "none" => job'[k].stage # "none" /\ job'[k] = job[k]
           /\ job'[k].attempts = job[k].attempts
           /\ job'[k].stage \in {job[k].stage, "waiting"}
      /\ s.user \in ByMail => job'[m].stage # "none"
  BY <1>1, <1>2, <1>5 DEF Job
<1> HIDE DEF m, t, adds
<1>7. RunOK(t)'
  <2>1. \A u \in ByMail : <<s.seen.episode, u>> \in Episodes \X ByMail
    BY <1>2
  <2>2. InApp \subseteq Nat /\ ByMail \subseteq Nat /\ \A u \in InApp : u <= Users
    BY PreferencesAssumption, UsersAssumption
  <2>3. \A u \in InApp : u < s.user + 1 => feed[<<s.seen.episode, u>>] # "none"
    BY <1>1, <1>2, <2>2 DEF RunOK
  <2>4. \A u \in ByMail : u < s.user + 1 => job'[<<s.seen.episode, u>>].stage # "none"
    <3> SUFFICES ASSUME NEW u \in ByMail, u < s.user + 1
                 PROVE  job'[<<s.seen.episode, u>>].stage # "none"
      OBVIOUS
    <3>1. CASE u = s.user
      BY <1>6, <3>1 DEF m
    <3>2. CASE u < s.user
      BY <1>1, <1>2, <1>6, <2>1, <3>2 DEF RunOK
    <3> QED
      BY <1>2, <2>2, <3>1, <3>2
  <2> QED
    BY <1>1, <1>2, <1>3, <1>4, <2>2, <2>3, <2>4, UsersAssumption DEF RunOK
<1>8. RunsOK' /\ run' \in [Runs -> Run]
  BY <1>1, <1>2, <1>4, <1>6, <1>7, RunGoesOn
<1>9. TypeOK'
  BY <1>1, <1>6, <1>8 DEF TypeOK
<1>10. ASSUME NEW k \in Episodes \X ByMail
       PROVE  JobOK(k)'
  <2>1. /\ job'[k].attempts = job[k].attempts /\ sent'[k] = sent[k]
        /\ unrecorded'[k] = unrecorded[k] /\ delivered' = delivered
        /\ \/ job'[k].stage = job[k].stage
           \/ job[k].stage = "none" /\ job'[k].stage = "waiting"
    BY <1>1, <1>6
  <2>2. JobOK(k)
    BY DEF InductiveInv, JobsOK
  <2> QED
    BY <2>1, <2>2 DEF JobOK
<1>11. EpisodeServed'
  <2>1. row.episode # 0 => row.episode \in Episodes
    BY <1>1, RowType DEF TypeOK
  <2>2. \A u \in ByMail : row.episode # 0 => <<row.episode, u>> \in Episodes \X ByMail
    BY <2>1
  <2> QED
    BY <1>1, <1>6, <2>2 DEF InductiveInv, EpisodeServed
<1> QED
  BY <1>1, <1>8, <1>9, <1>10, <1>11 DEF InductiveInv, JobsOK, ResolvedUnlessMissed, Unresolved, TxnOK

LEMMA MarkKeeps ==
    ASSUME InductiveInv, NEW r \in Runs, Mark(r)
    PROVE  InductiveInv'
<1> PICK s : s = run[r]
  OBVIOUS
<1> DEFINE t == [s EXCEPT !.stage = "forecast"]
           own == row.episode = s.seen.episode
<1>1. /\ s.stage = "mark" /\ s # Idle /\ Goto(r, t) /\ TypeOK /\ RunsOK
      /\ row' = (IF own THEN [row EXCEPT !.notified = TRUE] ELSE row)
      /\ txn' \in {txn, NoTxn}
      /\ UNCHANGED <<opened, feed, plain, missed, failures, job, delivered, sent, unrecorded>>
  BY DEF InductiveInv, Mark, UpdateRow, mail, Idle
<1>2. /\ s \in [stage: {"feed", "mail", "mark", "forecast"}, seen: Row, user: 1..Users + 1]
      /\ s.user \in Nat /\ RunOK(s) /\ s.seen.episode \in 1..opened
      /\ s.seen.episode \in Episodes /\ opened \in Nat
  BY <1>1, RunAt
<1>3. /\ t \in Run /\ t # Idle /\ t.stage = "forecast" /\ t.seen = s.seen
  BY <1>2 DEF Run, Idle
<1>4. /\ row' \in Row /\ row'.episode = row.episode /\ row'.forecast = row.forecast
      /\ row'.notified = (row.notified \/ own)
  BY <1>1 DEF TypeOK, Row
<1>5. own => /\ \A u \in InApp : feed[<<row.episode, u>>] # "none"
             /\ \A u \in ByMail : job[<<row.episode, u>>].stage # "none"
  <2>1. InApp \subseteq Nat /\ ByMail \subseteq Nat
    BY PreferencesAssumption
  <2>2. \A u \in InApp \cup ByMail : u <= Users
    BY PreferencesAssumption
  <2> QED
    BY <1>1, <1>2, <2>1, <2>2, UsersAssumption DEF RunOK
<1> HIDE DEF t
<1>6. RunOK(t)'
  BY <1>1, <1>2, <1>3, <1>4 DEF RunOK
<1>7. RunsOK' /\ run' \in [Runs -> Run]
  BY <1>1, <1>2, <1>3, <1>4, <1>6, RunGoesOn
<1>8. TypeOK'
  BY <1>1, <1>4, <1>7 DEF TypeOK, Txn
<1>9. EpisodeServed'
  <2>1. own => row.episode # 0
    BY <1>2
  <2> QED
    BY <1>1, <1>4, <1>5, <2>1 DEF InductiveInv, EpisodeServed
<1>10. ResolvedUnlessMissed' /\ TxnOK'
  BY <1>1, <1>4 DEF InductiveInv, ResolvedUnlessMissed, Unresolved, TxnOK
<1> QED
  BY <1>1, <1>4, <1>7, <1>8, <1>9, <1>10, JobsUnchanged DEF InductiveInv, mail

(* The run that puts the forecast off, or fails, is over.                  *)
LEMMA RunEnds ==
    ASSUME InductiveInv, NEW r \in Runs, Goto(r, Idle),
           row' \in Row, row'.episode = row.episode, row'.notified = row.notified,
           row'.forecast # "unset" => row'.notified,
           failures' \in 0..MaxFailures,
           txn' \in {txn, NoTxn}, UNCHANGED <<opened, feed, plain, missed, job, mail>>
    PROVE  InductiveInv'
<1>1. /\ TypeOK /\ RunsOK /\ opened \in Nat /\ Idle \in Run
      /\ UNCHANGED <<opened, feed, plain, missed, job, delivered, sent, unrecorded>>
  BY BoundsAssumption DEF InductiveInv, TypeOK, mail, Run
<1>2. RunOK(Idle)'
  BY DEF RunOK, Idle
<1>3. RunsOK' /\ run' \in [Runs -> Run]
  BY <1>1, <1>2, RunGoesOn
<1>4. TypeOK'
  BY <1>1, <1>3 DEF TypeOK, Txn
<1> QED
  BY <1>1, <1>3, <1>4, JobsUnchanged DEF InductiveInv, EpisodeServed, ResolvedUnlessMissed,
     Unresolved, TxnOK

LEMMA ConsiderForecastKeeps ==
    ASSUME InductiveInv, NEW r \in Runs, ConsiderForecast(r)
    PROVE  InductiveInv'
<1>1. run[r] # Idle /\ run[r].stage = "forecast"
  BY DEF ConsiderForecast, Idle
<1>2. RunOK(run[r])
  BY <1>1, RunAt
<1>3. /\ Goto(r, Idle) /\ failures' = failures
      /\ UNCHANGED <<opened, feed, plain, missed, failures, job, mail>>
      /\ txn' \in {txn, NoTxn}
  BY DEF ConsiderForecast, UpdateRow
<1>4. /\ row' \in Row /\ row'.episode = row.episode /\ row'.notified = row.notified
      /\ row'.forecast = row.forecast \/ row.episode = run[r].seen.episode
  BY DEF ConsiderForecast, UpdateRow, InductiveInv, TypeOK, Row
<1>5. row'.forecast # "unset" => row'.notified
  BY <1>1, <1>2, <1>4 DEF RunOK, InductiveInv, EpisodeServed
<1>6. failures' \in 0..MaxFailures
  BY <1>3 DEF InductiveInv, TypeOK
<1> QED
  BY <1>3, <1>4, <1>5, <1>6, RunEnds

LEMMA FailRunKeeps ==
    ASSUME InductiveInv, NEW r \in Runs, FailRun(r)
    PROVE  InductiveInv'
<1>1. /\ Goto(r, Idle) /\ row' = row /\ txn' = txn
      /\ UNCHANGED <<opened, feed, plain, missed, job, mail>>
  BY DEF FailRun, alerts, checks
<1>2. failures' \in 0..MaxFailures
  BY BoundsAssumption DEF FailRun, InductiveInv, TypeOK
<1>3. row' \in Row /\ (row'.forecast # "unset" => row'.notified)
  BY <1>1 DEF InductiveInv, TypeOK, EpisodeServed
<1> QED
  BY <1>1, <1>2, <1>3, RunEnds

-----------------------------------------------------------------------------
(* The mail worker: one job changes, and stays queued.                     *)

LEMMA JobKeeps ==
    ASSUME InductiveInv, NEW m \in Episodes \X ByMail, UNCHANGED <<alerts, checks, monitor>>,
           NEW j \in Job, j.stage # "none", job' = [job EXCEPT ![m] = j],
           delivered' \subseteq Episodes \X ByMail,
           \A k \in (Episodes \X ByMail) \ {m} :
              /\ sent'[k] = sent[k] /\ unrecorded'[k] = unrecorded[k]
              /\ k \in delivered' <=> k \in delivered,
           sent' \in [Episodes \X ByMail -> 0..Attempts],
           unrecorded' \in [Episodes \X ByMail -> 0..Attempts],
           JobOK(m)'
    PROVE  InductiveInv'
<1>1. /\ TypeOK /\ RunsOK /\ opened \in Nat
      /\ UNCHANGED <<row, opened, feed, txn, plain, missed, run, failures>>
  BY BoundsAssumption DEF InductiveInv, TypeOK, alerts, checks, monitor
<1>2. /\ job' \in [Episodes \X ByMail -> Job] /\ job'[m] = j
      /\ \A k \in (Episodes \X ByMail) \ {m} : job'[k] = job[k]
  BY <1>1 DEF TypeOK
<1>3. TypeOK'
  BY <1>1, <1>2 DEF TypeOK
<1>4. \A k \in Episodes \X ByMail : job[k].stage # "none" => job'[k].stage # "none"
  BY <1>2
<1>5. RunsOK'
  BY <1>1, <1>4, RunsKept
<1>6. JobsOK'
  <2> SUFFICES ASSUME NEW k \in Episodes \X ByMail, k # m
               PROVE  JobOK(k)'
    BY DEF JobsOK
  <2> QED
    BY <1>2 DEF InductiveInv, JobsOK, JobOK
<1>7. EpisodeServed'
  <2>1. row.episode # 0 => row.episode \in Episodes
    BY <1>1, RowType DEF TypeOK
  <2>2. \A u \in ByMail : row.episode # 0 => <<row.episode, u>> \in Episodes \X ByMail
    BY <2>1
  <2> QED
    BY <1>1, <1>4, <2>2 DEF InductiveInv, EpisodeServed
<1> QED
  BY <1>1, <1>3, <1>5, <1>6, <1>7 DEF InductiveInv, ResolvedUnlessMissed, Unresolved, TxnOK

LEMMA MailStepKeeps ==
    ASSUME InductiveInv, NEW m \in Episodes \X ByMail, MailStep(m)
    PROVE  InductiveInv'
<1>1. /\ TypeOK /\ JobOK(m) /\ job \in [Episodes \X ByMail -> Job] /\ job[m] \in Job
      /\ delivered \subseteq Episodes \X ByMail
      /\ sent \in [Episodes \X ByMail -> 0..Attempts]
      /\ unrecorded \in [Episodes \X ByMail -> 0..Attempts]
      /\ job[m].attempts \in Nat /\ sent[m] \in Nat /\ unrecorded[m] \in Nat
  BY JobType DEF InductiveInv, TypeOK, JobsOK
<1>2. CASE PickUp(m)
  <2> DEFINE j == [job[m] EXCEPT !.stage = IF m \in delivered \/ row.episode # m[1]
                                           THEN "done" ELSE "sending"]
  <2>1. /\ job' = [job EXCEPT ![m] = j] /\ job[m].stage = "waiting"
        /\ UNCHANGED <<alerts, checks, monitor, delivered, sent, unrecorded>>
    BY <1>1, <1>2 DEF PickUp, SetJob, mail
  <2>2. j \in Job /\ j.attempts = job[m].attempts /\ j.stage \in {"done", "sending"}
        /\ (j.stage = "sending" => m \notin delivered)
    BY <1>1 DEF Job
  <2>3. job'[m] = j
    BY <1>1, <2>1
  <2> HIDE DEF j
  <2>4. JobOK(m)'
    BY <1>1, <2>1, <2>2, <2>3 DEF JobOK
  <2> QED
    BY <1>1, <2>1, <2>2, <2>4, JobKeeps
<1>3. CASE Send(m)
  <2> DEFINE j == [job[m] EXCEPT !.stage = "sent"]
  <2>1. /\ job' = [job EXCEPT ![m] = j] /\ job[m].stage = "sending"
        /\ sent' = [sent EXCEPT ![m] = @ + 1]
        /\ UNCHANGED <<alerts, checks, monitor, delivered, unrecorded>>
    BY <1>1, <1>3 DEF Send, SetJob
  <2>2. j \in Job /\ j.attempts = job[m].attempts /\ j.stage = "sent"
    BY <1>1 DEF Job
  <2>3. job'[m] = j /\ sent'[m] = sent[m] + 1
    BY <1>1, <2>1
  <2> HIDE DEF j
  <2>4. JobOK(m)'
    BY <1>1, <2>1, <2>2, <2>3 DEF JobOK
  <2>5. sent[m] + 1 \in 0..Attempts
    BY <1>1, <2>1, AttemptsAssumption DEF JobOK
  <2>6. sent' \in [Episodes \X ByMail -> 0..Attempts]
    BY <1>1, <2>1, <2>5
  <2> QED
    BY <1>1, <2>1, <2>2, <2>4, <2>6, JobKeeps
<1>4. CASE Record(m)
  <2> DEFINE j == [job[m] EXCEPT !.stage = "recorded"]
  <2>1. /\ job' = [job EXCEPT ![m] = j] /\ job[m].stage = "sent"
        /\ delivered' = delivered \cup {m}
        /\ UNCHANGED <<alerts, checks, monitor, sent, unrecorded>>
    BY <1>1, <1>4 DEF Record, SetJob
  <2>2. j \in Job /\ j.attempts = job[m].attempts /\ j.stage = "recorded"
    BY <1>1 DEF Job
  <2>3. job'[m] = j
    BY <1>1, <2>1
  <2> HIDE DEF j
  <2>4. JobOK(m)'
    BY <1>1, <2>1, <2>2, <2>3 DEF JobOK
  <2> QED
    BY <1>1, <2>1, <2>2, <2>4, JobKeeps
<1>5. CASE Complete(m)
  <2> DEFINE j == [job[m] EXCEPT !.stage = "done"]
  <2>1. /\ job' = [job EXCEPT ![m] = j] /\ job[m].stage = "recorded"
        /\ UNCHANGED <<alerts, checks, monitor, delivered, sent, unrecorded>>
    BY <1>1, <1>5 DEF Complete, SetJob, mail
  <2>2. j \in Job /\ j.attempts = job[m].attempts /\ j.stage = "done"
    BY <1>1 DEF Job
  <2>3. job'[m] = j
    BY <1>1, <2>1
  <2> HIDE DEF j
  <2>4. JobOK(m)'
    BY <1>1, <2>1, <2>2, <2>3 DEF JobOK
  <2> QED
    BY <1>1, <2>1, <2>2, <2>4, JobKeeps
<1>6. CASE FailAttempt(m)
  <2> DEFINE attempts == job[m].attempts + 1
             j == [stage |-> IF attempts < Attempts THEN "waiting" ELSE "failed",
                   attempts |-> attempts]
  <2>1. /\ job' = [job EXCEPT ![m] = j] /\ job[m].stage \in {"sending", "sent", "recorded"}
        /\ unrecorded' = (IF job[m].stage = "sent"
                          THEN [unrecorded EXCEPT ![m] = @ + 1] ELSE unrecorded)
        /\ UNCHANGED <<alerts, checks, monitor, delivered, sent>>
    BY <1>6 DEF FailAttempt
  <2>2. attempts <= Attempts /\ attempts \in Nat
    BY <1>1, <2>1, AttemptsAssumption DEF JobOK
  <2>3. /\ j \in Job /\ j.attempts = attempts /\ j.stage \in {"waiting", "failed"}
        /\ (j.stage = "waiting" => attempts < Attempts)
    BY <2>2, AttemptsAssumption DEF Job
  <2>4. /\ job'[m] = j
        /\ unrecorded'[m] = unrecorded[m] + (IF job[m].stage = "sent" THEN 1 ELSE 0)
    BY <1>1, <2>1
  <2>5. unrecorded[m] + 1 \in 0..Attempts
    BY <1>1, <2>2, AttemptsAssumption DEF JobOK
  <2>6. /\ unrecorded' \in [Episodes \X ByMail -> 0..Attempts]
        /\ \A k \in (Episodes \X ByMail) \ {m} : unrecorded'[k] = unrecorded[k]
    BY <1>1, <2>1, <2>5
  <2> HIDE DEF j
  <2>7. JobOK(m)'
    BY <1>1, <2>1, <2>2, <2>3, <2>4 DEF JobOK
  <2> QED
    BY <1>1, <2>1, <2>3, <2>6, <2>7, JobKeeps
<1> QED
  BY <1>2, <1>3, <1>4, <1>5, <1>6 DEF MailStep

-----------------------------------------------------------------------------
(* The theorem.                                                            *)

LEMMA InitInv == Init => InductiveInv
<1> SUFFICES ASSUME Init
             PROVE  InductiveInv
  OBVIOUS
<1>1. TypeOK
  BY ResolvedType, AttemptsAssumption, BoundsAssumption DEF Init, TypeOK, Run, Job, Txn, Check
<1>2. RunsOK /\ JobsOK
  BY AttemptsAssumption DEF Init, RunsOK, RunOK, JobsOK, JobOK
<1>3. EpisodeServed /\ ResolvedUnlessMissed /\ row.episode <= opened /\ TxnOK
  BY DEF Init, EpisodeServed, ResolvedUnlessMissed, Resolved, TxnOK
<1> QED
  BY <1>1, <1>2, <1>3 DEF InductiveInv

LEMMA NextInv == InductiveInv /\ [Next]_vars => InductiveInv'
<1> SUFFICES ASSUME InductiveInv, [Next]_vars
             PROVE  InductiveInv'
  OBVIOUS
<1>1. CASE Begin \/ StockFalls \/ StockRecovers \/ EndTxn \/ ForecastDue
  BY <1>1, TxnKeeps, ForecastDueKeeps
<1>5. ASSUME NEW c \in Checks, CheckStep(c)
      PROVE  InductiveInv'
  BY <1>5, CheckStepKeeps
<1>2. ASSUME NEW r \in Runs, Visit(r) \/ RunStep(r) \/ FailRun(r)
      PROVE  InductiveInv'
  BY <1>2, VisitKeeps, NotifyKeeps, QueueMailKeeps, MarkKeeps, ConsiderForecastKeeps,
     FailRunKeeps DEF RunStep
<1>3. ASSUME NEW m \in DOMAIN job, MailStep(m)
      PROVE  InductiveInv'
  BY <1>3, MailStepKeeps DEF InductiveInv, TypeOK
<1>4. CASE UNCHANGED vars
  BY <1>4 DEF vars, alerts, checks, monitor, mail, InductiveInv, TypeOK, RunsOK, RunOK, JobsOK, JobOK,
     EpisodeServed, ResolvedUnlessMissed, Unresolved, TxnOK
<1> QED
  BY <1>1, <1>2, <1>3, <1>4, <1>5 DEF Next

(* However runs of the monitor and mail jobs overlap and fail, the         *)
(* inductive invariant holds (lowStock.automation.ts, email.worker.ts).    *)
THEOREM InductiveInvariant == Spec => []InductiveInv
BY InitInv, NextInv, PTL DEF Spec

LEMMA AlertsFollow == InductiveInv => AlertsKept
<1> SUFFICES ASSUME InductiveInv
             PROVE  MailedOnce
  BY DEF InductiveInv, AlertsKept
<1>1. DOMAIN sent = Episodes \X ByMail
  BY DEF InductiveInv, TypeOK
<1>2. \A m \in Episodes \X ByMail : sent[m] <= 1 + unrecorded[m]
  BY JobType DEF InductiveInv, JobsOK, JobOK
<1> QED
  BY <1>1, <1>2 DEF MailedOnce

(* A row that is marked as notified had every alert of its own episode, a  *)
(* mail is repeated only when its record could not be written, and the     *)
(* notifications of an episode that is over are resolved unless they were  *)
(* inserted too late, a clean-up stopped, or a stale one wrote the row     *)
(* (lowStock.automation.ts processBalanceLowStock, inventory.repository.ts *)
(* reconcileLowStock, email.worker.ts).                                    *)
THEOREM AlertsAreKept == Spec => []AlertsKept
BY AlertsFollow, InductiveInvariant, PTL

-----------------------------------------------------------------------------
(***************************************************************************)
(* Suppliers. What a call has found out and still holds; a list holds what *)
(* is wanted of it, and what is being added is in no list yet; the calls   *)
(* in progress that add a contact are all that may pass its limit; a hole  *)
(* has one call that made it.                                              *)
(***************************************************************************)
(* The sizes these modules speak of are sizes.                             *)
LEMMA SupSizes ==
    /\ \A S : Sup!IsFiniteSet(S) = IsFiniteSet(S)
    /\ \A S : Sup!Cardinality(S) = Cardinality(S)
<1>1. \A S : Sup!IsFiniteSet(S) = IsFiniteSet(S)
  BY DEF Sup!IsFiniteSet, IsFiniteSet
<1>2. \A S : Sup!Cardinality(S) = Cardinality(S)
  BY DEF Sup!Cardinality, Cardinality
<1>. QED  BY <1>1, <1>2

LEMMA RankedIs ==
    ASSUME NEW ids, ids \subseteq Nat, IsFiniteSet(ids)
    PROVE  /\ Ranked(ids) \in Seq(Nat) /\ Len(Ranked(ids)) = Cardinality(ids)
           /\ \A i \in 1..Cardinality(ids) : Ranked(ids)[i] \in ids
           /\ \A i, j \in 1..Cardinality(ids) : i < j => Ranked(ids)[i] < Ranked(ids)[j]
           /\ \A n \in ids : \E i \in 1..Cardinality(ids) : Ranked(ids)[i] = n
<1>. DEFINE Below(n) == {m \in ids : m < n}
            N == Cardinality(ids)
            rank == [n \in ids |-> Cardinality(Below(n))]
<1>0. N \in Nat
  BY FS_CardinalityType
<1>1. ASSUME NEW n \in ids
      PROVE  IsFiniteSet(Below(n)) /\ rank[n] \in Nat /\ rank[n] < N
  <2>1. IsFiniteSet(Below(n)) /\ Cardinality(Below(n)) <= N /\ (N = Cardinality(Below(n)) => ids = Below(n))
    BY FS_Subset
  <2>2. ids # Below(n)
    OBVIOUS
  <2>3. Cardinality(Below(n)) \in Nat
    BY <2>1, FS_CardinalityType
  <2>. HIDE DEF Below, N
  <2>. QED  BY <1>0, <2>1, <2>2, <2>3
<1>2. ASSUME NEW n \in ids, NEW k \in ids, n < k
      PROVE  rank[n] < rank[k]
  <2>1. Below(n) \in SUBSET Below(k) /\ n \in Below(k) /\ n \notin Below(n)
    <3>1. n \in Nat /\ k \in Nat
      OBVIOUS
    <3>2. \A m \in Below(n) : m \in ids /\ m \in Nat /\ m < n
      OBVIOUS
    <3>3. \A m \in Below(n) : m < k
      <4>. HIDE DEF Below
      <4>. QED  BY <1>2, <3>1, <3>2
    <3>4. Below(n) \subseteq Below(k)
      BY <3>2, <3>3
    <3>5. n \in Below(k)
      BY <1>2
    <3>6. n \notin Below(n)
      BY <3>1
    <3>. QED  BY <3>4, <3>5, <3>6
  <2>2. IsFiniteSet(Below(k)) /\ rank[k] \in Nat /\ rank[n] \in Nat
    BY <1>1
  <2>. HIDE DEF Below
  <2>3. Cardinality(Below(n)) <= Cardinality(Below(k))
        /\ (Cardinality(Below(k)) = Cardinality(Below(n)) => Below(k) = Below(n))
    BY <2>1, <2>2, FS_Subset
  <2>. QED  BY <2>1, <2>2, <2>3
<1>3. \A n, k \in ids : rank[n] = rank[k] => n = k
  <2>. SUFFICES ASSUME NEW n \in ids, NEW k \in ids, n # k PROVE rank[n] # rank[k]
    OBVIOUS
  <2>1. n < k \/ k < n
    OBVIOUS
  <2>2. rank[n] \in Nat /\ rank[k] \in Nat
    BY <1>1
  <2>. HIDE DEF rank
  <2>. QED  BY <1>2, <2>1, <2>2
<1>4. rank \in Surjection(ids, 0..(N - 1))
  <2>1. rank \in [ids -> 0..(N - 1)]
    <3>1. \A n \in ids : rank[n] \in 0..(N - 1)
      BY <1>0, <1>1
    <3>. QED  BY <3>1
  <2>2. rank \in Injection(ids, 0..(N - 1))
    BY <1>3, <2>1 DEF Injection, IsInjective
  <2>3. IsFiniteSet(0..(N - 1)) /\ Cardinality(0..(N - 1)) = N
    <3>1. 0 \in Int /\ N - 1 \in Int
      BY <1>0
    <3>2. IsFiniteSet(0..(N - 1)) /\ Cardinality(0..(N - 1)) = IF 0 > N - 1 THEN 0 ELSE (N - 1) - 0 + 1
      BY <3>1, FS_Interval
    <3>. HIDE DEF N
    <3>. QED  BY <1>0, <3>2
  <2>. HIDE DEF rank
  <2>. QED  BY <2>2, <2>3, FS_Injection
<1>5. ASSUME NEW i \in 1..N
      PROVE  Ranked(ids)[i] \in ids /\ rank[Ranked(ids)[i]] = i - 1
  <2>1. i - 1 \in 0..(N - 1)
    BY <1>0
  <2>2. \E n \in ids : rank[n] = i - 1
    BY <1>4, <2>1 DEF Surjection
  <2>3. \E n \in ids : Cardinality(Below(n)) = i - 1
    BY <2>2
  <2>4. Ranked(ids)[i] = CHOOSE n \in ids : Cardinality(Below(n)) = i - 1
    BY DEF Ranked
  <2>. HIDE DEF Below
  <2>5. Ranked(ids)[i] \in ids /\ Cardinality(Below(Ranked(ids)[i])) = i - 1
    BY <2>3, <2>4
  <2>. QED  BY <2>5
<1>6. Ranked(ids) \in [1..N -> Nat]
  <2>. DEFINE at(i) == CHOOSE n \in ids : Cardinality(Below(n)) = i - 1
  <2>0. Ranked(ids) = [i \in 1..N |-> at(i)]
    BY DEF Ranked
  <2>. HIDE DEF at, Below, N
  <2>1. Ranked(ids) = [i \in 1..N |-> Ranked(ids)[i]]
    BY <2>0
  <2>2. \A i \in 1..N : Ranked(ids)[i] \in Nat
    BY <1>5
  <2>. QED  BY <2>1, <2>2
<1>7. Ranked(ids) \in Seq(Nat) /\ Len(Ranked(ids)) = N
  BY <1>0, <1>6
<1>8. \A i, j \in 1..N : i < j => Ranked(ids)[i] < Ranked(ids)[j]
  <2>. SUFFICES ASSUME NEW i \in 1..N, NEW j \in 1..N, i < j
                PROVE  Ranked(ids)[i] < Ranked(ids)[j]
    OBVIOUS
  <2>. DEFINE n == Ranked(ids)[i]
              k == Ranked(ids)[j]
  <2>1. n \in ids /\ k \in ids /\ rank[n] = i - 1 /\ rank[k] = j - 1
    BY <1>5
  <2>2. n \in Nat /\ k \in Nat
    BY <2>1
  <2>. HIDE DEF n, k, rank
  <2>3. n # k /\ ~(k < n)
    BY <1>0, <1>2, <2>1
  <2>4. n < k
    BY <2>2, <2>3
  <2>. QED  BY <2>4 DEF n, k
<1>9. ASSUME NEW n \in ids PROVE \E i \in 1..N : Ranked(ids)[i] = n
  <2>1. rank[n] + 1 \in 1..N /\ rank[n] \in Nat
    BY <1>0, <1>1
  <2>. HIDE DEF rank
  <2>2. PICK i \in 1..N : i = rank[n] + 1
    BY <2>1
  <2>3. rank[Ranked(ids)[i]] = i - 1 /\ Ranked(ids)[i] \in ids
    BY <1>5
  <2>4. i - 1 = rank[n]
    BY <2>1, <2>2
  <2>. QED  BY <1>3, <2>3, <2>4
<1>. HIDE DEF rank
<1>. QED  BY <1>5, <1>7, <1>8, <1>9

(***************************************************************************)
(* The lists.                                                              *)
(***************************************************************************)
LEMMA Shapes ==
    /\ \A x \in Sup!Entry : x # Sup!Hole /\ x.of \in Entries /\ x \in [of : Entries, edited : SUBSET Fields]
    /\ Sup!Hole.of = "null" /\ "null" \notin Entries
    /\ \A e \in Entries : Sup!Fresh(e) \in Sup!Entry /\ Sup!Fresh(e).of = e /\ Sup!Fresh(e) # Sup!Hole
BY RecordsAssumption DEF Sup!Entry, Sup!Hole, Sup!Fresh, Sup!LimitsAssumption

LEMMA SlotsAre ==
    ASSUME NEW list \in Slots
    PROVE  /\ Len(list) \in Nat /\ DOMAIN list = 1..Len(list)
           /\ \A i \in 1..Len(list) : list[i] \in Sup!Entry \/ list[i] = Sup!Hole
BY DEF Slots

LEMMA AppendGood ==
    ASSUME NEW list \in Slots, NEW want, NEW e \in Entries, Without(list, e)
    PROVE  LET new == Append(list, Sup!Fresh(e)) IN
           /\ new \in Slots /\ Len(new) = Len(list) + 1
           /\ Good(list, want) => Good(new, want \cup {Sup!Fresh(e)})
           /\ \A d : d # e /\ Without(list, d) => Without(new, d)
           /\ HoleFree(list) => HoleFree(new)
<1>. DEFINE new == Append(list, Sup!Fresh(e))
<1>1. Sup!Fresh(e) \in Sup!Entry /\ Sup!Fresh(e).of = e /\ Sup!Fresh(e) # Sup!Hole
  BY Shapes
<1>2. new \in Slots /\ Len(new) = Len(list) + 1
  BY <1>1 DEF Slots
<1>3. /\ Len(list) \in Nat /\ DOMAIN new = 1..(Len(list) + 1) /\ DOMAIN list = 1..Len(list)
      /\ \A i \in DOMAIN list : i \in DOMAIN new /\ new[i] = list[i]
      /\ \A i \in DOMAIN new : i \in DOMAIN list \/ i = Len(list) + 1
      /\ Len(list) + 1 \in DOMAIN new /\ new[Len(list) + 1] = Sup!Fresh(e)
  BY <1>1 DEF Slots
<1>. HIDE DEF new
<1>4. ASSUME Good(list, want) PROVE Good(new, want \cup {Sup!Fresh(e)})
  <2>1. \A i \in DOMAIN new : new[i] # Sup!Hole => new[i] \in want \cup {Sup!Fresh(e)}
    BY <1>3, <1>4 DEF Good
  <2>2. \A x \in want \cup {Sup!Fresh(e)} : \E i \in DOMAIN new : new[i] = x
    BY <1>3, <1>4 DEF Good
  <2>3. \A i \in DOMAIN list : new[i].of # new[Len(list) + 1].of
    BY <1>1, <1>3 DEF Without
  <2>4. \A i, j \in DOMAIN new : new[i] # Sup!Hole /\ new[j] # Sup!Hole /\ new[i].of = new[j].of => i = j
    BY <1>3, <1>4, <2>3 DEF Good
  <2>. QED  BY <2>1, <2>2, <2>4 DEF Good
<1>5. \A d : d # e /\ Without(list, d) => Without(new, d)
  BY <1>1, <1>3 DEF Without
<1>6. HoleFree(list) => HoleFree(new)
  BY <1>1, <1>3 DEF HoleFree
<1>. QED  BY <1>2, <1>4, <1>5, <1>6 DEF new

(* A list gets another entry at one position, of the same origin as the    *)
(* one that was there, or a hole.                                          *)
LEMMA ReplacedGood ==
    ASSUME NEW list \in Slots, NEW want, NEW i \in DOMAIN list, NEW x \in Sup!Entry \cup {Sup!Hole},
           NEW new, new = [j \in DOMAIN list |-> IF j = i THEN x ELSE list[j]],
           list[i] \in Sup!Entry, x = Sup!Hole \/ x.of = list[i].of
    PROVE  /\ Good(list, want) /\ x # Sup!Hole => Good(new, (want \ {list[i]}) \cup {x})
           /\ Good(list, want) /\ x = Sup!Hole => Good(new, want \ {list[i]})
           /\ \A d \in Entries : Without(list, d) => Without(new, d)
           /\ HoleFree(list) /\ x # Sup!Hole => HoleFree(new)
<1>1. /\ DOMAIN new = DOMAIN list /\ new[i] = x
      /\ \A j \in DOMAIN list : j # i => new[j] = list[j]
      /\ list[i] # Sup!Hole
  BY Shapes
<1>2. ASSUME Good(list, want), x # Sup!Hole PROVE Good(new, (want \ {list[i]}) \cup {x})
  <2>1. \A j \in DOMAIN list : j # i => list[j] # list[i]
    BY <1>1, <1>2 DEF Good
  <2>2. \A j \in DOMAIN new : new[j] # Sup!Hole => new[j] \in (want \ {list[i]}) \cup {x}
    BY <1>1, <1>2, <2>1 DEF Good
  <2>3. \A y \in (want \ {list[i]}) \cup {x} : \E j \in DOMAIN new : new[j] = y
    BY <1>1, <1>2 DEF Good
  <2>4. \A j \in DOMAIN new : new[j] # Sup!Hole => list[j] # Sup!Hole /\ new[j].of = list[j].of
    BY <1>1, <1>2
  <2>5. \A j, k \in DOMAIN new : new[j] # Sup!Hole /\ new[k] # Sup!Hole /\ new[j].of = new[k].of => j = k
    BY <1>1, <1>2, <2>4 DEF Good
  <2>. QED  BY <2>2, <2>3, <2>5 DEF Good
<1>3. ASSUME Good(list, want), x = Sup!Hole PROVE Good(new, want \ {list[i]})
  <2>1. \A j \in DOMAIN list : j # i => list[j] # list[i]
    BY <1>1, <1>3 DEF Good
  <2>2. \A j \in DOMAIN new : new[j] # Sup!Hole => new[j] \in want \ {list[i]}
    BY <1>1, <1>3, <2>1 DEF Good
  <2>3. \A y \in want \ {list[i]} : \E j \in DOMAIN new : new[j] = y
    BY <1>1, <1>3 DEF Good
  <2>4. \A j \in DOMAIN new : new[j] # Sup!Hole => list[j] # Sup!Hole /\ new[j].of = list[j].of
    BY <1>1, <1>3
  <2>5. \A j, k \in DOMAIN new : new[j] # Sup!Hole /\ new[k] # Sup!Hole /\ new[j].of = new[k].of => j = k
    BY <1>1, <1>3, <2>4 DEF Good
  <2>. QED  BY <2>2, <2>3, <2>5 DEF Good
<1>4. \A d \in Entries : Without(list, d) => Without(new, d)
  BY <1>1, Shapes DEF Without
<1>5. HoleFree(list) /\ x # Sup!Hole => HoleFree(new)
  BY <1>1 DEF HoleFree
<1>. QED  BY <1>2, <1>3, <1>4, <1>5

LEMMA SetAtIs ==
    ASSUME NEW list \in Slots, NEW i \in Nat \ {0}, NEW x \in Sup!Entry
    PROVE  /\ Sup!SetAt(list, i, x) \in Slots
           /\ Len(Sup!SetAt(list, i, x)) = (IF i > Len(list) THEN i ELSE Len(list))
           /\ i \in DOMAIN list =>
                Sup!SetAt(list, i, x) = [j \in DOMAIN list |-> IF j = i THEN x ELSE list[j]]
<1>. DEFINE n == IF i > Len(list) THEN i ELSE Len(list)
            at(j) == IF j = i THEN x ELSE IF j \in DOMAIN list THEN list[j] ELSE Sup!Hole
<1>1. Len(list) \in Nat /\ DOMAIN list = 1..Len(list)
      /\ \A j \in 1..Len(list) : list[j] \in Sup!Entry \cup {Sup!Hole}
  BY DEF Slots
<1>2. n \in Nat
  BY <1>1
<1>3. \A j \in 1..n : at(j) \in Sup!Entry \cup {Sup!Hole}
  BY <1>1
<1>4. Sup!SetAt(list, i, x) = [j \in 1..n |-> at(j)]
  BY DEF Sup!SetAt
<1>5. ASSUME i \in DOMAIN list PROVE n = Len(list)
  <2>1. i \in 1..Len(list)
    BY <1>1, <1>5
  <2>2. ~(i > Len(list))
    BY <1>1, <2>1
  <2>. QED  BY <2>2
<1>6. ASSUME i \in DOMAIN list
      PROVE  [j \in 1..n |-> at(j)] = [j \in DOMAIN list |-> IF j = i THEN x ELSE list[j]]
  BY <1>1, <1>5, <1>6
<1>. HIDE DEF n, at
<1>7. [j \in 1..n |-> at(j)] \in Slots /\ Len([j \in 1..n |-> at(j)]) = n
  BY <1>2, <1>3 DEF Slots
<1>. QED  BY <1>4, <1>6, <1>7 DEF n

(* Without its holes a list holds the same, and nothing twice.             *)
LEMMA PackedGood ==
    ASSUME NEW list \in Slots, NEW want \in SUBSET Sup!Entry
    PROVE  /\ Sup!Packed(list) \in Slots /\ Len(Sup!Packed(list)) <= Len(list)
           /\ Good(list, want) => Good(Sup!Packed(list), want)
           /\ \A d : Without(list, d) => Without(Sup!Packed(list), d)
           /\ HoleFree(Sup!Packed(list))
<1>. DEFINE kept == {i \in DOMAIN list : list[i] # Sup!Hole}
            rank == Ranked(kept)
            N == Cardinality(kept)
<1>1. Len(list) \in Nat /\ DOMAIN list = 1..Len(list)
      /\ \A j \in 1..Len(list) : list[j] \in Sup!Entry \cup {Sup!Hole}
  BY DEF Slots
<1>2. IsFiniteSet(1..Len(list)) /\ Cardinality(1..Len(list)) = Len(list)
  <2>1. IsFiniteSet(1..Len(list)) /\ Cardinality(1..Len(list)) = IF 1 > Len(list) THEN 0 ELSE Len(list) - 1 + 1
    BY <1>1, FS_Interval
  <2>. QED  BY <1>1, <2>1
<1>3. kept \in SUBSET (1..Len(list))
  BY <1>1
<1>4. IsFiniteSet(kept) /\ N <= Len(list) /\ kept \subseteq Nat
  <2>. HIDE DEF kept
  <2>1. IsFiniteSet(kept) /\ N <= Len(list)
    BY <1>2, <1>3, FS_Subset
  <2>. QED  BY <1>3, <2>1
<1>5. N \in Nat
  <2>. HIDE DEF kept
  <2>. QED  BY <1>4, FS_CardinalityType
<1>6. \A i \in kept : i \in DOMAIN list /\ list[i] # Sup!Hole
  OBVIOUS
<1>7. \A i \in DOMAIN list : list[i] # Sup!Hole => i \in kept
  OBVIOUS
<1>8. Sup!Packed(list) = [k \in 1..N |-> list[rank[k]]]
  BY DEF Sup!Packed, Ranked, Sup!Cardinality, Cardinality, Sup!IsFiniteSet, IsFiniteSet
<1>. HIDE DEF kept
<1>9. /\ Len(rank) = N
      /\ \A i \in 1..N : rank[i] \in kept
      /\ \A i, j \in 1..N : i < j => rank[i] < rank[j]
      /\ \A n \in kept : \E i \in 1..N : rank[i] = n
  BY <1>4, RankedIs
<1>10. \A i, j \in 1..N : rank[i] = rank[j] => i = j
  <2>. SUFFICES ASSUME NEW i \in 1..N, NEW j \in 1..N, i # j PROVE rank[i] # rank[j]
    OBVIOUS
  <2>1. i < j \/ j < i
    BY <1>5
  <2>2. rank[i] \in Nat /\ rank[j] \in Nat
    BY <1>4, <1>9
  <2>. QED  BY <1>9, <2>1, <2>2
<1>. HIDE DEF rank, N
<1>11. \A k \in 1..N : list[rank[k]] \in Sup!Entry \cup {Sup!Hole} /\ list[rank[k]] # Sup!Hole /\ rank[k] \in DOMAIN list
  BY <1>1, <1>6, <1>9
<1>12. Sup!Packed(list) \in Slots /\ Len(Sup!Packed(list)) = N /\ DOMAIN Sup!Packed(list) = 1..N
  BY <1>5, <1>8, <1>11 DEF Slots
<1>13. \A k \in 1..N : Sup!Packed(list)[k] = list[rank[k]]
  BY <1>8
<1>14. ASSUME Good(list, want) PROVE Good(Sup!Packed(list), want)
  <2>1. \A k \in 1..N : Sup!Packed(list)[k] \in want
    BY <1>11, <1>13, <1>14 DEF Good
  <2>2. \A x \in want : x # Sup!Hole => \E k \in 1..N : Sup!Packed(list)[k] = x
    <3>. SUFFICES ASSUME NEW x \in want, x # Sup!Hole PROVE \E k \in 1..N : Sup!Packed(list)[k] = x
      OBVIOUS
    <3>1. PICK i \in DOMAIN list : list[i] = x
      BY <1>14 DEF Good
    <3>2. i \in kept
      BY <1>7, <3>1
    <3>. QED  BY <1>9, <1>13, <3>1, <3>2
  <2>3. \A k, m \in 1..N : Sup!Packed(list)[k].of = Sup!Packed(list)[m].of => k = m
    BY <1>10, <1>11, <1>13, <1>14 DEF Good
  <2>. QED  BY <1>12, <2>1, <2>2, <2>3, Shapes DEF Good
<1>15. \A d : Without(list, d) => Without(Sup!Packed(list), d)
  BY <1>11, <1>12, <1>13 DEF Without
<1>16. HoleFree(Sup!Packed(list))
  BY <1>11, <1>12, <1>13 DEF HoleFree
<1>. QED  BY <1>4, <1>12, <1>14, <1>15, <1>16 DEF N
LEMMA BusyIs == \A stage, s, l : Sup!At(stage, s, l) = Busy(call, stage, s, l)
                                 /\ Sup!At(stage, s, l)' = Busy(call', stage, s, l)
BY DEF Sup!At, Busy

LEMMA Sizes ==
    ASSUME NEW S \in SUBSET Calls
    PROVE  /\ Cardinality(S) \in Nat /\ Cardinality(Calls) \in Nat /\ Cardinality(S) <= Cardinality(Calls)
           /\ S # Calls => Cardinality(S) < Cardinality(Calls)
           /\ \A T \in SUBSET S : Cardinality(T) <= Cardinality(S) /\ Cardinality(T) \in Nat
           /\ \A c \in S : Cardinality(S \ {c}) = Cardinality(S) - 1
<1>1. IsFiniteSet(Calls)
  BY RecordsAssumption, SupSizes DEF Sup!LimitsAssumption
<1>2. IsFiniteSet(S) /\ Cardinality(S) <= Cardinality(Calls) /\ (Cardinality(Calls) = Cardinality(S) => Calls = S)
  BY <1>1, FS_Subset
<1>3. Cardinality(S) \in Nat /\ Cardinality(Calls) \in Nat
  BY <1>1, <1>2, FS_CardinalityType
<1>4. \A T \in SUBSET S : Cardinality(T) <= Cardinality(S) /\ IsFiniteSet(T)
  BY <1>2, FS_Subset
<1>5. \A T \in SUBSET S : Cardinality(T) \in Nat
  BY <1>4, FS_CardinalityType
<1>6. \A c \in S : Cardinality(S \ {c}) = Cardinality(S) - 1
  BY <1>2, FS_RemoveElement
<1>. QED  BY <1>2, <1>3, <1>4, <1>5, <1>6

LEMMA CallStateIs ==
    ASSUME NEW r \in CallStates
    PROVE  /\ r.stage \in {"creating", "retaxing"} => r \in Creating
           /\ r.stage \in {"archiving", "emptying"} => r \in Archiving
           /\ r.stage \in {"adding", "replacing"} => r \in Adding
           /\ r.stage = "editing" => r \in Editing
           /\ r.stage \in {"removing", "holed"} => r \in Removing
           /\ r.stage # "idle" => r.firm \in Firms
           /\ r.stage = "idle" => r = Sup!Idle
BY DEF CallStates, Sup!Idle, Creating, Archiving, Adding, Editing, Removing

LEMMA FirmIs ==
    ASSUME NEW f \in Sup!Firm
    PROVE  /\ f.contacts \in Slots /\ f.documents \in Slots /\ \A l \in Sup!Lists : f[l] \in Slots
           /\ f.taxId \in TaxIds \cup {Sup!NoTax} /\ f.status \in {"none", "live", "archived"}
BY DEF Sup!Firm, Slots, Sup!Lists

LEMMA PutIs ==
    ASSUME firm \in [Firms -> Sup!Firm], NEW s \in Firms, NEW l \in Sup!Lists, NEW list \in Slots, Sup!Put(s, l, list)
    PROVE  /\ firm' \in [Firms -> Sup!Firm]
           /\ \A o \in Firms, k \in Sup!Lists : firm'[o][k] = (IF o = s /\ k = l THEN list ELSE firm[o][k])
           /\ \A o \in Firms : o # s => firm'[o] = firm[o]
           /\ \A o \in Firms : firm'[o].status = firm[o].status /\ firm'[o].taxId = firm[o].taxId
<1>1. firm' = [firm EXCEPT ![s] = [firm[s] EXCEPT ![l] = list]]
  BY DEF Sup!Put
<1>2. firm[s] \in Sup!Firm
  OBVIOUS
<1>3. PICK f : f = [firm[s] EXCEPT ![l] = list]
  OBVIOUS
<1>4. f \in Sup!Firm /\ f.status = firm[s].status /\ f.taxId = firm[s].taxId
      /\ \A k \in Sup!Lists : f[k] = IF k = l THEN list ELSE firm[s][k]
  <2>1. CASE l = "contacts"
    BY <1>2, <1>3, <2>1 DEF Sup!Firm, Slots, Sup!Lists
  <2>2. CASE l = "documents"
    BY <1>2, <1>3, <2>2 DEF Sup!Firm, Slots, Sup!Lists
  <2>. QED  BY <2>1, <2>2 DEF Sup!Lists
<1>5. firm' = [firm EXCEPT ![s] = f]
  BY <1>1, <1>3
<1>6. firm'[s] = f /\ (\A o \in Firms : o # s => firm'[o] = firm[o]) /\ firm' \in [Firms -> Sup!Firm]
  BY <1>4, <1>5
<1>7. \A o \in Firms : firm'[o].status = firm[o].status /\ firm'[o].taxId = firm[o].taxId
  BY <1>4, <1>6
<1>8. \A o \in Firms, k \in Sup!Lists : firm'[o][k] = (IF o = s /\ k = l THEN list ELSE firm[o][k])
  BY <1>4, <1>6
<1>. QED  BY <1>6, <1>7, <1>8

LEMMA ListsInit == Sup!Init => ListsInv
<1>. SUFFICES ASSUME Sup!Init PROVE ListsInv
  OBVIOUS
<1>1. Sup!NoFirm \in Sup!Firm
  BY DEF Sup!NoFirm, Sup!Firm
<1>2. ListsTyped
  BY <1>1 DEF Sup!Init, ListsTyped, CallStates
<1>3. \A s \in Firms : firm[s] = Sup!NoFirm /\ firm[s].contacts = <<>> /\ firm[s].documents = <<>>
                       /\ \A l \in Sup!Lists : firm[s][l] = <<>>
  BY DEF Sup!Init, Sup!NoFirm, Sup!Lists
<1>4. \A c \in Calls : call[c].stage = "idle"
  BY DEF Sup!Init, Sup!Idle
<1>5. FirmsOK /\ Sup!TaxIdHeldOnce /\ AddingOK
  BY <1>3, <1>4 DEF FirmsOK, Sup!TaxIdHeldOnce, AddingOK, Sup!NoFirm
<1>6. GoodOK
  BY <1>3 DEF Sup!Init, GoodOK, Good
<1>7. Sup!LimitNearlyHeld
  <2>1. \A s \in Firms : Sup!At("adding", s, "contacts") = {}
    BY <1>4 DEF Sup!At
  <2>2. Cardinality({}) = 0 /\ Cardinality(Calls) \in Nat
    BY Sizes, FS_EmptySet
  <2>3. MaxContacts \in Nat \ {0, 1}
    BY RecordsAssumption, SupSizes DEF Sup!LimitsAssumption
  <2>4. 0 <= MaxContacts + Cardinality(Calls) - 1
    BY <2>2, <2>3
  <2>5. \A s \in Firms : Len(firm[s].contacts) = 0
    BY <1>3
  <2>6. \A s \in Firms : Cardinality(Sup!At("adding", s, "contacts")) = 0
    BY <2>1, <2>2
  <2>. QED  BY <2>4, <2>5, <2>6, SupSizes DEF Sup!LimitNearlyHeld
<1>8. Sup!HolesEnd
  BY <1>3 DEF Sup!HolesEnd, Sup!Holes
<1>. QED  BY <1>2, <1>5, <1>6, <1>7, <1>8 DEF ListsInv

(* A call begins.                                                          *)
LEMMA CallBegins ==
    ASSUME ListsInv, NEW c \in Calls, NEW r \in CallStates, r.stage # "idle", Sup!Begin(c, r),
           UNCHANGED <<firm, wanted, astray, listCut>>,
           r.stage # "creating" => firm[r.firm].status # "none",
           r.stage \in {"adding", "replacing"} =>
             /\ \A d \in Calls : call[d].stage \in {"adding", "replacing"} => call[d].entry # r.entry
             /\ \A s \in Firms, l \in Sup!Lists : Without(firm[s][l], r.entry),
           r.stage = "adding" /\ r.list = "contacts" => Len(firm[r.firm].contacts) < MaxContacts,
           r.stage # "holed"
    PROVE  ListsInv'
<1>1. ListsTyped /\ call[c] = Sup!Idle /\ call' = [call EXCEPT ![c] = r] /\ call[c].stage = "idle"
  BY DEF ListsInv, Sup!Begin, Sup!Idle
<1>2. call' \in [Calls -> CallStates] /\ call'[c] = r /\ \A d \in Calls : d # c => call'[d] = call[d]
  BY <1>1 DEF ListsTyped
<1>3. ListsTyped'
  BY <1>2 DEF ListsInv, ListsTyped
<1>4. FirmsOK' /\ Sup!TaxIdHeldOnce' /\ GoodOK'
  BY <1>2 DEF ListsInv, FirmsOK, Sup!TaxIdHeldOnce, GoodOK
<1>5. AddingOK'
  BY <1>2 DEF ListsInv, AddingOK
<1>6. \A s \in Firms, l \in Sup!Lists : Busy(call', "holed", s, l) = Busy(call, "holed", s, l)
  BY <1>1, <1>2 DEF Busy
<1>7. Sup!HolesEnd'
  BY <1>6, BusyIs DEF ListsInv, Sup!HolesEnd, Sup!Holes
<1>8. Sup!LimitNearlyHeld'
  <2>. SUFFICES ASSUME NEW s \in Firms
                PROVE  Len(firm[s].contacts) + Cardinality(Busy(call', "adding", s, "contacts"))
                         <= MaxContacts + Cardinality(Calls) - 1
    BY BusyIs, SupSizes DEF Sup!LimitNearlyHeld
  <2>1. Len(firm[s].contacts) + Cardinality(Busy(call, "adding", s, "contacts"))
          <= MaxContacts + Cardinality(Calls) - 1
    BY BusyIs, SupSizes DEF ListsInv, Sup!LimitNearlyHeld
  <2>2. CASE r.stage = "adding" /\ r.firm = s /\ r.list = "contacts"
    <3>1. Busy(call', "adding", s, "contacts") \in SUBSET Calls
      BY DEF Busy
    <3>2. Cardinality(Busy(call', "adding", s, "contacts")) <= Cardinality(Calls)
          /\ Cardinality(Busy(call', "adding", s, "contacts")) \in Nat /\ Cardinality(Calls) \in Nat
      BY <3>1, Sizes
    <3>3. Len(firm[s].contacts) < MaxContacts /\ Len(firm[s].contacts) \in Nat /\ MaxContacts \in Nat
      <4>1. firm[s] \in Sup!Firm
        BY <1>1 DEF ListsTyped
      <4>. QED  BY <2>2, <4>1, FirmIs, SlotsAre, RecordsAssumption DEF Sup!LimitsAssumption
    <3>. HIDE DEF Busy
    <3>. QED  BY <3>2, <3>3
  <2>3. CASE ~(r.stage = "adding" /\ r.firm = s /\ r.list = "contacts")
    <3>1. Busy(call', "adding", s, "contacts") = Busy(call, "adding", s, "contacts")
      BY <1>1, <1>2, <2>3 DEF Busy
    <3>. QED  BY <2>1, <3>1
  <2>. QED  BY <2>2, <2>3
<1>. QED  BY <1>3, <1>4, <1>5, <1>7, <1>8 DEF ListsInv

(* A call ends, or dies, and the lists are as they were.                   *)
LEMMA CallEnds ==
    ASSUME ListsInv, NEW c \in Calls, Sup!End(c),
           firm' \in [Firms -> Sup!Firm],
           \A s \in Firms, l \in Sup!Lists : firm'[s][l] = firm[s][l],
           \A s \in Firms : firm'[s].status = "none" => firm'[s] = Sup!NoFirm,
           \A s \in Firms : firm[s].status # "none" => firm'[s].status # "none",
           Sup!TaxIdHeldOnce',
           UNCHANGED <<wanted, astray>>,
           listCut' \in [Firms -> [Sup!Lists -> BOOLEAN]],
           \A s \in Firms, l \in Sup!Lists : listCut[s][l] => listCut'[s][l],
           call[c].stage = "holed" => listCut'[call[c].firm][call[c].list]
    PROVE  ListsInv'
<1>1. ListsTyped /\ call' = [call EXCEPT ![c] = Sup!Idle]
  BY DEF ListsInv, Sup!End
<1>2. call' \in [Calls -> CallStates] /\ call'[c].stage = "idle"
      /\ \A d \in Calls : d # c => call'[d] = call[d]
  BY <1>1 DEF ListsTyped, CallStates, Sup!Idle
<1>3. ListsTyped'
  BY <1>1, <1>2 DEF ListsTyped
<1>4. \A d \in Calls : call[d].stage # "idle" => call[d].firm \in Firms
  BY <1>1, CallStateIs DEF ListsTyped
<1>5. FirmsOK'
  BY <1>2, <1>4 DEF ListsInv, FirmsOK
<1>6. GoodOK' /\ AddingOK'
  BY <1>2 DEF ListsInv, GoodOK, AddingOK
<1>7. \A s \in Firms, l \in Sup!Lists :
        Busy(call, "holed", s, l) # {} => Busy(call', "holed", s, l) # {} \/ listCut'[s][l]
  BY <1>2 DEF Busy
<1>8. Sup!HolesEnd'
  <2>1. \A s \in Firms, l \in Sup!Lists : Sup!Holes(s, l)' = Sup!Holes(s, l)
    BY DEF Sup!Holes
  <2>. QED  BY <1>7, <2>1, BusyIs DEF ListsInv, Sup!HolesEnd
<1>9. Sup!LimitNearlyHeld'
  <2>. SUFFICES ASSUME NEW s \in Firms
                PROVE  Len(firm'[s].contacts) + Cardinality(Busy(call', "adding", s, "contacts"))
                         <= MaxContacts + Cardinality(Calls) - 1
    BY BusyIs, SupSizes DEF Sup!LimitNearlyHeld
  <2>1. Len(firm[s].contacts) + Cardinality(Busy(call, "adding", s, "contacts"))
          <= MaxContacts + Cardinality(Calls) - 1
    BY BusyIs, SupSizes DEF ListsInv, Sup!LimitNearlyHeld
  <2>2. firm'[s].contacts = firm[s].contacts /\ Len(firm[s].contacts) \in Nat
    <3>1. firm[s] \in Sup!Firm
      BY <1>1 DEF ListsTyped
    <3>2. firm'[s]["contacts"] = firm[s]["contacts"]
      BY DEF Sup!Lists
    <3>. QED  BY <3>1, <3>2, FirmIs, SlotsAre
  <2>3. Busy(call, "adding", s, "contacts") \in SUBSET Calls
        /\ Busy(call', "adding", s, "contacts") \subseteq Busy(call, "adding", s, "contacts")
    BY <1>2 DEF Busy
  <2>4. Cardinality(Busy(call', "adding", s, "contacts")) <= Cardinality(Busy(call, "adding", s, "contacts"))
        /\ Cardinality(Busy(call', "adding", s, "contacts")) \in Nat
        /\ Cardinality(Busy(call, "adding", s, "contacts")) \in Nat /\ Cardinality(Calls) \in Nat
    BY <2>3, Sizes
  <2>5. MaxContacts \in Nat
    BY RecordsAssumption, SupSizes DEF Sup!LimitsAssumption
  <2>. QED  BY <2>1, <2>2, <2>4, <2>5
<1>. QED  BY <1>3, <1>5, <1>6, <1>8, <1>9 DEF ListsInv

(* A list is written, by a call that looked at it or without one.          *)
LEMMA ListWritten ==
    ASSUME ListsInv, NEW s \in Firms, NEW l \in Sup!Lists, NEW list \in Slots, NEW want \in SUBSET Sup!Entry,
           Sup!Put(s, l, list), firm[s].status # "none",
           wanted' = [wanted EXCEPT ![s][l] = want],
           call' \in [Calls -> CallStates],
           \A d \in Calls : call'[d].stage \in {"adding", "replacing"} => call'[d] = call[d],
           \A d \in Calls : call'[d].stage \notin {"idle", "creating"} =>
                              call'[d].firm = call[d].firm /\ call[d].stage \notin {"idle", "creating"},
           astray' \in [Firms -> [Sup!Lists -> BOOLEAN]], listCut' \in [Firms -> [Sup!Lists -> BOOLEAN]],
           \A o \in Firms, k \in Sup!Lists : astray[o][k] => astray'[o][k],
           ~astray'[s][l] => Good(list, want),
           ~astray'[s][l] => \A d \in Calls : call'[d].stage \in {"adding", "replacing"} => Without(list, call[d].entry),
           \A o \in Firms, k \in Sup!Lists : o # s \/ k # l =>
               Busy(call', "holed", o, k) = Busy(call, "holed", o, k) /\ listCut'[o][k] = listCut[o][k],
           HoleFree(list) \/ Busy(call', "holed", s, l) # {} \/ listCut'[s][l] \/ astray'[s][l],
           l = "contacts" => Len(list) + Cardinality(Busy(call', "adding", s, "contacts"))
                               <= MaxContacts + Cardinality(Calls) - 1
    PROVE  ListsInv'
<1>1. ListsTyped /\ firm \in [Firms -> Sup!Firm]
  BY DEF ListsInv, ListsTyped
<1>2. /\ firm' \in [Firms -> Sup!Firm]
      /\ \A o \in Firms, k \in Sup!Lists : firm'[o][k] = (IF o = s /\ k = l THEN list ELSE firm[o][k])
      /\ \A o \in Firms : o # s => firm'[o] = firm[o]
      /\ \A o \in Firms : firm'[o].status = firm[o].status /\ firm'[o].taxId = firm[o].taxId
  BY <1>1, PutIs
<1>3. wanted \in [Firms -> [Sup!Lists -> SUBSET Sup!Entry]]
  BY <1>1 DEF ListsTyped
<1>4. wanted' \in [Firms -> [Sup!Lists -> SUBSET Sup!Entry]]
      /\ \A o \in Firms, k \in Sup!Lists : wanted'[o][k] = (IF o = s /\ k = l THEN want ELSE wanted[o][k])
  BY <1>3
<1>5. ListsTyped'
  BY <1>2, <1>4 DEF ListsTyped
<1>6. \A d \in Calls : call'[d].stage # "idle" => call'[d].firm \in Firms
  BY CallStateIs
<1>7. FirmsOK'
  <2>1. \A o \in Firms : firm'[o].status = "none" => firm'[o] = Sup!NoFirm
    BY <1>2 DEF ListsInv, FirmsOK
  <2>2. \A d \in Calls : call'[d].stage \notin {"idle", "creating"} => firm'[call'[d].firm].status # "none"
    BY <1>2, <1>6 DEF ListsInv, FirmsOK
  <2>. QED  BY <2>1, <2>2 DEF FirmsOK
<1>8. Sup!TaxIdHeldOnce'
  BY <1>2 DEF ListsInv, Sup!TaxIdHeldOnce
<1>9. GoodOK'
  <2>. SUFFICES ASSUME NEW o \in Firms, NEW k \in Sup!Lists, ~astray'[o][k]
                PROVE  Good(firm'[o][k], wanted'[o][k])
    BY DEF GoodOK
  <2>1. CASE o = s /\ k = l
    BY <1>2, <1>4, <2>1
  <2>2. CASE ~(o = s /\ k = l)
    <3>1. Good(firm[o][k], wanted[o][k])
      BY DEF ListsInv, GoodOK
    <3>. QED  BY <1>2, <1>4, <2>2, <3>1
  <2>. QED  BY <2>1, <2>2
<1>10. AddingOK'
  <2>1. \A d, e \in Calls : call'[d].stage \in {"adding", "replacing"} /\ call'[e].stage \in {"adding", "replacing"}
                            /\ call'[e].entry = call'[d].entry => d = e
    BY DEF ListsInv, AddingOK
  <2>2. ASSUME NEW d \in Calls, call'[d].stage \in {"adding", "replacing"}, NEW o \in Firms, NEW k \in Sup!Lists, ~astray'[o][k]
        PROVE  Without(firm'[o][k], call'[d].entry)
    <3>1. CASE o = s /\ k = l
      BY <1>2, <2>2, <3>1
    <3>2. CASE ~(o = s /\ k = l)
      <4>1. Without(firm[o][k], call[d].entry)
        BY <2>2 DEF ListsInv, AddingOK
      <4>. QED  BY <1>2, <2>2, <3>2, <4>1
    <3>. QED  BY <3>1, <3>2
  <2>. QED  BY <2>1, <2>2 DEF AddingOK
<1>11. Sup!HolesEnd'
  <2>. SUFFICES ASSUME NEW o \in Firms, NEW k \in Sup!Lists, ~HoleFree(firm'[o][k])
                PROVE  Busy(call', "holed", o, k) # {} \/ listCut'[o][k] \/ astray'[o][k]
    BY BusyIs DEF Sup!HolesEnd, Sup!Holes, HoleFree
  <2>1. CASE o = s /\ k = l
    BY <1>2, <2>1
  <2>2. CASE ~(o = s /\ k = l)
    <3>1. ~HoleFree(firm[o][k])
      BY <1>2, <2>2
    <3>2. Busy(call, "holed", o, k) # {} \/ listCut[o][k] \/ astray[o][k]
      BY <3>1, BusyIs DEF ListsInv, Sup!HolesEnd, Sup!Holes, HoleFree
    <3>. QED  BY <2>2, <3>2
  <2>. QED  BY <2>1, <2>2
<1>12. Sup!LimitNearlyHeld'
  <2>. SUFFICES ASSUME NEW o \in Firms
                PROVE  Len(firm'[o].contacts) + Cardinality(Busy(call', "adding", o, "contacts"))
                         <= MaxContacts + Cardinality(Calls) - 1
    BY BusyIs, SupSizes DEF Sup!LimitNearlyHeld
  <2>0. firm'[o].contacts = firm'[o]["contacts"] /\ firm[o].contacts = firm[o]["contacts"] /\ "contacts" \in Sup!Lists
    BY DEF Sup!Lists
  <2>1. CASE o = s /\ l = "contacts"
    BY <1>2, <2>0, <2>1
  <2>2. CASE ~(o = s /\ l = "contacts")
    <3>1. Len(firm[o].contacts) + Cardinality(Busy(call, "adding", o, "contacts"))
            <= MaxContacts + Cardinality(Calls) - 1
      BY BusyIs, SupSizes DEF ListsInv, Sup!LimitNearlyHeld
    <3>2. Busy(call, "adding", o, "contacts") \in SUBSET Calls
          /\ Busy(call', "adding", o, "contacts") \subseteq Busy(call, "adding", o, "contacts")
      BY DEF Busy
    <3>3. Cardinality(Busy(call', "adding", o, "contacts")) <= Cardinality(Busy(call, "adding", o, "contacts"))
          /\ Cardinality(Busy(call', "adding", o, "contacts")) \in Nat
          /\ Cardinality(Busy(call, "adding", o, "contacts")) \in Nat /\ Cardinality(Calls) \in Nat
      BY <3>2, Sizes
    <3>4. MaxContacts \in Nat
      BY RecordsAssumption, SupSizes DEF Sup!LimitsAssumption
    <3>5. firm'[o].contacts = firm[o].contacts /\ Len(firm[o].contacts) \in Nat
      <4>1. firm[o] \in Sup!Firm
        BY <1>1
      <4>. QED  BY <1>2, <2>0, <2>2, <4>1, FirmIs, SlotsAre
    <3>. QED  BY <3>1, <3>3, <3>4, <3>5
  <2>. QED  BY <2>1, <2>2
<1>. QED  BY <1>5, <1>7, <1>8, <1>9, <1>10, <1>11, <1>12 DEF ListsInv

LEMMA ListIs ==
    ASSUME ListsInv, NEW s \in Firms, NEW l \in Sup!Lists
    PROVE  /\ firm[s][l] \in Slots /\ Len(firm[s][l]) \in Nat /\ DOMAIN firm[s][l] = 1..Len(firm[s][l])
           /\ \A i \in DOMAIN firm[s][l] : firm[s][l][i] \in Sup!Entry \/ firm[s][l][i] = Sup!Hole
           /\ wanted[s][l] \in SUBSET Sup!Entry
           /\ ~astray[s][l] => Good(firm[s][l], wanted[s][l])
           /\ HoleFree(firm[s][l]) \/ Busy(call, "holed", s, l) # {} \/ listCut[s][l] \/ astray[s][l]
           /\ Len(firm[s].contacts) + Cardinality(Busy(call, "adding", s, "contacts"))
                <= MaxContacts + Cardinality(Calls) - 1
           /\ firm[s].contacts = firm[s]["contacts"] /\ firm[s].contacts \in Slots
<1>1. firm[s] \in Sup!Firm
  BY DEF ListsInv, ListsTyped
<1>2. firm[s][l] \in Slots
  BY <1>1, FirmIs
<1>3. wanted[s][l] \in SUBSET Sup!Entry
  BY DEF ListsInv, ListsTyped
<1>4. ~astray[s][l] => Good(firm[s][l], wanted[s][l])
  BY DEF ListsInv, GoodOK
<1>5. HoleFree(firm[s][l]) \/ Busy(call, "holed", s, l) # {} \/ listCut[s][l] \/ astray[s][l]
  BY BusyIs DEF ListsInv, Sup!HolesEnd, Sup!Holes, HoleFree
<1>6. Len(firm[s].contacts) + Cardinality(Busy(call, "adding", s, "contacts"))
        <= MaxContacts + Cardinality(Calls) - 1
  BY BusyIs, SupSizes DEF ListsInv, Sup!LimitNearlyHeld
<1>. QED  BY <1>1, <1>2, <1>3, <1>4, <1>5, <1>6, SlotsAre, FirmIs

(***************************************************************************)
(* The steps.                                                              *)
(***************************************************************************)
LEMMA StepAdd ==
    ASSUME ListsInv, NEW c \in Calls, Sup!Add(c)
    PROVE  ListsInv'
<1>. DEFINE s == call[c].firm
            l == call[c].list
            e == call[c].entry
            list == Append(firm[s][l], Sup!Fresh(e))
            want == wanted[s][l] \cup {Sup!Fresh(e)}
<1>1. ListsTyped /\ call[c].stage = "adding" /\ call[c] \in CallStates
  BY DEF ListsInv, ListsTyped, Sup!Add, Sup!Pending
<1>2. s \in Firms /\ l \in Sup!Lists /\ e \in Entries
  BY <1>1, CallStateIs DEF Adding
<1>3. /\ Sup!Put(s, l, list) /\ wanted' = [wanted EXCEPT ![s][l] = want]
      /\ call' = [call EXCEPT ![c] = Sup!Idle] /\ UNCHANGED <<astray, listCut>>
  BY DEF Sup!Add, Sup!End
<1>4. /\ call' \in [Calls -> CallStates] /\ call'[c].stage = "idle"
      /\ \A d \in Calls : d # c => call'[d] = call[d]
  BY <1>1, <1>3 DEF ListsTyped, CallStates, Sup!Idle
<1>5. firm[s].status # "none"
  BY <1>1 DEF ListsInv, FirmsOK
<1>6. astray \in [Firms -> [Sup!Lists -> BOOLEAN]] /\ listCut \in [Firms -> [Sup!Lists -> BOOLEAN]]
  BY <1>1 DEF ListsTyped
<1>. HIDE DEF s, l, e
<1>7. firm[s][l] \in Slots /\ wanted[s][l] \in SUBSET Sup!Entry /\ Sup!Fresh(e) \in Sup!Entry
  BY <1>2, ListIs, Shapes
<1>8. list \in Slots /\ Len(list) = Len(firm[s][l]) + 1 /\ want \in SUBSET Sup!Entry
  BY <1>7 DEF Slots
<1>9. HoleFree(firm[s][l]) => HoleFree(list)
  BY <1>2, <1>7, Shapes DEF HoleFree, Slots
<1>10. ~astray[s][l] => Without(firm[s][l], e)
  BY <1>1, <1>2 DEF ListsInv, AddingOK, e
<1>11. ASSUME ~astray[s][l]
       PROVE  Good(list, want) /\ \A d \in Calls : call'[d].stage \in {"adding", "replacing"} => Without(list, call[d].entry)
  <2>1. Good(firm[s][l], wanted[s][l])
    BY <1>2, <1>11, ListIs
  <2>2. Good(list, want) /\ \A d : d # e /\ Without(firm[s][l], d) => Without(list, d)
    BY <1>2, <1>7, <1>10, <1>11, <2>1, AppendGood
  <2>3. \A d \in Calls : call'[d].stage \in {"adding", "replacing"} => call[d].entry # e /\ Without(firm[s][l], call[d].entry)
    BY <1>1, <1>2, <1>4, <1>11 DEF ListsInv, AddingOK, e
  <2>. QED  BY <2>2, <2>3
<1>12. \A o \in Firms, k \in Sup!Lists : Busy(call', "holed", o, k) = Busy(call, "holed", o, k)
  BY <1>1, <1>4 DEF Busy
<1>13. l = "contacts" => Len(list) + Cardinality(Busy(call', "adding", s, "contacts"))
                           <= MaxContacts + Cardinality(Calls) - 1
  <2>. SUFFICES ASSUME l = "contacts"
                PROVE  Len(list) + Cardinality(Busy(call', "adding", s, "contacts"))
                         <= MaxContacts + Cardinality(Calls) - 1
    OBVIOUS
  <2>1. Len(firm[s][l]) + Cardinality(Busy(call, "adding", s, "contacts"))
          <= MaxContacts + Cardinality(Calls) - 1 /\ Len(firm[s][l]) \in Nat
    BY <1>2, ListIs
  <2>2. Busy(call', "adding", s, "contacts") = Busy(call, "adding", s, "contacts") \ {c}
        /\ c \in Busy(call, "adding", s, "contacts") /\ Busy(call, "adding", s, "contacts") \in SUBSET Calls
    BY <1>1, <1>4 DEF Busy, s, l
  <2>3. Cardinality(Busy(call', "adding", s, "contacts")) = Cardinality(Busy(call, "adding", s, "contacts")) - 1
        /\ Cardinality(Busy(call, "adding", s, "contacts")) \in Nat /\ Cardinality(Calls) \in Nat
    BY <2>2, Sizes
  <2>4. MaxContacts \in Nat
    BY RecordsAssumption, SupSizes DEF Sup!LimitsAssumption
  <2>. QED  BY <1>8, <2>1, <2>3, <2>4
<1>14. HoleFree(list) \/ Busy(call', "holed", s, l) # {} \/ listCut[s][l] \/ astray[s][l]
  BY <1>2, <1>9, <1>12, ListIs
<1>15. /\ \A d \in Calls : call'[d].stage \in {"adding", "replacing"} => call'[d] = call[d]
       /\ \A d \in Calls : call'[d].stage \notin {"idle", "creating"} =>
                            call'[d].firm = call[d].firm /\ call[d].stage \notin {"idle", "creating"}
  BY <1>4
<1>16. /\ astray' \in [Firms -> [Sup!Lists -> BOOLEAN]] /\ listCut' \in [Firms -> [Sup!Lists -> BOOLEAN]]
       /\ \A o \in Firms, k \in Sup!Lists : astray[o][k] => astray'[o][k]
       /\ \A o \in Firms, k \in Sup!Lists : o # s \/ k # l =>
            Busy(call', "holed", o, k) = Busy(call, "holed", o, k) /\ listCut'[o][k] = listCut[o][k]
       /\ ~astray'[s][l] => Good(list, want)
       /\ ~astray'[s][l] => \A d \in Calls : call'[d].stage \in {"adding", "replacing"} => Without(list, call[d].entry)
       /\ HoleFree(list) \/ Busy(call', "holed", s, l) # {} \/ listCut'[s][l] \/ astray'[s][l]
  BY <1>3, <1>6, <1>11, <1>12, <1>14
<1>17. Sup!Put(s, l, list) /\ wanted' = [wanted EXCEPT ![s][l] = want] /\ firm[s].status # "none"
  BY <1>3, <1>5 DEF s
<1>. HIDE DEF list, want
<1>. QED  BY <1>2, <1>4, <1>8, <1>13, <1>15, <1>16, <1>17, ListWritten

(* A write by position goes astray unless it meets the entry that was read. *)
LEMMA StrayIs ==
    ASSUME ListsInv, NEW c \in Calls, call[c].firm \in Firms, call[c].list \in Sup!Lists, Sup!Stray(c)
    PROVE  /\ astray' \in [Firms -> [Sup!Lists -> BOOLEAN]]
           /\ \A o \in Firms, k \in Sup!Lists : astray[o][k] => astray'[o][k]
           /\ ~astray'[call[c].firm][call[c].list] => ~astray[call[c].firm][call[c].list] /\ Sup!OnTarget(c)
<1>. DEFINE s == call[c].firm
            l == call[c].list
            off == astray[s][l] \/ ~Sup!OnTarget(c)
<1>1. astray \in [Firms -> [Sup!Lists -> BOOLEAN]]
  BY DEF ListsInv, ListsTyped
<1>2. PICK b \in BOOLEAN : b = off
  BY <1>1
<1>3. astray' = [astray EXCEPT ![s][l] = b]
  BY <1>1, <1>2 DEF Sup!Stray
<1>. HIDE DEF off
<1>4. astray' \in [Firms -> [Sup!Lists -> BOOLEAN]]
  BY <1>1, <1>3
<1>5. \A o \in Firms, k \in Sup!Lists : astray'[o][k] = IF o = s /\ k = l THEN b ELSE astray[o][k]
  BY <1>1, <1>3
<1>6. astray[s][l] => b
  BY <1>2 DEF off
<1>7. ~b => ~astray[s][l] /\ Sup!OnTarget(c)
  BY <1>2 DEF off
<1>. HIDE DEF s, l
<1>. QED  BY <1>4, <1>5, <1>6, <1>7 DEF s, l

LEMMA StepEdit ==
    ASSUME ListsInv, NEW c \in Calls, Sup!Edit(c)
    PROVE  ListsInv'
<1>. DEFINE s == call[c].firm
            l == "contacts"
            at == call[c].at
            seen == call[c].seen
            merged == [seen EXCEPT !.edited = @ \cup {call[c].field}]
            list == Sup!SetAt(firm[s].contacts, at, merged)
            want == (wanted[s][l] \ {seen}) \cup {merged}
<1>1. ListsTyped /\ call[c].stage = "editing" /\ call[c] \in CallStates
  BY DEF ListsInv, ListsTyped, Sup!Edit, Sup!Pending
<1>2. /\ s \in Firms /\ l \in Sup!Lists /\ call[c].list = l /\ at \in 1..MaxContacts /\ seen \in Sup!Entry
      /\ call[c].field \in Fields
  BY <1>1, CallStateIs DEF Editing, Sup!Lists
<1>3. /\ Sup!Put(s, l, list) /\ wanted' = [wanted EXCEPT ![s][l] = want]
      /\ call' = [call EXCEPT ![c] = Sup!Idle] /\ Sup!Stray(c) /\ listCut' = listCut
  BY DEF Sup!Edit, Sup!End
<1>4. /\ call' \in [Calls -> CallStates] /\ call'[c].stage = "idle"
      /\ \A d \in Calls : d # c => call'[d] = call[d]
  BY <1>1, <1>3 DEF ListsTyped, CallStates, Sup!Idle
<1>5. firm[s].status # "none"
  BY <1>1 DEF ListsInv, FirmsOK
<1>6. listCut \in [Firms -> [Sup!Lists -> BOOLEAN]]
  BY <1>1 DEF ListsTyped
<1>7. merged \in Sup!Entry /\ merged.of = seen.of
  BY <1>2 DEF Sup!Entry
<1>8. MaxContacts \in Nat /\ at \in Nat \ {0} /\ at <= MaxContacts
  BY <1>2, RecordsAssumption DEF Sup!LimitsAssumption
<1>9. /\ astray' \in [Firms -> [Sup!Lists -> BOOLEAN]]
      /\ \A o \in Firms, k \in Sup!Lists : astray[o][k] => astray'[o][k]
      /\ ~astray'[s][l] => ~astray[s][l] /\ Sup!OnTarget(c)
  BY <1>2, <1>3, StrayIs
<1>10. Sup!OnTarget(c) => at \in DOMAIN firm[s][l] /\ firm[s][l][at] = seen
  BY <1>2 DEF Sup!OnTarget
<1>. HIDE DEF s, at, seen, merged
<1>11. firm[s][l] \in Slots /\ wanted[s][l] \in SUBSET Sup!Entry /\ firm[s].contacts = firm[s][l]
       /\ Len(firm[s][l]) \in Nat
  BY <1>2, ListIs
<1>12. /\ list \in Slots
       /\ Len(list) = (IF at > Len(firm[s][l]) THEN at ELSE Len(firm[s][l]))
       /\ at \in DOMAIN firm[s][l] =>
            list = [j \in DOMAIN firm[s][l] |-> IF j = at THEN merged ELSE firm[s][l][j]]
  BY <1>7, <1>8, <1>11, SetAtIs
<1>13. want \in SUBSET Sup!Entry
  BY <1>7, <1>11
<1>14. ASSUME ~astray'[s][l]
       PROVE  /\ Good(list, want)
              /\ \A d \in Calls : call'[d].stage \in {"adding", "replacing"} => Without(list, call[d].entry)
              /\ HoleFree(firm[s][l]) => HoleFree(list)
  <2>1. at \in DOMAIN firm[s][l] /\ firm[s][l][at] = seen /\ Good(firm[s][l], wanted[s][l]) /\ ~astray[s][l]
    BY <1>2, <1>9, <1>10, <1>14, ListIs
  <2>2. list = [j \in DOMAIN firm[s][l] |-> IF j = at THEN merged ELSE firm[s][l][j]]
    BY <1>12, <2>1
  <2>3. merged # Sup!Hole
    BY <1>7, Shapes
  <2>4. /\ Good(list, want)
        /\ \A d \in Entries : Without(firm[s][l], d) => Without(list, d)
        /\ HoleFree(firm[s][l]) => HoleFree(list)
    <3>0. PICK new, old : new = list /\ old = firm[s][l]
      OBVIOUS
    <3>1. PICK x \in Sup!Entry \cup {Sup!Hole} : x = merged
      BY <1>7
    <3>2. old \in Slots /\ at \in DOMAIN old /\ old[at] \in Sup!Entry /\ (x = Sup!Hole \/ x.of = old[at].of)
      BY <1>2, <1>7, <1>11, <2>1, <3>0, <3>1
    <3>3. new = [j \in DOMAIN old |-> IF j = at THEN x ELSE old[j]]
      BY <2>2, <3>0, <3>1
    <3>. HIDE DEF list
    <3>4. /\ \A w : Good(old, w) /\ x # Sup!Hole => Good(new, (w \ {old[at]}) \cup {x})
          /\ \A d \in Entries : Without(old, d) => Without(new, d)
          /\ HoleFree(old) /\ x # Sup!Hole => HoleFree(new)
      BY <3>2, <3>3, ReplacedGood
    <3>. QED  BY <2>1, <2>3, <3>0, <3>1, <3>4
  <2>5. \A d \in Calls : call[d].stage \in {"adding", "replacing"} => call[d].entry \in Entries
    BY <1>1, CallStateIs DEF ListsTyped, Adding
  <2>6. \A d \in Calls : call'[d].stage \in {"adding", "replacing"} => call[d].stage \in {"adding", "replacing"}
    BY <1>4
  <2>7. \A d \in Calls : call'[d].stage \in {"adding", "replacing"} => Without(firm[s][l], call[d].entry)
    BY <1>2, <2>1, <2>6 DEF ListsInv, AddingOK
  <2>. HIDE DEF list, want
  <2>. QED  BY <2>4, <2>5, <2>6, <2>7
<1>15. \A o \in Firms, k \in Sup!Lists : Busy(call', "holed", o, k) = Busy(call, "holed", o, k)
  BY <1>1, <1>4 DEF Busy
<1>16. HoleFree(list) \/ Busy(call', "holed", s, l) # {} \/ listCut'[s][l] \/ astray'[s][l]
  <2>1. HoleFree(firm[s][l]) \/ Busy(call, "holed", s, l) # {} \/ listCut[s][l] \/ astray[s][l]
    BY <1>2, ListIs
  <2>. HIDE DEF list
  <2>. QED  BY <1>2, <1>3, <1>9, <1>14, <1>15, <2>1
<1>17. Len(list) + Cardinality(Busy(call', "adding", s, "contacts"))
         <= MaxContacts + Cardinality(Calls) - 1
  <2>1. Len(firm[s][l]) + Cardinality(Busy(call, "adding", s, "contacts"))
          <= MaxContacts + Cardinality(Calls) - 1
    BY <1>2, <1>11, ListIs
  <2>2. Busy(call', "adding", s, "contacts") = Busy(call, "adding", s, "contacts")
        /\ c \notin Busy(call, "adding", s, "contacts") /\ Busy(call, "adding", s, "contacts") \in SUBSET Calls
    BY <1>1, <1>4 DEF Busy
  <2>3. Cardinality(Busy(call, "adding", s, "contacts")) < Cardinality(Calls)
        /\ Cardinality(Busy(call, "adding", s, "contacts")) \in Nat /\ Cardinality(Calls) \in Nat
    <3>1. Busy(call, "adding", s, "contacts") # Calls
      BY <2>2
    <3>. QED  BY <2>2, <3>1, Sizes
  <2>. QED  BY <1>8, <1>11, <1>12, <2>1, <2>2, <2>3
<1>18. /\ \A d \in Calls : call'[d].stage \in {"adding", "replacing"} => call'[d] = call[d]
       /\ \A d \in Calls : call'[d].stage \notin {"idle", "creating"} =>
                            call'[d].firm = call[d].firm /\ call[d].stage \notin {"idle", "creating"}
  BY <1>4
<1>19. /\ listCut' \in [Firms -> [Sup!Lists -> BOOLEAN]]
       /\ \A o \in Firms, k \in Sup!Lists : o # s \/ k # l =>
            Busy(call', "holed", o, k) = Busy(call, "holed", o, k) /\ listCut'[o][k] = listCut[o][k]
       /\ ~astray'[s][l] => Good(list, want)
       /\ ~astray'[s][l] => \A d \in Calls : call'[d].stage \in {"adding", "replacing"} => Without(list, call[d].entry)
  BY <1>3, <1>6, <1>14, <1>15
<1>20. Sup!Put(s, l, list) /\ wanted' = [wanted EXCEPT ![s][l] = want] /\ firm[s].status # "none"
       /\ list \in Slots
  BY <1>3, <1>5, <1>12 DEF s
<1>. HIDE DEF list, want
<1>21. /\ s \in Firms /\ l \in Sup!Lists /\ want \in SUBSET Sup!Entry /\ call' \in [Calls -> CallStates]
       /\ astray' \in [Firms -> [Sup!Lists -> BOOLEAN]]
       /\ \A o \in Firms, k \in Sup!Lists : astray[o][k] => astray'[o][k]
  BY <1>2, <1>4, <1>9, <1>13
<1>. QED  BY <1>16, <1>17, <1>18, <1>19, <1>20, <1>21, ListWritten

LEMMA StepUnset ==
    ASSUME ListsInv, NEW c \in Calls, Sup!Unset(c)
    PROVE  ListsInv'
<1>. DEFINE s == call[c].firm
            l == call[c].list
            at == call[c].at
            seen == call[c].seen
            list == [j \in DOMAIN firm[s][l] |-> IF j = at THEN Sup!Hole ELSE firm[s][l][j]]
            want == wanted[s][l] \ {seen}
<1>1. ListsTyped /\ call[c].stage = "removing" /\ call[c] \in Removing
  BY CallStateIs DEF ListsInv, ListsTyped, Sup!Unset, Sup!Pending
<1>2. s \in Firms /\ l \in Sup!Lists /\ at \in Nat \ {0} /\ seen \in Sup!Entry
  BY <1>1 DEF Removing
<1>3. /\ Sup!Put(s, l, list) /\ wanted' = [wanted EXCEPT ![s][l] = want]
      /\ call' = [call EXCEPT ![c].stage = "holed"] /\ Sup!Stray(c) /\ listCut' = listCut
  BY DEF Sup!Unset
<1>4. /\ call'[c] \in Removing /\ call'[c].stage = "holed" /\ call'[c].firm = s /\ call'[c].list = l
      /\ \A d \in Calls : d # c => call'[d] = call[d]
  BY <1>1, <1>3 DEF ListsTyped, Removing
<1>5. call' \in [Calls -> CallStates]
  BY <1>1, <1>3, <1>4 DEF ListsTyped, CallStates
<1>6. firm[s].status # "none"
  BY <1>1 DEF ListsInv, FirmsOK
<1>7. listCut \in [Firms -> [Sup!Lists -> BOOLEAN]]
  BY <1>1 DEF ListsTyped
<1>8. /\ astray' \in [Firms -> [Sup!Lists -> BOOLEAN]]
      /\ \A o \in Firms, k \in Sup!Lists : astray[o][k] => astray'[o][k]
      /\ ~astray'[s][l] => ~astray[s][l] /\ Sup!OnTarget(c)
  BY <1>2, <1>3, StrayIs
<1>9. Sup!OnTarget(c) => at \in DOMAIN firm[s][l] /\ firm[s][l][at] = seen
  BY DEF Sup!OnTarget
<1>10. /\ \A d \in Calls : call'[d].stage \in {"adding", "replacing"} => call'[d] = call[d]
       /\ \A d \in Calls : call'[d].stage \notin {"idle", "creating"} =>
                            call'[d].firm = call[d].firm /\ call[d].stage \notin {"idle", "creating"}
  BY <1>1, <1>4
<1>11. /\ \A o \in Firms, k \in Sup!Lists : o # s \/ k # l => Busy(call', "holed", o, k) = Busy(call, "holed", o, k)
       /\ c \in Busy(call', "holed", s, l)
       /\ Busy(call', "adding", s, "contacts") = Busy(call, "adding", s, "contacts")
  <2>. HIDE DEF s, l
  <2>1. call[c].stage # "holed" /\ call[c].stage # "adding"
    BY <1>1
  <2>. QED  BY <1>4, <2>1 DEF Busy
<1>. HIDE DEF s, l, at, seen
<1>12. /\ firm[s][l] \in Slots /\ wanted[s][l] \in SUBSET Sup!Entry /\ Len(firm[s][l]) \in Nat
       /\ DOMAIN firm[s][l] = 1..Len(firm[s][l])
       /\ \A i \in DOMAIN firm[s][l] : firm[s][l][i] \in Sup!Entry \/ firm[s][l][i] = Sup!Hole
  BY <1>2, ListIs
<1>13. list \in Slots /\ Len(list) = Len(firm[s][l])
  <2>1. \A j \in 1..Len(firm[s][l]) : (IF j = at THEN Sup!Hole ELSE firm[s][l][j]) \in Sup!Entry \cup {Sup!Hole}
    BY <1>12
  <2>2. list \in [1..Len(firm[s][l]) -> Sup!Entry \cup {Sup!Hole}]
    BY <1>12, <2>1
  <2>. HIDE DEF list
  <2>. QED  BY <1>12, <2>2 DEF Slots
<1>14. ASSUME ~astray'[s][l]
       PROVE  Good(list, want) /\ \A d \in Calls : call'[d].stage \in {"adding", "replacing"} => Without(list, call[d].entry)
  <2>1. at \in DOMAIN firm[s][l] /\ firm[s][l][at] = seen /\ Good(firm[s][l], wanted[s][l]) /\ ~astray[s][l]
    BY <1>2, <1>8, <1>9, <1>14, ListIs
  <2>2. PICK new : new = list
    OBVIOUS
  <2>3. Good(new, wanted[s][l] \ {firm[s][l][at]})
        /\ \A d \in Entries : Without(firm[s][l], d) => Without(new, d)
    <3>1. PICK x \in Sup!Entry \cup {Sup!Hole} : x = Sup!Hole
      OBVIOUS
    <3>0. PICK old : old = firm[s][l]
      OBVIOUS
    <3>2. old \in Slots /\ at \in DOMAIN old /\ old[at] \in Sup!Entry /\ (x = Sup!Hole \/ x.of = old[at].of)
      BY <1>2, <1>12, <2>1, <3>0, <3>1
    <3>3. new = [j \in DOMAIN old |-> IF j = at THEN x ELSE old[j]]
      BY <2>2, <3>0, <3>1
    <3>. HIDE DEF list
    <3>4. /\ \A w : Good(old, w) /\ x = Sup!Hole => Good(new, w \ {old[at]})
          /\ \A d \in Entries : Without(old, d) => Without(new, d)
      BY <3>2, <3>3, ReplacedGood
    <3>. QED  BY <2>1, <3>0, <3>1, <3>4
  <2>4. \A d \in Calls : call[d].stage \in {"adding", "replacing"} => call[d].entry \in Entries
    BY <1>1, CallStateIs DEF ListsTyped, Adding
  <2>5. \A d \in Calls : call'[d].stage \in {"adding", "replacing"} => call[d].stage \in {"adding", "replacing"}
    BY <1>10
  <2>6. \A d \in Calls : call'[d].stage \in {"adding", "replacing"} => Without(firm[s][l], call[d].entry)
    BY <1>2, <2>1, <2>5 DEF ListsInv, AddingOK
  <2>. HIDE DEF list
  <2>. QED  BY <2>1, <2>2, <2>3, <2>4, <2>5, <2>6
<1>15. l = "contacts" => Len(list) + Cardinality(Busy(call', "adding", s, "contacts"))
                           <= MaxContacts + Cardinality(Calls) - 1
  <2>. HIDE DEF list
  <2>. QED  BY <1>2, <1>11, <1>13, ListIs
<1>16. /\ want \in SUBSET Sup!Entry /\ listCut' \in [Firms -> [Sup!Lists -> BOOLEAN]]
       /\ \A o \in Firms, k \in Sup!Lists : o # s \/ k # l =>
            Busy(call', "holed", o, k) = Busy(call, "holed", o, k) /\ listCut'[o][k] = listCut[o][k]
       /\ ~astray'[s][l] => Good(list, want)
       /\ ~astray'[s][l] => \A d \in Calls : call'[d].stage \in {"adding", "replacing"} => Without(list, call[d].entry)
       /\ HoleFree(list) \/ Busy(call', "holed", s, l) # {} \/ listCut'[s][l] \/ astray'[s][l]
  <2>. HIDE DEF list
  <2>. QED  BY <1>3, <1>7, <1>11, <1>12, <1>14
<1>17. Sup!Put(s, l, list) /\ wanted' = [wanted EXCEPT ![s][l] = want] /\ firm[s].status # "none"
  BY <1>3, <1>6 DEF s, l, at, seen
<1>. HIDE DEF list, want
<1>18. /\ s \in Firms /\ l \in Sup!Lists /\ list \in Slots /\ call' \in [Calls -> CallStates]
       /\ astray' \in [Firms -> [Sup!Lists -> BOOLEAN]]
       /\ \A o \in Firms, k \in Sup!Lists : astray[o][k] => astray'[o][k]
  BY <1>2, <1>5, <1>8, <1>13
<1>. QED  BY <1>10, <1>15, <1>16, <1>17, <1>18, ListWritten

LEMMA StepPull ==
    ASSUME ListsInv, NEW c \in Calls, Sup!Pull(c)
    PROVE  ListsInv'
<1>. DEFINE s == call[c].firm
            l == call[c].list
            list == Sup!Packed(firm[s][l])
            want == wanted[s][l]
<1>1. ListsTyped /\ call[c].stage = "holed" /\ call[c] \in Removing
  BY CallStateIs DEF ListsInv, ListsTyped, Sup!Pull, Sup!Pending
<1>2. s \in Firms /\ l \in Sup!Lists
  BY <1>1 DEF Removing
<1>3. /\ Sup!Put(s, l, list) /\ wanted' = wanted /\ listCut' = [listCut EXCEPT ![s][l] = FALSE]
      /\ call' = [call EXCEPT ![c] = Sup!Idle] /\ astray' = astray
  BY DEF Sup!Pull, Sup!End
<1>4. /\ call' \in [Calls -> CallStates] /\ call'[c].stage = "idle"
      /\ \A d \in Calls : d # c => call'[d] = call[d]
  BY <1>1, <1>3 DEF ListsTyped, CallStates, Sup!Idle
<1>5. firm[s].status # "none"
  BY <1>1 DEF ListsInv, FirmsOK
<1>6. /\ \A o \in Firms, k \in Sup!Lists : o # s \/ k # l => Busy(call', "holed", o, k) = Busy(call, "holed", o, k)
      /\ Busy(call', "adding", s, "contacts") = Busy(call, "adding", s, "contacts")
  BY <1>1, <1>4 DEF Busy
<1>. HIDE DEF s, l
<1>7. listCut' \in [Firms -> [Sup!Lists -> BOOLEAN]] /\ astray' \in [Firms -> [Sup!Lists -> BOOLEAN]]
      /\ \A o \in Firms, k \in Sup!Lists : o # s \/ k # l => listCut'[o][k] = listCut[o][k]
  BY <1>1, <1>2, <1>3 DEF ListsTyped
<1>8. wanted' = [wanted EXCEPT ![s][l] = want]
  BY <1>1, <1>2, <1>3 DEF ListsTyped
<1>9. /\ firm[s][l] \in Slots /\ want \in SUBSET Sup!Entry /\ Len(firm[s][l]) \in Nat
      /\ ~astray[s][l] => Good(firm[s][l], want)
  BY <1>2, ListIs
<1>10. /\ list \in Slots /\ Len(list) <= Len(firm[s][l]) /\ HoleFree(list)
       /\ Good(firm[s][l], want) => Good(list, want)
       /\ \A d : Without(firm[s][l], d) => Without(list, d)
  <2>. HIDE DEF want
  <2>. QED  BY <1>9, PackedGood
<1>. HIDE DEF list
<1>11. ~astray'[s][l] => \A d \in Calls : call'[d].stage \in {"adding", "replacing"} => Without(list, call[d].entry)
  BY <1>2, <1>3, <1>4, <1>10 DEF ListsInv, AddingOK
<1>12. l = "contacts" => Len(list) + Cardinality(Busy(call', "adding", s, "contacts"))
                           <= MaxContacts + Cardinality(Calls) - 1
  <2>. SUFFICES ASSUME l = "contacts"
                PROVE  Len(list) + Cardinality(Busy(call, "adding", s, "contacts"))
                         <= MaxContacts + Cardinality(Calls) - 1
    BY <1>6
  <2>1. Len(firm[s][l]) + Cardinality(Busy(call, "adding", s, "contacts"))
          <= MaxContacts + Cardinality(Calls) - 1
    BY <1>2, ListIs
  <2>2. Busy(call, "adding", s, "contacts") \in SUBSET Calls
    BY DEF Busy
  <2>3. Cardinality(Busy(call, "adding", s, "contacts")) \in Nat /\ Cardinality(Calls) \in Nat
    BY <2>2, Sizes
  <2>4. MaxContacts \in Nat /\ Len(list) \in Nat
    BY <1>10, SlotsAre, RecordsAssumption DEF Sup!LimitsAssumption
  <2>. QED  BY <1>9, <1>10, <2>1, <2>3, <2>4
<1>13. /\ \A d \in Calls : call'[d].stage \in {"adding", "replacing"} => call'[d] = call[d]
       /\ \A d \in Calls : call'[d].stage \notin {"idle", "creating"} =>
                            call'[d].firm = call[d].firm /\ call[d].stage \notin {"idle", "creating"}
  BY <1>4
<1>14. /\ \A o \in Firms, k \in Sup!Lists : o # s \/ k # l =>
            Busy(call', "holed", o, k) = Busy(call, "holed", o, k) /\ listCut'[o][k] = listCut[o][k]
       /\ ~astray'[s][l] => Good(list, want)
       /\ \A o \in Firms, k \in Sup!Lists : astray[o][k] => astray'[o][k]
       /\ HoleFree(list) \/ Busy(call', "holed", s, l) # {} \/ listCut'[s][l] \/ astray'[s][l]
  <2>. HIDE DEF want
  <2>. QED  BY <1>3, <1>6, <1>7, <1>9, <1>10
<1>15. Sup!Put(s, l, list) /\ firm[s].status # "none"
  BY <1>3, <1>5 DEF s, l, list
<1>. HIDE DEF want
<1>. QED  BY <1>2, <1>4, <1>7, <1>8, <1>9, <1>10, <1>11, <1>12, <1>13, <1>14, <1>15, ListWritten

LEMMA StepReplace ==
    ASSUME ListsInv, NEW c \in Calls, Sup!Replace(c) \/ Sup!Empty(c)
    PROVE  ListsInv'
<1>. DEFINE s == call[c].firm
            l == "contacts"
<1>1. /\ ListsTyped /\ l \in Sup!Lists /\ call[c] \in CallStates
      /\ call[c].stage = IF Sup!Replace(c) THEN "replacing" ELSE "emptying"
  BY DEF ListsInv, ListsTyped, Sup!Lists, Sup!Replace, Sup!Empty, Sup!Pending
<1>2. s \in Firms /\ firm[s].status # "none" /\ (Sup!Replace(c) => call[c].entry \in Entries)
  BY <1>1, CallStateIs DEF ListsInv, FirmsOK, Adding
<1>. HIDE DEF s
<1>3. PICK list : /\ Sup!Overwrite(c, list)
                  /\ \/ list = <<>>
                     \/ Sup!Replace(c) /\ list = <<Sup!Fresh(call[c].entry)>>
  BY DEF Sup!Replace, Sup!Empty
<1>. DEFINE want == {list[i] : i \in DOMAIN list}
<1>4. /\ Sup!Put(s, l, list) /\ wanted' = [wanted EXCEPT ![s][l] = want]
      /\ call' = [call EXCEPT ![c] = Sup!Idle] /\ UNCHANGED <<astray, listCut>>
  BY <1>3 DEF Sup!Overwrite, Sup!End, s
<1>5. /\ call' \in [Calls -> CallStates] /\ call'[c].stage = "idle"
      /\ \A d \in Calls : d # c => call'[d] = call[d]
  BY <1>1, <1>4 DEF ListsTyped, CallStates, Sup!Idle
<1>6. /\ list \in Slots /\ want \in SUBSET Sup!Entry /\ Len(list) <= 1 /\ Len(list) \in Nat
      /\ Good(list, want) /\ HoleFree(list)
      /\ \A i \in DOMAIN list : Sup!Replace(c) /\ list[i].of = call[c].entry
  <2>1. CASE list = <<>>
    <3>1. list \in Slots /\ Len(list) = 0 /\ DOMAIN list = {}
      BY <2>1 DEF Slots
    <3>2. want = {}
      BY <3>1
    <3>. HIDE DEF want
    <3>. QED  BY <3>1, <3>2 DEF Good, HoleFree
  <2>2. CASE Sup!Replace(c) /\ list = <<Sup!Fresh(call[c].entry)>>
    <3>1. PICK x : x = Sup!Fresh(call[c].entry)
      OBVIOUS
    <3>2. x \in Sup!Entry /\ x # Sup!Hole /\ x.of = call[c].entry
      BY <1>2, <2>2, <3>1, Shapes
    <3>3. list \in Slots /\ Len(list) = 1 /\ DOMAIN list = {1} /\ list[1] = x
      BY <2>2, <3>1, <3>2 DEF Slots
    <3>4. want = {x}
      BY <3>3
    <3>. HIDE DEF want
    <3>. QED  BY <2>2, <3>2, <3>3, <3>4 DEF Good, HoleFree
  <2>. QED  BY <1>3, <2>1, <2>2
<1>. HIDE DEF want
<1>7. \A d \in Calls : call'[d].stage \in {"adding", "replacing"} => Without(list, call[d].entry)
  <2>. SUFFICES ASSUME NEW d \in Calls, call'[d].stage \in {"adding", "replacing"},
                       NEW i \in DOMAIN list
                PROVE  list[i].of # call[d].entry
    BY DEF Without
  <2>1. d # c /\ call'[d] = call[d] /\ Sup!Replace(c) /\ list[i].of = call[c].entry
    BY <1>5, <1>6
  <2>2. call[c].stage = "replacing" /\ call[d].stage \in {"adding", "replacing"}
    BY <1>1, <2>1
  <2>. QED  BY <2>1, <2>2 DEF ListsInv, AddingOK
<1>8. Busy(call', "adding", s, "contacts") = Busy(call, "adding", s, "contacts")
      /\ \A o \in Firms, k \in Sup!Lists : Busy(call', "holed", o, k) = Busy(call, "holed", o, k)
  <2>1. call[c].stage \notin {"adding", "holed"}
    BY <1>1
  <2>. QED  BY <1>5, <2>1 DEF Busy
<1>9. Len(list) + Cardinality(Busy(call, "adding", s, "contacts")) <= MaxContacts + Cardinality(Calls) - 1
  <2>1. Busy(call, "adding", s, "contacts") \in SUBSET Calls
    BY DEF Busy
  <2>2. /\ Cardinality(Busy(call, "adding", s, "contacts")) <= Cardinality(Calls)
        /\ Cardinality(Busy(call, "adding", s, "contacts")) \in Nat /\ Cardinality(Calls) \in Nat
    BY <2>1, Sizes
  <2>3. MaxContacts \in Nat /\ MaxContacts >= 2
    BY RecordsAssumption, SupSizes DEF Sup!LimitsAssumption
  <2>. QED  BY <1>6, <2>2, <2>3
<1>10. /\ astray' \in [Firms -> [Sup!Lists -> BOOLEAN]] /\ listCut' \in [Firms -> [Sup!Lists -> BOOLEAN]]
       /\ \A o \in Firms, k \in Sup!Lists : astray[o][k] => astray'[o][k]
       /\ \A o \in Firms, k \in Sup!Lists : o # s \/ k # l =>
            Busy(call', "holed", o, k) = Busy(call, "holed", o, k) /\ listCut'[o][k] = listCut[o][k]
  BY <1>1, <1>4, <1>8 DEF ListsTyped
<1>11. /\ \A d \in Calls : call'[d].stage \in {"adding", "replacing"} => call'[d] = call[d]
       /\ \A d \in Calls : call'[d].stage \notin {"idle", "creating"} =>
                             call'[d].firm = call[d].firm /\ call[d].stage \notin {"idle", "creating"}
  BY <1>5
<1>12. /\ ~astray'[s][l] => Good(list, want)
       /\ ~astray'[s][l] =>
            \A d \in Calls : call'[d].stage \in {"adding", "replacing"} => Without(list, call[d].entry)
       /\ HoleFree(list) \/ Busy(call', "holed", s, l) # {} \/ listCut'[s][l] \/ astray'[s][l]
       /\ l = "contacts" => Len(list) + Cardinality(Busy(call', "adding", s, "contacts"))
                              <= MaxContacts + Cardinality(Calls) - 1
  BY <1>6, <1>7, <1>8, <1>9
<1>13. list \in Slots /\ want \in SUBSET Sup!Entry
  BY <1>6
<1>14. /\ s \in Firms /\ l \in Sup!Lists /\ firm[s].status # "none"
       /\ Sup!Put(s, l, list) /\ wanted' = [wanted EXCEPT ![s][l] = want]
       /\ call' \in [Calls -> CallStates]
  BY <1>1, <1>2, <1>4, <1>5
<1>. HIDE DEF l
<1>. QED  BY <1>10, <1>11, <1>12, <1>13, <1>14, ListWritten

LEMMA StepBegin ==
    ASSUME ListsInv, NEW c \in Calls, NEW s \in Firms,
           \/ \E t \in TaxIds \cup {Sup!NoTax} : Sup!BeginCreate(c, s, t) \/ Sup!BeginRetax(c, s, t)
           \/ Sup!BeginArchive(c, s) \/ Sup!BeginEmpty(c, s)
           \/ \E l \in Sup!Lists, e \in Entries : Sup!BeginAdd(c, s, l, e)
           \/ \E e \in Entries : Sup!BeginReplace(c, s, e)
           \/ \E i \in 1..MaxContacts, f \in Fields : Sup!BeginEdit(c, s, i, f)
           \/ \E l \in Sup!Lists : \E i \in DOMAIN firm[s][l] : Sup!BeginRemove(c, s, l, i)
    PROVE  ListsInv'
<1>1. ASSUME NEW t \in TaxIds \cup {Sup!NoTax}, Sup!BeginCreate(c, s, t) PROVE ListsInv'
  <2>. DEFINE r == [stage |-> "creating", firm |-> s, list |-> "none", taxId |-> t]
  <2>1. r \in CallStates /\ r.stage = "creating"
    BY DEF CallStates, Creating
  <2>2. Sup!Begin(c, r) /\ UNCHANGED <<firm, wanted, astray, listCut>>
    BY <1>1 DEF Sup!BeginCreate, Sup!history
  <2>. HIDE DEF r
  <2>. QED  BY <2>1, <2>2, CallBegins
<1>2. ASSUME NEW t \in TaxIds \cup {Sup!NoTax}, Sup!BeginRetax(c, s, t) PROVE ListsInv'
  <2>. DEFINE r == [stage |-> "retaxing", firm |-> s, list |-> "none", taxId |-> t]
  <2>1. r \in CallStates /\ r.stage = "retaxing" /\ r.firm = s
    BY DEF CallStates, Creating
  <2>2. Sup!Begin(c, r) /\ UNCHANGED <<firm, wanted, astray, listCut>> /\ firm[s].status # "none"
    BY <1>2 DEF Sup!BeginRetax, Sup!history, Sup!Visible
  <2>. HIDE DEF r
  <2>. QED  BY <2>1, <2>2, CallBegins
<1>3. ASSUME Sup!BeginArchive(c, s) \/ Sup!BeginEmpty(c, s) PROVE ListsInv'
  <2>1. PICK r \in {[stage |-> "archiving", firm |-> s, list |-> "none"],
                    [stage |-> "emptying", firm |-> s, list |-> "none"]} : Sup!Begin(c, r)
    BY <1>3 DEF Sup!BeginArchive, Sup!BeginEmpty
  <2>2. r \in CallStates /\ r.stage \in {"archiving", "emptying"} /\ r.firm = s
    BY DEF CallStates, Archiving
  <2>3. UNCHANGED <<firm, wanted, astray, listCut>> /\ firm[s].status # "none"
    BY <1>3 DEF Sup!BeginArchive, Sup!BeginEmpty, Sup!history, Sup!Visible
  <2>. QED  BY <2>1, <2>2, <2>3, CallBegins
<1>0. ASSUME NEW e \in Entries, Sup!New(e)
      PROVE  /\ \A d \in Calls : call[d].stage \in {"adding", "replacing"} => call[d].entry # e
             /\ \A o \in Firms, k \in Sup!Lists : Without(firm[o][k], e)
  <2>1. \A d \in Calls : call[d].stage \in {"adding", "replacing"} => call[d].entry # e
    BY <1>0 DEF Sup!New, Sup!Pending
  <2>2. \A o \in Firms, k \in Sup!Lists : Without(firm[o][k], e)
    <3>. SUFFICES ASSUME NEW o \in Firms, NEW k \in Sup!Lists, NEW i \in DOMAIN firm[o][k]
                  PROVE  firm[o][k][i].of # e
      BY DEF Without
    <3>1. CASE firm[o][k][i] = Sup!Hole
      BY <3>1, Shapes
    <3>2. CASE firm[o][k][i] # Sup!Hole
      BY <1>0, <3>2 DEF Sup!New, Sup!Held
    <3>. QED  BY <3>1, <3>2
  <2>. QED  BY <2>1, <2>2
<1>4. ASSUME NEW l \in Sup!Lists, NEW e \in Entries, Sup!BeginAdd(c, s, l, e) PROVE ListsInv'
  <2>. DEFINE r == [stage |-> "adding", firm |-> s, list |-> l, entry |-> e]
  <2>1. r \in CallStates /\ r.stage = "adding" /\ r.firm = s /\ r.list = l /\ r.entry = e
    BY DEF CallStates, Adding
  <2>2. Sup!Begin(c, r) /\ UNCHANGED <<firm, wanted, astray, listCut>> /\ firm[s].status # "none"
        /\ Sup!HasRoom(s, l) /\ Sup!New(e)
    BY <1>4 DEF Sup!BeginAdd, Sup!history, Sup!Visible
  <2>3. l = "contacts" => Len(firm[s].contacts) < MaxContacts
    <3>1. firm[s].contacts = firm[s]["contacts"]
      BY <1>4, ListIs
    <3>. QED  BY <2>2, <3>1 DEF Sup!HasRoom
  <2>. HIDE DEF r
  <2>. QED  BY <1>0, <2>1, <2>2, <2>3, CallBegins
<1>7. ASSUME NEW e \in Entries, Sup!BeginReplace(c, s, e) PROVE ListsInv'
  <2>. DEFINE r == [stage |-> "replacing", firm |-> s, list |-> "contacts", entry |-> e]
  <2>1. r \in CallStates /\ r.stage = "replacing" /\ r.firm = s /\ r.entry = e
    BY DEF CallStates, Adding, Sup!Lists
  <2>2. Sup!Begin(c, r) /\ UNCHANGED <<firm, wanted, astray, listCut>> /\ firm[s].status # "none" /\ Sup!New(e)
    BY <1>7 DEF Sup!BeginReplace, Sup!history, Sup!Visible
  <2>. HIDE DEF r
  <2>. QED  BY <1>0, <2>1, <2>2, CallBegins
<1>5. ASSUME NEW i \in 1..MaxContacts, NEW f \in Fields, Sup!BeginEdit(c, s, i, f) PROVE ListsInv'
  <2>. DEFINE r == [stage |-> "editing", firm |-> s, list |-> "contacts", at |-> i,
                    seen |-> firm[s].contacts[i], field |-> f]
  <2>0. "contacts" \in Sup!Lists
    BY DEF Sup!Lists
  <2>1. firm[s].contacts[i] \in Sup!Entry
    <3>1. i \in DOMAIN firm[s]["contacts"] /\ firm[s]["contacts"][i] # Sup!Hole
      BY <1>5 DEF Sup!BeginEdit, Sup!Positions, Sup!Holes
    <3>. QED  BY <2>0, <3>1, ListIs
  <2>2. r \in CallStates /\ r.stage = "editing" /\ r.firm = s
    BY <2>1 DEF CallStates, Editing
  <2>3. Sup!Begin(c, r) /\ UNCHANGED <<firm, wanted, astray, listCut>> /\ firm[s].status # "none"
    BY <1>5 DEF Sup!BeginEdit, Sup!history, Sup!Visible
  <2>. HIDE DEF r
  <2>. QED  BY <2>2, <2>3, CallBegins
<1>6. ASSUME NEW l \in Sup!Lists, NEW i \in DOMAIN firm[s][l], Sup!BeginRemove(c, s, l, i) PROVE ListsInv'
  <2>. DEFINE r == [stage |-> "removing", firm |-> s, list |-> l, at |-> i, seen |-> firm[s][l][i]]
  <2>1. firm[s][l][i] \in Sup!Entry /\ i \in Nat \ {0}
    <3>1. firm[s][l][i] # Sup!Hole
      BY <1>6 DEF Sup!BeginRemove, Sup!Positions, Sup!Holes
    <3>2. DOMAIN firm[s][l] = 1..Len(firm[s][l]) /\ Len(firm[s][l]) \in Nat
          /\ (firm[s][l][i] \in Sup!Entry \/ firm[s][l][i] = Sup!Hole)
      BY ListIs
    <3>. QED  BY <3>1, <3>2
  <2>2. r \in CallStates /\ r.stage = "removing" /\ r.firm = s
    BY <2>1 DEF CallStates, Removing
  <2>3. Sup!Begin(c, r) /\ UNCHANGED <<firm, wanted, astray, listCut>> /\ firm[s].status # "none"
    BY <1>6 DEF Sup!BeginRemove, Sup!history, Sup!Visible
  <2>. HIDE DEF r
  <2>. QED  BY <2>2, <2>3, CallBegins
<1>. QED  BY <1>1, <1>2, <1>3, <1>4, <1>5, <1>6, <1>7

LEMMA StepEnd ==
    ASSUME ListsInv, NEW c \in Calls, Sup!Create(c) \/ Sup!Retax(c) \/ Sup!Archive(c) \/ Sup!Die(c)
    PROVE  ListsInv'
<1>. DEFINE s == call[c].firm
            t == call[c].taxId
<1>1. ListsTyped /\ firm \in [Firms -> Sup!Firm] /\ listCut \in [Firms -> [Sup!Lists -> BOOLEAN]]
      /\ call[c] \in CallStates
  BY DEF ListsInv, ListsTyped
<1>2. /\ \A o \in Firms : firm[o].status = "none" => firm[o] = Sup!NoFirm
      /\ Sup!TaxIdHeldOnce
      /\ call[c].stage \in {"retaxing", "archiving"} => firm[s].status # "none"
  BY DEF ListsInv, FirmsOK
<1>3. CASE Sup!Create(c)
  <2>1. call[c].stage = "creating" /\ s \in Firms /\ t \in TaxIds \cup {Sup!NoTax} /\ Sup!End(c)
        /\ UNCHANGED <<wanted, astray, listCut>>
    BY <1>1, <1>3, CallStateIs DEF Sup!Create, Sup!Pending, Creating, Sup!history
  <2>5. PICK f : f = [Sup!NoFirm EXCEPT !.status = "live", !.taxId = t]
    OBVIOUS
  <2>2. f \in Sup!Firm /\ f.status = "live" /\ f.taxId = t /\ \A l \in Sup!Lists : f[l] = Sup!NoFirm[l]
    <3>1. PICK u \in TaxIds \cup {Sup!NoTax} : u = t
      BY <2>1
    <3>. HIDE DEF t
    <3>2. f = [Sup!NoFirm EXCEPT !.status = "live", !.taxId = u]
      BY <2>5, <3>1
    <3>3. f \in Sup!Firm /\ f.status = "live" /\ f.taxId = u /\ \A l \in Sup!Lists : f[l] = Sup!NoFirm[l]
      <4>1. PICK list : list = <<>>
        OBVIOUS
      <4>2. Sup!NoFirm = [status |-> "none", taxId |-> Sup!NoTax, contacts |-> list, documents |-> list]
        BY <4>1 DEF Sup!NoFirm
      <4>3. f = [status |-> "live", taxId |-> u, contacts |-> list, documents |-> list]
        BY <3>2, <4>2
      <4>4. list \in Slots
        BY <4>1 DEF Slots
      <4>. QED  BY <3>1, <4>2, <4>3, <4>4 DEF Sup!Firm, Slots, Sup!Lists
    <3>. QED  BY <3>1, <3>3
  <2>3. CASE firm[s].status = "none" /\ Sup!Free(t, s)
    <3>1. firm' = [firm EXCEPT ![s] = f]
      BY <1>3, <2>3, <2>5 DEF Sup!Create
    <3>2. firm[s] = Sup!NoFirm
      BY <1>2, <2>1, <2>3
    <3>. HIDE DEF s, t
    <3>3. /\ firm' \in [Firms -> Sup!Firm] /\ firm'[s] = f
          /\ \A o \in Firms : o # s => firm'[o] = firm[o]
      BY <1>1, <2>1, <2>2, <3>1
    <3>4. \A o \in Firms, l \in Sup!Lists : firm'[o][l] = firm[o][l]
      BY <2>2, <3>2, <3>3
    <3>5. Sup!TaxIdHeldOnce'
      BY <1>2, <2>2, <2>3, <3>3 DEF Sup!TaxIdHeldOnce, Sup!Free
    <3>6. /\ \A o \in Firms : firm'[o].status = "none" => firm'[o] = Sup!NoFirm
          /\ \A o \in Firms : firm[o].status # "none" => firm'[o].status # "none"
      BY <1>2, <2>2, <3>3
    <3>. QED  BY <1>1, <2>1, <3>3, <3>4, <3>5, <3>6, CallEnds
  <2>4. CASE ~(firm[s].status = "none" /\ Sup!Free(t, s))
    <3>1. firm' = firm
      BY <1>3, <2>4 DEF Sup!Create
    <3>2. Sup!TaxIdHeldOnce'
      BY <1>2, <3>1 DEF Sup!TaxIdHeldOnce
    <3>. QED  BY <1>1, <1>2, <2>1, <3>1, <3>2, CallEnds
  <2>. QED  BY <2>3, <2>4
<1>4. CASE Sup!Retax(c)
  <2>1. call[c].stage = "retaxing" /\ s \in Firms /\ t \in TaxIds \cup {Sup!NoTax} /\ Sup!End(c)
        /\ UNCHANGED <<wanted, astray, listCut>>
    BY <1>1, <1>4, CallStateIs DEF Sup!Retax, Sup!Pending, Creating, Sup!history
  <2>2. CASE Sup!Free(t, s)
    <3>. DEFINE f == [firm[s] EXCEPT !.taxId = t]
    <3>1. firm' = [firm EXCEPT ![s] = f]
      BY <1>4, <2>2 DEF Sup!Retax
    <3>2. firm[s] \in Sup!Firm
      BY <1>1, <2>1
    <3>3. f \in Sup!Firm /\ f.status = firm[s].status /\ f.taxId = t /\ \A l \in Sup!Lists : f[l] = firm[s][l]
      <4>. HIDE DEF s, t
      <4>. QED  BY <2>1, <3>2 DEF Sup!Firm, Sup!Lists
    <3>. HIDE DEF f, s, t
    <3>4. /\ firm' \in [Firms -> Sup!Firm] /\ firm'[s] = f
          /\ \A o \in Firms : o # s => firm'[o] = firm[o]
      BY <1>1, <2>1, <3>1, <3>3
    <3>5. Sup!TaxIdHeldOnce'
      BY <1>2, <2>2, <3>3, <3>4 DEF Sup!TaxIdHeldOnce, Sup!Free
    <3>6. firm[s].status # "none"
      BY <1>2, <2>1 DEF s
    <3>7. /\ \A o \in Firms : firm'[o].status = "none" => firm'[o] = Sup!NoFirm
          /\ \A o \in Firms : firm[o].status # "none" => firm'[o].status # "none"
          /\ \A o \in Firms, l \in Sup!Lists : firm'[o][l] = firm[o][l]
      BY <1>2, <3>3, <3>4, <3>6
    <3>. QED  BY <1>1, <2>1, <3>4, <3>5, <3>7, CallEnds
  <2>3. CASE ~Sup!Free(t, s)
    <3>1. firm' = firm
      BY <1>4, <2>3 DEF Sup!Retax
    <3>2. Sup!TaxIdHeldOnce'
      BY <1>2, <3>1 DEF Sup!TaxIdHeldOnce
    <3>. QED  BY <1>1, <1>2, <2>1, <3>1, <3>2, CallEnds
  <2>. QED  BY <2>2, <2>3
<1>5. CASE Sup!Archive(c)
  <2>1. call[c].stage = "archiving" /\ s \in Firms /\ Sup!End(c) /\ UNCHANGED <<wanted, astray, listCut>>
    BY <1>1, <1>5, CallStateIs DEF Sup!Archive, Sup!Pending, Sup!history
  <2>. DEFINE f == [firm[s] EXCEPT !.status = "archived"]
  <2>2. firm' = [firm EXCEPT ![s] = f]
    BY <1>5 DEF Sup!Archive
  <2>3. firm[s] \in Sup!Firm
    BY <1>1, <2>1
  <2>4. f \in Sup!Firm /\ f.status = "archived" /\ f.taxId = firm[s].taxId /\ \A l \in Sup!Lists : f[l] = firm[s][l]
    <3>. HIDE DEF s
    <3>. QED  BY <2>3 DEF Sup!Firm, Sup!Lists
  <2>. HIDE DEF f, s
  <2>5. /\ firm' \in [Firms -> Sup!Firm] /\ firm'[s] = f
        /\ \A o \in Firms : o # s => firm'[o] = firm[o]
    BY <1>1, <2>1, <2>2, <2>4
  <2>6. Sup!TaxIdHeldOnce'
    BY <1>2, <2>4, <2>5 DEF Sup!TaxIdHeldOnce
  <2>7. /\ \A o \in Firms : firm'[o].status = "none" => firm'[o] = Sup!NoFirm
        /\ \A o \in Firms : firm[o].status # "none" => firm'[o].status # "none"
        /\ \A o \in Firms, l \in Sup!Lists : firm'[o][l] = firm[o][l]
    BY <1>2, <2>4, <2>5
  <2>. QED  BY <1>1, <2>1, <2>5, <2>6, <2>7, CallEnds
<1>6. CASE Sup!Die(c)
  <2>1. Sup!End(c) /\ UNCHANGED <<firm, wanted, astray>>
        /\ listCut' = (IF Sup!Pending(c, "holed") THEN [listCut EXCEPT ![s][call[c].list] = TRUE] ELSE listCut)
    BY <1>6 DEF Sup!Die
  <2>2. call[c].stage = "holed" => s \in Firms /\ call[c].list \in Sup!Lists
    BY <1>1, CallStateIs DEF Removing
  <2>3. /\ listCut' \in [Firms -> [Sup!Lists -> BOOLEAN]]
        /\ \A o \in Firms, l \in Sup!Lists : listCut[o][l] => listCut'[o][l]
        /\ call[c].stage = "holed" => listCut'[call[c].firm][call[c].list]
    BY <1>1, <2>1, <2>2 DEF Sup!Pending
  <2>4. Sup!TaxIdHeldOnce'
    BY <1>2, <2>1 DEF Sup!TaxIdHeldOnce
  <2>. QED  BY <1>1, <1>2, <2>1, <2>3, <2>4, CallEnds
<1>. QED  BY <1>3, <1>4, <1>5, <1>6

LEMMA ListsNext ==
    ASSUME ListsInv, [Sup!Next]_(Sup!vars)
    PROVE  ListsInv'
<1>1. CASE \E c \in Calls, s \in Firms, t \in TaxIds \cup {Sup!NoTax} :
             Sup!BeginCreate(c, s, t) \/ Sup!BeginRetax(c, s, t)
  BY <1>1, StepBegin
<1>2. CASE \E c \in Calls, s \in Firms : Sup!BeginArchive(c, s) \/ Sup!BeginEmpty(c, s)
  BY <1>2, StepBegin
<1>3. CASE \E c \in Calls, s \in Firms, l \in Sup!Lists, e \in Entries : Sup!BeginAdd(c, s, l, e)
  BY <1>3, StepBegin
<1>4. CASE \E c \in Calls, s \in Firms, i \in 1..MaxContacts, f \in Fields : Sup!BeginEdit(c, s, i, f)
  BY <1>4, StepBegin
<1>5. CASE \E c \in Calls, s \in Firms, l \in Sup!Lists :
             \E i \in DOMAIN firm[s][l] : Sup!BeginRemove(c, s, l, i)
  BY <1>5, StepBegin
<1>6. CASE \E c \in Calls : Sup!Create(c) \/ Sup!Retax(c) \/ Sup!Archive(c) \/ Sup!Die(c)
  BY <1>6, StepEnd
<1>7. CASE \E c \in Calls : Sup!Add(c) \/ Sup!Edit(c) \/ Sup!Unset(c) \/ Sup!Pull(c)
  BY <1>7, StepAdd, StepEdit, StepUnset, StepPull
<1>8. CASE \E c \in Calls : Sup!Replace(c) \/ Sup!Empty(c)
  BY <1>8, StepReplace
<1>9. CASE \E c \in Calls, s \in Firms, e \in Entries : Sup!BeginReplace(c, s, e)
  BY <1>9, StepBegin
<1>10. CASE UNCHANGED Sup!vars
  <2>1. UNCHANGED <<firm, call, wanted, astray, listCut>>
    BY <1>10 DEF Sup!vars
  <2>2. UNCHANGED <<ListsTyped, FirmsOK, Sup!TaxIdHeldOnce, GoodOK, AddingOK>>
    BY <2>1 DEF ListsTyped, FirmsOK, Sup!TaxIdHeldOnce, GoodOK, AddingOK
  <2>3. UNCHANGED <<Sup!LimitNearlyHeld, Sup!HolesEnd>>
    BY <2>1 DEF Sup!LimitNearlyHeld, Sup!HolesEnd, Sup!At, Sup!Holes
  <2>. QED  BY <2>2, <2>3 DEF ListsInv
<1>. QED
  BY <1>1, <1>2, <1>3, <1>4, <1>5, <1>6, <1>7, <1>8, <1>9, <1>10 DEF Sup!Next

(* An entry is counted once, for no two positions hold the same.           *)
LEMMA ListsInvKeeps == ListsInv => Sup!TaxIdHeldOnce /\ Sup!ListsKept /\ Sup!LimitNearlyHeld /\ Sup!HolesEnd
<1>. SUFFICES ASSUME ListsInv PROVE Sup!ListsKept
  BY DEF ListsInv
<1>. SUFFICES ASSUME NEW s \in Firms, NEW l \in Sup!Lists, ~astray[s][l]
              PROVE  /\ Sup!Held(s, l) = wanted[s][l]
                     /\ Cardinality(Sup!Held(s, l)) = Len(firm[s][l]) - Cardinality(Sup!Holes(s, l))
  BY SupSizes DEF Sup!ListsKept
<1>1. PICK list \in Slots : list = firm[s][l]
  BY ListIs
<1>. DEFINE kept == {i \in DOMAIN list : list[i] # Sup!Hole}
            held == {list[i] : i \in kept}
            holes == {i \in DOMAIN list : list[i] = Sup!Hole}
<1>2. Good(list, wanted[s][l]) /\ wanted[s][l] \in SUBSET Sup!Entry
  BY <1>1, ListIs
<1>3. Sup!Held(s, l) = held /\ Sup!Holes(s, l) = holes
  BY <1>1 DEF Sup!Held, Sup!Holes
<1>4. held = wanted[s][l]
  BY <1>2, Shapes DEF Good
<1>5. IsFiniteSet(DOMAIN list) /\ Cardinality(DOMAIN list) = Len(list) /\ Len(list) \in Nat
  <2>1. Len(list) \in Nat /\ DOMAIN list = 1..Len(list)
    BY SlotsAre
  <2>2. IsFiniteSet(1..Len(list)) /\ Cardinality(1..Len(list)) = IF 1 > Len(list) THEN 0 ELSE Len(list) - 1 + 1
    BY <2>1, FS_Interval
  <2>. QED  BY <2>1, <2>2
<1>6. IsFiniteSet(kept) /\ IsFiniteSet(holes)
  BY <1>5, FS_Subset
<1>7. Cardinality(kept) = Len(list) - Cardinality(holes)
  <2>1. kept \cup holes = DOMAIN list /\ kept \cap holes = {}
    OBVIOUS
  <2>. HIDE DEF kept, holes
  <2>2. Cardinality(kept \cup holes) = Cardinality(kept) + Cardinality(holes) - Cardinality(kept \cap holes)
    BY <1>6, FS_Union
  <2>3. Cardinality(kept) \in Nat /\ Cardinality(holes) \in Nat /\ Cardinality({}) = 0
    BY <1>6, FS_CardinalityType, FS_EmptySet
  <2>4. Cardinality(kept \cup holes) = Len(list) /\ Cardinality(kept \cap holes) = 0
    BY <1>5, <2>1, <2>3
  <2>. QED  BY <1>5, <2>2, <2>3, <2>4
<1>8. Cardinality(held) = Cardinality(kept)
  <2>. DEFINE at == [i \in kept |-> list[i]]
  <2>1. at \in [kept -> held]
    OBVIOUS
  <2>2. \A i, j \in kept : at[i] = at[j] => i = j
    BY <1>2 DEF Good
  <2>3. \A x \in held : \E i \in kept : at[i] = x
    OBVIOUS
  <2>. HIDE DEF at, kept, held
  <2>4. at \in Bijection(kept, held)
    BY <2>1, <2>2, <2>3 DEF Bijection, Injection, Surjection, IsInjective
  <2>. QED  BY <1>6, <2>4, FS_Bijection DEF ExistsBijection
<1>. HIDE DEF kept, held, holes
<1>. QED  BY <1>1, <1>3, <1>4, <1>7, <1>8

-----------------------------------------------------------------------------
(***************************************************************************)
(* The notices of an order. Who is to be told of an event is told, is left *)
(* in the one call that tells of it, or is lost to a fault; nobody is told *)
(* twice; what a pass has still to show lies before its cursor.            *)
(***************************************************************************)
(* The sizes these modules speak of are sizes.                             *)
LEMMA NtcSizes ==
    /\ \A S : Ntc!IsFiniteSet(S) = IsFiniteSet(S)
    /\ \A S : Ntc!Cardinality(S) = Cardinality(S)
<1>1. \A S : Ntc!IsFiniteSet(S) = IsFiniteSet(S)
  BY DEF Ntc!IsFiniteSet, IsFiniteSet
<1>2. \A S : Ntc!Cardinality(S) = Cardinality(S)
  BY DEF Ntc!Cardinality, Cardinality
<1>. QED  BY <1>1, <1>2

(* The identifiers of a page are in ascending order.                       *)
LEMMA AscendingIs == \A ids : Ntc!Ascending(ids) = Ranked(ids)
BY DEF Ntc!Ascending, Ranked, Ntc!Cardinality, Cardinality, Ntc!IsFiniteSet, IsFiniteSet


LEMMA NoticesInit == Ntc!Init => NoticesInv
<1>. SUFFICES ASSUME Ntc!Init PROVE NoticesInv
  OBVIOUS
<1>1. IsFiniteSet({})
  BY FS_EmptySet
<1>2. DecisionsOK
  BY RecordsAssumption DEF Ntc!Init, DecisionsOK, Ntc!Round, Ntc!PagesAssumption
<1>. QED
  BY <1>1, <1>2 DEF Ntc!Init, NoticesInv, NoticesTyped, OrderStates, Ntc!NoPass, TellingOK, LeftOK, ToldOK,
              OnceOK, PassOK, Submitted

(* An event of the order stays one as the order moves on, with whom its    *)
(* decider had seen.                                                       *)
LEMMA PastKeeps ==
    ASSUME NoticesInv, NEW n \in {0, 1}, Ntc!Round' = Ntc!Round + n, NEW event \in Ntc!Events, Past(event),
           approval'.by \in Seq(Ntc!People), \A r \in 1..Ntc!Round : approval'.by[r] = approval.by[r],
           \A r \in 1..Ntc!Round : taken[r] # 0 => taken'[r] = taken[r]
    PROVE  Past(event)' /\ By(event)' = By(event) /\ By(event) \in Ntc!People
<1>1. Ntc!Round \in Nat /\ event[2] \in 1..Rounds /\ event[2] <= Ntc!Round /\ event[2] \in 1..Ntc!Round
  BY DEF NoticesInv, NoticesTyped, Ntc!Events, Past, Ntc!Round
<1>2. approval.by \in Seq(Ntc!People) /\ \A r \in 1..Ntc!Round : approval.by[r] \in Ntc!People
  BY DEF NoticesInv, NoticesTyped, Ntc!Round
<1>3. CASE event[1] = "submitted"
  BY <1>1, <1>2, <1>3 DEF Past, By
<1>4. CASE event[1] # "submitted"
  <2>1. taken[event[2]] # 0 /\ taken[event[2]] <= event[2] /\ taken[event[2]] \in Nat
    BY <1>1, <1>4 DEF NoticesInv, DecisionsOK, Past, NoticesTyped
  <2>2. taken[event[2]] \in 1..Ntc!Round /\ taken'[event[2]] = taken[event[2]]
    BY <1>1, <2>1
  <2>. QED  BY <1>1, <1>2, <1>4, <2>1, <2>2 DEF Past, By
<1>. QED  BY <1>3, <1>4

LEMMA EventsPast ==
    ASSUME NoticesInv
    PROVE  /\ \A d \in due : /\ d[2] \in Ntc!Events /\ Past(d[2]) /\ d[2][2] \in 1..Rounds /\ d[2][2] <= Ntc!Round
                             /\ d[2][1] # "submitted" => d[1] = By(d[2])
           /\ \A t \in telling : /\ t.event \in Ntc!Events /\ Past(t.event) /\ t.event[2] \in 1..Rounds
                                 /\ t.event[2] <= Ntc!Round /\ t.by = By(t.event)
BY DEF NoticesInv, NoticesTyped, TellingOK, Past, Tellings, Ntc!Events

LEMMA StepSubmit ==
    ASSUME NoticesInv, NEW p \in Ntc!People, Ntc!Submit(p)
    PROVE  NoticesInv'
<1>0. PICK e : e = <<"submitted", Ntc!Round + 1>>
  OBVIOUS
<1>. DEFINE t0 == [event |-> e, by |-> p, stage |-> "begun", left |-> {}]
<1>1. NoticesTyped /\ approval.by \in Seq(Ntc!People) /\ Ntc!Round \in Nat /\ Ntc!Round < Rounds /\ Rounds \in Nat
  BY RecordsAssumption DEF NoticesInv, NoticesTyped, Ntc!Round, Ntc!Submit, Ntc!PagesAssumption
<1>2. approval' = [state |-> "pending_approval", by |-> Append(approval.by, p)]
      /\ telling' = telling \cup {t0} /\ approval.state = "draft"
  BY <1>0 DEF Ntc!Submit, Ntc!Tell
<1>3. UNCHANGED <<deciding, taken, active, posting, inbox, mails, made, pass, due, lost, faults, focus>>
  BY DEF Ntc!Submit, Ntc!notices, Ntc!decisions
<1>4. e \in Ntc!Events /\ t0 \in Tellings
  <2>1. Ntc!Round + 1 \in 1..Rounds
    BY <1>1
  <2>2. e \in Ntc!Events
    BY <1>0, <2>1 DEF Ntc!Events
  <2>. QED  BY <2>2 DEF Tellings
<1>5. approval'.by = Append(approval.by, p) /\ Append(approval.by, p) \in Seq(Ntc!People)
      /\ Len(approval'.by) = Ntc!Round + 1 /\ Ntc!Round' = Ntc!Round + 1
  BY <1>1, <1>2 DEF Ntc!Round
<1>6. NoticesTyped'
  BY <1>1, <1>2, <1>3, <1>4, <1>5 DEF NoticesTyped, OrderStates
<1>7. DecisionsOK'
  <2>1. \A r \in 1..Rounds : /\ taken[r] \in Nat /\ taken[r] <= r
                             /\ r > Ntc!Round => taken[r] = 0
                             /\ r < Ntc!Round => taken[r] # 0
    BY <1>1 DEF NoticesInv, DecisionsOK, NoticesTyped
  <2>2. Ntc!Round \in 1..Rounds => taken[Ntc!Round] # 0
    BY <1>2 DEF NoticesInv, DecisionsOK
  <2>3. \A q \in Approvers : deciding[q] \in Nat /\ deciding[q] <= Ntc!Round
    BY <1>1 DEF NoticesInv, DecisionsOK, NoticesTyped
  <2>4. \A q \in Approvers : deciding[q] <= Ntc!Round + 1
    BY <1>1, <2>3
  <2>5. \A r \in 1..Rounds : /\ r > Ntc!Round + 1 => taken[r] = 0
                             /\ r < Ntc!Round + 1 => taken[r] # 0
    BY <1>1, <2>1, <2>2
  <2>6. taken[Ntc!Round + 1] = 0
    BY <1>1, <2>1
  <2>. QED  BY <1>2, <1>3, <1>5, <2>1, <2>4, <2>5, <2>6 DEF DecisionsOK
<1>8. \A event \in Ntc!Events : Past(event) => Past(event)' /\ By(event)' = By(event)
  <2>1. \A r \in 1..Ntc!Round : approval'.by[r] = approval.by[r]
    BY <1>1, <1>5 DEF Ntc!Round
  <2>. QED  BY <1>3, <1>5, <2>1, PastKeeps
<1>9. TellingOK'
  <2>1. \A d \in due : d[2][2] # Ntc!Round + 1 /\ d[2] # e
    <3>. SUFFICES ASSUME NEW d \in due PROVE d[2][2] # Ntc!Round + 1
      BY <1>0
    <3>. QED  BY <1>1, EventsPast
  <2>2. \A t \in telling : t.event[2] # Ntc!Round + 1 /\ t.event # e
    <3>. SUFFICES ASSUME NEW t \in telling PROVE t.event[2] # Ntc!Round + 1
      BY <1>0
    <3>. QED  BY <1>1, EventsPast
  <2>3. By(e)' = p /\ Past(e)'
    BY <1>0, <1>1, <1>5 DEF Ntc!Round, By, Past
  <2>4. t0.event = e /\ t0.by = p /\ t0.left = {}
    OBVIOUS
  <2>. HIDE DEF t0
  <2>5. \A t \in telling' : Past(t.event)' /\ t.by = By(t.event)'
    BY <1>2, <1>8, <2>3, <2>4, EventsPast
  <2>6. \A d \in due' : Past(d[2])' /\ (d[2][1] # "submitted" => d[1] = By(d[2])')
    BY <1>3, <1>8, EventsPast
  <2>7. \A t \in telling' : t.stage = "begun" => t.left = {} /\ \A d \in due' : d[2] # t.event
    BY <1>2, <1>3, <2>1, <2>4 DEF NoticesInv, TellingOK
  <2>8. \A t, u \in telling' : t.event = u.event => t = u
    BY <1>2, <2>2, <2>4 DEF NoticesInv, TellingOK
  <2>. QED  BY <2>5, <2>6, <2>7, <2>8 DEF TellingOK
<1>10. LeftOK'
  <2>1. t0.left = {}
    OBVIOUS
  <2>. HIDE DEF t0
  <2>. QED  BY <1>2, <1>3, <2>1 DEF NoticesInv, LeftOK
<1>11. ToldOK'
  <2>. HIDE DEF t0
  <2>. QED  BY <1>2, <1>3 DEF NoticesInv, ToldOK
<1>12. OnceOK' /\ PassOK'
  BY <1>3 DEF NoticesInv, OnceOK, PassOK
<1>13. Submitted'
  BY <1>1, <1>2, <1>5 DEF Submitted
<1>. QED  BY <1>6, <1>7, <1>9, <1>10, <1>11, <1>12, <1>13 DEF NoticesInv

(* A decision that is written: it falls on the last submission.            *)
LEMMA StepDecideWritten ==
    ASSUME NoticesInv, NEW p \in Approvers, NEW decision \in {"approved", "rejected"},
           Ntc!Decide(p, decision), approval.state = "pending_approval"
    PROVE  NoticesInv'
<1>0. PICK e : e = <<decision, Ntc!Round>>
  OBVIOUS
<1>. DEFINE t0 == [event |-> e, by |-> approval.by[deciding[p]], stage |-> "begun", left |-> {}]
<1>1. NoticesTyped /\ approval.by \in Seq(Ntc!People) /\ Ntc!Round \in 1..Rounds /\ Rounds \in Nat
  BY RecordsAssumption DEF NoticesInv, NoticesTyped, Ntc!Round, Submitted, Ntc!PagesAssumption
<1>2. /\ approval' = [approval EXCEPT !.state = decision] /\ telling' = telling \cup {t0}
      /\ taken' = [taken EXCEPT ![Ntc!Round] = deciding[p]]
      /\ deciding' = [deciding EXCEPT ![p] = 0] /\ deciding[p] # 0
  BY <1>0 DEF Ntc!Decide, Ntc!Tell
<1>3. UNCHANGED <<active, posting, inbox, mails, made, pass, due, lost, faults, focus>>
  BY DEF Ntc!Decide, Ntc!notices
<1>4. approval'.by = approval.by /\ approval'.state = decision /\ Ntc!Round' = Ntc!Round
      /\ approval' \in [state : OrderStates, by : Seq(Ntc!People)]
  BY <1>1, <1>2 DEF NoticesTyped, Ntc!Round, OrderStates
<1>5. deciding[p] \in 1..Ntc!Round /\ taken[Ntc!Round] = 0
  BY <1>1, <1>2 DEF NoticesInv, DecisionsOK, NoticesTyped
<1>6. approval.by[deciding[p]] \in Ntc!People
  BY <1>1, <1>5 DEF Ntc!Round
<1>7. e \in Ntc!Events /\ t0 \in Tellings
  BY <1>0, <1>1, <1>6 DEF Ntc!Events, Tellings
<1>8. NoticesTyped'
  BY <1>1, <1>2, <1>3, <1>4, <1>5, <1>7 DEF NoticesTyped
<1>9. \A r \in 1..Rounds : taken'[r] = IF r = Ntc!Round THEN deciding[p] ELSE taken[r]
  BY <1>1, <1>2 DEF NoticesTyped
<1>10. DecisionsOK'
  <2>1. \A q \in Approvers : deciding'[q] <= Ntc!Round
    BY <1>1, <1>2 DEF NoticesInv, DecisionsOK, NoticesTyped
  <2>2. \A r \in 1..Rounds : /\ taken[r] \in Nat /\ taken[r] <= r
                             /\ r > Ntc!Round => taken[r] = 0
                             /\ r < Ntc!Round => taken[r] # 0
    BY <1>1 DEF NoticesInv, DecisionsOK, NoticesTyped
  <2>3. \A r \in 1..Rounds : /\ taken'[r] <= r
                             /\ r > Ntc!Round => taken'[r] = 0
                             /\ r < Ntc!Round => taken'[r] # 0
    BY <1>1, <1>5, <1>9, <2>2
  <2>4. taken'[Ntc!Round] # 0 /\ decision # "pending_approval"
    BY <1>1, <1>5, <1>9
  <2>. QED  BY <1>4, <2>1, <2>3, <2>4 DEF DecisionsOK
<1>11. \A event \in Ntc!Events : Past(event) => Past(event)' /\ By(event)' = By(event)
  <2>1. \A r \in 1..Ntc!Round : taken[r] # 0 => taken'[r] = taken[r]
    BY <1>1, <1>5, <1>9
  <2>2. Ntc!Round' = Ntc!Round + 0
    BY <1>1, <1>4
  <2>3. approval'.by \in Seq(Ntc!People) /\ \A r \in 1..Ntc!Round : approval'.by[r] = approval.by[r]
    BY <1>1, <1>4
  <2>. QED  BY <2>1, <2>2, <2>3, PastKeeps
<1>12. TellingOK'
  <2>1. e[1] # "submitted" /\ e[2] = Ntc!Round /\ t0.event = e /\ t0.by = approval.by[deciding[p]] /\ t0.left = {}
    BY <1>0
  <2>2. ~ Past(e)
    BY <1>5, <2>1 DEF Past
  <2>3. \A d \in due : d[2] # e
    BY <2>2, EventsPast
  <2>4. \A t \in telling : t.event # e
    BY <2>2, EventsPast
  <2>5. taken'[Ntc!Round] = deciding[p] /\ Ntc!Round <= Ntc!Round
    BY <1>1, <1>9
  <2>. HIDE DEF t0
  <2>6. By(e)' = approval.by[deciding[p]] /\ Past(e)'
    BY <1>4, <1>5, <2>1, <2>5 DEF By, Past
  <2>7. \A d \in due' : Past(d[2])' /\ (d[2][1] # "submitted" => d[1] = By(d[2])')
    BY <1>3, <1>11, EventsPast
  <2>8. \A t \in telling' : Past(t.event)' /\ t.by = By(t.event)'
    BY <1>2, <1>11, <2>1, <2>6, EventsPast
  <2>9. \A t \in telling' : t.stage = "begun" => t.left = {} /\ \A d \in due' : d[2] # t.event
    BY <1>2, <1>3, <2>1, <2>3 DEF NoticesInv, TellingOK
  <2>10. \A t, u \in telling' : t.event = u.event => t = u
    BY <1>2, <2>1, <2>4 DEF NoticesInv, TellingOK
  <2>. QED  BY <2>7, <2>8, <2>9, <2>10 DEF TellingOK
<1>13. LeftOK'
  <2>1. t0.left = {}
    OBVIOUS
  <2>. HIDE DEF t0
  <2>. QED  BY <1>2, <1>3, <2>1 DEF NoticesInv, LeftOK
<1>14. ToldOK'
  <2>. HIDE DEF t0
  <2>. QED  BY <1>2, <1>3 DEF NoticesInv, ToldOK
<1>15. OnceOK' /\ PassOK'
  BY <1>3 DEF NoticesInv, OnceOK, PassOK
<1>16. Submitted'
  BY <1>4 DEF Submitted
<1>. QED  BY <1>8, <1>10, <1>12, <1>13, <1>14, <1>15, <1>16 DEF NoticesInv

(* A decision that is read for, or loses; an edit; an account disabled.    *)
LEMMA StepOther ==
    ASSUME NoticesInv,
           \/ Ntc!Edit \/ \E p \in Ntc!People : Ntc!Disable(p)
           \/ \E p \in Approvers : Ntc!ReadToDecide(p)
           \/ /\ approval.state # "pending_approval"
              /\ \E p \in Approvers, decision \in {"approved", "rejected"} : Ntc!Decide(p, decision)
    PROVE  NoticesInv'
<1>1. UNCHANGED <<telling, posting, inbox, mails, made, pass, due, lost, taken>> /\ active' \subseteq active
  BY DEF Ntc!Edit, Ntc!Disable, Ntc!ReadToDecide, Ntc!Decide, Ntc!notices, Ntc!decisions
<1>2. approval'.by = approval.by /\ Ntc!Round' = Ntc!Round /\ approval' \in [state : OrderStates, by : Seq(Ntc!People)]
      /\ (approval'.state = approval.state \/ (approval'.state = "draft" /\ approval.state = "rejected"))
  BY DEF NoticesInv, NoticesTyped, Ntc!Edit, Ntc!Disable, Ntc!ReadToDecide, Ntc!Decide, Ntc!Round, OrderStates
<1>3. Ntc!Round \in Nat /\ deciding \in [Approvers -> Nat] /\ \A p \in Approvers : deciding[p] <= Ntc!Round
  BY DEF NoticesInv, NoticesTyped, Ntc!Round, DecisionsOK
<1>4. deciding' \in [Approvers -> Nat] /\ \A p \in Approvers : deciding'[p] <= Ntc!Round
  <2>1. \/ deciding' = deciding
        \/ \E p \in Approvers : \E n \in {0, Ntc!Round} : deciding' = [deciding EXCEPT ![p] = n]
    BY DEF Ntc!Edit, Ntc!Disable, Ntc!ReadToDecide, Ntc!Decide, Ntc!decisions
  <2>2. 0 <= Ntc!Round /\ Ntc!Round <= Ntc!Round
    BY <1>3
  <2>. QED  BY <1>3, <2>1, <2>2
<1>5. \A event : (Past(event) => Past(event)') /\ By(event)' = By(event)
  BY <1>1, <1>2 DEF Past, By
<1>6. NoticesTyped' /\ Submitted'
  BY <1>1, <1>2, <1>4 DEF NoticesInv, NoticesTyped, Submitted
<1>7. DecisionsOK'
  BY <1>1, <1>2, <1>4 DEF NoticesInv, DecisionsOK
<1>8. TellingOK'
  BY <1>1, <1>5 DEF NoticesInv, TellingOK
<1>9. LeftOK' /\ ToldOK' /\ OnceOK' /\ PassOK'
  BY <1>1 DEF NoticesInv, LeftOK, ToldOK, OnceOK, PassOK
<1>. QED  BY <1>6, <1>7, <1>8, <1>9 DEF NoticesInv

LEMMA StepReadRecipients ==
    ASSUME NoticesInv, NEW t \in telling, Ntc!ReadRecipients(t)
    PROVE  NoticesInv'
<1>. DEFINE left == Ntc!Recipients(t.event, t.by)
            u == [t EXCEPT !.stage = "telling", !.left = left]
<1>1. NoticesTyped /\ t \in Tellings /\ t.event \in Ntc!Events /\ t.by \in Ntc!People /\ t.stage = "begun"
  BY DEF NoticesInv, NoticesTyped, Tellings, Ntc!ReadRecipients
<1>2. telling' = (telling \ {t}) \cup {v \in {u} : v.left # {}}
      /\ due' = due \cup (Ntc!Concerned(t.event) \X {t.event})
  BY DEF Ntc!ReadRecipients
<1>3. UNCHANGED <<approval, deciding, taken, active, posting, inbox, mails, made, pass, lost>>
  BY DEF Ntc!ReadRecipients, Ntc!reader, Ntc!decisions
<1>4. t.by = By(t.event) /\ Past(t.event) /\ \A d \in due : d[2] # t.event
  BY <1>1 DEF NoticesInv, TellingOK
<1>5. left \subseteq Ntc!People
  BY <1>1 DEF Ntc!Recipients, Ntc!People
<1>6. Ntc!Concerned(t.event) = left
  BY <1>1, <1>4 DEF Ntc!Concerned, Ntc!Recipients, Ntc!People, By
<1>7. u \in Tellings /\ u.event = t.event /\ u.by = t.by /\ u.stage = "telling" /\ u.left = left
  <2>. HIDE DEF left
  <2>. QED  BY <1>1, <1>5 DEF Tellings
<1>. HIDE DEF u, left
<1>8. \A d \in due' : d \in due \/ (d = <<d[1], d[2]>> /\ d[1] \in left /\ d[2] = t.event)
  BY <1>2, <1>6
<1>9. \A v \in telling' : (v \in telling /\ v # t) \/ v = u
  BY <1>2
<1>10. NoticesTyped'
  <2>1. due' \subseteq Ntc!People \X Ntc!Events
    BY <1>1, <1>2, <1>5, <1>6 DEF NoticesTyped
  <2>2. telling' \subseteq Tellings
    BY <1>1, <1>7, <1>9 DEF NoticesTyped
  <2>. QED  BY <1>1, <1>3, <2>1, <2>2 DEF NoticesTyped
<1>11. TellingOK'
  <2>1. \A event : (Past(event) => Past(event)') /\ By(event)' = By(event)
    BY <1>3 DEF Past, By, Ntc!Round
  <2>2. \A v \in telling' : Past(v.event)' /\ v.by = By(v.event)'
    BY <1>3, <1>4, <1>7, <1>9, <2>1 DEF NoticesInv, TellingOK
  <2>7. t.event[1] # "submitted" => left = {t.by}
    BY DEF left, Ntc!Recipients
  <2>3. \A d \in due' : Past(d[2])' /\ (d[2][1] # "submitted" => d[1] = By(d[2])')
    BY <1>4, <1>8, <2>1, <2>7 DEF NoticesInv, TellingOK
  <2>4. \A v \in telling, w \in telling : v.event = w.event => v = w
    BY DEF NoticesInv, TellingOK
  <2>5. \A v \in telling' : v.stage = "begun" => v.left = {} /\ \A d \in due' : d[2] # v.event
    <3>. SUFFICES ASSUME NEW v \in telling', v.stage = "begun"
                  PROVE  v.left = {} /\ \A d \in due' : d[2] # v.event
      OBVIOUS
    <3>1. v \in telling /\ v # t
      BY <1>7, <1>9
    <3>2. v.left = {} /\ (\A d \in due : d[2] # v.event) /\ v.event # t.event
      BY <2>4, <3>1 DEF NoticesInv, TellingOK
    <3>. QED  BY <1>8, <3>2
  <2>6. \A v, w \in telling' : v.event = w.event => v = w
    BY <1>7, <1>9, <2>4
  <2>. QED  BY <2>2, <2>3, <2>5, <2>6 DEF TellingOK
<1>12. LeftOK'
  <2>. SUFFICES ASSUME NEW v \in telling', NEW p \in v.left
                PROVE  /\ <<p, v.event>> \in due'
                       /\ \A n \in posting : ~About(n, p, v.event)
                       /\ \A n \in inbox : ~About(n, p, v.event)
    BY <1>3 DEF LeftOK
  <2>1. CASE v \in telling
    BY <1>2, <2>1 DEF NoticesInv, LeftOK
  <2>2. CASE v = u
    <3>1. v.event = t.event /\ p \in left
      BY <1>7, <2>2
    <3>2. <<p, v.event>> \in due'
      BY <1>2, <1>6, <3>1
    <3>3. \A n \in posting : ~About(n, p, v.event)
      BY <1>4, <3>1 DEF NoticesInv, ToldOK, About
    <3>4. \A n \in inbox : ~About(n, p, v.event)
      BY <1>4, <3>1 DEF NoticesInv, ToldOK, About
    <3>. QED  BY <3>2, <3>3, <3>4
  <2>. QED  BY <1>9, <2>1, <2>2
<1>13. ToldOK'
  <2>1. \A d \in due' :
          \/ d \in lost
          \/ \E v \in telling' : v.event = d[2] /\ d[1] \in v.left
          \/ d \in mails /\ \E n \in posting : About(n, d[1], d[2])
          \/ d \in mails /\ \E n \in inbox : About(n, d[1], d[2])
    <3>. SUFFICES ASSUME NEW d \in due'
                  PROVE  \/ d \in lost
                         \/ \E v \in telling' : v.event = d[2] /\ d[1] \in v.left
                         \/ d \in mails /\ \E n \in posting : About(n, d[1], d[2])
                         \/ d \in mails /\ \E n \in inbox : About(n, d[1], d[2])
      OBVIOUS
    <3>1. CASE d \in due
      <4>1. t.left = {}
        BY <1>1 DEF NoticesInv, TellingOK
      <4>2. \A v \in telling : v # t => v \in telling'
        BY <1>2
      <4>. QED  BY <3>1, <4>1, <4>2 DEF NoticesInv, ToldOK
    <3>2. CASE d[1] \in left /\ d[2] = t.event
      <4>1. u \in telling'
        BY <1>2, <1>7, <3>2
      <4>. QED  BY <1>7, <3>2, <4>1
    <3>. QED  BY <1>8, <3>1, <3>2
  <2>2. due \subseteq due'
    BY <1>2
  <2>. QED  BY <1>3, <2>1, <2>2 DEF NoticesInv, ToldOK
<1>14. OnceOK' /\ PassOK' /\ Submitted' /\ DecisionsOK'
  BY <1>3 DEF NoticesInv, OnceOK, PassOK, Submitted, DecisionsOK, Ntc!Round
<1>. QED  BY <1>10, <1>11, <1>12, <1>13, <1>14 DEF NoticesInv

LEMMA StepTellOne ==
    ASSUME NoticesInv, NEW t \in telling, NEW p \in Ntc!People, NEW queued \in BOOLEAN,
           Ntc!TellOne(t, p, queued)
    PROVE  NoticesInv'
<1>. DEFINE n0 == [id |-> made + 1, user |-> p, event |-> t.event]
            u == [t EXCEPT !.left = @ \ {p}]
<1>1. NoticesTyped /\ t \in Tellings /\ t.event \in Ntc!Events /\ p \in t.left /\ t.left \subseteq Ntc!People
  BY DEF NoticesInv, NoticesTyped, Tellings, Ntc!TellOne
<1>2. posting' = posting \cup {n0} /\ made' = made + 1
  BY DEF Ntc!TellOne
<1>3. UNCHANGED <<approval, deciding, taken, active, inbox, pass, due>>
  BY DEF Ntc!TellOne, Ntc!reader, Ntc!decisions
<1>4. u \in Tellings /\ u.event = t.event /\ u.by = t.by /\ u.stage = t.stage /\ u.left = t.left \ {p}
  BY <1>1 DEF Tellings
<1>5. n0 \in Made /\ n0.user = p /\ n0.event = t.event
  BY <1>1 DEF NoticesTyped, Made
<1>6. \/ /\ queued /\ mails' = mails \cup {<<p, t.event>>} /\ lost' = lost
         /\ telling' = (telling \ {t}) \cup {v \in {u} : v.left # {}}
      \/ /\ ~queued /\ mails' = mails /\ lost' = lost \cup (t.left \X {t.event})
         /\ telling' = telling \ {t}
  BY DEF Ntc!TellOne
<1>7. /\ <<p, t.event>> \in due
      /\ \A n \in posting : ~About(n, p, t.event)
      /\ \A n \in inbox : ~About(n, p, t.event)
  BY <1>1 DEF NoticesInv, LeftOK
<1>. HIDE DEF n0, u
<1>8. \A v \in telling' : (v \in telling /\ v # t) \/ v = u
  BY <1>6
<1>9. mails' \subseteq mails \cup {<<p, t.event>>}
  BY <1>6
<1>10. NoticesTyped'
  <2>1. IsFiniteSet(posting')
    BY <1>1, <1>2, FS_AddElement DEF NoticesTyped
  <2>2. telling' \subseteq Tellings
    BY <1>1, <1>4, <1>8 DEF NoticesTyped
  <2>3. mails' \subseteq Ntc!People \X Ntc!Events
    BY <1>1, <1>9 DEF NoticesTyped
  <2>4. made + 1 \in Nat
    BY <1>1 DEF NoticesTyped
  <2>. QED  BY <1>1, <1>2, <1>3, <1>5, <2>1, <2>2, <2>3, <2>4 DEF NoticesTyped
<1>11. TellingOK'
  <2>1. \A event : (Past(event) => Past(event)') /\ By(event)' = By(event)
    BY <1>3 DEF Past, By, Ntc!Round
  <2>2. \A v \in telling' : Past(v.event)' /\ v.by = By(v.event)'
    BY <1>3, <1>4, <1>8, <2>1 DEF NoticesInv, TellingOK
  <2>3. \A d \in due' : Past(d[2])' /\ (d[2][1] # "submitted" => d[1] = By(d[2])')
    BY <1>3, <2>1 DEF NoticesInv, TellingOK
  <2>4. \A v \in telling, w \in telling : v.event = w.event => v = w
    BY DEF NoticesInv, TellingOK
  <2>5. t.stage # "begun"
    BY <1>1 DEF NoticesInv, TellingOK
  <2>6. \A v \in telling' : v.stage = "begun" => v.left = {} /\ \A d \in due' : d[2] # v.event
    BY <1>3, <1>4, <1>8, <2>5 DEF NoticesInv, TellingOK
  <2>7. \A v, w \in telling' : v.event = w.event => v = w
    BY <1>4, <1>8, <2>4
  <2>. QED  BY <2>2, <2>3, <2>6, <2>7 DEF TellingOK
<1>12. LeftOK'
  <2>. SUFFICES ASSUME NEW v \in telling', NEW q \in v.left
                PROVE  /\ <<q, v.event>> \in due
                       /\ \A n \in posting' : ~About(n, q, v.event)
                       /\ \A n \in inbox : ~About(n, q, v.event)
    BY <1>3 DEF LeftOK
  <2>1. PICK w \in telling : q \in w.left /\ v.event = w.event /\ (w = t => q # p)
    BY <1>4, <1>8
  <2>2. /\ <<q, v.event>> \in due
        /\ \A n \in posting : ~About(n, q, v.event)
        /\ \A n \in inbox : ~About(n, q, v.event)
    BY <2>1 DEF NoticesInv, LeftOK
  <2>3. w.event = t.event => w = t
    BY DEF NoticesInv, TellingOK
  <2>4. ~About(n0, q, v.event)
    BY <1>5, <2>1, <2>3 DEF About
  <2>. QED  BY <1>2, <2>2, <2>4
<1>13. ToldOK'
  <2>1. mails' \subseteq due
    BY <1>7, <1>9 DEF NoticesInv, ToldOK
  <2>2. \A n \in posting' : <<n.user, n.event>> \in due
    BY <1>2, <1>5, <1>7 DEF NoticesInv, ToldOK
  <2>3. ASSUME NEW d \in due
        PROVE  \/ d \in lost'
               \/ \E v \in telling' : v.event = d[2] /\ d[1] \in v.left
               \/ d \in mails' /\ \E n \in posting' : About(n, d[1], d[2])
               \/ d \in mails' /\ \E n \in inbox : About(n, d[1], d[2])
    <3>1. lost \subseteq lost' /\ mails \subseteq mails' /\ posting \subseteq posting'
          /\ \A v \in telling : v # t => v \in telling'
      BY <1>2, <1>6
    <3>2. d = <<d[1], d[2]>>
      BY <1>1 DEF NoticesTyped
    <3>3. CASE d[2] = t.event /\ d[1] \in t.left /\ ~queued
      <4>1. <<d[1], d[2]>> \in lost'
        BY <1>6, <3>3
      <4>. QED  BY <3>2, <4>1
    <3>4. CASE d[2] = t.event /\ d[1] = p /\ queued
      <4>1. d \in mails'
        BY <1>6, <3>2, <3>4
      <4>2. n0 \in posting' /\ About(n0, d[1], d[2])
        BY <1>2, <1>5, <3>4 DEF About
      <4>. QED  BY <4>1, <4>2
    <3>5. CASE d[2] = t.event /\ d[1] \in t.left /\ d[1] # p /\ queued
      <4>1. d[1] \in u.left /\ u.event = d[2]
        BY <1>4, <3>5
      <4>2. u \in telling'
        BY <1>6, <3>5, <4>1
      <4>. QED  BY <4>1, <4>2
    <3>6. CASE ~(d[2] = t.event /\ d[1] \in t.left)
      BY <3>1, <3>6 DEF NoticesInv, ToldOK
    <3>. QED  BY <3>3, <3>4, <3>5, <3>6
  <2>. QED  BY <1>3, <2>1, <2>2, <2>3 DEF NoticesInv, ToldOK
<1>14. OnceOK'
  <2>1. \A n \in posting : ~About(n, n0.user, n0.event) /\ ~About(n0, n.user, n.event)
    BY <1>5, <1>7 DEF About
  <2>2. \A n \in inbox : ~About(n0, n.user, n.event)
    BY <1>5, <1>7 DEF About
  <2>. QED  BY <1>2, <1>3, <2>1, <2>2 DEF NoticesInv, OnceOK
<1>15. PassOK' /\ Submitted' /\ DecisionsOK'
  BY <1>3 DEF NoticesInv, PassOK, Submitted, DecisionsOK, Ntc!Round
<1>. QED  BY <1>10, <1>11, <1>12, <1>13, <1>14, <1>15 DEF NoticesInv

LEMMA StepInsert ==
    ASSUME NoticesInv, NEW n \in posting, Ntc!Insert(n)
    PROVE  NoticesInv'
<1>. DEFINE m0 == [id |-> n.id, user |-> n.user, event |-> n.event, read |-> FALSE]
<1>1. NoticesTyped /\ n \in Made
  BY DEF NoticesInv, NoticesTyped
<1>2. posting' = posting \ {n} /\ inbox' = inbox \cup {m0}
      /\ UNCHANGED <<approval, deciding, taken, active, telling, mails, made, pass, due, lost>>
  BY DEF Ntc!Insert, Ntc!decisions
<1>3. m0 \in Kept /\ m0.id = n.id /\ m0.user = n.user /\ m0.event = n.event
  BY <1>1 DEF Made, Kept
<1>. HIDE DEF m0
<1>4. \A q, event : About(m0, q, event) <=> About(n, q, event)
  BY <1>3 DEF About
<1>5. NoticesTyped'
  <2>1. IsFiniteSet(inbox') /\ IsFiniteSet(posting')
    BY <1>1, <1>2, FS_AddElement, FS_Subset DEF NoticesTyped
  <2>. QED  BY <1>1, <1>2, <1>3, <2>1 DEF NoticesTyped
<1>6. TellingOK' /\ Submitted' /\ DecisionsOK'
  BY <1>2 DEF NoticesInv, TellingOK, Past, By, Submitted, DecisionsOK, Ntc!Round
<1>7. LeftOK'
  BY <1>2, <1>4 DEF NoticesInv, LeftOK
<1>8. ToldOK'
  <2>1. \A q, event : (\E k \in posting : About(k, q, event))
                      => (\E k \in posting' : About(k, q, event)) \/ (\E k \in inbox' : About(k, q, event))
    BY <1>2, <1>4
  <2>2. \A q, event : (\E k \in inbox : About(k, q, event)) => (\E k \in inbox' : About(k, q, event))
    BY <1>2
  <2>3. \A k \in inbox' : <<k.user, k.event>> \in due
    BY <1>2, <1>3 DEF NoticesInv, ToldOK
  <2>4. \A k \in posting' : <<k.user, k.event>> \in due
    BY <1>2 DEF NoticesInv, ToldOK
  <2>5. mails \subseteq due
    BY DEF NoticesInv, ToldOK
  <2>6. ASSUME NEW d \in due
        PROVE  \/ d \in lost
               \/ \E t \in telling : t.event = d[2] /\ d[1] \in t.left
               \/ d \in mails /\ \E k \in posting' : About(k, d[1], d[2])
               \/ d \in mails /\ \E k \in inbox' : About(k, d[1], d[2])
    <3>1. \/ d \in lost
          \/ \E t \in telling : t.event = d[2] /\ d[1] \in t.left
          \/ d \in mails /\ \E k \in posting : About(k, d[1], d[2])
          \/ d \in mails /\ \E k \in inbox : About(k, d[1], d[2])
      BY DEF NoticesInv, ToldOK
    <3>. QED  BY <2>1, <2>2, <3>1
  <2>. QED  BY <1>2, <2>3, <2>4, <2>5, <2>6 DEF ToldOK
<1>9. OnceOK'
  <2>1. \A k \in inbox : ~About(k, m0.user, m0.event) /\ ~About(m0, k.user, k.event)
    BY <1>3, <1>4 DEF NoticesInv, OnceOK, About
  <2>2. \A k \in posting' : ~About(k, m0.user, m0.event)
    BY <1>2, <1>3 DEF NoticesInv, OnceOK
  <2>. QED  BY <1>2, <2>1, <2>2 DEF NoticesInv, OnceOK
<1>10. PassOK'
  BY <1>2 DEF NoticesInv, PassOK
<1>. QED  BY <1>5, <1>6, <1>7, <1>8, <1>9, <1>10 DEF NoticesInv

(* A failed insertion and the death of the process only lose what is        *)
(* counted as lost.                                                        *)
LEMMA StepLose ==
    ASSUME NoticesInv, Ntc!Die \/ \E n \in posting : Ntc!InsertFails(n)
    PROVE  NoticesInv'
<1>1. posting' \subseteq posting /\ telling' \subseteq telling /\ lost \subseteq lost'
      /\ UNCHANGED <<approval, deciding, taken, active, inbox, mails, made, pass, due>>
  BY DEF Ntc!Die, Ntc!InsertFails, Ntc!reader, Ntc!decisions
<1>2. \A n \in posting : n \in posting' \/ <<n.user, n.event>> \in lost'
  BY DEF Ntc!Die, Ntc!InsertFails, Ntc!decisions
<1>3. \A t \in telling : t \in telling' \/ \A p \in t.left : <<p, t.event>> \in lost'
  BY DEF Ntc!Die, Ntc!InsertFails, Ntc!decisions
<1>4. NoticesTyped'
  <2>1. IsFiniteSet(posting')
    BY <1>1, FS_Subset DEF NoticesInv, NoticesTyped
  <2>. QED  BY <1>1, <2>1 DEF NoticesInv, NoticesTyped
<1>5. TellingOK' /\ Submitted' /\ DecisionsOK' /\ PassOK' /\ LeftOK' /\ OnceOK'
  BY <1>1 DEF NoticesInv, TellingOK, Past, By, Submitted, DecisionsOK, Ntc!Round, PassOK, LeftOK, OnceOK
<1>6. ToldOK'
  <2>1. ASSUME NEW d \in due
        PROVE  \/ d \in lost'
               \/ \E t \in telling' : t.event = d[2] /\ d[1] \in t.left
               \/ d \in mails /\ \E n \in posting' : About(n, d[1], d[2])
               \/ d \in mails /\ \E n \in inbox : About(n, d[1], d[2])
    <3>1. d = <<d[1], d[2]>>
      BY DEF NoticesInv, NoticesTyped
    <3>2. CASE d \in lost \/ (d \in mails /\ \E n \in inbox : About(n, d[1], d[2]))
      BY <1>1, <3>2
    <3>3. CASE \E t \in telling : t.event = d[2] /\ d[1] \in t.left
      BY <1>3, <3>1, <3>3
    <3>4. CASE d \in mails /\ \E n \in posting : About(n, d[1], d[2])
      BY <1>2, <3>1, <3>4 DEF About
    <3>5. \/ d \in lost
          \/ \E t \in telling : t.event = d[2] /\ d[1] \in t.left
          \/ d \in mails /\ \E n \in posting : About(n, d[1], d[2])
          \/ d \in mails /\ \E n \in inbox : About(n, d[1], d[2])
      BY DEF NoticesInv, ToldOK
    <3>. QED  BY <3>2, <3>3, <3>4, <3>5
  <2>. QED  BY <1>1, <2>1 DEF NoticesInv, ToldOK
<1>. QED  BY <1>4, <1>5, <1>6 DEF NoticesInv

LEMMA StepBeginPass ==
    ASSUME NoticesInv, NEW p \in Ntc!People, NEW unreadOnly \in BOOLEAN, Ntc!BeginPass(p, unreadOnly)
    PROVE  NoticesInv'
<1>1. UNCHANGED <<approval, deciding, taken, active, telling, posting, inbox, mails, made, due, lost>>
  BY DEF Ntc!BeginPass, Ntc!decisions
<1>2. pass' = [stage |-> "reading", user |-> p, unreadOnly |-> unreadOnly, after |-> 0,
               shown |-> <<>>, begun |-> Ntc!Ids({n \in inbox : Ntc!Matches(n, p, unreadOnly)})]
  BY DEF Ntc!BeginPass, Ntc!decisions
<1>3. Ntc!Ids({n \in inbox : Ntc!Matches(n, p, unreadOnly)}) \subseteq Nat
  BY DEF NoticesInv, NoticesTyped, Kept, Ntc!Ids
<1>4. pass' \in Passes
  BY <1>2, <1>3 DEF Passes
<1>5. NoticesTyped'
  BY <1>1, <1>4 DEF NoticesInv, NoticesTyped
<1>6. TellingOK' /\ Submitted' /\ DecisionsOK' /\ LeftOK' /\ OnceOK' /\ ToldOK'
  BY <1>1 DEF NoticesInv, TellingOK, Past, By, Submitted, DecisionsOK, Ntc!Round, LeftOK, OnceOK, ToldOK
<1>7. PassOK'
  <2>1. pass'.stage = "reading" /\ pass'.shown = <<>> /\ pass'.after = 0 /\ pass'.user = p
        /\ pass'.unreadOnly = unreadOnly /\ DOMAIN pass'.shown = {}
        /\ pass'.begun = Ntc!Ids({n \in inbox : Ntc!Matches(n, p, unreadOnly)})
    BY <1>2
  <2>2. ASSUME NEW id \in pass'.begun
        PROVE  id > 0 \/ id = 0
    BY <1>3, <2>1
  <2>3. ASSUME NEW id \in pass'.begun
        PROVE  id > 0 /\ \E n \in inbox : n.id = id /\ Ntc!Matches(n, p, unreadOnly)
    <3>1. PICK n \in inbox : n.id = id /\ Ntc!Matches(n, p, unreadOnly)
      BY <2>1 DEF Ntc!Ids
    <3>2. n.id \in Nat \ {0}
      BY DEF NoticesInv, NoticesTyped, Kept
    <3>. QED  BY <3>1, <3>2
  <2>. QED  BY <1>1, <2>1, <2>3 DEF PassOK
<1>. QED  BY <1>5, <1>6, <1>7 DEF NoticesInv

LEMMA DomainOfSeq ==
    ASSUME NEW S, NEW s \in Seq(S)
    PROVE  DOMAIN s = 1..Len(s) /\ Len(s) \in Nat
OBVIOUS

(* A page: rows above the cursor in ascending order, all of them when      *)
(* there is no further page, and all up to the new cursor when there is.   *)
LEMMA PageIs ==
    ASSUME NoticesInv, pass.stage = "reading", NEW page, page = Ntc!Paginate(Ntc!Rows)
    PROVE  /\ page.rows \in Seq(Nat) /\ page.next \in Nat /\ page.more \in BOOLEAN
           /\ \A i \in DOMAIN page.rows : page.rows[i] > pass.after
           /\ \A i, j \in DOMAIN page.rows : i < j => page.rows[i] < page.rows[j]
           /\ page.more => page.next >= pass.after /\ \A i \in DOMAIN page.rows : page.rows[i] <= page.next
           /\ \A n \in inbox : Ntc!Matches(n, pass.user, pass.unreadOnly) /\ n.id > pass.after =>
                \/ \E i \in DOMAIN page.rows : page.rows[i] = n.id
                \/ page.more /\ n.id > page.next
<1>. DEFINE ids == Ntc!Ids({n \in inbox : Ntc!Matches(n, pass.user, pass.unreadOnly) /\ n.id > pass.after})
            all == Ntc!Ascending(ids)
            rows == SubSeq(all, 1, IF Len(all) > Limit THEN Limit + 1 ELSE Len(all))
            more == Len(rows) > Limit
            slice == SubSeq(rows, 1, IF more THEN Limit ELSE Len(rows))
<1>1. pass \in Passes /\ pass.after \in Nat /\ inbox \subseteq Kept /\ IsFiniteSet(inbox)
  BY DEF NoticesInv, NoticesTyped, Passes, Ntc!NoPass
<1>2. ids \subseteq Nat /\ (\A id \in ids : id > pass.after)
  BY <1>1 DEF Ntc!Ids, Kept
<1>3. IsFiniteSet(ids)
  <2>. DEFINE S == {n \in inbox : Ntc!Matches(n, pass.user, pass.unreadOnly) /\ n.id > pass.after}
  <2>1. IsFiniteSet(S)
    BY <1>1, FS_Subset
  <2>. DEFINE at == [n \in S |-> n.id]
  <2>2. at \in Surjection(S, {n.id : n \in S})
    <3>. HIDE DEF S
    <3>. QED  BY DEF Surjection
  <2>3. IsFiniteSet({n.id : n \in S})
    <3>. HIDE DEF S, at
    <3>. QED  BY <2>1, <2>2, FS_Surjection
  <2>. QED  BY <2>3 DEF Ntc!Ids
<1>4. Ntc!Rows = rows /\ page = [rows |-> slice, more |-> more, next |-> IF more THEN Ntc!Last(slice) ELSE 0]
  BY DEF Ntc!Rows, Ntc!Paginate
<1>5. \A n \in inbox : Ntc!Matches(n, pass.user, pass.unreadOnly) /\ n.id > pass.after => n.id \in ids
  BY DEF Ntc!Ids
<1>. HIDE DEF ids
<1>6. /\ all \in Seq(Nat) /\ Len(all) = Cardinality(ids)
      /\ \A i \in 1..Len(all) : all[i] \in ids
      /\ \A i, j \in 1..Len(all) : i < j => all[i] < all[j]
      /\ \A id \in ids : \E i \in 1..Len(all) : all[i] = id
  BY <1>2, <1>3, AscendingIs, RankedIs
<1>. HIDE DEF all
<1>7. Limit \in Nat \ {0} /\ Len(all) \in Nat
  BY <1>6, RecordsAssumption DEF Ntc!PagesAssumption
<1>8. more <=> Len(all) > Limit
  BY <1>6, <1>7
<1>9. slice \in Seq(Nat) /\ Len(slice) = (IF more THEN Limit ELSE Len(all)) /\ Len(slice) <= Len(all)
      /\ \A i \in 1..Len(slice) : slice[i] = all[i]
  BY <1>6, <1>7
<1>10. DOMAIN slice = 1..Len(slice) /\ Len(slice) \in Nat
  BY <1>9, DomainOfSeq
<1>. HIDE DEF rows, more, slice
<1>11. page.rows = slice /\ page.more = more /\ page.next = (IF more THEN Ntc!Last(slice) ELSE 0)
  BY <1>4
<1>12. more \in BOOLEAN
  BY DEF more
<1>13. \A i \in 1..Len(slice) : i \in 1..Len(all) /\ slice[i] \in Nat /\ slice[i] > pass.after
  BY <1>2, <1>6, <1>7, <1>9, <1>10
<1>14. \A i, j \in 1..Len(slice) : i < j => slice[i] < slice[j]
  BY <1>6, <1>9, <1>13
<1>15. ASSUME more
       PROVE  /\ Ntc!Last(slice) = all[Limit] /\ Ntc!Last(slice) \in Nat /\ Ntc!Last(slice) > pass.after
              /\ \A i \in 1..Len(slice) : slice[i] <= Ntc!Last(slice)
              /\ Len(slice) = Limit /\ Limit < Len(all)
  <2>1. Len(slice) = Limit /\ Limit \in 1..Len(slice) /\ Limit < Len(all)
    BY <1>7, <1>8, <1>9, <1>15
  <2>2. Ntc!Last(slice) = slice[Limit] /\ slice[Limit] = all[Limit]
    BY <1>9, <2>1 DEF Ntc!Last
  <2>3. \A i \in 1..Len(slice) : i < Limit => slice[i] < slice[Limit]
    BY <1>14, <2>1
  <2>4. \A i \in 1..Len(slice) : i < Limit \/ i = Limit
    BY <1>7, <2>1
  <2>5. \A i \in 1..Len(slice) : slice[i] <= slice[Limit]
    BY <1>13, <2>1, <2>3, <2>4
  <2>. QED  BY <1>13, <2>1, <2>2, <2>5
<1>16. ASSUME NEW n \in inbox, Ntc!Matches(n, pass.user, pass.unreadOnly), n.id > pass.after
       PROVE  (\E i \in 1..Len(slice) : slice[i] = n.id) \/ (more /\ n.id > Ntc!Last(slice))
  <2>1. PICK i \in 1..Len(all) : all[i] = n.id
    BY <1>5, <1>6, <1>16
  <2>2. CASE i <= Len(slice)
    <3>1. i \in 1..Len(slice)
      BY <1>7, <1>10, <2>2
    <3>. QED  BY <1>9, <2>1, <3>1
  <2>3. CASE i > Len(slice)
    <3>1. more
      BY <1>7, <1>9, <2>3
    <3>2. Limit \in 1..Len(all) /\ Limit < i
      BY <1>7, <1>15, <2>3, <3>1
    <3>3. all[Limit] < all[i] /\ all[Limit] \in Nat /\ all[i] \in Nat
      BY <1>2, <1>6, <3>2
    <3>. QED  BY <1>15, <2>1, <3>1, <3>3
  <2>. QED  BY <1>7, <1>10, <2>2, <2>3
<1>17. page.next \in Nat
  BY <1>11, <1>15
<1>18. page.more => page.next >= pass.after /\ \A i \in DOMAIN page.rows : page.rows[i] <= page.next
  BY <1>1, <1>10, <1>11, <1>15
<1>19. ASSUME NEW n \in inbox, Ntc!Matches(n, pass.user, pass.unreadOnly), n.id > pass.after
       PROVE  (\E i \in DOMAIN page.rows : page.rows[i] = n.id) \/ (page.more /\ n.id > page.next)
  BY <1>10, <1>11, <1>16, <1>19
<1>. QED  BY <1>9, <1>10, <1>11, <1>12, <1>13, <1>14, <1>17, <1>18, <1>19

LEMMA StepList ==
    ASSUME NoticesInv, Ntc!List
    PROVE  NoticesInv'
<1>. DEFINE page == Ntc!Paginate(Ntc!Rows)
<1>1. UNCHANGED <<approval, deciding, taken, active, telling, posting, inbox, mails, made, due, lost>>
  BY DEF Ntc!List, Ntc!decisions
<1>2. pass.stage = "reading"
      /\ pass' = [pass EXCEPT !.shown = @ \o page.rows, !.after = page.next,
                              !.stage = IF page.more THEN "reading" ELSE "done"]
  BY DEF Ntc!List, Ntc!decisions
<1>3. pass \in Passes
  BY <1>2 DEF NoticesInv, NoticesTyped, Ntc!NoPass
<1>4. PICK pg : pg = page
  OBVIOUS
<1>5. pass' = [pass EXCEPT !.shown = @ \o pg.rows, !.after = pg.next,
                           !.stage = IF pg.more THEN "reading" ELSE "done"]
  BY <1>2, <1>4
<1>6. /\ pg.rows \in Seq(Nat) /\ pg.next \in Nat /\ pg.more \in BOOLEAN
      /\ \A i \in DOMAIN pg.rows : pg.rows[i] > pass.after
      /\ \A i, j \in DOMAIN pg.rows : i < j => pg.rows[i] < pg.rows[j]
      /\ pg.more => pg.next >= pass.after /\ \A i \in DOMAIN pg.rows : pg.rows[i] <= pg.next
      /\ \A n \in inbox : Ntc!Matches(n, pass.user, pass.unreadOnly) /\ n.id > pass.after =>
           \/ \E i \in DOMAIN pg.rows : pg.rows[i] = n.id
           \/ pg.more /\ n.id > pg.next
  BY <1>2, <1>4, PageIs
<1>. HIDE DEF page
<1>7. pass.shown \in Seq(Nat) /\ pass.after \in Nat /\ pass.begun \subseteq Nat
  BY <1>3 DEF Passes
<1>8. pass.shown \o pg.rows \in Seq(Nat)
  BY <1>6, <1>7
<1>9. pass' \in Passes /\ pass'.shown = pass.shown \o pg.rows /\ pass'.after = pg.next
      /\ pass'.user = pass.user /\ pass'.unreadOnly = pass.unreadOnly /\ pass'.begun = pass.begun
      /\ pass'.stage = (IF pg.more THEN "reading" ELSE "done")
  BY <1>3, <1>5, <1>6, <1>8 DEF Passes
<1>10. NoticesTyped'
  BY <1>1, <1>9 DEF NoticesInv, NoticesTyped
<1>11. TellingOK' /\ Submitted' /\ DecisionsOK' /\ LeftOK' /\ OnceOK' /\ ToldOK'
  BY <1>1 DEF NoticesInv, TellingOK, Past, By, Submitted, DecisionsOK, Ntc!Round, LeftOK, OnceOK, ToldOK
<1>12. /\ Len(pass.shown) \in Nat /\ Len(pg.rows) \in Nat
       /\ DOMAIN pass.shown = 1..Len(pass.shown) /\ DOMAIN pg.rows = 1..Len(pg.rows)
       /\ DOMAIN pass'.shown = 1..(Len(pass.shown) + Len(pg.rows))
       /\ \A i \in 1..Len(pass.shown) : pass'.shown[i] = pass.shown[i] /\ i \in DOMAIN pass'.shown
       /\ \A i \in 1..Len(pg.rows) : pass'.shown[i + Len(pass.shown)] = pg.rows[i]
                                     /\ i + Len(pass.shown) \in DOMAIN pass'.shown
  <2>1. PICK shown, rows : shown = pass.shown /\ rows = pg.rows
    OBVIOUS
  <2>2. shown \in Seq(Nat) /\ rows \in Seq(Nat) /\ pass'.shown = shown \o rows
    BY <1>6, <1>7, <1>9, <2>1
  <2>3. Len(shown) \in Nat /\ Len(rows) \in Nat /\ Len(shown \o rows) = Len(shown) + Len(rows)
        /\ DOMAIN shown = 1..Len(shown) /\ DOMAIN rows = 1..Len(rows)
        /\ DOMAIN (shown \o rows) = 1..(Len(shown) + Len(rows))
    BY <2>2
  <2>4. \A i \in 1..Len(shown) : (shown \o rows)[i] = shown[i] /\ i \in 1..(Len(shown) + Len(rows))
    BY <2>2, <2>3
  <2>5. \A i \in 1..Len(rows) : (shown \o rows)[i + Len(shown)] = rows[i]
                                 /\ i + Len(shown) \in 1..(Len(shown) + Len(rows))
    BY <2>2, <2>3
  <2>. QED  BY <2>1, <2>2, <2>3, <2>4, <2>5
<1>13. \A i \in DOMAIN pass'.shown :
         \/ i \in DOMAIN pass.shown /\ pass'.shown[i] = pass.shown[i]
         \/ /\ i - Len(pass.shown) \in DOMAIN pg.rows /\ i > Len(pass.shown)
            /\ pass'.shown[i] = pg.rows[i - Len(pass.shown)]
  <2>. SUFFICES ASSUME NEW i \in DOMAIN pass'.shown, i \notin DOMAIN pass.shown
                PROVE  /\ i - Len(pass.shown) \in DOMAIN pg.rows /\ i > Len(pass.shown)
                       /\ pass'.shown[i] = pg.rows[i - Len(pass.shown)]
    BY <1>12
  <2>0. i \in 1..(Len(pass.shown) + Len(pg.rows)) /\ i \notin 1..Len(pass.shown)
        /\ Len(pass.shown) \in Nat /\ Len(pg.rows) \in Nat
    BY <1>12
  <2>1. i - Len(pass.shown) \in 1..Len(pg.rows) /\ (i - Len(pass.shown)) + Len(pass.shown) = i
        /\ i > Len(pass.shown)
    <3>1. \A k, l \in Nat : \A j \in 1..(k + l) :
            j \notin 1..k => j - k \in 1..l /\ (j - k) + k = j /\ j > k
      OBVIOUS
    <3>. QED  BY <2>0, <3>1
  <2>. QED  BY <1>12, <2>1
<1>14. /\ \A i \in DOMAIN pass.shown : pass.shown[i] <= pass.after /\ pass.shown[i] \in Nat
       /\ \A i, j \in DOMAIN pass.shown : i < j => pass.shown[i] < pass.shown[j]
       /\ \A id \in pass.begun :
            \/ \E i \in DOMAIN pass.shown : pass.shown[i] = id
            \/ id > pass.after
               /\ \E n \in inbox : n.id = id /\ Ntc!Matches(n, pass.user, pass.unreadOnly)
  BY <1>2, <1>7 DEF NoticesInv, PassOK, Ntc!NoPass
<1>15. \A i \in DOMAIN pg.rows : pg.rows[i] \in Nat
  BY <1>6
<1>16. ASSUME NEW i \in DOMAIN pass'.shown, NEW j \in DOMAIN pass'.shown, i < j
       PROVE  pass'.shown[i] < pass'.shown[j]
  <2>1. CASE i \in DOMAIN pass.shown /\ pass'.shown[i] = pass.shown[i]
             /\ j \in DOMAIN pass.shown /\ pass'.shown[j] = pass.shown[j]
    BY <1>14, <1>16, <2>1
  <2>2. CASE i \in DOMAIN pass.shown /\ pass'.shown[i] = pass.shown[i]
             /\ j - Len(pass.shown) \in DOMAIN pg.rows
             /\ pass'.shown[j] = pg.rows[j - Len(pass.shown)]
    <3>1. pass.shown[i] <= pass.after /\ pg.rows[j - Len(pass.shown)] > pass.after
          /\ pass.shown[i] \in Nat /\ pg.rows[j - Len(pass.shown)] \in Nat
      BY <1>6, <1>14, <1>15, <2>2
    <3>. QED  BY <1>7, <2>2, <3>1
  <2>3. CASE i > Len(pass.shown) /\ i - Len(pass.shown) \in DOMAIN pg.rows
             /\ pass'.shown[i] = pg.rows[i - Len(pass.shown)]
             /\ j - Len(pass.shown) \in DOMAIN pg.rows
             /\ pass'.shown[j] = pg.rows[j - Len(pass.shown)]
    <3>1. i - Len(pass.shown) < j - Len(pass.shown)
      BY <1>12, <1>16
    <3>. QED  BY <1>6, <2>3, <3>1
  <2>4. ~(i > Len(pass.shown) /\ j \in DOMAIN pass.shown)
    BY <1>12, <1>16
  <2>. QED  BY <1>13, <2>1, <2>2, <2>3, <2>4
<1>17. ASSUME pg.more, NEW i \in DOMAIN pass'.shown
       PROVE  pass'.shown[i] <= pg.next
  <2>1. CASE i \in DOMAIN pass.shown /\ pass'.shown[i] = pass.shown[i]
    BY <1>6, <1>7, <1>14, <1>17, <2>1
  <2>2. CASE i - Len(pass.shown) \in DOMAIN pg.rows /\ pass'.shown[i] = pg.rows[i - Len(pass.shown)]
    BY <1>6, <1>17, <2>2
  <2>. QED  BY <1>13, <2>1, <2>2
<1>18. ASSUME NEW id \in pass.begun
       PROVE  \/ \E i \in DOMAIN pass'.shown : pass'.shown[i] = id
              \/ /\ pg.more /\ id > pg.next
                 /\ \E n \in inbox : n.id = id /\ Ntc!Matches(n, pass.user, pass.unreadOnly)
  <2>1. CASE \E i \in DOMAIN pass.shown : pass.shown[i] = id
    BY <1>12, <2>1
  <2>2. CASE id > pass.after /\ \E n \in inbox : n.id = id /\ Ntc!Matches(n, pass.user, pass.unreadOnly)
    <3>1. PICK n \in inbox : n.id = id /\ Ntc!Matches(n, pass.user, pass.unreadOnly)
      BY <2>2
    <3>2. \/ \E i \in DOMAIN pg.rows : pg.rows[i] = id
          \/ pg.more /\ id > pg.next
      BY <1>6, <2>2, <3>1
    <3>3. CASE \E i \in DOMAIN pg.rows : pg.rows[i] = id
      BY <1>12, <3>3
    <3>. QED  BY <3>1, <3>2, <3>3
  <2>. QED  BY <1>14, <2>1, <2>2
<1>19. PassOK'
  <2>1. pg.more => pass'.stage = "reading"
    BY <1>9
  <2>2. ~pg.more => pass'.stage = "done"
    BY <1>9
  <2>3. pg.more => /\ \A i \in DOMAIN pass'.shown : pass'.shown[i] <= pass'.after
                   /\ \A id \in pass'.begun :
                        \/ \E i \in DOMAIN pass'.shown : pass'.shown[i] = id
                        \/ id > pass'.after
                           /\ \E n \in inbox' : n.id = id /\ Ntc!Matches(n, pass'.user, pass'.unreadOnly)
    BY <1>1, <1>9, <1>17, <1>18
  <2>4. ~pg.more => \A id \in pass'.begun : \E i \in DOMAIN pass'.shown : pass'.shown[i] = id
    BY <1>9, <1>18
  <2>. QED  BY <1>6, <1>16, <2>1, <2>2, <2>3, <2>4 DEF PassOK
<1>. QED  BY <1>10, <1>11, <1>19 DEF NoticesInv

LEMMA StepMarkRead ==
    ASSUME NoticesInv, pass.stage = "reading", NEW ids, Ntc!MarkRead(pass.user, ids)
    PROVE  NoticesInv'
<1>. DEFINE marked == {n \in inbox : n.user = pass.user /\ n.id \in ids /\ ~n.read}
            gone == [n \in Kept |-> [n EXCEPT !.read = TRUE]]
<1>1. UNCHANGED <<approval, deciding, taken, active, telling, posting, mails, made, due, lost>>
  BY DEF Ntc!MarkRead, Ntc!decisions
<1>2. /\ inbox' = (inbox \ marked) \cup {[n EXCEPT !.read = TRUE] : n \in marked}
      /\ pass' = IF pass.stage = "reading" /\ pass.unreadOnly
                 THEN [pass EXCEPT !.begun = @ \ Ntc!Ids(marked)] ELSE pass
  BY DEF Ntc!MarkRead, Ntc!decisions
<1>3. inbox \subseteq Kept /\ IsFiniteSet(inbox) /\ pass \in Passes
  BY DEF NoticesInv, NoticesTyped, Ntc!NoPass
<1>4. IsFiniteSet(marked) /\ IsFiniteSet(inbox \ marked)
  BY <1>3, FS_Subset
<1>5. \A n \in Kept : LET m == [n EXCEPT !.read = TRUE] IN
        m \in Kept /\ m.id = n.id /\ m.user = n.user /\ m.event = n.event /\ m.read
  BY DEF Kept
<1>6. marked \subseteq inbox /\ \A n \in marked : ~n.read /\ n.id \in ids
  OBVIOUS
<1>7. pass.unreadOnly => \A n \in marked : n.id \in Ntc!Ids(marked)
  BY DEF Ntc!Ids
<1>. HIDE DEF marked
<1>8. IsFiniteSet(inbox')
  <2>. DEFINE at == [n \in marked |-> [n EXCEPT !.read = TRUE]]
  <2>0. at \in Surjection(marked, {[n EXCEPT !.read = TRUE] : n \in marked})
    BY DEF Surjection
  <2>1. IsFiniteSet({[n EXCEPT !.read = TRUE] : n \in marked})
    <3>. HIDE DEF at
    <3>. QED  BY <1>4, <2>0, FS_Surjection
  <2>. QED  BY <1>2, <1>4, <2>1, FS_Union
<1>9. \A m \in inbox' : /\ m \in Kept
                        /\ \/ m \in inbox /\ m \notin marked
                           \/ \E n \in marked : m = [n EXCEPT !.read = TRUE] /\ m.id = n.id /\ m.user = n.user
                                                /\ m.event = n.event
  <2>1. ASSUME NEW n \in marked
        PROVE  LET m == [n EXCEPT !.read = TRUE] IN
                 m \in Kept /\ m.id = n.id /\ m.user = n.user /\ m.event = n.event
    BY <1>3, <1>5, <1>6
  <2>2. \A m \in inbox' : m \in inbox \ marked \/ \E n \in marked : m = [n EXCEPT !.read = TRUE]
    BY <1>2
  <2>. QED  BY <1>3, <2>1, <2>2
<1>10. \A n \in inbox : \E m \in inbox' : /\ m.id = n.id /\ m.user = n.user /\ m.event = n.event
                                          /\ m = n \/ (n \in marked)
  BY <1>2, <1>3, <1>5
<1>11. pass' \in Passes /\ pass'.shown = pass.shown /\ pass'.after = pass.after
       /\ pass'.user = pass.user /\ pass'.unreadOnly = pass.unreadOnly /\ pass'.stage = "reading"
       /\ pass'.begun = (IF pass.unreadOnly THEN pass.begun \ Ntc!Ids(marked) ELSE pass.begun)
  BY <1>2, <1>3 DEF Passes
<1>12. NoticesTyped'
  BY <1>1, <1>8, <1>9, <1>11 DEF NoticesInv, NoticesTyped
<1>13. TellingOK' /\ Submitted' /\ DecisionsOK'
  BY <1>1 DEF NoticesInv, TellingOK, Past, By, Submitted, DecisionsOK, Ntc!Round
<1>14. \A m \in inbox' : \E n \in inbox : m.user = n.user /\ m.event = n.event
  BY <1>6, <1>9
<1>15. LeftOK'
  <2>1. ASSUME NEW q, NEW event, \A n \in inbox : ~About(n, q, event)
        PROVE  \A m \in inbox' : ~About(m, q, event)
    BY <1>14, <2>1 DEF About
  <2>. QED  BY <1>1, <2>1 DEF NoticesInv, LeftOK
<1>16. ToldOK'
  <2>1. \A q, event : (\E n \in inbox : About(n, q, event)) => (\E n \in inbox' : About(n, q, event))
    BY <1>10 DEF About
  <2>2. \A n \in inbox' : <<n.user, n.event>> \in due
    BY <1>14 DEF NoticesInv, ToldOK
  <2>. QED  BY <1>1, <2>1, <2>2 DEF NoticesInv, ToldOK
<1>17. OnceOK'
  <2>1. \A n, m \in inbox : About(n, m.user, m.event) => n = m
    BY DEF NoticesInv, OnceOK
  <2>2. ASSUME NEW n \in inbox', NEW m \in inbox', About(n, m.user, m.event)
        PROVE  n = m
    <3>1. PICK n0 \in inbox : /\ n.user = n0.user /\ n.event = n0.event
                              /\ \/ n = n0 /\ n0 \notin marked
                                 \/ n = [n0 EXCEPT !.read = TRUE] /\ n0 \in marked
      BY <1>6, <1>9
    <3>2. PICK m0 \in inbox : /\ m.user = m0.user /\ m.event = m0.event
                              /\ \/ m = m0 /\ m0 \notin marked
                                 \/ m = [m0 EXCEPT !.read = TRUE] /\ m0 \in marked
      BY <1>6, <1>9
    <3>3. n0 = m0
      BY <2>1, <2>2, <3>1, <3>2 DEF About
    <3>. QED  BY <3>1, <3>2, <3>3
  <2>3. \A n \in posting, m \in inbox' : ~About(n, m.user, m.event)
    BY <1>14 DEF NoticesInv, OnceOK, About
  <2>. QED  BY <1>1, <2>2, <2>3 DEF NoticesInv, OnceOK
<1>18. PassOK'
  <2>1. ASSUME NEW id \in pass'.begun, NEW n \in inbox, n.id = id,
               Ntc!Matches(n, pass.user, pass.unreadOnly)
        PROVE  \E m \in inbox' : m.id = id /\ Ntc!Matches(m, pass.user, pass.unreadOnly)
    <3>1. PICK m \in inbox' : m.id = n.id /\ m.user = n.user /\ (m = n \/ n \in marked)
      BY <1>10
    <3>2. CASE pass.unreadOnly
      <4>1. n \notin marked
        BY <1>7, <1>11, <2>1, <3>2
      <4>. QED  BY <2>1, <3>1, <4>1
    <3>3. CASE ~pass.unreadOnly
      BY <2>1, <3>1, <3>3 DEF Ntc!Matches
    <3>. QED  BY <3>2, <3>3
  <2>2. pass'.begun \subseteq pass.begun
    BY <1>11
  <2>. QED  BY <1>11, <2>1, <2>2 DEF NoticesInv, PassOK, Ntc!NoPass
<1>. QED  BY <1>12, <1>13, <1>15, <1>16, <1>17, <1>18 DEF NoticesInv

LEMMA NoticesNext ==
    ASSUME NoticesInv, [Ntc!Next]_(Ntc!vars)
    PROVE  NoticesInv'
<1>1. CASE \E p \in Ntc!People : Ntc!Submit(p)
  BY <1>1, StepSubmit
<1>2. CASE Ntc!Edit \/ (\E p \in Ntc!People : Ntc!Disable(p)) \/ \E p \in Approvers : Ntc!ReadToDecide(p)
  BY <1>2, StepOther
<1>3. CASE \E p \in Approvers, decision \in {"approved", "rejected"} : Ntc!Decide(p, decision)
  <2>1. CASE approval.state = "pending_approval"
    BY <1>3, <2>1, StepDecideWritten
  <2>2. CASE approval.state # "pending_approval"
    BY <1>3, <2>2, StepOther
  <2>. QED  BY <2>1, <2>2
<1>4. CASE \E t \in telling : Ntc!ReadRecipients(t)
  BY <1>4, StepReadRecipients
<1>5. CASE \E t \in telling, p \in Ntc!People, queued \in BOOLEAN : Ntc!TellOne(t, p, queued)
  BY <1>5, StepTellOne
<1>6. CASE \E n \in posting : Ntc!Insert(n)
  BY <1>6, StepInsert
<1>7. CASE Ntc!Die \/ \E n \in posting : Ntc!InsertFails(n)
  BY <1>7, StepLose
<1>8. CASE \E p \in Ntc!People, unreadOnly \in BOOLEAN : Ntc!BeginPass(p, unreadOnly)
  BY <1>8, StepBeginPass
<1>9. CASE Ntc!List
  BY <1>9, StepList
<1>10. CASE pass.stage = "reading" /\ \E ids \in {Ntc!Ids(inbox), Ntc!ToSet(pass.shown)} : Ntc!MarkRead(pass.user, ids)
  BY <1>10, StepMarkRead
<1>11. CASE UNCHANGED Ntc!vars
  BY <1>11 DEF Ntc!vars, NoticesInv, NoticesTyped, DecisionsOK, TellingOK, Past, By, Submitted, Ntc!Round,
               LeftOK, OnceOK, ToldOK, PassOK
<1>. QED
  BY <1>1, <1>2, <1>3, <1>4, <1>5, <1>6, <1>7, <1>8, <1>9, <1>10, <1>11 DEF Ntc!Next

(* Each notice is counted once among what was told, for no two tell the    *)
(* same person of the same event.                                          *)
LEMMA NoticesInvKeeps == NoticesInv => Ntc!ToldOfTheirOrders /\ Ntc!PassComplete
<1>. SUFFICES ASSUME NoticesInv PROVE Ntc!ToldOfTheirOrders /\ Ntc!PassComplete
  OBVIOUS
<1>. DEFINE all == posting \cup inbox
            of == [n \in all |-> <<n.user, n.event>>]
<1>1. IsFiniteSet(all)
  BY FS_Union DEF NoticesInv, NoticesTyped
<1>2. Ntc!Told = {<<n.user, n.event>> : n \in all}
  BY DEF Ntc!Told
<1>3. \A n \in all, m \in all : n.user = m.user /\ n.event = m.event => n = m
  BY DEF NoticesInv, OnceOK, About
<1>4. Cardinality(Ntc!Told) = Cardinality(all)
  <2>1. of \in [all -> Ntc!Told]
    BY <1>2
  <2>2. \A n, m \in all : of[n] = of[m] => n = m
    BY <1>3
  <2>3. \A d \in Ntc!Told : \E n \in all : of[n] = d
    BY <1>2
  <2>. HIDE DEF of, all
  <2>4. of \in Bijection(all, Ntc!Told)
    BY <2>1, <2>2, <2>3 DEF Bijection, Injection, Surjection, IsInjective
  <2>. QED  BY <1>1, <2>4, FS_Bijection DEF ExistsBijection
<1>5. \A d \in due : \/ d \in Ntc!Told \cap mails
                     \/ d \in lost
                     \/ \E t \in telling : t.event = d[2] /\ d[1] \in t.left
  <2>. SUFFICES ASSUME NEW d \in due, d \notin lost,
                       ~\E t \in telling : t.event = d[2] /\ d[1] \in t.left
                PROVE  d \in Ntc!Told \cap mails
    OBVIOUS
  <2>1. d = <<d[1], d[2]>>
    BY DEF NoticesInv, NoticesTyped
  <2>2. d \in mails /\ \E n \in all : About(n, d[1], d[2])
    BY DEF NoticesInv, ToldOK
  <2>. QED  BY <1>2, <2>1, <2>2 DEF About
<1>6. Ntc!Told \cup mails \subseteq due
  BY <1>2 DEF NoticesInv, ToldOK
<1>9. \A d \in due :
        LET r == d[2][2] IN
        d[2][1] # "submitted" =>
          \/ d[1] = approval.by[r]
          \/ /\ taken[r] \in 1..(r - 1) /\ taken[taken[r]] # 0
             /\ d[1] = approval.by[taken[r]]
  <2>. SUFFICES ASSUME NEW d \in due, NEW r, r = d[2][2], d[2][1] # "submitted"
                PROVE  \/ d[1] = approval.by[r]
                       \/ /\ taken[r] \in 1..(r - 1) /\ taken[taken[r]] # 0
                          /\ d[1] = approval.by[taken[r]]
    OBVIOUS
  <2>1. d[1] = approval.by[taken[r]] /\ taken[r] # 0 /\ r \in 1..Rounds /\ r <= Ntc!Round /\ Ntc!Round \in Nat
    BY EventsPast DEF Past, By, NoticesInv, NoticesTyped, Ntc!Round
  <2>2. taken[r] \in Nat /\ taken[r] <= r
    BY <2>1 DEF NoticesInv, DecisionsOK, NoticesTyped
  <2>3. CASE taken[r] = r
    BY <2>1, <2>3
  <2>4. CASE taken[r] < r
    <3>1. taken[r] \in 1..(r - 1) /\ taken[r] \in 1..Rounds /\ taken[r] < Ntc!Round
      BY <2>1, <2>2, <2>4, RecordsAssumption DEF Ntc!PagesAssumption
    <3>2. taken[taken[r]] # 0
      BY <3>1 DEF NoticesInv, DecisionsOK
    <3>. QED  BY <2>1, <3>1, <3>2
  <2>. QED  BY <2>1, <2>2, <2>3, <2>4
<1>7. Ntc!ToldOfTheirOrders
  BY <1>4, <1>5, <1>6, <1>9, NtcSizes DEF Ntc!ToldOfTheirOrders
<1>8. ASSUME pass # Ntc!NoPass
      PROVE  /\ \A i, j \in DOMAIN pass.shown : i < j => pass.shown[i] < pass.shown[j]
             /\ pass.stage = "done" => pass.begun \subseteq Ntc!ToSet(pass.shown)
  BY <1>8 DEF NoticesInv, PassOK, Ntc!ToSet
<1>. QED  BY <1>7, <1>8 DEF Ntc!PassComplete

-----------------------------------------------------------------------------
(***************************************************************************)
(* The delivery of an order. One call at a time tells of it; the dates     *)
(* follow the state; an order that is awaited is looked after by the       *)
(* check, or is not for a reason.                                          *)
(***************************************************************************)
-----------------------------------------------------------------------------
LEMMA Numbers ==
    /\ Ordered \in Nat /\ DueDays \subseteq Nat /\ Grace \in Nat /\ Stalls \in Nat /\ MaxDay \in Nat
    /\ Del!Never \in Nat /\ Del!Never > MaxDay /\ Del!Never \notin 0..MaxDay /\ 0..MaxDay \subseteq 0..Del!Never
    /\ Del!Never \in 0..Del!Never
BY RecordsAssumption DEF Del!DaysAssumption, Del!Never

LEMMA Dates ==
    ASSUME DeliveryTyped
    PROVE  sending.expected \in Nat /\ today \in Nat /\ today <= MaxDay /\ Grace \in Nat /\ today # Del!Never
<1>1. today \in Nat /\ today <= MaxDay /\ today # Del!Never
  BY Numbers DEF DeliveryTyped
<1>2. sending.expected \in Nat
  BY Numbers DEF DeliveryTyped, Sending
<1>. QED  BY <1>1, <1>2, Numbers

LEMMA RequestIs ==
    ASSUME NEW q \in Request
    PROVE  /\ q.stage \in {"idle", "rendering", "telling_supplier", "telling_creator",
                           "sending", "received"}
           /\ q.stage = "sending" => q.pdf \in BOOLEAN
           /\ q.stage = "received" => q.full \in BOOLEAN
BY DEF Request

LEMMA CheckIs ==
    ASSUME NEW q \in DeliveryCheck
    PROVE  /\ q.stage \in {"none", "scheduling", "queued", "reading", "alerting", "done"}
           /\ q = Del!NoCheck <=> q.stage = "none"
           /\ q.stage # "none" => q.due \in Nat /\ q.stalled \in 0..Stalls
           /\ q.stage = "alerting" => q.left \in SUBSET Managers
           /\ q.stage \in {"scheduling", "queued", "reading"} =>
                q \in [stage: {"scheduling", "queued", "reading", "done"}, due: Nat, stalled: 0..Stalls]
           /\ q.stage = "alerting" =>
                q \in [stage: {"alerting", "done"}, due: Nat, stalled: 0..Stalls, left: SUBSET Managers]
BY DEF DeliveryCheck, Del!NoCheck

LEMMA DeliveryInit == Del!Init => DeliveryInv
<1>. SUFFICES ASSUME Del!Init PROVE DeliveryInv
  OBVIOUS
<1>1. sending \in Sending
  <2>1. Ordered \in 0..Ordered /\ Del!Never \in 0..Del!Never
    BY Numbers
  <2>. QED  BY <2>1 DEF Del!Init, Sending
<1>2. /\ sending.state = "approved" /\ sending.sentAt = Del!Never /\ sending.settled = Del!Never
      /\ sending.moved = FALSE
  BY DEF Del!Init
<1>3. request \in [Calls -> Request] /\ \A c \in Calls : request[c].stage = "idle"
  BY DEF Del!Init, Del!Idle, Request
<1>4. check \in DeliveryCheck /\ check.stage = "none"
  BY DEF Del!Init, Del!NoCheck, DeliveryCheck
<1>5. /\ letters \in [supplier: {0, 1}, creator: {0, 1}, manager: [Managers -> Nat]]
      /\ letters.supplier = 0 /\ letters.creator = 0 /\ \A m \in Managers : letters.manager[m] = 0
  BY DEF Del!Init
<1>6. DeliveryTyped
  BY <1>1, <1>3, <1>4, <1>5, Numbers DEF DeliveryTyped, Del!Init
<1>. QED  BY <1>2, <1>3, <1>4, <1>5, <1>6 DEF DeliveryInv, OrderOK, SupplierOK, CreatorOK, LettersOK,
            CheckOK, LookedAfter, Telling, Completing, Del!Awaited

-----------------------------------------------------------------------------
(* The steps.                                                              *)

(* Call c becomes q, and what that does to the calls that tell.            *)
LEMMA Went ==
    ASSUME DeliveryTyped, NEW c \in Calls, NEW q \in Request, Del!Go(c, q)
    PROVE  /\ request' \in [Calls -> Request] /\ request'[c] = q
           /\ \A d \in Calls \ {c} : request'[d] = request[d]
BY DEF DeliveryTyped, Del!Go

(* A call goes on, and neither before nor after is it one that tells.      *)
LEMMA QuietStep ==
    ASSUME DeliveryInv, NEW c \in Calls, NEW q \in Request, Del!Go(c, q),
           UNCHANGED <<sending, check, letters, editing, today, untold, alive>>,
           Telling(request[c]) = Telling(q), Completing(request[c]) = Completing(q)
    PROVE  DeliveryInv'
<1>1. /\ request' \in [Calls -> Request] /\ \A d \in Calls \ {c} : request'[d] = request[d]
      /\ request'[c] = q
  BY Went DEF DeliveryInv
<1>2. \A d \in Calls : /\ Telling(request'[d]) <=> Telling(request[d])
                       /\ Completing(request'[d]) <=> Completing(request[d])
  BY <1>1
<1>3. DeliveryTyped' /\ OrderOK'
  BY <1>1 DEF DeliveryInv, DeliveryTyped, OrderOK
<1>4. SupplierOK' /\ CreatorOK'
  BY <1>2 DEF DeliveryInv, SupplierOK, CreatorOK
<1>5. LettersOK' /\ CheckOK' /\ LookedAfter'
  BY DEF DeliveryInv, LettersOK, CheckOK, LookedAfter, Del!Late
<1>. QED  BY <1>3, <1>4, <1>5 DEF DeliveryInv

LEMMA BeginSendStep == ASSUME DeliveryInv, NEW c \in Calls, Del!BeginSend(c) PROVE DeliveryInv'
<1>. DEFINE q == [stage |-> "rendering"]
<1>1. q \in Request /\ Telling(q) = FALSE /\ Completing(q) = FALSE
  BY DEF Request, Telling, Completing
<1>2. Telling(request[c]) = FALSE /\ Completing(request[c]) = FALSE
  BY DEF Del!BeginSend, Del!Idle, Telling, Completing
<1>. QED  BY <1>1, <1>2, QuietStep DEF Del!BeginSend

LEMMA RenderStep ==
    ASSUME DeliveryInv, NEW c \in Calls, NEW rendered \in BOOLEAN, Del!Render(c, rendered)
    PROVE  DeliveryInv'
<1>. DEFINE q == [stage |-> "sending", pdf |-> rendered]
<1>1. q \in Request /\ Telling(q) = FALSE /\ Completing(q) = FALSE
  BY DEF Request, Telling, Completing
<1>2. Telling(request[c]) = FALSE /\ Completing(request[c]) = FALSE
  BY DEF Del!Render, Telling, Completing
<1>. QED  BY <1>1, <1>2, QuietStep DEF Del!Render

LEMMA SendStep == ASSUME DeliveryInv, NEW c \in Calls, Del!Send(c) PROVE DeliveryInv'
<1>. DEFINE q == IF request[c].pdf THEN [stage |-> "telling_supplier"] ELSE Del!Idle
<1>0. /\ DeliveryTyped /\ request[c] \in Request /\ request[c].stage = "sending" /\ request[c].pdf \in BOOLEAN
      /\ Del!Idle \in Request
  BY RequestIs DEF DeliveryInv, DeliveryTyped, Del!Send, Request, Del!Idle
<1>1. ~Telling(request[c]) /\ ~Completing(request[c])
  BY <1>0 DEF Telling, Completing
<1>2. CASE sending.state # "approved"
  BY <1>0, <1>1, <1>2, QuietStep DEF Del!Send, Del!Idle, Telling, Completing
<1>3. CASE sending.state = "approved"
  <2>1. q \in Request /\ ~Completing(q) /\ (Telling(q) <=> request[c].pdf)
    BY <1>0 DEF Request, Del!Idle, Telling, Completing
  <2>2. /\ Del!Go(c, q)
        /\ sending' = [sending EXCEPT !.state = "sent", !.sentAt = today]
        /\ check' = Del!Scheduled
        /\ untold' = IF request[c].pdf THEN untold ELSE untold \cup {"supplier"}
        /\ UNCHANGED <<letters, editing, today, alive>>
    BY <1>3 DEF Del!Send
  <2>. HIDE DEF q
  <2>3. /\ request' \in [Calls -> Request] /\ request'[c] = q
        /\ \A d \in Calls \ {c} : request'[d] = request[d]
    BY <1>0, <2>1, <2>2, Went
  <2>4. /\ sending' \in Sending /\ sending'.state = "sent" /\ sending'.sentAt = today /\ sending'.sentAt # Del!Never
        /\ sending'.settled = sending.settled /\ sending'.moved = sending.moved
        /\ sending'.expected = sending.expected /\ sending.expected \in Nat
        /\ today \in Nat /\ sending.sentAt = Del!Never /\ sending.settled = Del!Never
    <3>1. today \in 0..MaxDay /\ today \in 0..Del!Never /\ today # Del!Never /\ today \in Nat
      BY <1>0, Numbers DEF DeliveryTyped
    <3>2. sending \in Sending /\ sending.expected \in Nat
      BY <1>0, Numbers DEF DeliveryTyped, Sending
    <3>3. sending' \in Sending
      BY <2>2, <3>1, <3>2 DEF Sending
    <3>4. sending.sentAt = Del!Never /\ sending.settled = Del!Never
      BY <1>3 DEF DeliveryInv, OrderOK
    <3>. QED  BY <2>2, <3>1, <3>2, <3>3, <3>4 DEF Sending
  <2>5. /\ check' \in DeliveryCheck
        /\ \/ check'.stage = "none" /\ today >= sending.expected + Grace
           \/ check'.stage = "scheduling" /\ check'.due = sending.expected + Grace
    BY <2>2, <2>4, Numbers DEF Del!Scheduled, DeliveryCheck, Del!NoCheck
  <2>6. check.stage = "none"
    BY <2>4, <1>0, CheckIs DEF DeliveryInv, CheckOK, DeliveryTyped
  <2>7. DeliveryTyped'
    BY <1>0, <2>2, <2>3, <2>4, <2>5 DEF DeliveryTyped
  <2>8. OrderOK'
    BY <2>2, <2>4 DEF DeliveryInv, OrderOK, Del!Awaited
  <2>9. SupplierOK'
    BY <1>0, <1>1, <2>1, <2>2, <2>3, <2>4 DEF DeliveryInv, SupplierOK, DeliveryTyped
  <2>10. CreatorOK'
    BY <1>1, <1>3, <2>1, <2>2, <2>3, <2>4 DEF DeliveryInv, CreatorOK
  <2>11. LettersOK'
    BY <2>2, <2>5, <2>6 DEF DeliveryInv, LettersOK
  <2>12. CheckOK'
    BY <2>2, <2>4, <2>5, <2>6 DEF DeliveryInv, CheckOK, LettersOK
  <2>13. LookedAfter'
    BY <2>4, <2>5 DEF LookedAfter
  <2>. QED  BY <2>7, <2>8, <2>9, <2>10, <2>11, <2>12, <2>13 DEF DeliveryInv
<1>. QED  BY <1>2, <1>3

LEMMA TellSupplierStep ==
    ASSUME DeliveryInv, NEW c \in Calls, NEW queued \in BOOLEAN, Del!TellSupplier(c, queued)
    PROVE  DeliveryInv'
<1>0. DeliveryTyped /\ Del!Idle \in Request /\ ~Telling(Del!Idle) /\ ~Completing(Del!Idle)
  BY DEF DeliveryInv, Request, Del!Idle, Telling, Completing
<1>1. Telling(request[c]) /\ ~Completing(request[c])
  BY DEF Del!TellSupplier, Telling, Completing
<1>2. /\ request' \in [Calls -> Request] /\ request'[c] = Del!Idle
      /\ \A d \in Calls \ {c} : request'[d] = request[d]
  BY <1>0, Went DEF Del!TellSupplier
<1>3. letters.supplier = 0 /\ sending.sentAt # Del!Never /\ \A d \in Calls \ {c} : ~Telling(request[d])
  BY <1>1 DEF DeliveryInv, SupplierOK
<1>4. /\ letters' \in [supplier: {0, 1}, creator: {0, 1}, manager: [Managers -> Nat]]
      /\ letters'.creator = letters.creator /\ letters'.manager = letters.manager
      /\ IF queued THEN letters'.supplier = 1 /\ untold' = untold
                   ELSE letters'.supplier = 0 /\ untold' = untold \cup {"supplier"}
  BY <1>0, <1>3 DEF DeliveryTyped, Del!TellSupplier
<1>5. DeliveryTyped'
  BY <1>0, <1>2, <1>4 DEF DeliveryTyped, Del!TellSupplier
<1>6. SupplierOK'
  BY <1>0, <1>2, <1>3, <1>4 DEF SupplierOK, Del!TellSupplier
<1>7. CreatorOK'
  BY <1>0, <1>1, <1>2, <1>4 DEF DeliveryInv, CreatorOK, Del!TellSupplier
<1>8. OrderOK' /\ LettersOK' /\ CheckOK' /\ LookedAfter'
  BY <1>4 DEF DeliveryInv, OrderOK, LettersOK, CheckOK, LookedAfter, Del!Late, Del!TellSupplier
<1>. QED  BY <1>5, <1>6, <1>7, <1>8 DEF DeliveryInv

LEMMA TellCreatorStep ==
    ASSUME DeliveryInv, NEW c \in Calls, NEW queued \in BOOLEAN, Del!TellCreator(c, queued)
    PROVE  DeliveryInv'
<1>0. DeliveryTyped /\ Del!Idle \in Request /\ ~Telling(Del!Idle) /\ ~Completing(Del!Idle)
  BY DEF DeliveryInv, Request, Del!Idle, Telling, Completing
<1>1. ~Telling(request[c]) /\ Completing(request[c])
  BY DEF Del!TellCreator, Telling, Completing
<1>2. /\ request' \in [Calls -> Request] /\ request'[c] = Del!Idle
      /\ \A d \in Calls \ {c} : request'[d] = request[d]
  BY <1>0, Went DEF Del!TellCreator
<1>3. /\ letters.creator = 0 /\ sending.state = "fully_received"
      /\ \A d \in Calls \ {c} : ~Completing(request[d])
  BY <1>1 DEF DeliveryInv, CreatorOK
<1>4. /\ letters' \in [supplier: {0, 1}, creator: {0, 1}, manager: [Managers -> Nat]]
      /\ letters'.supplier = letters.supplier /\ letters'.manager = letters.manager
      /\ IF queued THEN letters'.creator = 1 /\ untold' = untold
                   ELSE letters'.creator = 0 /\ untold' = untold \cup {"creator"}
  BY <1>0, <1>3 DEF DeliveryTyped, Del!TellCreator
<1>5. DeliveryTyped'
  BY <1>0, <1>2, <1>4 DEF DeliveryTyped, Del!TellCreator
<1>6. CreatorOK'
  BY <1>0, <1>2, <1>3, <1>4 DEF CreatorOK, Del!TellCreator
<1>7. SupplierOK'
  BY <1>0, <1>1, <1>2, <1>4 DEF DeliveryInv, SupplierOK, Del!TellCreator
<1>8. OrderOK' /\ LettersOK' /\ CheckOK' /\ LookedAfter'
  BY <1>4 DEF DeliveryInv, OrderOK, LettersOK, CheckOK, LookedAfter, Del!Late, Del!TellCreator
<1>. QED  BY <1>5, <1>6, <1>7, <1>8 DEF DeliveryInv

LEMMA ScheduleStep ==
    ASSUME DeliveryInv, NEW queued \in BOOLEAN, Del!Schedule(queued)
    PROVE  DeliveryInv'
<1>0. /\ DeliveryTyped /\ check \in DeliveryCheck /\ check.stage = "scheduling"
      /\ sending.sentAt # Del!Never
  BY DEF DeliveryInv, DeliveryTyped, Del!Schedule, CheckOK
<1>1. /\ check' \in DeliveryCheck
      /\ \/ check'.stage = "queued" /\ check'.due = check.due /\ check'.stalled = check.stalled
            /\ untold' = untold
         \/ check'.stage = "none" /\ untold' = untold \cup {"check"}
  BY <1>0, CheckIs DEF Del!Schedule, DeliveryCheck, Del!NoCheck
<1>2. /\ check.stalled \in Nat
      /\ \A m \in Managers : letters.manager[m] = 0
  BY <1>0, CheckIs, Numbers DEF DeliveryInv, LettersOK
<1>3. DeliveryTyped'
  BY <1>0, <1>1 DEF DeliveryTyped, Del!Schedule
<1>4. OrderOK' /\ SupplierOK' /\ CreatorOK'
  BY <1>1 DEF DeliveryInv, OrderOK, SupplierOK, CreatorOK, Del!Schedule
<1>5. LettersOK'
  BY <1>1, <1>2 DEF LettersOK, Del!Schedule
<1>6. CheckOK'
  BY <1>0, <1>1, <1>2 DEF DeliveryInv, CheckOK, Del!Schedule
<1>7. LookedAfter'
  BY <1>1 DEF LookedAfter, Del!Schedule
<1>. QED  BY <1>3, <1>4, <1>5, <1>6, <1>7 DEF DeliveryInv

LEMMA LateEditStep ==
    ASSUME DeliveryInv, NEW expected \in DueDays, Del!LateEdit(expected)
    PROVE  DeliveryInv'
<1>0. DeliveryTyped /\ sending \in Sending /\ sending.moved = FALSE
  BY DEF DeliveryInv, DeliveryTyped, Del!LateEdit, OrderOK, Sending
<1>1. /\ sending' \in Sending
      /\ sending'.state = sending.state /\ sending'.sentAt = sending.sentAt
      /\ sending'.settled = sending.settled /\ sending'.expected = expected
      /\ sending'.moved = (sending.sentAt # Del!Never /\ expected # sending.expected)
  BY <1>0 DEF Del!LateEdit, Sending
<1>2. /\ request' = request /\ check' = check /\ letters' = letters /\ untold' = untold /\ today' = today
      /\ editing' = FALSE /\ alive' = alive
  BY DEF Del!LateEdit
<1>3. DeliveryTyped' /\ OrderOK'
  BY <1>0, <1>1, <1>2 DEF DeliveryInv, DeliveryTyped, OrderOK
<1>4. SupplierOK' /\ CreatorOK' /\ LettersOK'
  BY <1>1, <1>2 DEF DeliveryInv, SupplierOK, CreatorOK, LettersOK
<1>5. CASE sending'.moved
  BY <1>0, <1>1, <1>2, <1>3, <1>4, <1>5 DEF DeliveryInv, CheckOK, LookedAfter
<1>6. CASE sending.sentAt # Del!Never /\ expected = sending.expected
  <2>1. CheckOK' /\ LookedAfter'
    BY <1>0, <1>1, <1>2, <1>6 DEF DeliveryInv, CheckOK, LookedAfter, Del!Late
  <2>. QED  BY <1>3, <1>4, <2>1 DEF DeliveryInv
<1>7. CASE sending.sentAt = Del!Never
  <2>1. check.stage = "none" /\ sending.state \notin Del!Awaited
    BY <1>7 DEF DeliveryInv, CheckOK, OrderOK
  <2>2. \A m \in Managers : letters.manager[m] = 0
    BY <2>1 DEF DeliveryInv, LettersOK
  <2>3. CheckOK' /\ LookedAfter'
    BY <1>1, <1>2, <2>1, <2>2 DEF CheckOK, LookedAfter
  <2>. QED  BY <1>3, <1>4, <2>3 DEF DeliveryInv
<1>. QED  BY <1>1, <1>5, <1>6, <1>7

LEMMA ReceiveStep ==
    ASSUME DeliveryInv, NEW c \in Calls, NEW quantity \in 1..Ordered, Del!Receive(c, quantity)
    PROVE  DeliveryInv'
<1>. DEFINE full == sending.left = quantity
            q == [stage |-> "received", full |-> full]
<1>0. /\ DeliveryTyped /\ sending \in Sending /\ sending.state \in Del!Awaited /\ quantity <= sending.left
      /\ request[c].stage = "idle"
  BY DEF DeliveryInv, DeliveryTyped, Del!Receive, Del!Idle
<1>1. q \in Request /\ ~Telling(q) /\ (Completing(q) <=> full)
  BY DEF Request, Telling, Completing
<1>2. ~Telling(request[c]) /\ ~Completing(request[c])
  BY <1>0 DEF Telling, Completing
<1>3. Del!Go(c, q)
  BY DEF Del!Receive
<1>4. /\ sending' \in Sending
      /\ sending'.expected = sending.expected /\ sending'.sentAt = sending.sentAt
      /\ sending'.moved = sending.moved /\ sending.settled = Del!Never /\ sending.sentAt # Del!Never
      /\ IF full THEN sending'.state = "fully_received" /\ sending'.settled = today
                 ELSE sending'.state = "partially_received" /\ sending'.settled = Del!Never
  <2>1. /\ today \in 0..Del!Never /\ Del!Never \in 0..Del!Never
        /\ sending.left - quantity \in 0..Ordered
    BY <1>0, Numbers DEF DeliveryTyped, Sending
  <2>2. sending.settled = Del!Never /\ sending.sentAt # Del!Never
    BY <1>0 DEF DeliveryInv, OrderOK
  <2>3. sending' = [sending EXCEPT !.left = sending.left - quantity,
                      !.state = IF full THEN "fully_received" ELSE "partially_received",
                      !.settled = IF full THEN today ELSE Del!Never]
    BY DEF Del!Receive
  <2>4. sending' \in Sending
    BY <1>0, <2>1, <2>3 DEF Sending
  <2>. QED  BY <1>0, <2>2, <2>3, <2>4 DEF Sending
<1>5. UNCHANGED <<check, letters, editing, today, untold, alive>>
  BY DEF Del!Receive
<1>. HIDE DEF q, full
<1>6. /\ request' \in [Calls -> Request] /\ request'[c] = q
      /\ \A d \in Calls \ {c} : request'[d] = request[d]
  BY <1>0, <1>1, <1>3, Went
<1>7. DeliveryTyped'
  BY <1>0, <1>4, <1>5, <1>6 DEF DeliveryTyped
<1>8. OrderOK' /\ LettersOK' /\ LookedAfter'
  BY <1>0, <1>4, <1>5 DEF DeliveryInv, OrderOK, LettersOK, LookedAfter, Del!Awaited
<1>9. SupplierOK'
  BY <1>1, <1>2, <1>4, <1>5, <1>6 DEF DeliveryInv, SupplierOK
<1>10. sending.state # "fully_received"
  BY <1>0 DEF Del!Awaited
<1>11. CreatorOK'
  BY <1>0, <1>1, <1>2, <1>4, <1>5, <1>6, <1>10 DEF DeliveryInv, CreatorOK, DeliveryTyped
<1>12. CheckOK'
  <2>1. sending.expected \in Nat /\ today \in Nat /\ Grace \in Nat
    BY <1>0, Dates
  <2>. QED  BY <1>4, <1>5, <2>1 DEF DeliveryInv, CheckOK, Del!Late
<1>. QED  BY <1>7, <1>8, <1>9, <1>11, <1>12 DEF DeliveryInv

LEMMA RereadStep == ASSUME DeliveryInv, NEW c \in Calls, Del!Reread(c) PROVE DeliveryInv'
<1>. DEFINE q == IF request[c].full THEN [stage |-> "telling_creator"] ELSE Del!Idle
<1>0. DeliveryTyped /\ request[c] \in Request /\ request[c].stage = "received" /\ request[c].full \in BOOLEAN
  BY RequestIs DEF DeliveryInv, DeliveryTyped, Del!Reread
<1>1. /\ q \in Request /\ Telling(q) = Telling(request[c])
      /\ Completing(q) = Completing(request[c])
  BY <1>0 DEF Request, Del!Idle, Telling, Completing
<1>. QED  BY <1>1, QuietStep DEF Del!Reread

LEMMA CancelStep == ASSUME DeliveryInv, Del!Cancel PROVE DeliveryInv'
<1>0. DeliveryTyped /\ sending \in Sending /\ sending.settled = Del!Never
  BY DEF DeliveryInv, DeliveryTyped, Del!Cancel, OrderOK
<1>1. /\ sending' \in Sending /\ sending'.state = "cancelled" /\ sending'.settled = today
      /\ sending'.expected = sending.expected /\ sending'.sentAt = sending.sentAt
      /\ sending'.moved = sending.moved
  <2>1. today \in 0..Del!Never
    BY <1>0, Numbers DEF DeliveryTyped
  <2>2. sending' = [sending EXCEPT !.state = "cancelled", !.settled = today]
    BY DEF Del!Cancel
  <2>. QED  BY <1>0, <2>1, <2>2 DEF Sending
<1>2. UNCHANGED <<request, check, letters, editing, today, untold, alive>>
  BY DEF Del!Cancel
<1>3. DeliveryTyped' /\ OrderOK' /\ SupplierOK' /\ LettersOK' /\ LookedAfter'
  BY <1>0, <1>1, <1>2 DEF DeliveryInv, DeliveryTyped, OrderOK, SupplierOK, LettersOK, LookedAfter, Del!Awaited
<1>4. CreatorOK'
  BY <1>0, <1>1, <1>2 DEF DeliveryInv, CreatorOK, Del!Cancel, Del!Awaited, DeliveryTyped
<1>5. CheckOK'
  <2>1. sending.expected \in Nat /\ today \in Nat /\ Grace \in Nat
    BY <1>0, Dates
  <2>. QED  BY <1>1, <1>2, <2>1 DEF DeliveryInv, CheckOK, Del!Late
<1>. QED  BY <1>3, <1>4, <1>5 DEF DeliveryInv

LEMMA NextDayStep == ASSUME DeliveryInv, Del!NextDay PROVE DeliveryInv'
<1>0. DeliveryTyped /\ today' = today + 1 /\ today < MaxDay /\ today \in Nat /\ sending.expected \in Nat /\ Grace \in Nat
  BY Dates DEF DeliveryInv, Del!NextDay
<1>1. DeliveryTyped'
  BY <1>0, Numbers DEF DeliveryTyped, Del!NextDay
<1>2. OrderOK' /\ SupplierOK' /\ CreatorOK' /\ LettersOK' /\ LookedAfter'
  BY DEF DeliveryInv, OrderOK, SupplierOK, CreatorOK, LettersOK, LookedAfter, Del!NextDay
<1>3. Del!Late => Del!Late'
  BY <1>0 DEF Del!Late, Del!NextDay
<1>4. check.stage # "none" => check.due \in Nat
  BY <1>0, CheckIs DEF DeliveryTyped
<1>5. CheckOK'
  BY <1>0, <1>3, <1>4 DEF DeliveryInv, CheckOK, Del!NextDay
<1>. QED  BY <1>1, <1>2, <1>5 DEF DeliveryInv

LEMMA PickUpStep == ASSUME DeliveryInv, Del!PickUp PROVE DeliveryInv'
<1>0. DeliveryTyped /\ check \in DeliveryCheck /\ check.stage = "queued" /\ check.due <= today
  BY DEF DeliveryInv, DeliveryTyped, Del!PickUp
<1>1. /\ check' \in DeliveryCheck /\ check'.stage = "reading" /\ check'.due = check.due
      /\ check'.stalled = check.stalled
  BY <1>0, CheckIs DEF Del!PickUp, DeliveryCheck
<1>2. DeliveryTyped' /\ OrderOK' /\ SupplierOK' /\ CreatorOK'
  BY <1>0, <1>1 DEF DeliveryInv, DeliveryTyped, OrderOK, SupplierOK, CreatorOK, Del!PickUp
<1>3. LettersOK' /\ CheckOK' /\ LookedAfter'
  BY <1>0, <1>1 DEF DeliveryInv, LettersOK, CheckOK, LookedAfter, Del!Late, Del!PickUp
<1>. QED  BY <1>2, <1>3 DEF DeliveryInv

LEMMA ReadOrderStep == ASSUME DeliveryInv, Del!ReadOrder PROVE DeliveryInv'
<1>0. /\ DeliveryTyped /\ check \in DeliveryCheck /\ check.stage = "reading"
      /\ sending.expected \in Nat /\ today \in Nat /\ today <= MaxDay /\ Grace \in Nat
      /\ check.stalled \in Nat /\ check.due \in Nat /\ Del!Never > MaxDay /\ Del!Never \in Nat /\ MaxDay \in Nat
  BY Dates, CheckIs, Numbers DEF DeliveryInv, DeliveryTyped, Del!ReadOrder
<1>1. UNCHANGED <<sending, request, letters, editing, today, untold, alive>>
  BY DEF Del!ReadOrder
<1>2. ASSUME check' \in DeliveryCheck PROVE DeliveryTyped' /\ OrderOK' /\ SupplierOK' /\ CreatorOK'
  BY <1>0, <1>1, <1>2 DEF DeliveryInv, DeliveryTyped, OrderOK, SupplierOK, CreatorOK
<1>3. CASE sending.state \in Del!Awaited /\ Del!Late
  <2>1. /\ check' \in DeliveryCheck /\ check'.stage = "alerting" /\ check'.due = check.due
        /\ check'.stalled = check.stalled /\ check'.left = Managers
    BY <1>0, <1>3, CheckIs DEF Del!ReadOrder, DeliveryCheck
  <2>2. LettersOK' /\ LookedAfter'
    BY <1>0, <1>1, <2>1 DEF DeliveryInv, LettersOK, LookedAfter
  <2>3. sending.settled = Del!Never
    BY <1>3 DEF DeliveryInv, OrderOK
  <2>4. sending.settled >= sending.expected + Grace
    BY <1>0, <1>3, <2>3 DEF Del!Late
  <2>5. CheckOK'
    BY <1>0, <1>1, <1>3, <2>1, <2>4 DEF DeliveryInv, CheckOK, Del!Late
  <2>. QED  BY <1>2, <2>1, <2>2, <2>5 DEF DeliveryInv
<1>4. CASE ~(sending.state \in Del!Awaited /\ Del!Late)
  <2>1. /\ check' \in DeliveryCheck /\ check'.stage = "done" /\ check'.due = check.due
        /\ check'.stalled = check.stalled
    BY <1>0, <1>4, CheckIs DEF Del!ReadOrder, DeliveryCheck
  <2>2. LettersOK'
    <3>1. \A m \in Managers : letters.manager[m] \in Nat
      BY <1>0 DEF DeliveryTyped
    <3>. QED  BY <1>0, <1>1, <2>1, <3>1 DEF DeliveryInv, LettersOK
  <2>3. CheckOK'
    BY <1>0, <1>1, <2>1 DEF DeliveryInv, CheckOK, Del!Late
  <2>4. sending.state \notin Del!Awaited \/ sending.moved
    BY <1>0, <1>4 DEF DeliveryInv, CheckOK, Del!Late
  <2>5. LookedAfter'
    BY <1>1, <2>4 DEF LookedAfter
  <2>. QED  BY <1>2, <2>1, <2>2, <2>3, <2>5 DEF DeliveryInv
<1>. QED  BY <1>3, <1>4

LEMMA AlertOneStep ==
    ASSUME DeliveryInv, NEW m \in Managers, NEW queued \in BOOLEAN, Del!AlertOne(m, queued)
    PROVE  DeliveryInv'
<1>0. /\ DeliveryTyped /\ check \in DeliveryCheck /\ check.stage = "alerting" /\ m \in check.left
      /\ check.left \in SUBSET Managers /\ check.stalled \in Nat
      /\ \A n \in Managers : letters.manager[n] \in Nat
  BY CheckIs, Numbers DEF DeliveryInv, DeliveryTyped, Del!AlertOne
<1>1. UNCHANGED <<sending, request, editing, today, alive>>
  BY DEF Del!AlertOne
<1>2. CASE queued
  <2>1. /\ letters' \in [supplier: {0, 1}, creator: {0, 1}, manager: [Managers -> Nat]]
        /\ letters'.supplier = letters.supplier /\ letters'.creator = letters.creator
        /\ letters'.manager[m] = letters.manager[m] + 1
        /\ \A n \in Managers \ {m} : letters'.manager[n] = letters.manager[n]
    BY <1>0, <1>2 DEF DeliveryTyped, Del!AlertOne
  <2>2. /\ check' \in DeliveryCheck /\ check'.due = check.due /\ check'.stalled = check.stalled
        /\ check'.left = check.left \ {m} /\ untold' = untold
        /\ check'.stage = IF check.left = {m} THEN "done" ELSE "alerting"
    BY <1>0, <1>2, CheckIs DEF Del!AlertOne, DeliveryCheck
  <2>3. DeliveryTyped' /\ OrderOK' /\ SupplierOK' /\ CreatorOK'
    BY <1>0, <1>1, <2>1, <2>2 DEF DeliveryInv, DeliveryTyped, OrderOK, SupplierOK, CreatorOK
  <2>4. LettersOK'
    BY <1>0, <2>1, <2>2 DEF DeliveryInv, LettersOK
  <2>5. CheckOK'
    BY <1>0, <1>1, <2>1, <2>2 DEF DeliveryInv, CheckOK, Del!Late
  <2>6. check.left = {m} => \A n \in Managers : letters'.manager[n] >= 1
    BY <1>0, <2>1 DEF DeliveryInv, LettersOK
  <2>7. LookedAfter'
    BY <2>2, <2>6 DEF LookedAfter
  <2>. QED  BY <2>3, <2>4, <2>5, <2>7 DEF DeliveryInv
<1>3. CASE ~queued
  <2>1. /\ check' \in DeliveryCheck /\ check'.due = check.due /\ check'.stalled = check.stalled
        /\ check'.stage = "done" /\ untold' = untold \cup {"check"} /\ letters' = letters
    BY <1>0, <1>3, CheckIs DEF Del!AlertOne, DeliveryCheck
  <2>2. DeliveryTyped' /\ OrderOK' /\ SupplierOK' /\ CreatorOK'
    BY <1>0, <1>1, <2>1 DEF DeliveryInv, DeliveryTyped, OrderOK, SupplierOK, CreatorOK
  <2>3. LettersOK'
    BY <1>0, <2>1 DEF DeliveryInv, LettersOK
  <2>4. CheckOK' /\ LookedAfter'
    BY <1>0, <1>1, <2>1 DEF DeliveryInv, CheckOK, LookedAfter, Del!Late
  <2>. QED  BY <2>2, <2>3, <2>4 DEF DeliveryInv
<1>. QED  BY <1>2, <1>3

(* The check ends or starts over, and had the managers some mails before.  *)
LEMMA EndStep ==
    ASSUME DeliveryInv, check.stage \in {"reading", "alerting"},
           UNCHANGED <<sending, request, letters, editing, today, alive>>,
           check' \in DeliveryCheck, check'.due = check.due,
           \/ /\ check'.stage = "done" /\ check'.stalled = check.stalled
              /\ untold' = untold \cup {"check"}
           \/ /\ check'.stage = "queued" /\ check'.stalled = check.stalled + 1
              /\ untold' = untold
    PROVE  DeliveryInv'
<1>0. /\ DeliveryTyped /\ check \in DeliveryCheck /\ check.stalled \in Nat
      /\ \A n \in Managers : letters.manager[n] \in Nat
  BY CheckIs, Numbers DEF DeliveryInv, DeliveryTyped
<1>1. DeliveryTyped' /\ OrderOK' /\ SupplierOK' /\ CreatorOK'
  BY <1>0 DEF DeliveryInv, DeliveryTyped, OrderOK, SupplierOK, CreatorOK
<1>2. \A m \in Managers : letters.manager[m] <= check.stalled + 1
  BY <1>0 DEF DeliveryInv, LettersOK
<1>3. LettersOK'
  BY <1>0, <1>2 DEF LettersOK
<1>4. CheckOK' /\ LookedAfter'
  BY DEF DeliveryInv, CheckOK, LookedAfter, Del!Late
<1>. QED  BY <1>1, <1>3, <1>4 DEF DeliveryInv

LEMMA CheckFailsStep == ASSUME DeliveryInv, Del!CheckFails PROVE DeliveryInv'
<1>0. check \in DeliveryCheck /\ check.stage = "reading"
  BY DEF DeliveryInv, DeliveryTyped, Del!CheckFails
<1>1. /\ check' \in DeliveryCheck /\ check'.stage = "done" /\ check'.due = check.due
      /\ check'.stalled = check.stalled
  BY <1>0, CheckIs DEF Del!CheckFails, DeliveryCheck
<1>. QED  BY <1>0, <1>1, EndStep DEF Del!CheckFails

LEMMA StallStep == ASSUME DeliveryInv, Del!Stall PROVE DeliveryInv'
<1>0. check \in DeliveryCheck /\ check.stage \in {"reading", "alerting"}
  BY DEF DeliveryInv, DeliveryTyped, Del!Stall
<1>1. CASE check.stalled < Stalls
  <2>1. check.stalled + 1 \in 0..Stalls /\ check.due \in Nat
    BY <1>0, <1>1, CheckIs, Numbers
  <2>2. check' = [stage |-> "queued", due |-> check.due, stalled |-> check.stalled + 1]
    BY <1>1 DEF Del!Stall
  <2>3. check' \in DeliveryCheck
    BY <2>1, <2>2 DEF DeliveryCheck
  <2>. QED  BY <1>0, <1>1, <2>2, <2>3, EndStep DEF Del!Stall
<1>2. CASE ~(check.stalled < Stalls)
  <2>1. /\ check' \in DeliveryCheck /\ check'.stage = "done" /\ check'.due = check.due
        /\ check'.stalled = check.stalled
    BY <1>0, <1>2, CheckIs DEF Del!Stall, DeliveryCheck
  <2>. QED  BY <1>0, <1>2, <2>1, EndStep DEF Del!Stall
<1>. QED  BY <1>1, <1>2

LEMMA DieStep == ASSUME DeliveryInv, Del!Die PROVE DeliveryInv'
<1>0. DeliveryTyped /\ check \in DeliveryCheck
  BY DEF DeliveryInv, DeliveryTyped
<1>1. /\ request' \in [Calls -> Request]
      /\ \A c \in Calls : ~Telling(request'[c]) /\ ~Completing(request'[c])
  BY DEF Del!Die, Del!Idle, Request, Telling, Completing
<1>2. /\ untold \subseteq untold' /\ untold' \subseteq {"supplier", "creator", "check"}
      /\ (\E c \in Calls : Telling(request[c])) => "supplier" \in untold'
      /\ (\E c \in Calls : Completing(request[c])) => "creator" \in untold'
      /\ check.stage = "scheduling" => "check" \in untold'
  BY <1>0 DEF Del!Die, DeliveryTyped, Telling, Completing
<1>3. /\ UNCHANGED <<sending, letters, today>> /\ editing' = FALSE /\ alive' = FALSE
      /\ check' = IF check.stage = "scheduling" THEN Del!NoCheck ELSE check
      /\ check' \in DeliveryCheck
      /\ Del!NoCheck.stage = "none"
  BY <1>0 DEF Del!Die, DeliveryCheck, Del!NoCheck
<1>4. DeliveryTyped' /\ OrderOK'
  BY <1>0, <1>1, <1>2, <1>3 DEF DeliveryInv, DeliveryTyped, OrderOK
<1>5. SupplierOK' /\ CreatorOK'
  BY <1>1, <1>2, <1>3 DEF DeliveryInv, SupplierOK, CreatorOK
<1>6. LettersOK' /\ CheckOK' /\ LookedAfter'
  BY <1>2, <1>3 DEF DeliveryInv, LettersOK, CheckOK, LookedAfter, Del!Late
<1>. QED  BY <1>4, <1>5, <1>6 DEF DeliveryInv

LEMMA StutterStep == ASSUME DeliveryInv, UNCHANGED Del!vars PROVE DeliveryInv'
BY DEF DeliveryInv, DeliveryTyped, OrderOK, SupplierOK, CreatorOK, LettersOK, CheckOK, LookedAfter, Del!Late, Del!vars

LEMMA DeliveryNext == ASSUME DeliveryInv, [Del!Next]_(Del!vars) PROVE DeliveryInv'
BY BeginSendStep, SendStep, RereadStep, RenderStep, TellSupplierStep, TellCreatorStep, ReceiveStep,
   ScheduleStep, LateEditStep, AlertOneStep, CancelStep, NextDayStep, PickUpStep, ReadOrderStep,
   CheckFailsStep, StallStep, DieStep, StutterStep
DEF Del!Next

LEMMA DeliveryInvKeeps == ASSUME DeliveryInv PROVE Del!SupplierToldOnce /\ Del!CreatorToldOnce /\ Del!OverdueAlerted
<1>0. DeliveryTyped /\ check \in DeliveryCheck /\ (check.stage # "none" => check.stalled \in Nat)
      /\ (check = Del!NoCheck <=> check.stage = "none")
      /\ check.stage \in {"none", "scheduling", "queued", "reading", "alerting", "done"}
  BY CheckIs, Numbers DEF DeliveryInv, DeliveryTyped
<1>1. Del!SupplierToldOnce
  BY <1>0 DEF DeliveryInv, DeliveryTyped, SupplierOK, Del!SupplierToldOnce, Del!Busy, Telling
<1>2. Del!CreatorToldOnce
  BY <1>0 DEF DeliveryInv, DeliveryTyped, CreatorOK, Del!CreatorToldOnce, Completing
<1>3. Del!OverdueAlerted
  <2>1. ASSUME NEW m \in Managers
        PROVE  letters.manager[m] <= 1 + (IF check = Del!NoCheck THEN 0 ELSE check.stalled)
    <3>1. letters.manager[m] \in Nat
      BY <1>0 DEF DeliveryTyped
    <3>. QED  BY <1>0, <3>1 DEF DeliveryInv, LettersOK
  <2>2. ASSUME NEW m \in Managers, letters.manager[m] >= 1
        PROVE  sending.moved \/ sending.settled >= sending.expected + Grace
    BY <2>2 DEF DeliveryInv, CheckOK
  <2>. QED  BY <2>1, <2>2 DEF DeliveryInv, LookedAfter, Del!OverdueAlerted
<1>. QED  BY <1>1, <1>2, <1>3

-----------------------------------------------------------------------------
(***************************************************************************)
(* The spending. A sum is a number of units, so that the sizes of the      *)
(* parts of a set add up to its size; from this the reports agree, and the *)
(* payments to come are counted once. The scores are compared as           *)
(* quotients, and what is committed stays so unless an order is cancelled. *)
(***************************************************************************)
(* The sizes these modules speak of are sizes.                             *)
LEMMA SpeSizes ==
    /\ \A S : Spe!IsFiniteSet(S) = IsFiniteSet(S)
    /\ \A S : Spe!Cardinality(S) = Cardinality(S)
<1>1. \A S : Spe!IsFiniteSet(S) = IsFiniteSet(S)
  BY DEF Spe!IsFiniteSet, IsFiniteSet
<1>2. \A S : Spe!Cardinality(S) = Cardinality(S)
  BY DEF Spe!Cardinality, Cardinality
<1>. QED  BY <1>1, <1>2

-----------------------------------------------------------------------------
(* Sums of natural numbers, which count pairs.                             *)

LEMMA LeastOf ==
    ASSUME NEW T \in SUBSET Nat, T # {}
    PROVE  \E m \in T : \A n \in T : m <= n
<1> DEFINE R == OpToRel(<, Nat)
<1>1. \A m, n \in Nat : <<m, n>> \in R <=> m < n
  BY DEF OpToRel
<1>2. IsWellFoundedOn(R, Nat)
  BY NatLessThanWellFounded
<1> HIDE DEF R
<1>3. PICK m \in T : \A n \in T : ~ (<<n, m>> \in R)
  BY <1>2, WFMin
<1>4. \A n \in T : ~ (n < m)
  BY <1>1, <1>3
<1>. QED  BY <1>4

LEMMA SumIs == \A f : Spe!Sum(f) = Cardinality(Spe!Units(f))
BY SpeSizes DEF Spe!Sum

LEMMA UnitsAre ==
    ASSUME NEW f
    PROVE  \A p : p \in Spe!Units(f) <=> \E x \in DOMAIN f : \E u \in 1..f[x] : p = <<x, u>>
BY DEF Spe!Units

LEMMA SumNat ==
    ASSUME NEW f, IsFiniteSet(DOMAIN f), \A x \in DOMAIN f : f[x] \in Nat
    PROVE  IsFiniteSet(Spe!Units(f)) /\ Spe!Sum(f) \in Nat
<1> DEFINE Column == [x \in DOMAIN f |-> {x} \X (1..f[x])]
           Columns == {{x} \X (1..f[x]) : x \in DOMAIN f}
<1>1. Column \in Surjection(DOMAIN f, Columns)
  BY DEF Surjection
<1>2. IsFiniteSet(Columns)
  <2> HIDE DEF Column, Columns
  <2>. QED  BY <1>1, FS_Surjection
<1>3. ASSUME NEW x \in DOMAIN f
      PROVE  IsFiniteSet({x} \X (1..f[x]))
  <2>1. IsFiniteSet({x})
    BY FS_Singleton
  <2>2. 1 \in Int /\ f[x] \in Int
    OBVIOUS
  <2>3. IsFiniteSet(1..f[x])
    BY <2>2, FS_Interval
  <2>. QED  BY <2>1, <2>3, FS_Product
<1>4. \A T \in Columns : IsFiniteSet(T)
  BY <1>3
<1>5. IsFiniteSet(Spe!Units(f))
  <2> HIDE DEF Columns
  <2>1. IsFiniteSet(UNION Columns)
    BY <1>2, <1>4, FS_UNION
  <2>. QED  BY <2>1 DEF Columns, Spe!Units
<1>. QED  BY <1>5, FS_CardinalityType, SumIs

(* The sizes of the parts of a set add up to its size.                     *)
LEMMA SizesOfParts ==
    ASSUME NEW S, IsFiniteSet(S), NEW I, IsFiniteSet(I), NEW pile,
           \A i \in I : pile[i] \subseteq S,
           \A x \in S : \E i \in I : x \in pile[i],
           \A i, j \in I : \A x : x \in pile[i] /\ x \in pile[j] => i = j
    PROVE  Spe!Sum([i \in I |-> Cardinality(pile[i])]) = Cardinality(S)
<1> DEFINE g == [i \in I |-> Cardinality(pile[i])]
           b == [i \in I |-> CHOOSE h : h \in Bijection(1..g[i], pile[i])]
           k == [p \in Spe!Units(g) |-> b[p[1]][p[2]]]
<1>1. ASSUME NEW i \in I
      PROVE  g[i] \in Nat /\ b[i] \in Bijection(1..g[i], pile[i])
  <2>1. IsFiniteSet(pile[i])
    BY FS_Subset
  <2>2. g[i] \in Nat /\ ExistsBijection(1..g[i], pile[i])
    BY <2>1, FS_CardinalityType
  <2>3. \E h : h \in Bijection(1..g[i], pile[i])
    BY <2>2 DEF ExistsBijection
  <2>. QED  BY <2>2, <2>3
<1>2. ASSUME NEW i \in I
      PROVE  /\ \A u \in 1..g[i] : b[i][u] \in pile[i]
             /\ \A u, v \in 1..g[i] : b[i][u] = b[i][v] => u = v
             /\ \A x \in pile[i] : \E u \in 1..g[i] : b[i][u] = x
  <2> HIDE DEF b, g
  <2>. QED  BY <1>1 DEF Bijection, Injection, Surjection, IsInjective
<1>3. DOMAIN g = I
  OBVIOUS
<1>4. \A p : p \in Spe!Units(g) <=> \E i \in I : \E u \in 1..g[i] : p = <<i, u>>
  BY <1>3, UnitsAre
<1>5. IsFiniteSet(Spe!Units(g))
  BY <1>1, SumNat
<1> HIDE DEF g, b
<1>6. k \in [Spe!Units(g) -> S]
  <2> SUFFICES ASSUME NEW p \in Spe!Units(g) PROVE b[p[1]][p[2]] \in S
    OBVIOUS
  <2>1. PICK i \in I : \E u \in 1..g[i] : p = <<i, u>>
    BY <1>4
  <2>2. PICK u \in 1..g[i] : p = <<i, u>>
    BY <2>1
  <2>. QED  BY <1>2, <2>2
<1>7. \A p, q \in Spe!Units(g) : k[p] = k[q] => p = q
  <2> SUFFICES ASSUME NEW p \in Spe!Units(g), NEW q \in Spe!Units(g), k[p] = k[q] PROVE p = q
    OBVIOUS
  <2>1. PICK i \in I : \E u \in 1..g[i] : p = <<i, u>>
    BY <1>4
  <2>2. PICK u \in 1..g[i] : p = <<i, u>>
    BY <2>1
  <2>3. PICK j \in I : \E v \in 1..g[j] : q = <<j, v>>
    BY <1>4
  <2>4. PICK v \in 1..g[j] : q = <<j, v>>
    BY <2>3
  <2>5. b[i][u] = b[j][v]
    BY <2>2, <2>4
  <2>6. i = j
    BY <1>2, <2>5
  <2>. QED  BY <1>2, <2>2, <2>4, <2>5, <2>6
<1>8. \A x \in S : \E p \in Spe!Units(g) : k[p] = x
  <2> SUFFICES ASSUME NEW x \in S PROVE \E p \in Spe!Units(g) : k[p] = x
    OBVIOUS
  <2>1. PICK i \in I : x \in pile[i]
    OBVIOUS
  <2>2. PICK u \in 1..g[i] : b[i][u] = x
    BY <1>2, <2>1
  <2>3. <<i, u>> \in Spe!Units(g)
    BY <1>4
  <2>4. k[<<i, u>>] = x
    BY <2>2, <2>3
  <2>. QED  BY <2>3, <2>4
<1>9. k \in Bijection(Spe!Units(g), S)
  <2> HIDE DEF k
  <2>. QED  BY <1>6, <1>7, <1>8 DEF Bijection, Injection, Surjection, IsInjective
<1>10. Cardinality(S) = Cardinality(Spe!Units(g))
  <2> HIDE DEF k
  <2>. QED  BY <1>5, <1>9, FS_Bijection DEF ExistsBijection
<1>. QED  BY <1>10, SumIs DEF g

(* The sums over the parts of a set add up to the sum over it.             *)
LEMMA SumsOfParts ==
    ASSUME NEW f, IsFiniteSet(DOMAIN f), \A x \in DOMAIN f : f[x] \in Nat,
           NEW I, IsFiniteSet(I), NEW pile,
           \A i \in I : pile[i] \subseteq DOMAIN f,
           \A x \in DOMAIN f : \E i \in I : x \in pile[i],
           \A i, j \in I : \A x : x \in pile[i] /\ x \in pile[j] => i = j
    PROVE  Spe!Sum([i \in I |-> Spe!Sum([x \in pile[i] |-> f[x]])]) = Spe!Sum(f)
<1> DEFINE On(i) == [x \in pile[i] |-> f[x]]
           units == [i \in I |-> Spe!Units(On(i))]
<1>1. \A i \in I : DOMAIN On(i) = pile[i] /\ \A x \in pile[i] : On(i)[x] = f[x]
  OBVIOUS
<1>2. ASSUME NEW i \in I
      PROVE  \A p : p \in units[i] <=> \E x \in pile[i] : \E u \in 1..f[x] : p = <<x, u>>
  <2>1. \A p : p \in Spe!Units(On(i)) <=>
                 \E x \in DOMAIN On(i) : \E u \in 1..On(i)[x] : p = <<x, u>>
    BY UnitsAre
  <2>2. units[i] = Spe!Units(On(i))
    OBVIOUS
  <2> HIDE DEF On, units
  <2>. QED  BY <1>1, <2>1, <2>2
<1>3. \A p : p \in Spe!Units(f) <=> \E x \in DOMAIN f : \E u \in 1..f[x] : p = <<x, u>>
  BY UnitsAre
<1>4. IsFiniteSet(Spe!Units(f))
  BY SumNat
<1> HIDE DEF units
<1>5. \A i \in I : units[i] \subseteq Spe!Units(f)
  BY <1>2, <1>3
<1>6. \A p \in Spe!Units(f) : \E i \in I : p \in units[i]
  <2> SUFFICES ASSUME NEW p \in Spe!Units(f) PROVE \E i \in I : p \in units[i]
    OBVIOUS
  <2>1. PICK x \in DOMAIN f : \E u \in 1..f[x] : p = <<x, u>>
    BY <1>3
  <2>2. PICK i \in I : x \in pile[i]
    OBVIOUS
  <2>. QED  BY <1>2, <2>1, <2>2
<1>7. \A i, j \in I : \A p : p \in units[i] /\ p \in units[j] => i = j
  BY <1>2
<1>8. Spe!Sum([i \in I |-> Cardinality(units[i])]) = Cardinality(Spe!Units(f))
  BY <1>4, <1>5, <1>6, <1>7, SizesOfParts
<1>9. \A i \in I : Cardinality(units[i]) = Spe!Sum([x \in pile[i] |-> f[x]])
  BY SumIs DEF units
<1>10. [i \in I |-> Cardinality(units[i])] = [i \in I |-> Spe!Sum([x \in pile[i] |-> f[x]])]
  BY <1>9
<1>. QED  BY <1>8, <1>10, SumIs

(* More arguments, and greater values, make a greater sum.                 *)
LEMMA SumGrows ==
    ASSUME NEW f, NEW g, IsFiniteSet(DOMAIN g), DOMAIN f \subseteq DOMAIN g,
           \A x \in DOMAIN g : g[x] \in Nat,
           \A x \in DOMAIN f : f[x] \in Nat /\ f[x] <= g[x]
    PROVE  Spe!Sum(f) <= Spe!Sum(g)
<1>1. /\ \A p : p \in Spe!Units(f) <=> \E x \in DOMAIN f : \E u \in 1..f[x] : p = <<x, u>>
      /\ \A p : p \in Spe!Units(g) <=> \E x \in DOMAIN g : \E u \in 1..g[x] : p = <<x, u>>
  BY UnitsAre
<1>2. \A x \in DOMAIN f : \A u \in 1..f[x] : x \in DOMAIN g /\ u \in 1..g[x]
  OBVIOUS
<1>3. Spe!Units(f) \subseteq Spe!Units(g)
  BY <1>1, <1>2
<1>4. IsFiniteSet(Spe!Units(g))
  BY SumNat
<1>. QED  BY <1>3, <1>4, FS_Subset, SumIs

(* The sum of a function that is constant.                                 *)
LEMMA SumOfSame ==
    ASSUME NEW S, IsFiniteSet(S), NEW n \in Nat
    PROVE  Spe!Sum([x \in S |-> n]) = Cardinality(S) * n
<1>1. Spe!Units([x \in S |-> n]) = S \X (1..n)
  BY DEF Spe!Units
<1>2. IsFiniteSet(1..n) /\ Cardinality(1..n) = n
  BY FS_Interval
<1>. QED  BY <1>1, <1>2, FS_Product, SumIs

-----------------------------------------------------------------------------
(* Quotients.                                                              *)

LEMMA QuotientIs ==
    ASSUME NEW n \in Nat, NEW k \in Nat \ {0}
    PROVE  /\ n \div k \in Nat
           /\ (n \div k) * k <= n /\ n < (n \div k + 1) * k
<1>1. n \div k \in Nat /\ n % k \in Nat /\ n % k < k
  OBVIOUS
<1>2. n = k * (n \div k) + (n % k)
  OBVIOUS
<1> DEFINE q == n \div k
           r == n % k
<1>3. q \in Nat /\ r \in Nat /\ r < k /\ n = k * q + r
  BY <1>1, <1>2
<1> HIDE DEF q, r
<1>4. q * k = k * q /\ (q + 1) * k = k * q + k
  BY <1>3
<1>5. q * k <= n /\ n < (q + 1) * k
  BY <1>3, <1>4
<1>. QED  BY <1>1, <1>5 DEF q

LEMMA ProductsGrow ==
    ASSUME NEW a \in Nat, NEW b \in Nat, NEW k \in Nat, a <= b
    PROVE  a * k <= b * k
<1>1. PICK c \in Nat : b = a + c
  <2>1. b - a \in Nat /\ b = a + (b - a)
    OBVIOUS
  <2>. QED  BY <2>1
<1>2. b * k = a * k + c * k
  BY <1>1
<1>3. c * k \in Nat /\ a * k \in Nat
  OBVIOUS
<1>. QED  BY <1>2, <1>3

LEMMA QuotientOnce ==
    ASSUME NEW n \in Nat, NEW k \in Nat \ {0}, NEW q \in Nat, q * k <= n, n < (q + 1) * k
    PROVE  q = n \div k
<1> DEFINE p == n \div k
<1>1. p \in Nat /\ p * k <= n /\ n < (p + 1) * k
  BY QuotientIs
<1> HIDE DEF p
<1>2. ~ (q + 1 <= p)
  <2>1. q + 1 <= p => (q + 1) * k <= p * k
    BY <1>1, ProductsGrow
  <2>2. q * k \in Nat /\ (q + 1) * k \in Nat /\ p * k \in Nat
    BY <1>1
  <2>. QED  BY <1>1, <2>1, <2>2
<1>3. ~ (p + 1 <= q)
  <2>1. p + 1 <= q => (p + 1) * k <= q * k
    BY <1>1, ProductsGrow
  <2>2. q * k \in Nat /\ (p + 1) * k \in Nat
    BY <1>1
  <2>. QED  BY <1>1, <2>1, <2>2
<1>4. q = p
  BY <1>1, <1>2, <1>3
<1>. QED  BY <1>4 DEF p

LEMMA QuotientsGrow ==
    ASSUME NEW m \in Nat, NEW n \in Nat, NEW k \in Nat \ {0}, m <= n
    PROVE  m \div k <= n \div k
<1> DEFINE p == m \div k
           q == n \div k
<1>1. p \in Nat /\ p * k <= m /\ q \in Nat /\ n < (q + 1) * k
  BY QuotientIs
<1> HIDE DEF p, q
<1>2. ~ (q + 1 <= p)
  <2>1. q + 1 <= p => (q + 1) * k <= p * k
    BY <1>1, ProductsGrow
  <2>2. (q + 1) * k \in Nat /\ p * k \in Nat
    BY <1>1
  <2>. QED  BY <1>1, <2>1, <2>2
<1>3. p <= q
  BY <1>1, <1>2
<1>. QED  BY <1>3 DEF p, q

-----------------------------------------------------------------------------
(* The stored orders and their lines.                                      *)

LEMMA Calendar ==
    /\ Month \in Nat /\ Month > 0 /\ Week \in Nat /\ Week > 0 /\ Horizon \in Nat /\ MaxClock \in Nat
    /\ MinSample \in Nat /\ MinSample > 0
    /\ Limits \subseteq Nat /\ Warning \in Nat /\ Warning <= 100
    /\ IsFiniteSet(Calls) /\ IsFiniteSet(Firms)
<1>1. Spe!CalendarAssumption
  BY RecordsAssumption
<1>2. IsFiniteSet(Calls) /\ IsFiniteSet(Firms)
  BY <1>1, SpeSizes DEF Spe!CalendarAssumption
<1>. QED  BY <1>1, <1>2 DEF Spe!CalendarAssumption

LEMMA ElementOf == \A S : \A s \in Seq(S) : \A i \in DOMAIN s : s[i] \in S
OBVIOUS

LEMMA DealIs ==
    ASSUME NEW d \in Deals
    PROVE  /\ d.currency \in Spe!Currencies /\ d.tax \in Nat /\ d.lead \in Nat /\ d.terms \in Nat
           /\ d.lines \in Seq([item: Goods, quantity: Nat, price: Nat])
           /\ DOMAIN d.lines = 1..Len(d.lines) /\ Len(d.lines) \in Nat /\ 1 \in DOMAIN d.lines
           /\ \A i \in DOMAIN d.lines :
                d.lines[i].item \in Goods /\ d.lines[i].quantity \in Nat /\ d.lines[i].price \in Nat
<1>1. /\ d.currency \in Spe!Currencies /\ d.tax \in Nat /\ d.lead \in Nat /\ d.terms \in Nat
      /\ d.lines \in Seq([item: Goods, quantity: Nat, price: Nat]) /\ d.lines # <<>>
  <2>1. Spe!CalendarAssumption
    BY RecordsAssumption
  <2>. QED  BY <2>1, SpeSizes DEF Spe!CalendarAssumption
<1>2. DOMAIN d.lines = 1..Len(d.lines) /\ Len(d.lines) \in Nat /\ Len(d.lines) # 0
  BY <1>1
<1>3. \A i \in DOMAIN d.lines : d.lines[i] \in [item: Goods, quantity: Nat, price: Nat]
  BY <1>1, <1>2, ElementOf
<1>. QED  BY <1>1, <1>2, <1>3

LEMMA OrderIs ==
    ASSUME Spe!TypeOK, NEW o \in Spe!Stored
    PROVE  /\ o \in Calls
           /\ order[o].state \in Spe!States \ {"none"}
           /\ order[o].supplier \in Firms /\ order[o].deal \in Deals
           /\ order[o].created \in Nat /\ order[o].created <= clock
           /\ clock \in Nat /\ clock <= MaxClock
           /\ order[o].closed = Spe!Never \/ (order[o].closed \in Nat /\ order[o].closed <= clock)
           /\ order[o].closed \in Nat
<1>1. o \in Calls /\ order[o] # Spe!NoOrder
  BY DEF Spe!Stored, Spe!NoOrder
<1>2. order[o] \in [state: Spe!States \ {"none"}, supplier: Firms, deal: Deals,
                    created: 0..clock, closed: (0..clock) \cup {Spe!Never}]
  BY <1>1 DEF Spe!TypeOK
<1>3. clock \in Nat /\ clock <= MaxClock /\ Spe!Never \in Nat
  BY Calendar DEF Spe!TypeOK, Spe!Never
<1>. QED  BY <1>1, <1>2, <1>3

LEMMA LinesAre ==
    ASSUME Spe!TypeOK, NEW o \in Spe!Stored
    PROVE  /\ IsFiniteSet(Spe!Lines(o)) /\ Spe!Lines(o) # {}
           /\ \A l \in Spe!Lines(o) :
                /\ l[1] = o
                /\ Spe!Line(l).item \in Goods /\ Spe!Line(l).quantity \in Nat /\ Spe!Line(l).price \in Nat
                /\ Spe!Line(l).quantity * Spe!Line(l).price \in Nat
<1> DEFINE D == DOMAIN order[o].deal.lines
<1>1. order[o].deal \in Deals
  BY OrderIs
<1>2. /\ D = 1..Len(order[o].deal.lines) /\ Len(order[o].deal.lines) \in Nat /\ 1 \in D
      /\ \A i \in D : /\ order[o].deal.lines[i].item \in Goods
                      /\ order[o].deal.lines[i].quantity \in Nat
                      /\ order[o].deal.lines[i].price \in Nat
  BY <1>1, DealIs
<1>3. IsFiniteSet({o} \X D)
  <2>1. IsFiniteSet(D)
    BY <1>2, FS_Interval
  <2>. QED  BY <2>1, FS_Singleton, FS_Product
<1>4. Spe!Lines(o) = {o} \X D
  BY DEF Spe!Lines
<1>5. Spe!Lines(o) # {}
  <2>1. <<o, 1>> \in {o} \X D
    BY <1>2
  <2>. QED  BY <1>4, <2>1
<1>6. ASSUME NEW l \in Spe!Lines(o)
      PROVE  /\ l[1] = o
             /\ Spe!Line(l).item \in Goods /\ Spe!Line(l).quantity \in Nat /\ Spe!Line(l).price \in Nat
  BY <1>2 DEF Spe!Lines, Spe!Line
<1>7. \A q, p \in Nat : q * p \in Nat
  OBVIOUS
<1>. QED  BY <1>3, <1>4, <1>5, <1>6, <1>7

LEMMA AllLinesAre ==
    ASSUME Spe!TypeOK, NEW S \in SUBSET Spe!Stored
    PROVE  /\ IsFiniteSet(S) /\ IsFiniteSet(AllLines(S))
           /\ \A l : l \in AllLines(S) <=> \E o \in S : l \in Spe!Lines(o)
           /\ \A l \in AllLines(S) :
                /\ l[1] \in S /\ l \in Spe!Lines(l[1])
                /\ Spe!Line(l).item \in Goods /\ Spe!Line(l).quantity \in Nat /\ Spe!Line(l).price \in Nat
                /\ Spe!Line(l).quantity * Spe!Line(l).price \in Nat
<1>1. IsFiniteSet(S)
  <2>1. S \subseteq Calls
    BY DEF Spe!Stored
  <2>. QED  BY <2>1, Calendar, FS_Subset
<1>2. \A l : l \in AllLines(S) <=> \E o \in S : l \in Spe!Lines(o)
  BY DEF AllLines
<1>3. IsFiniteSet(AllLines(S))
  <2> DEFINE Rows == {Spe!Lines(o) : o \in S}
             h == [o \in S |-> Spe!Lines(o)]
  <2>1. h \in Surjection(S, Rows)
    BY DEF Surjection
  <2>2. \A T \in Rows : IsFiniteSet(T)
    BY LinesAre
  <2>3. IsFiniteSet(Rows)
    <3> HIDE DEF Rows, h
    <3>. QED  BY <1>1, <2>1, FS_Surjection
  <2>4. IsFiniteSet(UNION Rows)
    <3> HIDE DEF Rows, h
    <3>. QED  BY <2>2, <2>3, FS_UNION
  <2>. QED  BY <2>4 DEF AllLines
<1>. QED  BY <1>1, <1>2, <1>3, LinesAre

LEMMA AmountNat ==
    ASSUME Spe!TypeOK, NEW L \in SUBSET AllLines(Spe!Stored)
    PROVE  /\ IsFiniteSet(L) /\ Spe!Amount(L) \in Nat
<1>1. /\ IsFiniteSet(AllLines(Spe!Stored))
      /\ \A l \in L : Spe!Line(l).quantity * Spe!Line(l).price \in Nat
  BY AllLinesAre
<1>2. IsFiniteSet(L)
  BY <1>1, FS_Subset
<1> DEFINE f == [l \in L |-> Spe!Line(l).quantity * Spe!Line(l).price]
<1>3. DOMAIN f = L /\ \A l \in L : f[l] \in Nat
  BY <1>1
<1>4. Spe!Sum(f) \in Nat
  <2> HIDE DEF f
  <2>. QED  BY <1>2, <1>3, SumNat
<1>. QED  BY <1>2, <1>4 DEF Spe!Amount

LEMMA TotalNat ==
    ASSUME Spe!TypeOK, NEW o \in Spe!Stored
    PROVE  Spe!Subtotal(o) \in Nat /\ Spe!Total(o) \in Nat
<1>1. Spe!Lines(o) \subseteq AllLines(Spe!Stored)
  BY DEF AllLines
<1>2. Spe!Subtotal(o) \in Nat
  BY <1>1, AmountNat DEF Spe!Subtotal
<1>3. order[o].deal.tax \in Nat
  BY OrderIs, DealIs
<1>. QED  BY <1>2, <1>3 DEF Spe!Total

LEMMA ValueNat ==
    ASSUME Spe!TypeOK, NEW S \in SUBSET Spe!Stored
    PROVE  Spe!Value(S) \in Nat
<1> DEFINE f == [o \in S |-> Spe!Total(o)]
<1>1. DOMAIN f = S /\ IsFiniteSet(S) /\ \A o \in S : f[o] \in Nat
  BY AllLinesAre, TotalNat
<1>2. Spe!Sum(f) \in Nat
  <2> HIDE DEF f
  <2>. QED  BY <1>1, SumNat
<1>. QED  BY <1>2 DEF Spe!Value

LEMMA ValueGrows ==
    ASSUME Spe!TypeOK, NEW T \in SUBSET Spe!Stored, NEW S \in SUBSET T
    PROVE  Spe!Value(S) <= Spe!Value(T)
<1> DEFINE f == [o \in S |-> Spe!Total(o)]
           g == [o \in T |-> Spe!Total(o)]
<1>1. /\ DOMAIN f = S /\ DOMAIN g = T /\ IsFiniteSet(T)
      /\ \A o \in T : g[o] \in Nat
      /\ \A o \in S : f[o] \in Nat /\ f[o] <= g[o]
  <2>1. IsFiniteSet(T)
    BY AllLinesAre
  <2>2. \A o \in T : Spe!Total(o) \in Nat
    BY TotalNat
  <2>. QED  BY <2>1, <2>2
<1>2. Spe!Sum(f) <= Spe!Sum(g)
  <2> HIDE DEF f, g
  <2>. QED  BY <1>1, SumGrows
<1>. QED  BY <1>2 DEF Spe!Value

LEMMA ValueOfParts ==
    ASSUME Spe!TypeOK, NEW S \in SUBSET Spe!Stored, NEW I, IsFiniteSet(I), NEW pile,
           \A i \in I : pile[i] \subseteq S,
           \A o \in S : \E i \in I : o \in pile[i],
           \A i, j \in I : \A o : o \in pile[i] /\ o \in pile[j] => i = j
    PROVE  Spe!Sum([i \in I |-> Spe!Value(pile[i])]) = Spe!Value(S)
<1> DEFINE f == [o \in S |-> Spe!Total(o)]
<1>1. DOMAIN f = S /\ IsFiniteSet(S) /\ \A o \in S : f[o] = Spe!Total(o) /\ f[o] \in Nat
  BY AllLinesAre, TotalNat
<1>2. Spe!Sum(f) = Spe!Value(S)
  BY DEF Spe!Value
<1> HIDE DEF f
<1>3. Spe!Sum([i \in I |-> Spe!Sum([o \in pile[i] |-> f[o]])]) = Spe!Sum(f)
  BY <1>1, SumsOfParts
<1>4. \A i \in I : [o \in pile[i] |-> f[o]] = [o \in pile[i] |-> Spe!Total(o)]
  BY <1>1
<1>5. \A i \in I : Spe!Sum([o \in pile[i] |-> f[o]]) = Spe!Value(pile[i])
  BY <1>4 DEF Spe!Value
<1>6. [i \in I |-> Spe!Sum([o \in pile[i] |-> f[o]])] = [i \in I |-> Spe!Value(pile[i])]
  BY <1>5
<1>. QED  BY <1>2, <1>3, <1>6

LEMMA AmountOfParts ==
    ASSUME Spe!TypeOK, NEW L \in SUBSET AllLines(Spe!Stored), NEW I, IsFiniteSet(I), NEW pile,
           \A i \in I : pile[i] \subseteq L,
           \A l \in L : \E i \in I : l \in pile[i],
           \A i, j \in I : \A l : l \in pile[i] /\ l \in pile[j] => i = j
    PROVE  Spe!Sum([i \in I |-> Spe!Amount(pile[i])]) = Spe!Amount(L)
<1> DEFINE f == [l \in L |-> Spe!Line(l).quantity * Spe!Line(l).price]
<1>1. /\ DOMAIN f = L /\ IsFiniteSet(L)
      /\ \A l \in L : f[l] = Spe!Line(l).quantity * Spe!Line(l).price /\ f[l] \in Nat
  BY AllLinesAre, AmountNat
<1>2. Spe!Sum(f) = Spe!Amount(L)
  BY DEF Spe!Amount
<1> HIDE DEF f
<1>3. Spe!Sum([i \in I |-> Spe!Sum([l \in pile[i] |-> f[l]])]) = Spe!Sum(f)
  BY <1>1, SumsOfParts
<1>4. \A i \in I : [l \in pile[i] |-> f[l]] = [l \in pile[i] |-> Spe!Line(l).quantity * Spe!Line(l).price]
  BY <1>1
<1>5. \A i \in I : Spe!Sum([l \in pile[i] |-> f[l]]) = Spe!Amount(pile[i])
  BY <1>4 DEF Spe!Amount
<1>6. [i \in I |-> Spe!Sum([l \in pile[i] |-> f[l]])] = [i \in I |-> Spe!Amount(pile[i])]
  BY <1>5
<1>. QED  BY <1>2, <1>3, <1>6

(* What is in either currency makes up the whole.                          *)
LEMMA BothCurrencies ==
    ASSUME Spe!TypeOK, NEW S \in SUBSET Spe!Stored
    PROVE  Spe!Value(Spe!In("BDT", S)) + Spe!Value(Spe!In("USD", S)) = Spe!Value(S)
<1> DEFINE f == [o \in S |-> Spe!Total(o)]
           g == [o \in Spe!In("BDT", S) |-> Spe!Total(o)]
           h == [o \in Spe!In("USD", S) |-> Spe!Total(o)]
<1>0. \A o \in S : order[o].deal.currency = "BDT" \/ order[o].deal.currency = "USD"
  BY OrderIs, DealIs DEF Spe!Currencies
<1>1. /\ S = Spe!In("BDT", S) \cup Spe!In("USD", S) /\ Spe!In("BDT", S) \cap Spe!In("USD", S) = {}
      /\ Spe!In("BDT", S) \subseteq S /\ Spe!In("USD", S) \subseteq S
  BY <1>0 DEF Spe!In
<1>2. Spe!Sum(f) = Spe!Value(S) /\ Spe!Sum(g) = Spe!Value(Spe!In("BDT", S)) /\ Spe!Sum(h) = Spe!Value(Spe!In("USD", S))
  BY DEF Spe!Value
<1>3. /\ DOMAIN f = S /\ DOMAIN g = Spe!In("BDT", S) /\ DOMAIN h = Spe!In("USD", S)
      /\ IsFiniteSet(DOMAIN g) /\ IsFiniteSet(DOMAIN h)
      /\ \A o \in DOMAIN g : g[o] = f[o] /\ g[o] \in Nat
      /\ \A o \in DOMAIN h : h[o] = f[o] /\ h[o] \in Nat
  BY <1>1, AllLinesAre, TotalNat
<1> HIDE DEF f, g, h
<1>4. /\ \A p : p \in Spe!Units(f) <=> \E x \in DOMAIN f : \E u \in 1..f[x] : p = <<x, u>>
      /\ \A p : p \in Spe!Units(g) <=> \E x \in DOMAIN g : \E u \in 1..g[x] : p = <<x, u>>
      /\ \A p : p \in Spe!Units(h) <=> \E x \in DOMAIN h : \E u \in 1..h[x] : p = <<x, u>>
  BY UnitsAre
<1>5. Spe!Units(g) \cap Spe!Units(h) = {}
  <2> SUFFICES ASSUME NEW p, p \in Spe!Units(g), p \in Spe!Units(h) PROVE FALSE
    OBVIOUS
  <2>1. PICK x \in DOMAIN g : \E u \in 1..g[x] : p = <<x, u>>
    BY <1>4
  <2>2. PICK y \in DOMAIN h : \E u \in 1..h[y] : p = <<y, u>>
    BY <1>4
  <2>. QED  BY <1>1, <1>3, <2>1, <2>2
<1>6. Spe!Units(f) = Spe!Units(g) \cup Spe!Units(h)
  <2>1. ASSUME NEW p, p \in Spe!Units(f) PROVE p \in Spe!Units(g) \cup Spe!Units(h)
    <3>1. PICK x \in DOMAIN f : \E u \in 1..f[x] : p = <<x, u>>
      BY <1>4, <2>1
    <3>2. x \in DOMAIN g \/ x \in DOMAIN h
      BY <1>1, <1>3
    <3>. QED  BY <1>3, <1>4, <3>1, <3>2
  <2>2. ASSUME NEW p, p \in Spe!Units(g) \/ p \in Spe!Units(h) PROVE p \in Spe!Units(f)
    BY <1>1, <1>3, <1>4, <2>2
  <2>. QED  BY <2>1, <2>2
<1>7. IsFiniteSet(Spe!Units(g)) /\ IsFiniteSet(Spe!Units(h)) /\ Spe!Sum(g) \in Nat /\ Spe!Sum(h) \in Nat
  BY <1>3, SumNat
<1>8. Cardinality(Spe!Units(f)) = Cardinality(Spe!Units(g)) + Cardinality(Spe!Units(h)) - Cardinality({})
  BY <1>5, <1>6, <1>7, FS_Union
<1>9. Cardinality({}) = 0
  BY FS_EmptySet
<1>. QED  BY <1>2, <1>7, <1>8, <1>9, SumIs

-----------------------------------------------------------------------------
(* The reports agree on the spend.                                         *)

LEMMA RowsFinite ==
    ASSUME NEW Ss, IsFiniteSet(Ss), NEW Ms, IsFiniteSet(Ms), NEW Rows,
           \A r \in Rows : r.supplier \in Ss /\ r.month \in Ms,
           \A r, q \in Rows : r.supplier = q.supplier /\ r.month = q.month => r = q
    PROVE  IsFiniteSet(Rows)
<1> DEFINE h == [r \in Rows |-> <<r.supplier, r.month>>]
<1>1. h \in [Rows -> Ss \X Ms]
  OBVIOUS
<1>2. ASSUME NEW r \in Rows, NEW q \in Rows, h[r] = h[q] PROVE r = q
  <2>1. <<r.supplier, r.month>> = <<q.supplier, q.month>>
    BY <1>2
  <2>2. r.supplier = q.supplier /\ r.month = q.month
    BY <2>1
  <2>. QED  BY <2>2
<1>3. IsFiniteSet(Ss \X Ms)
  BY FS_Product
<1> HIDE DEF h
<1>4. h \in Injection(Rows, Ss \X Ms)
  BY <1>1, <1>2 DEF Injection, IsInjective
<1>. QED  BY <1>3, <1>4, FS_Injection

LEMMA RowsAddUp ==
    ASSUME Spe!TypeOK, NEW from \in Nat, NEW to \in Nat
    PROVE  Spe!SpendOf(Spe!SpendRows(from, to)) = Spe!Value(Spe!Committed(from, to))
<1> DEFINE C == Spe!Committed(from, to)
           Ss == {order[o].supplier : o \in C}
           Ms == {Spe!MonthOf(o) : o \in C}
           P(s, m) == {o \in C : order[o].supplier = s /\ Spe!MonthOf(o) = m}
           Rows == {[supplier |-> s, month |-> m, spend |-> Spe!Value(P(s, m))] : s \in Ss, m \in Ms}
           pile == [r \in Rows |-> {o \in C : order[o].supplier = r.supplier /\ Spe!MonthOf(o) = r.month}]
<1>1. Spe!SpendRows(from, to) = Rows
  <2>1. C = Spe!Bought(from, to)
    BY DEF Spe!Committed, Spe!Bought
  <2>. QED  BY <2>1 DEF Spe!SpendRows
<1>2. C \in SUBSET Spe!Stored /\ IsFiniteSet(C)
  BY AllLinesAre DEF Spe!Committed
<1>3. IsFiniteSet(Ss)
  <2> DEFINE h == [o \in C |-> order[o].supplier]
  <2>1. h \in Surjection(C, Ss)
    BY DEF Surjection
  <2> HIDE DEF h, Ss, C
  <2>. QED  BY <1>2, <2>1, FS_Surjection
<1>4. IsFiniteSet(Ms)
  <2> DEFINE h == [o \in C |-> Spe!MonthOf(o)]
  <2>1. h \in Surjection(C, Ms)
    BY DEF Surjection
  <2> HIDE DEF h, Ms, C
  <2>. QED  BY <1>2, <2>1, FS_Surjection
<1>5. \A o \in C : order[o].supplier \in Ss /\ Spe!MonthOf(o) \in Ms
  OBVIOUS
<1>6. \A r \in Rows : \A o : o \in pile[r] <=>
        o \in C /\ order[o].supplier = r.supplier /\ Spe!MonthOf(o) = r.month
  <2> HIDE DEF Rows, C
  <2>. QED  OBVIOUS
<1>7. ASSUME NEW r \in Rows
      PROVE  \E s \in Ss : \E m \in Ms : r = [supplier |-> s, month |-> m, spend |-> Spe!Value(P(s, m))]
  <2> HIDE DEF Ss, Ms, P, C
  <2>. QED  OBVIOUS
<1>8. ASSUME NEW r \in Rows
      PROVE  /\ r.supplier \in Ss /\ r.month \in Ms /\ r.spend = Spe!Value(pile[r])
             /\ r = [supplier |-> r.supplier, month |-> r.month,
                     spend |-> Spe!Value(P(r.supplier, r.month))]
  <2>1. pile[r] = P(r.supplier, r.month)
    <3>1. pile[r] = {o \in C : order[o].supplier = r.supplier /\ Spe!MonthOf(o) = r.month}
      <4> HIDE DEF Rows, C
      <4>. QED  OBVIOUS
    <3> HIDE DEF pile, C, Rows
    <3>. QED  BY <3>1
  <2> HIDE DEF Ss, Ms, P, C, Rows, pile
  <2>2. PICK s \in Ss : \E m \in Ms : r = [supplier |-> s, month |-> m, spend |-> Spe!Value(P(s, m))]
    BY <1>7
  <2>3. PICK m \in Ms : r = [supplier |-> s, month |-> m, spend |-> Spe!Value(P(s, m))]
    BY <2>2
  <2>4. r.supplier = s /\ r.month = m /\ r.spend = Spe!Value(P(s, m))
    BY <2>3
  <2>. QED  BY <2>1, <2>3, <2>4
<1>9. ASSUME NEW o \in C
      PROVE  \E r \in Rows : r.supplier = order[o].supplier /\ r.month = Spe!MonthOf(o)
  <2> DEFINE s == order[o].supplier
             m == Spe!MonthOf(o)
             r == [supplier |-> s, month |-> m, spend |-> Spe!Value(P(s, m))]
  <2>1. s \in Ss /\ m \in Ms
    BY <1>5
  <2>2. r.supplier = s /\ r.month = m
    OBVIOUS
  <2>3. r \in Rows
    <3> HIDE DEF s, m, Ss, Ms, P, C
    <3>. QED  BY <2>1
  <2> HIDE DEF r, Rows
  <2>. QED  BY <2>2, <2>3
<1> HIDE DEF C, Ss, Ms, P, Rows, pile
<1>10. ASSUME NEW r \in Rows, NEW q \in Rows, r.supplier = q.supplier, r.month = q.month
       PROVE  r = q
  <2>1. /\ r = [supplier |-> r.supplier, month |-> r.month, spend |-> Spe!Value(P(r.supplier, r.month))]
        /\ q = [supplier |-> q.supplier, month |-> q.month, spend |-> Spe!Value(P(q.supplier, q.month))]
    BY <1>8
  <2>2. P(r.supplier, r.month) = P(q.supplier, q.month)
    BY <1>10
  <2>. QED  BY <1>10, <2>1, <2>2
<1>11. IsFiniteSet(Rows)
  BY <1>3, <1>4, <1>8, <1>10, RowsFinite
<1>12. \A r \in Rows : pile[r] \subseteq C
  BY <1>6
<1>13. \A o \in C : \E r \in Rows : o \in pile[r]
  BY <1>6, <1>9
<1>14. \A r, q \in Rows : \A o : o \in pile[r] /\ o \in pile[q] => r = q
  BY <1>6, <1>10
<1>15. Spe!Sum([r \in Rows |-> Spe!Value(pile[r])]) = Spe!Value(C)
  BY <1>2, <1>11, <1>12, <1>13, <1>14, ValueOfParts
<1>16. [r \in Rows |-> r.spend] = [r \in Rows |-> Spe!Value(pile[r])]
  BY <1>8
<1>17. Spe!SpendOf(Rows) = Spe!Sum([r \in Rows |-> r.spend])
  BY DEF Spe!SpendOf
<1>18. Spe!SpendOf(Spe!SpendRows(from, to)) = Spe!Value(C)
  BY <1>1, <1>15, <1>16, <1>17
<1>. QED  BY <1>18 DEF C

LEMMA CommittedIs ==
    ASSUME NEW from, NEW to
    PROVE  Spe!Committed(from, to) \in SUBSET Spe!Stored
BY DEF Spe!Committed

LEMMA BothSpent ==
    ASSUME Spe!TypeOK, NEW from \in Nat, NEW to \in Nat
    PROVE  Spe!SumSpend(from, to, "BDT") + Spe!SumSpend(from, to, "USD") = Spe!Value(Spe!Committed(from, to))
BY CommittedIs, BothCurrencies DEF Spe!SumSpend

LEMMA MonthsAddUp ==
    ASSUME Spe!TypeOK
    PROVE  Spe!Sum([m \in Spe!Months |-> Spe!SumSpend(m * Month, (m + 1) * Month, "BDT")
                                  + Spe!SumSpend(m * Month, (m + 1) * Month, "USD")])
             = Spe!Value(Spe!Committed(0, MaxClock + 1))
<1> DEFINE pile == [m \in Spe!Months |-> Spe!Committed(m * Month, (m + 1) * Month)]
           all == Spe!Committed(0, MaxClock + 1)
<1>0. MaxClock \div Month \in Nat
  BY Calendar, QuotientIs
<1>1. /\ \A m : m \in Spe!Months <=> m \in Nat /\ m <= MaxClock \div Month
      /\ IsFiniteSet(Spe!Months)
  <2>1. 0 \in Int /\ MaxClock \div Month \in Int
    BY <1>0
  <2>2. IsFiniteSet(Spe!Months)
    BY <2>1, FS_Interval DEF Spe!Months
  <2>3. \A m : m \in Spe!Months <=> m \in Nat /\ m <= MaxClock \div Month
    BY <1>0 DEF Spe!Months
  <2>. QED  BY <2>2, <2>3
<1>2. \A m \in Spe!Months : m * Month \in Nat /\ (m + 1) * Month \in Nat
  BY <1>1, Calendar
<1>3. \A m \in Spe!Months : pile[m] = Spe!Committed(m * Month, (m + 1) * Month)
  OBVIOUS
<1> HIDE DEF pile
<1>4. ASSUME NEW m \in Spe!Months PROVE pile[m] \subseteq all
  <2> SUFFICES ASSUME NEW o \in pile[m] PROVE o \in all
    OBVIOUS
  <2>1. o \in Spe!Stored
    BY <1>3 DEF Spe!Committed
  <2>2. order[o].created \in Nat /\ order[o].created < MaxClock + 1
    BY <2>1, OrderIs, Calendar
  <2>. QED  BY <1>3, <2>2 DEF Spe!Committed
<1>5. ASSUME NEW o \in all PROVE \E m \in Spe!Months : o \in pile[m]
  <2> DEFINE m == order[o].created \div Month
  <2>1. o \in Spe!Stored
    BY DEF Spe!Committed
  <2>2. order[o].created \in Nat /\ order[o].created <= MaxClock
    BY <2>1, OrderIs, Calendar
  <2>3. m \in Nat /\ m * Month <= order[o].created /\ order[o].created < (m + 1) * Month
    BY <2>2, Calendar, QuotientIs
  <2>4. m <= MaxClock \div Month
    BY <2>2, Calendar, QuotientsGrow
  <2> HIDE DEF m
  <2>5. m \in Spe!Months
    BY <1>1, <2>3, <2>4
  <2>6. o \in Spe!Committed(m * Month, (m + 1) * Month)
    BY <2>1, <2>3 DEF Spe!Committed
  <2>. QED  BY <1>3, <2>5, <2>6
<1>6. ASSUME NEW m \in Spe!Months, NEW n \in Spe!Months, NEW o, o \in pile[m], o \in pile[n]
      PROVE  m = n
  <2>1. o \in Spe!Stored
    BY <1>3, <1>6 DEF Spe!Committed
  <2>2. order[o].created \in Nat
    BY <2>1, OrderIs
  <2>3. /\ m * Month <= order[o].created /\ order[o].created < (m + 1) * Month
        /\ n * Month <= order[o].created /\ order[o].created < (n + 1) * Month
    BY <1>3, <1>6 DEF Spe!Committed
  <2>4. m \in Nat /\ n \in Nat /\ Month \in Nat \ {0}
    BY <1>1, Calendar
  <2>5. m = order[o].created \div Month
    BY <2>2, <2>3, <2>4, QuotientOnce
  <2>6. n = order[o].created \div Month
    BY <2>2, <2>3, <2>4, QuotientOnce
  <2>. QED  BY <2>5, <2>6
<1>7. all \in SUBSET Spe!Stored
  BY CommittedIs
<1>8. Spe!Sum([m \in Spe!Months |-> Spe!Value(pile[m])]) = Spe!Value(all)
  <2> HIDE DEF all
  <2>. QED  BY <1>1, <1>4, <1>5, <1>6, <1>7, ValueOfParts
<1>9. \A m \in Spe!Months : Spe!SumSpend(m * Month, (m + 1) * Month, "BDT")
                          + Spe!SumSpend(m * Month, (m + 1) * Month, "USD") = Spe!Value(pile[m])
  BY <1>2, <1>3, BothSpent
<1>10. [m \in Spe!Months |-> Spe!SumSpend(m * Month, (m + 1) * Month, "BDT")
                           + Spe!SumSpend(m * Month, (m + 1) * Month, "USD")]
         = [m \in Spe!Months |-> Spe!Value(pile[m])]
  BY <1>9
<1>. QED  BY <1>8, <1>10

(* By lines and suppliers, or by orders: the same less the taxes.          *)
LEMMA LinesAddUp ==
    ASSUME Spe!TypeOK
    PROVE  Spe!Sum([s \in Firms |-> Spe!ProcurementSpend(0, MaxClock, s)])
             = Spe!Sum([o \in Spe!Committed(0, MaxClock + 1) |-> Spe!Subtotal(o)])
<1> DEFINE all == Spe!Committed(0, MaxClock + 1)
           L == AllLines(all)
           bySupplier == [s \in Firms |-> {l \in L : order[l[1]].supplier = s}]
           byOrder == [o \in all |-> Spe!Lines(o)]
<1>1. all \in SUBSET Spe!Stored
  BY CommittedIs
<1>2. /\ IsFiniteSet(all)
      /\ \A l : l \in L <=> \E o \in all : l \in Spe!Lines(o)
      /\ \A l \in L : l[1] \in all /\ l \in Spe!Lines(l[1])
  <2> HIDE DEF all
  <2>. QED  BY <1>1, AllLinesAre
<1>3. \A o \in all : \A l \in Spe!Lines(o) : l[1] = o
  BY <1>1, LinesAre
<1>4. \A o \in all : order[o].supplier \in Firms
  BY <1>1, OrderIs
<1>5. L \in SUBSET AllLines(Spe!Stored)
  BY <1>1 DEF AllLines
<1> HIDE DEF L, all
<1>6. Spe!Sum([s \in Firms |-> Spe!Amount(bySupplier[s])]) = Spe!Amount(L)
  <2>1. \A s \in Firms : \A l : l \in bySupplier[s] <=> l \in L /\ order[l[1]].supplier = s
    OBVIOUS
  <2>2. \A l \in L : \E s \in Firms : l \in bySupplier[s]
    BY <1>2, <1>4, <2>1
  <2> HIDE DEF bySupplier
  <2>3. \A s \in Firms : bySupplier[s] \subseteq L
    BY <2>1
  <2>4. \A s, t \in Firms : \A l : l \in bySupplier[s] /\ l \in bySupplier[t] => s = t
    BY <2>1
  <2>. QED  BY <1>5, <2>2, <2>3, <2>4, Calendar, AmountOfParts
<1>7. Spe!Sum([o \in all |-> Spe!Amount(byOrder[o])]) = Spe!Amount(L)
  <2>1. \A o \in all : byOrder[o] = Spe!Lines(o)
    OBVIOUS
  <2> HIDE DEF byOrder
  <2>2. \A o \in all : byOrder[o] \subseteq L
    BY <1>2, <2>1
  <2>3. \A l \in L : \E o \in all : l \in byOrder[o]
    BY <1>2, <2>1
  <2>4. \A o, p \in all : \A l : l \in byOrder[o] /\ l \in byOrder[p] => o = p
    BY <1>3, <2>1
  <2>. QED  BY <1>2, <1>5, <2>2, <2>3, <2>4, AmountOfParts
<1>8. ASSUME NEW s \in Firms PROVE Spe!ProcurementSpend(0, MaxClock, s) = Spe!Amount(bySupplier[s])
  <2> DEFINE counted == {o \in Spe!Stored :
                           /\ order[o].state \in {"approved", "sent", "partially_received",
                                                  "fully_received", "closed"}
                           /\ 0 <= order[o].created /\ order[o].created <= MaxClock
                           /\ order[o].supplier = s}
  <2>1. ASSUME NEW o PROVE o \in counted <=> o \in all /\ order[o].supplier = s
    <3>1. o \in Spe!Stored => order[o].created \in Nat /\ order[o].created <= MaxClock /\ MaxClock \in Nat
      BY OrderIs, Calendar
    <3>. QED  BY <3>1 DEF Spe!Committed, all
  <2>2. Spe!ProcurementSpend(0, MaxClock, s) = Spe!Amount(UNION {Spe!Lines(o) : o \in counted})
    BY DEF Spe!ProcurementSpend
  <2> HIDE DEF counted
  <2>3. ASSUME NEW l PROVE l \in UNION {Spe!Lines(o) : o \in counted} <=> l \in bySupplier[s]
    BY <1>2, <1>3, <2>1
  <2>4. UNION {Spe!Lines(o) : o \in counted} = bySupplier[s]
    <3> HIDE DEF bySupplier
    <3>. QED  BY <2>3
  <2>. QED  BY <2>2, <2>4
<1>9. [s \in Firms |-> Spe!ProcurementSpend(0, MaxClock, s)] = [s \in Firms |-> Spe!Amount(bySupplier[s])]
  <2> HIDE DEF bySupplier
  <2>. QED  BY <1>8
<1>10. [o \in all |-> Spe!Subtotal(o)] = [o \in all |-> Spe!Amount(byOrder[o])]
  BY DEF Spe!Subtotal
<1>11. Spe!Sum([s \in Firms |-> Spe!ProcurementSpend(0, MaxClock, s)]) = Spe!Sum([o \in all |-> Spe!Subtotal(o)])
  <2> HIDE DEF bySupplier, byOrder
  <2>. QED  BY <1>6, <1>7, <1>9, <1>10
<1>. QED  BY <1>11 DEF all

LEMMA WeeklyIsMore ==
    ASSUME Spe!TypeOK, NEW from \in Nat
    PROVE  Spe!WeeklyValue(from, clock) >= Spe!SpendOf(Spe!SpendRows(from, clock))
<1> DEFINE W == {o \in Spe!Stored : from <= order[o].created /\ order[o].created <= clock}
           C == Spe!Committed(from, clock)
<1>1. clock \in Nat
  BY DEF Spe!TypeOK
<1>2. W \in SUBSET Spe!Stored
  OBVIOUS
<1>3. C \subseteq W
  <2> SUFFICES ASSUME NEW o \in C PROVE o \in W
    OBVIOUS
  <2>1. o \in Spe!Stored
    BY DEF Spe!Committed
  <2>2. order[o].created \in Nat
    BY <2>1, OrderIs
  <2>. QED  BY <1>1, <2>1, <2>2 DEF Spe!Committed
<1>4. Spe!WeeklyValue(from, clock) = Spe!Value(W)
  BY DEF Spe!WeeklyValue
<1>5. Spe!SpendOf(Spe!SpendRows(from, clock)) = Spe!Value(C)
  BY <1>1, RowsAddUp
<1> HIDE DEF W, C
<1>6. Spe!Value(C) <= Spe!Value(W) /\ Spe!Value(C) \in Nat /\ Spe!Value(W) \in Nat
  BY <1>2, <1>3, ValueGrows, ValueNat
<1>. QED  BY <1>4, <1>5, <1>6

LEMMA SpendAgreeing == ASSUME Spe!TypeOK PROVE Spe!SpendAgrees
<1>1. clock \in Nat /\ 0 \in Nat /\ clock + 1 \in Nat /\ MaxClock + 1 \in Nat
  BY Calendar DEF Spe!TypeOK
<1>2. ASSUME NEW from \in {0, clock}, NEW to \in {clock, clock + 1}
      PROVE  Spe!SpendOf(Spe!SpendRows(from, to)) = Spe!SumSpend(from, to, "BDT") + Spe!SumSpend(from, to, "USD")
  <2>1. from \in Nat /\ to \in Nat
    BY <1>1
  <2>. QED  BY <2>1, RowsAddUp, BothSpent
<1>3. \A from \in {0, clock} : Spe!WeeklyValue(from, clock) >= Spe!SpendOf(Spe!SpendRows(from, clock))
  BY <1>1, WeeklyIsMore
<1>. QED  BY <1>2, <1>3, MonthsAddUp, LinesAddUp DEF Spe!SpendAgrees

-----------------------------------------------------------------------------
(* The projection of payments.                                             *)

LEMMA ProjectedIs ==
    ASSUME Spe!TypeOK
    PROVE  /\ Spe!Projected \in SUBSET Spe!Stored
           /\ Spe!Projected = {o \in {o \in Spe!Committed(0, MaxClock + 1) :
                                        order[o].state \in {"sent", "partially_received"}} :
                                 clock <= Spe!Expected(o) /\ Spe!Expected(o) - clock <= Horizon}
           /\ \A o \in Spe!Stored : Spe!PayAt(o) \in Nat /\ Spe!PayAt(o) >= Spe!Expected(o) /\ Spe!Expected(o) \in Nat
<1>1. Spe!Projected \in SUBSET Spe!Stored
  BY DEF Spe!Projected
<1>2. ASSUME NEW o \in Spe!Stored
      PROVE  /\ Spe!Expected(o) \in Nat /\ Spe!PayAt(o) \in Nat /\ Spe!PayAt(o) >= Spe!Expected(o)
             /\ order[o].created \in Nat /\ order[o].created < MaxClock + 1
             /\ clock \in Nat /\ Horizon \in Nat
  <2>1. /\ order[o].created \in Nat /\ order[o].created <= MaxClock /\ clock \in Nat
        /\ order[o].deal \in Deals /\ MaxClock \in Nat /\ Horizon \in Nat
    BY OrderIs, Calendar
  <2>2. order[o].deal.lead \in Nat /\ order[o].deal.terms \in Nat
    BY <2>1, DealIs
  <2>. QED  BY <2>1, <2>2 DEF Spe!Expected, Spe!PayAt
<1>3. ASSUME NEW o
      PROVE  o \in Spe!Projected <=> /\ o \in Spe!Committed(0, MaxClock + 1)
                                     /\ order[o].state \in {"sent", "partially_received"}
                                     /\ clock <= Spe!Expected(o) /\ Spe!Expected(o) - clock <= Horizon
  BY <1>2 DEF Spe!Projected, Spe!Committed
<1>. QED  BY <1>1, <1>2, <1>3

(* The two windows, one of which begins at midnight.                       *)
LEMMA BothProject ==
    ASSUME Spe!TypeOK
    PROVE  {o \in Spe!Projected : Spe!PayAt(o) <= Spe!Today + Horizon}
             = {o \in Spe!Payable : order[o].state # "approved" /\ clock <= Spe!Expected(o)}
<1>0. Day \in Nat \ {0}
  BY RecordsAssumption, SpeSizes DEF Spe!CalendarAssumption
<1>1. clock \in Nat /\ Horizon \in Nat
  BY Calendar DEF Spe!TypeOK
<1>2. Spe!Today \in Nat /\ Spe!Today <= clock
  <2> DEFINE d == clock % Day
  <2>1. d \in 0..(Day - 1)
    BY <1>0, <1>1
  <2>2. d <= clock
    BY <1>0, <1>1
  <2> HIDE DEF d
  <2>3. Spe!Today = clock - d
    BY DEF Spe!Today, d
  <2>. QED  BY <1>1, <2>1, <2>2, <2>3
<1>3. ASSUME NEW o \in Spe!Stored
      PROVE  Spe!Expected(o) \in Nat /\ Spe!PayAt(o) \in Nat /\ Spe!PayAt(o) >= Spe!Expected(o)
  BY ProjectedIs
<1>4. ASSUME NEW o \in Spe!Stored
      PROVE  (o \in Spe!Projected /\ Spe!PayAt(o) <= Spe!Today + Horizon)
               <=> (o \in Spe!Payable /\ order[o].state # "approved" /\ clock <= Spe!Expected(o))
  BY <1>1, <1>2, <1>3 DEF Spe!Projected, Spe!Payable
<1>5. Spe!Projected \subseteq Spe!Stored /\ Spe!Payable \subseteq Spe!Stored
  BY DEF Spe!Projected, Spe!Payable
<1>. QED  BY <1>4, <1>5

LEMMA CashFlowing == ASSUME Spe!TypeOK PROVE Spe!CashFlowOnce
<1> DEFINE P == Spe!Projected
           Ws == {Spe!PayAt(o) \div Week : o \in P}
           D(w) == {o \in P : Spe!PayAt(o) \div Week = w}
           PaidIn(w) == [week |-> w, bdt |-> Spe!Value(Spe!In("BDT", D(w))), usd |-> Spe!Value(Spe!In("USD", D(w)))]
           Rows == {PaidIn(w) : w \in Ws}
           pile == [r \in Rows |-> {o \in P : Spe!PayAt(o) \div Week = r.week}]
<1>1. Spe!CashFlow = Rows
  BY DEF Spe!CashFlow
<1>2. P \in SUBSET Spe!Stored /\ IsFiniteSet(P)
  BY ProjectedIs, AllLinesAre
<1>3. IsFiniteSet(Ws)
  <2> DEFINE h == [o \in P |-> Spe!PayAt(o) \div Week]
  <2>1. h \in Surjection(P, Ws)
    BY DEF Surjection
  <2> HIDE DEF h, Ws, P
  <2>. QED  BY <1>2, <2>1, FS_Surjection
<1>4. /\ \A o \in P : Spe!PayAt(o) \div Week \in Ws
      /\ \A w \in Ws : \E o \in P : Spe!PayAt(o) \div Week = w
      /\ \A w : D(w) \subseteq P /\ \A o : o \in D(w) <=> o \in P /\ Spe!PayAt(o) \div Week = w
  OBVIOUS
<1>6. \A r \in Rows : pile[r] = D(r.week)
  <2> HIDE DEF Rows, P
  <2>. QED  OBVIOUS
<1>7. \A w \in Ws : PaidIn(w) \in Rows
  OBVIOUS
<1>8. \A r \in Rows : \E w \in Ws : r = PaidIn(w)
  <2> HIDE DEF Ws, PaidIn
  <2>. QED  OBVIOUS
<1>9. \A w : /\ PaidIn(w).week = w
             /\ PaidIn(w).bdt = Spe!Value(Spe!In("BDT", D(w))) /\ PaidIn(w).usd = Spe!Value(Spe!In("USD", D(w)))
  <2> HIDE DEF D
  <2>. QED  OBVIOUS
<1> HIDE DEF P, Ws, D, PaidIn, Rows, pile
<1>11. ASSUME NEW r \in Rows
       PROVE  r.week \in Ws /\ r = PaidIn(r.week)
  BY <1>8, <1>9
<1>12. IsFiniteSet(Rows)
  <2> DEFINE h == [r \in Rows |-> r.week]
  <2>1. h \in Injection(Rows, Ws)
    BY <1>11 DEF Injection, IsInjective
  <2> HIDE DEF h
  <2>. QED  BY <1>3, <2>1, FS_Injection
<1>13. /\ \A r \in Rows : pile[r] \subseteq P
       /\ \A r, q \in Rows : \A o : o \in pile[r] /\ o \in pile[q] => r = q
  BY <1>4, <1>6, <1>11
<1>14. ASSUME NEW o \in P PROVE \E r \in Rows : o \in pile[r]
  <2> DEFINE w == Spe!PayAt(o) \div Week
  <2>1. w \in Ws /\ o \in D(w)
    BY <1>4
  <2>2. PaidIn(w) \in Rows /\ PaidIn(w).week = w
    BY <1>7, <1>9, <2>1
  <2> HIDE DEF w
  <2>3. o \in pile[PaidIn(w)]
    BY <1>6, <2>1, <2>2
  <2>. QED  BY <2>2, <2>3
<1>15. ASSUME NEW r \in Rows
       PROVE  r.bdt + r.usd = Spe!Value(pile[r])
  <2> DEFINE w == r.week
  <2>1. w \in Ws /\ r = PaidIn(w) /\ pile[r] = D(w)
    BY <1>6, <1>11
  <2> HIDE DEF w
  <2>2. r.bdt = Spe!Value(Spe!In("BDT", D(w))) /\ r.usd = Spe!Value(Spe!In("USD", D(w)))
    BY <1>9, <2>1
  <2>3. D(w) \in SUBSET Spe!Stored /\ IsFiniteSet(D(w))
    BY <1>2, <1>4, FS_Subset
  <2>4. r.bdt + r.usd = Spe!Value(D(w))
    BY <2>2, <2>3, BothCurrencies
  <2>. QED  BY <2>1, <2>4
<1>16. Spe!Sum([r \in Rows |-> Spe!Value(pile[r])]) = Spe!Value(P)
  BY <1>2, <1>12, <1>13, <1>14, ValueOfParts
<1>17. [r \in Rows |-> r.bdt + r.usd] = [r \in Rows |-> Spe!Value(pile[r])]
  BY <1>15
<1>18. Spe!Sum([r \in Spe!CashFlow |-> r.bdt + r.usd]) = Spe!Value(Spe!Projected)
  BY <1>1, <1>16, <1>17 DEF P
<1>. QED  BY <1>18, ProjectedIs, BothProject DEF Spe!CashFlowOnce

-----------------------------------------------------------------------------
(* Savings.                                                                *)

(* Who is cheaper on average is cheaper once.                              *)
LEMMA CheaperOnce ==
    ASSUME NEW f, IsFiniteSet(DOMAIN f), \A x \in DOMAIN f : f[x] \in Nat,
           NEW g, IsFiniteSet(DOMAIN g), \A x \in DOMAIN g : g[x] \in Nat,
           Spe!Sum(f) * Cardinality(DOMAIN g) < Spe!Sum(g) * Cardinality(DOMAIN f)
    PROVE  \E x \in DOMAIN f : \E y \in DOMAIN g : f[x] < g[y]
<1> SUFFICES ASSUME \A x \in DOMAIN f : \A y \in DOMAIN g : ~ (f[x] < g[y])
             PROVE  FALSE
  OBVIOUS
<1> DEFINE a == Spe!Sum(f)
           b == Spe!Sum(g)
           m == Cardinality(DOMAIN f)
           n == Cardinality(DOMAIN g)
<1>1. a \in Nat /\ b \in Nat /\ m \in Nat /\ n \in Nat /\ a * n < b * m
  BY SumNat, FS_CardinalityType
<1>2. DOMAIN f # {}
  <2>1. DOMAIN f = {} => m = 0
    BY FS_EmptySet
  <2> HIDE DEF a, b, m, n
  <2>2. a * n \in Nat
    BY <1>1
  <2>3. m # 0
    <3> SUFFICES ASSUME m = 0 PROVE FALSE
      OBVIOUS
    <3>1. b * m = 0
      BY <1>1
    <3>. QED  BY <1>1, <2>2, <3>1
  <2>. QED  BY <2>1, <2>3
<1>3. PICK p \in Nat : (\A x \in DOMAIN f : p <= f[x]) /\ (\A y \in DOMAIN g : g[y] <= p)
  <2> DEFINE T == {f[x] : x \in DOMAIN f}
  <2>1. T \in SUBSET Nat /\ T # {}
    BY <1>2
  <2>2. PICK p \in T : \A t \in T : p <= t
    <3> HIDE DEF T
    <3>. QED  BY <2>1, LeastOf
  <2>3. PICK z \in DOMAIN f : p = f[z]
    OBVIOUS
  <2>4. \A x \in DOMAIN f : p <= f[x]
    BY <2>2
  <2>5. \A y \in DOMAIN g : g[y] <= p
    BY <2>3
  <2>. QED  BY <2>3, <2>4, <2>5
<1>4. m * p <= a
  <2> DEFINE c == [x \in DOMAIN f |-> p]
  <2>1. Spe!Sum(c) = m * p
    BY SumOfSame
  <2>2. DOMAIN c = DOMAIN f /\ \A x \in DOMAIN f : c[x] \in Nat /\ c[x] <= f[x]
    BY <1>3
  <2>3. Spe!Sum(c) <= Spe!Sum(f)
    <3> HIDE DEF c
    <3>. QED  BY <2>2, SumGrows
  <2>. QED  BY <2>1, <2>3
<1>5. b <= n * p
  <2> DEFINE c == [y \in DOMAIN g |-> p]
  <2>1. Spe!Sum(c) = n * p
    BY SumOfSame
  <2>2. DOMAIN c = DOMAIN g /\ \A x \in DOMAIN g : c[x] \in Nat /\ g[x] <= c[x]
    BY <1>3
  <2>3. Spe!Sum(g) <= Spe!Sum(c)
    <3> HIDE DEF c
    <3>. QED  BY <2>2, SumGrows
  <2>. QED  BY <2>1, <2>3
<1> HIDE DEF a, b, m, n
<1>6. b * m <= (n * p) * m
  <2>1. n * p \in Nat
    BY <1>1
  <2>. QED  BY <1>1, <1>5, <2>1, ProductsGrow
<1>7. (m * p) * n <= a * n
  <2>1. m * p \in Nat
    BY <1>1
  <2>. QED  BY <1>1, <1>4, <2>1, ProductsGrow
<1>8. (n * p) * m = (m * p) * n
  BY <1>1
<1>9. /\ b * m \in Nat /\ a * n \in Nat /\ (n * p) * m \in Nat /\ (m * p) * n \in Nat
  BY <1>1
<1>. QED  BY <1>1, <1>6, <1>7, <1>8, <1>9

LEMMA BoughtLinesAre ==
    ASSUME Spe!TypeOK, NEW item
    PROVE  /\ IsFiniteSet(BoughtLines(item))
           /\ \A l \in BoughtLines(item) :
                Spe!Line(l).quantity \in Nat /\ Spe!Line(l).price \in Nat /\ order[l[1]].supplier \in Firms
<1> DEFINE C == Spe!Committed(0, MaxClock + 1)
<1>1. C \in SUBSET Spe!Stored
  BY CommittedIs
<1> HIDE DEF C
<1>2. /\ IsFiniteSet(AllLines(C))
      /\ \A l \in AllLines(C) : l[1] \in C /\ Spe!Line(l).quantity \in Nat /\ Spe!Line(l).price \in Nat
  BY <1>1, AllLinesAre
<1>3. \A o \in C : order[o].supplier \in Firms
  BY <1>1, OrderIs
<1>4. BoughtLines(item) \in SUBSET AllLines(C)
  BY DEF BoughtLines, C
<1>. QED  BY <1>2, <1>3, <1>4, FS_Subset

LEMMA PricesAre ==
    ASSUME NEW item, NEW s
    PROVE  /\ Spe!Prices(item, s).sum = Spe!Sum([l \in BoughtFrom(item, s) |-> Spe!Line(l).price])
           /\ Spe!Prices(item, s).lines = Cardinality(BoughtFrom(item, s))
<1>1. Spe!Bought(0, MaxClock + 1) = Spe!Committed(0, MaxClock + 1)
  BY DEF Spe!Bought, Spe!Committed
<1>2. {l \in UNION {Spe!Lines(o) : o \in Spe!Bought(0, MaxClock + 1)} :
         Spe!Line(l).item = item /\ order[l[1]].supplier = s} = BoughtFrom(item, s)
  BY <1>1 DEF BoughtFrom, BoughtLines, AllLines
<1>. QED  BY <1>2, SpeSizes DEF Spe!Prices

LEMMA SavingReal ==
    ASSUME Spe!TypeOK, NEW item, NEW s \in Firms, NEW t \in Firms,
           Spe!Prices(item, s).sum * Spe!Prices(item, t).lines < Spe!Prices(item, t).sum * Spe!Prices(item, s).lines
    PROVE  \E l, k \in BoughtLines(item) :
             order[l[1]].supplier # order[k[1]].supplier /\ Spe!Line(l).price < Spe!Line(k).price
<1> DEFINE f == [l \in BoughtFrom(item, s) |-> Spe!Line(l).price]
           g == [l \in BoughtFrom(item, t) |-> Spe!Line(l).price]
<1>1. /\ IsFiniteSet(BoughtFrom(item, s)) /\ IsFiniteSet(BoughtFrom(item, t))
      /\ BoughtFrom(item, s) \subseteq BoughtLines(item)
      /\ BoughtFrom(item, t) \subseteq BoughtLines(item)
      /\ \A l \in BoughtFrom(item, s) : order[l[1]].supplier = s
      /\ \A l \in BoughtFrom(item, t) : order[l[1]].supplier = t
  BY BoughtLinesAre, FS_Subset DEF BoughtFrom
<1>2. /\ DOMAIN f = BoughtFrom(item, s) /\ DOMAIN g = BoughtFrom(item, t)
      /\ \A l \in BoughtFrom(item, s) : f[l] = Spe!Line(l).price /\ f[l] \in Nat
      /\ \A l \in BoughtFrom(item, t) : g[l] = Spe!Line(l).price /\ g[l] \in Nat
  BY <1>1, BoughtLinesAre
<1>3. /\ Spe!Prices(item, s).sum = Spe!Sum(f) /\ Spe!Prices(item, s).lines = Cardinality(DOMAIN f)
      /\ Spe!Prices(item, t).sum = Spe!Sum(g) /\ Spe!Prices(item, t).lines = Cardinality(DOMAIN g)
  BY <1>2, PricesAre
<1> HIDE DEF f, g
<1>4. s # t
  <2>1. Spe!Sum(f) \in Nat /\ Cardinality(DOMAIN f) \in Nat
    BY <1>1, <1>2, SumNat, FS_CardinalityType
  <2>2. Spe!Sum(f) * Cardinality(DOMAIN f) \in Nat
    BY <2>1
  <2>3. ~ (Spe!Sum(f) * Cardinality(DOMAIN f) < Spe!Sum(f) * Cardinality(DOMAIN f))
    BY <2>2
  <2>4. s = t => Spe!Sum(f) = Spe!Sum(g) /\ Cardinality(DOMAIN f) = Cardinality(DOMAIN g)
    BY <1>3
  <2>. QED  BY <1>3, <2>3, <2>4
<1>5. Spe!Sum(f) * Cardinality(DOMAIN g) < Spe!Sum(g) * Cardinality(DOMAIN f)
  BY <1>3
<1>6. PICK l \in DOMAIN f : \E k \in DOMAIN g : f[l] < g[k]
  BY <1>1, <1>2, <1>5, CheaperOnce
<1>7. PICK k \in DOMAIN g : f[l] < g[k]
  BY <1>6
<1>. QED  BY <1>1, <1>2, <1>4, <1>7

LEMMA SavingsHold == ASSUME Spe!TypeOK PROVE Spe!SavingsReal
<1> SUFFICES ASSUME NEW item \in Goods, Spe!Savings(item) # {}
             PROVE  \E l, k \in BoughtLines(item) :
                      order[l[1]].supplier # order[k[1]].supplier /\ Spe!Line(l).price < Spe!Line(k).price
  BY DEF Spe!SavingsReal, BoughtLines, AllLines
<1>1. PICK pair \in Spe!Sellers(item) \X Spe!Sellers(item) :
        Spe!Prices(item, pair[1]).sum * Spe!Prices(item, pair[2]).lines
          < Spe!Prices(item, pair[2]).sum * Spe!Prices(item, pair[1]).lines
  BY DEF Spe!Savings
<1>2. pair[1] \in Firms /\ pair[2] \in Firms
  BY DEF Spe!Sellers
<1>. QED  BY <1>1, <1>2, SavingReal

-----------------------------------------------------------------------------
(* The scores.                                                             *)

LEMMA ScoredIs ==
    ASSUME Spe!TypeOK, NEW s \in Spe!Scored
    PROVE  /\ Spe!Finished(s) \in SUBSET Spe!Stored /\ Spe!FinishedLines(s) = AllLines(Spe!Finished(s))
           /\ IsFiniteSet(Spe!FinishedLines(s)) /\ Spe!FinishedLines(s) # {}
           /\ Cardinality(Spe!FinishedLines(s)) \in Nat \ {0}
           /\ \A l \in Spe!FinishedLines(s) : Spe!Line(l).price \in Nat
           /\ \A l : l \in Spe!FinishedLines(s) <=> \E o \in Spe!Finished(s) : l \in Spe!Lines(o)
<1>1. Spe!Finished(s) \in SUBSET Spe!Stored
  BY DEF Spe!Finished
<1>2. Spe!FinishedLines(s) = AllLines(Spe!Finished(s))
  BY DEF Spe!FinishedLines, AllLines
<1>3. /\ IsFiniteSet(Spe!Finished(s)) /\ IsFiniteSet(Spe!FinishedLines(s))
      /\ \A l \in Spe!FinishedLines(s) : Spe!Line(l).price \in Nat
      /\ \A l : l \in Spe!FinishedLines(s) <=> \E o \in Spe!Finished(s) : l \in Spe!Lines(o)
  BY <1>1, <1>2, AllLinesAre
<1>4. Spe!Finished(s) # {}
  <2>1. Cardinality(Spe!Finished(s)) >= MinSample
    BY SpeSizes DEF Spe!Scored
  <2>. QED  BY <1>3, <2>1, Calendar, FS_EmptySet
<1>5. PICK o \in Spe!Finished(s) : TRUE
  BY <1>4
<1>6. o \in Spe!Stored /\ Spe!Lines(o) # {}
  BY <1>1, LinesAre
<1>7. Spe!FinishedLines(s) # {}
  BY <1>3, <1>5, <1>6
<1>8. Cardinality(Spe!FinishedLines(s)) \in Nat /\ Cardinality(Spe!FinishedLines(s)) # 0
  BY <1>3, <1>7, FS_CardinalityType, FS_EmptySet
<1>. QED  BY <1>1, <1>2, <1>3, <1>7, <1>8

LEMMA ScoredFinite == IsFiniteSet(Spe!Scored)
<1>1. Spe!Scored \subseteq Firms
  BY DEF Spe!Scored
<1>. QED  BY <1>1, Calendar, FS_Subset

(* There are finitely many ways to choose an element of each set, and at   *)
(* least one.                                                              *)
LEMMA ChoicesAre ==
    ASSUME NEW S, IsFiniteSet(S), NEW lines,
           \A s \in S : IsFiniteSet(lines[s]) /\ lines[s] # {}
    PROVE  Cardinality({f \in [S -> UNION {lines[s] : s \in S}] : \A s \in S : f[s] \in lines[s]})
             \in Nat \ {0}
<1> DEFINE Rows == {lines[s] : s \in S}
           U == UNION Rows
           C == {f \in [S -> U] : \A s \in S : f[s] \in lines[s]}
           g == [s \in S |-> CHOOSE l : l \in lines[s]]
           h == [f \in C |-> {p \in S \X U : p[2] = f[p[1]]}]
           k == [s \in S |-> lines[s]]
<1>1. k \in Surjection(S, Rows)
  BY DEF Surjection
<1>2. \A T \in Rows : IsFiniteSet(T)
  OBVIOUS
<1>3. \A s \in S : \A l \in lines[s] : l \in U
  OBVIOUS
<1>4. IsFiniteSet(U)
  <2> HIDE DEF Rows, k
  <2>1. IsFiniteSet(Rows)
    BY <1>1, FS_Surjection
  <2>. QED  BY <1>2, <2>1, FS_UNION
<1> HIDE DEF Rows, U, k
<1>5. g \in C
  <2>1. \A s \in S : g[s] \in lines[s]
    OBVIOUS
  <2>2. g \in [S -> U]
    <3>1. \A s \in S : g[s] \in U
      BY <1>3, <2>1
    <3>. QED  BY <3>1
  <2>. QED  BY <2>1, <2>2
<1>6. \A f \in C : f \in [S -> U]
  OBVIOUS
<1> HIDE DEF C, g
<1>7. h \in [C -> SUBSET (S \X U)]
  OBVIOUS
<1>8. ASSUME NEW f \in C, NEW e \in C, h[f] = h[e] PROVE f = e
  <2>0. f \in [S -> U] /\ e \in [S -> U]
    BY <1>6
  <2>1. ASSUME NEW s \in S PROVE f[s] = e[s]
    <3>1. f[s] \in U
      BY <2>0
    <3>2. <<s, f[s]>> \in h[f]
      BY <3>1
    <3>3. <<s, f[s]>> \in h[e]
      BY <1>8, <3>2
    <3>. QED  BY <3>3
  <2> HIDE DEF h
  <2>. QED  BY <2>0, <2>1
<1>9. IsFiniteSet(SUBSET (S \X U))
  BY <1>4, FS_Product, FS_SUBSET
<1>10. IsFiniteSet(C)
  <2> HIDE DEF h
  <2>1. h \in Injection(C, SUBSET (S \X U))
    BY <1>7, <1>8 DEF Injection, IsInjective
  <2>. QED  BY <1>9, <2>1, FS_Injection
<1>11. Cardinality(C) \in Nat /\ Cardinality(C) # 0
  BY <1>5, <1>10, FS_CardinalityType, FS_EmptySet
<1>. QED  BY <1>11 DEF C, U, Rows

LEMMA AveragesAre ==
    ASSUME Spe!TypeOK
    PROVE  /\ Spe!Averages.scale \in Nat \ {0}
           /\ DOMAIN Spe!Averages.of = Spe!Scored
           /\ \A s \in Spe!Scored : Spe!Averages.of[s] \in Nat
<1> DEFINE lines == [s \in Spe!Scored |-> Spe!FinishedLines(s)]
           scale == Cardinality({f \in [Spe!Scored -> UNION {lines[s] : s \in Spe!Scored}] :
                                   \A s \in Spe!Scored : f[s] \in lines[s]})
           mean == [s \in Spe!Scored |-> (Spe!Sum([l \in lines[s] |-> Spe!Line(l).price]) * scale)
                                       \div Cardinality(lines[s])]
<1>1. Spe!Averages = [scale |-> scale, of |-> mean]
  BY DEF Spe!Averages, Spe!Cardinality, Cardinality
<1>2. Spe!Averages.scale = scale /\ Spe!Averages.of = mean
  <2> HIDE DEF scale, mean
  <2>. QED  BY <1>1
<1>3. \A s \in Spe!Scored : lines[s] = Spe!FinishedLines(s)
  OBVIOUS
<1>4. scale \in Nat \ {0}
  <2>1. \A s \in Spe!Scored : IsFiniteSet(lines[s]) /\ lines[s] # {}
    BY <1>3, ScoredIs
  <2> HIDE DEF lines
  <2>. QED  BY <2>1, ScoredFinite, ChoicesAre
<1> HIDE DEF scale
<1>5. ASSUME NEW s \in Spe!Scored PROVE mean[s] \in Nat
  <2> DEFINE f == [l \in lines[s] |-> Spe!Line(l).price]
  <2>1. DOMAIN f = lines[s] /\ \A l \in lines[s] : f[l] = Spe!Line(l).price
    OBVIOUS
  <2>2. mean[s] = (Spe!Sum(f) * scale) \div Cardinality(lines[s])
    OBVIOUS
  <2> HIDE DEF f, lines
  <2>3. /\ IsFiniteSet(lines[s]) /\ Cardinality(lines[s]) \in Nat \ {0}
        /\ \A l \in lines[s] : Spe!Line(l).price \in Nat
    BY <1>3, ScoredIs
  <2>4. Spe!Sum(f) \in Nat
    BY <2>1, <2>3, SumNat
  <2>5. Spe!Sum(f) * scale \in Nat
    BY <1>4, <2>4
  <2>6. (Spe!Sum(f) * scale) \div Cardinality(lines[s]) \in Nat
    BY <2>3, <2>5, QuotientIs
  <2> HIDE DEF mean
  <2>. QED  BY <2>2, <2>6
<1>6. DOMAIN mean = Spe!Scored
  OBVIOUS
<1> HIDE DEF mean
<1>. QED  BY <1>2, <1>4, <1>5, <1>6

LEMMA PricedAre ==
    ASSUME Spe!TypeOK
    PROVE  /\ Priced \in SUBSET (Nat \ {0})
           /\ \A x : x \in Priced <=> \E t \in Spe!Scored : x = Spe!Averages.of[t] /\ x # 0
           /\ \E b \in Nat : \A x \in Priced : x <= b
<1> DEFINE mean == Spe!Averages.of
<1>1. \A x : x \in Priced <=> \E t \in Spe!Scored : x = mean[t] /\ x # 0
  BY DEF Priced
<1>2. DOMAIN mean = Spe!Scored /\ \A t \in Spe!Scored : mean[t] \in Nat
  BY AveragesAre
<1> HIDE DEF mean
<1>3. Priced \in SUBSET (Nat \ {0})
  BY <1>1, <1>2
<1>4. Spe!Sum(mean) \in Nat
  BY <1>2, ScoredFinite, SumNat
<1>5. ASSUME NEW x \in Priced PROVE x <= Spe!Sum(mean)
  <2>1. PICK t \in Spe!Scored : x = mean[t]
    BY <1>1, <1>5
  <2> DEFINE f == [u \in {t} |-> mean[u]]
  <2>2. f = [u \in {t} |-> mean[t]]
    OBVIOUS
  <2>3. Spe!Sum([u \in {t} |-> mean[t]]) = Cardinality({t}) * mean[t]
    <3>1. mean[t] \in Nat /\ IsFiniteSet({t})
      BY <1>2, FS_Singleton
    <3>. QED  BY <3>1, SumOfSame
  <2>4. Spe!Sum(f) = mean[t]
    <3>1. Cardinality({t}) = 1 /\ mean[t] \in Nat
      BY <1>2, FS_Singleton
    <3>2. Cardinality({t}) * mean[t] = mean[t]
      BY <3>1
    <3> HIDE DEF f
    <3>. QED  BY <2>2, <2>3, <3>2
  <2>5. DOMAIN f = {t} /\ f[t] = mean[t]
    OBVIOUS
  <2> HIDE DEF f
  <2>6. Spe!Sum(f) <= Spe!Sum(mean)
    BY <1>2, <2>5, ScoredFinite, SumGrows
  <2>. QED  BY <2>1, <2>4, <2>6
<1>. QED  BY <1>1, <1>3, <1>4, <1>5 DEF mean

LEMMA ExtremesAre ==
    ASSUME NEW T \in SUBSET Nat, T # {}, NEW b \in Nat, \A x \in T : x <= b
    PROVE  /\ Spe!Min(T) \in T /\ \A x \in T : Spe!Min(T) <= x
           /\ Spe!Max(T) \in T /\ \A x \in T : x <= Spe!Max(T)
<1>1. \E x \in T : \A y \in T : x <= y
  BY LeastOf
<1>2. Spe!Min(T) \in T /\ \A y \in T : Spe!Min(T) <= y
  BY <1>1 DEF Spe!Min
<1> DEFINE B == {n \in Nat : \A x \in T : x <= n}
<1>3. B \in SUBSET Nat /\ B # {}
  OBVIOUS
<1>4. PICK m \in B : \A n \in B : m <= n
  <2> HIDE DEF B
  <2>. QED  BY <1>3, LeastOf
<1>5. m \in T
  <2> SUFFICES ASSUME m \notin T PROVE FALSE
    OBVIOUS
  <2>1. m \in Nat /\ \A x \in T : x < m
    OBVIOUS
  <2>2. m # 0
    <3>1. PICK x \in T : TRUE
      OBVIOUS
    <3>2. x \in Nat /\ x < m
      BY <2>1
    <3>. QED  BY <3>2
  <2>3. m - 1 \in Nat /\ \A x \in T : x <= m - 1
    BY <2>1, <2>2
  <2>4. m - 1 \in B
    BY <2>3
  <2>. QED  BY <1>4, <2>1, <2>4
<1>6. \E x \in T : \A y \in T : x >= y
  BY <1>5
<1>7. Spe!Max(T) \in T /\ \A y \in T : Spe!Max(T) >= y
  BY <1>6 DEF Spe!Max
<1>. QED  BY <1>2, <1>7

LEMMA DenominatorIs ==
    ASSUME Spe!TypeOK
    PROVE  /\ Denominator \in Nat \ {0}
           /\ Priced # {} =>
                /\ Spe!Min(Priced) \in Priced /\ \A x \in Priced : Spe!Min(Priced) <= x
                /\ \A x \in Priced : x - Spe!Min(Priced) <= Denominator
<1>1. Spe!Averages.scale \in Nat \ {0} /\ Priced \in SUBSET Nat
  BY AveragesAre, PricedAre
<1>2. PICK b \in Nat : \A x \in Priced : x <= b
  BY PricedAre
<1>3. CASE Priced = {}
  BY <1>1, <1>3 DEF Denominator, Spread
<1>4. CASE Priced # {}
  <2>1. /\ Spe!Min(Priced) \in Priced /\ \A x \in Priced : Spe!Min(Priced) <= x
        /\ Spe!Max(Priced) \in Priced /\ \A x \in Priced : x <= Spe!Max(Priced)
    BY <1>1, <1>2, <1>4, ExtremesAre
  <2>2. Spread \in Nat /\ Spread = Spe!Max(Priced) - Spe!Min(Priced)
    <3>1. Spread = Spe!Max(Priced) - Spe!Min(Priced)
      BY <1>4 DEF Spread
    <3>2. Spe!Max(Priced) \in Nat /\ Spe!Min(Priced) \in Nat /\ Spe!Min(Priced) <= Spe!Max(Priced)
      BY <1>1, <2>1
    <3>. QED  BY <3>1, <3>2
  <2>3. Denominator \in Nat \ {0} /\ Spread <= Denominator
    BY <1>1, <2>2 DEF Denominator
  <2>4. ASSUME NEW x \in Priced PROVE x - Spe!Min(Priced) <= Denominator
    <3>1. /\ x \in Nat /\ Spe!Min(Priced) \in Nat /\ Spe!Max(Priced) \in Nat
          /\ Spe!Min(Priced) <= x /\ x <= Spe!Max(Priced)
      BY <1>1, <2>1, <2>4
    <3>. QED  BY <2>2, <2>3, <3>1
  <2>. QED  BY <2>1, <2>3, <2>4
<1>. QED  BY <1>3, <1>4

LEMMA SharesAre ==
    ASSUME Spe!TypeOK, NEW s \in Spe!Scored
    PROVE  /\ Share(s) \in Nat /\ Share(s) <= Denominator
           /\ Spe!Averages.of[s] = 0 => Share(s) = 0
           /\ Share(s) = Denominator <=>
                /\ Spe!Averages.of[s] > 0
                /\ \A t \in Spe!Scored : Spe!Averages.of[t] > 0 => Spe!Averages.of[s] <= Spe!Averages.of[t]
           /\ \A t \in Spe!Scored :
                0 < Spe!Averages.of[s] /\ Spe!Averages.of[s] < Spe!Averages.of[t] => Share(t) < Share(s)
<1> DEFINE mean == Spe!Averages.of
<1>1. \A t \in Spe!Scored : mean[t] \in Nat
  BY AveragesAre
<1>2. /\ Priced \in SUBSET Nat
      /\ \A t \in Spe!Scored : mean[t] # 0 => mean[t] \in Priced
      /\ \A x \in Priced : \E t \in Spe!Scored : x = mean[t] /\ x # 0
  BY PricedAre
<1>3. /\ Denominator \in Nat /\ Denominator # 0
      /\ Priced # {} =>
           /\ Spe!Min(Priced) \in Priced /\ \A x \in Priced : Spe!Min(Priced) <= x
           /\ \A x \in Priced : x - Spe!Min(Priced) <= Denominator
  BY DenominatorIs
<1>4. \A t \in Spe!Scored : Share(t) = IF mean[t] = 0 THEN 0 ELSE Denominator - (mean[t] - Spe!Min(Priced))
  BY DEF Share
<1> HIDE DEF mean
<1>5. CASE mean[s] = 0
  <2>1. Share(s) = 0
    BY <1>4, <1>5
  <2>. QED  BY <1>3, <1>5, <2>1 DEF mean
<1>6. CASE mean[s] # 0
  <2>1. mean[s] \in Priced
    BY <1>2, <1>6
  <2>2. /\ Spe!Min(Priced) \in Nat /\ Spe!Min(Priced) # 0 /\ Spe!Min(Priced) <= mean[s]
        /\ mean[s] - Spe!Min(Priced) <= Denominator
    BY <1>2, <1>3, <2>1
  <2>3. Share(s) = Denominator - (mean[s] - Spe!Min(Priced))
    BY <1>4, <1>6
  <2>4. Share(s) \in Nat /\ Share(s) <= Denominator
    BY <1>1, <1>3, <2>2, <2>3
  <2>5. Share(s) = Denominator <=> mean[s] = Spe!Min(Priced)
    BY <1>1, <1>3, <2>2, <2>3
  <2>6. mean[s] = Spe!Min(Priced) <=> \A t \in Spe!Scored : mean[t] > 0 => mean[s] <= mean[t]
    <3>1. ASSUME mean[s] = Spe!Min(Priced), NEW t \in Spe!Scored, mean[t] > 0 PROVE mean[s] <= mean[t]
      <4>1. mean[t] \in Priced
        BY <1>1, <1>2, <3>1
      <4>. QED  BY <1>3, <3>1, <4>1
    <3>2. ASSUME \A t \in Spe!Scored : mean[t] > 0 => mean[s] <= mean[t] PROVE mean[s] = Spe!Min(Priced)
      <4>1. PICK t \in Spe!Scored : Spe!Min(Priced) = mean[t]
        BY <1>2, <1>3, <2>1
      <4>. QED  BY <1>1, <2>2, <3>2, <4>1
    <3>. QED  BY <3>1, <3>2
  <2>7. ASSUME NEW t \in Spe!Scored, mean[s] < mean[t] PROVE Share(t) < Share(s)
    <3>1. mean[t] # 0
      BY <1>1, <2>7
    <3>2. Share(t) = Denominator - (mean[t] - Spe!Min(Priced))
      BY <1>4, <3>1
    <3>. QED  BY <1>1, <1>3, <2>2, <2>3, <2>7, <3>2
  <2>8. mean[s] > 0
    BY <1>1, <1>6
  <2>. QED  BY <1>6, <2>4, <2>5, <2>6, <2>7, <2>8 DEF mean
<1>. QED  BY <1>5, <1>6

LEMMA PerformanceIs ==
    \A s : Spe!Performance(s, Spe!Averages) =
             [onTime |-> Cardinality(LinesOnTime(s)), lines |-> Cardinality(Spe!FinishedLines(s)),
              overall |-> [num |-> 40 * Cardinality(LinesOnTime(s)) * Denominator
                                     + 50 * Cardinality(Spe!FinishedLines(s)) * Denominator
                                     + 10 * Share(s) * Cardinality(Spe!FinishedLines(s)),
                           den |-> Cardinality(Spe!FinishedLines(s)) * Denominator]]
BY SpeSizes DEF Spe!Performance, LinesOnTime, Denominator, Spread, Priced, Share

(* A supplier all of whose finished orders were closed in time has all of  *)
(* its lines in time.                                                      *)
LEMMA OnTimeIs ==
    ASSUME Spe!TypeOK, NEW s \in Spe!Scored
    PROVE  /\ Cardinality(LinesOnTime(s)) \in Nat
           /\ Cardinality(LinesOnTime(s)) <= Cardinality(Spe!FinishedLines(s))
           /\ Cardinality(LinesOnTime(s)) = Cardinality(Spe!FinishedLines(s)) <=>
                \A o \in Spe!Finished(s) : ~ (order[o].closed \in (Spe!Expected(o) + 1)..MaxClock)
<1> DEFINE L == Spe!FinishedLines(s)
           T == LinesOnTime(s)
           late(o) == order[o].closed \in (Spe!Expected(o) + 1)..MaxClock
<1>1. /\ IsFiniteSet(L) /\ Spe!Finished(s) \in SUBSET Spe!Stored
      /\ \A l : l \in L <=> \E o \in Spe!Finished(s) : l \in Spe!Lines(o)
  BY ScoredIs
<1>2. T \subseteq L /\ \A l \in L : l \in T <=> Spe!OnTime(l[1])
  BY DEF LinesOnTime
<1>3. ASSUME NEW o \in Spe!Finished(s)
      PROVE  Spe!OnTime(o) <=> ~ late(o)
  <2>1. o \in Spe!Stored
    BY <1>1
  <2>2. /\ order[o].created \in Nat /\ order[o].deal.lead \in Nat /\ MaxClock \in Nat
        /\ order[o].closed = Spe!Never \/ (order[o].closed \in Nat /\ order[o].closed <= MaxClock)
    <3>1. order[o].deal.lead \in Nat
      BY <2>1, OrderIs, DealIs
    <3>. QED  BY <2>1, <3>1, OrderIs, Calendar
  <2>. QED  BY <2>2 DEF Spe!OnTime, Spe!Expected, Spe!Never
<1>4. \A o \in Spe!Finished(s) : Spe!Lines(o) # {} /\ \A l \in Spe!Lines(o) : l[1] = o
  BY <1>1, LinesAre
<1> HIDE DEF L, T, late
<1>5. (T = L) <=> \A o \in Spe!Finished(s) : ~ late(o)
  <2>1. ASSUME T = L, NEW o \in Spe!Finished(s) PROVE ~ late(o)
    <3>1. PICK l \in Spe!Lines(o) : TRUE
      BY <1>4
    <3>2. l \in T /\ l[1] = o
      BY <1>1, <1>4, <2>1
    <3>. QED  BY <1>2, <1>3, <3>2
  <2>2. ASSUME \A o \in Spe!Finished(s) : ~ late(o), NEW l \in L PROVE l \in T
    <3>1. PICK o \in Spe!Finished(s) : l \in Spe!Lines(o)
      BY <1>1
    <3>. QED  BY <1>2, <1>3, <1>4, <2>2, <3>1
  <2>. QED  BY <1>2, <2>1, <2>2
<1>6. IsFiniteSet(T) /\ Cardinality(T) \in Nat /\ Cardinality(T) <= Cardinality(L)
  BY <1>1, <1>2, FS_Subset, FS_CardinalityType
<1>7. Cardinality(T) = Cardinality(L) => T = L
  BY <1>1, <1>2, FS_Subset
<1>. QED  BY <1>5, <1>6, <1>7 DEF L, T, late

LEMMA ScoreIs ==
    ASSUME NEW k \in Nat, NEW n \in Nat \ {0}, NEW d \in Nat \ {0}, NEW p \in Nat,
           k <= n, p <= d
    PROVE  /\ Points(k, n, d, p) \in Nat /\ OutOf(n, d) \in Nat
           /\ 50 * OutOf(n, d) <= Points(k, n, d, p) /\ Points(k, n, d, p) <= 100 * OutOf(n, d)
           /\ Points(k, n, d, p) = 100 * OutOf(n, d) <=> k = n /\ p = d
           /\ p = 0 => Points(k, n, d, p) <= 90 * OutOf(n, d)
<1>1. PICK i \in Nat : n = k + i
  <2>1. n - k \in Nat /\ n = k + (n - k)
    OBVIOUS
  <2>. QED  BY <2>1
<1>2. PICK j \in Nat : d = p + j
  <2>1. d - p \in Nat /\ d = p + (d - p)
    OBVIOUS
  <2>. QED  BY <2>1
<1> DEFINE a == k * d
           b == i * d
           c == p * n
           e == j * n
<1>3. a \in Nat /\ b \in Nat /\ c \in Nat /\ e \in Nat
  OBVIOUS
<1>4. OutOf(n, d) = a + b
  BY <1>1 DEF OutOf
<1>5. OutOf(n, d) = c + e
  <2>1. n * d = d * n
    OBVIOUS
  <2>2. d * n = c + e
    BY <1>2
  <2>. QED  BY <2>1, <2>2 DEF OutOf
<1>6. Points(k, n, d, p) = 40 * a + 50 * OutOf(n, d) + 10 * c
  BY DEF Points, OutOf
<1>7. b = 0 <=> k = n
  <2>1. b = 0 <=> i = 0
    OBVIOUS
  <2>. QED  BY <1>1, <2>1
<1>8. e = 0 <=> p = d
  <2>1. e = 0 <=> j = 0
    OBVIOUS
  <2>. QED  BY <1>2, <2>1
<1>9. p = 0 => c = 0
  OBVIOUS
<1> HIDE DEF a, b, c, e
<1>. QED  BY <1>3, <1>4, <1>5, <1>6, <1>7, <1>8, <1>9

LEMMA Positive == \A a, b \in Nat \ {0} : a * b \in Nat \ {0}
OBVIOUS

LEMMA CheaperScoresMore ==
    ASSUME NEW k \in Nat, NEW n \in Nat \ {0}, NEW p \in Nat,
           NEW h \in Nat, NEW m \in Nat \ {0}, NEW q \in Nat,
           NEW d \in Nat \ {0}, k * m = h * n, q < p
    PROVE  Points(k, n, d, p) * OutOf(m, d) > Points(h, m, d, q) * OutOf(n, d)
<1> DEFINE D == d * d
           N == n * m
           F == N * d
<1>0. D \in Nat /\ N \in Nat \ {0} /\ F \in Nat \ {0}
  BY Positive
<1>1. Points(k, n, d, p) * OutOf(m, d)
        = 40 * ((k * m) * D) + 50 * (N * D) + 10 * (p * F)
  BY DEF Points, OutOf
<1>2. Points(h, m, d, q) * OutOf(n, d)
        = 40 * ((h * n) * D) + 50 * (N * D) + 10 * (q * F)
  BY DEF Points, OutOf
<1>3. PICK r \in Nat \ {0} : p = q + r
  <2>1. p - q \in Nat \ {0} /\ p = q + (p - q)
    OBVIOUS
  <2>. QED  BY <2>1
<1> DEFINE X == (k * m) * D
           Y == N * D
           U == q * F
           V == r * F
<1>4. p * F = U + V
  BY <1>0, <1>3
<1>5. V \in Nat \ {0} /\ U \in Nat /\ X \in Nat /\ Y \in Nat
  BY <1>0, <1>3, Positive
<1>6. (h * n) * D = X
  OBVIOUS
<1> HIDE DEF U, V, X, Y
<1>7. 40 * X + 50 * Y + 10 * (U + V) > 40 * X + 50 * Y + 10 * U
  BY <1>5
<1>. QED  BY <1>1, <1>2, <1>4, <1>6, <1>7 DEF U, V, X, Y

LEMMA ScoresHold == ASSUME Spe!TypeOK PROVE Spe!ScoresFair
<1> DEFINE average == Spe!Averages
           mean == average.of
           marks == [s \in Spe!Scored |-> Spe!Performance(s, average)]
           late(o) == order[o].closed \in (Spe!Expected(o) + 1)..MaxClock
           K(s) == Cardinality(LinesOnTime(s))
           N(s) == Cardinality(Spe!FinishedLines(s))
           d == Denominator
<1>1. ASSUME NEW s \in Spe!Scored
      PROVE  /\ marks[s].onTime = K(s) /\ marks[s].lines = N(s)
             /\ marks[s].overall.num = 40 * K(s) * d + 50 * N(s) * d + 10 * Share(s) * N(s)
             /\ marks[s].overall.den = N(s) * d
  <2> DEFINE num == 40 * K(s) * d + 50 * N(s) * d + 10 * Share(s) * N(s)
             den == N(s) * d
  <2>1. marks[s] = [onTime |-> K(s), lines |-> N(s), overall |-> [num |-> num, den |-> den]]
    BY PerformanceIs
  <2> HIDE DEF num, den, marks, K, N
  <2>2. /\ marks[s].onTime = K(s) /\ marks[s].lines = N(s)
        /\ marks[s].overall.num = num /\ marks[s].overall.den = den
    BY <2>1
  <2>. QED  BY <2>2 DEF num, den
<1>2. ASSUME NEW s \in Spe!Scored
      PROVE  /\ K(s) \in Nat /\ N(s) \in Nat \ {0} /\ K(s) <= N(s)
             /\ K(s) = N(s) <=> \A o \in Spe!Finished(s) : ~ late(o)
  BY ScoredIs, OnTimeIs
<1>3. d \in Nat \ {0}
  BY DenominatorIs
<1>4. ASSUME NEW s \in Spe!Scored
      PROVE  /\ Share(s) \in Nat /\ Share(s) <= d
             /\ mean[s] = 0 => Share(s) = 0
             /\ Share(s) = d <=> /\ mean[s] > 0
                                 /\ \A t \in Spe!Scored : mean[t] > 0 => mean[s] <= mean[t]
             /\ \A t \in Spe!Scored : 0 < mean[s] /\ mean[s] < mean[t] => Share(t) < Share(s)
  BY SharesAre
<1> HIDE DEF marks, mean, late, K, N, d, average
<1>5. ASSUME NEW s \in Spe!Scored
      PROVE  /\ marks[s].overall.num \in Nat /\ marks[s].overall.den \in Nat
             /\ 50 * marks[s].overall.den <= marks[s].overall.num
             /\ marks[s].overall.num <= 100 * marks[s].overall.den
             /\ marks[s].overall.num = 100 * marks[s].overall.den <=> K(s) = N(s) /\ Share(s) = d
             /\ Share(s) = 0 => marks[s].overall.num <= 90 * marks[s].overall.den
  <2> DEFINE k == K(s)
             n == N(s)
             p == Share(s)
             num == marks[s].overall.num
             den == marks[s].overall.den
  <2>1. k \in Nat /\ n \in Nat \ {0} /\ d \in Nat \ {0} /\ p \in Nat /\ k <= n /\ p <= d
    BY <1>2, <1>3, <1>4
  <2>2. num = 40 * k * d + 50 * n * d + 10 * p * n /\ den = n * d
    BY <1>1
  <2> HIDE DEF k, n, p, num, den
  <2>3. /\ num \in Nat /\ den \in Nat
        /\ 50 * den <= num /\ num <= 100 * den
        /\ num = 100 * den <=> k = n /\ p = d
        /\ p = 0 => num <= 90 * den
    BY <2>1, <2>2, ScoreIs DEF Points, OutOf
  <2>. QED  BY <2>3 DEF k, n, p, num, den
<1>6. ASSUME NEW s \in Spe!Scored, NEW t \in Spe!Scored,
             marks[s].onTime * marks[t].lines = marks[t].onTime * marks[s].lines,
             0 < mean[s] /\ mean[s] < mean[t]
      PROVE  marks[s].overall.num * marks[t].overall.den > marks[t].overall.num * marks[s].overall.den
  <2>1. K(s) * N(t) = K(t) * N(s)
    BY <1>1, <1>6
  <2>2. Share(t) < Share(s)
    BY <1>4, <1>6
  <2>3. Points(K(s), N(s), d, Share(s)) * OutOf(N(t), d)
          > Points(K(t), N(t), d, Share(t)) * OutOf(N(s), d)
    BY <1>2, <1>3, <1>4, <2>1, <2>2, CheaperScoresMore
  <2>4. /\ marks[s].overall.num = Points(K(s), N(s), d, Share(s))
        /\ marks[t].overall.num = Points(K(t), N(t), d, Share(t))
        /\ marks[s].overall.den = OutOf(N(s), d) /\ marks[t].overall.den = OutOf(N(t), d)
    BY <1>1 DEF Points, OutOf
  <2>. QED  BY <2>3, <2>4
<1>7. ASSUME NEW s \in Spe!Scored
      PROVE  (marks[s].overall.num = 100 * marks[s].overall.den)
               = /\ \A o \in Spe!Finished(s) : ~ late(o)
                 /\ mean[s] > 0
                 /\ \A t \in Spe!Scored : mean[t] > 0 => mean[s] <= mean[t]
  BY <1>2, <1>4, <1>5
<1>8. \A s \in Spe!Scored : mean[s] = 0 => marks[s].overall.num <= 90 * marks[s].overall.den
  BY <1>4, <1>5
<1>. QED  BY <1>5, <1>6, <1>7, <1>8 DEF Spe!ScoresFair, marks, mean, late, average

-----------------------------------------------------------------------------
(* The orders keep their parts, and the budgets only worsen.               *)

LEMMA SpendingInit == Spe!Init => Spe!TypeOK
<1>1. MaxClock \in Nat /\ 0 \in 0..MaxClock
  BY Calendar
<1>. QED  BY <1>1 DEF Spe!Init, Spe!TypeOK

LEMMA CreateStep ==
    ASSUME Spe!TypeOK, NEW o \in Calls, NEW s \in Firms, NEW d \in Deals, Spe!Create(o, s, d)
    PROVE  Spe!TypeOK' /\ OrdersMove
<1>1. clock \in 0..MaxClock /\ MaxClock \in Nat /\ order \in [Calls -> {Spe!NoOrder} \cup Order]
  BY Calendar DEF Spe!TypeOK, Order
<1>2. PICK new : new = [state |-> "draft", supplier |-> s, deal |-> d,
                        created |-> clock, closed |-> Spe!Never]
  OBVIOUS
<1>3. new \in Order
  BY <1>1, <1>2 DEF Order, Spe!States
<1>4. /\ order' = [order EXCEPT ![o] = new]
      /\ budget' = budget /\ clock' = clock /\ o \notin Spe!Stored
  BY <1>2 DEF Spe!Create
<1>5. order' \in [Calls -> {Spe!NoOrder} \cup Order]
  BY <1>1, <1>3, <1>4
<1>6. Order' = Order
  BY <1>4 DEF Order
<1>7. Spe!TypeOK'
  BY <1>4, <1>5, <1>6 DEF Spe!TypeOK, Order
<1>8. ASSUME NEW p \in Spe!Stored PROVE order'[p] = order[p] /\ order[p].state # "none"
  BY <1>1, <1>4 DEF Spe!Stored
<1>. QED  BY <1>7, <1>8 DEF OrdersMove

LEMMA MoveStep ==
    ASSUME Spe!TypeOK, NEW o \in Calls, NEW state \in Spe!States, Spe!Move(o, state)
    PROVE  Spe!TypeOK' /\ OrdersMove
<1>1. clock \in 0..MaxClock /\ MaxClock \in Nat /\ order \in [Calls -> {Spe!NoOrder} \cup Order]
  BY Calendar DEF Spe!TypeOK, Order
<1>2. /\ o \in Spe!Stored /\ order[o].state \in DOMAIN Spe!Transitions
      /\ state \in Spe!Transitions[order[o].state]
      /\ budget' = budget /\ clock' = clock
  BY DEF Spe!Move
<1>3. order[o] \in Order
  BY <1>1, <1>2 DEF Spe!Stored, Spe!NoOrder
<1>4. PICK new : new = [order[o] EXCEPT !.state = state,
                                        !.closed = IF state = "closed" THEN clock ELSE @]
  OBVIOUS
<1>5. state # "none"
  BY <1>2 DEF Spe!Transitions
<1>6. clock \in 0..clock
  BY <1>1
<1>7. /\ new \in Order
      /\ new.supplier = order[o].supplier /\ new.deal = order[o].deal
      /\ new.created = order[o].created /\ new.state = state
  BY <1>3, <1>4, <1>5, <1>6 DEF Order
<1>8. order' = [order EXCEPT ![o] = new]
  BY <1>1, <1>4 DEF Spe!Move
<1>9. order' \in [Calls -> {Spe!NoOrder} \cup Order]
  BY <1>1, <1>7, <1>8
<1>10. Order' = Order
  BY <1>2 DEF Order
<1>11. Spe!TypeOK'
  BY <1>2, <1>9, <1>10 DEF Spe!TypeOK, Order
<1>12. \A p \in Spe!Stored : p # o => order'[p] = order[p] /\ order[p].state # "none"
  BY <1>1, <1>8 DEF Spe!Stored
<1>13. order'[o] = new
  BY <1>1, <1>8
<1>. QED  BY <1>2, <1>5, <1>7, <1>11, <1>12, <1>13 DEF OrdersMove

LEMMA BudgetSet ==
    ASSUME Spe!TypeOK, NEW limit \in Limits, NEW currency \in Spe!Currencies,
           Spe!UpsertBudget(clock \div Month, limit, currency)
    PROVE  Spe!TypeOK' /\ OrdersMove
<1>1. PICK new : new = [limit |-> limit, currency |-> currency]
  OBVIOUS
<1>2. new \in [limit: Limits, currency: Spe!Currencies]
  BY <1>1
<1>3. /\ budget' = [budget EXCEPT ![clock \div Month] = new]
      /\ order' = order /\ clock' = clock
  BY <1>1 DEF Spe!UpsertBudget
<1>. QED  BY <1>2, <1>3 DEF Spe!TypeOK, OrdersMove, Spe!Stored

LEMMA TickStep == ASSUME Spe!TypeOK, Spe!Tick PROVE Spe!TypeOK' /\ OrdersMove
<1>1. clock \in 0..MaxClock /\ MaxClock \in Nat /\ order \in [Calls -> {Spe!NoOrder} \cup Order]
  BY Calendar DEF Spe!TypeOK, Order
<1>2. order' = order /\ budget' = budget /\ clock' = clock + 1 /\ clock' \in 0..MaxClock
  BY <1>1 DEF Spe!Tick
<1>3. 0..clock \subseteq 0..clock'
  BY <1>1, <1>2
<1>4. Order \subseteq Order'
  BY <1>3 DEF Order
<1>5. order' \in [Calls -> {Spe!NoOrder} \cup Order']
  BY <1>1, <1>2, <1>4
<1>. QED  BY <1>2, <1>5 DEF Spe!TypeOK, Order, OrdersMove, Spe!Stored

LEMMA StepMoves == ASSUME Spe!TypeOK, Spe!Next PROVE Spe!TypeOK' /\ OrdersMove
BY CreateStep, MoveStep, BudgetSet, TickStep DEF Spe!Next

LEMMA SpendingNext == ASSUME Spe!TypeOK, [Spe!Next]_(Spe!vars) PROVE Spe!TypeOK'
<1>1. CASE UNCHANGED Spe!vars
  BY <1>1 DEF Spe!TypeOK, Spe!vars
<1>. QED  BY <1>1, StepMoves

LEMMA TotalsAre == Spe!TypeOK => TotalsNat
BY TotalNat DEF TotalsNat

LEMMA TotalsAreThen ==
    ASSUME Spe!TypeOK'
    PROVE  \A o \in Spe!Stored' : Spe!Total(o)' \in Nat
<1>1. TotalsNat'
  BY TotalsAre, PTL
<1>. QED  BY <1>1 DEF TotalsNat

LEMMA StatusIs == StatusKnown
BY DEF Spe!BudgetStatus, StatusOf, StatusKnown

LEMMA StatusWorsens ==
    ASSUME NEW limit \in Nat, NEW c \in Nat, NEW e \in Nat, c <= e
    PROVE  Spe!Severity[StatusOf(limit, e)] >= Spe!Severity[StatusOf(limit, c)]
<1>1. CASE limit = 0 \/ e >= limit
  BY <1>1 DEF StatusOf, Spe!Severity
<1>2. CASE limit # 0 /\ e < limit
  <2>1. 2 * 10000 * c + limit \in Nat /\ 2 * 10000 * e + limit \in Nat
        /\ 2 * 10000 * c + limit <= 2 * 10000 * e + limit /\ 2 * limit \in Nat \ {0}
    BY <1>2
  <2>2. (2 * 10000 * c + limit) \div (2 * limit) <= (2 * 10000 * e + limit) \div (2 * limit)
    BY <2>1, QuotientsGrow
  <2>3. Spe!Used(c, limit) <= Spe!Used(e, limit)
    BY <2>2 DEF Spe!Used
  <2>4. Spe!Used(c, limit) \in Nat /\ Spe!Used(e, limit) \in Nat
    BY <2>1, QuotientIs DEF Spe!Used
  <2>5. Spe!Used(c, limit) >= 100 * Warning => Spe!Used(e, limit) >= 100 * Warning
    BY <2>3, <2>4, Calendar
  <2>. QED  BY <1>2, <2>5 DEF StatusOf, Spe!Severity
<1>. QED  BY <1>1, <1>2

(* A stored order keeps its lines and its total.                           *)
LEMMA TotalsStay ==
    ASSUME Spe!TypeOK, OrdersMove, NEW o \in Spe!Stored
    PROVE  Spe!Total(o)' = Spe!Total(o)
<1>1. order'[o].deal = order[o].deal
  BY DEF OrdersMove
<1>2. Spe!Lines(o)' = Spe!Lines(o)
  BY <1>1 DEF Spe!Lines
<1>3. \A l \in Spe!Lines(o) : Spe!Line(l)' = Spe!Line(l)
  BY <1>1 DEF Spe!Lines, Spe!Line
<1>4. [l \in Spe!Lines(o)' |-> Spe!Line(l)'.quantity * Spe!Line(l)'.price]
        = [l \in Spe!Lines(o) |-> Spe!Line(l).quantity * Spe!Line(l).price]
  BY <1>2, <1>3
<1>5. Spe!Subtotal(o)' = Spe!Subtotal(o)
  BY <1>2, <1>4 DEF Spe!Subtotal, Spe!Amount
<1>. QED  BY <1>1, <1>5 DEF Spe!Total

(* What was committed stays so, unless an order is cancelled.              *)
LEMMA CommittedStays ==
    ASSUME Spe!TypeOK, OrdersMove, Spe!TypeOK',
           \A o \in Spe!Stored : order'[o].state = order[o].state \/ order'[o].state # "cancelled",
           NEW from, NEW to, NEW o \in Spe!Committed(from, to)
    PROVE  o \in Spe!Committed(from, to)' /\ o \in Spe!Stored'
<1>1. /\ o \in Spe!Stored /\ order'[o].created = order[o].created /\ order'[o].state # "none"
      /\ order[o].state \in {"approved", "sent", "partially_received", "fully_received", "closed"}
      /\ from <= order[o].created /\ order[o].created < to
  BY DEF Spe!Committed, OrdersMove
<1>2. order'[o].state \in {"approved", "sent", "partially_received", "fully_received", "closed"}
  BY <1>1 DEF OrdersMove, Spe!Transitions
<1>3. o \in Spe!Stored'
  BY <1>1 DEF Spe!Stored
<1>. QED  BY <1>1, <1>2, <1>3 DEF Spe!Committed

LEMMA SpendGrows ==
    ASSUME Spe!TypeOK, Spe!TypeOK', OrdersMove,
           \A o \in Spe!Stored : order'[o].state = order[o].state \/ order'[o].state # "cancelled",
           NEW from, NEW to, NEW currency
    PROVE  /\ Spe!SumSpend(from, to, currency) \in Nat /\ Spe!SumSpend(from, to, currency)' \in Nat
           /\ Spe!SumSpend(from, to, currency) <= Spe!SumSpend(from, to, currency)'
<1> DEFINE S == Spe!In(currency, Spe!Committed(from, to))
           T == Spe!In(currency, Spe!Committed(from, to))'
           f == [o \in S |-> Spe!Total(o)]
           g == [o \in T |-> Spe!Total(o)']
<1>1. S \in SUBSET Spe!Stored
  BY DEF Spe!In, Spe!Committed
<1>2. T \in SUBSET Spe!Stored'
  BY DEF Spe!In, Spe!Committed
<1>3. T \subseteq Calls /\ IsFiniteSet(T)
  <2>1. T \subseteq Calls
    BY <1>2 DEF Spe!Stored
  <2> HIDE DEF T
  <2>. QED  BY <2>1, Calendar, FS_Subset
<1>4. S \subseteq T
  <2> SUFFICES ASSUME NEW o \in S PROVE o \in T
    OBVIOUS
  <2>1. o \in Spe!Committed(from, to) /\ order[o].deal.currency = currency /\ o \in Spe!Stored
    BY <1>1 DEF Spe!In
  <2>2. o \in Spe!Committed(from, to)' /\ order'[o].deal = order[o].deal
    BY <2>1, CommittedStays DEF OrdersMove
  <2>. QED  BY <2>1, <2>2 DEF Spe!In
<1>5. Spe!SumSpend(from, to, currency) = Spe!Sum(f)
  BY DEF Spe!SumSpend, Spe!Value
<1>6. Spe!SumSpend(from, to, currency)' = Spe!Sum(g)
  BY DEF Spe!SumSpend, Spe!Value, Spe!Sum, Spe!Units
<1>7. \A o \in S : Spe!Total(o) \in Nat /\ Spe!Total(o)' = Spe!Total(o)
  BY <1>1, TotalNat, TotalsStay
<1>8. \A o \in T : Spe!Total(o)' \in Nat
  BY <1>2, TotalsAreThen
<1> HIDE DEF S, T
<1>9. /\ DOMAIN f = S /\ DOMAIN g = T
      /\ \A o \in T : g[o] \in Nat
      /\ \A o \in S : f[o] \in Nat /\ f[o] <= g[o]
  BY <1>4, <1>7, <1>8
<1>10. IsFiniteSet(S)
  BY <1>3, <1>4, FS_Subset
<1> HIDE DEF f, g
<1>11. Spe!Sum(f) <= Spe!Sum(g)
  BY <1>3, <1>4, <1>9, SumGrows
<1>12. Spe!Sum(f) \in Nat /\ Spe!Sum(g) \in Nat
  BY <1>3, <1>9, <1>10, SumNat
<1>. QED  BY <1>5, <1>6, <1>11, <1>12

LEMMA StatusIsThen == StatusKnown'
BY StatusIs, PTL

LEMMA BudgetFollows == ASSUME Spe!TypeOK, Spe!Next PROVE Spe!BudgetStep
<1>1. Spe!TypeOK' /\ OrdersMove
  BY StepMoves
<1> SUFFICES ASSUME NEW m \in Spe!Months, budget'[m] = budget[m],
                    \A o \in Spe!Stored : order'[o].state = order[o].state
                                        \/ order'[o].state # "cancelled"
             PROVE  Spe!Severity[Spe!BudgetStatus(m)'] >= Spe!Severity[Spe!BudgetStatus(m)]
  BY DEF Spe!BudgetStep
<1>2. budget[m] \in {Spe!NoBudget} \cup [limit: Limits, currency: Spe!Currencies]
  BY DEF Spe!TypeOK
<1>3. CASE budget[m] = Spe!NoBudget
  BY <1>3, StatusIs, StatusIsThen DEF StatusKnown, Spe!Severity
<1>4. CASE budget[m] # Spe!NoBudget
  <2> DEFINE limit == budget[m].limit
             currency == budget[m].currency
  <2>1. limit \in Nat
    BY <1>2, <1>4, Calendar
  <2>2. PICK c \in Nat, e \in Nat :
             /\ c = Spe!SumSpend(m * Month, (m + 1) * Month, currency)
             /\ Spe!BudgetStatus(m) = StatusOf(limit, c)
             /\ Spe!BudgetStatus(m)' = StatusOf(limit, e)
             /\ c <= e
    <3>1. PICK cur : cur = budget[m].currency
      OBVIOUS
    <3> DEFINE from == m * Month
               to == (m + 1) * Month
    <3>2. /\ Spe!SumSpend(from, to, cur) \in Nat /\ Spe!SumSpend(from, to, cur)' \in Nat
          /\ Spe!SumSpend(from, to, cur) <= Spe!SumSpend(from, to, cur)'
      BY <1>1, SpendGrows
    <3>3. Spe!BudgetStatus(m) = StatusOf(limit, Spe!SumSpend(from, to, cur))
      BY <1>4, <3>1, StatusIs DEF StatusKnown
    <3>4. Spe!BudgetStatus(m)' = StatusOf(limit, Spe!SumSpend(from, to, cur)')
      BY <1>4, <3>1, StatusIsThen DEF StatusKnown
    <3>. QED  BY <3>1, <3>2, <3>3, <3>4
  <2>. QED  BY <2>1, <2>2, StatusWorsens
<1>. QED  BY <1>3, <1>4

-----------------------------------------------------------------------------
(***************************************************************************)
(* The reports of stock. The ledger has every balance's opening and        *)
(* movements, and what production used of an item on a day; as movements   *)
(* are of one piece each, what they add up to is how many there are.       *)
(***************************************************************************)
(* The sizes these modules speak of are sizes.                             *)
LEMMA StoSizes ==
    /\ \A S : Sto!IsFiniteSet(S) = IsFiniteSet(S)
    /\ \A S : Sto!Cardinality(S) = Cardinality(S)
<1>1. \A S : Sto!IsFiniteSet(S) = IsFiniteSet(S)
  BY DEF Sto!IsFiniteSet, IsFiniteSet
<1>2. \A S : Sto!Cardinality(S) = Cardinality(S)
  BY DEF Sto!Cardinality, Cardinality
<1>. QED  BY <1>1, <1>2

(* The sums of this part are those of the spending.                        *)
LEMMA SameSums ==
    /\ \A f : Sto!Units(f) = Spe!Units(f)
    /\ \A f : Sto!Sum(f) = Spe!Sum(f)
<1>1. \A f : Sto!Units(f) = Spe!Units(f)
  BY DEF Sto!Units, Spe!Units
<1>. QED  BY <1>1, StoSizes, SpeSizes DEF Sto!Sum, Spe!Sum

LEMMA StockSumIs == \A f : Sto!Sum(f) = Cardinality(Sto!Units(f))
BY SameSums, SumIs

LEMMA StockUnitsAre ==
    ASSUME NEW f
    PROVE  \A p : p \in Sto!Units(f) <=> \E x \in DOMAIN f : \E u \in 1..f[x] : p = <<x, u>>
BY DEF Sto!Units

LEMMA StockSumNat ==
    ASSUME NEW f, IsFiniteSet(DOMAIN f), \A x \in DOMAIN f : f[x] \in Nat
    PROVE  IsFiniteSet(Sto!Units(f)) /\ Sto!Sum(f) \in Nat
BY SameSums, SumNat

LEMMA StockSizesOfParts ==
    ASSUME NEW S, IsFiniteSet(S), NEW I, IsFiniteSet(I), NEW pile,
           \A i \in I : pile[i] \subseteq S,
           \A x \in S : \E i \in I : x \in pile[i],
           \A i, j \in I : \A x : x \in pile[i] /\ x \in pile[j] => i = j
    PROVE  Sto!Sum([i \in I |-> Cardinality(pile[i])]) = Cardinality(S)
BY SameSums, SizesOfParts

LEMMA StockSumsOfParts ==
    ASSUME NEW f, IsFiniteSet(DOMAIN f), \A x \in DOMAIN f : f[x] \in Nat,
           NEW I, IsFiniteSet(I), NEW pile,
           \A i \in I : pile[i] \subseteq DOMAIN f,
           \A x \in DOMAIN f : \E i \in I : x \in pile[i],
           \A i, j \in I : \A x : x \in pile[i] /\ x \in pile[j] => i = j
    PROVE  Sto!Sum([i \in I |-> Sto!Sum([x \in pile[i] |-> f[x]])]) = Sto!Sum(f)
<1>1. Spe!Sum([i \in I |-> Spe!Sum([x \in pile[i] |-> f[x]])]) = Spe!Sum(f)
  BY SumsOfParts
<1>2. [i \in I |-> Sto!Sum([x \in pile[i] |-> f[x]])] = [i \in I |-> Spe!Sum([x \in pile[i] |-> f[x]])]
  BY SameSums
<1>. QED  BY <1>1, <1>2, SameSums

LEMMA StockSumGrows ==
    ASSUME NEW f, NEW g, IsFiniteSet(DOMAIN g), DOMAIN f \subseteq DOMAIN g,
           \A x \in DOMAIN g : g[x] \in Nat,
           \A x \in DOMAIN f : f[x] \in Nat /\ f[x] <= g[x]
    PROVE  Sto!Sum(f) <= Sto!Sum(g)
BY SameSums, SumGrows

LEMMA StockSumOfSame ==
    ASSUME NEW S, IsFiniteSet(S), NEW n \in Nat
    PROVE  Sto!Sum([x \in S |-> n]) = Cardinality(S) * n
BY SameSums, SumOfSame

-----------------------------------------------------------------------------
(* The ledger.                                                             *)

LEMMA StockCalendar ==
    /\ Items \subseteq Nat /\ IsFiniteSet(Items) /\ IsFiniteSet(Places)
    /\ Places \subseteq Items \X Warehouses
    /\ Day \in Nat \ {0} /\ Month \in Nat \ {0} /\ Window \in Nat \ {0} /\ MaxRows \in Nat \ {0}
    /\ Opening \in Nat /\ MaxTime \in Nat /\ MaxMovements \in Nat
    /\ \A i \in Items : Cost[i] \in Nat
BY RecordsAssumption, StoSizes DEF Sto!CalendarAssumption

(* What is selected of a ledger with one more movement.                    *)
LEMMA OneMore ==
    ASSUME NEW L, IsFiniteSet(L), NEW m, m \notin L, NEW S, S \subseteq L
    PROVE  /\ IsFiniteSet(S) /\ Cardinality(S) \in Nat
           /\ Cardinality(S \cup {m}) = Cardinality(S) + 1
<1>1. IsFiniteSet(S) /\ m \notin S
  BY FS_Subset
<1>2. Cardinality(S) \in Nat
  BY <1>1, FS_CardinalityType
<1>3. Cardinality(S \cup {m}) = Cardinality(S) + 1
  BY <1>1, FS_AddElement
<1>. QED  BY <1>1, <1>2, <1>3

(* A movement with the next number is new, and the numbers stay right.     *)
LEMMA NextNumber ==
    ASSUME NEW L \in SUBSET Recorded, IsFiniteSet(L), Numbered(L),
           NEW m \in Recorded, m.copy = Cardinality(AlikeIn(L, m))
    PROVE  m \notin L /\ Numbered(L \cup {m})
<1>1. m \notin L
  <2>1. SUFFICES ASSUME m \in L PROVE FALSE
    OBVIOUS
  <2>2. m.copy \in Nat /\ m.copy < Cardinality(AlikeIn(L, m))
    BY <2>1 DEF Numbered, Recorded
  <2>. QED  BY <2>2
<1>2. ASSUME NEW n \in L \cup {m}
      PROVE  n.copy < Cardinality(AlikeIn(L \cup {m}, n))
  <2>1. /\ AlikeIn(L, n) \subseteq L
        /\ Alike(m, n) => AlikeIn(L \cup {m}, n) = AlikeIn(L, n) \cup {m}
        /\ ~ Alike(m, n) => AlikeIn(L \cup {m}, n) = AlikeIn(L, n)
    BY DEF AlikeIn
  <2>2. Cardinality(AlikeIn(L, n)) \in Nat
    BY <1>1, <2>1, OneMore
  <2>3. /\ Alike(m, n) => Cardinality(AlikeIn(L \cup {m}, n)) = Cardinality(AlikeIn(L, n)) + 1
        /\ ~ Alike(m, n) => Cardinality(AlikeIn(L \cup {m}, n)) = Cardinality(AlikeIn(L, n))
    <3>1. Cardinality(AlikeIn(L, n) \cup {m}) = Cardinality(AlikeIn(L, n)) + 1
      BY <1>1, <2>1, OneMore
    <3>. QED  BY <2>1, <3>1
  <2>4. n.copy \in Nat
    BY DEF Recorded
  <2>5. CASE n \in L
    <3>1. n.copy < Cardinality(AlikeIn(L, n))
      BY <2>5 DEF Numbered
    <3>. QED  BY <2>2, <2>3, <2>4, <3>1
  <2>6. CASE n = m
    <3>1. Alike(m, n)
      BY <2>6 DEF Alike
    <3>. QED  BY <2>2, <2>3, <2>4, <2>6, <3>1
  <2>. QED  BY <2>5, <2>6
<1>. QED  BY <1>1, <1>2 DEF Numbered

(* One more movement among those of a place, and among the uses of an item. *)
LEMMA Counted ==
    ASSUME NEW L, IsFiniteSet(L), NEW m \in Recorded, m \notin L, NEW p
    PROVE  /\ Cardinality(TakenFrom(L, p)) \in Nat /\ Cardinality(BroughtTo(L, p)) \in Nat
           /\ At(m, p) /\ m.quantity = 1 =>
                /\ Cardinality(TakenFrom(L \cup {m}, p)) = Cardinality(TakenFrom(L, p))
                /\ Cardinality(BroughtTo(L \cup {m}, p)) = Cardinality(BroughtTo(L, p)) + 1
           /\ At(m, p) /\ m.quantity = -1 =>
                /\ Cardinality(TakenFrom(L \cup {m}, p)) = Cardinality(TakenFrom(L, p)) + 1
                /\ Cardinality(BroughtTo(L \cup {m}, p)) = Cardinality(BroughtTo(L, p))
           /\ ~ At(m, p) =>
                /\ Cardinality(TakenFrom(L \cup {m}, p)) = Cardinality(TakenFrom(L, p))
                /\ Cardinality(BroughtTo(L \cup {m}, p)) = Cardinality(BroughtTo(L, p))
<1>1. TakenFrom(L, p) \subseteq L /\ BroughtTo(L, p) \subseteq L
  BY DEF TakenFrom, BroughtTo
<1>2. /\ Cardinality(TakenFrom(L, p)) \in Nat
      /\ Cardinality(TakenFrom(L, p) \cup {m}) = Cardinality(TakenFrom(L, p)) + 1
  BY <1>1, OneMore
<1>3. /\ Cardinality(BroughtTo(L, p)) \in Nat
      /\ Cardinality(BroughtTo(L, p) \cup {m}) = Cardinality(BroughtTo(L, p)) + 1
  BY <1>1, OneMore
<1>4. /\ At(m, p) /\ m.quantity = 1 =>
           /\ TakenFrom(L \cup {m}, p) = TakenFrom(L, p)
           /\ BroughtTo(L \cup {m}, p) = BroughtTo(L, p) \cup {m}
      /\ At(m, p) /\ m.quantity = -1 =>
           /\ TakenFrom(L \cup {m}, p) = TakenFrom(L, p) \cup {m}
           /\ BroughtTo(L \cup {m}, p) = BroughtTo(L, p)
      /\ ~ At(m, p) =>
           /\ TakenFrom(L \cup {m}, p) = TakenFrom(L, p)
           /\ BroughtTo(L \cup {m}, p) = BroughtTo(L, p)
  BY DEF TakenFrom, BroughtTo
<1>. QED  BY <1>2, <1>3, <1>4

LEMMA CountedUse ==
    ASSUME NEW L, IsFiniteSet(L), NEW m, m \notin L, NEW i, NEW d
    PROVE  /\ Cardinality(UsedOn(L, i, d)) \in Nat
           /\ Cardinality(UsedOn(L \cup {m}, i, d))
                = Cardinality(UsedOn(L, i, d))
                    + IF m.item = i /\ m.at \div Day = d /\ IsUse(m) THEN 1 ELSE 0
<1>1. UsedOn(L, i, d) \subseteq L
  BY DEF UsedOn
<1>2. /\ Cardinality(UsedOn(L, i, d)) \in Nat
      /\ Cardinality(UsedOn(L, i, d) \cup {m}) = Cardinality(UsedOn(L, i, d)) + 1
  BY <1>1, OneMore
<1>3. CASE m.item = i /\ m.at \div Day = d /\ IsUse(m)
  <2>1. UsedOn(L \cup {m}, i, d) = UsedOn(L, i, d) \cup {m}
    BY <1>3 DEF UsedOn
  <2>. QED  BY <1>2, <1>3, <2>1
<1>4. CASE ~ (m.item = i /\ m.at \div Day = d /\ IsUse(m))
  <2>1. UsedOn(L \cup {m}, i, d) = UsedOn(L, i, d)
    BY <1>4 DEF UsedOn
  <2>. QED  BY <1>2, <1>4, <2>1
<1>. QED  BY <1>3, <1>4

(* Posting one movement: the balance of its place changes by its quantity, *)
(* and what production used by what it is.                                 *)
LEMMA Posting ==
    ASSUME NEW O, NEW L, NEW bal, NEW use, Ledger(O, L, bal, use),
           NEW m \in Recorded, m.copy = Cardinality(AlikeIn(L, m)), Signed(m),
           NEW bal2, NEW use2,
           \A p \in Places : bal[p] \in Int,
           \A p \in Places : bal2[p] = bal[p] + IF At(m, p) THEN m.quantity ELSE 0,
           \A i \in Items, d \in Sto!Days :
             use2[i][d] = use[i][d] + IF m.item = i /\ m.at \div Day = d /\ IsUse(m) THEN 1 ELSE 0
    PROVE  m \notin L /\ Ledger(O, L \cup {m}, bal2, use2)
<1>1. L \subseteq Recorded /\ IsFiniteSet(L) /\ Numbered(L)
  BY DEF Ledger
<1>2. m \notin L /\ Numbered(L \cup {m})
  BY <1>1, NextNumber
<1>3. IsFiniteSet(L \cup {m}) /\ L \cup {m} \subseteq Recorded
  BY <1>1, FS_AddElement
<1>4. \A n \in L \cup {m} : Signed(n)
  BY DEF Ledger
<1>5. ASSUME NEW p \in Places
      PROVE  bal2[p] + Cardinality(TakenFrom(L \cup {m}, p))
               = Given(O, p) + Cardinality(BroughtTo(L \cup {m}, p))
  <2>1. bal[p] + Cardinality(TakenFrom(L, p)) = Given(O, p) + Cardinality(BroughtTo(L, p))
    BY DEF Ledger
  <2>2. /\ Given(O, p) \in Nat /\ bal[p] \in Int
        /\ bal2[p] = bal[p] + IF At(m, p) THEN m.quantity ELSE 0
    BY StockCalendar DEF Given
  <2>3. /\ Cardinality(TakenFrom(L, p)) \in Nat /\ Cardinality(BroughtTo(L, p)) \in Nat
        /\ At(m, p) /\ m.quantity = 1 =>
             /\ Cardinality(TakenFrom(L \cup {m}, p)) = Cardinality(TakenFrom(L, p))
             /\ Cardinality(BroughtTo(L \cup {m}, p)) = Cardinality(BroughtTo(L, p)) + 1
        /\ At(m, p) /\ m.quantity = -1 =>
             /\ Cardinality(TakenFrom(L \cup {m}, p)) = Cardinality(TakenFrom(L, p)) + 1
             /\ Cardinality(BroughtTo(L \cup {m}, p)) = Cardinality(BroughtTo(L, p))
        /\ ~ At(m, p) =>
             /\ Cardinality(TakenFrom(L \cup {m}, p)) = Cardinality(TakenFrom(L, p))
             /\ Cardinality(BroughtTo(L \cup {m}, p)) = Cardinality(BroughtTo(L, p))
    BY <1>1, <1>2, Counted
  <2>4. m.quantity = 1 \/ m.quantity = -1
    BY DEF Recorded
  <2>. QED  BY <2>1, <2>2, <2>3, <2>4
<1>6. ASSUME NEW i \in Items, NEW d \in Sto!Days
      PROVE  use2[i][d] = Cardinality(UsedOn(L \cup {m}, i, d))
  <2>1. use[i][d] = Cardinality(UsedOn(L, i, d))
    BY DEF Ledger
  <2>2. use2[i][d] = use[i][d] + IF m.item = i /\ m.at \div Day = d /\ IsUse(m) THEN 1 ELSE 0
    OBVIOUS
  <2>3. /\ Cardinality(UsedOn(L, i, d)) \in Nat
        /\ Cardinality(UsedOn(L \cup {m}, i, d))
             = Cardinality(UsedOn(L, i, d))
                 + IF m.item = i /\ m.at \div Day = d /\ IsUse(m) THEN 1 ELSE 0
    BY <1>1, <1>2, CountedUse
  <2>. QED  BY <2>1, <2>2, <2>3
<1>. QED  BY <1>2, <1>3, <1>4, <1>5, <1>6 DEF Ledger

(* The movement an operation makes.                                        *)
LEMMA MovementIs ==
    ASSUME Sto!TypeOK, NEW t \in Sto!Types, NEW p \in Places, NEW q \in {-1, 1}, NEW r \in Sto!Reasons,
           IsFiniteSet(ledger), ledger \subseteq Recorded
    PROVE  LET m == Sto!Movement(t, p, q, r) IN
           /\ m \in Recorded /\ m.copy = Cardinality(AlikeIn(ledger, m))
           /\ m.type = t /\ m.item = p[1] /\ m.warehouse = p[2] /\ m.quantity = q
           /\ m.reason = r /\ m.at = stockNow
<1> DEFINE m == Sto!Movement(t, p, q, r)
           same == {n \in ledger : /\ <<n.type, n.item, n.warehouse>> = <<t, p[1], p[2]>>
                                   /\ <<n.quantity, n.reason, n.at>> = <<q, r, stockNow>>}
<1>1. m = [type |-> t, item |-> p[1], warehouse |-> p[2], quantity |-> q,
           reason |-> r, at |-> stockNow, copy |-> Cardinality(same)]
  BY StoSizes DEF Sto!Movement
<1>2. p \in Items \X Warehouses /\ stockNow \in Nat
  BY StockCalendar DEF Sto!TypeOK
<1>3. same \in SUBSET ledger
  OBVIOUS
<1>4. Cardinality(same) \in Nat
  <2> HIDE DEF same
  <2>. QED  BY <1>3, FS_Subset, FS_CardinalityType
<1>5. m \in Recorded
  <2> HIDE DEF same, m
  <2>. QED  BY <1>1, <1>2, <1>4 DEF Recorded
<1>6. /\ m.type = t /\ m.item = p[1] /\ m.warehouse = p[2] /\ m.quantity = q
      /\ m.reason = r /\ m.at = stockNow /\ m.copy = Cardinality(same)
  <2> HIDE DEF same, m
  <2>. QED  BY <1>1
<1>7. AlikeIn(ledger, m) = same
  <2> HIDE DEF m
  <2>. QED  BY <1>6 DEF AlikeIn, Alike
<1> HIDE DEF m, same
<1>8. m.copy = Cardinality(AlikeIn(ledger, m))
  BY <1>6, <1>7
<1>. QED  BY <1>5, <1>6, <1>8 DEF m

LEMMA NowIs ==
    ASSUME Sto!TypeOK
    PROVE  stockNow \in Nat /\ stockNow <= MaxTime /\ stockNow \div Day \in Sto!Days
<1>1. stockNow \in Nat /\ stockNow <= MaxTime /\ Day \in Nat \ {0} /\ MaxTime \in Nat
  BY StockCalendar DEF Sto!TypeOK
<1>2. stockNow \div Day \in Nat /\ MaxTime \div Day \in Nat /\ stockNow \div Day <= MaxTime \div Day
  BY <1>1, QuotientIs, QuotientsGrow
<1>. QED  BY <1>1, <1>2 DEF Sto!Days

LEMMA StockInit == Sto!Init => LedgerInv
<1> SUFFICES ASSUME Sto!Init PROVE LedgerInv
  OBVIOUS
<1>1. PICK cut \in SUBSET Torn : opening = Places \ cut
  BY DEF Sto!Init
<1>2. /\ ledger = {} /\ stockNow = 0 /\ usage = [i \in Items |-> [d \in Sto!Days |-> 0]]
      /\ balance = [p \in Places |-> IF p \in opening THEN Opening ELSE 0]
  BY DEF Sto!Init
<1>3. IsFiniteSet(ledger) /\ Cardinality(ledger) = 0
  BY <1>2, FS_EmptySet
<1>4. Sto!TypeOK
  <2>1. stored = opening
    BY DEF Sto!Init
  <2>. QED  BY <1>1, <1>2, <1>3, <2>1, StockCalendar, StoSizes DEF Sto!TypeOK
<1>5. /\ \A p : TakenFrom(ledger, p) = {} /\ BroughtTo(ledger, p) = {}
      /\ \A i, d : UsedOn(ledger, i, d) = {}
  BY <1>2 DEF TakenFrom, BroughtTo, UsedOn
<1>6. Cardinality({}) = 0
  BY FS_EmptySet
<1>7. \A p \in Places :
        balance[p] + Cardinality(TakenFrom(ledger, p)) = Given(opening, p) + Cardinality(BroughtTo(ledger, p))
  <2> SUFFICES ASSUME NEW p \in Places PROVE balance[p] + 0 = Given(opening, p) + 0
    BY <1>5, <1>6
  <2>. QED  BY <1>2, StockCalendar DEF Given
<1>8. \A i \in Items, d \in Sto!Days : usage[i][d] = Cardinality(UsedOn(ledger, i, d))
  BY <1>2, <1>5, <1>6
<1>9. ledger \subseteq Recorded /\ Numbered(ledger) /\ \A n \in ledger : Signed(n)
  BY <1>2 DEF Numbered
<1>10. RowsOf(stored, opening, ledger)
  BY <1>2 DEF RowsOf, Sto!Init
<1>. QED  BY <1>3, <1>4, <1>7, <1>8, <1>9, <1>10 DEF LedgerInv, Ledger

LEMMA LedgerIs ==
    ASSUME LedgerInv
    PROVE  /\ Sto!TypeOK /\ Ledger(opening, ledger, balance, usage)
           /\ ledger \subseteq Recorded /\ IsFiniteSet(ledger) /\ Cardinality(ledger) \in Nat
           /\ \A n \in ledger : <<n.item, n.warehouse>> \in Places /\ n.at <= stockNow
           /\ balance \in [Places -> Nat] /\ usage \in [Items -> [Sto!Days -> Nat]]
           /\ \A n \in ledger : Signed(n)
           /\ stored \subseteq Places /\ RowsOf(stored, opening, ledger)
<1>1. IsFiniteSet(ledger)
  BY DEF LedgerInv, Ledger
<1>2. Cardinality(ledger) \in Nat
  BY <1>1, FS_CardinalityType
<1>3. \A n \in ledger : n.at \in 0..stockNow
  BY DEF LedgerInv, Sto!TypeOK
<1>4. \A n \in ledger : n.at <= stockNow
  BY <1>3
<1>. QED  BY <1>1, <1>2, <1>4 DEF LedgerInv, Ledger, Sto!TypeOK

(* Posting a movement to a place keeps the types.                          *)
LEMMA TypedMore ==
    ASSUME NEW L, L \subseteq [type: Sto!Types, item: Items, warehouse: Warehouses, quantity: {-1, 1},
                               reason: Sto!Reasons, at: 0..stockNow, copy: Nat],
           NEW m \in Recorded, m.at = stockNow, stockNow \in Nat
    PROVE  L \cup {m} \subseteq [type: Sto!Types, item: Items, warehouse: Warehouses, quantity: {-1, 1},
                                 reason: Sto!Reasons, at: 0..stockNow, copy: Nat]
<1>1. m \in [type: Sto!Types, item: Items, warehouse: Warehouses, quantity: {-1, 1},
             reason: Sto!Reasons, at: 0..stockNow, copy: Nat]
  BY DEF Recorded
<1>. QED  BY <1>1

LEMMA RoomIs ==
    ASSUME LedgerInv, NEW n \in Nat, Sto!Room(n)
    PROVE  Cardinality(ledger) + n <= MaxMovements
<1>1. IsFiniteSet(Places \ opening)
  BY StockCalendar, FS_Subset
<1>2. Cardinality(Places \ opening) \in Nat
  BY <1>1, FS_CardinalityType
<1>3. Cardinality(ledger) \in Nat /\ MaxMovements \in Nat
  BY LedgerIs, StockCalendar
<1>4. Cardinality(ledger) + Cardinality(Places \ opening) + n <= MaxMovements
  BY StoSizes DEF Sto!Room
<1>. QED  BY <1>2, <1>3, <1>4

LEMMA PlaceIs ==
    ASSUME NEW p \in Places
    PROVE  /\ p[1] \in Items /\ p[2] \in Warehouses
           /\ \A q \in Places : q[1] = p[1] /\ q[2] = p[2] => q = p
<1>1. Places \subseteq Items \X Warehouses
  BY StockCalendar
<1>. QED  BY <1>1

(* A movement at a place makes its row, if there is none.                  *)
LEMMA OneRowMore ==
    ASSUME NEW S, NEW O, NEW L, RowsOf(S, O, L), NEW p \in Places, NEW m,
           \A q \in Places : At(m, q) <=> q = p
    PROVE  RowsOf(S \cup {p}, O, L \cup {m})
BY DEF RowsOf

LEMMA ReceiveKeeps ==
    ASSUME LedgerInv, NEW p \in Places, Sto!Receive(p)
    PROVE  LedgerInv'
<1> DEFINE m == Sto!Movement("in", p, 1, "po_receipt")
<1>1. /\ ledger' = ledger \cup {m} /\ balance' = [balance EXCEPT ![p] = @ + 1]
      /\ opening' = opening /\ stockNow' = stockNow /\ usage' = usage /\ Sto!Room(1)
      /\ stored' = stored \cup {p}
  BY DEF Sto!Receive, Sto!Upsert
<1>2. /\ m \in Recorded /\ m.copy = Cardinality(AlikeIn(ledger, m))
      /\ m.type = "in" /\ m.item = p[1] /\ m.warehouse = p[2] /\ m.quantity = 1
      /\ m.reason = "po_receipt" /\ m.at = stockNow
  <2>1. "in" \in Sto!Types /\ "po_receipt" \in Sto!Reasons /\ 1 \in {-1, 1}
    BY DEF Sto!Types, Sto!Reasons
  <2>. QED  BY <2>1, LedgerIs, MovementIs
<1> HIDE DEF m
<1>3. Signed(m) /\ ~ IsUse(m) /\ \A q \in Places : At(m, q) <=> q = p
  BY <1>2, PlaceIs DEF Signed, IsUse, At
<1>4. \A q \in Places : balance[q] \in Nat
  BY LedgerIs
<1>5. m \notin ledger /\ Ledger(opening, ledger \cup {m}, balance', usage')
  <2>1. \A q \in Places : balance'[q] = balance[q] + IF At(m, q) THEN m.quantity ELSE 0
    BY <1>1, <1>2, <1>3, <1>4, LedgerIs
  <2>2. \A i \in Items, d \in Sto!Days :
          usage'[i][d] = usage[i][d] + IF m.item = i /\ m.at \div Day = d /\ IsUse(m) THEN 1 ELSE 0
    BY <1>1, <1>3, LedgerIs
  <2>3. \A q \in Places : balance[q] \in Int
    BY <1>4
  <2>. QED  BY <1>2, <1>3, <2>1, <2>2, <2>3, LedgerIs, Posting
<1>6. Cardinality(ledger \cup {m}) <= MaxMovements
  <2>1. Cardinality(ledger \cup {m}) = Cardinality(ledger) + 1
    BY <1>5, LedgerIs, OneMore
  <2>. QED  BY <1>1, <2>1, RoomIs
<1>7. Sto!TypeOK'
  <2>1. ledger' \subseteq [type: Sto!Types, item: Items, warehouse: Warehouses, quantity: {-1, 1},
                           reason: Sto!Reasons, at: 0..stockNow, copy: Nat]
    BY <1>1, <1>2, LedgerIs, NowIs, TypedMore DEF Sto!TypeOK
  <2>2. \A n \in ledger' : <<n.item, n.warehouse>> \in Places
    <3>1. <<m.item, m.warehouse>> = p
      BY <1>2, StockCalendar
    <3>. QED  BY <1>1, <3>1, LedgerIs
  <2>3. balance' \in [Places -> Nat]
    BY <1>1, <1>4, LedgerIs
  <2>. QED  BY <1>1, <1>6, <2>1, <2>2, <2>3, LedgerIs, StoSizes DEF Sto!TypeOK
<1>8. RowsOf(stored', opening', ledger')
  BY <1>1, <1>3, LedgerIs, OneRowMore
<1>. QED  BY <1>1, <1>5, <1>7, <1>8 DEF LedgerInv

LEMMA AdjustmentKeeps ==
    ASSUME LedgerInv, NEW p \in Places, NEW a \in Sto!Adjustments(p), Sto!AdjustStock(p, a[1], a[2])
    PROVE  LedgerInv'
<1> DEFINE m == Sto!Movement("adjustment", p, a[1], a[2])
<1>1. /\ ledger' = ledger \cup {m} /\ balance' = [balance EXCEPT ![p] = @ + a[1]]
      /\ opening' = opening /\ stockNow' = stockNow /\ Sto!Room(1) /\ balance[p] + a[1] >= 0
      /\ usage' = IF a[1] < 0 /\ a[2] = "production_consume"
                  THEN [usage EXCEPT ![p[1]][stockNow \div Day] = @ - a[1]] ELSE usage
      /\ stored' = stored \cup {p}
  BY DEF Sto!AdjustStock, Sto!Upsert
<1>2. a[1] \in {-1, 1} /\ a[2] \in Sto!Reasons
  BY DEF Sto!Adjustments, Sto!Reasons
<1>3. /\ m \in Recorded /\ m.copy = Cardinality(AlikeIn(ledger, m))
      /\ m.type = "adjustment" /\ m.item = p[1] /\ m.warehouse = p[2] /\ m.quantity = a[1]
      /\ m.reason = a[2] /\ m.at = stockNow
  <2>1. "adjustment" \in Sto!Types
    BY DEF Sto!Types
  <2>. QED  BY <1>2, <2>1, LedgerIs, MovementIs
<1> HIDE DEF m
<1>4. /\ Signed(m) /\ \A q \in Places : At(m, q) <=> q = p
      /\ IsUse(m) <=> a[1] < 0 /\ a[2] = "production_consume"
  BY <1>3, PlaceIs DEF Signed, IsUse, At
<1>5. \A q \in Places : balance[q] \in Nat
  BY LedgerIs
<1>6. p[1] \in Items /\ stockNow \div Day \in Sto!Days
  BY LedgerIs, NowIs, PlaceIs
<1>7. \A i \in Items, d \in Sto!Days :
        usage'[i][d] = usage[i][d] + IF m.item = i /\ m.at \div Day = d /\ IsUse(m) THEN 1 ELSE 0
  <2> SUFFICES ASSUME NEW i \in Items, NEW d \in Sto!Days
               PROVE  usage'[i][d] = usage[i][d] + IF m.item = i /\ m.at \div Day = d /\ IsUse(m) THEN 1 ELSE 0
    OBVIOUS
  <2>1. usage[i][d] \in Nat /\ usage \in [Items -> [Sto!Days -> Nat]]
    BY LedgerIs
  <2>2. CASE IsUse(m)
    <3>1. usage' = [usage EXCEPT ![p[1]][stockNow \div Day] = @ - a[1]] /\ a[1] = -1
      BY <1>1, <1>2, <1>4, <2>2
    <3>2. CASE i = p[1] /\ d = stockNow \div Day
      <4>1. usage'[i][d] = usage[i][d] + 1
        BY <1>6, <2>1, <3>1, <3>2
      <4>. QED  BY <1>3, <2>2, <3>2, <4>1
    <3>3. CASE ~ (i = p[1] /\ d = stockNow \div Day)
      <4>1. usage'[i][d] = usage[i][d]
        BY <1>6, <2>1, <3>1, <3>3
      <4>. QED  BY <1>3, <2>1, <2>2, <3>3, <4>1
    <3>. QED  BY <3>2, <3>3
  <2>3. CASE ~ IsUse(m)
    BY <1>1, <1>4, <2>1, <2>3
  <2>. QED  BY <2>2, <2>3
<1>8. m \notin ledger /\ Ledger(opening, ledger \cup {m}, balance', usage')
  <2>1. \A q \in Places : balance'[q] = balance[q] + IF At(m, q) THEN m.quantity ELSE 0
    BY <1>1, <1>3, <1>4, <1>5, LedgerIs
  <2>2. \A q \in Places : balance[q] \in Int
    BY <1>5
  <2>. QED  BY <1>3, <1>4, <1>7, <2>1, <2>2, LedgerIs, Posting
<1>9. Cardinality(ledger \cup {m}) <= MaxMovements
  <2>1. Cardinality(ledger \cup {m}) = Cardinality(ledger) + 1
    BY <1>8, LedgerIs, OneMore
  <2>. QED  BY <1>1, <2>1, RoomIs
<1>10. Sto!TypeOK'
  <2>1. ledger' \subseteq [type: Sto!Types, item: Items, warehouse: Warehouses, quantity: {-1, 1},
                           reason: Sto!Reasons, at: 0..stockNow, copy: Nat]
    BY <1>1, <1>3, LedgerIs, NowIs, TypedMore DEF Sto!TypeOK
  <2>2. \A n \in ledger' : <<n.item, n.warehouse>> \in Places
    <3>1. <<m.item, m.warehouse>> = p
      BY <1>3, StockCalendar
    <3>. QED  BY <1>1, <3>1, LedgerIs
  <2>3. balance' \in [Places -> Nat]
    BY <1>1, <1>2, <1>5, LedgerIs
  <2>4. usage' \in [Items -> [Sto!Days -> Nat]]
    <3>1. CASE a[1] < 0 /\ a[2] = "production_consume"
      <4>1. a[1] = -1 /\ usage' = [usage EXCEPT ![p[1]][stockNow \div Day] = @ - a[1]]
        BY <1>1, <1>2, <3>1
      <4>2. usage[p[1]][stockNow \div Day] - a[1] \in Nat
        BY <1>6, <4>1, LedgerIs
      <4>. QED  BY <1>6, <4>1, <4>2, LedgerIs
    <3>2. CASE ~ (a[1] < 0 /\ a[2] = "production_consume")
      BY <1>1, <3>2, LedgerIs
    <3>. QED  BY <3>1, <3>2
  <2>. QED  BY <1>1, <1>9, <2>1, <2>2, <2>3, <2>4, LedgerIs, StoSizes DEF Sto!TypeOK
<1>11. RowsOf(stored', opening', ledger')
  BY <1>1, <1>4, LedgerIs, OneRowMore
<1>. QED  BY <1>1, <1>8, <1>10, <1>11 DEF LedgerInv

(* Stock is where there is a row.                                          *)
LEMMA RowOfStock ==
    ASSUME LedgerInv, NEW p \in Places, balance[p] > 0
    PROVE  p \in stored
<1> SUFFICES ASSUME p \notin stored PROVE FALSE
  OBVIOUS
<1>1. p \notin opening /\ ~ \E n \in ledger : At(n, p)
  BY LedgerIs DEF RowsOf
<1>2. BroughtTo(ledger, p) = {} /\ TakenFrom(ledger, p) = {}
  BY <1>1 DEF BroughtTo, TakenFrom
<1>3. balance[p] + Cardinality(TakenFrom(ledger, p)) = Given(opening, p) + Cardinality(BroughtTo(ledger, p))
  BY LedgerIs DEF Ledger
<1>4. Cardinality({}) = 0 /\ Given(opening, p) = 0 /\ balance[p] \in Nat
  BY <1>1, LedgerIs, FS_EmptySet DEF Given
<1>. QED  BY <1>2, <1>3, <1>4

LEMMA TransferKeeps ==
    ASSUME LedgerInv, NEW i \in Items, NEW from \in Warehouses, NEW to \in Warehouses,
           Sto!TransferStock(i, from, to)
    PROVE  LedgerInv'
<1> DEFINE p == <<i, from>>
           q == <<i, to>>
           m == Sto!Movement("transfer_out", p, -1, "transfer")
           n == Sto!Movement("transfer_in", q, 1, "transfer")
           between == [balance EXCEPT ![p] = @ - 1]
<1>1. /\ p \in Places /\ q \in Places /\ p # q
      /\ ledger' = ledger \cup {m, n} /\ balance' = [balance EXCEPT ![p] = @ - 1, ![q] = @ + 1]
      /\ opening' = opening /\ stockNow' = stockNow /\ usage' = usage /\ Sto!Room(2) /\ balance[p] > 0
      /\ stored' = stored \cup {q}
  BY DEF Sto!TransferStock, Sto!Upsert
<1>2. /\ m \in Recorded /\ m.copy = Cardinality(AlikeIn(ledger, m))
      /\ m.type = "transfer_out" /\ m.item = p[1] /\ m.warehouse = p[2] /\ m.quantity = -1
      /\ m.reason = "transfer" /\ m.at = stockNow
  <2>1. "transfer_out" \in Sto!Types /\ "transfer" \in Sto!Reasons /\ -1 \in {-1, 1}
    BY DEF Sto!Types, Sto!Reasons
  <2> HIDE DEF p
  <2>. QED  BY <1>1, <2>1, LedgerIs, MovementIs
<1>3. /\ n \in Recorded /\ n.copy = Cardinality(AlikeIn(ledger, n))
      /\ n.type = "transfer_in" /\ n.item = q[1] /\ n.warehouse = q[2] /\ n.quantity = 1
      /\ n.reason = "transfer" /\ n.at = stockNow
  <2>1. "transfer_in" \in Sto!Types /\ "transfer" \in Sto!Reasons /\ 1 \in {-1, 1}
    BY DEF Sto!Types, Sto!Reasons
  <2> HIDE DEF q
  <2>. QED  BY <1>1, <2>1, LedgerIs, MovementIs
<1> HIDE DEF m, n, p, q
<1>4. /\ Signed(m) /\ ~ IsUse(m) /\ \A r \in Places : At(m, r) <=> r = p
      /\ Signed(n) /\ ~ IsUse(n) /\ \A r \in Places : At(n, r) <=> r = q
  BY <1>1, <1>2, <1>3, PlaceIs DEF Signed, IsUse, At
<1>5. balance \in [Places -> Nat]
  BY LedgerIs
<1>6. \A r \in Places : between[r] \in Int /\ between[r] = balance[r] + IF r = p THEN -1 ELSE 0
  BY <1>1, <1>5
<1>7. \A r \in Places : balance'[r] \in Nat /\ balance'[r] = between[r] + IF r = q THEN 1 ELSE 0
  BY <1>1, <1>5
<1> HIDE DEF between
<1>8. m \notin ledger /\ Ledger(opening, ledger \cup {m}, between, usage)
  <2>1. \A r \in Places : between[r] = balance[r] + IF At(m, r) THEN m.quantity ELSE 0
    BY <1>2, <1>4, <1>6
  <2>2. \A j \in Items, d \in Sto!Days :
          usage[j][d] = usage[j][d] + IF m.item = j /\ m.at \div Day = d /\ IsUse(m) THEN 1 ELSE 0
    BY <1>4, LedgerIs
  <2>3. \A r \in Places : balance[r] \in Int
    BY <1>5
  <2>. QED  BY <1>2, <1>4, <2>1, <2>2, <2>3, LedgerIs, Posting
<1>9. n \notin ledger \cup {m} /\ Ledger(opening, ledger \cup {m} \cup {n}, balance', usage')
  <2>1. \A r \in Places : balance'[r] = between[r] + IF At(n, r) THEN n.quantity ELSE 0
    BY <1>3, <1>4, <1>7
  <2>2. \A j \in Items, d \in Sto!Days :
          usage'[j][d] = usage[j][d] + IF n.item = j /\ n.at \div Day = d /\ IsUse(n) THEN 1 ELSE 0
    BY <1>1, <1>4, LedgerIs
  <2>3. \A r \in Places : between[r] \in Int
    BY <1>6
  <2>4. AlikeIn(ledger \cup {m}, n) = AlikeIn(ledger, n)
    BY <1>2, <1>3 DEF AlikeIn, Alike
  <2>5. n.copy = Cardinality(AlikeIn(ledger \cup {m}, n))
    BY <1>3, <2>4
  <2>. QED  BY <1>3, <1>4, <1>8, <2>1, <2>2, <2>3, <2>5, Posting
<1>10. ledger' = ledger \cup {m} \cup {n}
  BY <1>1
<1>11. Cardinality(ledger') <= MaxMovements
  <2>1. Cardinality(ledger \cup {m}) = Cardinality(ledger) + 1 /\ IsFiniteSet(ledger \cup {m})
    BY <1>8, LedgerIs, OneMore, FS_AddElement
  <2>2. Cardinality(ledger \cup {m} \cup {n}) = Cardinality(ledger \cup {m}) + 1
    BY <1>9, <2>1, OneMore
  <2>3. Cardinality(ledger) + 2 <= MaxMovements
    BY <1>1, RoomIs
  <2>. QED  BY <1>10, <2>1, <2>2, <2>3, LedgerIs, StockCalendar
<1>12. Sto!TypeOK'
  <2>1. ledger \cup {m} \subseteq [type: Sto!Types, item: Items, warehouse: Warehouses, quantity: {-1, 1},
                                   reason: Sto!Reasons, at: 0..stockNow, copy: Nat]
    BY <1>2, LedgerIs, NowIs, TypedMore DEF Sto!TypeOK
  <2>2. ledger' \subseteq [type: Sto!Types, item: Items, warehouse: Warehouses, quantity: {-1, 1},
                           reason: Sto!Reasons, at: 0..stockNow, copy: Nat]
    BY <1>3, <1>10, <2>1, LedgerIs, NowIs, TypedMore
  <2>3. \A r \in ledger' : <<r.item, r.warehouse>> \in Places
    <3>1. <<m.item, m.warehouse>> = p /\ <<n.item, n.warehouse>> = q
      BY <1>2, <1>3 DEF p, q
    <3>. QED  BY <1>1, <3>1, LedgerIs
  <2>4. balance' \in [Places -> Nat]
    BY <1>1, <1>5, <1>7
  <2>. QED  BY <1>1, <1>11, <2>2, <2>3, <2>4, LedgerIs, StoSizes DEF Sto!TypeOK
<1>13. RowsOf(stored', opening', ledger')
  <2>1. p \in stored
    BY <1>1, RowOfStock
  <2>2. RowsOf(stored \cup {p}, opening, ledger \cup {m})
    BY <1>1, <1>4, LedgerIs, OneRowMore
  <2>3. stored \cup {p} \cup {q} = stored'
    BY <1>1, <2>1
  <2>4. RowsOf(stored \cup {p} \cup {q}, opening, ledger \cup {m} \cup {n})
    BY <1>1, <1>4, <2>2, OneRowMore
  <2>. QED  BY <1>1, <1>10, <2>3, <2>4
<1>. QED  BY <1>1, <1>9, <1>10, <1>12, <1>13 DEF LedgerInv

LEMMA StockNext == LedgerInv /\ [Sto!Next]_(Sto!vars) => LedgerInv'
<1> SUFFICES ASSUME LedgerInv, [Sto!Next]_(Sto!vars) PROVE LedgerInv'
  OBVIOUS
<1>1. CASE \E p \in Places : Sto!Receive(p)
  BY <1>1, ReceiveKeeps
<1>2. CASE \E p \in Places : \E a \in Sto!Adjustments(p) : Sto!AdjustStock(p, a[1], a[2])
  BY <1>2, AdjustmentKeeps
<1>3. CASE \E i \in Items, from, to \in Warehouses : Sto!TransferStock(i, from, to)
  BY <1>3, TransferKeeps
<1>4. CASE Sto!Tick
  <2>1. /\ ledger' = ledger /\ opening' = opening /\ balance' = balance /\ usage' = usage
        /\ stored' = stored
        /\ stockNow' = stockNow + 1 /\ stockNow < MaxTime
    BY <1>4 DEF Sto!Tick
  <2>2. stockNow' \in 0..MaxTime /\ 0..stockNow \subseteq 0..stockNow'
    BY <2>1, LedgerIs, NowIs, StockCalendar
  <2>3. ledger' \subseteq [type: Sto!Types, item: Items, warehouse: Warehouses, quantity: {-1, 1},
                           reason: Sto!Reasons, at: 0..stockNow', copy: Nat]
    BY <2>1, <2>2, LedgerIs DEF Sto!TypeOK
  <2>4. Sto!TypeOK'
    BY <2>1, <2>2, <2>3, LedgerIs DEF Sto!TypeOK
  <2>. QED  BY <2>1, <2>4 DEF LedgerInv
<1>5. CASE UNCHANGED Sto!vars
  BY <1>5 DEF Sto!vars, LedgerInv, Sto!TypeOK
<1>. QED  BY <1>1, <1>2, <1>3, <1>4, <1>5 DEF Sto!Next

-----------------------------------------------------------------------------
(* What movements add up to.                                               *)

(* Two sets that share nothing.                                            *)
LEMMA Apart ==
    ASSUME NEW S, NEW T, IsFiniteSet(S), IsFiniteSet(T), \A x \in S : x \notin T
    PROVE  IsFiniteSet(S \cup T) /\ Cardinality(S \cup T) = Cardinality(S) + Cardinality(T)
<1>1. S \cap T = {}
  OBVIOUS
<1>2. Cardinality(S \cap T) = 0 /\ Cardinality(S) \in Nat /\ Cardinality(T) \in Nat
  BY <1>1, FS_EmptySet, FS_CardinalityType
<1>3. /\ IsFiniteSet(S \cup T)
      /\ Cardinality(S \cup T) = Cardinality(S) + Cardinality(T) - Cardinality(S \cap T)
  BY FS_Union
<1>. QED  BY <1>2, <1>3

(* The sum of two functions.                                               *)
LEMMA SumOfBoth ==
    ASSUME NEW S, IsFiniteSet(S), NEW f, NEW g, DOMAIN f = S, DOMAIN g = S,
           \A x \in S : f[x] \in Nat /\ g[x] \in Nat
    PROVE  Sto!Sum([x \in S |-> f[x] + g[x]]) = Sto!Sum(f) + Sto!Sum(g)
<1> DEFINE h == [x \in S |-> f[x] + g[x]]
           B == {p \in Sto!Units(h) : p \notin Sto!Units(f)}
           k == [p \in Sto!Units(g) |-> <<p[1], f[p[1]] + p[2]>>]
<1>1. DOMAIN h = S /\ \A x \in S : h[x] = f[x] + g[x] /\ h[x] \in Nat
  OBVIOUS
<1>2. /\ IsFiniteSet(Sto!Units(f)) /\ IsFiniteSet(Sto!Units(g)) /\ IsFiniteSet(Sto!Units(h))
  <2> HIDE DEF h
  <2>. QED  BY <1>1, StockSumNat
<1>3. /\ \A p : p \in Sto!Units(f) <=> \E x \in S : \E u \in 1..f[x] : p = <<x, u>>
      /\ \A p : p \in Sto!Units(g) <=> \E x \in S : \E u \in 1..g[x] : p = <<x, u>>
      /\ \A p : p \in Sto!Units(h) <=> \E x \in S : \E u \in 1..h[x] : p = <<x, u>>
  <2> HIDE DEF h
  <2>. QED  BY <1>1, StockUnitsAre
<1> HIDE DEF h
<1>4. Sto!Units(f) \subseteq Sto!Units(h)
  <2>1. \A x \in S : \A u \in 1..f[x] : u \in 1..h[x]
    BY <1>1
  <2>. QED  BY <1>3, <2>1
<1>5. \A p : p \in B <=> \E x \in S : \E u \in 1..g[x] : p = <<x, f[x] + u>>
  <2>1. ASSUME NEW p \in B
        PROVE  \E x \in S : \E u \in 1..g[x] : p = <<x, f[x] + u>>
    <3>1. PICK x \in S : \E v \in 1..h[x] : p = <<x, v>>
      BY <1>3
    <3>2. PICK v \in 1..h[x] : p = <<x, v>>
      BY <3>1
    <3>3. v \notin 1..f[x]
      BY <1>3, <3>2
    <3>4. v - f[x] \in 1..g[x] /\ v = f[x] + (v - f[x])
      BY <1>1, <3>3
    <3>. QED  BY <3>2, <3>4
  <2>2. ASSUME NEW x \in S, NEW u \in 1..g[x]
        PROVE  <<x, f[x] + u>> \in B
    <3>1. f[x] + u \in 1..h[x] /\ f[x] + u \notin 1..f[x]
      BY <1>1
    <3>2. <<x, f[x] + u>> \in Sto!Units(h)
      BY <1>3, <3>1
    <3>3. <<x, f[x] + u>> \notin Sto!Units(f)
      BY <1>3, <3>1
    <3>. QED  BY <3>2, <3>3
  <2>. QED  BY <2>1, <2>2
<1>6. k \in Bijection(Sto!Units(g), B)
  <2> HIDE DEF B
  <2>1. ASSUME NEW p \in Sto!Units(g)
        PROVE  \E x \in S : \E u \in 1..g[x] : p = <<x, u>> /\ k[p] = <<x, f[x] + u>>
    BY <1>3
  <2>2. k \in [Sto!Units(g) -> B]
    <3>1. \A p \in Sto!Units(g) : k[p] \in B
      BY <1>5, <2>1
    <3>2. k = [p \in Sto!Units(g) |-> k[p]]
      OBVIOUS
    <3> HIDE DEF k
    <3>. QED  BY <3>1, <3>2
  <2>3. \A b \in B : \E p \in Sto!Units(g) : k[p] = b
    <3> SUFFICES ASSUME NEW b \in B PROVE \E p \in Sto!Units(g) : k[p] = b
      OBVIOUS
    <3>0. PICK x \in S : \E u \in 1..g[x] : b = <<x, f[x] + u>>
      BY <1>5
    <3>1. PICK u \in 1..g[x] : b = <<x, f[x] + u>>
      BY <3>0
    <3>2. <<x, u>> \in Sto!Units(g)
      BY <1>3
    <3>. QED  BY <3>1, <3>2
  <2> HIDE DEF k
  <2>4. ASSUME NEW p \in Sto!Units(g), NEW q \in Sto!Units(g), k[p] = k[q]
        PROVE  p = q
    <3>5. PICK x \in S : \E u \in 1..g[x] : p = <<x, u>> /\ k[p] = <<x, f[x] + u>>
      BY <2>1
    <3>6. PICK y \in S : \E v \in 1..g[y] : q = <<y, v>> /\ k[q] = <<y, f[y] + v>>
      BY <2>1
    <3>1. PICK u \in 1..g[x] : p = <<x, u>> /\ k[p] = <<x, f[x] + u>>
      BY <3>5
    <3>2. PICK v \in 1..g[y] : q = <<y, v>> /\ k[q] = <<y, f[y] + v>>
      BY <3>6
    <3>3. x = y /\ f[x] + u = f[y] + v
      BY <2>4, <3>1, <3>2
    <3>4. u = v
      BY <3>3
    <3>. QED  BY <3>1, <3>2, <3>3, <3>4
  <2>. QED  BY <2>2, <2>3, <2>4 DEF Bijection, Injection, Surjection, IsInjective
<1>7. IsFiniteSet(B) /\ Cardinality(B) = Cardinality(Sto!Units(g))
  <2>1. IsFiniteSet(B)
    BY <1>2, FS_Subset
  <2> HIDE DEF B, k
  <2>. QED  BY <1>2, <1>6, <2>1, FS_Bijection DEF ExistsBijection
<1>8. Sto!Units(h) = Sto!Units(f) \cup B /\ \A p \in Sto!Units(f) : p \notin B
  BY <1>4
<1> HIDE DEF B
<1>9. Cardinality(Sto!Units(h)) = Cardinality(Sto!Units(f)) + Cardinality(B)
  BY <1>2, <1>7, <1>8, Apart
<1>. QED  BY <1>7, <1>9, StockSumIs DEF h

(* Movements are of one piece each: how many there are is what they moved. *)
LEMMA MovedIs ==
    ASSUME LedgerInv, NEW T \in SUBSET ledger
    PROVE  IsFiniteSet(T) /\ Cardinality(T) \in Nat /\ Sto!Moved(T) = Cardinality(T)
<1>1. IsFiniteSet(T) /\ Cardinality(T) \in Nat
  BY LedgerIs, FS_Subset, FS_CardinalityType
<1>2. \A n \in T : Sto!Abs(n.quantity) = 1
  <2> SUFFICES ASSUME NEW n \in T PROVE Sto!Abs(n.quantity) = 1
    OBVIOUS
  <2>1. n.quantity \in {-1, 1}
    BY LedgerIs DEF Recorded
  <2>. QED  BY <2>1 DEF Sto!Abs
<1>3. [n \in T |-> Sto!Abs(n.quantity)] = [n \in T |-> 1]
  BY <1>2
<1>4. Sto!Moved(T) = Sto!Sum([n \in T |-> 1])
  BY <1>3 DEF Sto!Moved
<1>5. Sto!Sum([n \in T |-> 1]) = Cardinality(T) * 1
  BY <1>1, StockSumOfSame
<1>. QED  BY <1>1, <1>4, <1>5

LEMMA NetIs ==
    ASSUME LedgerInv, NEW T \in SUBSET ledger
    PROVE  Sto!Net(T) = Cardinality({n \in T : n.quantity > 0}) - Cardinality({n \in T : n.quantity < 0})
<1>1. {n \in T : n.quantity > 0} \in SUBSET ledger /\ {n \in T : n.quantity < 0} \in SUBSET ledger
  OBVIOUS
<1>. QED  BY <1>1, MovedIs DEF Sto!Net

(* What is issued and what is lost is what goes.                           *)
LEMMA GoneIs ==
    ASSUME LedgerInv, NEW T \in SUBSET ledger
    PROVE  Sto!Moved(Sto!OfType(Sto!Issues, T)) + Sto!Moved(Sto!Lost(T)) = Cardinality({n \in T : n.quantity < 0})
<1> DEFINE I == Sto!OfType(Sto!Issues, T)
           G == {n \in T : n.quantity < 0}
<1>1. I \in SUBSET ledger /\ Sto!Lost(T) \in SUBSET ledger
  BY DEF Sto!OfType, Sto!Lost
<1>2. \A n \in T : /\ n.type \in Sto!Types /\ n.quantity \in {-1, 1} /\ Signed(n)
  BY LedgerIs DEF Recorded
<1>3. \A n \in T : n.quantity < 0 <=> n.type \in Sto!Issues \/ (n.type = "adjustment" /\ n.quantity < 0)
  BY <1>2 DEF Sto!Types, Sto!Issues, Signed
<1>4. G = I \cup Sto!Lost(T) /\ \A n \in I : n \notin Sto!Lost(T)
  BY <1>3 DEF Sto!OfType, Sto!Lost, Sto!Issues
<1> HIDE DEF I, G
<1>5. Cardinality(G) = Cardinality(I) + Cardinality(Sto!Lost(T))
  BY <1>1, <1>4, MovedIs, Apart
<1>. QED  BY <1>1, <1>5, MovedIs DEF I, G

LEMMA DriftHolds == ASSUME LedgerInv PROVE Sto!DriftFound
<1> DEFINE RowOf(p) == [place |-> p, drift |-> balance[p] - Opening - Sto!Net(Sto!Of(p[1], Sto!In(p[2], ledger)))]
<1>1. ASSUME NEW p \in Places
      PROVE  balance[p] - Opening - Sto!Net(Sto!Of(p[1], Sto!In(p[2], ledger))) = IF p \in opening THEN 0 ELSE -Opening
  <2>1. /\ Sto!Of(p[1], Sto!In(p[2], ledger)) \in SUBSET ledger
        /\ {n \in Sto!Of(p[1], Sto!In(p[2], ledger)) : n.quantity > 0} = BroughtTo(ledger, p)
        /\ {n \in Sto!Of(p[1], Sto!In(p[2], ledger)) : n.quantity < 0} = TakenFrom(ledger, p)
    BY DEF Sto!Of, Sto!In, BroughtTo, TakenFrom, At
  <2>2. Sto!Net(Sto!Of(p[1], Sto!In(p[2], ledger))) = Cardinality(BroughtTo(ledger, p)) - Cardinality(TakenFrom(ledger, p))
    BY <2>1, NetIs
  <2>3. balance[p] + Cardinality(TakenFrom(ledger, p)) = Given(opening, p) + Cardinality(BroughtTo(ledger, p))
    BY LedgerIs DEF Ledger
  <2>4. /\ BroughtTo(ledger, p) \in SUBSET ledger /\ TakenFrom(ledger, p) \in SUBSET ledger
    BY DEF BroughtTo, TakenFrom
  <2>5. Cardinality(BroughtTo(ledger, p)) \in Nat /\ Cardinality(TakenFrom(ledger, p)) \in Nat
    BY <2>4, MovedIs
  <2>6. balance[p] \in Nat /\ Opening \in Nat
    BY LedgerIs, StockCalendar
  <2>. QED  BY <2>2, <2>3, <2>5, <2>6 DEF Given
<1>2. \A p \in Places : RowOf(p) = [place |-> p, drift |-> IF p \in opening THEN 0 ELSE -Opening]
  BY <1>1
<1>3. Sto!Drift = {r \in {RowOf(p) : p \in stored} : r.drift # 0}
  BY DEF Sto!Drift
<1> DEFINE Lacking == {q \in Places \ opening : Opening > 0 /\ Sto!Of(q[1], Sto!In(q[2], ledger)) # {}}
<1> HIDE DEF RowOf
<1>4. Opening \in Nat /\ stored \subseteq Places
  BY LedgerIs, StockCalendar
<1>5. \A p \in Places : p \in Lacking <=> p \in stored /\ p \notin opening /\ Opening # 0
  <2> SUFFICES ASSUME NEW p \in Places
               PROVE  p \in Lacking <=> p \in stored /\ p \notin opening /\ Opening # 0
    OBVIOUS
  <2>1. Sto!Of(p[1], Sto!In(p[2], ledger)) # {} <=> \E n \in ledger : At(n, p)
    BY DEF Sto!Of, Sto!In, At
  <2>2. p \in stored <=> p \in opening \/ \E n \in ledger : At(n, p)
    BY LedgerIs DEF RowsOf
  <2>. QED  BY <1>4, <2>1, <2>2
<1>6. Lacking \subseteq Places
  OBVIOUS
<1> HIDE DEF Lacking
<1>7. ASSUME NEW r
      PROVE  r \in Sto!Drift <=> \E p \in Lacking : r = [place |-> p, drift |-> -Opening]
  <2>1. r \in Sto!Drift <=> \E p \in stored : r = RowOf(p) /\ r.drift # 0
    BY <1>3
  <2>2. \A p \in Places : r = RowOf(p) =>
           (r.drift # 0 <=> p \notin opening /\ Opening # 0)
    BY <1>2, <1>4
  <2>. QED  BY <1>2, <1>4, <1>5, <1>6, <2>1, <2>2
<1>8. Sto!Drift = {[place |-> p, drift |-> -Opening] : p \in Lacking}
  BY <1>7
<1>. QED  BY <1>8 DEF Sto!DriftFound, Lacking


-----------------------------------------------------------------------------
(* The weekly report.                                                      *)

LEMMA SinceIs ==
    ASSUME LedgerInv
    PROVE  /\ \A from, to : Sto!Since(from, to) \in SUBSET ledger
           /\ Sto!Since(0, stockNow + 1) = ledger
<1>1. \A n \in ledger : 0 <= n.at /\ n.at < stockNow + 1
  <2>1. \A n \in ledger : n.at \in Nat /\ n.at <= stockNow
    BY LedgerIs DEF Recorded
  <2>. QED  BY <2>1, LedgerIs, NowIs
<1>. QED  BY <1>1 DEF Sto!Since

LEMMA SignsAre ==
    ASSUME LedgerInv
    PROVE  /\ Neg \in SUBSET ledger /\ Pos \in SUBSET ledger
           /\ IsFiniteSet(Neg) /\ IsFiniteSet(Pos)
           /\ Cardinality(Neg) \in Nat /\ Cardinality(Pos) \in Nat
<1>1. Neg \in SUBSET ledger /\ Pos \in SUBSET ledger
  BY DEF Neg, Pos
<1>. QED  BY <1>1, MovedIs

(* What the openings brought.                                              *)
LEMMA GivenIs ==
    ASSUME LedgerInv
    PROVE  Sto!Sum([p \in Places |-> Given(opening, p)]) = Opening * Cardinality(opening)
<1> DEFINE g == [p \in Places |-> Given(opening, p)]
<1>1. opening \subseteq Places /\ IsFiniteSet(Places) /\ Opening \in Nat
  BY LedgerIs, StockCalendar DEF Sto!TypeOK
<1>2. IsFiniteSet(opening)
  BY <1>1, FS_Subset
<1>3. IsFiniteSet(1..Opening) /\ Cardinality(1..Opening) = Opening
  BY <1>1, FS_Interval
<1>4. ASSUME NEW u \in Sto!Units(g)
      PROVE  u \in opening \X (1..Opening)
  <2>1. PICK p \in Places : \E v \in 1..Given(opening, p) : u = <<p, v>>
    BY StockUnitsAre
  <2>2. PICK v \in 1..Given(opening, p) : u = <<p, v>>
    BY <2>1
  <2>3. p \in opening /\ v \in 1..Opening
    BY <2>2, <1>1 DEF Given
  <2>. QED  BY <2>2, <2>3
<1>5. ASSUME NEW u \in opening \X (1..Opening)
      PROVE  u \in Sto!Units(g)
  <2>1. PICK p \in opening : \E v \in 1..Opening : u = <<p, v>>
    OBVIOUS
  <2>2. PICK v \in 1..Opening : u = <<p, v>>
    BY <2>1
  <2>3. p \in DOMAIN g /\ g[p] = Opening
    BY <1>1 DEF Given
  <2> HIDE DEF g
  <2>. QED  BY <2>2, <2>3, StockUnitsAre
<1>6. Sto!Units(g) = opening \X (1..Opening)
  BY <1>4, <1>5
<1> HIDE DEF g
<1>7. Cardinality(opening \X (1..Opening)) = Cardinality(opening) * Opening
  BY <1>2, <1>3, FS_Product
<1>8. Cardinality(opening) * Opening = Opening * Cardinality(opening)
  <2>1. Cardinality(opening) \in Nat
    BY <1>2, FS_CardinalityType
  <2>. QED  BY <1>1, <2>1
<1>. QED  BY <1>6, <1>7, <1>8, StockSumIs DEF g

(* The balances, of the equation of each place.                            *)
LEMMA BalancesAre ==
    ASSUME LedgerInv
    PROVE  Sto!Sum(balance) + Cardinality(Neg) = Opening * Cardinality(opening) + Cardinality(Pos)
<1> DEFINE g == [p \in Places |-> Given(opening, p)]
           carried == [p \in Places |-> TakenFrom(ledger, p)]
           brought == [p \in Places |-> BroughtTo(ledger, p)]
           t == [p \in Places |-> Cardinality(carried[p])]
           b == [p \in Places |-> Cardinality(brought[p])]
<1>1. IsFiniteSet(Places) /\ balance \in [Places -> Nat]
  BY StockCalendar, LedgerIs
<1>2. \A n \in ledger : \E p \in Places : At(n, p)
  <2> SUFFICES ASSUME NEW n \in ledger PROVE At(n, <<n.item, n.warehouse>>) /\ <<n.item, n.warehouse>> \in Places
    OBVIOUS
  <2>. QED  BY LedgerIs DEF At
<1>3. \A n : \A p, q \in Places : At(n, p) /\ At(n, q) => p = q
  BY PlaceIs DEF At
<1>4. /\ \A p \in Places : carried[p] \subseteq Neg
      /\ \A n \in Neg : \E p \in Places : n \in carried[p]
      /\ \A p, q \in Places : \A n : n \in carried[p] /\ n \in carried[q] => p = q
  BY <1>2, <1>3 DEF TakenFrom, Neg
<1>5. /\ \A p \in Places : brought[p] \subseteq Pos
      /\ \A n \in Pos : \E p \in Places : n \in brought[p]
      /\ \A p, q \in Places : \A n : n \in brought[p] /\ n \in brought[q] => p = q
  BY <1>2, <1>3 DEF BroughtTo, Pos
<1>6. \A p \in Places : carried[p] = TakenFrom(ledger, p) /\ brought[p] = BroughtTo(ledger, p)
  OBVIOUS
<1> HIDE DEF carried, brought
<1>7. Sto!Sum(t) = Cardinality(Neg)
  BY <1>1, <1>4, SignsAre, StockSizesOfParts
<1>8. Sto!Sum(b) = Cardinality(Pos)
  BY <1>1, <1>5, SignsAre, StockSizesOfParts
<1>9. \A p \in Places : t[p] \in Nat /\ b[p] \in Nat /\ g[p] \in Nat /\ balance[p] \in Nat
  <2> SUFFICES ASSUME NEW p \in Places
               PROVE  t[p] \in Nat /\ b[p] \in Nat /\ g[p] \in Nat /\ balance[p] \in Nat
    OBVIOUS
  <2>1. carried[p] \in SUBSET ledger /\ brought[p] \in SUBSET ledger
    BY <1>6 DEF TakenFrom, BroughtTo
  <2>2. Cardinality(carried[p]) \in Nat /\ Cardinality(brought[p]) \in Nat
    BY <2>1, MovedIs
  <2>3. Given(opening, p) \in Nat
    BY StockCalendar DEF Given
  <2>. QED  BY <1>1, <2>2, <2>3
<1>10. \A p \in Places : balance[p] + t[p] = g[p] + b[p]
  <2> SUFFICES ASSUME NEW p \in Places
               PROVE  balance[p] + Cardinality(carried[p]) = Given(opening, p) + Cardinality(brought[p])
    OBVIOUS
  <2>. QED  BY <1>6, LedgerIs DEF Ledger
<1>11. DOMAIN t = Places /\ DOMAIN b = Places /\ DOMAIN g = Places /\ DOMAIN balance = Places
  BY <1>1
<1>12. Sto!Sum(g) = Opening * Cardinality(opening)
  BY GivenIs
<1> HIDE DEF t, b, g
<1>13. Sto!Sum([p \in Places |-> balance[p] + t[p]]) = Sto!Sum(balance) + Sto!Sum(t)
  BY <1>1, <1>9, <1>11, SumOfBoth
<1>14. Sto!Sum([p \in Places |-> g[p] + b[p]]) = Sto!Sum(g) + Sto!Sum(b)
  BY <1>1, <1>9, <1>11, SumOfBoth
<1>15. [p \in Places |-> balance[p] + t[p]] = [p \in Places |-> g[p] + b[p]]
  BY <1>10
<1>. QED  BY <1>7, <1>8, <1>12, <1>13, <1>14, <1>15

LEMMA EquationHolds == ASSUME LedgerInv PROVE Sto!StockEquation
<1> DEFINE In2 == Sto!OfType({"in", "transfer_in"}, ledger)
           Adj == {n \in Sto!OfType({"adjustment"}, ledger) : n.quantity > 0}
           gone == [i \in Items |-> {n \in Sto!Of(i, ledger) : n.quantity < 0}]
<1>1. In2 \in SUBSET ledger /\ Adj \in SUBSET ledger
  BY DEF Sto!OfType
<1>2. \A n \in ledger : n.type \in Sto!Types /\ n.quantity \in {-1, 1} /\ Signed(n)
  BY LedgerIs DEF Recorded
<1>3. \A n \in ledger : n.quantity > 0 <=>
         n.type \in {"in", "transfer_in"} \/ (n.type = "adjustment" /\ n.quantity > 0)
  BY <1>2 DEF Sto!Types, Signed
<1>4. Pos = In2 \cup Adj /\ \A n \in In2 : n \notin Adj
  BY <1>3 DEF Sto!OfType, Pos
<1>5. /\ {n \in In2 : n.quantity > 0} = In2 /\ {n \in In2 : n.quantity < 0} = {}
      /\ {n \in Adj : n.quantity > 0} = Adj /\ {n \in Adj : n.quantity < 0} = {}
  <2>1. \A n \in In2 : n.quantity = 1
    BY <1>2 DEF Sto!OfType, Signed
  <2>2. \A n \in Adj : n.quantity = 1
    BY <1>2 DEF Sto!OfType
  <2> HIDE DEF In2, Adj
  <2>. QED  BY <2>1, <2>2
<1> HIDE DEF In2, Adj
<1>6. Cardinality({}) = 0
  BY FS_EmptySet
<1>7. IsFiniteSet(In2) /\ IsFiniteSet(Adj) /\ Cardinality(In2) \in Nat /\ Cardinality(Adj) \in Nat
  BY <1>1, MovedIs
<1>8. Sto!Net(In2) = Cardinality(In2) /\ Sto!Net(Adj) = Cardinality(Adj)
  <2>1. /\ Sto!Net(In2) = Cardinality({n \in In2 : n.quantity > 0}) - Cardinality({n \in In2 : n.quantity < 0})
        /\ Sto!Net(Adj) = Cardinality({n \in Adj : n.quantity > 0}) - Cardinality({n \in Adj : n.quantity < 0})
    BY <1>1, NetIs
  <2>2. /\ Sto!Net(In2) = Cardinality(In2) - Cardinality({})
        /\ Sto!Net(Adj) = Cardinality(Adj) - Cardinality({})
    BY <1>5, <2>1
  <2>. QED  BY <1>6, <1>7, <2>2
<1>9. Cardinality(Pos) = Cardinality(In2) + Cardinality(Adj)
  BY <1>4, <1>7, Apart
<1>10. Sto!Moved(Sto!OfType(Sto!Issues, ledger)) + Sto!Moved(Sto!Lost(ledger)) = Cardinality(Neg)
  BY GoneIs DEF Neg
<1>11. Sto!Since(0, stockNow + 1) = ledger
  BY SinceIs
<1>12. /\ Sto!WeeklyStock(0, stockNow).consumed = Cardinality(Neg)
       /\ Sto!WeeklyStock(0, stockNow).received = Cardinality(In2)
  BY <1>8, <1>10, <1>11 DEF Sto!WeeklyStock, In2
<1>13. Sto!Sum(balance) = Opening * Cardinality(opening) + Cardinality(In2) + Cardinality(Adj) - Cardinality(Neg)
  <2>1. Opening * Cardinality(opening) \in Nat
    <3>1. IsFiniteSet(opening)
      BY LedgerIs, StockCalendar, FS_Subset DEF Sto!TypeOK
    <3>2. Cardinality(opening) \in Nat
      BY <3>1, FS_CardinalityType
    <3>. QED  BY <3>2, StockCalendar
  <2>2. Sto!Sum(balance) \in Nat
    <3>1. IsFiniteSet(DOMAIN balance) /\ \A p \in DOMAIN balance : balance[p] \in Nat
      BY LedgerIs, StockCalendar
    <3>. QED  BY <3>1, StockSumNat
  <2>. QED  BY <1>7, <1>9, <2>1, <2>2, BalancesAre, SignsAre
<1>14. Sto!Sum([i \in Items |-> Sto!Consumption(i, 0, stockNow + 1)]) = Cardinality(Neg)
  <2>1. \A i \in Items : Sto!Consumption(i, 0, stockNow + 1) = Cardinality(gone[i])
    <3> SUFFICES ASSUME NEW i \in Items
                 PROVE  Sto!Consumption(i, 0, stockNow + 1) = Cardinality({n \in Sto!Of(i, ledger) : n.quantity < 0})
      OBVIOUS
    <3>1. Sto!Of(i, ledger) \in SUBSET ledger
      BY DEF Sto!Of
    <3>. QED  BY <1>11, <3>1, GoneIs DEF Sto!Consumption
  <2>2. \A n \in ledger : n.item \in Items
    BY LedgerIs DEF Recorded
  <2>3. /\ \A i \in Items : gone[i] \subseteq Neg
        /\ \A n \in Neg : \E i \in Items : n \in gone[i]
        /\ \A i, j \in Items : \A n : n \in gone[i] /\ n \in gone[j] => i = j
    BY <2>2 DEF Sto!Of, Neg
  <2>4. IsFiniteSet(Items)
    BY StockCalendar
  <2> HIDE DEF gone
  <2>5. Sto!Sum([i \in Items |-> Cardinality(gone[i])]) = Cardinality(Neg)
    BY <2>3, <2>4, SignsAre, StockSizesOfParts
  <2>6. [i \in Items |-> Sto!Consumption(i, 0, stockNow + 1)] = [i \in Items |-> Cardinality(gone[i])]
    BY <2>1
  <2>. QED  BY <2>5, <2>6
<1>. QED  BY <1>8, <1>12, <1>13, <1>14, StoSizes DEF Sto!StockEquation, Adj

-----------------------------------------------------------------------------
(* Turnovers and dead stock.                                               *)

(* Rows made of the members of a set: the sizes of what each is made of    *)
(* add up to the size of the set.                                          *)
LEMMA StockRowsAddUp ==
    ASSUME NEW I, IsFiniteSet(I), NEW K, NEW Rows, Rows = {K[n] : n \in I}
    PROVE  Sto!Sum([r \in Rows |-> Cardinality({n \in I : K[n] = r})]) = Cardinality(I)
<1> DEFINE h == [n \in I |-> K[n]]
           pile == [r \in Rows |-> {n \in I : K[n] = r}]
<1>1. h \in Surjection(I, Rows)
  BY DEF Surjection
<1>2. IsFiniteSet(Rows)
  <2> HIDE DEF h
  <2>. QED  BY <1>1, FS_Surjection
<1>3. /\ \A r \in Rows : pile[r] \subseteq I
      /\ \A n \in I : \E r \in Rows : n \in pile[r]
      /\ \A r, s \in Rows : \A n : n \in pile[r] /\ n \in pile[s] => r = s
  OBVIOUS
<1>4. \A r \in Rows : pile[r] = {n \in I : K[n] = r}
  OBVIOUS
<1> HIDE DEF pile
<1>5. Sto!Sum([r \in Rows |-> Cardinality(pile[r])]) = Cardinality(I)
  BY <1>2, <1>3, StockSizesOfParts
<1>6. [r \in Rows |-> Cardinality(pile[r])] = [r \in Rows |-> Cardinality({n \in I : K[n] = r})]
  BY <1>4
<1>. QED  BY <1>5, <1>6

LEMMA IssuedIs ==
    ASSUME LedgerInv, NEW from, NEW to
    PROVE  /\ Issued(from, to) \in SUBSET ledger
           /\ \A c : IssuedIn(from, to, c) \in SUBSET ledger
           /\ \A p : IssuedFrom(from, to, p) \in SUBSET ledger
           /\ IsFiniteSet(Issued(from, to)) /\ Cardinality(Issued(from, to)) \in Nat
<1>1. Issued(from, to) \in SUBSET ledger
  BY SinceIs DEF Issued, Sto!OfType
<1>2. /\ \A c : IssuedIn(from, to, c) \in SUBSET ledger
      /\ \A p : IssuedFrom(from, to, p) \in SUBSET ledger
  BY <1>1 DEF IssuedIn, IssuedFrom, Sto!Of, Sto!In
<1>. QED  BY <1>1, <1>2, MovedIs

LEMMA CategoriesAddUp ==
    ASSUME LedgerInv, NEW from, NEW to
    PROVE  Sto!Sum([r \in Sto!CategoryTurnover(from, to) |-> r.issued]) = Cardinality(Issued(from, to))
<1> DEFINE I == Issued(from, to)
           line(c) == [category |-> c, issued |-> Sto!Moved(IssuedIn(from, to, c)),
                      movements |-> Cardinality(IssuedIn(from, to, c)),
                      skus |-> Cardinality({n.item : n \in IssuedIn(from, to, c)})]
           K == [n \in I |-> line(Category[n.item])]
           Rows == Sto!CategoryTurnover(from, to)
<1>1. Rows = {line(c) : c \in {Category[n.item] : n \in I}}
  BY DEF Sto!CategoryTurnover, Issued, IssuedIn, Sto!Cardinality, Cardinality
<1>2. \A c : line(c).category = c /\ line(c).issued = Sto!Moved(IssuedIn(from, to, c))
  OBVIOUS
<1>3. \A n \in I : K[n] = line(Category[n.item])
  OBVIOUS
<1> HIDE DEF I, line, K, Rows
<1>4. Rows = {K[n] : n \in I}
  BY <1>1, <1>3
<1>5. \A r \in Rows : \E c : r = line(c)
  BY <1>1
<1>6. \A r \in Rows : r.issued = Cardinality({n \in I : K[n] = r})
  <2> SUFFICES ASSUME NEW r \in Rows PROVE r.issued = Cardinality({n \in I : K[n] = r})
    OBVIOUS
  <2>1. PICK c : r = line(c)
    BY <1>5
  <2>2. \A n \in I : K[n] = r <=> Category[n.item] = c
    BY <1>2, <1>3, <2>1
  <2>3. {n \in I : K[n] = r} = IssuedIn(from, to, c)
    BY <2>2 DEF IssuedIn, I
  <2>. QED  BY <1>2, <2>1, <2>3, IssuedIs, MovedIs
<1>7. Sto!Sum([r \in Rows |-> Cardinality({n \in I : K[n] = r})]) = Cardinality(I)
  BY <1>4, IssuedIs, StockRowsAddUp DEF I
<1>8. [r \in Rows |-> r.issued] = [r \in Rows |-> Cardinality({n \in I : K[n] = r})]
  BY <1>6
<1>. QED  BY <1>7, <1>8 DEF I, Rows

LEMMA PlaceRowsAre ==
    ASSUME NEW from, NEW to
    PROVE  Sto!PlaceTurnover(from, to)
             = {PlaceRow(from, to, p) : p \in {PlaceOf(n) : n \in Issued(from, to + 1)}}
BY DEF Sto!PlaceTurnover, PlaceRow, PlaceOf, Issued, IssuedFrom, Days1

LEMMA PlaceRowIs ==
    ASSUME NEW from, NEW to, NEW p
    PROVE  /\ PlaceRow(from, to, p).place = p
           /\ PlaceRow(from, to, p).consumed = Sto!Moved(IssuedFrom(from, to + 1, p))
BY DEF PlaceRow

(* A movement was issued from its place and from no other.                 *)
LEMMA FromItsPlace ==
    ASSUME LedgerInv, NEW from, NEW to, NEW p \in Places
    PROVE  \A n \in Issued(from, to) : n \in IssuedFrom(from, to, p) <=> PlaceOf(n) = p
<1>1. p = <<p[1], p[2]>>
  BY StockCalendar
<1>. QED  BY <1>1 DEF IssuedFrom, PlaceOf, Sto!Of, Sto!In

LEMMA PlacesAddUp ==
    ASSUME LedgerInv, NEW from, NEW to
    PROVE  Sto!Sum([r \in Sto!PlaceTurnover(from, to) |-> r.consumed]) = Cardinality(Issued(from, to + 1))
<1> DEFINE I == Issued(from, to + 1)
           K == [n \in I |-> PlaceRow(from, to, PlaceOf(n))]
           Rows == Sto!PlaceTurnover(from, to)
<1>1. Rows = {PlaceRow(from, to, p) : p \in {PlaceOf(n) : n \in I}}
  BY PlaceRowsAre
<1>2. \A n \in I : K[n] = PlaceRow(from, to, PlaceOf(n))
  OBVIOUS
<1>3. \A n \in I : n \in ledger /\ PlaceOf(n) \in Places
  BY IssuedIs, LedgerIs DEF PlaceOf
<1> HIDE DEF I, K, Rows
<1>4. Rows = {K[n] : n \in I}
  BY <1>1, <1>2
<1>5. \A r \in Rows : \E p \in Places : r = PlaceRow(from, to, p)
  BY <1>1, <1>3
<1>6. \A r \in Rows : r.consumed = Cardinality({n \in I : K[n] = r})
  <2> SUFFICES ASSUME NEW r \in Rows PROVE r.consumed = Cardinality({n \in I : K[n] = r})
    OBVIOUS
  <2>1. PICK p \in Places : r = PlaceRow(from, to, p)
    BY <1>5
  <2>2. \A n \in I : K[n] = r <=> PlaceOf(n) = p
    <3>1. r.place = p /\ \A n \in I : PlaceRow(from, to, PlaceOf(n)).place = PlaceOf(n)
      BY <2>1, PlaceRowIs
    <3>. QED  BY <1>2, <2>1, <3>1
  <2>3. \A n \in I : n \in IssuedFrom(from, to + 1, p) <=> PlaceOf(n) = p
    BY FromItsPlace DEF I
  <2>4. IssuedFrom(from, to + 1, p) \subseteq I
    BY DEF IssuedFrom, Sto!Of, Sto!In, I
  <2>5. {n \in I : K[n] = r} = IssuedFrom(from, to + 1, p)
    BY <2>2, <2>3, <2>4
  <2>6. r.consumed = Sto!Moved(IssuedFrom(from, to + 1, p))
    BY <2>1, PlaceRowIs
  <2>. QED  BY <2>5, <2>6, IssuedIs, MovedIs
<1>7. Sto!Sum([r \in Rows |-> Cardinality({n \in I : K[n] = r})]) = Cardinality(I)
  BY <1>4, IssuedIs, StockRowsAddUp DEF I
<1>8. [r \in Rows |-> r.consumed] = [r \in Rows |-> Cardinality({n \in I : K[n] = r})]
  BY <1>6
<1>. QED  BY <1>7, <1>8 DEF I, Rows

LEMMA IssuedSize ==
    ASSUME LedgerInv, NEW from, NEW to, NEW p
    PROVE  /\ Sto!Moved(IssuedFrom(from, to, p)) \in Nat
           /\ Sto!Moved(IssuedFrom(from, to, p)) = 0 <=> IssuedFrom(from, to, p) = {}
<1> DEFINE T == IssuedFrom(from, to, p)
<1>1. T \in SUBSET ledger
  BY IssuedIs
<1> HIDE DEF T
<1>2. IsFiniteSet(T) /\ Cardinality(T) \in Nat /\ Sto!Moved(T) = Cardinality(T)
  BY <1>1, MovedIs
<1>3. Cardinality(T) = 0 <=> T = {}
  BY <1>2, FS_EmptySet
<1>4. Sto!Moved(T) \in Nat /\ (Sto!Moved(T) = 0 <=> T = {})
  BY <1>2, <1>3
<1>. QED  BY <1>4 DEF T

LEMMA QuietIs ==
    ASSUME LedgerInv, NEW from, NEW to
    PROVE  {p \in stored : /\ balance[p] > 0
                           /\ Sto!Moved(Sto!OfType(Sto!Issues, Sto!Of(p[1], Sto!In(p[2], Sto!Since(from, to + 1))))) = 0}
             = Quiet(from, to)
<1>1. ASSUME NEW p \in Places
      PROVE  Sto!OfType(Sto!Issues, Sto!Of(p[1], Sto!In(p[2], Sto!Since(from, to + 1)))) = IssuedFrom(from, to + 1, p)
  BY DEF IssuedFrom, Issued, Sto!OfType, Sto!Of, Sto!In
<1>2. \A p \in Places : balance[p] > 0 => p \in stored
  BY RowOfStock
<1>3. {r.place : r \in Sto!PlaceTurnover(from, to)} = {PlaceOf(n) : n \in Issued(from, to + 1)}
  <2> DEFINE Rows == Sto!PlaceTurnover(from, to)
             I == Issued(from, to + 1)
             RowOf(p) == PlaceRow(from, to, p)
  <2>1. Rows = {RowOf(p) : p \in {PlaceOf(n) : n \in I}}
    BY PlaceRowsAre
  <2>2. \A p : RowOf(p).place = p
    BY PlaceRowIs
  <2> HIDE DEF Rows, I, RowOf
  <2>3. {r.place : r \in Rows} = {PlaceOf(n) : n \in I}
    BY <2>1, <2>2
  <2>. QED  BY <2>3 DEF Rows, I
<1>4. ASSUME NEW p \in Places
      PROVE  Sto!Moved(IssuedFrom(from, to + 1, p)) = 0 <=> p \notin {PlaceOf(n) : n \in Issued(from, to + 1)}
  <2>1. IssuedFrom(from, to + 1, p) \subseteq Issued(from, to + 1)
    BY DEF IssuedFrom, Sto!Of, Sto!In
  <2>2. \A n \in Issued(from, to + 1) : n \in IssuedFrom(from, to + 1, p) <=> PlaceOf(n) = p
    BY FromItsPlace
  <2>3. IssuedFrom(from, to + 1, p) = {} <=> p \notin {PlaceOf(n) : n \in Issued(from, to + 1)}
    BY <2>1, <2>2
  <2>. QED  BY <2>3, IssuedSize
<1>5. stored \subseteq Places
  BY LedgerIs
<1>. QED  BY <1>1, <1>2, <1>3, <1>4, <1>5 DEF Quiet

(* A report of dead stock: what is quiet, or what is worth most of it.     *)
LEMMA DeadIs ==
    ASSUME LedgerInv, NEW from, NEW to, NEW dead \in Sto!DeadStock(from, to + 1)
    PROVE  /\ dead \subseteq Quiet(from, to)
           /\ dead # Quiet(from, to) =>
                /\ Cardinality(dead) = MaxRows
                /\ \A p \in dead, q \in Quiet(from, to) \ dead :
                     balance[q] * Cost[q[1]] <= balance[p] * Cost[p[1]]
<1> DEFINE D == {p \in stored : /\ balance[p] > 0
                                /\ Sto!Moved(Sto!OfType(Sto!Issues, Sto!Of(p[1], Sto!In(p[2], Sto!Since(from, to + 1))))) = 0}
           value == [p \in D |-> balance[p] * Cost[p[1]]]
<1>1. /\ dead \in SUBSET D
      /\ dead # D => Cardinality(dead) = MaxRows
      /\ \A p \in dead, q \in D \ dead : value[q] <= value[p]
  BY StoSizes DEF Sto!DeadStock
<1>2. D = Quiet(from, to)
  BY QuietIs
<1>3. \A p \in D : value[p] = balance[p] * Cost[p[1]]
  OBVIOUS
<1> HIDE DEF D, value
<1>. QED  BY <1>1, <1>2, <1>3

LEMMA ThreeFactors ==
    ASSUME NEW a \in Nat, NEW b \in Nat, NEW c \in Nat
    PROVE  a * (b * c) = c * b * a
<1>1. b * c \in Nat /\ b * c = c * b
  OBVIOUS
<1> DEFINE m == b * c
<1>2. m \in Nat /\ c * b = m
  BY <1>1
<1> HIDE DEF m
<1>3. a * m = m * a
  BY <1>2
<1>. QED  BY <1>2, <1>3 DEF m

LEMMA DaysAre ==
    ASSUME NEW from \in Nat, NEW to \in Nat, from <= to
    PROVE  Days1(from, to) \in Nat
<1>1. Day \in Nat \ {0} /\ 2 * (to - from) + Day \in Nat /\ 2 * Day \in Nat \ {0}
  BY StockCalendar
<1>2. Sto!Rounded(to - from, Day) \in Nat
  BY <1>1, QuotientIs DEF Sto!Rounded
<1>. QED  BY <1>2 DEF Days1

LEMMA AgreementHolds == ASSUME LedgerInv PROVE Sto!IssuesAgree
<1>1. ASSUME NEW from \in Nat, NEW to \in Nat, from <= to, NEW r \in Sto!PlaceTurnover(from, to)
      PROVE  /\ ~ r.slow
             /\ balance[r.place] > 0 =>
                  r.turnover.num * r.cover.num = r.days * r.turnover.den * r.cover.den
  <2> DEFINE consumed(p) == Sto!Moved(IssuedFrom(from, to + 1, p))
  <2>1. PICK n \in Issued(from, to + 1) : r = PlaceRow(from, to, PlaceOf(n))
    BY <1>1, PlaceRowsAre
  <2>2. PICK p : p = PlaceOf(n)
    OBVIOUS
  <2>3. p \in Places
    BY <2>2, IssuedIs, LedgerIs DEF PlaceOf
  <2>4. n \in IssuedFrom(from, to + 1, p)
    BY <2>2, <2>3, FromItsPlace
  <2>5. consumed(p) \in Nat /\ consumed(p) # 0
    BY <2>4, IssuedSize
  <2>6. balance[p] \in Nat /\ Days1(from, to) \in Nat
    BY <1>1, <2>3, LedgerIs, DaysAre
  <2>7. /\ r.place = p /\ r.slow = (consumed(p) = 0) /\ r.days = Days1(from, to)
        /\ r.cover.num = balance[p] * Days1(from, to) /\ r.cover.den = consumed(p)
        /\ balance[p] > 0 => r.turnover.num = consumed(p) /\ r.turnover.den = balance[p]
    BY <2>1, <2>2 DEF PlaceRow
  <2> HIDE DEF consumed
  <2>8. consumed(p) * (balance[p] * Days1(from, to)) = Days1(from, to) * balance[p] * consumed(p)
    BY <2>5, <2>6, ThreeFactors
  <2>. QED  BY <2>5, <2>7, <2>8
<1>2. ASSUME NEW from \in {0, stockNow}, NEW to \in {from, stockNow}
      PROVE  from \in Nat /\ to \in Nat /\ from <= to
  BY LedgerIs, NowIs
<1>3. ASSUME NEW from \in {0, stockNow}, NEW to \in {from, stockNow}
      PROVE  Sto!Sum([r \in Sto!CategoryTurnover(from, to + 1) |-> r.issued])
               = Sto!Sum([r \in Sto!PlaceTurnover(from, to) |-> r.consumed])
  BY CategoriesAddUp, PlacesAddUp
<1>4. ASSUME NEW from \in {0, stockNow}, NEW to \in {from, stockNow}, NEW dead \in Sto!DeadStock(from, to + 1)
      PROVE  LET quiet == {p \in Places : balance[p] > 0} \ {r.place : r \in Sto!PlaceTurnover(from, to)} IN
             /\ dead \subseteq quiet
             /\ dead # quiet => /\ Cardinality(dead) = MaxRows
                                /\ \A p \in dead, q \in quiet \ dead :
                                     balance[q] * Cost[q[1]] <= balance[p] * Cost[p[1]]
  BY DeadIs DEF Quiet
<1>5. ASSUME NEW from \in {0, stockNow}, NEW to \in {from, stockNow}, NEW dead \in Sto!DeadStock(from, to + 1)
      PROVE  LET quiet == {p \in Places : balance[p] > 0} \ {r.place : r \in Sto!PlaceTurnover(from, to)} IN
             /\ dead \subseteq quiet
             /\ dead # quiet => /\ Sto!Cardinality(dead) = MaxRows
                                /\ \A p \in dead, q \in quiet \ dead :
                                     balance[q] * Cost[q[1]] <= balance[p] * Cost[p[1]]
  BY <1>4, StoSizes
<1>. QED  BY <1>1, <1>2, <1>3, <1>5 DEF Sto!IssuesAgree

-----------------------------------------------------------------------------
(* Demand.                                                                 *)

(* What movements weigh as demand is how many of them are uses.            *)
LEMMA ConsumedIs ==
    ASSUME LedgerInv, NEW T \in SUBSET ledger
    PROVE  /\ IsFiniteSet(Uses(T)) /\ Cardinality(Uses(T)) \in Nat
           /\ Sto!SumConsumed(T) = Cardinality(Uses(T))
<1> DEFINE f == [n \in T |-> Sto!Demand(n)]
<1>1. Uses(T) \in SUBSET ledger
  BY DEF Uses
<1>2. IsFiniteSet(Uses(T)) /\ Cardinality(Uses(T)) \in Nat
  BY <1>1, MovedIs
<1>3. ASSUME NEW n \in T
      PROVE  f[n] = IF IsUse(n) THEN 1 ELSE 0
  <2>1. n.quantity \in {-1, 1} /\ n.type \in Sto!Types
    BY LedgerIs DEF Recorded
  <2>. QED  BY <2>1 DEF Sto!Demand, IsUse, Sto!Abs, Sto!Types
<1>4. \A p : p \in Sto!Units(f) <=> p \in Uses(T) \X (1..1)
  <2>1. DOMAIN f = T
    OBVIOUS
  <2> HIDE DEF f
  <2>2. \A p : p \in Sto!Units(f) <=> \E n \in T : \E u \in 1..f[n] : p = <<n, u>>
    BY <2>1, StockUnitsAre
  <2>3. \A n \in T : /\ IsUse(n) => 1..f[n] = 1..1
                     /\ ~ IsUse(n) => 1..f[n] = {}
    BY <1>3
  <2>. QED  BY <2>2, <2>3 DEF Uses
<1>5. Sto!Units(f) = Uses(T) \X (1..1)
  <2>1. \A p \in Sto!Units(f) : p \in Uses(T) \X (1..1)
    BY <1>4
  <2>2. \A p \in Uses(T) \X (1..1) : p \in Sto!Units(f)
    BY <1>4
  <2> HIDE DEF f
  <2>. QED  BY <2>1, <2>2
<1>6. IsFiniteSet(1..1) /\ Cardinality(1..1) = 1
  <2>1. 1..1 = {1}
    OBVIOUS
  <2>. QED  BY <2>1, FS_Singleton
<1>7. Sto!Sum(f) = Cardinality(Uses(T)) * 1
  <2> HIDE DEF f
  <2>. QED  BY <1>2, <1>5, <1>6, FS_Product, StockSumIs
<1>. QED  BY <1>2, <1>7 DEF Sto!SumConsumed

LEMMA HistoryIs ==
    ASSUME LedgerInv, NEW i, NEW from, NEW to
    PROVE  /\ Sto!History(i, from, to) \in SUBSET ledger
           /\ Uses(Sto!History(i, from, to))
                = {n \in ledger : n.item = i /\ from <= n.at /\ n.at < to /\ IsUse(n)}
BY DEF Sto!History, Sto!OfType, Sto!Of, Sto!Since, Uses, IsUse

LEMMA UsedNowIs ==
    ASSUME LedgerInv, NEW i
    PROVE  /\ UsedNow(i) \in SUBSET ledger
           /\ Sto!SumConsumed({n \in Sto!Of(i, ledger) : n.at = stockNow}) = Cardinality(UsedNow(i))
<1> DEFINE T == {n \in Sto!Of(i, ledger) : n.at = stockNow}
<1>1. T \in SUBSET ledger /\ Uses(T) = UsedNow(i)
  BY DEF Sto!Of, Uses, UsedNow
<1>2. UsedNow(i) \in SUBSET ledger
  BY DEF UsedNow
<1> HIDE DEF T
<1>3. Sto!SumConsumed(T) = Cardinality(UsedNow(i))
  BY <1>1, ConsumedIs
<1>. QED  BY <1>2, <1>3 DEF T

(* Every instant of a day of the series is fetched.                        *)
LEMMA InWindow ==
    ASSUME LedgerInv, NEW d \in Nat, d \in Sto!WindowDays, NEW t \in Nat, t \div Day = d
    PROVE  stockNow - Window * Day <= t
<1> DEFINE e == stockNow \div Day
           W == Window * Day
<1>1. stockNow \in Nat /\ Day \in Nat \ {0} /\ Window \in Nat \ {0}
  BY LedgerIs, NowIs, StockCalendar
<1>2. e \in Nat /\ stockNow < (e + 1) * Day /\ d * Day <= t
  BY <1>1, QuotientIs
<1>3. e - Window + 1 <= d
  <2>1. d \in (e - Window + 1)..e
    BY DEF Sto!WindowDays
  <2> HIDE DEF e
  <2>. QED  BY <1>1, <1>2, <2>1
<1> HIDE DEF e
<1>4. (e + 1) * Day <= (d + Window) * Day
  <2>1. e + 1 \in Nat /\ d + Window \in Nat /\ e + 1 <= d + Window
    BY <1>1, <1>2, <1>3
  <2>. QED  BY <1>1, <2>1, ProductsGrow
<1>5. (d + Window) * Day = d * Day + W /\ W \in Nat /\ d * Day \in Nat /\ (e + 1) * Day \in Nat
  BY <1>1, <1>2
<1> HIDE DEF W
<1>6. stockNow - W <= t
  BY <1>1, <1>2, <1>4, <1>5
<1>. QED  BY <1>6 DEF W

LEMMA DayIs ==
    ASSUME LedgerInv, NEW i \in Items, NEW d \in Sto!WindowDays \cap Sto!Days
    PROVE  Sto!DailySeries(i)[d]
             = usage[i][d] - IF d = stockNow \div Day
                             THEN Sto!SumConsumed({n \in Sto!Of(i, ledger) : n.at = stockNow}) ELSE 0
<1> DEFINE H == Sto!History(i, stockNow - Window * Day, stockNow)
           T == {n \in H : n.at \div Day = d}
           U == UsedOn(ledger, i, d)
<1>1. H \in SUBSET ledger /\ T \in SUBSET ledger
  BY HistoryIs
<1>2. Sto!DailySeries(i)[d] = Sto!SumConsumed(T)
  BY DEF Sto!DailySeries
<1>3. d \in Nat
  <2>1. MaxTime \div Day \in Nat
    BY StockCalendar, QuotientIs
  <2>. QED  BY <2>1 DEF Sto!Days
<1>4. \A n \in ledger : n.at \in Nat /\ n.at <= stockNow
  BY LedgerIs DEF Recorded
<1>5. \A n \in ledger : n.at \div Day = d => stockNow - Window * Day <= n.at
  BY <1>3, <1>4, InWindow
<1>6. Uses(T) = {n \in U : n.at < stockNow}
  <2>1. Uses(T) = {n \in Uses(H) : n.at \div Day = d}
    BY DEF Uses
  <2>2. Uses(H) = {n \in ledger : /\ n.item = i /\ stockNow - Window * Day <= n.at
                                  /\ n.at < stockNow /\ IsUse(n)}
    BY HistoryIs
  <2> HIDE DEF H, T
  <2>. QED  BY <1>5, <2>1, <2>2 DEF UsedOn
<1>7. usage[i][d] = Cardinality(U)
  BY LedgerIs DEF Ledger
<1>8. Sto!SumConsumed(T) = Cardinality(Uses(T)) /\ Cardinality(Uses(T)) \in Nat /\ IsFiniteSet(Uses(T))
  BY <1>1, ConsumedIs
<1> HIDE DEF H, T
<1>9. U \in SUBSET ledger
  BY DEF UsedOn
<1>10. stockNow \in Nat
  BY LedgerIs, NowIs
<1>11. CASE d = stockNow \div Day
  <2>1. UsedNow(i) \subseteq U
    BY <1>11 DEF UsedNow, UsedOn
  <2>2. U = Uses(T) \cup UsedNow(i) /\ \A n \in Uses(T) : n \notin UsedNow(i)
    <3>1. \A n \in U : n \in ledger /\ n.item = i /\ IsUse(n)
      BY DEF UsedOn
    <3>2. \A n \in U : n.at < stockNow \/ n.at = stockNow
      BY <1>4, <1>10, <3>1
    <3>3. \A n \in UsedNow(i) : ~ (n.at < stockNow)
      BY <1>10 DEF UsedNow
    <3> HIDE DEF U
    <3>. QED  BY <1>6, <2>1, <3>1, <3>2, <3>3 DEF UsedNow
  <2>3. /\ IsFiniteSet(UsedNow(i)) /\ Cardinality(UsedNow(i)) \in Nat
        /\ Sto!SumConsumed({n \in Sto!Of(i, ledger) : n.at = stockNow}) = Cardinality(UsedNow(i))
    BY UsedNowIs, MovedIs
  <2>4. Cardinality(U) = Cardinality(Uses(T)) + Cardinality(UsedNow(i))
    BY <1>8, <2>2, <2>3, Apart
  <2> HIDE DEF U
  <2>5. Sto!SumConsumed(T) = usage[i][d] - Sto!SumConsumed({n \in Sto!Of(i, ledger) : n.at = stockNow})
    BY <1>7, <1>8, <2>3, <2>4
  <2>. QED  BY <1>2, <1>11, <2>5
<1>12. CASE d # stockNow \div Day
  <2>1. \A n \in U : n.at < stockNow
    <3>1. \A n \in U : n \in ledger /\ n.at \div Day = d
      BY DEF UsedOn
    <3>2. \A n \in U : n.at # stockNow
      BY <1>12, <3>1
    <3> HIDE DEF U
    <3>. QED  BY <1>4, <1>10, <3>1, <3>2
  <2>2. Uses(T) = U
    BY <1>6, <2>1
  <2> HIDE DEF U
  <2>3. Sto!SumConsumed(T) = usage[i][d] - 0
    BY <1>7, <1>8, <2>2
  <2>. QED  BY <1>2, <1>12, <2>3
<1>. QED  BY <1>11, <1>12

LEMMA WindowIs ==
    ASSUME LedgerInv
    PROVE  IsFiniteSet(Sto!WindowDays)
<1>1. stockNow \div Day \in Int /\ Window \in Int
  BY LedgerIs, NowIs, StockCalendar, QuotientIs
<1>2. stockNow \div Day - Window + 1 \in Int
  BY <1>1
<1>. QED  BY <1>1, <1>2, FS_Interval DEF Sto!WindowDays

LEMMA StockMonthsAddUp ==
    ASSUME LedgerInv, NEW i \in Items
    PROVE  Sto!Sum(Sto!MonthlySeries(Sto!DailySeries(i))) = Sto!Sum(Sto!DailySeries(i))
<1> DEFINE daily == Sto!DailySeries(i)
           month == [d \in Sto!WindowDays |-> d \div Month]
           M == {d \div Month : d \in Sto!WindowDays}
           pile == [m \in M |-> {d \in Sto!WindowDays : d \div Month = m}]
<1>1. DOMAIN daily = Sto!WindowDays
  BY DEF Sto!DailySeries
<1>2. ASSUME NEW d \in DOMAIN daily
      PROVE  daily[d] \in Nat
  <2>1. {n \in Sto!History(i, stockNow - Window * Day, stockNow) : n.at \div Day = d} \in SUBSET ledger
    BY HistoryIs
  <2>2. Sto!SumConsumed({n \in Sto!History(i, stockNow - Window * Day, stockNow) : n.at \div Day = d}) \in Nat
    BY <2>1, ConsumedIs
  <2>. QED  BY <1>1, <2>2 DEF Sto!DailySeries
<1>3. IsFiniteSet(M)
  <2>1. month \in Surjection(Sto!WindowDays, M)
    BY DEF Surjection
  <2> HIDE DEF month, M
  <2>. QED  BY <2>1, WindowIs, FS_Surjection
<1> HIDE DEF daily
<1>4. Sto!MonthlySeries(daily) = [m \in M |-> Sto!Sum([d \in pile[m] |-> daily[d]])]
  BY <1>1 DEF Sto!MonthlySeries
<1>5. /\ \A m \in M : pile[m] \subseteq DOMAIN daily
      /\ \A d \in DOMAIN daily : \E m \in M : d \in pile[m]
      /\ \A l, m \in M : \A d : d \in pile[l] /\ d \in pile[m] => l = m
  BY <1>1
<1> HIDE DEF M, pile
<1>6. Sto!Sum([m \in M |-> Sto!Sum([d \in pile[m] |-> daily[d]])]) = Sto!Sum(daily)
  <2>1. IsFiniteSet(DOMAIN daily)
    BY <1>1, WindowIs
  <2>. QED  BY <1>2, <1>3, <1>5, <2>1, StockSumsOfParts
<1>. QED  BY <1>4, <1>6 DEF daily

(* What production used of an item, at any time.                           *)
LEMMA AllUsed ==
    ASSUME LedgerInv, NEW i \in Items
    PROVE  Sto!SumConsumed(Sto!History(i, 0, stockNow)) + Sto!SumConsumed({n \in Sto!Of(i, ledger) : n.at = stockNow})
             = Sto!Sum(usage[i])
<1> DEFINE U == {n \in ledger : n.item = i /\ IsUse(n)}
           H == Sto!History(i, 0, stockNow)
           pile == [d \in Sto!Days |-> UsedOn(ledger, i, d)]
<1>1. H \in SUBSET ledger /\ U \in SUBSET ledger
  BY HistoryIs
<1>2. stockNow \in Nat /\ \A n \in ledger : n.at \in Nat /\ n.at <= stockNow
  BY LedgerIs, NowIs DEF Recorded
<1>3. U = Uses(H) \cup UsedNow(i) /\ \A n \in Uses(H) : n \notin UsedNow(i)
  <2>1. \A n \in ledger : 0 <= n.at /\ (n.at < stockNow <=> n.at # stockNow)
    BY <1>2
  <2>2. Uses(H) = {n \in ledger : n.item = i /\ 0 <= n.at /\ n.at < stockNow /\ IsUse(n)}
    BY HistoryIs
  <2> HIDE DEF H
  <2>. QED  BY <2>1, <2>2 DEF UsedNow
<1>4. /\ Sto!SumConsumed(H) = Cardinality(Uses(H))
      /\ IsFiniteSet(Uses(H)) /\ Cardinality(Uses(H)) \in Nat
  BY <1>1, ConsumedIs
<1>5. /\ IsFiniteSet(UsedNow(i)) /\ Cardinality(UsedNow(i)) \in Nat
      /\ Sto!SumConsumed({n \in Sto!Of(i, ledger) : n.at = stockNow}) = Cardinality(UsedNow(i))
  BY UsedNowIs, MovedIs
<1>6. Cardinality(U) = Cardinality(Uses(H)) + Cardinality(UsedNow(i)) /\ IsFiniteSet(U)
  BY <1>3, <1>4, <1>5, Apart
<1>7. Sto!Sum([d \in Sto!Days |-> Cardinality(pile[d])]) = Cardinality(U)
  <2>1. IsFiniteSet(Sto!Days)
    <3>1. MaxTime \div Day \in Int
      BY StockCalendar, QuotientIs
    <3>. QED  BY <3>1, FS_Interval DEF Sto!Days
  <2>2. \A n \in ledger : n.at \div Day \in Sto!Days
    <3> SUFFICES ASSUME NEW n \in ledger PROVE n.at \div Day \in Sto!Days
      OBVIOUS
    <3>1. n.at \in Nat /\ n.at <= MaxTime /\ MaxTime \in Nat /\ Day \in Nat \ {0}
      BY <1>2, LedgerIs, NowIs, StockCalendar
    <3>2. n.at \div Day \in Nat /\ MaxTime \div Day \in Nat /\ n.at \div Day <= MaxTime \div Day
      BY <3>1, QuotientIs, QuotientsGrow
    <3>. QED  BY <3>2 DEF Sto!Days
  <2>3. /\ \A d \in Sto!Days : pile[d] \subseteq U
        /\ \A n \in U : \E d \in Sto!Days : n \in pile[d]
        /\ \A c, d \in Sto!Days : \A n : n \in pile[c] /\ n \in pile[d] => c = d
    BY <2>2 DEF UsedOn
  <2> HIDE DEF pile, U
  <2>. QED  BY <1>6, <2>1, <2>3, StockSizesOfParts
<1>8. usage[i] = [d \in Sto!Days |-> Cardinality(pile[d])]
  <2>1. usage[i] \in [Sto!Days -> Nat]
    BY LedgerIs
  <2>2. \A d \in Sto!Days : usage[i][d] = Cardinality(pile[d])
    BY LedgerIs DEF Ledger
  <2> HIDE DEF pile
  <2>. QED  BY <2>1, <2>2
<1> HIDE DEF U, H, pile
<1>9. Sto!SumConsumed(H) + Sto!SumConsumed({n \in Sto!Of(i, ledger) : n.at = stockNow}) = Sto!Sum(usage[i])
  BY <1>4, <1>5, <1>6, <1>7, <1>8
<1>. QED  BY <1>9 DEF H

LEMMA DemandHolds == ASSUME LedgerInv PROVE Sto!DemandIsUse
<1>1. \A i \in Items : Sto!EconomicOrder(i, 1, 1, 1).demand = Sto!SumConsumed(Sto!History(i, 0, stockNow))
  BY DEF Sto!EconomicOrder
<1>. QED  BY <1>1, DayIs, StockMonthsAddUp, AllUsed DEF Sto!DemandIsUse

-----------------------------------------------------------------------------
(* The order quantity.                                                     *)

(* A better quantity than the least that reaches the square root: x is the *)
(* number of orders times their cost, y what one piece costs to keep.      *)
LEMMA FarAbove ==
    ASSUME NEW N \in Nat, NEW D \in Nat, NEW Q \in Nat, NEW k \in Nat, Q >= 1, k >= 2,
           (2 * Q + 1) * (2 * Q + 1) * D > 4 * N
    PROVE  (N + D * Q * Q) * (Q + k) <= (N + D * (Q + k) * (Q + k)) * Q
<1> DEFINE S == Q * (Q + k)
           R == (2 * Q + 1) * (2 * Q + 1)
<1>1. S \in Nat /\ R \in Nat
  OBVIOUS
<1>2. R <= 4 * S
  <2>1. R = 4 * (Q * Q) + 4 * Q + 1 /\ S = Q * Q + Q * k
    OBVIOUS
  <2>2. 2 * Q <= k * Q /\ k * Q = Q * k
    BY ProductsGrow
  <2>3. Q * Q \in Nat /\ Q * k \in Nat /\ 2 * Q \in Nat
    OBVIOUS
  <2> HIDE DEF S, R
  <2>. QED  BY <2>1, <2>2, <2>3
<1>3. R * D > 4 * N
  OBVIOUS
<1> HIDE DEF R
<1>4. N <= S * D
  <2>1. R * D <= (4 * S) * D
    BY <1>1, <1>2, ProductsGrow
  <2>2. (4 * S) * D = 4 * (S * D) /\ S * D \in Nat /\ R * D \in Nat
    BY <1>1
  <2>. QED  BY <1>3, <2>1, <2>2
<1>5. N * k <= (S * D) * k
  BY <1>1, <1>4, ProductsGrow
<1>6. (N + D * Q * Q) * (Q + k) = N * Q + N * k + (S * D) * Q
  OBVIOUS
<1>7. (N + D * (Q + k) * (Q + k)) * Q = N * Q + (S * D) * Q + (S * D) * k
  OBVIOUS
<1>8. N * Q \in Nat /\ N * k \in Nat /\ (S * D) * Q \in Nat /\ (S * D) * k \in Nat
  BY <1>1
<1> HIDE DEF S
<1>. QED  BY <1>5, <1>6, <1>7, <1>8

LEMMA FarBelow ==
    ASSUME NEW N \in Nat, NEW D \in Nat, NEW q \in Nat, NEW k \in Nat, q >= 1, k >= 2,
           (2 * (q + k - 1) + 1) * (2 * (q + k - 1) + 1) * D <= 4 * N
    PROVE  (N + D * (q + k) * (q + k)) * q <= (N + D * q * q) * (q + k)
<1> DEFINE S == q * (q + k)
           R == (2 * (q + k - 1) + 1) * (2 * (q + k - 1) + 1)
<1>1. S \in Nat /\ R \in Nat
  OBVIOUS
<1>2. 4 * S <= R
  <2>1. R = 4 * (q * q) + 8 * (q * k) + 4 * (k * k) - 4 * q - 4 * k + 1 /\ S = q * q + q * k
    OBVIOUS
  <2>2. 2 * q <= k * q /\ k * q = q * k /\ 2 * k <= k * k
    BY ProductsGrow
  <2>3. q * q \in Nat /\ q * k \in Nat /\ k * k \in Nat
    OBVIOUS
  <2> HIDE DEF S, R
  <2>. QED  BY <2>1, <2>2, <2>3
<1>3. R * D <= 4 * N
  OBVIOUS
<1> HIDE DEF R
<1>4. S * D <= N
  <2>1. (4 * S) * D <= R * D
    BY <1>1, <1>2, ProductsGrow
  <2>2. (4 * S) * D = 4 * (S * D) /\ S * D \in Nat /\ R * D \in Nat
    BY <1>1
  <2>. QED  BY <1>3, <2>1, <2>2
<1>5. (S * D) * k <= N * k
  BY <1>1, <1>4, ProductsGrow
<1>6. (N + D * q * q) * (q + k) = N * q + N * k + (S * D) * q
  OBVIOUS
<1>7. (N + D * (q + k) * (q + k)) * q = N * q + (S * D) * q + (S * D) * k
  OBVIOUS
<1>8. N * q \in Nat /\ N * k \in Nat /\ (S * D) * q \in Nat /\ (S * D) * k \in Nat
  BY <1>1
<1> HIDE DEF S
<1>. QED  BY <1>5, <1>6, <1>7, <1>8

LEMMA LeastReached ==
    ASSUME NEW N \in Nat \ {0}, NEW D \in Nat \ {0}
    PROVE  \E q \in 0..N : Reaches(q, N, D) /\ \A r \in 0..(q - 1) : ~ Reaches(r, N, D)
<1> DEFINE T == {q \in Nat : Reaches(q, N, D)}
<1>1. N \in T
  <2> DEFINE R == (2 * N + 1) * (2 * N + 1)
  <2>1. R \in Nat /\ R = 4 * (N * N) + 4 * N + 1 /\ N * N \in Nat
    OBVIOUS
  <2>2. R > 4 * N
    <3> HIDE DEF R
    <3>. QED  BY <2>1
  <2>3. 1 * R <= D * R
    <3>1. 1 \in Nat /\ D \in Nat /\ 1 <= D
      OBVIOUS
    <3> HIDE DEF R
    <3>. QED  BY <2>1, <3>1, ProductsGrow
  <2>4. R * D > 4 * N
    <3> HIDE DEF R
    <3>1. D * R = R * D /\ 1 * R = R /\ R * D \in Nat
      BY <2>1
    <3>. QED  BY <2>1, <2>2, <2>3, <3>1
  <2>. QED  BY <2>4 DEF Reaches
<1>2. PICK q \in T : \A r \in T : q <= r
  <2>1. T \in SUBSET Nat /\ T # {}
    BY <1>1
  <2> HIDE DEF T
  <2>. QED  BY <2>1, LeastOf
<1>3. q \in 0..N /\ Reaches(q, N, D)
  BY <1>1, <1>2
<1>4. ASSUME NEW r \in 0..(q - 1)
      PROVE  ~ Reaches(r, N, D)
  <2>1. r \in Nat /\ ~ (q <= r)
    BY <1>2
  <2> HIDE DEF Reaches
  <2>. QED  BY <1>2, <2>1
<1>. QED  BY <1>3, <1>4

LEMMA StockOrderIs ==
    ASSUME LedgerInv, NEW i \in Items, NEW ordering \in Nat, NEW tenths \in Nat, NEW lead \in Nat
    PROVE  IsOrder(Sto!EconomicOrder(i, ordering, tenths, lead), lead)
<1> DEFINE o == Sto!EconomicOrder(i, ordering, tenths, lead)
           d == Sto!SumConsumed(Sto!History(i, 0, stockNow))
           N == 20 * d * ordering
           D == Cost[i] * tenths
<1>1. d \in Nat
  BY HistoryIs, ConsumedIs
<1>2. Cost[i] \in Nat
  BY StockCalendar
<1> HIDE DEF d
<1>3. N \in Nat /\ D \in Nat
  BY <1>1, <1>2
<1>4. /\ o.demand = d /\ o.ratio.num = N /\ o.ratio.den = D
      /\ o.reorderPoint = Sto!Rounded(d * lead, 365)
      /\ o.quantity = IF N = 0 \/ D = 0 THEN 0
                      ELSE CHOOSE q \in 0..N : Reaches(q, N, D) /\ \A r \in 0..(q - 1) : ~ Reaches(r, N, D)
  BY DEF Sto!EconomicOrder, d, Reaches
<1> HIDE DEF o, N, D
<1>7. IsOrder(o, lead)
  <2>1. CASE N = 0 \/ D = 0
    BY <1>1, <1>3, <1>4, <2>1 DEF IsOrder
  <2>2. CASE ~ (N = 0 \/ D = 0)
    <3>1. \E q \in 0..N : Reaches(q, N, D) /\ \A r \in 0..(q - 1) : ~ Reaches(r, N, D)
      BY <1>3, <2>2, LeastReached
    <3>2. /\ o.quantity \in 0..N /\ Reaches(o.quantity, N, D)
          /\ \A r \in 0..(o.quantity - 1) : ~ Reaches(r, N, D)
      BY <1>4, <2>2, <3>1
    <3>3. o.quantity \in Nat /\ (o.quantity > 0 => o.quantity - 1 \in 0..(o.quantity - 1))
      BY <1>3, <3>2
    <3>. QED  BY <1>1, <1>3, <1>4, <3>2, <3>3 DEF IsOrder
  <2>. QED  BY <2>1, <2>2
<1>. QED  BY <1>7 DEF o

LEMMA NoBetterOrder ==
    ASSUME NEW N \in Nat, NEW D \in Nat, NEW Q \in Nat, NEW q \in Nat, Q >= 1, q >= 1,
           Reaches(Q, N, D), ~ Reaches(Q - 1, N, D), Sto!Abs(q - Q) >= 2
    PROVE  (N + D * Q * Q) * q <= (N + D * q * q) * Q
<1>1. CASE q > Q
  <2> DEFINE k == q - Q
  <2>1. k \in Nat /\ k >= 2 /\ q = Q + k
    BY <1>1 DEF Sto!Abs
  <2> HIDE DEF k
  <2>. QED  BY <2>1, FarAbove DEF Reaches
<1>2. CASE q <= Q
  <2> DEFINE k == Q - q
  <2>1. k \in Nat /\ k >= 2 /\ Q = q + k
    BY <1>2 DEF Sto!Abs
  <2> HIDE DEF k
  <2>2. ~ ((2 * (q + k - 1) + 1) * (2 * (q + k - 1) + 1) * D > 4 * N)
    BY <2>1 DEF Reaches
  <2>3. (2 * (q + k - 1) + 1) * (2 * (q + k - 1) + 1) * D \in Int
    BY <2>1
  <2>4. (2 * (q + k - 1) + 1) * (2 * (q + k - 1) + 1) * D <= 4 * N
    BY <2>2, <2>3
  <2>. QED  BY <2>1, <2>4, FarBelow
<1>. QED  BY <1>1, <1>2

LEMMA ReorderAtMost ==
    ASSUME NEW d \in Nat, NEW lead \in {14, 365}
    PROVE  Sto!Rounded(d * lead, 365) <= d
<1>1. CASE lead = 14
  BY <1>1 DEF Sto!Rounded
<1>2. CASE lead = 365
  BY <1>2 DEF Sto!Rounded
<1>. QED  BY <1>1, <1>2

(* No quantity but a neighbour is cheaper.                                 *)
LEMMA OrderIsBest ==
    ASSUME NEW o, NEW lead \in {14, 365}, IsOrder(o, lead)
    PROVE  LET cost(q) == o.ratio.num + o.ratio.den * q * q IN
           /\ o.quantity > 0 =>
                \A q \in 1..(2 * o.quantity + 2) :
                  Sto!Abs(q - o.quantity) >= 2 => cost(o.quantity) * q <= cost(q) * o.quantity
           /\ o.reorderPoint <= o.demand
<1> DEFINE N == o.ratio.num
           D == o.ratio.den
           Q == o.quantity
<1>1. o.reorderPoint <= o.demand
  BY ReorderAtMost DEF IsOrder
<1>2. /\ N \in Nat /\ D \in Nat /\ Q \in Nat
      /\ Q > 0 => Reaches(Q, N, D) /\ ~ Reaches(Q - 1, N, D)
  BY DEF IsOrder
<1> HIDE DEF N, D, Q
<1>3. ASSUME Q > 0, NEW q \in 1..(2 * Q + 2), Sto!Abs(q - Q) >= 2
      PROVE  (N + D * Q * Q) * q <= (N + D * q * q) * Q
  <2>1. q \in Nat /\ q >= 1 /\ Q >= 1
    BY <1>2, <1>3
  <2>. QED  BY <1>2, <1>3, <2>1, NoBetterOrder
<1>. QED  BY <1>1, <1>3 DEF N, D, Q

LEMMA OrdersHold == ASSUME LedgerInv PROVE Sto!OrdersCheapest
<1> SUFFICES ASSUME NEW i \in Items, NEW ordering \in {1, 5}, NEW tenths \in {1, 10},
                    NEW lead \in {14, 365}
             PROVE  LET o == Sto!EconomicOrder(i, ordering, tenths, lead)
                        cost(q) == o.ratio.num + o.ratio.den * q * q IN
                    /\ o.quantity > 0 =>
                         \A q \in 1..(2 * o.quantity + 2) :
                           Sto!Abs(q - o.quantity) >= 2 => cost(o.quantity) * q <= cost(q) * o.quantity
                    /\ o.reorderPoint <= o.demand
  BY DEF Sto!OrdersCheapest
<1>1. ordering \in Nat /\ tenths \in Nat /\ lead \in Nat
  OBVIOUS
<1>2. IsOrder(Sto!EconomicOrder(i, ordering, tenths, lead), lead)
  BY <1>1, StockOrderIs
<1>. QED  BY <1>2, OrderIsBest

-----------------------------------------------------------------------------
(* The ABC classes.                                                        *)

LEMMA WorthIs ==
    ASSUME LedgerInv
    PROVE  IsWorth(Sto!Worth(0, stockNow + 1))
<1> DEFINE w == Sto!Worth(0, stockNow + 1)
<1>1. DOMAIN w \subseteq Items /\ w = [i \in DOMAIN w |-> w[i]]
  BY DEF Sto!Worth
<1>2. ASSUME NEW i \in DOMAIN w
      PROVE  w[i] \in Nat
  <2>1. i \in Items /\ w[i] = Sto!Consumption(i, 0, stockNow + 1) * Cost[i]
    BY DEF Sto!Worth
  <2>2. Sto!Of(i, Sto!Since(0, stockNow + 1)) \in SUBSET ledger
    BY SinceIs DEF Sto!Of
  <2>3. Sto!Consumption(i, 0, stockNow + 1) = Cardinality({n \in Sto!Of(i, Sto!Since(0, stockNow + 1)) : n.quantity < 0})
    BY <2>2, GoneIs DEF Sto!Consumption
  <2>4. {n \in Sto!Of(i, Sto!Since(0, stockNow + 1)) : n.quantity < 0} \in SUBSET ledger
    BY <2>2
  <2>5. Sto!Consumption(i, 0, stockNow + 1) \in Nat
    BY <2>3, <2>4, MovedIs
  <2>6. Cost[i] \in Nat
    BY <2>1, StockCalendar
  <2>. QED  BY <2>1, <2>5, <2>6
<1>. QED  BY <1>1, <1>2 DEF IsWorth

LEMMA RowsAre ==
    ASSUME NEW w, IsWorth(w), NEW T, T \subseteq DOMAIN w
    PROVE  /\ IsFiniteSet(T) /\ IsFiniteSet(DOMAIN w) /\ T \subseteq Nat
           /\ \A i \in T : i \in Nat /\ w[i] \in Nat
           /\ Sto!Sum([i \in T |-> w[i]]) \in Nat
<1>1. IsFiniteSet(T) /\ IsFiniteSet(DOMAIN w) /\ T \subseteq Nat
  BY StockCalendar, FS_Subset DEF IsWorth
<1>2. \A i \in T : i \in Nat /\ w[i] \in Nat
  BY <1>1 DEF IsWorth
<1> DEFINE f == [i \in T |-> w[i]]
<1>3. DOMAIN f = T /\ \A i \in DOMAIN f : f[i] \in Nat
  BY <1>2
<1> HIDE DEF f
<1>4. Sto!Sum(f) \in Nat
  BY <1>1, <1>3, StockSumNat
<1>. QED  BY <1>1, <1>2, <1>4 DEF f

LEMMA PartOf ==
    ASSUME NEW w, IsWorth(w), NEW T, NEW U, T \subseteq U, U \subseteq DOMAIN w
    PROVE  Sto!Sum([i \in T |-> w[i]]) <= Sto!Sum([i \in U |-> w[i]])
<1> DEFINE f == [i \in T |-> w[i]]
           g == [i \in U |-> w[i]]
<1>1. \A i \in U : w[i] \in Nat
  BY RowsAre
<1>2. IsFiniteSet(U)
  BY RowsAre
<1>3. /\ DOMAIN f = T /\ DOMAIN g = U /\ \A i \in U : g[i] \in Nat
      /\ \A i \in T : f[i] \in Nat /\ f[i] <= g[i]
  BY <1>1
<1> HIDE DEF f, g
<1>4. Sto!Sum(f) <= Sto!Sum(g)
  BY <1>2, <1>3, StockSumGrows
<1>. QED  BY <1>4 DEF f, g

(* Sorting is a total order.                                               *)
LEMMA SortedBy ==
    ASSUME NEW w, IsWorth(w), NEW i \in DOMAIN w, NEW j \in DOMAIN w
    PROVE  /\ i = j \/ Sto!Before(i, j, w) \/ Sto!Before(j, i, w)
           /\ ~ (Sto!Before(i, j, w) /\ Sto!Before(j, i, w)) /\ ~ Sto!Before(i, i, w)
           /\ Sto!Before(j, i, w) => UpTo(j, w) \subseteq UpTo(i, w)
<1>1. i \in Nat /\ j \in Nat /\ w[i] \in Nat /\ w[j] \in Nat
  BY RowsAre
<1>2. /\ i = j \/ Sto!Before(i, j, w) \/ Sto!Before(j, i, w)
      /\ ~ (Sto!Before(i, j, w) /\ Sto!Before(j, i, w)) /\ ~ Sto!Before(i, i, w)
  BY <1>1 DEF Sto!Before
<1>3. ASSUME Sto!Before(j, i, w), NEW k \in DOMAIN w, Sto!Before(k, j, w)
      PROVE  Sto!Before(k, i, w)
  <2>1. k \in Nat /\ w[k] \in Nat
    BY RowsAre
  <2>. QED  BY <1>1, <1>3, <2>1 DEF Sto!Before
<1>. QED  BY <1>2, <1>3 DEF UpTo

(* The last of some rows.                                                  *)
LEMMA LastOf ==
    ASSUME NEW w, IsWorth(w), NEW T, T \subseteq DOMAIN w, T # {}
    PROVE  \E i \in T : T \subseteq UpTo(i, w)
<1> DEFINE n == Cardinality(DOMAIN w)
           c == [i \in DOMAIN w |-> Cardinality(UpTo(i, w))]
           C == {n - c[i] : i \in T}
<1>1. ASSUME NEW i \in DOMAIN w
      PROVE  /\ UpTo(i, w) \subseteq DOMAIN w /\ i \in UpTo(i, w)
             /\ IsFiniteSet(UpTo(i, w)) /\ c[i] \in Nat /\ c[i] <= n /\ n \in Nat
  <2>1. UpTo(i, w) \subseteq DOMAIN w /\ i \in UpTo(i, w) /\ IsFiniteSet(DOMAIN w)
    BY RowsAre DEF UpTo
  <2>2. /\ IsFiniteSet(UpTo(i, w)) /\ Cardinality(UpTo(i, w)) <= Cardinality(DOMAIN w)
    BY <2>1, FS_Subset
  <2>3. Cardinality(UpTo(i, w)) \in Nat /\ Cardinality(DOMAIN w) \in Nat
    BY <2>1, <2>2, FS_CardinalityType
  <2>. QED  BY <2>1, <2>2, <2>3
<1>2. \A i \in DOMAIN w : c[i] = Cardinality(UpTo(i, w))
  OBVIOUS
<1> HIDE DEF n, c
<1>3. C \in SUBSET Nat /\ C # {}
  <2>1. \A i \in T : n - c[i] \in Nat
    BY <1>1
  <2>. QED  BY <2>1
<1>4. PICK m \in C : \A k \in C : m <= k
  <2> HIDE DEF C
  <2>. QED  BY <1>3, LeastOf
<1>5. PICK i \in T : m = n - c[i]
  BY <1>4
<1>6. ASSUME NEW j \in T
      PROVE  j \in UpTo(i, w)
  <2>1. c[j] <= c[i]
    <3>1. m <= n - c[j]
      BY <1>4
    <3>2. c[i] \in Nat /\ c[j] \in Nat /\ n \in Nat
      BY <1>1
    <3>. QED  BY <1>5, <3>1, <3>2
  <2>2. SUFFICES ASSUME j \notin UpTo(i, w) PROVE FALSE
    OBVIOUS
  <2>3. i \in DOMAIN w /\ j \in DOMAIN w
    OBVIOUS
  <2>4. Sto!Before(i, j, w)
    BY <2>2, <2>3, SortedBy DEF UpTo
  <2>5. UpTo(i, w) \subseteq UpTo(j, w)
    BY <2>3, <2>4, SortedBy
  <2>6. UpTo(i, w) \cup {j} \subseteq UpTo(j, w)
    BY <1>1, <2>3, <2>5
  <2>7. IsFiniteSet(UpTo(i, w)) /\ IsFiniteSet(UpTo(j, w))
    BY <1>1, <2>3
  <2>8. /\ IsFiniteSet(UpTo(i, w) \cup {j})
        /\ Cardinality(UpTo(i, w) \cup {j}) = Cardinality(UpTo(i, w)) + 1
    BY <2>2, <2>7, FS_AddElement
  <2>9. Cardinality(UpTo(i, w) \cup {j}) <= Cardinality(UpTo(j, w))
    BY <2>6, <2>7, FS_Subset
  <2>10. c[i] = Cardinality(UpTo(i, w)) /\ c[j] = Cardinality(UpTo(j, w)) /\ c[i] \in Nat /\ c[j] \in Nat
    BY <1>1, <1>2, <2>3
  <2>. QED  BY <2>1, <2>8, <2>9, <2>10
<1>. QED  BY <1>6

(* Rows that each keep within a share of the whole do so together.         *)
LEMMA WithinShare ==
    ASSUME NEW w, IsWorth(w), NEW T, T \subseteq DOMAIN w, NEW k \in Nat,
           \A i \in T : StockShare(i, w) * 100 <= k * Sto!Sum(w)
    PROVE  Sto!Sum([i \in T |-> w[i]]) * 100 <= k * Sto!Sum(w)
<1>1. w = [i \in DOMAIN w |-> w[i]]
  BY DEF IsWorth
<1>2. Sto!Sum([i \in DOMAIN w |-> w[i]]) \in Nat
  BY RowsAre
<1>3. Sto!Sum(w) \in Nat
  BY <1>1, <1>2
<1>4. CASE T = {}
  <2>1. Sto!Units([i \in T |-> w[i]]) = {}
    BY <1>4 DEF Sto!Units
  <2>2. Sto!Sum([i \in T |-> w[i]]) = 0
    BY <2>1, FS_EmptySet, StockSumIs
  <2>3. k * Sto!Sum(w) \in Nat
    BY <1>3
  <2>. QED  BY <2>2, <2>3
<1>5. CASE T # {}
  <2>1. PICK i \in T : T \subseteq UpTo(i, w)
    BY <1>5, LastOf
  <2>2. UpTo(i, w) \subseteq DOMAIN w
    BY DEF UpTo
  <2>3. Sto!Sum([j \in T |-> w[j]]) <= StockShare(i, w) /\ StockShare(i, w) \in Nat /\ Sto!Sum([j \in T |-> w[j]]) \in Nat
    BY <2>1, <2>2, PartOf, RowsAre DEF StockShare
  <2>4. StockShare(i, w) * 100 <= k * Sto!Sum(w) /\ k * Sto!Sum(w) \in Nat
    BY <1>3
  <2>. QED  BY <2>3, <2>4
<1>. QED  BY <1>4, <1>5

LEMMA ClassIs ==
    ASSUME NEW w, NEW i
    PROVE  /\ Sto!Class(i, w) = IF StockShare(i, w) * 100 <= 80 * Sto!Sum(w) THEN "A"
                                ELSE IF StockShare(i, w) * 100 <= 95 * Sto!Sum(w) THEN "B" ELSE "C"
           /\ Sto!Class(i, w) \in {"A", "B", "C"}
BY DEF Sto!Class, StockShare, UpTo

(* A row worth more is not of a worse class.                               *)
LEMMA MoreIsBetter ==
    ASSUME NEW w, IsWorth(w), NEW i \in DOMAIN w, NEW j \in DOMAIN w, w[i] < w[j]
    PROVE  /\ Sto!Class(i, w) = "A" => Sto!Class(j, w) = "A"
           /\ Sto!Class(i, w) = "B" => Sto!Class(j, w) # "C"
<1>1. UpTo(j, w) \subseteq UpTo(i, w)
  <2>1. w[i] \in Nat /\ w[j] \in Nat
    BY RowsAre
  <2>2. Sto!Before(j, i, w)
    BY <2>1 DEF Sto!Before
  <2>. QED  BY <2>2, SortedBy
<1>2. UpTo(i, w) \subseteq DOMAIN w /\ UpTo(j, w) \subseteq DOMAIN w
  BY DEF UpTo
<1>3. StockShare(j, w) <= StockShare(i, w) /\ StockShare(i, w) \in Nat /\ StockShare(j, w) \in Nat
  BY <1>1, <1>2, PartOf, RowsAre DEF StockShare
<1>4. Sto!Sum(w) \in Nat
  <2>1. w = [k \in DOMAIN w |-> w[k]]
    BY DEF IsWorth
  <2>2. Sto!Sum([k \in DOMAIN w |-> w[k]]) \in Nat
    BY RowsAre
  <2>. QED  BY <2>1, <2>2
<1>. QED  BY <1>3, <1>4, ClassIs

LEMMA ClassesHold == ASSUME LedgerInv PROVE Sto!ClassesFollowValue
<1> DEFINE worth == Sto!Worth(0, stockNow + 1)
           rows == DOMAIN worth
           class == [i \in rows |-> Sto!Class(i, worth)]
           rank == [A |-> 1, B |-> 2, C |-> 3]
           sum(classes) == Sto!Sum([i \in {i \in rows : class[i] \in classes} |-> worth[i]])
<1>1. IsWorth(worth)
  BY WorthIs
<1> HIDE DEF worth
<1>2. worth = [i \in rows |-> worth[i]]
  BY <1>1 DEF IsWorth
<1>3. \A i \in rows : class[i] = Sto!Class(i, worth) /\ class[i] \in {"A", "B", "C"}
  BY ClassIs
<1>4. ASSUME NEW i \in rows, NEW j \in rows, rank[class[i]] < rank[class[j]]
      PROVE  worth[i] >= worth[j]
  <2>1. worth[i] \in Nat /\ worth[j] \in Nat
    BY <1>1, RowsAre
  <2>2. SUFFICES ASSUME worth[i] < worth[j] PROVE FALSE
    BY <2>1
  <2>3. /\ class[i] = "A" => class[j] = "A"
        /\ class[i] = "B" => class[j] # "C"
    BY <1>1, <1>3, <2>2, MoreIsBetter
  <2> HIDE DEF class
  <2>4. rank["A"] = 1 /\ rank["B"] = 2 /\ rank["C"] = 3
    OBVIOUS
  <2> HIDE DEF rank
  <2>. QED  BY <1>3, <1>4, <2>3, <2>4
<1>5. {i \in rows : class[i] \in {"A", "B", "C"}} = rows
  BY <1>3
<1>6. sum({"A", "B", "C"}) = Sto!Sum(worth)
  <2> HIDE DEF class
  <2>. QED  BY <1>2, <1>5
<1> HIDE DEF class
<1>7. sum({"A"}) * 100 <= 80 * Sto!Sum(worth)
  <2> DEFINE T == {i \in rows : class[i] \in {"A"}}
  <2>1. T \subseteq DOMAIN worth /\ \A i \in T : StockShare(i, worth) * 100 <= 80 * Sto!Sum(worth)
    BY <1>3, ClassIs
  <2> HIDE DEF T
  <2>2. Sto!Sum([i \in T |-> worth[i]]) * 100 <= 80 * Sto!Sum(worth)
    BY <1>1, <2>1, WithinShare
  <2>. QED  BY <2>2 DEF T
<1>8. sum({"A", "B"}) * 100 <= 95 * Sto!Sum(worth)
  <2> DEFINE T == {i \in rows : class[i] \in {"A", "B"}}
  <2>1. Sto!Sum(worth) \in Nat
    <3>1. Sto!Sum([k \in rows |-> worth[k]]) \in Nat
      BY <1>1, RowsAre
    <3>. QED  BY <1>2, <3>1
  <2>2. T \subseteq DOMAIN worth /\ \A i \in T : StockShare(i, worth) * 100 <= 95 * Sto!Sum(worth)
    <3>1. ASSUME NEW i \in T
          PROVE  StockShare(i, worth) * 100 <= 95 * Sto!Sum(worth)
      <4>1. i \in rows /\ Sto!Class(i, worth) \in {"A", "B"}
        BY <1>3
      <4>2. UpTo(i, worth) \subseteq DOMAIN worth
        BY DEF UpTo
      <4>3. StockShare(i, worth) \in Nat
        BY <1>1, <4>2, RowsAre DEF StockShare
      <4>. QED  BY <2>1, <4>1, <4>3, ClassIs
    <3>. QED  BY <3>1
  <2> HIDE DEF T
  <2>3. Sto!Sum([i \in T |-> worth[i]]) * 100 <= 95 * Sto!Sum(worth)
    BY <1>1, <2>2, WithinShare
  <2>. QED  BY <2>3 DEF T
<1>. QED  BY <1>4, <1>6, <1>7, <1>8 DEF Sto!ClassesFollowValue, worth, class

-----------------------------------------------------------------------------
LEMMA OneListNext == ASSUME OneList, [Sup!Next]_(Sup!vars) PROVE OneList'
<1>1. UNCHANGED listFocus
  BY DEF Sup!Next, Sup!vars, Sup!history, Sup!BeginCreate, Sup!BeginRetax, Sup!BeginArchive, Sup!BeginAdd,
         Sup!BeginEdit, Sup!BeginRemove, Sup!Create, Sup!Retax, Sup!Archive, Sup!Add, Sup!Edit,
         Sup!Unset, Sup!Pull, Sup!Die, Sup!Overwrite, Sup!BeginReplace, Sup!BeginEmpty, Sup!Replace,
         Sup!Empty
<1>. QED  BY <1>1 DEF OneList

LEMMA LostInit == Ntc!Init => LostOK /\ IdsGiven
BY RecordsAssumption DEF Ntc!PagesAssumption, Ntc!Init, LostOK, IdsGiven, Ntc!Round

LEMMA LostNext == ASSUME NoticesInv, LostOK, [Ntc!Next]_(Ntc!vars) PROVE LostOK'
<1>1. /\ NoticesTyped /\ Rounds \in Nat /\ MaxFaults \in Nat /\ faults \in 0..MaxFaults
      /\ Ntc!Round \in Nat /\ Ntc!Round <= Rounds /\ lost \subseteq Ntc!People \X Ntc!Events
  BY RecordsAssumption DEF NoticesInv, NoticesTyped, LostOK, Ntc!PagesAssumption, Ntc!Round
<1>2. ASSUME NEW p \in Ntc!People, Ntc!Submit(p) PROVE LostOK'
  <2>1. approval.by \in Seq(Ntc!People) /\ Ntc!Round < Rounds /\ approval'.by = Append(approval.by, p)
    BY <1>1, <1>2 DEF Ntc!Submit, NoticesTyped
  <2>2. Len(approval'.by) = Len(approval.by) + 1 /\ Len(approval.by) \in Nat
    BY <2>1
  <2>3. UNCHANGED <<lost, faults>>
    BY <1>2 DEF Ntc!Submit, Ntc!notices
  <2>. QED  BY <1>1, <2>1, <2>2, <2>3 DEF LostOK, Ntc!Round
<1>3. ASSUME UNCHANGED <<Ntc!Round, lost, faults>> PROVE LostOK'
  BY <1>3 DEF LostOK
<1>4. ASSUME NEW q \in Approvers, NEW d \in {"approved", "rejected"},
             Ntc!ReadToDecide(q) \/ Ntc!Decide(q, d)
      PROVE  LostOK'
  <2>1. approval'.by = approval.by
    BY <1>1, <1>4 DEF Ntc!ReadToDecide, Ntc!Decide, NoticesTyped
  <2>2. UNCHANGED <<lost, faults>>
    BY <1>4 DEF Ntc!ReadToDecide, Ntc!Decide, Ntc!notices
  <2>. QED  BY <1>3, <2>1, <2>2 DEF Ntc!Round
<1>5. ASSUME \/ \E t \in telling : Ntc!ReadRecipients(t)
             \/ \E n \in posting : Ntc!Insert(n)
             \/ \E p \in Ntc!People, unreadOnly \in BOOLEAN : Ntc!BeginPass(p, unreadOnly)
             \/ Ntc!List
             \/ \E ids \in {Ntc!Ids(inbox), Ntc!ToSet(pass.shown)} : Ntc!MarkRead(pass.user, ids)
             \/ UNCHANGED Ntc!vars
      PROVE  LostOK'
  <2>1. UNCHANGED <<approval, lost, faults>>
    BY <1>5 DEF Ntc!ReadRecipients, Ntc!Insert, Ntc!BeginPass, Ntc!List, Ntc!MarkRead, Ntc!vars
  <2>. QED  BY <1>3, <2>1 DEF Ntc!Round
<1>6. ASSUME Ntc!Fault PROVE faults' \in 0..MaxFaults
  BY <1>1, <1>6 DEF Ntc!Fault
<1>7. \A t \in telling : t.left \subseteq Ntc!People /\ t.event \in Ntc!Events
  BY <1>1 DEF NoticesTyped, Tellings
<1>8. \A n \in posting : n.user \in Ntc!People /\ n.event \in Ntc!Events
  BY <1>1 DEF NoticesTyped, Made
<1>9. ASSUME NEW t \in telling, NEW p \in Ntc!People, NEW queued \in BOOLEAN, Ntc!TellOne(t, p, queued)
      PROVE  LostOK'
  <2>1. UNCHANGED approval
    BY <1>9 DEF Ntc!TellOne
  <2>2. faults' \in 0..MaxFaults
    BY <1>1, <1>6, <1>9 DEF Ntc!TellOne
  <2>3. lost' = lost \/ lost' = lost \cup (t.left \X {t.event})
    BY <1>9 DEF Ntc!TellOne
  <2>4. lost' \subseteq Ntc!People \X Ntc!Events
    BY <1>1, <1>7, <2>3
  <2>. QED  BY <1>1, <2>1, <2>2, <2>4 DEF LostOK, Ntc!Round
<1>10. ASSUME NEW n \in posting, Ntc!InsertFails(n) PROVE LostOK'
  <2>1. UNCHANGED approval /\ faults' \in 0..MaxFaults /\ lost' = lost \cup {<<n.user, n.event>>}
    BY <1>6, <1>10 DEF Ntc!InsertFails
  <2>2. lost' \subseteq Ntc!People \X Ntc!Events
    BY <1>1, <1>8, <2>1
  <2>. QED  BY <1>1, <2>1, <2>2 DEF LostOK, Ntc!Round
<1>11. ASSUME Ntc!Die PROVE LostOK'
  <2>1. /\ UNCHANGED approval /\ faults' \in 0..MaxFaults
        /\ lost' = lost \cup {<<n.user, n.event>> : n \in posting}
                        \cup UNION {t.left \X {t.event} : t \in telling}
    BY <1>6, <1>11 DEF Ntc!Die
  <2>2. {<<n.user, n.event>> : n \in posting} \subseteq Ntc!People \X Ntc!Events
    BY <1>8
  <2>3. UNION {t.left \X {t.event} : t \in telling} \subseteq Ntc!People \X Ntc!Events
    BY <1>7
  <2>4. lost' \subseteq Ntc!People \X Ntc!Events
    BY <1>1, <2>1, <2>2, <2>3
  <2>. QED  BY <1>1, <2>1, <2>4 DEF LostOK, Ntc!Round
<1>. QED
  <2>1. CASE \E p \in Ntc!People : Ntc!Submit(p) \/ Ntc!Disable(p)
    <3>1. ASSUME NEW p \in Ntc!People, Ntc!Disable(p) PROVE LostOK'
      <4>1. UNCHANGED <<lost, faults>> /\ approval'.by = approval.by
        BY <1>1, <3>1 DEF Ntc!Disable, Ntc!notices, NoticesTyped
      <4>. QED  BY <1>3, <4>1 DEF Ntc!Round
    <3>. QED  BY <2>1, <1>2, <3>1
  <2>2. CASE \E p \in Approvers, d \in {"approved", "rejected"} : Ntc!ReadToDecide(p) \/ Ntc!Decide(p, d)
    BY <2>2, <1>4
  <2>3. CASE Ntc!Edit
    <3>1. UNCHANGED <<lost, faults>> /\ approval'.by = approval.by
      BY <1>1, <2>3 DEF Ntc!Edit, Ntc!notices, NoticesTyped
    <3>. QED  BY <1>3, <3>1 DEF Ntc!Round
  <2>4. CASE \E t \in telling, p \in Ntc!People, queued \in BOOLEAN : Ntc!TellOne(t, p, queued)
    BY <2>4, <1>9
  <2>5. CASE \E n \in posting : Ntc!Insert(n) \/ Ntc!InsertFails(n)
    BY <2>5, <1>5, <1>10
  <2>6. \A p \in Approvers : Ntc!ReadToDecide(p) => LostOK'
    BY <1>4
  <2>. QED  BY <2>1, <2>2, <2>3, <2>4, <2>5, <2>6, <1>5, <1>11 DEF Ntc!Next

LEMMA IdsGivenNext == ASSUME NoticesInv, IdsGiven, [Ntc!Next]_(Ntc!vars) PROVE IdsGiven'
<1>1. NoticesTyped /\ made \in Nat /\ posting \subseteq Made /\ inbox \subseteq Kept
  BY DEF NoticesInv, NoticesTyped
<1>2. ASSUME posting' \subseteq posting, UNCHANGED <<inbox, made>> PROVE IdsGiven'
  BY <1>2 DEF IdsGiven
<1>3. CASE \/ \E p \in Ntc!People : Ntc!Submit(p) \/ Ntc!Disable(p)
           \/ \E p \in Approvers : Ntc!ReadToDecide(p)
           \/ \E p \in Approvers, d \in {"approved", "rejected"} : Ntc!Decide(p, d)
           \/ Ntc!Edit
  BY <1>2, <1>3 DEF Ntc!Submit, Ntc!Disable, Ntc!ReadToDecide, Ntc!Decide, Ntc!Edit, Ntc!notices
<1>4. CASE \/ \E t \in telling : Ntc!ReadRecipients(t)
           \/ \E n \in posting : Ntc!InsertFails(n)
           \/ Ntc!Die
           \/ \E p \in Ntc!People, unreadOnly \in BOOLEAN : Ntc!BeginPass(p, unreadOnly)
           \/ Ntc!List
           \/ UNCHANGED Ntc!vars
  BY <1>2, <1>4 DEF Ntc!ReadRecipients, Ntc!InsertFails, Ntc!Die, Ntc!BeginPass, Ntc!List, Ntc!vars, Ntc!reader
<1>5. CASE \E t \in telling, p \in Ntc!People, queued \in BOOLEAN : Ntc!TellOne(t, p, queued)
  <2>1. PICK t \in telling, p \in Ntc!People, queued \in BOOLEAN : Ntc!TellOne(t, p, queued)
    BY <1>5
  <2>2. /\ posting' = posting \cup {[id |-> made + 1, user |-> p, event |-> t.event]}
        /\ made' = made + 1 /\ UNCHANGED inbox
    BY <2>1 DEF Ntc!TellOne, Ntc!reader
  <2>3. ASSUME NEW n \in posting \cup inbox PROVE n.id <= made /\ n.id \in Nat
    BY <1>1 DEF IdsGiven, Made, Kept
  <2>4. ASSUME NEW n \in posting \cup inbox PROVE n.id <= made'
    BY <1>1, <2>2, <2>3
  <2>5. ASSUME NEW n \in posting' PROVE n.id <= made'
    <3>1. CASE n \in posting
      BY <2>4, <3>1
    <3>2. CASE n = [id |-> made + 1, user |-> p, event |-> t.event]
      BY <1>1, <2>2, <3>2
    <3>. QED  BY <2>2, <3>1, <3>2
  <2>. QED  BY <2>2, <2>4, <2>5 DEF IdsGiven
<1>6. CASE \E n \in posting : Ntc!Insert(n)
  <2>1. PICK n \in posting : Ntc!Insert(n)
    BY <1>6
  <2>2. /\ posting' \subseteq posting /\ UNCHANGED made
        /\ inbox' = inbox \cup {[id |-> n.id, user |-> n.user, event |-> n.event, read |-> FALSE]}
    BY <2>1 DEF Ntc!Insert
  <2>. QED  BY <2>2 DEF IdsGiven
<1>7. CASE \E ids \in {Ntc!Ids(inbox), Ntc!ToSet(pass.shown)} : Ntc!MarkRead(pass.user, ids)
  <2>1. PICK ids : Ntc!MarkRead(pass.user, ids)
    BY <1>7
  <2>2. UNCHANGED <<posting, made>>
    BY <2>1 DEF Ntc!MarkRead
  <2>3. ASSUME NEW n \in inbox' PROVE \E m \in inbox : n.id = m.id
    <3>1. n \in inbox \/ \E m \in inbox : n = [m EXCEPT !.read = TRUE]
      BY <2>1 DEF Ntc!MarkRead
    <3>2. CASE \E m \in inbox : n = [m EXCEPT !.read = TRUE]
      BY <1>1, <3>2 DEF Kept
    <3>. QED  BY <3>1, <3>2
  <2>. QED  BY <2>2, <2>3 DEF IdsGiven
<1>. QED
  <2>1. CASE \E n \in posting : Ntc!Insert(n) \/ Ntc!InsertFails(n)
    BY <2>1, <1>4, <1>6
  <2>. QED  BY <2>1, <1>3, <1>4, <1>5, <1>7 DEF Ntc!Next

LEMMA SuppliersTyped == ASSUME ListsInv, OneList PROVE Sup!TypeOK
<1>1. ListsTyped /\ FirmsOK
  BY DEF ListsInv
<1>2. ASSUME NEW c \in Calls
      PROVE  /\ call[c].stage \in Sup!Stages
             /\ call[c].stage # "idle" => call[c].firm \in Firms
             /\ call[c].stage = "editing" => call[c].seen \in Sup!Entry
  <2>1. call[c] \in CallStates
    BY <1>1 DEF ListsTyped
  <2>. QED
    BY <2>1 DEF CallStates, Creating, Archiving, Adding, Editing, Removing, Sup!Idle, Sup!Stages
<1>. QED  BY <1>1, <1>2 DEF ListsTyped, FirmsOK, OneList, Sup!TypeOK

LEMMA NoticesAreTyped == ASSUME NoticesInv, LostOK, IdsGiven PROVE Ntc!TypeOK
<1>1. NoticesTyped
  BY DEF NoticesInv
<1>2. \A i \in DOMAIN approval.by : approval.by[i] \in Ntc!People
  BY <1>1 DEF NoticesTyped
<1>3. \A t \in telling : t.event \in Ntc!Events /\ t.left \subseteq Ntc!People
  BY <1>1 DEF NoticesTyped, Tellings
<1>4. \A n \in posting \cup inbox : n.id \in 1..made /\ n.user \in Ntc!People /\ n.event \in Ntc!Events
  BY <1>1 DEF NoticesTyped, Made, Kept, IdsGiven
<1>5. pass.stage \in {"none", "reading", "done"}
  BY <1>1 DEF NoticesTyped, Passes, Ntc!NoPass
<1>6. deciding \in [Approvers -> 0..Ntc!Round] /\ taken \in [1..Rounds -> 0..Ntc!Round]
  <2>1. /\ deciding \in [Approvers -> Nat] /\ taken \in [1..Rounds -> Nat]
        /\ Ntc!Round \in Nat /\ Rounds \in Nat
    BY <1>1, RecordsAssumption DEF NoticesTyped, Ntc!Round, Ntc!PagesAssumption
  <2>2. \A p \in Approvers : deciding[p] \in 0..Ntc!Round
    BY <2>1 DEF NoticesInv, DecisionsOK
  <2>3. \A r \in 1..Rounds : taken[r] \in 0..Ntc!Round
    BY <2>1 DEF NoticesInv, DecisionsOK
  <2>. QED  BY <2>1, <2>2, <2>3
<1>. QED
  BY <1>1, <1>2, <1>3, <1>4, <1>5, <1>6 DEF NoticesTyped, OrderStates, LostOK, Ntc!TypeOK

LEMMA DeliveriesTyped == ASSUME DeliveryInv PROVE Del!TypeOK
<1>1. DeliveryTyped
  BY DEF DeliveryInv
<1>2. \A c \in Calls : request[c].stage \in {"idle", "rendering", "sending", "telling_supplier",
                                             "received", "telling_creator"}
  BY <1>1 DEF DeliveryTyped, Request
<1>3. /\ check.stage \in {"none", "scheduling", "queued", "reading", "alerting", "done"}
      /\ check # Del!NoCheck => check.stalled \in 0..Stalls
  BY <1>1 DEF DeliveryTyped, DeliveryCheck, Del!NoCheck
<1>. QED  BY <1>1, <1>2, <1>3 DEF DeliveryTyped, Sending, Del!TypeOK

-----------------------------------------------------------------------------
LEMMA RecordsInitInv == RecordsInit => RecordsInv
BY InitInv, ListsInit, NoticesInit, DeliveryInit, SpendingInit, StockInit,
   LostInit DEF RecordsInit, RecordsInv, Sup!Init, OneList

LEMMA RecordsNextInv == ASSUME RecordsInv, [RecordsNext]_records PROVE RecordsInv'
<1>1. CASE part = "monitor" /\ UNCHANGED part /\ [Next]_vars
  BY <1>1, NextInv DEF RecordsInv
<1>2. CASE part = "suppliers" /\ UNCHANGED part /\ [Sup!Next]_(Sup!vars)
  BY <1>2, ListsNext, OneListNext DEF RecordsInv
<1>3. CASE part = "notices" /\ UNCHANGED part /\ [Ntc!Next]_(Ntc!vars)
  BY <1>3, NoticesNext, LostNext, IdsGivenNext DEF RecordsInv
<1>4. CASE part = "deliveries" /\ UNCHANGED part /\ [Del!Next]_(Del!vars)
  BY <1>4, DeliveryNext DEF RecordsInv
<1>5. CASE part = "spending" /\ UNCHANGED part /\ [Spe!Next]_(Spe!vars)
  BY <1>5, SpendingNext DEF RecordsInv
<1>6. CASE part = "stock" /\ UNCHANGED part /\ [Sto!Next]_(Sto!vars)
  BY <1>6, StockNext DEF RecordsInv
<1>7. CASE UNCHANGED records
  <2>1. UNCHANGED <<part, vars, Sup!vars, Ntc!vars, Del!vars, Spe!vars, Sto!vars>>
    BY <1>7 DEF records, sup, ntc, del, spe, sto,
                Sup!vars, Ntc!vars, Del!vars, Spe!vars, Sto!vars
  <2>. QED  BY <2>1, <1>1, <1>2, <1>3, <1>4, <1>5, <1>6 DEF RecordsInv
<1>. QED  BY <1>1, <1>2, <1>3, <1>4, <1>5, <1>6, <1>7 DEF RecordsNext

(* However the parts run, each keeps its inductive invariant.              *)
THEOREM RecordsInvariant == RecordsSpec => []RecordsInv
BY RecordsInitInv, RecordsNextInv, PTL DEF RecordsSpec

(* However many calls about suppliers overlap, and wherever a removal is   *)
(* cut off: a tax identifier has one supplier, a list that no stray write  *)
(* met holds what was asked for, the limit of contacts is passed by no     *)
(* more than the other calls in progress, and a hole is there only while   *)
(* its removal is under way, after one was cut off, or after a stray write *)
(* (supplier.service.ts, supplier.repository.ts).                          *)
THEOREM SupplierListsAreKept == RecordsSpec => []SupplierListsKept
<1>1. RecordsInv => SupplierListsKept
  BY ListsInvKeeps, SuppliersTyped DEF RecordsInv, SupplierListsKept
<1>. QED  BY <1>1, RecordsInvariant, PTL

(* Whoever submits, decides, edits, sends, receives or cancels, and        *)
(* whatever fails: who an event concerns is told of it once, is about to   *)
(* be, or is lost to a fault, and a decision is told to who submitted what *)
(* was decided, or, when it was on its way while another ended the         *)
(* submission it had read, to who made that earlier one; a pass through    *)
(* the pages shows what was there; the supplier and the creator are told   *)
(* of a delivery once; an overdue delivery is alerted of; and the alerts   *)
(* of low stock are kept (po.service.ts, po.notifications.ts,              *)
(* scheduled.worker.ts, lowStock.automation.ts).                           *)
THEOREM EverybodyIsTold == RecordsSpec => []EverybodyTold
<1>1. RecordsInv => EverybodyTold
  <2>1. InductiveInv => TypeOK /\ AlertsKept
    BY AlertsFollow DEF InductiveInv
  <2>2. NoticesInv /\ LostOK /\ IdsGiven => Ntc!TypeOK /\ Ntc!ToldOfTheirOrders /\ Ntc!PassComplete
    BY NoticesInvKeeps, NoticesAreTyped
  <2>3. DeliveryInv => /\ Del!TypeOK /\ Del!SupplierToldOnce /\ Del!CreatorToldOnce
                       /\ Del!OverdueAlerted
    BY DeliveryInvKeeps, DeliveriesTyped
  <2>. QED  BY <2>1, <2>2, <2>3 DEF RecordsInv, EverybodyTold
<1>. QED  BY <1>1, RecordsInvariant, PTL

(* Whatever is ordered, from however many suppliers and over however many  *)
(* months of any length: the pipelines agree on the spend, an order is     *)
(* counted in one month; each projection counts a payment to come once,    *)
(* and up to the midnight their horizons share they have the same          *)
(* payments, but for orders that are approved or late; a saving is         *)
(* reported only where prices or currencies differ, and a score follows    *)
(* from the dates and the average prices (po.aggregations.ts,              *)
(* rpt.aggregations.ts, supplier.aggregations.ts).                         *)
THEOREM SpendingIsReported == RecordsSpec => []SpendingReported
<1>1. RecordsInv => SpendingReported
  BY SpendAgreeing, CashFlowing, SavingsHold, ScoresHold DEF RecordsInv, SpendingReported
<1>. QED  BY <1>1, RecordsInvariant, PTL

(* Whatever the limits and the percentage of the warning: the status of a  *)
(* month's budget gets better only when the budget is set or an order is   *)
(* cancelled (rpt.service.ts, budgets; po.aggregations.ts).                *)
THEOREM BudgetsOnlyWorsen == RecordsSpec => BudgetOnlyWorsens
<1>1. RecordsInv /\ [RecordsNext]_records => [part = "spending" => Spe!BudgetStep]_records
  <2> SUFFICES ASSUME RecordsInv, RecordsNext, part = "spending" PROVE Spe!BudgetStep
    OBVIOUS
  <2>1. Spe!TypeOK /\ Spe!Next
    BY DEF RecordsInv, RecordsNext
  <2>. QED  BY <2>1, BudgetFollows
<1>. QED  BY <1>1, RecordsInvariant, PTL DEF RecordsSpec, BudgetOnlyWorsens

(* Whatever moves, in however many places, over however many days, and     *)
(* whichever writes are cut off: the demand that a forecast starts from is *)
(* what production took, no quantity but perhaps a neighbour costs less    *)
(* than the one advised, turnover and dead stock count the same issues,    *)
(* the ABC classes follow the value, the weekly report closes on the       *)
(* stock, and the reconciliation finds, of the balances that were cut off, *)
(* those that a later movement has given a row, and nothing else           *)
(* (dataPreparation.ts, rpt.service.ts, rpt.aggregations.ts,               *)
(* inventory.aggregations.ts).                                             *)
THEOREM StockIsReported == RecordsSpec => []StockReported
<1>1. RecordsInv => StockReported
  BY DemandHolds, OrdersHold, AgreementHolds, ClassesHold, EquationHolds, DriftHolds
     DEF RecordsInv, LedgerInv, StockReported
<1>. QED  BY <1>1, RecordsInvariant, PTL
=============================================================================

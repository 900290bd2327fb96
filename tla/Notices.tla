------------------------------- MODULE Notices ------------------------------
(***************************************************************************)
(* Who is told of what happens to a purchase order (po.notifications.ts)   *)
(* and how a user reads the feed of notices (notification.repository.ts,   *)
(* pagination.ts).  The services do not wait for the telling: it goes on   *)
(* while the order moves on, one recipient after another, and the writing  *)
(* of a notice is not waited for either.  A notice gets its identifier     *)
(* when it is made, before it is inserted, and pages of the feed are cut   *)
(* by identifier.                                                          *)
(***************************************************************************)
EXTENDS Naturals, SequencesExt, FiniteSets

CONSTANTS
    Approvers,  \* owners and managers
    Others,     \* other people who submit orders
    Rounds,     \* bound of the model: times the order is submitted
    Limit,      \* rows of a page
    MaxFaults   \* bound of the model: writes that fail, and deaths

PagesAssumption == Rounds \in Nat /\ Limit \in Nat \ {0} /\ MaxFaults \in Nat

People == Approvers \cup Others

VARIABLES
    order,      \* the state of the order and who submitted it each time
    deciding,   \* the submission each approver is about to decide on, 0 if none
    active,     \* the people whose accounts are active
    telling,    \* the calls that tell of an event, while they run
    posting,    \* the notices that were made and are not inserted yet
    feed,       \* the notices in the collection
    mails,      \* the mails put on the queue: <<person, event>>
    made,       \* notices made so far: the next identifier
    pass,       \* a user's pass through the pages of the feed
    taken,      \* history: on which submission each one's decision was taken
    due,        \* history: who was to be told of which event
    lost,       \* history: who was not told, or not mailed, and of what
    faults,     \* bound of the model
    focus       \* bound of the model: faults and disabled accounts, readers, or
                \* approvers who decide at once

vars == <<order, deciding, active, telling, posting, feed, mails, made, pass, taken, due,
          lost, faults, focus>>

Events == {"submitted", "approved", "rejected"} \X (1..Rounds)
NoPass == [stage |-> "none"]

Init ==
    /\ order = [state |-> "draft", by |-> <<>>]
    /\ deciding = [p \in Approvers |-> 0] /\ taken = [r \in 1..Rounds |-> 0]
    /\ active = People
    /\ telling = {}
    /\ posting = {} /\ feed = {} /\ mails = {}
    /\ made = 0
    /\ pass = NoPass
    /\ due = {} /\ lost = {}
    /\ faults = 0
    /\ focus \in {"faults", "readers", "approvers"}

Round == Len(order.by)
decisions == <<deciding, taken>>
reader == <<feed, pass, focus>>
notices == <<posting, feed, mails, made, pass, due, lost, faults, focus>>

(* A call has its own copy of the order, as it was updated. *)
Tell(event, by) ==
    telling' = telling \cup {[event |-> event, by |-> by, stage |-> "begun", left |-> {}]}

(* What is written does not depend on what was read, so that both are one  *)
(* step here.                                                              *)
Submit(p) ==
    /\ order.state = "draft" /\ Round < Rounds /\ p \in active
    /\ order' = [state |-> "pending_approval", by |-> Append(order.by, p)]
    /\ Tell(<<"submitted", Round + 1>>, p)
    /\ UNCHANGED <<active, decisions, notices>>

(* approve and reject read the order, with the submission that waits.  A   *)
(* bound of the model: an approver decides once at a time.                 *)
ReadToDecide(p) ==
    /\ order.state = "pending_approval" /\ p \in Approvers \cap active
    /\ deciding[p] = 0 /\ (focus # "approvers" => \A q \in Approvers : deciding[q] = 0)
    /\ deciding' = [deciding EXCEPT ![p] = Round]
    /\ UNCHANGED <<order, active, telling, taken, notices>>

(* transitionState compares the state alone; the approval block it writes, *)
(* and with it whom to tell, is that of the order that was read.           *)
Decide(p, decision) ==
    /\ deciding[p] # 0
    /\ deciding' = [deciding EXCEPT ![p] = 0]
    /\ IF order.state = "pending_approval"
       THEN /\ order' = [order EXCEPT !.state = decision]
            /\ taken' = [taken EXCEPT ![Round] = deciding[p]]
            /\ Tell(<<decision, Round>>, order.by[deciding[p]])
       ELSE UNCHANGED <<order, taken, telling>>
    /\ UNCHANGED <<active, notices>>

(* A rejected order is edited back into a draft. *)
Edit ==
    /\ order.state = "rejected"
    /\ order' = [order EXCEPT !.state = "draft"]
    /\ UNCHANGED <<active, telling, decisions, notices>>

(* The last owner stays (module Accounts). *)
Disable(p) ==
    /\ focus = "faults"
    /\ p \in active /\ active # {p}
    /\ active' = active \ {p}
    /\ UNCHANGED <<order, telling, decisions, notices>>

(***************************************************************************)
(* Telling.                                                                *)
(***************************************************************************)
(* The active owners and managers but the submitter are told of an order   *)
(* that waits for them, the submitter of what became of it.                *)
Recipients(event, by) ==
    IF event[1] = "submitted" THEN (Approvers \cap active) \ {by} ELSE {by}

(* Who ought to be told, from what happened to the order: of a decision    *)
(* whoever made the submission it was taken on.                            *)
Concerned(event) ==
    {p \in People : IF event[1] = "submitted" THEN p \in Approvers \cap active /\ p # order.by[event[2]]
                    ELSE p = order.by[taken[event[2]]]}

(* The people are read when the call gets to it. *)
ReadRecipients(t) ==
    /\ t.stage = "begun"
    /\ telling' = (telling \ {t}) \cup
         {u \in {[t EXCEPT !.stage = "telling", !.left = Recipients(t.event, t.by)]} : u.left # {}}
    /\ due' = due \cup (Concerned(t.event) \X {t.event})
    /\ UNCHANGED <<order, decisions, active, posting, mails, made, reader, lost, faults>>

Fault == focus = "faults" /\ faults < MaxFaults /\ faults' = faults + 1

(* The notice is made, its insertion goes on by itself; then the mail is   *)
(* put on the queue, and when that fails the rest of the people is left.   *)
TellOne(t, p, queued) ==
    /\ p \in t.left
    /\ posting' = posting \cup {[id |-> made + 1, user |-> p, event |-> t.event]}
    /\ made' = made + 1
    /\ IF queued
       THEN /\ mails' = mails \cup {<<p, t.event>>}
            /\ telling' = (telling \ {t}) \cup
                 {u \in {[t EXCEPT !.left = @ \ {p}]} : u.left # {}}
            /\ UNCHANGED <<lost, faults>>
       ELSE /\ Fault
            /\ telling' = telling \ {t}
            /\ lost' = lost \cup (t.left \X {t.event})
            /\ UNCHANGED mails
    /\ UNCHANGED <<order, decisions, active, reader, due>>

Insert(n) ==
    /\ posting' = posting \ {n}
    /\ feed' = feed \cup {[id |-> n.id, user |-> n.user, event |-> n.event, read |-> FALSE]}
    /\ UNCHANGED <<order, decisions, active, telling, mails, made, pass, due, lost, faults, focus>>

(* createNotification: a failure is only logged. *)
InsertFails(n) ==
    /\ Fault
    /\ posting' = posting \ {n}
    /\ lost' = lost \cup {<<n.user, n.event>>}
    /\ UNCHANGED <<order, decisions, active, telling, mails, made, reader, due>>

(* The process dies, and what it was telling with it. *)
Die ==
    /\ telling \cup posting # {}
    /\ Fault
    /\ lost' = lost \cup {<<n.user, n.event>> : n \in posting}
                    \cup UNION {t.left \X {t.event} : t \in telling}
    /\ telling' = {} /\ posting' = {}
    /\ UNCHANGED <<order, decisions, active, mails, made, reader, due>>

(***************************************************************************)
(* The feed of a user.                                                     *)
(***************************************************************************)
Matches(n, user, unreadOnly) == n.user = user /\ (unreadOnly => ~n.read)
Ids(set) == {n.id : n \in set}

BeginPass(p, unreadOnly) ==
    /\ focus = "readers" /\ pass = NoPass /\ \E n \in feed : n.user = p
    /\ pass' = [stage |-> "reading", user |-> p, unreadOnly |-> unreadOnly, after |-> 0,
                shown |-> <<>>, begun |-> Ids({n \in feed : Matches(n, p, unreadOnly)})]
    /\ UNCHANGED <<order, decisions, active, telling, posting, feed, mails, made, due, lost, faults, focus>>

(* Identifiers in ascending order: the i-th has i-1 of them below it. *)
Ascending(ids) ==
    [i \in 1..Cardinality(ids) |-> CHOOSE n \in ids : Cardinality({m \in ids : m < n}) = i - 1]

(* list: one row more than a page holds, in the order of identifiers. *)
Rows ==
    LET all == Ascending(Ids({n \in feed : /\ Matches(n, pass.user, pass.unreadOnly)
                                           /\ n.id > pass.after})) IN
    SubSeq(all, 1, IF Len(all) > Limit THEN Limit + 1 ELSE Len(all))

(* paginate: the row too many tells that there is another page. *)
Paginate(rows) ==
    LET more == Len(rows) > Limit
        slice == SubSeq(rows, 1, IF more THEN Limit ELSE Len(rows)) IN
    [rows |-> slice, more |-> more, next |-> IF more THEN Last(slice) ELSE 0]

List ==
    /\ pass.stage = "reading"
    /\ LET page == Paginate(Rows) IN
       pass' = [pass EXCEPT !.shown = @ \o page.rows, !.after = page.next,
                            !.stage = IF page.more THEN "reading" ELSE "done"]
    /\ UNCHANGED <<order, decisions, active, telling, posting, feed, mails, made, due, lost, faults, focus>>

(* markRead with some ids, markAllRead with all: what is read leaves a     *)
(* pass through the unread notices.  A bound of the model: a user marks    *)
(* what he was shown, or all, while he reads.                              *)
MarkRead(p, ids) ==
    LET marked == {n \in feed : n.user = p /\ n.id \in ids /\ ~n.read} IN
    /\ marked # {}
    /\ feed' = (feed \ marked) \cup {[n EXCEPT !.read = TRUE] : n \in marked}
    /\ pass' = IF pass.stage = "reading" /\ pass.unreadOnly
               THEN [pass EXCEPT !.begun = @ \ Ids(marked)] ELSE pass
    /\ UNCHANGED <<order, decisions, active, telling, posting, mails, made, due, lost, faults, focus>>

(* A bound of the model: nothing more happens once a pass is done. *)
Going == pass.stage # "done"

Next ==
    \/ Going /\ \E p \in People : Submit(p) \/ Disable(p)
    \/ Going /\ \E p \in Approvers : ReadToDecide(p)
    \/ Going /\ \E p \in Approvers, decision \in {"approved", "rejected"} : Decide(p, decision)
    \/ Going /\ Edit
    \/ Going /\ \E t \in telling : ReadRecipients(t)
    \/ Going /\ \E t \in telling, p \in People, queued \in BOOLEAN : TellOne(t, p, queued)
    \/ Going /\ \E n \in posting : Insert(n) \/ InsertFails(n)
    \/ Die
    \/ \E p \in People, unreadOnly \in BOOLEAN : BeginPass(p, unreadOnly)
    \/ List
    \/ pass.stage = "reading" /\ \E ids \in {Ids(feed), ToSet(pass.shown)} : MarkRead(pass.user, ids)

Spec == Init /\ [][Next]_vars

(***************************************************************************)
(* Properties.                                                             *)
(***************************************************************************)
TypeOK ==
    /\ order.state \in {"draft", "pending_approval", "approved", "rejected"}
    /\ Round <= Rounds /\ \A i \in DOMAIN order.by : order.by[i] \in People
    /\ deciding \in [Approvers -> 0..Round] /\ taken \in [1..Rounds -> 0..Round]
    /\ active \subseteq People
    /\ \A t \in telling : t.event \in Events /\ t.left \subseteq People
    /\ \A n \in posting \cup feed : n.id \in 1..made /\ n.user \in People /\ n.event \in Events
    /\ mails \subseteq People \X Events /\ due \cup lost \subseteq People \X Events
    /\ pass.stage \in {"none", "reading", "done"}
    /\ faults \in 0..MaxFaults

Told == {<<n.user, n.event>> : n \in posting \cup feed}

(* Whoever was concerned by an event, as it stood when the call that tells *)
(* of it read the people, is told of it and mailed, or the call is still   *)
(* busy, or a fault struck it; nobody else is told, and nobody twice,      *)
(* though the order is decided, edited and submitted again by somebody     *)
(* else meanwhile, and accounts are disabled.  A decision is told to who   *)
(* submitted what was decided, but for one that was on its way while       *)
(* another ended the submission it had read: it falls on a later           *)
(* submission, and is told to who made the earlier.                        *)
ToldOfTheirOrders ==
    /\ \A d \in due :
         \/ d \in Told \cap mails
         \/ d \in lost
         \/ \E t \in telling : t.event = d[2] /\ d[1] \in t.left
    /\ Told \cup mails \subseteq due
    /\ Cardinality(Told) = Cardinality(posting \cup feed)
    /\ \A d \in due :
         LET r == d[2][2] IN
         d[2][1] # "submitted" =>
           \/ d[1] = order.by[r]
           \/ /\ taken[r] \in 1..(r - 1) /\ taken[taken[r]] # 0
              /\ d[1] = order.by[taken[r]]

(* A pass through the pages shows every notice that was in the feed when   *)
(* it began, unless it was read meanwhile and only the unread are shown,   *)
(* and none twice; a notice inserted behind the cursor waits for the next  *)
(* pass, also one that was made before the last one shown.                 *)
PassComplete ==
    pass # NoPass =>
      /\ \A i, j \in DOMAIN pass.shown : i < j => pass.shown[i] < pass.shown[j]
      /\ pass.stage = "done" => pass.begun \subseteq ToSet(pass.shown)
=============================================================================

---------------------------- MODULE WeeklyReport ----------------------------
(***************************************************************************)
(* The weekly report of one tenant (reportGenerator.ts, report.worker.ts): *)
(* a job of the report queue gathers figures, has a language model write   *)
(* about them, keeps the text, counts the usage, stores a PDF and mails    *)
(* the owner.  A job that fails is run again from the start, and so is one *)
(* whose worker died: nothing that an earlier run of it wrote is looked    *)
(* for.                                                                    *)
(***************************************************************************)
EXTENDS Naturals, FiniteSets

CONSTANTS
    Jobs,       \* reports that were asked for
    Quota,      \* reports a tenant may have written in a month
    Attempts,   \* runs that may fail before the queue gives a job up
    Stalls      \* bound of the model: workers that die

JobsAssumption ==
    /\ IsFiniteSet(Jobs) /\ Jobs # {}
    /\ Quota \in Nat /\ Attempts \in Nat \ {0} /\ Stalls \in Nat

VARIABLES
    job,        \* the jobs
    artifact,   \* the status of the stored report of each run
    object,     \* the runs whose PDF is in the object store
    insight,    \* the texts kept
    used,       \* the reports counted in this month
    mailed,     \* the mails sent for each job
    cut         \* history: the runs that ended early, by where they ended

vars == <<job, artifact, object, insight, used, mailed, cut>>

AllRuns == Jobs \X (1..(Attempts + Stalls))

(* What a run does next; before and after it a job is in the queue. *)
Running == {"asking", "counting", "rendering", "uploading", "settling",
            "giving_up", "caught", "mailing", "ending"}
Outside == {"none", "waiting", "done", "failed"}

(* Between two writes that belong together: the text and its count, the    *)
(* document and its outcome.                                               *)
Phase == [text |-> {"counting"}, pdf |-> {"uploading", "settling", "giving_up", "caught"}]
Phases == DOMAIN Phase

Init ==
    /\ job = [j \in Jobs |-> [stage |-> "none", failed |-> 0, stalled |-> 0]]
    /\ artifact = [r \in AllRuns |-> "none"]
    /\ object = {}
    /\ insight = {}
    /\ used = 0
    /\ mailed = [j \in Jobs |-> 0]
    /\ cut = [phase \in Phases |-> {}]

At(j, stage) == job[j].stage = stage
Run(j) == <<j, 1 + job[j].failed + job[j].stalled>>
Go(j, stage) == job' = [job EXCEPT ![j].stage = stage]

(* POST /weekly-digest *)
Enqueue(j) ==
    /\ At(j, "none")
    /\ Go(j, "waiting")
    /\ UNCHANGED <<artifact, object, insight, used, mailed, cut>>

(* The run throws: the queue tries the job again, until it gives it up. *)
Throw(j) ==
    job' = [job EXCEPT ![j].failed = @ + 1,
                       ![j].stage = IF job[j].failed + 1 < Attempts THEN "waiting" ELSE "failed"]

Early(j) ==
    cut' = [phase \in Phases |->
              IF job[j].stage \in Phase[phase] THEN cut[phase] \cup {Run(j)} ELSE cut[phase]]

(* The gates: an author whose plan has reports, and room in the quota. *)
Begin(j, entitled) ==
    /\ At(j, "waiting")
    /\ IF entitled /\ used < Quota THEN Go(j, "asking") ELSE Throw(j)
    /\ UNCHANGED <<artifact, object, insight, used, mailed, cut>>

(* The model has answered; AiInsight.create *)
Record(j) ==
    /\ At(j, "asking")
    /\ insight' = insight \cup {Run(j)}
    /\ Go(j, "counting")
    /\ UNCHANGED <<artifact, object, used, mailed, cut>>

Count(j) ==
    /\ At(j, "counting")
    /\ used' = used + 1
    /\ Go(j, "rendering")
    /\ UNCHANGED <<artifact, object, insight, mailed, cut>>

(* The PDF is rendered, or it cannot be; either way a document says so. *)
Render(j, rendered) ==
    /\ At(j, "rendering")
    /\ artifact' = [artifact EXCEPT ![Run(j)] = IF rendered THEN "rendering" ELSE "failed"]
    /\ Go(j, IF rendered THEN "uploading" ELSE "mailing")
    /\ UNCHANGED <<object, insight, used, mailed, cut>>

(* What uploadObject may come to; one that threw may have stored the PDF   *)
(* before it did.                                                          *)
Outcomes == {"stored", "unset", "threw", "stored_and_threw"}
Threw == {"threw", "stored_and_threw"}
Stored(j, outcome) ==
    IF outcome \in {"stored", "stored_and_threw"} THEN object \cup {Run(j)} ELSE object

(* Mutant: an object store that is not configured counts as stored. *)
UploadAnyway(j, outcome) ==
    /\ At(j, "uploading")
    /\ object' = Stored(j, outcome)
    /\ Go(j, IF outcome \in Threw THEN "caught" ELSE "settling")
    /\ UNCHANGED <<artifact, insight, used, mailed, cut>>

(* uploadObject stores the PDF, has no store to put it in, or throws. *)
Upload(j, outcome) ==
    /\ At(j, "uploading")
    /\ object' = Stored(j, outcome)
    /\ Go(j, IF outcome \in Threw THEN "caught"
             ELSE IF outcome = "stored" THEN "settling" ELSE "giving_up")
    /\ UNCHANGED <<artifact, insight, used, mailed, cut>>

(* The outcome is written; when that throws it is caught, and a failure is *)
(* written instead, which may throw again.                                 *)
Settle(j) ==
    /\ job[j].stage \in {"settling", "giving_up", "caught"}
    /\ artifact' = [artifact EXCEPT ![Run(j)] =
         IF At(j, "settling") THEN "ready" ELSE "failed"]
    /\ Go(j, "mailing")
    /\ UNCHANGED <<object, insight, used, mailed, cut>>

Catch(j) ==
    /\ job[j].stage \in {"settling", "giving_up"}
    /\ Go(j, "caught")
    /\ UNCHANGED <<artifact, object, insight, used, mailed, cut>>

(* A mail that is not delivered is logged, and the run goes on. *)
Mail(j, delivered) ==
    /\ At(j, "mailing")
    /\ mailed' = IF delivered THEN [mailed EXCEPT ![j] = @ + 1] ELSE mailed
    /\ Go(j, "ending")
    /\ UNCHANGED <<artifact, object, insight, used, cut>>

End(j) ==
    /\ At(j, "ending")
    /\ Go(j, "done")
    /\ UNCHANGED <<artifact, object, insight, used, mailed, cut>>

(* The steps that await something whose failure nothing catches. *)
MayThrow == Running \ {"settling", "giving_up", "ending"}

Fail(j) ==
    /\ job[j].stage \in MayThrow
    /\ Throw(j) /\ Early(j)
    /\ UNCHANGED <<artifact, object, insight, used, mailed>>

Died == Cardinality({d \in Jobs \X (1..Stalls) : d[2] <= job[d[1]].stalled})

(* The worker dies; the queue notices and has the job run again, or not. *)
Die(j) ==
    /\ job[j].stage \in Running /\ Died < Stalls
    /\ job' = [job EXCEPT ![j].stalled = @ + 1, ![j].stage = "waiting"]
    /\ Early(j)
    /\ UNCHANGED <<artifact, object, insight, used, mailed>>

Next ==
    \/ \E j \in Jobs :
         \/ \E entitled \in BOOLEAN : Begin(j, entitled)
         \/ Enqueue(j) \/ Record(j) \/ Count(j)
         \/ \E rendered \in BOOLEAN : Render(j, rendered)
         \/ \E outcome \in Outcomes : Upload(j, outcome)
         \/ Settle(j) \/ Catch(j)
         \/ \E delivered \in BOOLEAN : Mail(j, delivered)
         \/ End(j) \/ Fail(j) \/ Die(j)

Spec == Init /\ [][Next]_vars

(***************************************************************************)
(* Properties.                                                             *)
(***************************************************************************)
TypeOK ==
    /\ job \in [Jobs -> [stage: Running \cup Outside, failed: 0..Attempts, stalled: 0..Stalls]]
    /\ \A j \in Jobs : job[j].stage \in Running => Run(j) \in AllRuns
    /\ artifact \in [AllRuns -> {"none", "rendering", "ready", "failed"}]
    /\ object \subseteq AllRuns /\ insight \subseteq AllRuns
    /\ used \in Nat
    /\ mailed \in [Jobs -> Nat]
    /\ cut \in [Phases -> SUBSET AllRuns]

(* A report that is offered for download is in the object store, and one   *)
(* that seems to be rendering for ever is the mark of a run that was cut   *)
(* off between its document and its outcome: one that goes on leaves its   *)
(* document ready or failed.                                               *)
ArtifactsTold ==
    \A r \in AllRuns :
      /\ artifact[r] = "ready" => r \in object
      /\ artifact[r] = "rendering" =>
           r \in cut["pdf"] \/ (r = Run(r[1]) /\ job[r[1]].stage \in Phase["pdf"])
      /\ r = Run(r[1]) /\ job[r[1]].stage \in {"mailing", "ending", "done"} =>
           artifact[r] \in {"ready", "failed"}

(* Two writes, nothing that ties them: every text that was kept is counted *)
(* in the usage, except those of runs cut off between the two, and the     *)
(* quota is exceeded by no more than the other reports then being written. *)
TextsCounted ==
    /\ Cardinality(insight)
         = used + Cardinality({j \in Jobs : At(j, "counting")}) + Cardinality(cut["text"])
    /\ used <= Quota + Cardinality(Jobs) - 1

(* The owner gets a report twice only if a worker died after the mail was  *)
(* sent: no failure sends a job that has mailed back to the queue.         *)
MailedAgainOnlyAfterDeath ==
    \A j \in Jobs :
      /\ mailed[j] <= 1 + job[j].stalled
      /\ mailed[j] > 0 /\ job[j].stage \notin {"ending", "done"} => job[j].stalled > 0
=============================================================================

------------------------------ MODULE Forecasts -----------------------------
(***************************************************************************)
(* The calls for forecasts, what becomes of the numbers of one, and the    *)
(* weekly report that is written with them.  The three share no state and  *)
(* are checked in one run: a behaviour is one of one part; the variables   *)
(* of the numbers and of the report are off in those of the others, and    *)
(* the calls stay as they began.                                           *)
(***************************************************************************)
EXTENDS Forecast

CONSTANTS
    Histories, Patterns, Answers, Reviewers, Uses, Overrides, Span, MaxTime,  \* see ForecastNumbers
    Jobs, Quota, Attempts, Stalls                                             \* see WeeklyReport

VARIABLES
    part,       \* "calls", "numbers" or "report"
    past, forecast, use, review, now, late,
    report, artifact, object, insight, written, mailed, reportCut

Num == INSTANCE ForecastNumbers WITH Clients <- Reviewers, history <- past
Rep == INSTANCE WeeklyReport WITH job <- report, used <- written, cut <- reportCut

ASSUME AnswersAssumption == Num!InputsAssumption /\ Rep!JobsAssumption

NumOff == /\ past = "off" /\ forecast = "off" /\ use = "off" /\ review = "off"
          /\ now = "off" /\ late = "off"
RepOff == /\ report = "off" /\ artifact = "off" /\ object = "off" /\ insight = "off"
          /\ written = "off" /\ mailed = "off" /\ reportCut = "off"

num == <<past, forecast, use, review, now, late>>
rep == <<report, artifact, object, insight, written, mailed, reportCut>>
forecasts == <<part, vars, num, rep>>

ForecastsInit ==
    /\ Init
    /\ \/ part = "calls" /\ NumOff /\ RepOff
       \/ part = "numbers" /\ Num!Init /\ RepOff
       \/ part = "report" /\ Rep!Init /\ NumOff

ForecastsNext ==
    \/ part = "calls" /\ Next /\ UNCHANGED <<part, num, rep>>
    \/ part = "numbers" /\ Num!Next /\ UNCHANGED <<part, vars, rep>>
    \/ part = "report" /\ Rep!Next /\ UNCHANGED <<part, vars, num>>

ForecastsSpec == ForecastsInit /\ [][ForecastsNext]_forecasts

(* Forecast numbers: every answer becomes a consistent response, a recorded *)
(* actual holds every use of its horizon, and the models it is compared    *)
(* with stay within the history (forecastPipeline.ts, ai.service.ts).      *)
ForecastsConsistent ==
    part = "numbers" =>
      /\ Num!TypeOK
      /\ Num!ResponseConsistent
      /\ Num!ActualsComplete
      /\ Num!ModelsWithinHistory

(* Forecast numbers: what a model is told of a series is true of it        *)
(* (dataPreparation.ts).                                                   *)
FeaturesTold == part = "numbers" => Num!FeaturesTrue

(* Weekly report: what is offered is stored and every run has an outcome,  *)
(* the texts kept are counted, and the owner is mailed again only after a  *)
(* worker's death (report.worker.ts, reportGenerator.ts).                  *)
ReportsAccounted ==
    part = "report" =>
      /\ Rep!TypeOK
      /\ Rep!ArtifactsTold
      /\ Rep!TextsCounted
      /\ Rep!MailedAgainOnlyAfterDeath
=============================================================================

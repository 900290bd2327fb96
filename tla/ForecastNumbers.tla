--------------------------- MODULE ForecastNumbers --------------------------
(***************************************************************************)
(* The numbers of one forecast: what is made of the answer of a language   *)
(* model (forecastValidator.ts), the figure stored for the horizon that    *)
(* was asked for, and, once that horizon is over, the comparison with what *)
(* was consumed (ai.service.ts).  Clients that open the forecast after its *)
(* end record what was consumed; the consumption of a transaction bears    *)
(* the time at which it was written, and is seen when it commits.          *)
(***************************************************************************)
EXTENDS Sums, Sequences, FiniteSetsExt

Seqs == INSTANCE SequencesExt

CONSTANTS
    Histories,  \* daily consumption that a forecast may rest on
    Patterns,   \* further series that features are computed of
    Answers,    \* answers of a model
    Clients,    \* requests that may review the forecast at once
    Uses,       \* transactions that consume a unit each
    Overrides,  \* quantities a manager may set
    Span,       \* instants that the horizon lasts
    MaxTime     \* bound of the model: the clock

InputsAssumption ==
    /\ Histories \cup Patterns \subseteq Seq(Nat) \ {<<>>}
    /\ Answers \subseteq [quantity: [1..3 -> Int], range: [1..3 -> [lower: Int, upper: Int]],
                          typed: BOOLEAN, complete: BOOLEAN, reorder: {"missing", "null", "given"}]
    /\ IsFiniteSet(Uses) /\ Overrides \subseteq Nat /\ Span \in Nat /\ MaxTime \in Nat

VARIABLES
    history,    \* the daily series the forecast is made from
    forecast,   \* the answer as repaired, then the stored forecast
    use,        \* the transactions: when they wrote, whether they committed
    review,     \* what a client that opened the forecast has read
    now,        \* the clock
    late        \* history: a use of the horizon committed after its end

vars == <<history, forecast, use, review, now, late>>

Horizons == <<30, 60, 90>>
Terms == {7, 14, 30, 60, 90}
Missing == -100     \* a field that is not in an answer

AtLeast(x, y) == IF x < y THEN y ELSE x
AtMost(x, y) == IF x < y THEN x ELSE y

(* Math.round of a quotient that is not negative. *)
Rounded(x, y) == (2 * x + y) \div (2 * y)

Total(series) == Sum(series)

(***************************************************************************)
(* The validator.  quantity and range hold a figure for every horizon;     *)
(* typed: every field has its type; complete: nothing else is missing.     *)
(***************************************************************************)
(* deterministicBaseline: the mean, carried on.  The range is half as wide *)
(* again where consumption varies a lot: its variance is over half its     *)
(* mean squared.                                                           *)
Baseline(series) ==
    LET n == Len(series)
        quantity == [h \in 1..3 |-> Rounded(Total(series) * Horizons[h], n)]
        spread == Sum([i \in 1..n |-> series[i] * series[i]]) * n
                    - Total(series) * Total(series)
        widen == IF 4 * spread > Total(series) * Total(series) THEN 2 ELSE 1 IN
    [quantity |-> quantity,
     range |-> [h \in 1..3 |-> [lower |-> Rounded(quantity[h] * (4 - widen), 4),
                                upper |-> Rounded(quantity[h] * (4 + widen), 4)]],
     reorder |-> IF Total(series) = 0 THEN "none" ELSE "baseline"]

IsStrict(a) ==
    /\ a.typed /\ a.complete /\ a.reorder # "missing"
    /\ \A h \in 1..3 : /\ Missing \notin {a.quantity[h], a.range[h].lower, a.range[h].upper}
                       /\ AtLeast(a.range[h].lower, 0) <= AtLeast(a.range[h].upper, 0)

IsLenient(a) == a.typed /\ \E h \in 1..3 : a.quantity[h] # Missing

Or(x, y) == IF x = Missing THEN y ELSE AtLeast(x, 0)

(* repairFromLenient: the baseline fills the gaps, a range that is upside  *)
(* down is turned round.                                                   *)
Repaired(a, series) ==
    LET b == Baseline(series)
        lower(h) == Or(a.range[h].lower, b.range[h].lower)
        upper(h) == Or(a.range[h].upper, b.range[h].upper) IN
    [quantity |-> [h \in 1..3 |-> Or(a.quantity[h], b.quantity[h])],
     range |-> [h \in 1..3 |-> [lower |-> AtMost(lower(h), upper(h)),
                                upper |-> AtLeast(lower(h), upper(h))]],
     reorder |-> IF a.reorder = "given" THEN "given" ELSE b.reorder]

(* enforceMonotonicHorizons: a longer horizon never needs less, and every  *)
(* quantity lies in its range.                                             *)
Monotonic(r) ==
    LET q1 == r.quantity[1]
        q2 == AtLeast(r.quantity[2], q1)
        q3 == AtLeast(r.quantity[3], q2)
        q == <<q1, q2, q3>> IN
    [r EXCEPT !.quantity = q,
              !.range = [h \in 1..3 |-> [lower |-> AtMost(r.range[h].lower, q[h]),
                                         upper |-> AtLeast(r.range[h].upper, q[h])]]]

(* enrichDerivedFields *)
Enriched(r, series) ==
    IF r.reorder = "null" THEN [r EXCEPT !.reorder = Baseline(series).reorder] ELSE r

Strict(a) ==
    [quantity |-> [h \in 1..3 |-> AtLeast(a.quantity[h], 0)],
     range |-> [h \in 1..3 |-> [lower |-> AtLeast(a.range[h].lower, 0),
                                upper |-> AtLeast(a.range[h].upper, 0)]],
     reorder |-> a.reorder]

(* coerceForecast *)
Coerced(a, series) ==
    IF IsStrict(a) THEN Enriched(Monotonic(Strict(a)), series)
    ELSE IF IsLenient(a) THEN Enriched(Monotonic(Repaired(a, series)), series)
    ELSE Baseline(series)

(* pickHorizon: a horizon below thirty days is its share of that one. *)
Picked(r, term) ==
    LET h == IF term <= 30 THEN 1 ELSE IF term <= 60 THEN 2 ELSE 3
        scaled(x) == IF term < 30 THEN Rounded(x * term, 30) ELSE x IN
    [quantity |-> scaled(r.quantity[h]),
     range |-> [lower |-> scaled(r.range[h].lower), upper |-> scaled(r.range[h].upper)]]

(***************************************************************************)
(* The models a forecast is compared with.                                 *)
(***************************************************************************)
MovingAverage(series, days) ==
    LET first == AtLeast(Len(series) - 6, 1)
        last == first..Len(series) IN
    Rounded(Sum([i \in last |-> series[i]]) * days, Cardinality(last))

(* Exponential smoothing with alpha 1/2; the level is scaled, so that every *)
(* halving is exact.                                                        *)
Smoothing(series, days) ==
    LET scale == 2 ^ Len(series)
        level[i \in 1..Len(series)] ==
          IF i = 1 THEN scale * series[1] ELSE (scale * series[i] + level[i - 1]) \div 2 IN
    Rounded(level[Len(series)] * days, scale)

(* buildForecastDailySeries: both models, as the chart of the forecast shows *)
(* them day by day; an average is a sum over a number of days.               *)
Chart(series) ==
    LET level[i \in DOMAIN series] ==
          IF i = 1 THEN 2 ^ Len(series) * series[1]
          ELSE (2 ^ Len(series) * series[i] + level[i - 1]) \div 2 IN
    [i \in DOMAIN series |->
       LET first == AtLeast(i - 6, 1) IN
       [sum |-> Sum([k \in first..i |-> series[k]]), days |-> i - first + 1,
        level |-> level[i]]]

Distance(x, y) == IF x < y THEN y - x ELSE x - y

(* Percent of the actual quantity. *)
Mape(predicted, actual) ==
    IF actual = 0 THEN IF predicted = 0 THEN 0 ELSE 100
    ELSE Rounded(Distance(actual, predicted) * 100, actual)

(* The rows of buildForecastModelComparison; an override stands for the    *)
(* forecast.                                                               *)
Models == <<"ai", "moving_average", "exponential_smoothing">>
Comparison(series, f) ==
    [ai |-> IF f.override = Missing THEN f.predicted.quantity ELSE f.override,
     moving_average |-> MovingAverage(series, f.term),
     exponential_smoothing |-> Smoothing(series, f.term)]

(* The first of the models that are nearest to what was consumed. *)
Recommended(rows, actual) ==
    Seqs!SelectInSeq(Models, LAMBDA m : \A k \in Seqs!ToSet(Models) :
                          Distance(actual, rows[m]) <= Distance(actual, rows[k]))

(* getForecastEvaluation *)
Evaluation(series, f) ==
    LET rows == Comparison(series, f) IN
    [mae |-> Distance(f.actual, f.predicted.quantity), mape |-> f.mape, rows |-> rows,
     recommended |-> Models[Recommended(rows, f.actual)]]

(* inferTrendDirection: no consumption is negative, so it never decreases. *)
ShownTrend(series) ==
    IF Len(series) < 2 \/ \A i \in 2..Len(series) : series[i] = 0 THEN "flat" ELSE "increasing"

(* getForecastVisualization, but for the months. *)
Visualization(series, f) ==
    [daily |-> Chart(series), forecast |-> Comparison(series, f), trend |-> ShownTrend(series)]

(***************************************************************************)
(* The features that a model is told of a series (computeFeatures), but    *)
(* for its deviation.                                                      *)
(***************************************************************************)
(* The least-squares slope, times n * n * (n * n - 1) / 12.                *)
Slope(series) ==
    LET n == Len(series) IN
    n * Sum([i \in 1..n |-> (i - 1) * series[i]])
      - (((n - 1) * n) \div 2) * Total(series)

(* A slope of less than a thousandth is none. *)
Trend(series) ==
    LET n == Len(series) IN
    IF 12 * 1000 * Distance(Slope(series), 0) < n * n * (n * n - 1) \/ n < 2 THEN "flat"
    ELSE IF Slope(series) > 0 THEN "increasing" ELSE "decreasing"

(* Twice the median. *)
TwiceMedian(series) ==
    LET sorted == Seqs!SortSeq(series, <)
        mid == Len(series) \div 2 IN
    IF Len(series) % 2 = 0 THEN sorted[mid] + sorted[mid + 1] ELSE 2 * sorted[mid + 1]

UsedDays(series) == {i \in DOMAIN series : series[i] > 0}

(* The first day on which most was consumed; 0 is none. *)
Peak(series) ==
    Seqs!SelectInSeq(series, LAMBDA x : x > 0 /\ \A i \in DOMAIN series : series[i] <= x)

(* The mean of the last month over that of the days before it, a quotient. *)
Recency(series) ==
    LET before == AtLeast(Len(series) - 30, 0)
        last == Sum([i \in (before + 1)..Len(series) |-> series[i]])
        prior == Total(series) - last IN
    IF prior = 0 THEN [num |-> IF last > 0 THEN 2 ELSE 1, den |-> 1]
    ELSE [num |-> last * before, den |-> prior * (Len(series) - before)]

(* Mutant: a series used every other day is not rich. *)
SparsityOverHalf(series) ==
    LET used == Cardinality(UsedDays(series)) IN
    IF used = 0 THEN "empty" ELSE IF 2 * used > Len(series) THEN "rich"
    ELSE IF 5 * used >= Len(series) THEN "moderate" ELSE "sparse"

Sparsity(series) ==
    LET used == Cardinality(UsedDays(series)) IN
    IF used = 0 THEN "empty" ELSE IF 2 * used >= Len(series) THEN "rich"
    ELSE IF 5 * used >= Len(series) THEN "moderate" ELSE "sparse"

(* autocorrelation, as a quotient. *)
Correlation(series, lag) ==
    LET n == Len(series)
        off == [i \in 1..n |-> n * series[i] - Total(series)]
        num == MapThenSumSet(LAMBDA i : off[i] * off[i + lag], 1..(n - lag))
        den == MapThenSumSet(LAMBDA i : off[i] * off[i], 1..n) IN
    IF n <= lag + 2 \/ den = 0 THEN [num |-> 0, den |-> 1] ELSE [num |-> num, den |-> den]

Seasonal(series) ==
    \E lag \in {7, 30} : LET r == Correlation(series, lag) IN 4 * Distance(r.num, 0) >= r.den

(* createFromForecast: what a draft order of a forecast of thirty days     *)
(* asks for, given the stock; 0 is a refusal.                              *)
Drafted(f, onHand) ==
    LET suggested == IF f.override = Missing THEN f.predicted.quantity ELSE f.override IN
    IF suggested <= 0 THEN 0 ELSE AtLeast(suggested - onHand, 1)

(***************************************************************************)
(* The forecast.                                                           *)
(***************************************************************************)
NoForecast == [stage |-> "none"]
Closed == [stage |-> "closed"]

Init ==
    /\ history \in Histories
    /\ forecast = NoForecast
    /\ use = [u \in Uses |-> [at |-> Missing, done |-> FALSE]]
    /\ review = [c \in Clients |-> Closed]
    /\ now = 0
    /\ late = FALSE

Answer(a) ==
    /\ forecast = NoForecast
    /\ forecast' = [stage |-> "answered", response |-> Coerced(a, history)]
    /\ UNCHANGED <<history, use, review, now, late>>

Store(term) ==
    /\ forecast.stage = "answered"
    /\ forecast' = [stage |-> "stored", term |-> term, override |-> Missing,
                    predicted |-> Picked(forecast.response, term),
                    actual |-> Missing, mape |-> Missing]
    /\ UNCHANGED <<history, use, review, now, late>>

Stored == forecast.stage = "stored"

(* adjustStock: the movement is dated when the transaction writes it. *)
Consume(u) ==
    /\ Stored /\ use[u].at = Missing
    /\ use' = [use EXCEPT ![u].at = now]
    /\ UNCHANGED <<history, forecast, review, now, late>>

Commit(u) ==
    /\ use[u].at # Missing /\ ~use[u].done
    /\ use' = [use EXCEPT ![u].done = TRUE]
    /\ late' = (late \/ (use[u].at < Span /\ now >= Span))
    /\ UNCHANGED <<history, forecast, review, now>>

(* The demand of the horizon that a query sees. *)
Demand == Cardinality({u \in Uses : use[u].done /\ use[u].at \in 0..(Span - 1)})

(* Mutant: the horizon ends an instant early. *)
ReviewEarly(c) ==
    /\ Stored /\ review[c] = Closed
    /\ forecast.actual = Missing /\ now >= Span - 1
    /\ review' = [review EXCEPT ![c] = [stage |-> "read", actual |-> Demand]]
    /\ UNCHANGED <<history, forecast, use, now, late>>

(* reconcileForecastActuals reads the movements once the horizon is over.  *)
Review(c) ==
    /\ Stored /\ review[c] = Closed
    /\ forecast.actual = Missing /\ now >= Span
    /\ review' = [review EXCEPT ![c] = [stage |-> "read", actual |-> Demand]]
    /\ UNCHANGED <<history, forecast, use, now, late>>

RecordActuals(c) ==
    /\ review[c] # Closed
    /\ forecast' = [forecast EXCEPT !.actual = review[c].actual,
                                    !.mape = Mape(forecast.predicted.quantity, review[c].actual)]
    /\ review' = [review EXCEPT ![c] = Closed]
    /\ UNCHANGED <<history, use, now, late>>

Override(quantity) ==
    /\ Stored
    /\ forecast' = [forecast EXCEPT !.override = quantity]
    /\ UNCHANGED <<history, use, review, now, late>>

Tick ==
    /\ Stored /\ now < MaxTime
    /\ now' = now + 1
    /\ UNCHANGED <<history, forecast, use, review, late>>

Next ==
    \/ \E a \in Answers : Answer(a)
    \/ \E term \in Terms : Store(term)
    \/ \E u \in Uses : Consume(u) \/ Commit(u)
    \/ \E c \in Clients : Review(c) \/ RecordActuals(c)
    \/ \E quantity \in Overrides : Override(quantity)
    \/ Tick

Spec == Init /\ [][Next]_vars

(***************************************************************************)
(* Properties.                                                             *)
(***************************************************************************)
TypeOK ==
    /\ history \in Histories
    /\ forecast.stage \in {"none", "answered", "stored"}
    /\ Stored => /\ forecast.term \in Terms
                 /\ forecast.override \in Overrides \cup {Missing}
                 /\ forecast.actual \in (0..Cardinality(Uses)) \cup {Missing}
                 /\ forecast.mape = Missing \/ forecast.mape >= 0
    /\ \A u \in Uses : use[u].at \in (0..now) \cup {Missing} /\ use[u].done \in BOOLEAN
    /\ \A c \in Clients : review[c] = Closed \/ review[c].actual \in 0..Cardinality(Uses)
    /\ now \in 0..MaxTime
    /\ late \in BOOLEAN

(* Whatever a model answered, the response holds quantities that grow with *)
(* the horizon, each in its range, a reorder suggestion unless nothing was *)
(* ever consumed; and the figure stored for a shorter horizon is in its    *)
(* range as well and no more than what the longer one needs.  A draft      *)
(* order made from it covers the demand together with the stock and, as    *)
(* po.service.ts says, is bounded at the suggested quantity.               *)
ResponseConsistent ==
    /\ forecast.stage = "answered" =>
         LET r == forecast.response IN
         /\ r.quantity[1] <= r.quantity[2] /\ r.quantity[2] <= r.quantity[3]
         /\ \A h \in 1..3 :
              0 <= r.range[h].lower /\ r.range[h].lower <= r.quantity[h]
                /\ r.quantity[h] <= r.range[h].upper
         /\ r.reorder \in {"given", "baseline"} \/ (r.reorder = "none" /\ Total(history) = 0)
         /\ \A s, t \in Terms : s <= t =>
              Picked(r, s).quantity <= Picked(r, t).quantity
    /\ Stored => LET p == forecast.predicted IN
                 /\ p.range.lower <= p.quantity /\ p.quantity <= p.range.upper
                 /\ forecast.term = 30 =>
                      LET suggested == Comparison(history, forecast).ai IN
                      \A onHand \in 0..(suggested + 2) :
                        /\ Drafted(forecast, onHand) + onHand >= suggested
                        /\ Drafted(forecast, onHand) <= suggested

(* What is recorded as consumed is everything the horizon consumed, unless *)
(* a transaction of the horizon committed after its end; the error stored  *)
(* with it is the error of the forecast itself, whatever was overridden;   *)
(* the model recommended for the next time was at least as near, unless a  *)
(* manager's figure stood for the forecast.                                *)
ActualsComplete ==
    Stored /\ forecast.actual # Missing =>
      /\ late \/ forecast.actual = Demand
      /\ forecast.actual <= Demand
      /\ forecast.mape = Mape(forecast.predicted.quantity, forecast.actual)
      /\ LET e == Evaluation(history, forecast) IN
         /\ e.rows = Visualization(history, forecast).forecast
         /\ forecast.override = Missing =>
              /\ Mape(e.rows[e.recommended], forecast.actual) <= e.mape
              /\ Distance(forecast.actual, e.rows[e.recommended]) <= e.mae

(* The two statistical models stay within what was consumed: never below   *)
(* the smallest day or above the largest day carried on, so a steady       *)
(* consumption is what both of them, and the baseline, predict; and what   *)
(* they predict is where their lines on the chart end.                     *)
ModelsWithinHistory ==
    forecast = NoForecast =>
      LET days == {history[i] : i \in DOMAIN history}
          end == Chart(history)[Len(history)] IN
      \A term \in Terms :
        /\ \A p \in {MovingAverage(history, term), Smoothing(history, term)} :
             Min(days) * term <= p /\ p <= Max(days) * term
        /\ Cardinality(days) = 1 =>
             Picked(Baseline(history), term).quantity = Smoothing(history, term)
        /\ MovingAverage(history, term) = Rounded(end.sum * term, end.days)
        /\ Smoothing(history, term) = Rounded(end.level * term, 2 ^ Len(history))

Sign(x) == IF x > 0 THEN 1 ELSE IF x < 0 THEN -1 ELSE 0
Reversed == [increasing |-> "decreasing", flat |-> "flat", decreasing |-> "increasing"]

(* What a model is told of a series is true of it: the slope is that of    *)
(* its pairs of days, each weighed by its distance, so the series read     *)
(* backwards has the opposite trend; the series is called rich exactly     *)
(* when its median is positive; no correlation exceeds one; a steady       *)
(* series is never seasonal, and one that repeats itself every week, for   *)
(* two weeks or more, is.  The peak is a used day; the last month scores   *)
(* above one exactly when it consumed more per day than all of the series, *)
(* or is all of it; and a series that rises is shown to users as rising.   *)
FeaturesTrue ==
    forecast = NoForecast =>
      \A s \in Histories \cup Patterns :
        LET n == Len(s)
            rise(j) == MapThenSumSet(LAMBDA i : (j - i) * (s[j] - s[i]), 1..j) IN
        /\ Sign(Slope(s)) = Sign(MapThenSumSet(rise, 1..n))
        /\ Trend(Seqs!Reverse(s)) = Reversed[Trend(s)]
        /\ (Sparsity(s) = "rich") = (TwiceMedian(s) > 0)
        /\ UsedDays(s) # {} => Peak(s) \in UsedDays(s) /\ s[Peak(s)] = Max(Seqs!ToSet(s))
        /\ LET month == IF n < 30 THEN n ELSE 30
               last == Sum([i \in (n - month + 1)..n |-> s[i]]) IN
           (Recency(s).num > Recency(s).den)
             = (last * n > Total(s) * month \/ (n <= 30 /\ Total(s) > 0))
        /\ Trend(s) = "increasing" => ShownTrend(s) = "increasing"
        /\ \A lag \in {7, 30} : LET r == Correlation(s, lag) IN Distance(r.num, 0) <= r.den
        /\ Cardinality(Seqs!ToSet(s)) = 1 => ~Seasonal(s) /\ Trend(s) = "flat"
        /\ /\ n % 7 = 0 /\ n >= 14 /\ Cardinality(Seqs!ToSet(s)) > 1
           /\ \A i \in 1..(n - 7) : s[i] = s[i + 7]
           => Seasonal(s)
=============================================================================

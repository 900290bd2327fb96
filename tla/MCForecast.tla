----------------------------- MODULE MCForecast -----------------------------
(***************************************************************************)
(* Values of the constants of Forecasts.  Calls are interchangeable, and   *)
(* so are items; the same model values are the requests that review the    *)
(* forecast, the transactions that consume, and the jobs of the report.    *)
(***************************************************************************)
EXTENDS Forecasts, Integers, TLC

Missing == -100
R(l, u) == [lower |-> l, upper |-> u]
MCRanges == {[h \in 1..3 |-> r] : r \in {R(10, 40), R(40, 10), R(Missing, 20)}}
            \cup {<<R(Missing, Missing), R(40, 10), R(10, 40)>>}
MCAnswers ==
    [quantity: [1..3 -> {Missing, 20, 45}], range: MCRanges, typed: {TRUE},
     complete: {TRUE}, reorder: {"missing", "null", "given"}]
    \cup [quantity: [1..3 -> {Missing, 20, 45}], range: MCRanges, typed: {TRUE},
          complete: {FALSE}, reorder: {"null"}]
    \cup [quantity: {<<1, -5, 1>>}, range: {<<R(1, 1), R(-1, 1), R(1, 1)>>},
          typed: BOOLEAN, complete: {TRUE}, reorder: {"given"}]
MCHistories == {<<0, 0>>, <<1, 1, 1>>, <<2, 0, 1>>, <<0, 0, 0, 3, 0, 1, 0, 2, 0>>}

MCPatterns == [1..4 -> 0..2] \cup
    {[i \in 1..14 |-> IF i % 7 = 0 THEN 3 ELSE 0], [i \in 1..14 |-> i % 7],
     [i \in 1..11 |-> IF i = 3 THEN 4 ELSE 1], [i \in 1..12 |-> 12 - i],
     [i \in 1..35 |-> IF i \in {2, 32} THEN 5 ELSE 0]}

MCOverrides == {25}

Symmetry == Permutations(Clients) \cup Permutations(Items)
=============================================================================

------------------------------ MODULE MCRecords ------------------------------
(***************************************************************************)
(* Instances of the parts of Records, checked in one run.  The monitor of  *)
(* low stock, which has a run of its own, is here to overlap with itself.  *)
(***************************************************************************)
EXTENDS Records, Integers, Sequences, TLC

L(i, q, p) == [item |-> i, quantity |-> q, price |-> p]
MCDeals ==
    {[currency |-> "BDT", tax |-> 0, lead |-> 2, terms |-> 0,
      lines |-> <<L("a", 1, 2), L("a", 1, 3)>>],
     [currency |-> "BDT", tax |-> 0, lead |-> 0, terms |-> 0, lines |-> <<L("b", 1, 0)>>],
     [currency |-> "USD", tax |-> 1, lead |-> 0, terms |-> 2, lines |-> <<L("a", 2, 1)>>]}

MCItems == {1, 2, 3}
MCWarehouses == {"w1", "w2"}
MCPlaces == {<<1, "w1">>, <<2, "w1">>, <<2, "w2">>, <<3, "w1">>}
MCTorn == {<<2, "w1">>}
MCCost == <<3, 16, 1>>
MCCategory == <<"x", "x", "y">>

Symmetry == Permutations(Calls) \cup Permutations(Firms) \cup Permutations(Entries)
=============================================================================

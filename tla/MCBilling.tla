----------------------------- MODULE MCBilling ------------------------------
(* The instance TLC checks: two plans that are paid for.                   *)
EXTENDS Billing, TLC

MCPrice == [starter |-> 49, growth |-> 149]
Symmetry == Permutations(Clients)
=============================================================================

----------------------------- MODULE MCAccounts -----------------------------
(* A plan with a seat less than there are users, and one that has enough.  *)
EXTENDS Accounts, TLC

CONSTANTS founder, a, b

MCSeats == [starter |-> 2, trial |-> 3]
Symmetry == Permutations(Clients) \cup Permutations({a, b})
=============================================================================

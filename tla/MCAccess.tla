------------------------------ MODULE MCAccess -------------------------------
(* The instance TLC checks; symmetric in the requests and in the uploads.  *)
EXTENDS Access, TLC

Symmetry == Permutations(Clients) \cup Permutations(Others)
=============================================================================

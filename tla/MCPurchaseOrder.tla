-------------------------- MODULE MCPurchaseOrder --------------------------
(* PurchaseOrder with the small instances TLC explores.                    *)
EXTENDS PurchaseOrder, TLC

(* Clients are interchangeable, and so are lines.                          *)
Symmetric == Permutations(Clients) \cup Permutations(Lines)
=============================================================================

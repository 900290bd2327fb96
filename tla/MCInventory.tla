---------------------------- MODULE MCInventory ----------------------------
(* Inventory with the small instances TLC explores.                        *)
EXTENDS Inventory, TLC

(* Clients and warehouses are interchangeable in the safety run.           *)
Symmetric == Permutations(Clients) \cup Permutations(Warehouses)
=============================================================================

--------------------------- MODULE StockContract ---------------------------
(***************************************************************************)
(* What the inventory module promises about stock, with no documents,      *)
(* transactions or requests in sight: a quantity per slot (an item in a    *)
(* warehouse) that is never negative and that changes in three ways only.  *)
(*                                                                         *)
(*   Correct   one slot is corrected, up or down (an adjustment);          *)
(*   Move      one item moves between two warehouses, nothing is created   *)
(*             or destroyed on the way (a transfer);                       *)
(*   Deliver   goods arrive, possibly in several slots at once, and no     *)
(*             slot loses anything (a goods receipt, opening balances).    *)
(*                                                                         *)
(* Inventory.tla implements this specification.                            *)
(***************************************************************************)
EXTENDS Integers

CONSTANTS Items, Warehouses

VARIABLE onHand

Slots == Items \X Warehouses

Init == onHand = [s \in Slots |-> 0]

Correct(s) ==
    /\ onHand' \in [Slots -> Int]
    /\ onHand'[s] >= 0
    /\ \A r \in Slots \ {s} : onHand'[r] = onHand[r]

Move(i, from, to) ==
    /\ from # to
    /\ \E q \in 1 .. onHand[<<i, from>>] :
         onHand' = [onHand EXCEPT ![<<i, from>>] = @ - q,
                                  ![<<i, to>>]   = @ + q]

Deliver ==
    /\ onHand' \in [Slots -> Int]
    /\ \A s \in Slots : onHand'[s] >= onHand[s]

Next ==
    \/ \E s \in Slots : Correct(s)
    \/ \E i \in Items, from, to \in Warehouses : Move(i, from, to)
    \/ Deliver

Spec == Init /\ [][Next]_onHand
=============================================================================

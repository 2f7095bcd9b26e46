-------------------------- MODULE MCPurchaseOrder --------------------------
(***************************************************************************)
(* Instances of PurchaseOrder for TLC.                                     *)
(***************************************************************************)
EXTENDS PurchaseOrder, TLC

CONSTANTS c1, c2, e1, e2, i1, i2, w1, w2, k1, k2

TwoCalls == {c1, c2}
TwoEdits == {e1, e2}
TwoItems == {i1, i2}
TwoWarehouses == {w1, w2}
TwoKeys == {k1, k2}

(* An order of both items and one of a single item.                        *)
TwoBodies == {i1 :> 2 @@ i2 :> 1, i1 :> 1 @@ i2 :> 0}

(* Calls, edits, receipt keys and warehouses are interchangeable.          *)
Symmetries ==
    UNION {Permutations(s) : s \in {TwoCalls, TwoEdits, TwoKeys, TwoWarehouses}}
=============================================================================

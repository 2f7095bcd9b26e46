-------------------------- MODULE MCKitchenDisplay --------------------------
(***************************************************************************)
(* Instances of KitchenDisplay for TLC.                                    *)
(***************************************************************************)
EXTENDS KitchenDisplay

CONSTANTS c1, c2, c3, t1

(* Three calls on one ticket: enough to cook, finish and serve it.         *)
ThreeCalls == {c1, c2, c3}
OneTicket == {t1}
=============================================================================

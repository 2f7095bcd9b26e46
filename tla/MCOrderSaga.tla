---------------------------- MODULE MCOrderSaga ----------------------------
(***************************************************************************)
(* Instances of OrderSaga for TLC.                                         *)
(***************************************************************************)
EXTENDS OrderSaga, TLC

CONSTANTS o1, o2, d1, d2

(* One order, or two that compete for the stock and need different amounts. *)
OneOrder == {o1}
TwoOrders == {o1, o2}
NeedTwo == [o \in {o1} |-> 2]
NeedTwoOne == o1 :> 2 @@ o2 :> 1

OneDispatcher == {d1}
TwoDispatchers == {d1, d2}
=============================================================================

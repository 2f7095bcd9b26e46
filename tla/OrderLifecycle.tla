--------------------------- MODULE OrderLifecycle ---------------------------
(***************************************************************************)
(* What the order module promises, without saying how: an order moves      *)
(* through its statuses along the edges below, a finished order never      *)
(* moves again, an order is marked PAID only once its balance is settled,  *)
(* and a regular order is prepared and completed only once it is settled.  *)
(***************************************************************************)
CONSTANT Orders

VARIABLES
    status,     \* status of the order, "NONE" before it is placed
    regular,    \* the order must be paid before it is prepared
    settled     \* the full amount was paid

lifecycleVars == <<status, regular, settled>>

Edges ==
    {<<"PENDING", "IN_PROGRESS">>, <<"IN_PROGRESS", "READY">>,
     <<"READY", "COMPLETED">>, <<"IN_PROGRESS", "PENDING">>,
     <<"READY", "PENDING">>, <<"PENDING", "PAID">>, <<"PAID", "COMPLETED">>,
     <<"PENDING", "CANCELLED">>, <<"IN_PROGRESS", "CANCELLED">>,
     <<"READY", "CANCELLED">>, <<"PAID", "CANCELLED">>}

Init ==
    /\ status = [o \in Orders |-> "NONE"]
    /\ regular = [o \in Orders |-> TRUE]
    /\ settled = [o \in Orders |-> FALSE]

Place(o) ==
    /\ status[o] = "NONE"
    /\ status' = [status EXCEPT ![o] = "PENDING"]
    /\ \E r \in BOOLEAN : regular' = [regular EXCEPT ![o] = r]
    /\ UNCHANGED settled

Settle(o) ==
    /\ status[o] \notin {"NONE", "CANCELLED"}
    /\ ~settled[o]
    /\ settled' = [settled EXCEPT ![o] = TRUE]
    /\ UNCHANGED <<status, regular>>

NeedsPayment(o, to) ==
    \/ to = "PAID"
    \/ regular[o] /\ to \in {"IN_PROGRESS", "READY", "COMPLETED"}

Move(o, to) ==
    /\ <<status[o], to>> \in Edges
    /\ NeedsPayment(o, to) => settled[o]
    /\ status' = [status EXCEPT ![o] = to]
    /\ UNCHANGED <<regular, settled>>

Next ==
    \E o \in Orders :
        \/ Place(o)
        \/ Settle(o)
        \/ \E to \in {"PENDING", "IN_PROGRESS", "READY", "PAID", "COMPLETED",
                      "CANCELLED"} : Move(o, to)

Spec == Init /\ [][Next]_lifecycleVars
=============================================================================

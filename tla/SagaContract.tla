---------------------------- MODULE SagaContract ----------------------------
(***************************************************************************)
(* What the shop promises the customer of an order, with no word about     *)
(* events, replicas or rows: the status the customer reads and the money   *)
(* the gateway has taken.  An order is charged at most once, it completes  *)
(* only if it was charged, a failed order that was charged is refunded,    *)
(* and neither a status nor a refund is ever taken back.                   *)
(***************************************************************************)
CONSTANT Orders

VARIABLES status,   \* status[o]: what GET /orders/:id shows, or "NONE"
          money     \* money[o]: "none", "charged" or "refunded"

vars == <<status, money>>

Becomes(o, s) == status' = [status EXCEPT ![o] = s]
Moves(o, m)   == money' = [money EXCEPT ![o] = m]

Accept(o) == /\ status[o] = "NONE"
             /\ Becomes(o, "PROCESSING")
             /\ UNCHANGED money

Charge(o) == /\ status[o] = "PROCESSING" /\ money[o] = "none"
             /\ Moves(o, "charged")
             /\ UNCHANGED status

Complete(o) == /\ status[o] = "PROCESSING" /\ money[o] = "charged"
               /\ Becomes(o, "COMPLETED")
               /\ UNCHANGED money

Fail(o) == /\ status[o] = "PROCESSING"
           /\ Becomes(o, "FAILED")
           /\ UNCHANGED money

Refund(o) == /\ status[o] = "FAILED" /\ money[o] = "charged"
             /\ Moves(o, "refunded")
             /\ UNCHANGED status

Settle(o) == Charge(o) \/ Complete(o) \/ Fail(o)

Init == /\ status = [o \in Orders |-> "NONE"]
        /\ money = [o \in Orders |-> "none"]

Next == \E o \in Orders : Accept(o) \/ Settle(o) \/ Refund(o)

Spec == Init /\ [][Next]_vars

\* An accepted order reaches its end, and a refund that is due is made.
Fulfilment == \A o \in Orders : WF_vars(Settle(o)) /\ WF_vars(Refund(o))

=============================================================================

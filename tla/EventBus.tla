------------------------------ MODULE EventBus ------------------------------
(***************************************************************************)
(* The Kafka topics the services of the shop talk through, as the services *)
(* use them (libs/kafka, libs/common/src/interfaces/kafka-events).         *)
(*                                                                         *)
(* Events are sent without a key (`kafkaClient.emit(topic, event)`), so    *)
(* nothing in the code relies on an order between them: the bus is a bag.  *)
(* An event leaves the bag when a consumer takes it.  The consumers commit *)
(* an offset only after the handler has returned, so a crash or a          *)
(* rebalance of the consumer group delivers the event once more; `emit`    *)
(* is not awaited by any handler, so a send that fails loses the event     *)
(* without the handler noticing.  Both are faults, and every fault spends  *)
(* one unit of the budget MaxFaults: behaviours without faults are the     *)
(* ones in which NoFaults holds throughout.                                *)
(***************************************************************************)
EXTENDS Integers, Sequences

CONSTANTS Orders,     \* the ids that POST /orders can hand out
          Users,      \* values of the x-user-id header
          Products,   \* product ids a client may order
          ItemLists,  \* the `items` arrays a client may submit
          MaxFaults   \* budget per kind of fault; bounds the model

\* "redeliver": an event handed to a consumer is delivered once more.
\* "lose":      a send fails after `emit` has returned.
\* "throw":     an awaited database or Redis call rejects, or the process
\*              dies in the middle of an HTTP request.
FaultKinds == {"redeliver", "lose", "throw"}

\* create-order.dto.ts: at least one line, quantities are positive integers.
ASSUME BusAssumption ==
  /\ ItemLists \subseteq Seq([productId : Products, quantity : Nat \ {0}])
  /\ <<>> \notin ItemLists
  /\ MaxFaults \in [FaultKinds -> Nat]

VARIABLES cart,    \* cart[o]: the user and the lines of order o; rows and
                   \* events carry copies of it that no code path changes
          bus,     \* bus[e]: how many copies of e wait for a consumer
          faults   \* faults[k]: faults of kind k so far

Carts == [userId : Users, items : ItemLists]

Lines(o) == DOMAIN cart[o].items

-----------------------------------------------------------------------------
(* Events.  A topic is named after its key in KAFKA_TOPICS, without the    *)
(* ORDER_ prefix.  STOCK_RESTORE_REQUESTED is missing: no code emits it.   *)

RequestTopics == {"STOCK_CHECK_REQUESTED", "PAYMENT_REQUESTED",
                  "STOCK_DEDUCT_REQUESTED", "PAYMENT_REFUND_REQUESTED"}

\* Announcements that no service of the repository consumes.
NoticeTopics == {"COMPLETED", "FAILED"}

ResultTopics == {"STOCK_CHECK_RESULT", "PAYMENT_RESULT", "STOCK_DEDUCT_RESULT"}

Request(t, o)   == [topic |-> t, orderId |-> o]
Result(t, o, s) == [topic |-> t, orderId |-> o, success |-> s]

Requests == [topic : RequestTopics \cup NoticeTopics, orderId : Orders]
Results  == [topic : ResultTopics, orderId : Orders, success : BOOLEAN]
Events   == Requests \cup Results

-----------------------------------------------------------------------------
NoFaults == \A k \in FaultKinds : faults[k] = 0

Fault(k) == /\ faults[k] < MaxFaults[k]
            /\ faults' = [faults EXCEPT ![k] = @ + 1]

\* A consumer takes e; `faults` is left to the caller.
Consume(e) == /\ bus[e] > 0
              /\ bus' = [bus EXCEPT ![e] = @ - 1]

\* e is delivered again although a consumer has taken it.
Redeliver(e) == /\ Fault("redeliver")
                /\ bus' = [bus EXCEPT ![e] = @ + 1]

Deliver(sent) == bus' = [e \in Events |-> IF e \in sent THEN bus[e] + 1 ELSE bus[e]]

\* A handler emits the events in S and does not wait: they all arrive, or a
\* fault loses some of them.
Emit(S) == \/ /\ Deliver(S)
              /\ UNCHANGED faults
           \/ /\ Fault("lose")
              /\ \E sent \in (SUBSET S) \ {S} : Deliver(sent)

BusInit == /\ cart \in [Orders -> Carts]
           /\ bus = [e \in Events |-> 0]
           /\ faults = [k \in FaultKinds |-> 0]

BusTypeOK == /\ cart \in [Orders -> Carts]
             /\ bus \in [Events -> Nat]
             /\ faults \in [FaultKinds -> Nat]

=============================================================================

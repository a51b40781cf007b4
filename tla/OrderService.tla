---------------------------- MODULE OrderService ----------------------------
(***************************************************************************)
(* order-service: POST /orders (OrdersService.create) and the consumers of *)
(* the three result topics (handleStockCheckResult, handlePaymentResult,   *)
(* handleStockDeductResult).                                               *)
(*                                                                         *)
(* A step ends at an `await`: between two steps other requests, other      *)
(* replicas of the consumer and other services run.  The three handlers    *)
(* have one shape: read the saga row and the order row, set the saga's     *)
(* step and save it, save the order if it has reached its end, emit the    *)
(* next event.  The table NextStep says what differs.                      *)
(***************************************************************************)
EXTENDS EventBus

CONSTANT OrderWorkers   \* consumer replicas of order-service

VARIABLES orders,       \* orders[o]: status column of o's row, "NONE": no row
          sagas,        \* sagas[o]: o's row of saga_states
          creating,     \* creating[o]: where POST /orders is for o
          orderWorker   \* what each consumer replica is doing

orderVars == <<orders, sagas, creating, orderWorker>>

OrderStatus == {"PENDING", "PROCESSING", "COMPLETED", "FAILED"}

SagaStep == {"STOCK_CHECK_REQUESTED", "STOCK_CHECK_COMPLETED",
             "PAYMENT_REQUESTED", "PAYMENT_COMPLETED",
             "STOCK_DEDUCT_REQUESTED", "COMPLETED", "COMPENSATING", "FAILED"}

\* The text of failureReason is abstracted to the topic that reported it.
SagaRow == [currentStep : SagaStep, failureReason : ResultTopics \cup {"null"}]
NoSaga  == [currentStep |-> "NONE", failureReason |-> "null"]

\* A busy worker holds the event and the saga entity it has read and edited.
IdleOrderWorker == [pc |-> "idle"]
BusyOrderWorker == [pc : {"saveSaga", "saveOrder", "emit"},
                    event : Results, saga : SagaRow]

-----------------------------------------------------------------------------
(* What the handlers make of an event.                                     *)

\* Faulty: the order README.md draws, stock first and payment last.
OnSuccessStockFirst == [STOCK_CHECK_RESULT  |-> "STOCK_DEDUCT_REQUESTED",
                        STOCK_DEDUCT_RESULT |-> "PAYMENT_REQUESTED",
                        PAYMENT_RESULT      |-> "COMPLETED"]

\* Faulty: the payment is left out of the chain.
OnSuccessUnpaid == [STOCK_CHECK_RESULT  |-> "STOCK_DEDUCT_REQUESTED",
                    STOCK_DEDUCT_RESULT |-> "COMPLETED",
                    PAYMENT_RESULT      |-> "STOCK_DEDUCT_REQUESTED"]

OnSuccess == [STOCK_CHECK_RESULT  |-> "PAYMENT_REQUESTED",
              PAYMENT_RESULT      |-> "STOCK_DEDUCT_REQUESTED",
              STOCK_DEDUCT_RESULT |-> "COMPLETED"]

\* Faulty: a payment that failed is asked for again.
OnFailureRetry == [STOCK_CHECK_RESULT  |-> "FAILED",
                   PAYMENT_RESULT      |-> "PAYMENT_REQUESTED",
                   STOCK_DEDUCT_RESULT |-> "COMPENSATING"]

OnFailure == [STOCK_CHECK_RESULT  |-> "FAILED",
              PAYMENT_RESULT      |-> "FAILED",
              STOCK_DEDUCT_RESULT |-> "COMPENSATING"]

NextStep(e) == IF e.success THEN OnSuccess[e.topic] ELSE OnFailure[e.topic]

\* The saga entity after the handler's assignments; a success leaves
\* failureReason as it was read.
Edited(saga, e) ==
  [currentStep   |-> NextStep(e),
   failureReason |-> IF e.success THEN saga.failureReason ELSE e.topic]

\* The steps at which the handlers also set and save the order's status.
EndSteps == {"COMPLETED", "COMPENSATING", "FAILED"}

StatusAt(step) == IF step = "COMPLETED" THEN "COMPLETED" ELSE "FAILED"

\* Faulty: a deduction is requested together with the payment.
TopicsAtParallel(step) == IF step = "PAYMENT_REQUESTED"
                          THEN {"PAYMENT_REQUESTED", "STOCK_DEDUCT_REQUESTED"}
                          ELSE {step}

\* Faulty: a compensation only announces the failure.
TopicsAtNoRefund(step) == IF step = "COMPENSATING" THEN {"FAILED"} ELSE {step}

\* Faulty: the branch of a failed stock check falls through to the payment.
TopicsAtFallThrough(step) == IF step = "FAILED" THEN {"FAILED", "PAYMENT_REQUESTED"}
                             ELSE {step}

\* Each step of the saga is named after the event sent on reaching it, and
\* a compensation sends a refund request and the announcement of a failure.
TopicsAt(step) == IF step = "COMPENSATING"
                  THEN {"PAYMENT_REFUND_REQUESTED", "FAILED"}
                  ELSE {step}

-----------------------------------------------------------------------------
(* OrdersService.create: the order row with its lines, the saga row, then  *)
(* the first event.                                                        *)

\* Faulty: the event is sent without waiting for the saga row.
CreateOrderNoSaga(o) ==
  /\ creating[o] = "none"
  /\ creating' = [creating EXCEPT ![o] = "emit"]
  /\ orders' = [orders EXCEPT ![o] = "PROCESSING"]
  /\ UNCHANGED <<sagas, orderWorker, bus, faults>>

CreateOrder(o) ==
  /\ creating[o] = "none"
  /\ creating' = [creating EXCEPT ![o] = "saveSaga"]
  /\ orders' = [orders EXCEPT ![o] = "PROCESSING"]
  /\ UNCHANGED <<sagas, orderWorker, bus, faults>>

CreateSaga(o) ==
  /\ creating[o] = "saveSaga"
  /\ creating' = [creating EXCEPT ![o] = "emit"]
  /\ sagas' = [sagas EXCEPT ![o] = [currentStep   |-> "STOCK_CHECK_REQUESTED",
                                    failureReason |-> "null"]]
  /\ UNCHANGED <<orders, orderWorker, bus, faults>>

CreateEmit(o) ==
  /\ creating[o] = "emit"
  /\ creating' = [creating EXCEPT ![o] = "done"]
  /\ Emit({Request("STOCK_CHECK_REQUESTED", o)})
  /\ UNCHANGED <<orders, sagas, orderWorker>>

\* The request dies after the order row is saved; nothing takes it up again.
CreateThrows(o) ==
  /\ creating[o] \in {"saveSaga", "emit"}
  /\ creating' = [creating EXCEPT ![o] = "aborted"]
  /\ Fault("throw")
  /\ UNCHANGED <<orders, sagas, orderWorker, bus>>

-----------------------------------------------------------------------------
(* The event handlers.                                                     *)

ReceiveResult(w, e) ==
  LET o == e.orderId IN
  /\ orderWorker[w] = IdleOrderWorker
  /\ Consume(e)
  /\ orderWorker' = IF sagas[o] = NoSaga \/ orders[o] = "NONE"
                    THEN orderWorker
                    ELSE [orderWorker EXCEPT ![w] =
                            [pc |-> "saveSaga", event |-> e,
                             saga |-> Edited(sagas[o], e)]]
  /\ UNCHANGED <<orders, sagas, creating, faults>>

SaveSaga(w) ==
  LET job == orderWorker[w] IN
  /\ job.pc = "saveSaga"
  /\ sagas' = [sagas EXCEPT ![job.event.orderId] = job.saga]
  /\ orderWorker' = [orderWorker EXCEPT ![w].pc =
                       IF NextStep(job.event) \in EndSteps THEN "saveOrder" ELSE "emit"]
  /\ UNCHANGED <<orders, creating, bus, faults>>

SaveOrder(w) ==
  LET job == orderWorker[w] IN
  /\ job.pc = "saveOrder"
  /\ orders' = [orders EXCEPT ![job.event.orderId] = StatusAt(NextStep(job.event))]
  /\ orderWorker' = [orderWorker EXCEPT ![w].pc = "emit"]
  /\ UNCHANGED <<sagas, creating, bus, faults>>

EmitNext(w) ==
  LET job == orderWorker[w] IN
  /\ job.pc = "emit"
  /\ Emit({Request(t, job.event.orderId) : t \in TopicsAt(NextStep(job.event))})
  /\ orderWorker' = [orderWorker EXCEPT ![w] = IdleOrderWorker]
  /\ UNCHANGED <<orders, sagas, creating>>

\* The event is delivered again: the worker dies or its handler throws, or
\* a rebalance takes the event from a worker that carries on.
RedeliverResult(w) ==
  /\ orderWorker[w] # IdleOrderWorker
  /\ Redeliver(orderWorker[w].event)
  /\ \/ orderWorker' = [orderWorker EXCEPT ![w] = IdleOrderWorker]
     \/ UNCHANGED orderWorker
  /\ UNCHANGED <<orders, sagas, creating>>

-----------------------------------------------------------------------------
OrderInit == /\ orders = [o \in Orders |-> "NONE"]
             /\ sagas = [o \in Orders |-> NoSaga]
             /\ creating = [o \in Orders |-> "none"]
             /\ orderWorker = [w \in OrderWorkers |-> IdleOrderWorker]

OrderWorkerStep(w) == SaveSaga(w) \/ SaveOrder(w) \/ EmitNext(w)

OrderNext == \/ \E o \in Orders : \/ CreateOrder(o) \/ CreateSaga(o)
                                  \/ CreateEmit(o)  \/ CreateThrows(o)
             \/ \E w \in OrderWorkers : \/ \E e \in Results : ReceiveResult(w, e)
                                        \/ OrderWorkerStep(w)
                                        \/ RedeliverResult(w)

OrderTypeOK == /\ orders \in [Orders -> OrderStatus \cup {"NONE"}]
               /\ sagas \in [Orders -> SagaRow \cup {NoSaga}]
               /\ creating \in [Orders -> {"none", "saveSaga", "emit", "done", "aborted"}]
               /\ orderWorker \in [OrderWorkers -> BusyOrderWorker \cup {IdleOrderWorker}]

=============================================================================

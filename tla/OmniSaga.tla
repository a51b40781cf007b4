------------------------------ MODULE OmniSaga ------------------------------
(***************************************************************************)
(* The order saga: order-service, product-service and payment-service      *)
(* composed over the event bus.  The services share nothing but the bus;   *)
(* each action is a step of one replica of one service.                    *)
(*                                                                         *)
(*   POST /orders -> STOCK_CHECK_REQUESTED -> STOCK_CHECK_RESULT           *)
(*     -> PAYMENT_REQUESTED -> PAYMENT_RESULT                              *)
(*     -> STOCK_DEDUCT_REQUESTED -> STOCK_DEDUCT_RESULT -> COMPLETED       *)
(*   with FAILED after a failed check or payment, and FAILED together with *)
(*   PAYMENT_REFUND_REQUESTED after a failed deduction.                    *)
(***************************************************************************)
EXTENDS OrderService, StockService, PaymentService, FiniteSets

vars == <<cart, bus, faults, orderVars, stockVars, paymentVars>>

Init == BusInit /\ OrderInit /\ StockInit /\ PaymentInit

Next == /\ \/ OrderNext   /\ UNCHANGED <<stockVars, paymentVars>>
           \/ StockNext   /\ UNCHANGED <<orderVars, paymentVars>>
           \/ PaymentNext /\ UNCHANGED <<orderVars, stockVars>>
        /\ UNCHANGED cart

Spec == Init /\ [][Next]_vars

-----------------------------------------------------------------------------
(* Fairness.  A handler that has started goes on, a replica that is idle   *)
(* takes an event that waits, and a request that is in progress goes on.   *)
(* Nothing obliges a client to order, an operator to remove a product, or  *)
(* a fault to happen.                                                      *)

OrderProgress ==
  /\ \A o \in Orders : WF_vars(/\ CreateSaga(o) \/ CreateEmit(o)
                               /\ UNCHANGED <<cart, stockVars, paymentVars>>)
  /\ \A w \in OrderWorkers :
       WF_vars(/\ OrderWorkerStep(w) \/ \E e \in Results : ReceiveResult(w, e)
               /\ UNCHANGED <<cart, stockVars, paymentVars>>)

StockProgress ==
  \A w \in StockWorkers :
    WF_vars(/\ StockWorkerStep(w) \/ \E e \in Requests : ReceiveStockRequest(w, e)
            /\ UNCHANGED <<cart, orderVars, paymentVars>>)

PaymentProgress ==
  \A w \in PaymentWorkers :
    WF_vars(/\ PaymentWorkerStep(w) \/ \E e \in Requests : ReceivePaymentRequest(w, e)
            /\ UNCHANGED <<cart, orderVars, stockVars>>)

FairSpec == Spec /\ OrderProgress /\ StockProgress /\ PaymentProgress

-----------------------------------------------------------------------------
(* The vocabulary of the properties.                                       *)

HeldByOrder(e)   == \E w \in OrderWorkers :
                      orderWorker[w] # IdleOrderWorker /\ orderWorker[w].event = e
HeldByStock(e)   == \E w \in StockWorkers :
                      stockWorker[w] # IdleStockWorker /\ stockWorker[w].event = e
HeldByPayment(e) == \E w \in PaymentWorkers :
                      paymentWorker[w] # IdlePaymentWorker /\ paymentWorker[w].event = e

\* e waits on the bus, or a handler is at work on it.
InFlight(e) == bus[e] > 0 \/ HeldByOrder(e) \/ HeldByStock(e) \/ HeldByPayment(e)

Rows(o)     == {p \in PaymentIds : payments[p] # NoPayment /\ payments[p].orderId = o}
PaidRows(o) == {p \in Rows(o) : payments[p].status \in {"COMPLETED", "REFUNDED"}}

Paid(o) == PaidRows(o) # {}

\* A line was taken from stock, or its product was removed meanwhile.
LineTaken(o, i) == cart[o].items[i].productId \notin removed => taken[o][i] > 0

Deducted(o) == \A i \in Lines(o) : LineTaken(o, i)

Untouched(o) == \A i \in Lines(o) : taken[o][i] = 0

\* Line i of o has taken product p.
Took(o, i, p) == cart[o].items[i].productId = p /\ taken[o][i] > 0

\* Nothing is left to happen to o.
Settled(o) == /\ creating[o] \in {"done", "aborted"}
              /\ \A e \in Events : e.orderId = o /\ InFlight(e) => e.topic \in NoticeTopics

\* What GET /orders/:id shows at the end.
Final == {"COMPLETED", "FAILED"}

NoRedelivery == faults["redeliver"] = 0

-----------------------------------------------------------------------------
(* Safety.                                                                 *)

\* Every variable has the type its column, event or handler declares.
TypeOK == BusTypeOK /\ OrderTypeOK /\ StockTypeOK /\ PaymentTypeOK

\* An event in flight speaks of an order whose row and saga row are saved:
\* the handlers drop an event without a trace when they find no row
\* (`if (!saga || !order) return`), so this is what keeps a saga going.
NoOrphanEvent == \A e \in Events :
  InFlight(e) => orders[e.orderId] # "NONE" /\ sagas[e.orderId] # NoSaga

\* However often events come again, get lost or fail half way, an order
\* shows COMPLETED only if a payment row says it was paid and each of its
\* lines was taken from stock.
CompletedMeansPaidAndDeducted == \A o \in Orders :
  orders[o] = "COMPLETED" => Paid(o) /\ Deducted(o)

\* No stock moves for an order nobody paid: a deduction is requested, and
\* lines are taken, only once a payment row of the order is COMPLETED.
DeductOnlyAfterPayment == \A o \in Orders :
  InFlight(Request("STOCK_DEDUCT_REQUESTED", o)) \/ ~Untouched(o) => Paid(o)

\* The payments table never claims money the gateway has not taken: the
\* paid rows of an order, and those about to be saved as paid, are covered
\* by as many charges.
PaidRowsAreCharged == \A o \in Orders :
  LET saving == {w \in PaymentWorkers : /\ paymentWorker[w].pc = "save"
                                        /\ paymentWorker[w].success
                                        /\ paymentWorker[w].event.orderId = o}
  IN  Cardinality(PaidRows(o)) + Cardinality(saving) <= charges[o]

\* Without redelivery the saga does everything at most once per order: one
\* payment row, one charge, one decrement per line, one final announcement,
\* and one event at work at a time.
AtMostOnce == NoRedelivery => \A o \in Orders :
  /\ Cardinality(Rows(o)) <= 1
  /\ charges[o] <= 1
  /\ \A i \in Lines(o) : taken[o][i] <= 1
  /\ bus[Request("COMPLETED", o)] + bus[Request("FAILED", o)] <= 1
  /\ Cardinality({e \in Events : e.orderId = o /\ e.topic \notin NoticeTopics
                                 /\ InFlight(e)}) <= 1

\* The handlers are not idempotent, but a redelivery drives a saga once more
\* and no further: with the first delivery, as many payment rows, charges,
\* decrements of a line and announcements as events were delivered again.
OncePerDelivery == \A o \in Orders :
  LET deliveries == 1 + faults["redeliver"] IN
  /\ Cardinality(Rows(o)) <= deliveries
  /\ charges[o] <= deliveries
  /\ \A i \in Lines(o) : taken[o][i] <= deliveries
  /\ bus[Request("COMPLETED", o)] + bus[Request("FAILED", o)] <= deliveries

\* Without faults an order that has settled is in one of three outcomes,
\* and the three databases agree on which: sold, turned down before any
\* money or stock moved, or charged and refunded.
SettledOutcome == NoFaults => \A o \in Orders :
  Settled(o) =>
    \/ /\ orders[o] = "COMPLETED" /\ sagas[o].currentStep = "COMPLETED"
       /\ \E p \in Rows(o) : payments[p].status = "COMPLETED"
       /\ Deducted(o)
    \/ /\ orders[o] = "FAILED" /\ sagas[o].currentStep = "FAILED"
       /\ charges[o] = 0 /\ Untouched(o)
    \/ /\ orders[o] = "FAILED" /\ sagas[o].currentStep = "COMPENSATING"
       /\ \A p \in PaidRows(o) : payments[p].status = "REFUNDED"
       /\ Paid(o) /\ Untouched(o)

\* What the gateway has charged for o and no refund has given back.
Kept(o) == charges[o] - Cardinality({p \in Rows(o) : payments[p].status = "REFUNDED"})

\* A failed order that has come to rest keeps the customer's money at most
\* as often as something was delivered again or lost: refundPayment gives
\* back one row, however many there are, and nobody waits for it.  A gateway
\* or a deduction that fails, at whichever line, keeps none.
MoneyComesBack == \A o \in Orders :
  orders[o] = "FAILED" /\ Settled(o) => Kept(o) <= faults["redeliver"] + faults["lose"]

\* Some order line has taken product p.
SomeTook(p) == \E o \in Orders : \E i \in Lines(o) : Took(o, i, p)

\* At least two order lines have.
TwoTook(p) == \E o1, o2 \in Orders : \E i \in Lines(o1), j \in Lines(o2) :
  <<o1, i>> # <<o2, j>> /\ Took(o1, i, p) /\ Took(o2, j, p)

\* Operators alone never bring stock below zero, not even by saving what
\* they read long ago; and one order line does it only if a PATCH lowers
\* the stock between its check and its deduction, or if something is
\* delivered twice.  In every other case two lines overlap.
OversoldByTwo == \A p \in Products : stock[p] < 0 =>
  /\ SomeTook(p)
  /\ NoRedelivery /\ p \notin lowered => TwoTook(p)

\* An order that was accepted shows PROCESSING and nothing is on its way.
Stranded(o) == creating[o] = "done" /\ Settled(o) /\ orders[o] \notin Final

\* A saga comes to rest before its end only if a send was lost, and a lost
\* send strands one order: not what is delivered again, throws or overlaps.
LossesStrand == Cardinality({o \in Orders : Stranded(o)}) <= faults["lose"]

-----------------------------------------------------------------------------
(* Action properties.                                                      *)

\* Without redelivery the outcome a customer has seen is never replaced.
OutcomeIsFinal ==
  [][\A o \in Orders : NoRedelivery' /\ orders[o] \in Final => orders'[o] = orders[o]]_vars

\* The steps a saga row may show after each step; after the last ones none.
StepsAfter == [NONE                   |-> {"STOCK_CHECK_REQUESTED"},
               STOCK_CHECK_REQUESTED  |-> {"PAYMENT_REQUESTED", "FAILED"},
               PAYMENT_REQUESTED      |-> {"STOCK_DEDUCT_REQUESTED", "FAILED"},
               STOCK_DEDUCT_REQUESTED |-> {"COMPLETED", "COMPENSATING"},
               COMPLETED              |-> {},
               COMPENSATING           |-> {},
               FAILED                 |-> {}]

\* Without redelivery a saga row is never set back and passes over no step,
\* whichever replica writes it with an entity it read before; and it shows
\* FAILED, the end without a refund, only while nothing is charged.
SagaAdvances ==
  [][\A o \in Orders : NoRedelivery' /\ sagas'[o] # sagas[o] =>
       /\ sagas'[o].currentStep \in StepsAfter[sagas[o].currentStep]
       /\ sagas'[o].currentStep = "FAILED" => charges[o] = 0]_vars

-----------------------------------------------------------------------------
(* Liveness and refinement.                                                *)

\* An order that was accepted comes to COMPLETED or FAILED for good, also
\* when events are delivered again.
EveryOrderSettles == \A o \in Orders :
  orders[o] # "NONE" ~> [](orders[o] \in Final)

\* The order's money as the payments table shows it.
Money(o) == IF \E p \in Rows(o) : payments[p].status = "COMPLETED" THEN "charged"
            ELSE IF \E p \in Rows(o) : payments[p].status = "REFUNDED" THEN "refunded"
            ELSE "none"

Contract == INSTANCE SagaContract WITH status <- orders,
                                       money <- [o \in Orders |-> Money(o)]

\* Without redelivery every behaviour is one the contract allows.
KeepsContract == Contract!Spec

\* Without any fault the contract's promises are also fulfilled: an order
\* that was accepted ends, and a refund that is due is made.
FulfilsContract == []NoFaults => Contract!Fulfilment

-----------------------------------------------------------------------------
(* What the documents say and the code does not do.                        *)

\* UpdateStockDto declares stockQuantity with `minimum: 0`; the saga takes
\* stock with a bare decrement some time after it has checked it.
StockNeverNegative == \A p \in Products : stock[p] >= 0

\* README.md draws a payment behind the deduction ("stock.deduct.requested
\* -> payment.requested") and, if it fails, a compensation ("->
\* payment.refund.requested -> order.failed"; COMPENSATING is the step that
\* asks for it).  So an order whose payment has failed ought to have had
\* stock taken, or a refund asked for; in the code it has neither.
FailedPaymentIsUndone == \A o \in Orders :
  Settled(o) /\ orders[o] = "FAILED" /\ Rows(o) # {} =>
    ~Untouched(o) \/ sagas[o].currentStep = "COMPENSATING"

\* ProductsService.restoreStock is "Saga compensating transaction": the
\* lines a failed deduction had taken ought to be put back.
FailedOrderKeepsNoStock == \A o \in Orders :
  Settled(o) /\ orders[o] = "FAILED" => Untouched(o)

=============================================================================

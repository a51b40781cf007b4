------------------------- MODULE SagaOutcomeProofs -------------------------
(***************************************************************************)
(* Theorems about what the saga leaves behind: the money the payments      *)
(* table claims, the stock that was taken, the outcome on which the three  *)
(* databases agree, how often a redelivery repeats an effect, and which    *)
(* orders never come to an outcome.                                        *)
(***************************************************************************)
EXTENDS SagaTokenProofs

-----------------------------------------------------------------------------
(* Money: the payments table claims no more than the gateway has taken,    *)
(* whatever is redelivered, lost or rejected.                              *)

\* Replicas about to save a payment of o that the gateway has made.
Saving(o) == {w \in PaymentWorkers : /\ paymentWorker[w].pc = "save"
                                     /\ paymentWorker[w].success
                                     /\ paymentWorker[w].event.orderId = o}

\* Paid rows, and those about to be, are as many as the charges, or fewer.
\* The sets are finite although PaymentIds and PaymentWorkers need not be.
Covered(o) == /\ IsFiniteSet(PaidRows(o)) /\ IsFiniteSet(Saving(o))
              /\ Cardinality(PaidRows(o)) + Cardinality(Saving(o)) <= charges[o]

\* A replica that waits for the gateway has not recorded a success yet.
Undecided == \A w \in PaymentWorkers : paymentWorker[w].pc = "fire" => ~paymentWorker[w].success

MoneyInv == Undecided /\ \A o \in Orders : Covered(o)

-----------------------------------------------------------------------------
(* How an order stays covered.                                             *)

LEMMA CoveredSame ==
  ASSUME TypeOK, NEW o \in Orders, Covered(o), charges'[o] = charges[o],
         PaidRows(o)' = PaidRows(o), Saving(o)' \subseteq Saving(o)
  PROVE  Covered(o)'
<1>1. charges[o] \in Nat
  BY DEF TypeOK, PaymentTypeOK
<1>2. IsFiniteSet(Saving(o)') /\ Cardinality(Saving(o)') <= Cardinality(Saving(o))
  BY FS_Subset DEF Covered
<1>3. /\ Cardinality(Saving(o)') \in Nat /\ Cardinality(Saving(o)) \in Nat
      /\ Cardinality(PaidRows(o)) \in Nat
  BY <1>2, FS_CardinalityType DEF Covered
<1> QED BY <1>1, <1>2, <1>3 DEF Covered

\* The gateway takes money: a charge more, and a replica more that will say so.
LEMMA CoveredByCharge ==
  ASSUME TypeOK, NEW o \in Orders, Covered(o), NEW w, charges'[o] = charges[o] + 1,
         PaidRows(o)' = PaidRows(o), Saving(o)' = Saving(o) \cup {w}
  PROVE  Covered(o)'
<1>1. charges[o] \in Nat
  BY DEF TypeOK, PaymentTypeOK
<1>2. /\ IsFiniteSet(Saving(o)')
      /\ Cardinality(Saving(o)') \in {Cardinality(Saving(o)), Cardinality(Saving(o)) + 1}
  BY FS_AddElement DEF Covered
<1>3. Cardinality(Saving(o)) \in Nat /\ Cardinality(PaidRows(o)) \in Nat
  BY FS_CardinalityType DEF Covered
<1> QED BY <1>1, <1>2, <1>3 DEF Covered

\* A replica saves what it knows: it leaves, and a paid row more is there.
LEMMA CoveredBySave ==
  ASSUME TypeOK, NEW o \in Orders, Covered(o), charges'[o] = charges[o],
         NEW w \in Saving(o), Saving(o)' = Saving(o) \ {w},
         NEW p, PaidRows(o)' = PaidRows(o) \cup {p}
  PROVE  Covered(o)'
<1>1. charges[o] \in Nat
  BY DEF TypeOK, PaymentTypeOK
<1>2. /\ IsFiniteSet(Saving(o)')
      /\ Cardinality(Saving(o)') = Cardinality(Saving(o)) - 1
  BY FS_RemoveElement DEF Covered
<1>3. /\ IsFiniteSet(PaidRows(o)')
      /\ Cardinality(PaidRows(o)') \in {Cardinality(PaidRows(o)), Cardinality(PaidRows(o)) + 1}
  BY FS_AddElement DEF Covered
<1>4. Cardinality(Saving(o)) \in Nat /\ Cardinality(PaidRows(o)) \in Nat
  BY FS_CardinalityType DEF Covered
<1> QED BY <1>1, <1>2, <1>3, <1>4 DEF Covered

-----------------------------------------------------------------------------
(* The steps of payment-service.                                           *)

LEMMA ReceivePaymentCovers ==
  ASSUME IInv, MoneyInv, NEW w \in PaymentWorkers, NEW e \in Requests, NEW p \in PaymentIds,
         ReceivePayment(w, e, p)
  PROVE  MoneyInv'
<1>1. TypeOK
  BY DEF IInv
<1>2. /\ payments[p] = NoPayment /\ charges' = charges
      /\ payments' = [payments EXCEPT ![p] = [orderId |-> e.orderId, status |-> "PENDING"]]
      /\ paymentWorker' = [paymentWorker EXCEPT ![w] =
                             [pc |-> "fire", event |-> e, payment |-> p, success |-> FALSE]]
  BY DEF ReceivePayment
<1>3. paymentWorker'[w].pc = "fire" /\ ~paymentWorker'[w].success
  BY <1>1, <1>2 DEF TypeOK, PaymentTypeOK
<1>4. \A v \in PaymentWorkers \ {w} : paymentWorker'[v] = paymentWorker[v]
  BY <1>1, <1>2 DEF TypeOK, PaymentTypeOK
<1>5. Undecided'
  BY <1>3, <1>4 DEF MoneyInv, Undecided
<1>6. ASSUME NEW o \in Orders PROVE Covered(o)'
  <2>1. Saving(o)' \subseteq Saving(o)
    BY <1>3, <1>4 DEF Saving
  <2>2. payments'[p].status = "PENDING" /\ payments[p].status = "NONE"
    BY <1>1, <1>2 DEF TypeOK, PaymentTypeOK, NoPayment
  <2>3. \A q \in PaymentIds \ {p} : payments'[q] = payments[q]
    BY <1>1, <1>2 DEF TypeOK, PaymentTypeOK
  <2>4. PaidRows(o)' = PaidRows(o)
    BY <2>2, <2>3 DEF PaidRows, Rows
  <2> QED BY <1>1, <1>2, <2>1, <2>4, CoveredSame DEF MoneyInv
<1> QED BY <1>5, <1>6 DEF MoneyInv

\* A step after which the replica w is idle, refunds or redelivers, and the
\* payments table is what it was.
LEMMA WorkerLeavesCovers ==
  ASSUME IInv, MoneyInv, NEW w \in PaymentWorkers, UNCHANGED <<payments, charges>>,
         \A v \in PaymentWorkers \ {w} : paymentWorker'[v] = paymentWorker[v],
         paymentWorker'[w].pc \notin {"fire", "save"} \/ paymentWorker'[w] = paymentWorker[w]
  PROVE  MoneyInv'
<1>1. Undecided'
  BY DEF MoneyInv, Undecided
<1>2. ASSUME NEW o \in Orders PROVE Covered(o)'
  <2>1. Saving(o)' \subseteq Saving(o)
    BY DEF Saving
  <2>2. PaidRows(o)' = PaidRows(o)
    BY DEF PaidRows, Rows
  <2> QED BY <2>1, <2>2, CoveredSame DEF MoneyInv, IInv
<1> QED BY <1>1, <1>2 DEF MoneyInv

LEMMA ReceiveRefundCovers ==
  ASSUME IInv, MoneyInv, NEW w \in PaymentWorkers, NEW e \in Requests, ReceiveRefund(w, e)
  PROVE  MoneyInv'
<1>1. PaymentTypeOK /\ UNCHANGED <<payments, charges>>
  BY DEF IInv, TypeOK, ReceiveRefund
<1>2. CASE UNCHANGED paymentWorker
  BY <1>1, <1>2, WorkerLeavesCovers
<1>3. ASSUME NEW p \in Refundable(e.orderId),
             paymentWorker' = [paymentWorker EXCEPT ![w] =
               [pc |-> "saveRefund", event |-> e, payment |-> p, success |-> TRUE]]
      PROVE  MoneyInv'
  <2>1. /\ paymentWorker'[w].pc = "saveRefund"
        /\ \A v \in PaymentWorkers \ {w} : paymentWorker'[v] = paymentWorker[v]
    BY <1>1, <1>3 DEF PaymentTypeOK
  <2> QED BY <1>1, <2>1, WorkerLeavesCovers
<1> QED BY <1>2, <1>3 DEF ReceiveRefund

LEMMA FireSucceedsCovers ==
  ASSUME IInv, MoneyInv, NEW w \in PaymentWorkers, FireSucceeds(w)
  PROVE  MoneyInv'
<1> DEFINE job == paymentWorker[w]
           x   == job.event.orderId
<1>1. TypeOK
  BY DEF IInv
<1>2. /\ job.pc = "fire" /\ payments' = payments
      /\ charges' = [charges EXCEPT ![x] = @ + 1]
      /\ paymentWorker' = [paymentWorker EXCEPT ![w] = [job EXCEPT !.pc = "save", !.success = TRUE]]
  BY DEF FireSucceeds
<1>3. job \in BusyPaymentWorker /\ x \in Orders
  BY <1>1, <1>2 DEF TypeOK, PaymentTypeOK, IdlePaymentWorker, BusyPaymentWorker, Requests
<1>4. /\ paymentWorker'[w].pc = "save" /\ paymentWorker'[w].success
      /\ paymentWorker'[w].event = job.event
      /\ \A v \in PaymentWorkers \ {w} : paymentWorker'[v] = paymentWorker[v]
  BY <1>1, <1>2, <1>3 DEF TypeOK, PaymentTypeOK, BusyPaymentWorker
<1>5. Undecided'
  BY <1>4 DEF MoneyInv, Undecided
<1>6. ASSUME NEW o \in Orders PROVE Covered(o)'
  <2>1. PaidRows(o)' = PaidRows(o)
    BY <1>2 DEF PaidRows, Rows
  <2>2. CASE o = x
    <3>1. Saving(o)' = Saving(o) \cup {w}
      BY <1>4, <2>2 DEF Saving
    <3>2. charges'[o] = charges[o] + 1
      BY <1>1, <1>2, <2>2 DEF TypeOK, PaymentTypeOK
    <3> QED BY <1>1, <2>1, <3>1, <3>2, CoveredByCharge DEF MoneyInv
  <2>3. CASE o # x
    <3>1. Saving(o)' \subseteq Saving(o)
      BY <1>4, <2>3 DEF Saving
    <3>2. charges'[o] = charges[o]
      BY <1>1, <1>2, <1>3, <2>3 DEF TypeOK, PaymentTypeOK
    <3> QED BY <1>1, <2>1, <3>1, <3>2, CoveredSame DEF MoneyInv
  <2> QED BY <2>2, <2>3
<1> QED BY <1>5, <1>6 DEF MoneyInv

LEMMA FireFailsCovers ==
  ASSUME IInv, MoneyInv, NEW w \in PaymentWorkers, FireFails(w)
  PROVE  MoneyInv'
<1>1. TypeOK
  BY DEF IInv
<1>2. /\ paymentWorker[w].pc = "fire" /\ UNCHANGED <<payments, charges>>
      /\ paymentWorker' = [paymentWorker EXCEPT ![w] = [paymentWorker[w] EXCEPT !.pc = "save"]]
  BY DEF FireFails
<1>3. paymentWorker[w] \in BusyPaymentWorker /\ ~paymentWorker[w].success
  BY <1>1, <1>2 DEF TypeOK, PaymentTypeOK, IdlePaymentWorker, MoneyInv, Undecided
<1>4. /\ paymentWorker'[w].pc = "save" /\ ~paymentWorker'[w].success
      /\ \A v \in PaymentWorkers \ {w} : paymentWorker'[v] = paymentWorker[v]
  BY <1>1, <1>2, <1>3 DEF TypeOK, PaymentTypeOK, BusyPaymentWorker
<1>5. Undecided'
  BY <1>4 DEF MoneyInv, Undecided
<1>6. ASSUME NEW o \in Orders PROVE Covered(o)'
  <2>1. PaidRows(o)' = PaidRows(o)
    BY <1>2 DEF PaidRows, Rows
  <2>2. Saving(o)' \subseteq Saving(o)
    BY <1>4 DEF Saving
  <2> QED BY <1>1, <1>2, <2>1, <2>2, CoveredSame DEF MoneyInv
<1> QED BY <1>5, <1>6 DEF MoneyInv

LEMMA SavePaymentCovers ==
  ASSUME IInv, MoneyInv, NEW w \in PaymentWorkers, SavePayment(w)
  PROVE  MoneyInv'
<1> DEFINE job == paymentWorker[w]
           p   == job.payment
           x   == job.event.orderId
<1>1. TypeOK /\ PaymentJobs
  BY DEF IInv
<1>2. /\ job.pc = "save" /\ charges' = charges
      /\ payments' = [payments EXCEPT ![p].status = IF job.success THEN "COMPLETED" ELSE "FAILED"]
      /\ paymentWorker' = [paymentWorker EXCEPT ![w].pc = "emit"]
  BY DEF SavePayment
<1>3. /\ job \in BusyPaymentWorker /\ job # IdlePaymentWorker /\ x \in Orders
      /\ p \in PaymentIds /\ payments[p] # NoPayment
  BY <1>1, <1>2 DEF TypeOK, PaymentTypeOK, IdlePaymentWorker, BusyPaymentWorker, Requests
<1>4. payments[p].orderId = x /\ payments[p].status = "PENDING" /\ payments[p] \in Payment
  BY <1>1, <1>2, <1>3 DEF PaymentJobs, TypeOK, PaymentTypeOK
<1>5. /\ paymentWorker'[w].pc = "emit"
      /\ \A v \in PaymentWorkers \ {w} : paymentWorker'[v] = paymentWorker[v]
  BY <1>1, <1>2, <1>3 DEF TypeOK, PaymentTypeOK, BusyPaymentWorker
<1>6. /\ payments'[p].orderId = x /\ payments'[p] # NoPayment
      /\ payments'[p].status = IF job.success THEN "COMPLETED" ELSE "FAILED"
      /\ \A q \in PaymentIds \ {p} : payments'[q] = payments[q]
  BY <1>1, <1>2, <1>3, <1>4 DEF TypeOK, PaymentTypeOK, Payment, NoPayment
<1>7. Undecided'
  BY <1>5 DEF MoneyInv, Undecided
<1>8. ASSUME NEW o \in Orders PROVE Covered(o)'
  <2>1. CASE job.success /\ o = x
    <3>1. w \in Saving(o) /\ Saving(o)' = Saving(o) \ {w}
      BY <1>2, <1>5, <2>1 DEF Saving
    <3>2. PaidRows(o)' = PaidRows(o) \cup {p}
      BY <1>3, <1>6, <2>1 DEF PaidRows, Rows
    <3> QED BY <1>1, <1>2, <3>1, <3>2, CoveredBySave DEF MoneyInv
  <2>2. CASE ~job.success \/ o # x
    <3>1. Saving(o)' \subseteq Saving(o)
      BY <1>5 DEF Saving
    <3>2. PaidRows(o)' = PaidRows(o)
      BY <1>3, <1>4, <1>6, <2>2 DEF PaidRows, Rows
    <3> QED BY <1>1, <1>2, <3>1, <3>2, CoveredSame DEF MoneyInv
  <2> QED BY <2>1, <2>2
<1> QED BY <1>7, <1>8 DEF MoneyInv

LEMMA SaveRefundCovers ==
  ASSUME IInv, MoneyInv, NEW w \in PaymentWorkers, SaveRefund(w)
  PROVE  MoneyInv'
<1> DEFINE p == paymentWorker[w].payment
<1>1. TypeOK /\ PaymentJobs
  BY DEF IInv
<1>2. /\ paymentWorker[w].pc = "saveRefund" /\ charges' = charges
      /\ payments' = [payments EXCEPT ![p].status = "REFUNDED"]
      /\ paymentWorker' = [paymentWorker EXCEPT ![w] = IdlePaymentWorker]
  BY DEF SaveRefund
<1>3. /\ paymentWorker[w] # IdlePaymentWorker /\ p \in PaymentIds /\ payments[p] \in Payment
      /\ payments[p].status \in {"COMPLETED", "REFUNDED"}
  BY <1>1, <1>2 DEF TypeOK, PaymentTypeOK, IdlePaymentWorker, BusyPaymentWorker, PaymentJobs
<1>4. /\ paymentWorker'[w].pc = "idle"
      /\ \A v \in PaymentWorkers \ {w} : paymentWorker'[v] = paymentWorker[v]
  BY <1>1, <1>2 DEF TypeOK, PaymentTypeOK, IdlePaymentWorker
<1>5. /\ payments'[p].orderId = payments[p].orderId /\ payments'[p].status = "REFUNDED"
      /\ payments[p] # NoPayment /\ payments'[p] # NoPayment
      /\ \A q \in PaymentIds \ {p} : payments'[q] = payments[q]
  BY <1>1, <1>2, <1>3 DEF TypeOK, PaymentTypeOK, Payment, NoPayment
<1>6. Undecided'
  BY <1>4 DEF MoneyInv, Undecided
<1>7. ASSUME NEW o \in Orders PROVE Covered(o)'
  <2>1. Saving(o)' \subseteq Saving(o)
    BY <1>4 DEF Saving
  <2>2. PaidRows(o)' = PaidRows(o)
    BY <1>3, <1>5 DEF PaidRows, Rows
  <2> QED BY <1>1, <1>2, <2>1, <2>2, CoveredSame DEF MoneyInv
<1> QED BY <1>6, <1>7 DEF MoneyInv

LEMMA PaymentLeavesCovers ==
  ASSUME IInv, MoneyInv, NEW w \in PaymentWorkers,
         EmitPaymentResult(w) \/ RedeliverPaymentRequest(w)
  PROVE  MoneyInv'
<1>1. /\ UNCHANGED <<payments, charges>>
      /\ \/ paymentWorker' = [paymentWorker EXCEPT ![w] = IdlePaymentWorker]
         \/ UNCHANGED paymentWorker
  BY DEF EmitPaymentResult, RedeliverPaymentRequest
<1>2. /\ \A v \in PaymentWorkers \ {w} : paymentWorker'[v] = paymentWorker[v]
      /\ paymentWorker'[w].pc = "idle" \/ paymentWorker'[w] = paymentWorker[w]
  BY <1>1 DEF IInv, TypeOK, PaymentTypeOK, IdlePaymentWorker
<1> QED BY <1>1, <1>2, WorkerLeavesCovers

-----------------------------------------------------------------------------
LEMMA InitMoney == Init => MoneyInv
<1> SUFFICES ASSUME Init PROVE MoneyInv
  OBVIOUS
<1>1. \A w \in PaymentWorkers : paymentWorker[w].pc = "idle"
  BY DEF Init, PaymentInit, IdlePaymentWorker
<1>2. ASSUME NEW o \in Orders PROVE PaidRows(o) = {} /\ Saving(o) = {} /\ charges[o] = 0
  BY <1>1 DEF Init, PaymentInit, PaidRows, Rows, Saving
<1> QED BY <1>1, <1>2, FS_EmptySet DEF MoneyInv, Undecided, Covered

LEMMA NextMoney == IInv /\ MoneyInv /\ [Next]_vars => MoneyInv'
<1> SUFFICES ASSUME IInv, MoneyInv, [Next]_vars PROVE MoneyInv'
  OBVIOUS
<1>1. CASE UNCHANGED paymentVars
  BY <1>1 DEF paymentVars, MoneyInv, Undecided, Covered, Saving, PaidRows, Rows
<1>2. CASE PaymentNext
  BY <1>2, ReceivePaymentCovers, ReceiveRefundCovers, FireSucceedsCovers, FireFailsCovers,
     SavePaymentCovers, SaveRefundCovers, PaymentLeavesCovers
     DEF PaymentNext, ReceivePaymentRequest, PaymentWorkerStep
<1> QED BY <1>1, <1>2 DEF Next, vars

\* The paid rows of an order never outnumber the charges the gateway made
\* for it (processPayment saves after the gateway, refundPayment keeps rows).
THEOREM ClaimsAreCharged == Spec => []PaidRowsAreCharged
<1>1. MoneyInv => PaidRowsAreCharged
  BY DEF MoneyInv, Covered, Saving, PaidRowsAreCharged
<1> QED BY <1>1, InitMoney, NextMoney, Invariance, PTL DEF Spec

-----------------------------------------------------------------------------
(* Stock: what checkStock promises about the lines deductStock takes.      *)
(* Once a line was affordable, only two things make its product scarcer:   *)
(* another line takes of it, or an operator lowers its stock; and both are *)
(* remembered.                                                             *)

Affordable(o, i) ==
  LET item == cart[o].items[i]
  IN  \/ item.productId \in lowered
      \/ SomeTook(item.productId)
      \/ item.quantity <= stock[item.productId]

Fulfillable(o) == \A i \in Lines(o) : Affordable(o, i)

\* The saga has passed its stock check when e is sent.
PastCheck(e) ==
  \/ e.topic = "STOCK_CHECK_RESULT" /\ e.success
  \/ e.topic \in {"PAYMENT_REQUESTED", "PAYMENT_RESULT", "STOCK_DEDUCT_REQUESTED"}

EventsChecked == \A e \in Events : InFlight(e) /\ PastCheck(e) => Fulfillable(e.orderId)

\* checkStock has found the lines before the one it is at affordable.
CheckJob(job) ==
  /\ job.pc = "check" => \A i \in Lines(job.event.orderId) :
                           i < job.line => Affordable(job.event.orderId, i)
  /\ job.pc = "emit" /\ job.success /\ job.event.topic = "STOCK_CHECK_REQUESTED" =>
       Fulfillable(job.event.orderId)

CheckJobs == \A w \in StockWorkers : CheckJob(stockWorker[w])

\* A payment is processed, or refunded, because it was asked for.
AskedFor(job) ==
  /\ job.pc \in {"fire", "save", "emit"} => job.event.topic = "PAYMENT_REQUESTED"
  /\ job.pc = "saveRefund" => job.event.topic = "PAYMENT_REFUND_REQUESTED"

PaymentAsked == \A w \in PaymentWorkers : AskedFor(paymentWorker[w])

\* Stock is below zero, or about to be set so by a PATCH that read it below
\* zero, only if some line has taken the product.
BelowMeansTaken ==
  /\ \A p \in Products : stock[p] < 0 => SomeTook(p)
  /\ \A a \in Operators, p \in Products :
       patch[a].pc = "save" /\ patch[a].productId = p /\ patch[a].stockQuantity < 0 => SomeTook(p)

StockInv == EventsChecked /\ CheckJobs /\ PaymentAsked /\ BelowMeansTaken

-----------------------------------------------------------------------------
(* How stock moves.                                                        *)

\* Stock is written by deductStock, for the line its handler is at, and by
\* the operators.
LEMMA StockTaken ==
  ASSUME [Next]_vars
  PROVE  \/ UNCHANGED <<stock, taken, patch, lowered>>
         \/ /\ UNCHANGED <<patch, lowered>>
            /\ \E w \in StockWorkers :
                 /\ stockWorker[w].pc = "deduct"
                 /\ Decrement(stockWorker[w].event.orderId, stockWorker[w].line)
         \/ OperatorStep
<1>1. CASE StockNext
  <2>1. ASSUME NEW w \in StockWorkers, DeductLine(w) \/ DeductThrows(w)
        PROVE  /\ UNCHANGED <<patch, lowered>>
               /\ \/ UNCHANGED <<stock, taken>>
                  \/ /\ stockWorker[w].pc = "deduct"
                     /\ Decrement(stockWorker[w].event.orderId, stockWorker[w].line)
    BY <2>1 DEF DeductLine, DeductThrows, products
  <2>2. ASSUME NEW w \in StockWorkers,
               \/ \E e \in Requests : ReceiveStockRequest(w, e)
               \/ CheckLine(w) \/ EmitStockResult(w) \/ RedeliverStockRequest(w)
        PROVE  UNCHANGED <<stock, taken, patch, lowered>>
    BY <2>2 DEF ReceiveStockRequest, CheckLine, EmitStockResult, RedeliverStockRequest, products
  <2> QED BY <1>1, <2>1, <2>2 DEF StockNext, StockWorkerStep
<1> QED BY <1>1 DEF Next, vars, stockVars

\* What a handler at a line holds.
LEMMA DeductingJob ==
  ASSUME IInv, NEW w \in StockWorkers, NEW job, stockWorker[w] = job, job.pc = "deduct"
  PROVE  /\ job.event \in Events /\ InFlight(job.event)
         /\ job.event.topic = "STOCK_DEDUCT_REQUESTED"
         /\ job.event.orderId \in Orders /\ job.line \in Lines(job.event.orderId)
<1>1. job \in BusyStockWorker /\ job # IdleStockWorker /\ job.line \in Lines(job.event.orderId)
  BY DEF IInv, TypeOK, StockTypeOK, IdleStockWorker
<1>2. job.event \in Events /\ job.event.orderId \in Orders
  BY <1>1 DEF BusyStockWorker, Requests, Events
<1>3. InFlight(job.event)
  BY <1>1 DEF InFlight, HeldByStock
<1> QED BY <1>1, <1>2, <1>3 DEF IInv, StockJobs, StockJob

\* A decrement of line i of o takes its quantity, or nothing.
LEMMA DecrementTakes ==
  ASSUME TypeOK, NEW o \in Orders, NEW i \in Lines(o), Decrement(o, i)
  PROVE  LET item == cart[o].items[i]
         IN  /\ item.productId \in Products /\ item.quantity \in Nat
             /\ \/ UNCHANGED <<stock, taken>>
                \/ /\ stock'[item.productId] = stock[item.productId] - item.quantity
                   /\ \A p \in Products \ {item.productId} : stock'[p] = stock[p]
                   /\ taken'[o][i] > 0
<1>1. cart[o].items[i].productId \in Products /\ cart[o].items[i].quantity \in Nat
  BY LinesOf DEF TypeOK
<1>2. stock \in [Products -> Int]
  BY DEF TypeOK, StockTypeOK
<1> QED BY <1>1, <1>2, DecrementCounts DEF Decrement

\* An operator's save sets the stock it holds, and is remembered if that is
\* less than before.
LEMMA OperatorSets ==
  ASSUME StockTypeOK, OperatorStep, NEW p \in Products
  PROVE  /\ \/ stock'[p] = stock[p]
            \/ \E a \in Operators : /\ patch[a].pc = "save" /\ patch[a].productId = p
                                    /\ stock'[p] = patch[a].stockQuantity
         /\ stock'[p] >= stock[p] \/ p \in lowered'
<1> USE DEF StockTypeOK
<1>1. CASE UNCHANGED stock
  BY <1>1
<1>2. ASSUME NEW a \in Operators, SavePatch(a)
      PROVE  /\ \/ stock'[p] = stock[p]
                \/ /\ patch[a].pc = "save" /\ patch[a].productId = p
                   /\ stock'[p] = patch[a].stockQuantity
             /\ stock'[p] >= stock[p] \/ p \in lowered'
  <2>1. patch[a].productId \in Products /\ patch[a].stockQuantity \in Int
    BY <1>2 DEF SavePatch, Patch, NoPatch
  <2> QED BY <1>2, <2>1 DEF SavePatch
<1> QED BY <1>1, <1>2 DEF OperatorStep, RemoveProduct, FindToPatch

\* What is taken stays taken, and what was lowered stays on record.
LEMMA TakersStay ==
  ASSUME IInv, [Next]_vars
  PROVE  /\ lowered \subseteq lowered'
         /\ \A o \in Orders : \A i \in Lines(o), p \in Products : Took(o, i, p) => Took(o, i, p)'
         /\ \A p \in Products : SomeTook(p) => SomeTook(p)'
         /\ \A p \in Products : TwoTook(p) => TwoTook(p)'
<1>1. cart' = cart /\ \A o \in Orders : Lines(o)' = Lines(o)
  BY DEF Next, vars, Lines
<1>2. lowered \subseteq lowered'
  BY StockTaken, OperatorMoves DEF IInv, TypeOK
<1>3. \A o \in Orders : \A i \in Lines(o) :
        /\ taken'[o][i] >= taken[o][i] /\ taken[o][i] \in Nat /\ taken'[o][i] \in Nat
  <2>1. \A o \in Orders : \A i \in Lines(o) : taken[o][i] \in Nat
    BY DEF IInv, TypeOK, StockTypeOK
  <2>2. TypeOK'
    BY NextType DEF IInv
  <2>3. \A o \in Orders : \A i \in Lines(o) : taken'[o][i] \in Nat
    BY <1>1, <2>2 DEF TypeOK, StockTypeOK
  <2>4. CASE taken' = taken
    BY <2>1, <2>4
  <2>5. CASE StockNext
    BY <1>1, <2>1, <2>3, <2>5, TakenGrows
  <2> QED BY <2>4, <2>5 DEF Next, vars, stockVars
<1>4. \A o \in Orders : \A i \in Lines(o), p \in Products : Took(o, i, p) => Took(o, i, p)'
  BY <1>1, <1>3 DEF Took
<1>5. ASSUME NEW p \in Products, SomeTook(p) PROVE SomeTook(p)'
  BY <1>1, <1>4, <1>5 DEF SomeTook
<1>6. ASSUME NEW p \in Products, TwoTook(p) PROVE TwoTook(p)'
  BY <1>1, <1>4, <1>6 DEF TwoTook
<1> QED BY <1>2, <1>4, <1>5, <1>6

\* A deduction that changes the stock of a product is one that took it.
LEMMA DecrementIsKnown ==
  ASSUME IInv, [Next]_vars, NEW p \in Products,
         NEW w \in StockWorkers, stockWorker[w].pc = "deduct",
         Decrement(stockWorker[w].event.orderId, stockWorker[w].line)
  PROVE  stock'[p] = stock[p] \/ SomeTook(p)'
<1>0. PICK o \in Orders : \E i \in Lines(o) : Decrement(o, i)
  BY DeductingJob
<1>1. PICK i \in Lines(o) : Decrement(o, i)
  BY <1>0
<1>2. PICK item : item = cart[o].items[i]
  OBVIOUS
<1>3. \/ UNCHANGED stock
      \/ taken'[o][i] > 0 /\ \A r \in Products \ {item.productId} : stock'[r] = stock[r]
  BY <1>1, <1>2, DecrementTakes DEF IInv
<1>4. cart' = cart /\ Lines(o)' = Lines(o)
  BY DEF Next, vars, Lines
<1>5. p = item.productId /\ taken'[o][i] > 0 => SomeTook(p)'
  BY <1>2, <1>4 DEF SomeTook, Took
<1> QED BY <1>3, <1>5

\* Whatever makes a product scarcer leaves its record.
LEMMA ScarcerIsKnown ==
  ASSUME IInv, [Next]_vars, NEW p \in Products
  PROVE  stock'[p] >= stock[p] \/ p \in lowered' \/ SomeTook(p)'
<1>1. stock[p] \in Int /\ StockTypeOK
  BY DEF IInv, TypeOK, StockTypeOK
<1> QED BY <1>1, StockTaken, DecrementIsKnown, OperatorSets

LEMMA BelowMeansTakenStep ==
  ASSUME IInv, BelowMeansTaken, [Next]_vars
  PROVE  BelowMeansTaken'
<1>1. StockTypeOK /\ stock \in [Products -> Int]
  BY DEF IInv, TypeOK, StockTypeOK
<1>2. ASSUME NEW a \in Operators, patch[a].pc = "save"
      PROVE  patch[a].productId \in Products
  BY <1>1, <1>2 DEF StockTypeOK, Patch, NoPatch
<1>3. ASSUME NEW p \in Products, stock'[p] < 0
      PROVE  SomeTook(p)'
  <2>1. CASE stock'[p] = stock[p]
    BY <1>3, <2>1, TakersStay DEF BelowMeansTaken
  <2>2. ASSUME NEW a \in Operators, patch[a].pc = "save", patch[a].productId = p,
               stock'[p] = patch[a].stockQuantity
        PROVE  SomeTook(p)'
    BY <1>3, <2>2, TakersStay DEF BelowMeansTaken
  <2> QED BY <1>1, <2>1, <2>2, StockTaken, DecrementIsKnown, OperatorSets
<1>4. ASSUME NEW a \in Operators, NEW r \in Products,
             patch'[a].pc = "save", patch'[a].productId = r, patch'[a].stockQuantity < 0
      PROVE  SomeTook(r)'
  <2>1. CASE patch'[a] = patch[a]
    BY <1>4, <2>1, TakersStay DEF BelowMeansTaken
  <2>2. ASSUME NEW b \in Operators, NEW p \in Products, FindToPatch(b, p)
        PROVE  SomeTook(r)'
    <3>1. PICK q \in StockLevels \cup {stock[p]} :
            patch' = [patch EXCEPT ![b] = [pc |-> "save", productId |-> p, stockQuantity |-> q]]
      BY <2>2 DEF FindToPatch
    <3>2. CASE a = b
      <4>1. p = r /\ q < 0
        BY <1>1, <1>4, <3>1, <3>2 DEF StockTypeOK
      <4>2. q \notin StockLevels
        BY <4>1, StockAssumption
      <4>3. stock[r] < 0
        BY <3>1, <4>1, <4>2
      <4> QED BY <4>3, TakersStay DEF BelowMeansTaken
    <3>3. patch'[a] = patch[a] \/ a = b
      BY <1>1, <3>1 DEF StockTypeOK
    <3> QED BY <2>1, <3>2, <3>3
  <2>3. ASSUME NEW b \in Operators, SavePatch(b)
        PROVE  patch'[a] = patch[a]
    BY <1>1, <1>4, <2>3 DEF SavePatch, StockTypeOK, NoPatch
  <2>4. CASE OperatorStep
    BY <2>1, <2>2, <2>3, <2>4 DEF OperatorStep, RemoveProduct
  <2>5. CASE UNCHANGED patch
    BY <2>1, <2>5
  <2> QED BY <2>4, <2>5, StockTaken
<1> QED BY <1>3, <1>4 DEF BelowMeansTaken

-----------------------------------------------------------------------------
(* What the stock check promises.                                          *)

\* A job that is idle or about an order of the shop.
Known(job) == job = IdleStockWorker \/ job.event.orderId \in Orders

\* What was affordable stays so, or somebody has made it scarce.
LEMMA AffordableStays ==
  ASSUME IInv, [Next]_vars
  PROVE  /\ \A o \in Orders : Fulfillable(o) => Fulfillable(o)'
         /\ \A job : Known(job) /\ CheckJob(job) => CheckJob(job)'
<1>1. cart' = cart /\ \A o \in Orders : Lines(o)' = Lines(o)
  BY DEF Next, vars, Lines
<1>2. ASSUME NEW o \in Orders, NEW i \in Lines(o), Affordable(o, i)
      PROVE  Affordable(o, i)'
  <2>1. PICK item : item = cart[o].items[i]
    OBVIOUS
  <2>2. PICK p : p = item.productId
    OBVIOUS
  <2>3. p \in Products /\ item.quantity \in Nat
    BY <2>1, <2>2, LinesOf DEF IInv, TypeOK
  <2>4. TypeOK'
    BY NextType DEF IInv
  <2>5. stock[p] \in Int /\ stock'[p] \in Int
    BY <2>3, <2>4 DEF IInv, TypeOK, StockTypeOK
  <2>6. p \in lowered \/ SomeTook(p) \/ item.quantity <= stock[p]
    BY <1>2, <2>1, <2>2 DEF Affordable
  <2>7. p \in lowered' \/ SomeTook(p)' \/ item.quantity <= stock'[p]
    BY <2>3, <2>5, <2>6, TakersStay, ScarcerIsKnown
  <2> QED BY <1>1, <2>1, <2>2, <2>7 DEF Affordable
<1>3. ASSUME NEW o \in Orders, Fulfillable(o) PROVE Fulfillable(o)'
  BY <1>1, <1>2, <1>3 DEF Fulfillable
<1>4. ASSUME NEW job, Known(job), CheckJob(job) PROVE CheckJob(job)'
  <2>1. CASE job = IdleStockWorker
    BY <2>1 DEF CheckJob, IdleStockWorker
  <2>2. CASE job.event.orderId \in Orders
    BY <1>1, <1>2, <1>3, <1>4, <2>2 DEF CheckJob
  <2> QED BY <1>4, <2>1, <2>2 DEF Known
<1> QED BY <1>3, <1>4

\* The saga goes on from a check that succeeded.
LEMMA SendableChecked ==
  ASSUME IInv, EventsChecked, CheckJobs, PaymentAsked, NEW e \in Events, Sendable(e), PastCheck(e)
  PROVE  Fulfillable(e.orderId)
<1> USE DEF IInv, TypeOK
<1>1. ASSUME NEW o \in Orders, e = Request("STOCK_CHECK_REQUESTED", o) PROVE FALSE
  BY <1>1 DEF PastCheck, Request
<1>2. ASSUME NEW w \in OrderWorkers, orderWorker[w].pc = "emit",
             NEW t \in TopicsAt(NextStep(orderWorker[w].event)),
             e = Request(t, orderWorker[w].event.orderId)
      PROVE  Fulfillable(e.orderId)
  <2>1. PICK job : job = orderWorker[w]
    OBVIOUS
  <2>2. job \in BusyOrderWorker /\ job.event \in Results /\ job.event \in Events
        /\ job # IdleOrderWorker
    BY <1>2, <2>1 DEF OrderTypeOK, BusyOrderWorker, IdleOrderWorker, Events
  <2>3. e.topic = t /\ e.orderId = job.event.orderId
    BY <1>2, <2>1 DEF Request
  <2>4. t \in {"PAYMENT_REQUESTED", "STOCK_DEDUCT_REQUESTED"}
    <3>1. t \in {"PAYMENT_REQUESTED", "STOCK_DEDUCT_REQUESTED", "COMPLETED", "FAILED",
                 "PAYMENT_REFUND_REQUESTED"}
      BY <1>2, <2>1, <2>2 DEF TopicsAt, NextStep, OnSuccess, OnFailure, Results, ResultTopics
    <3> QED BY <2>3, <3>1 DEF PastCheck
  <2>5. PastCheck(job.event)
    BY <1>2, <2>1, <2>2, <2>4
       DEF PastCheck, TopicsAt, NextStep, OnSuccess, OnFailure, Results, ResultTopics
  <2>6. InFlight(job.event)
    BY <2>1, <2>2 DEF InFlight, HeldByOrder
  <2> QED BY <2>2, <2>3, <2>5, <2>6 DEF EventsChecked
<1>3. ASSUME NEW w \in StockWorkers, stockWorker[w].pc = "emit",
             e = Result(ResultTopicOf(stockWorker[w].event), stockWorker[w].event.orderId,
                        stockWorker[w].success)
      PROVE  Fulfillable(e.orderId)
  <2>1. PICK job : job = stockWorker[w]
    OBVIOUS
  <2>2. job.event.topic = "STOCK_CHECK_REQUESTED" /\ job.success /\ e.orderId = job.event.orderId
    BY <1>3, <2>1 DEF PastCheck, Result, ResultTopicOf
  <2> QED BY <1>3, <2>1, <2>2 DEF CheckJobs, CheckJob
<1>4. ASSUME NEW w \in PaymentWorkers, paymentWorker[w].pc = "emit",
             e = Result("PAYMENT_RESULT", paymentWorker[w].event.orderId, paymentWorker[w].success)
      PROVE  Fulfillable(e.orderId)
  <2>1. PICK job : job = paymentWorker[w]
    OBVIOUS
  <2>2. job.event \in Events /\ job # IdlePaymentWorker
    BY <1>4, <2>1 DEF PaymentTypeOK, BusyPaymentWorker, IdlePaymentWorker, Events
  <2>3. PastCheck(job.event) /\ InFlight(job.event)
    BY <1>4, <2>1, <2>2 DEF PaymentAsked, AskedFor, PastCheck, InFlight, HeldByPayment
  <2> QED BY <1>4, <2>1, <2>2, <2>3 DEF EventsChecked, Result
<1> QED BY <1>1, <1>2, <1>3, <1>4 DEF Sendable

LEMMA EventsCheckedStep ==
  ASSUME IInv, StockInv, Next
  PROVE  EventsChecked'
<1>1. ASSUME NEW e \in Events, InFlight(e)', PastCheck(e) PROVE Fulfillable(e.orderId)
  BY <1>1, StepEvents, SendableChecked DEF StockInv, EventsChecked
<1>2. \A e \in Events : e.orderId \in Orders
  BY DEF Events, Requests, Results
<1> QED BY <1>1, <1>2, AffordableStays DEF EventsChecked, PastCheck

\* checkStock passes a line only if there is enough.
LEMMA LineIsAffordable ==
  ASSUME NEW o \in Orders, NEW i \in Lines(o), Enough(cart[o].items[i])
  PROVE  Affordable(o, i)
BY DEF Enough, Affordable

LEMMA CheckJobsStep ==
  ASSUME IInv, StockInv, [Next]_vars
  PROVE  CheckJobs'
<1>0. stockWorker \in [StockWorkers -> BusyStockWorker \cup {IdleStockWorker}]
  BY DEF IInv, TypeOK, StockTypeOK
<1>00. stockWorker' \in [StockWorkers -> BusyStockWorker \cup {IdleStockWorker}]
  <2>1. TypeOK'
    BY NextType DEF IInv
  <2> QED BY <2>1 DEF TypeOK, StockTypeOK
<1>1. ASSUME NEW w \in StockWorkers, NEW job, CheckJob(job),
             stockWorker' = [stockWorker EXCEPT ![w] = job]
      PROVE  CheckJobs'
  <2>1. ASSUME NEW v \in StockWorkers PROVE CheckJob(stockWorker[v])'
    <3>1. PICK next : next = stockWorker'[v]
      OBVIOUS
    <3>2. CheckJob(next)
      BY <1>0, <1>1, <3>1 DEF StockInv, CheckJobs
    <3>3. Known(next)
      BY <1>00, <3>1 DEF Known, BusyStockWorker, Requests
    <3> QED BY <3>1, <3>2, <3>3, AffordableStays
  <2> QED BY <2>1 DEF CheckJobs
<1>2. CASE stockWorker' = stockWorker
  <2>1. ASSUME NEW v \in StockWorkers PROVE CheckJob(stockWorker[v])'
    <3>1. PICK job : job = stockWorker[v]
      OBVIOUS
    <3>2. CheckJob(job) /\ Known(job)
      BY <1>0, <3>1 DEF StockInv, CheckJobs, Known, BusyStockWorker, Requests
    <3> QED BY <1>2, <3>1, <3>2, AffordableStays
  <2> QED BY <2>1 DEF CheckJobs
<1>3. CheckJob(IdleStockWorker)
  BY DEF CheckJob, IdleStockWorker
<1>4. ASSUME NEW w \in StockWorkers, NEW e \in Requests, ReceiveStockRequest(w, e)
      PROVE  CheckJobs'
  <2>1. PICK job : job = [pc |-> FirstStep(e), event |-> e, line |-> 1, success |-> FALSE]
    OBVIOUS
  <2>2. \A i \in Lines(e.orderId) : ~(i < 1)
    BY LinesOf DEF IInv, TypeOK, Requests
  <2>3. CheckJob(job)
    BY <2>1, <2>2 DEF CheckJob
  <2> QED BY <1>1, <1>4, <2>1, <2>3 DEF ReceiveStockRequest
<1>5. ASSUME NEW w \in StockWorkers, CheckLine(w) \/ DeductLine(w) \/ DeductThrows(w)
      PROVE  CheckJobs'
  <2>1. PICK job : job = stockWorker[w]
    OBVIOUS
  <2>2. PICK o : o = job.event.orderId
    OBVIOUS
  <2>3. job \in BusyStockWorker /\ o \in Orders /\ job.line \in Lines(o)
    BY <1>5, <2>1, <2>2 DEF IInv, TypeOK, StockTypeOK, IdleStockWorker, BusyStockWorker, Requests,
                            CheckLine, DeductLine, DeductThrows
  <2>4. StockJob(job) /\ CheckJob(job)
    BY <2>1 DEF IInv, StockJobs, StockInv, CheckJobs
  <2>5. CheckJob(Failed(job))
    BY <2>3 DEF CheckJob, Failed, BusyStockWorker
  <2>6. /\ Lines(o) = 1..Len(cart[o].items) /\ Len(cart[o].items) \in Nat
    BY <2>3, LinesOf DEF IInv, TypeOK
  <2>7. CASE CheckLine(w)
    <3>1. job.pc = "check" /\ (Enough(cart[o].items[job.line]) => Affordable(o, job.line))
      BY <2>1, <2>3, <2>7, LineIsAffordable DEF CheckLine
    <3>2. Enough(cart[o].items[job.line]) => CheckJob(NextLine(job))
      <4>1. SUFFICES ASSUME Enough(cart[o].items[job.line]) PROVE CheckJob(NextLine(job))
        OBVIOUS
      <4>2. \A i \in Lines(o) : i < job.line + 1 => Affordable(o, i)
        BY <2>2, <2>3, <2>4, <2>6, <3>1, <4>1 DEF CheckJob
      <4>3. CASE job.line = Len(cart[o].items)
        <5>1. Fulfillable(o)
          BY <2>6, <4>2, <4>3 DEF Fulfillable
        <5>2. NextLine(job).pc = "emit" /\ NextLine(job).event = job.event
          BY <2>2, <2>3, <4>3 DEF NextLine, BusyStockWorker
        <5> QED BY <2>2, <5>1, <5>2 DEF CheckJob
      <4>4. CASE job.line # Len(cart[o].items)
        <5>1. /\ NextLine(job).pc = "check" /\ NextLine(job).event = job.event
              /\ NextLine(job).line = job.line + 1
          BY <2>2, <2>3, <3>1, <4>4 DEF NextLine, BusyStockWorker
        <5> QED BY <2>2, <4>2, <5>1 DEF CheckJob
      <4> QED BY <4>3, <4>4
    <3>3. \/ stockWorker' = [stockWorker EXCEPT ![w] = Failed(job)]
          \/ /\ Enough(cart[o].items[job.line])
             /\ stockWorker' = [stockWorker EXCEPT ![w] = NextLine(job)]
      BY <2>1, <2>2, <2>7 DEF CheckLine
    <3> QED BY <1>1, <2>5, <3>2, <3>3
  <2>8. CASE DeductLine(w)
    <3>1. job.pc = "deduct" /\ job.event.topic = "STOCK_DEDUCT_REQUESTED"
      BY <2>1, <2>4, <2>8 DEF DeductLine, StockJob
    <3>2. NextLine(job).pc \in {"deduct", "emit"} /\ NextLine(job).event = job.event
      BY <2>3, <3>1, LineGoesTo
    <3>3. CheckJob(NextLine(job))
      BY <3>1, <3>2 DEF CheckJob
    <3> QED BY <1>1, <2>1, <2>8, <3>3 DEF DeductLine
  <2>9. CASE DeductThrows(w)
    BY <1>1, <2>1, <2>5, <2>9 DEF DeductThrows
  <2> QED BY <1>5, <2>7, <2>8, <2>9
<1>6. ASSUME NEW w \in StockWorkers, EmitStockResult(w) \/ RedeliverStockRequest(w)
      PROVE  CheckJobs'
  BY <1>1, <1>2, <1>3, <1>6 DEF EmitStockResult, RedeliverStockRequest
<1>7. CASE StockNext
  <2>1. OperatorStep => stockWorker' = stockWorker
    BY OperatorMoves DEF IInv, TypeOK
  <2> QED BY <1>2, <1>4, <1>5, <1>6, <1>7, <2>1 DEF StockNext, StockWorkerStep
<1> QED BY <1>2, <1>7 DEF Next, vars, stockVars

LEMMA PaymentAskedStep ==
  ASSUME IInv, PaymentAsked, [Next]_vars
  PROVE  PaymentAsked'
<1>0. paymentWorker \in [PaymentWorkers -> BusyPaymentWorker \cup {IdlePaymentWorker}]
  BY DEF IInv, TypeOK, PaymentTypeOK
<1>1. ASSUME NEW w \in PaymentWorkers, NEW job, AskedFor(job),
             paymentWorker' = [paymentWorker EXCEPT ![w] = job]
      PROVE  PaymentAsked'
  BY <1>0, <1>1 DEF PaymentAsked
<1>2. CASE paymentWorker' = paymentWorker
  BY <1>2 DEF PaymentAsked
<1>3. ASSUME NEW w \in PaymentWorkers, NEW e \in Requests, ReceivePaymentRequest(w, e)
      PROVE  PaymentAsked'
  <2>1. ASSUME NEW p \in PaymentIds, ReceivePayment(w, e, p) PROVE PaymentAsked'
    <3>1. PICK job : job = [pc |-> "fire", event |-> e, payment |-> p, success |-> FALSE]
      OBVIOUS
    <3>2. AskedFor(job)
      BY <2>1, <3>1 DEF ReceivePayment, AskedFor
    <3> QED BY <1>1, <2>1, <3>1, <3>2 DEF ReceivePayment
  <2>2. CASE ReceiveRefund(w, e)
    <3>1. ASSUME NEW p, NEW job,
                 job = [pc |-> "saveRefund", event |-> e, payment |-> p, success |-> TRUE]
          PROVE  AskedFor(job)
      BY <2>2, <3>1 DEF ReceiveRefund, AskedFor
    <3> QED BY <1>1, <1>2, <2>2, <3>1 DEF ReceiveRefund
  <2> QED BY <1>3, <2>1, <2>2 DEF ReceivePaymentRequest
<1>4. ASSUME NEW w \in PaymentWorkers, FireSucceeds(w) \/ FireFails(w) \/ SavePayment(w)
      PROVE  PaymentAsked'
  <2>1. PICK job : job = paymentWorker[w]
    OBVIOUS
  <2>2. job \in BusyPaymentWorker /\ job.event.topic = "PAYMENT_REQUESTED"
    BY <1>0, <1>4, <2>1 DEF IdlePaymentWorker, FireSucceeds, FireFails, SavePayment, PaymentAsked, AskedFor
  <2>3. ASSUME NEW next, next = [job EXCEPT !.pc = "save", !.success = TRUE] PROVE AskedFor(next)
    BY <2>2, <2>3 DEF BusyPaymentWorker, AskedFor
  <2>4. ASSUME NEW pc \in {"save", "emit"}, NEW next, next = [job EXCEPT !.pc = pc]
        PROVE  AskedFor(next)
    BY <2>2, <2>4 DEF BusyPaymentWorker, AskedFor
  <2>5. CASE FireSucceeds(w)
    BY <1>1, <2>1, <2>3, <2>5 DEF FireSucceeds
  <2>6. CASE FireFails(w)
    BY <1>1, <2>1, <2>4, <2>6 DEF FireFails
  <2>7. CASE SavePayment(w)
    BY <1>1, <2>1, <2>4, <2>7 DEF SavePayment
  <2> QED BY <1>4, <2>5, <2>6, <2>7
<1>5. ASSUME NEW w \in PaymentWorkers,
             EmitPaymentResult(w) \/ SaveRefund(w) \/ RedeliverPaymentRequest(w)
      PROVE  PaymentAsked'
  <2>1. AskedFor(IdlePaymentWorker)
    BY DEF AskedFor, IdlePaymentWorker
  <2> QED BY <1>1, <1>2, <1>5, <2>1 DEF EmitPaymentResult, SaveRefund, RedeliverPaymentRequest
<1>6. CASE PaymentNext
  BY <1>3, <1>4, <1>5, <1>6 DEF PaymentNext, PaymentWorkerStep
<1> QED BY <1>2, <1>6 DEF Next, vars, paymentVars

LEMMA InitStock == Init => StockInv
<1> SUFFICES ASSUME Init PROVE StockInv
  OBVIOUS
<1>1. EventsChecked
  BY DEF Init, BusInit, OrderInit, StockInit, PaymentInit, EventsChecked, InFlight,
         HeldByOrder, HeldByStock, HeldByPayment
<1>2. CheckJobs /\ PaymentAsked
  BY DEF Init, StockInit, PaymentInit, CheckJobs, CheckJob, PaymentAsked, AskedFor, IdleStockWorker,
         IdlePaymentWorker
<1>3. BelowMeansTaken
  BY StockAssumption DEF Init, StockInit, BelowMeansTaken, NoPatch
<1> QED BY <1>1, <1>2, <1>3 DEF StockInv

LEMMA NextStock == IInv /\ StockInv /\ [Next]_vars => StockInv'
<1> SUFFICES ASSUME IInv, StockInv, [Next]_vars PROVE StockInv'
  OBVIOUS
<1>1. EventsChecked'
  <2>1. CASE UNCHANGED vars
    <3>1. \A e \in Events : InFlight(e)' = InFlight(e) /\ e.orderId \in Orders
      BY <2>1 DEF vars, orderVars, stockVars, paymentVars, InFlight, HeldByOrder, HeldByStock,
                  HeldByPayment, Events, Requests, Results
    <3> QED BY <3>1, AffordableStays DEF StockInv, EventsChecked, PastCheck
  <2> QED BY <2>1, EventsCheckedStep
<1>2. CheckJobs' /\ PaymentAsked' /\ BelowMeansTaken'
  BY CheckJobsStep, PaymentAskedStep, BelowMeansTakenStep DEF StockInv
<1> QED BY <1>1, <1>2 DEF StockInv

-----------------------------------------------------------------------------
(* Who has taken the stock that is gone.                                   *)

\* Two lines have taken p; or its stock was lowered; or it has sufficed.
Accounts(p) == TwoTook(p) \/ p \in lowered \/ stock[p] >= 0

Accounted == NoRedelivery => \A p \in Products : Accounts(p)

\* A line is deducted once, and it was affordable: if it is the first to
\* take the product, there is enough.
LEMMA AccountsStep ==
  ASSUME IInv, TInv, StockInv, [Next]_vars, NEW w \in StockWorkers, stockWorker[w].pc = "deduct",
         Decrement(stockWorker[w].event.orderId, stockWorker[w].line),
         NEW p \in Products, Accounts(p)
  PROVE  Accounts(p)'
<1>0. PICK job : stockWorker[w] = job
  OBVIOUS
<1>1. PICK o : o = job.event.orderId
  OBVIOUS
<1>2. PICK i : i = job.line
  OBVIOUS
<1>3. o \in Orders /\ i \in Lines(o) /\ Decrement(o, i) /\ taken[o][i] = 0 /\ Affordable(o, i)
  <2>1. /\ o \in Orders /\ i \in Lines(o)
        /\ \A j \in DOMAIN taken[o] : j >= i => taken[o][j] = 0
    BY <1>0, <1>1, <1>2, LineNotTaken DEF IInv
  <2>2. i \in DOMAIN taken[o] /\ i \in Nat
    BY <2>1, LinesOf DEF IInv, TypeOK, StockTypeOK
  <2>3. Fulfillable(o)
    BY <1>0, <1>1, DeductingJob DEF StockInv, EventsChecked, PastCheck
  <2> QED BY <1>0, <1>1, <1>2, <2>1, <2>2, <2>3 DEF Fulfillable
<1>4. cart' = cart /\ \A x \in Orders : Lines(x)' = Lines(x)
  BY DEF Next, vars, Lines
<1>5. PICK item : item = cart[o].items[i]
  OBVIOUS
<1>6. CASE stock'[p] = stock[p]
  BY <1>6, TakersStay DEF Accounts
<1>7. CASE p = item.productId /\ stock'[p] = stock[p] - item.quantity /\ taken'[o][i] > 0
  <2>1. Took(o, i, p)'
    BY <1>4, <1>5, <1>7 DEF Took
  <2>2. CASE p \in lowered
    BY <2>2, TakersStay DEF Accounts
  <2>3. ASSUME NEW x \in Orders, NEW j \in Lines(x), Took(x, j, p)
        PROVE  TwoTook(p)'
    <3>1. <<o, i>> # <<x, j>>
      BY <1>3, <2>3 DEF Took
    <3>2. Took(x, j, p)'
      BY <2>3, TakersStay
    <3> QED BY <1>3, <1>4, <2>1, <3>1, <3>2 DEF TwoTook
  <2>4. CASE item.quantity <= stock[p]
    <3>1. stock[p] \in Int /\ item.quantity \in Nat
      BY <1>3, <1>5, DecrementTakes DEF IInv, TypeOK, StockTypeOK
    <3> QED BY <1>7, <2>4, <3>1 DEF Accounts
  <2>5. p \in lowered \/ SomeTook(p) \/ item.quantity <= stock[p]
    BY <1>3, <1>5, <1>7 DEF Affordable
  <2> QED BY <2>2, <2>3, <2>4, <2>5 DEF Accounts, SomeTook
<1>8. \/ stock'[p] = stock[p]
      \/ p = item.productId /\ stock'[p] = stock[p] - item.quantity /\ taken'[o][i] > 0
  BY <1>3, <1>5, DecrementTakes DEF IInv
<1> QED BY <1>6, <1>7, <1>8

LEMMA NextAccounted == IInv /\ TokenInv /\ StockInv /\ Accounted /\ [Next]_vars => Accounted'
<1> SUFFICES ASSUME IInv, TokenInv, StockInv, Accounted, [Next]_vars, NoRedelivery',
                    NEW p \in Products
             PROVE  Accounts(p)'
  BY DEF Accounted
<1>1. TInv /\ Accounts(p)
  BY FaultsStay DEF IInv, TokenInv, Accounted
<1>2. stock[p] \in Int /\ StockTypeOK
  BY DEF IInv, TypeOK, StockTypeOK
<1>3. TypeOK'
  BY NextType DEF IInv
<1>4. stock'[p] \in Int
  BY <1>3 DEF TypeOK, StockTypeOK
<1>5. CASE stock'[p] >= stock[p] \/ p \in lowered'
  BY <1>1, <1>2, <1>4, <1>5, TakersStay DEF Accounts
<1>6. CASE OperatorStep
  BY <1>2, <1>5, <1>6, OperatorSets
<1>7. CASE UNCHANGED stock
  BY <1>2, <1>5, <1>7
<1> QED BY <1>1, <1>6, <1>7, StockTaken, AccountsStep

LEMMA StockIsKept == Spec => []StockInv
BY InitStock, NextStock, Invariance, PTL DEF Spec

LEMMA StockIsAccounted == Spec => []Accounted
<1>1. Init => Accounted
  BY StockAssumption DEF Init, StockInit, Accounted, Accounts
<1> QED BY <1>1, NextAccounted, Invariance, SagasAreTokens, StockIsKept, PTL DEF Spec

\* Stock never falls below zero by what operators do alone.  One order line
\* brings it there only if a PATCH lowered the stock after its check, or a
\* redelivery takes it twice; in every other case two order lines have taken
\* the product: checkStock and deductStock share no transaction, so both can
\* pass the check before either is deducted.
THEOREM OversellingTakesTwo == Spec => []OversoldByTwo
<1>1. IInv /\ StockInv /\ Accounted => OversoldByTwo
  <2>1. SUFFICES ASSUME IInv, StockInv, Accounted, NEW p \in Products, stock[p] < 0
                 PROVE  SomeTook(p) /\ (NoRedelivery /\ p \notin lowered => TwoTook(p))
    BY DEF OversoldByTwo
  <2>2. ASSUME NoRedelivery, p \notin lowered PROVE TwoTook(p) \/ stock[p] >= 0
    BY <2>1, <2>2 DEF Accounted, Accounts
  <2>3. stock[p] \in Int => ~(stock[p] >= 0)
    BY <2>1
  <2>4. stock[p] \in Int
    BY <2>1 DEF IInv, TypeOK, StockTypeOK
  <2> QED BY <2>1, <2>2, <2>3, <2>4 DEF StockInv, BelowMeansTaken
<1> QED BY <1>1, Invariance, StockIsKept, StockIsAccounted, PTL

-----------------------------------------------------------------------------
(* The outcome.                                                            *)

\* No token of an order that has settled is anywhere.
LEMMA SettledHasNoToken ==
  ASSUME IInv, TInv, NEW o \in Orders, Settled(o), NEW p \in Spots
  PROVE  ~HasToken(p, o)
<1> SUFFICES ASSUME HasToken(p, o) PROVE FALSE
  OBVIOUS
<1> USE DEF IInv, TypeOK
<1>0. ASSUME NEW e \in Events, e.orderId = o, InFlight(e), e.topic \notin NoticeTopics PROVE FALSE
  BY <1>0 DEF Settled
<1>1. CASE p[1] = "bus"
  <2>1. p[2] \in SagaEvents /\ bus[p[2]] > 0 /\ p[2].orderId = o
    BY <1>1, SpotIs DEF HasToken, JobAt, NoJob
  <2> QED BY <1>0, <2>1 DEF SagaEvents, InFlight
<1>2. CASE p[1] = "post"
  BY <1>2, SpotIs DEF HasToken, JobAt, NoJob, FirstEvent, Request, Settled
<1>3. CASE p[1] = "order"
  <2>1. PICK w \in OrderWorkers : JobAt(p) = orderWorker[w]
    BY <1>3, SpotIs DEF JobAt
  <2>2. orderWorker[w] \in BusyOrderWorker /\ orderWorker[w] # IdleOrderWorker
    BY <2>1 DEF HasToken, OrderTypeOK, IdleOrderWorker
  <2>3. orderWorker[w].event \in Results /\ orderWorker[w].event \in Events
    BY <2>2 DEF BusyOrderWorker, Events
  <2> QED BY <1>0, <2>1, <2>2, <2>3 DEF HasToken, InFlight, HeldByOrder, Results, ResultTopics, NoticeTopics
<1>4. CASE p[1] = "stock"
  <2>1. PICK w \in StockWorkers : JobAt(p) = stockWorker[w]
    BY <1>4, SpotIs DEF JobAt
  <2>2. stockWorker[w] \in BusyStockWorker /\ stockWorker[w] # IdleStockWorker
    BY <2>1 DEF HasToken, StockTypeOK, IdleStockWorker
  <2>3. stockWorker[w].event \in Events /\ stockWorker[w].event.topic \notin NoticeTopics
    BY <2>2 DEF BusyStockWorker, Events, StockJobs, StockJob, NoticeTopics
  <2> QED BY <1>0, <2>1, <2>2, <2>3 DEF HasToken, InFlight, HeldByStock
<1>5. CASE p[1] = "payment"
  <2>1. PICK w \in PaymentWorkers : JobAt(p) = paymentWorker[w]
    BY <1>5, SpotIs DEF JobAt
  <2>2. paymentWorker[w] \in BusyPaymentWorker /\ paymentWorker[w] # IdlePaymentWorker
    BY <2>1 DEF HasToken, PaymentTypeOK, IdlePaymentWorker
  <2>3. Fits("payment", paymentWorker[w], Data(o))
    BY <1>5, <2>1 DEF TInv, Token
  <2>4. paymentWorker[w].event \in Events /\ paymentWorker[w].event.topic \notin NoticeTopics
    BY <2>2, <2>3 DEF BusyPaymentWorker, Events, Fits, PaymentFits, NoticeTopics
  <2> QED BY <1>0, <2>1, <2>2, <2>4 DEF HasToken, InFlight, HeldByPayment
<1> QED BY <1>1, <1>2, <1>3, <1>4, <1>5, SpotIs

\* What the end of a saga says about the payment rows.
LEMMA MoneySays ==
  ASSUME NEW o \in Orders
  PROVE  /\ Money(o) = "charged" => \E p \in Rows(o) : payments[p].status = "COMPLETED"
         /\ Money(o) = "refunded" => Paid(o) /\ \A p \in PaidRows(o) : payments[p].status = "REFUNDED"
<1>1. Money(o) = "charged" => \E p \in Rows(o) : payments[p].status = "COMPLETED"
  BY DEF Money
<1>2. Money(o) = "refunded" => /\ \E p \in Rows(o) : payments[p].status = "REFUNDED"
                               /\ ~\E p \in Rows(o) : payments[p].status = "COMPLETED"
  BY DEF Money
<1> QED BY <1>1, <1>2 DEF Paid, PaidRows

LEMMA SettledHasOutcome == IInv /\ TokenInv => SettledOutcome
<1> SUFFICES ASSUME IInv, TokenInv, NoFaults, NEW o \in Orders, Settled(o)
             PROVE  \/ /\ orders[o] = "COMPLETED" /\ sagas[o].currentStep = "COMPLETED"
                       /\ \E p \in Rows(o) : payments[p].status = "COMPLETED"
                       /\ Deducted(o)
                    \/ /\ orders[o] = "FAILED" /\ sagas[o].currentStep = "FAILED"
                       /\ charges[o] = 0 /\ Untouched(o)
                    \/ /\ orders[o] = "FAILED" /\ sagas[o].currentStep = "COMPENSATING"
                       /\ \A p \in PaidRows(o) : payments[p].status = "REFUNDED"
                       /\ Paid(o) /\ Untouched(o)
  BY DEF SettledOutcome
<1>1. TInv
  BY DEF TokenInv, NoFaults, NoRedelivery, FaultKinds
<1>2. Ended(Data(o))
  BY <1>1, SettledHasNoToken DEF TInv, Token
<1>3. /\ Data(o).status = orders[o] /\ Data(o).step = sagas[o].currentStep
      /\ Data(o).money = Money(o) /\ Data(o).charges = charges[o]
      /\ NothingTaken(Data(o)) => Untouched(o)
  <2>1. DOMAIN taken[o] = Lines(o)
    BY DEF IInv, TypeOK, StockTypeOK
  <2> QED BY <2>1 DEF Data, NothingTaken, Untouched
<1>4. orders[o] = "COMPLETED" => Deducted(o)
  BY DEF IInv, CompletedMeansPaidAndDeducted
<1> QED BY <1>2, <1>3, <1>4, MoneySays DEF Ended

\* Without faults the three databases agree on the end of every order: it
\* was sold, turned down before money or stock moved, or charged, refunded
\* and left in stock.  No handler, and no interleaving of replicas, drops a
\* saga half way or ends it in a fourth way.
THEOREM DatabasesAgree == Spec => []SettledOutcome
BY SettledHasOutcome, Invariance, SagasAreTokens, PTL

-----------------------------------------------------------------------------
(* Redelivery: a saga may have many tokens, one more for every event that  *)
(* is delivered again, and each token has each effect once.                *)

\* What a token does once on its way: insert a payment row, charge, take
\* line i of the order, announce the end.
Stages == {<<"insert", 0>>, <<"charge", 0>>, <<"announce", 0>>} \cup ({"take"} \X (Nat \ {0}))

\* How often it was done, by the data d of an order.
Had(g, d) == CASE g[1] = "insert"   -> Cardinality(d.rows)
               [] g[1] = "charge"   -> d.charges
               [] g[1] = "take"     -> IF g[2] \in DOMAIN d.taken THEN d.taken[g[2]] ELSE 0
               [] g[1] = "announce" -> d.notices

\* A token at such a spot has it still to do.
Ahead(g, kind, job) ==
  /\ job.pc # "idle"
  /\ g[1] = "insert" => job.event.topic \in BeforePayment /\ kind # "payment"
  /\ g[1] = "charge" => /\ job.event.topic \in BeforePayment
                        /\ kind = "payment" => job.pc = "fire"
  /\ g[1] = "take" => /\ job.event.topic \in BeforeDeduction
                      /\ kind = "stock" /\ job.event.topic = "STOCK_DEDUCT_REQUESTED" =>
                           job.pc = "deduct" /\ job.line <= g[2]
  /\ g[1] = "announce" => job.event.topic # "PAYMENT_REFUND_REQUESTED"

Waits(e) == [pc |-> "waits", event |-> e]

Copies(s) == IF s[1] = "bus" THEN bus[s[2]] ELSE 1

\* The tokens of o that have g ahead: a spot, and which copy of its event.
Yet(g, o) == {t \in Spots \X (Nat \ {0}) : /\ HasToken(t[1], o)
                                           /\ Ahead(g, t[1][1], JobAt(t[1]))
                                           /\ t[2] <= Copies(t[1])}

Driven(g, o) == /\ IsFiniteSet(Yet(g, o))
                /\ Cardinality(Yet(g, o)) + Had(g, Data(o)) <= 1 + faults["redeliver"]

RowsFinite == \A o \in Orders : IsFiniteSet(Rows(o))

AllDriven == \A o \in Orders : \A g \in Stages : Driven(g, o)

-----------------------------------------------------------------------------
(* How the tokens of an order are counted.                                 *)

LEMMA StageIs ==
  ASSUME NEW g \in Stages
  PROVE  /\ g[1] \in {"insert", "charge", "take", "announce"}
         /\ g[1] = "take" => g[2] \in Nat \ {0}
BY DEF Stages

LEMMA HadIs ==
  ASSUME TypeOK, NEW g \in Stages, NEW o \in Orders, IsFiniteSet(Rows(o))
  PROVE  Had(g, Data(o)) \in Nat
<1>1. Cardinality(Rows(o)) \in Nat
  BY FS_CardinalityType
<1>2. Request("COMPLETED", o) \in Events /\ Request("FAILED", o) \in Events
  BY RequestIs DEF NoticeTopics
<1>3. Data(o).notices \in Nat
  BY <1>2 DEF Data, TypeOK, BusTypeOK
<1>4. charges[o] \in Nat /\ taken[o] \in [Lines(o) -> Nat]
  BY DEF TypeOK, PaymentTypeOK, StockTypeOK
<1>5. /\ Data(o).rows = Rows(o) /\ Data(o).charges = charges[o] /\ Data(o).taken = taken[o]
  BY DEF Data
<1> QED BY <1>1, <1>3, <1>4, <1>5, StageIs DEF Had

LEMMA HadSame ==
  ASSUME NEW g \in Stages, NEW d, NEW e, d.rows = e.rows, d.charges = e.charges,
         d.taken = e.taken, d.notices = e.notices
  PROVE  Had(g, d) = Had(g, e)
BY DEF Had

\* A token goes from x to y, or does what it had ahead.
LEMMA DrivenOn ==
  ASSUME TypeOK, NEW g \in Stages, NEW o \in Orders, IsFiniteSet(Rows(o)), Driven(g, o),
         faults'["redeliver"] = faults["redeliver"],
         NEW x, NEW y, Yet(g, o)' \subseteq (Yet(g, o) \ {x}) \cup {y},
         y \in Yet(g, o)' => x \in Yet(g, o),
         \/ Had(g, Data(o)') = Had(g, Data(o))
         \/ /\ Had(g, Data(o)') = Had(g, Data(o)) + 1
            /\ x \in Yet(g, o) /\ y \notin Yet(g, o)'
  PROVE  Driven(g, o)'
<1> DEFINE Y == Yet(g, o)
           Z == Yet(g, o)'
<1>1. Had(g, Data(o)) \in Nat /\ IsFiniteSet(Y) /\ Cardinality(Y) \in Nat
      /\ faults["redeliver"] \in Nat
      /\ Cardinality(Y) + Had(g, Data(o)) <= 1 + faults["redeliver"]
  <2>1. Had(g, Data(o)) \in Nat /\ faults["redeliver"] \in Nat
    BY HadIs DEF TypeOK, BusTypeOK, FaultKinds
  <2> QED BY <2>1, FS_CardinalityType DEF Driven
<1>2. /\ IsFiniteSet(Y \ {x}) /\ Cardinality(Y \ {x}) \in Nat
      /\ Cardinality(Y \ {x}) = IF x \in Y THEN Cardinality(Y) - 1 ELSE Cardinality(Y)
  BY <1>1, FS_RemoveElement, FS_CardinalityType
<1>3. /\ IsFiniteSet((Y \ {x}) \cup {y}) /\ Cardinality((Y \ {x}) \cup {y}) \in Nat
      /\ Cardinality((Y \ {x}) \cup {y}) <= Cardinality(Y \ {x}) + 1
  <2>1. IsFiniteSet((Y \ {x}) \cup {y})
        /\ Cardinality((Y \ {x}) \cup {y}) \in {Cardinality(Y \ {x}), Cardinality(Y \ {x}) + 1}
    BY <1>2, FS_AddElement
  <2> QED BY <1>2, <2>1
<1>4. /\ IsFiniteSet(Z) /\ Cardinality(Z) \in Nat
      /\ Cardinality(Z) <= Cardinality((Y \ {x}) \cup {y})
      /\ y \notin Z => Cardinality(Z) <= Cardinality(Y \ {x})
  <2>1. Z \in SUBSET ((Y \ {x}) \cup {y}) /\ (y \notin Z => Z \in SUBSET (Y \ {x}))
    OBVIOUS
  <2> HIDE DEF Y, Z
  <2> QED BY <1>2, <1>3, <2>1, FS_Subset, FS_CardinalityType
<1>5. y \in Z => x \in Y /\ Had(g, Data(o)') = Had(g, Data(o))
  OBVIOUS
<1>6. Cardinality(Z) + Had(g, Data(o)') <= 1 + faults'["redeliver"]
  <2>1. \/ Had(g, Data(o)') = Had(g, Data(o))
        \/ Had(g, Data(o)') = Had(g, Data(o)) + 1 /\ x \in Y /\ y \notin Z
    OBVIOUS
  <2> HIDE DEF Y, Z
  <2> QED BY <1>1, <1>2, <1>3, <1>4, <1>5, <2>1
<1> QED BY <1>4, <1>6 DEF Driven

\* An event is delivered again: one token more, and one redelivery more.
LEMMA DrivenAgain ==
  ASSUME TypeOK, NEW g \in Stages, NEW o \in Orders, IsFiniteSet(Rows(o)), Driven(g, o),
         faults'["redeliver"] = faults["redeliver"] + 1,
         NEW y, Yet(g, o)' \subseteq Yet(g, o) \cup {y},
         Had(g, Data(o)') = Had(g, Data(o))
  PROVE  Driven(g, o)'
<1> DEFINE Y == Yet(g, o)
           Z == Yet(g, o)'
<1>1. Had(g, Data(o)) \in Nat /\ faults["redeliver"] \in Nat
      /\ IsFiniteSet(Y) /\ Cardinality(Y) \in Nat
      /\ Cardinality(Y) + Had(g, Data(o)) <= 1 + faults["redeliver"]
  <2>1. Had(g, Data(o)) \in Nat /\ faults["redeliver"] \in Nat
    BY HadIs DEF TypeOK, BusTypeOK, FaultKinds
  <2> QED BY <2>1, FS_CardinalityType DEF Driven
<1>2. /\ IsFiniteSet(Y \cup {y})
      /\ Cardinality(Y \cup {y}) \in {Cardinality(Y), Cardinality(Y) + 1}
  BY <1>1, FS_AddElement
<1>3. IsFiniteSet(Z) /\ Cardinality(Z) \in Nat /\ Cardinality(Z) <= Cardinality(Y \cup {y})
  <2>1. Z \in SUBSET (Y \cup {y})
    OBVIOUS
  <2> HIDE DEF Y, Z
  <2> QED BY <1>2, <2>1, FS_Subset, FS_CardinalityType
<1>4. Cardinality(Z) + Had(g, Data(o)') <= 1 + faults'["redeliver"]
  <2> HIDE DEF Y, Z
  <2> QED BY <1>1, <1>2, <1>3
<1> QED BY <1>3, <1>4 DEF Driven

\* Which tokens there are at a spot.
LEMMA YetAt ==
  ASSUME NEW g, NEW o, NEW t \in Spots \X (Nat \ {0})
  PROVE  /\ t = <<t[1], t[2]>> /\ t[1] \in Spots /\ t[2] \in Nat \ {0}
         /\ t \in Yet(g, o) <=> /\ HasToken(t[1], o) /\ Ahead(g, t[1][1], JobAt(t[1]))
                                /\ t[2] <= Copies(t[1])
         /\ t \in Yet(g, o)' <=> /\ HasToken(t[1], o)' /\ Ahead(g, t[1][1], JobAt(t[1])')
                                 /\ t[2] <= Copies(t[1])'
BY DEF Yet

\* The tokens that wait on the bus.
LEMMA YetOnBus ==
  ASSUME TypeOK, TypeOK', NEW g, NEW o, NEW e \in SagaEvents, NEW k \in Nat \ {0}
  PROVE  /\ <<<<"bus", e>>, k>> \in Yet(g, o) <=>
              /\ e.orderId = o /\ Ahead(g, "bus", Waits(e)) /\ k <= bus[e]
         /\ <<<<"bus", e>>, k>> \in Yet(g, o)' <=>
              /\ e.orderId = o /\ Ahead(g, "bus", Waits(e)) /\ k <= bus'[e]
<1> DEFINE p == <<"bus", e>>
           t == <<p, k>>
<1>1. p \in Spots /\ p[1] = "bus" /\ p[2] = e /\ t \in Spots \X (Nat \ {0}) /\ t[1] = p /\ t[2] = k
  BY SpotsOf
<1>2. bus[e] \in Nat /\ bus'[e] \in Nat
  BY DEF TypeOK, BusTypeOK, SagaEvents
<1>3. /\ JobAt(p) = IF bus[e] > 0 THEN Waits(e) ELSE NoJob
      /\ JobAt(p)' = IF bus'[e] > 0 THEN Waits(e) ELSE NoJob
      /\ Copies(p) = bus[e] /\ Copies(p)' = bus'[e]
  BY <1>1 DEF JobAt, Copies, Waits
<1>4. /\ HasToken(p, o) <=> bus[e] > 0 /\ e.orderId = o
      /\ HasToken(p, o)' <=> bus'[e] > 0 /\ e.orderId = o
  BY <1>3 DEF HasToken, Waits, NoJob
<1>5. k <= bus[e] => bus[e] > 0
  BY <1>2
<1>6. k <= bus'[e] => bus'[e] > 0
  BY <1>2
<1>7. /\ t \in Yet(g, o) <=> HasToken(p, o) /\ Ahead(g, "bus", JobAt(p)) /\ k <= Copies(p)
      /\ t \in Yet(g, o)' <=> HasToken(p, o)' /\ Ahead(g, "bus", JobAt(p)') /\ k <= Copies(p)'
  <2> HIDE DEF p, t
  <2> QED BY <1>1, YetAt
<1>8. t \in Yet(g, o) <=> e.orderId = o /\ Ahead(g, "bus", Waits(e)) /\ k <= bus[e]
  <2> HIDE DEF p, t
  <2>1. CASE bus[e] > 0
    <3>1. JobAt(p) = Waits(e)
      BY <1>3, <2>1
    <3> QED BY <1>3, <1>4, <1>7, <2>1, <3>1
  <2>2. CASE ~(bus[e] > 0)
    BY <1>4, <1>5, <1>7, <2>2
  <2> QED BY <2>1, <2>2
<1>9. t \in Yet(g, o)' <=> e.orderId = o /\ Ahead(g, "bus", Waits(e)) /\ k <= bus'[e]
  <2> HIDE DEF p, t
  <2>1. CASE bus'[e] > 0
    <3>1. JobAt(p)' = Waits(e)
      BY <1>3, <2>1
    <3> QED BY <1>3, <1>4, <1>7, <2>1, <3>1
  <2>2. CASE ~(bus'[e] > 0)
    BY <1>4, <1>6, <1>7, <2>2
  <2> QED BY <2>1, <2>2
<1> QED BY <1>8, <1>9

\* The token off the bus.
LEMMA YetOffBus ==
  ASSUME NEW g, NEW o, NEW s \in Spots, s[1] # "bus", NEW k \in Nat \ {0}
  PROVE  /\ <<s, k>> \in Yet(g, o) <=>
              k = 1 /\ HasToken(s, o) /\ Ahead(g, s[1], JobAt(s))
         /\ <<s, k>> \in Yet(g, o)' <=>
              k = 1 /\ HasToken(s, o)' /\ Ahead(g, s[1], JobAt(s)')
<1>1. /\ <<s, k>> \in Spots \X (Nat \ {0}) /\ <<s, k>>[1] = s /\ <<s, k>>[2] = k
  OBVIOUS
<1>2. Copies(s) = 1 /\ Copies(s)' = 1
  BY DEF Copies
<1>3. k <= 1 <=> k = 1
  OBVIOUS
<1> QED BY <1>1, <1>2, <1>3, YetAt

LEMMA YetHere ==
  ASSUME NEW g, NEW o, NEW s \in Spots, s[1] # "bus"
  PROVE  /\ <<s, 1>> \in Yet(g, o) <=> HasToken(s, o) /\ Ahead(g, s[1], JobAt(s))
         /\ <<s, 1>> \in Yet(g, o)' <=> HasToken(s, o)' /\ Ahead(g, s[1], JobAt(s)')
         /\ \A k \in Nat \ {0} : <<s, k>> \in Yet(g, o)' => k = 1
<1>1. 1 \in Nat \ {0}
  OBVIOUS
<1>2. <<s, 1>> \in Yet(g, o) <=> 1 = 1 /\ HasToken(s, o) /\ Ahead(g, s[1], JobAt(s))
  BY <1>1, YetOffBus
<1>3. <<s, 1>> \in Yet(g, o)' <=> 1 = 1 /\ HasToken(s, o)' /\ Ahead(g, s[1], JobAt(s)')
  BY <1>1, YetOffBus
<1>4. \A k \in Nat \ {0} : <<s, k>> \in Yet(g, o)' => k = 1
  BY YetOffBus
<1> QED BY <1>2, <1>3, <1>4

\* A token that waits on the bus, as it is written there.
LEMMA YetWaits ==
  ASSUME TypeOK, TypeOK', NEW g, NEW o, NEW u \in Yet(g, o)', u[1][1] = "bus"
  PROVE  \E e \in SagaEvents, k \in Nat \ {0} :
           /\ u = <<<<"bus", e>>, k>> /\ u[1] = <<"bus", e>> /\ u[1][2] = e /\ u[2] = k
           /\ e \in Events /\ e.orderId = o /\ Ahead(g, "bus", Waits(e)) /\ k <= bus'[e]
<1>1. u \in Spots \X (Nat \ {0}) /\ u = <<u[1], u[2]>> /\ u[1] \in Spots
  BY DEF Yet
<1>2. PICK e \in SagaEvents : u[1] = <<"bus", e>>
  BY <1>1, SpotIs
<1>3. PICK k \in Nat \ {0} : u = <<<<"bus", e>>, k>>
  BY <1>1, <1>2
<1>4. <<<<"bus", e>>, k>> \in Yet(g, o)'
  BY <1>3
<1>5. e.orderId = o /\ Ahead(g, "bus", Waits(e)) /\ k <= bus'[e]
  BY <1>4, YetOnBus
<1> QED BY <1>2, <1>3, <1>5 DEF SagaEvents

\* A spot where nothing has changed.
LEMMA YetStays ==
  ASSUME TypeOK, TypeOK', NEW g, NEW o, NEW t \in Yet(g, o)',
         t[1][1] # "bus" => JobAt(t[1])' = JobAt(t[1]),
         t[1][1] = "bus" => t[2] <= bus[t[1][2]]
  PROVE  t \in Yet(g, o)
<1>1. t \in Spots \X (Nat \ {0}) /\ t = <<t[1], t[2]>> /\ t[1] \in Spots /\ t[2] \in Nat \ {0}
  BY DEF Yet
<1>2. CASE t[1][1] = "bus"
  <2>1. PICK e \in SagaEvents : t[1] = <<"bus", e>>
    BY <1>1, <1>2, SpotIs
  <2>2. t = <<<<"bus", e>>, t[2]>> /\ t[2] <= bus[e]
    BY <1>1, <1>2, <2>1
  <2> QED BY <1>1, <2>1, <2>2, YetOnBus
<1>3. CASE t[1][1] # "bus"
  <2>1. HasToken(t[1], o)' = HasToken(t[1], o)
    BY <1>3 DEF HasToken
  <2> QED BY <1>1, <1>3, <2>1, YetAt DEF Copies
<1> QED BY <1>2, <1>3

-----------------------------------------------------------------------------
(* The kinds of steps, for any number of tokens.                           *)

\* Of the orders' data nothing changes that Had counts.
SameHad(q) == \A g \in Stages : Had(g, Data(q)') = Had(g, Data(q))

\* A token of o had g ahead before the step, or has it after: it does not
\* get it back, and doing it puts it behind.
Passed(g, o, before, after) ==
  /\ after => before
  /\ \/ Had(g, Data(o)') = Had(g, Data(o))
     \/ Had(g, Data(o)') = Had(g, Data(o)) + 1 /\ before /\ ~after

\* A handler goes on with its event.
LEMMA DrivenWorks ==
  ASSUME TypeOK, TypeOK', RowsFinite, AllDriven, UNCHANGED bus,
         faults'["redeliver"] = faults["redeliver"],
         NEW o \in Orders, NEW s \in Spots, s[1] # "bus", HasToken(s, o),
         \A p \in Spots \ {s} : p[1] # "bus" => JobAt(p)' = JobAt(p),
         JobAt(s)'.pc # "idle" => JobAt(s)'.event.orderId = o,
         \A g \in Stages : Passed(g, o, Ahead(g, s[1], JobAt(s)), Ahead(g, s[1], JobAt(s)')),
         \A q \in Orders \ {o} : SameHad(q)
  PROVE  AllDriven'
<1> SUFFICES ASSUME NEW q \in Orders, NEW g \in Stages PROVE Driven(g, q)'
  BY DEF AllDriven
<1> DEFINE t == <<s, 1>>
<1>1. Driven(g, q) /\ IsFiniteSet(Rows(q))
  BY DEF AllDriven, RowsFinite
<1>2. /\ t \in Yet(g, q) <=> HasToken(s, q) /\ Ahead(g, s[1], JobAt(s))
      /\ t \in Yet(g, q)' <=> HasToken(s, q)' /\ Ahead(g, s[1], JobAt(s)')
  BY YetHere
<1>3. ASSUME NEW u \in Yet(g, q)', u # t PROVE u \in Yet(g, q)
  <2>1. u \in Spots \X (Nat \ {0}) /\ u = <<u[1], u[2]>> /\ u[1] \in Spots /\ u[2] \in Nat \ {0}
    BY DEF Yet
  <2>2. u[1] # s
    BY <1>3, <2>1, YetHere
  <2>3. u[1][1] = "bus" => u[2] <= bus[u[1][2]]
    BY <2>1, YetAt DEF Copies
  <2>4. u[1][1] # "bus" => JobAt(u[1])' = JobAt(u[1])
    BY <2>1, <2>2
  <2> QED BY <2>3, <2>4, YetStays
<1>4. Yet(g, q)' \subseteq (Yet(g, q) \ {t}) \cup {t}
  BY <1>3
<1>5. CASE q = o
  <2>1. Passed(g, o, Ahead(g, s[1], JobAt(s)), Ahead(g, s[1], JobAt(s)'))
    OBVIOUS
  <2>2. Ahead(g, s[1], JobAt(s)') => HasToken(s, o)'
    BY DEF Ahead, HasToken
  <2>3. t \in Yet(g, q)' => t \in Yet(g, q)
    BY <1>2, <1>5, <2>1, <2>2 DEF Passed
  <2>4. \/ Had(g, Data(q)') = Had(g, Data(q))
        \/ Had(g, Data(q)') = Had(g, Data(q)) + 1 /\ t \in Yet(g, q) /\ t \notin Yet(g, q)'
    BY <1>2, <1>5, <2>1 DEF Passed
  <2> HIDE DEF t
  <2> QED BY <1>1, <1>4, <2>3, <2>4, DrivenOn
<1>6. CASE q # o
  <2>1. ~HasToken(s, q) /\ ~HasToken(s, q)'
    BY <1>6 DEF HasToken
  <2>2. t \notin Yet(g, q)'
    BY <1>2, <2>1
  <2>3. Had(g, Data(q)') = Had(g, Data(q))
    BY <1>6 DEF SameHad
  <2> HIDE DEF t
  <2> QED BY <1>1, <1>4, <2>2, <2>3, DrivenOn
<1> QED BY <1>5, <1>6

\* A replica takes an event; what else waits, waits on.
LEMMA DrivenTaken ==
  ASSUME TypeOK, TypeOK', RowsFinite, AllDriven, NEW e \in SagaEvents, Consume(e),
         faults'["redeliver"] = faults["redeliver"],
         NEW s \in Spots, s[1] # "bus", JobAt(s).pc = "idle",
         \A p \in Spots \ {s} : p[1] # "bus" => JobAt(p)' = JobAt(p),
         JobAt(s)'.pc # "idle" => JobAt(s)'.event.orderId = e.orderId,
         \A g \in Stages :
           Passed(g, e.orderId, Ahead(g, "bus", Waits(e)), Ahead(g, s[1], JobAt(s)')),
         \A q \in Orders \ {e.orderId} : SameHad(q)
  PROVE  AllDriven'
<1> SUFFICES ASSUME NEW q \in Orders, NEW g \in Stages PROVE Driven(g, q)'
  BY DEF AllDriven
<1>0. bus \in [Events -> Nat] /\ e \in Events
  BY DEF TypeOK, BusTypeOK, SagaEvents
<1>1. /\ bus[e] \in Nat \ {0} /\ bus'[e] = bus[e] - 1
      /\ \A f \in Events \ {e} : bus'[f] = bus[f]
  BY <1>0 DEF Consume
<1> DEFINE x == <<<<"bus", e>>, bus[e]>>
           y == <<s, 1>>
<1>2. Driven(g, q) /\ IsFiniteSet(Rows(q))
  BY DEF AllDriven, RowsFinite
<1>3. x \in Yet(g, q) <=> e.orderId = q /\ Ahead(g, "bus", Waits(e))
  BY <1>1, YetOnBus
<1>4. y \in Yet(g, q)' <=> HasToken(s, q)' /\ Ahead(g, s[1], JobAt(s)')
  BY YetHere
<1>5. ASSUME NEW u \in Yet(g, q)', u # y PROVE u \in Yet(g, q) \ {x}
  <2>1. u \in Spots \X (Nat \ {0}) /\ u = <<u[1], u[2]>> /\ u[1] \in Spots /\ u[2] \in Nat \ {0}
    BY DEF Yet
  <2>2. u[1] # s
    BY <1>5, <2>1, YetHere
  <2>3. ASSUME u[1][1] = "bus" PROVE u[2] <= bus[u[1][2]] /\ u # x
    <3>1. PICK f \in SagaEvents, k \in Nat \ {0} :
            /\ u = <<<<"bus", f>>, k>> /\ u[1][2] = f /\ u[2] = k /\ f \in Events /\ k <= bus'[f]
      BY <2>3, YetWaits
    <3>2. f # e => bus'[f] = bus[f] /\ u # x
      BY <1>1, <3>1
    <3>3. f = e => k <= bus[e] - 1
      BY <1>1, <3>1
    <3>4. CASE f = e
      <4>1. k <= bus[e] /\ k # bus[e]
        BY <1>1, <3>3, <3>4
      <4> QED BY <3>1, <3>4, <4>1
    <3> QED BY <3>1, <3>2, <3>4
  <2>4. u[1][1] # "bus" => JobAt(u[1])' = JobAt(u[1]) /\ u # x
    BY <2>1, <2>2
  <2> QED BY <2>3, <2>4, YetStays
<1>6. Yet(g, q)' \subseteq (Yet(g, q) \ {x}) \cup {y}
  BY <1>5
<1>7. CASE q = e.orderId
  <2>1. Passed(g, q, Ahead(g, "bus", Waits(e)), Ahead(g, s[1], JobAt(s)'))
    BY <1>7
  <2>2. Ahead(g, s[1], JobAt(s)') => HasToken(s, q)'
    BY <1>7 DEF Ahead, HasToken
  <2>3. y \in Yet(g, q)' => x \in Yet(g, q)
    BY <1>3, <1>4, <1>7, <2>1, <2>2 DEF Passed
  <2>4. \/ Had(g, Data(q)') = Had(g, Data(q))
        \/ Had(g, Data(q)') = Had(g, Data(q)) + 1 /\ x \in Yet(g, q) /\ y \notin Yet(g, q)'
    BY <1>3, <1>4, <1>7, <2>1 DEF Passed
  <2> HIDE DEF x, y
  <2> QED BY <1>2, <1>6, <2>3, <2>4, DrivenOn
<1>8. CASE q # e.orderId
  <2>1. y \notin Yet(g, q)'
    BY <1>4, <1>8 DEF HasToken
  <2>2. Had(g, Data(q)') = Had(g, Data(q))
    BY <1>8 DEF SameHad
  <2> HIDE DEF x, y
  <2> QED BY <1>2, <1>6, <2>1, <2>2, DrivenOn
<1> QED BY <1>7, <1>8

\* What a send does to the counts on the bus.
LEMMA SentCounts ==
  ASSUME TypeOK, NEW S \in SUBSET Events, Emit(S)
  PROVE  /\ \A f \in Events : bus'[f] \in {bus[f], bus[f] + 1}
         /\ \A f \in Events \ S : bus'[f] = bus[f]
         /\ faults'["redeliver"] = faults["redeliver"]
<1>1. PICK sent \in SUBSET S : Deliver(sent)
  BY DEF Emit
<1>2. faults'["redeliver"] = faults["redeliver"]
  BY DEF Emit, Fault, TypeOK, BusTypeOK, FaultKinds
<1> QED BY <1>1, <1>2 DEF Deliver

\* A handler ends with sending events, at most one of them for the saga.
LEMMA DrivenSent ==
  ASSUME TypeOK, TypeOK', RowsFinite, AllDriven, NEW o \in Orders, NEW s \in Spots,
         s[1] # "bus", HasToken(s, o),
         NEW S \in SUBSET Events, \A e \in S : e.orderId = o, Emit(S),
         \A e, f \in S : e \in SagaEvents /\ f \in SagaEvents => e = f,
         \A p \in Spots \ {s} : p[1] # "bus" => JobAt(p)' = JobAt(p),
         JobAt(s)'.pc = "idle",
         \A g \in Stages :
           Passed(g, o, Ahead(g, s[1], JobAt(s)),
                  \E e \in S : e \in SagaEvents /\ Ahead(g, "bus", Waits(e))),
         \A q \in Orders \ {o} : SameHad(q)
  PROVE  AllDriven'
<1> SUFFICES ASSUME NEW q \in Orders, NEW g \in Stages PROVE Driven(g, q)'
  BY DEF AllDriven
<1>0. bus \in [Events -> Nat]
  BY DEF TypeOK, BusTypeOK
<1>1. /\ \A f \in Events : bus'[f] \in {bus[f], bus[f] + 1}
      /\ \A f \in Events \ S : bus'[f] = bus[f]
      /\ faults'["redeliver"] = faults["redeliver"]
  BY SentCounts
<1> DEFINE x == <<s, 1>>
<1>2. Driven(g, q) /\ IsFiniteSet(Rows(q))
  BY DEF AllDriven, RowsFinite
<1>3. x \in Yet(g, q) <=> HasToken(s, q) /\ Ahead(g, s[1], JobAt(s))
  BY YetHere
<1>4. \A k \in Nat \ {0} : <<s, k>> \notin Yet(g, q)'
  BY YetOffBus DEF Ahead
\* A token that is new waits on the bus, as the last copy of an event of S.
<1>5. ASSUME NEW u \in Yet(g, q)', u \notin Yet(g, q) \ {x}
      PROVE  \E e \in S : /\ e \in SagaEvents /\ Ahead(g, "bus", Waits(e)) /\ q = o
                          /\ u = <<<<"bus", e>>, bus[e] + 1>>
  <2>1. u \in Spots \X (Nat \ {0}) /\ u = <<u[1], u[2]>> /\ u[1] \in Spots /\ u[2] \in Nat \ {0}
    BY DEF Yet
  <2>2. u[1] # s /\ u # x
    BY <1>4, <2>1
  <2>3. u[1][1] = "bus"
    BY <1>5, <2>1, <2>2, YetStays
  <2>4. PICK f \in SagaEvents, k \in Nat \ {0} :
          /\ u = <<<<"bus", f>>, k>> /\ u[1][2] = f /\ u[2] = k /\ f \in Events
          /\ f.orderId = q /\ Ahead(g, "bus", Waits(f)) /\ k <= bus'[f]
    BY <2>3, YetWaits
  <2>5. ~(k <= bus[f])
    BY <1>5, <2>2, <2>3, <2>4, YetStays
  <2>6. f \in S /\ k = bus[f] + 1
    BY <1>0, <1>1, <2>4, <2>5
  <2>7. q = o
    BY <2>4, <2>6
  <2> QED BY <2>4, <2>6, <2>7
<1>6. CASE q = o
  <2> DEFINE After == \E e \in S : e \in SagaEvents /\ Ahead(g, "bus", Waits(e))
  <2>1. Passed(g, q, Ahead(g, s[1], JobAt(s)), After)
    BY <1>6
  <2>2. x \in Yet(g, q) <=> Ahead(g, s[1], JobAt(s))
    BY <1>3, <1>6
  <2>3. CASE After
    <3>1. PICK e \in S : e \in SagaEvents /\ Ahead(g, "bus", Waits(e))
      BY <2>3
    <3> DEFINE y == <<<<"bus", e>>, bus[e] + 1>>
    <3>2. Yet(g, q)' \subseteq (Yet(g, q) \ {x}) \cup {y}
      BY <1>5, <3>1
    <3>3. x \in Yet(g, q) /\ Had(g, Data(q)') = Had(g, Data(q))
      BY <2>1, <2>2, <2>3 DEF Passed
    <3> HIDE DEF x, y
    <3> QED BY <1>1, <1>2, <3>2, <3>3, DrivenOn
  <2>4. CASE ~After
    <3>1. Yet(g, q)' \subseteq Yet(g, q) \ {x}
      BY <1>5, <2>4
    <3>2. x \notin Yet(g, q)'
      BY <1>4
    <3>3. \/ Had(g, Data(q)') = Had(g, Data(q))
          \/ Had(g, Data(q)') = Had(g, Data(q)) + 1 /\ x \in Yet(g, q)
      BY <2>1, <2>2 DEF Passed
    <3> HIDE DEF x
    <3> QED BY <1>1, <1>2, <3>1, <3>2, <3>3, DrivenOn
  <2> QED BY <2>3, <2>4
<1>7. CASE q # o
  <2>1. Yet(g, q)' \subseteq Yet(g, q) \ {x}
    BY <1>5, <1>7
  <2>2. x \notin Yet(g, q)' /\ Had(g, Data(q)') = Had(g, Data(q))
    BY <1>4, <1>7 DEF SameHad
  <2> HIDE DEF x
  <2> QED BY <1>1, <1>2, <2>1, <2>2, DrivenOn
<1> QED BY <1>6, <1>7

\* An event is delivered again, to this replica or to another one.
LEMMA DrivenByRedelivery ==
  ASSUME TypeOK, TypeOK', RowsFinite, AllDriven, NEW e \in SagaEvents, Redeliver(e),
         NEW s \in Spots, s[1] # "bus",
         JobAt(s)' = JobAt(s) \/ JobAt(s)'.pc = "idle",
         \A p \in Spots \ {s} : p[1] # "bus" => JobAt(p)' = JobAt(p),
         \A q \in Orders : SameHad(q)
  PROVE  AllDriven'
<1> SUFFICES ASSUME NEW q \in Orders, NEW g \in Stages PROVE Driven(g, q)'
  BY DEF AllDriven
<1>0. bus \in [Events -> Nat] /\ e \in Events
  BY DEF TypeOK, BusTypeOK, SagaEvents
<1>1. /\ bus'[e] = bus[e] + 1 /\ bus[e] \in Nat
      /\ \A f \in Events \ {e} : bus'[f] = bus[f]
      /\ faults'["redeliver"] = faults["redeliver"] + 1
  BY <1>0 DEF Redeliver, Fault, TypeOK, BusTypeOK, FaultKinds
<1> DEFINE y == <<<<"bus", e>>, bus[e] + 1>>
<1>2. Driven(g, q) /\ IsFiniteSet(Rows(q)) /\ Had(g, Data(q)') = Had(g, Data(q))
  BY DEF AllDriven, RowsFinite, SameHad
<1>3. ASSUME NEW u \in Yet(g, q)', u # y PROVE u \in Yet(g, q)
  <2>1. u \in Spots \X (Nat \ {0}) /\ u = <<u[1], u[2]>> /\ u[1] \in Spots /\ u[2] \in Nat \ {0}
    BY DEF Yet
  <2>2. ASSUME u[1][1] = "bus" PROVE u[2] <= bus[u[1][2]]
    <3>1. PICK f \in SagaEvents, k \in Nat \ {0} :
            /\ u = <<<<"bus", f>>, k>> /\ u[1][2] = f /\ u[2] = k /\ f \in Events /\ k <= bus'[f]
      BY <2>2, YetWaits
    <3>2. f = e => k # bus[e] + 1
      BY <1>3, <3>1
    <3>3. bus[f] \in Nat
      BY <1>0, <3>1
    <3>4. k <= bus[f]
      BY <1>1, <3>1, <3>2, <3>3
    <3> QED BY <3>1, <3>4
  <2>3. ASSUME u[1][1] # "bus" PROVE JobAt(u[1])' = JobAt(u[1])
    <3>1. JobAt(u[1])'.pc # "idle"
      BY <2>1, YetAt DEF Ahead
    <3> QED BY <2>1, <2>3, <3>1
  <2> QED BY <2>2, <2>3, YetStays
<1>4. Yet(g, q)' \subseteq Yet(g, q) \cup {y}
  BY <1>3
<1> HIDE DEF y
<1> QED BY <1>1, <1>2, <1>4, DrivenAgain

\* A step that no saga notices.
LEMMA DrivenStays ==
  ASSUME TypeOK, TypeOK', RowsFinite, AllDriven, UNCHANGED <<bus, faults>>,
         \A p \in Spots : JobAt(p)' = JobAt(p), \A q \in Orders : SameHad(q)
  PROVE  AllDriven'
<1> SUFFICES ASSUME NEW q \in Orders, NEW g \in Stages PROVE Driven(g, q)'
  BY DEF AllDriven
<1>1. Yet(g, q)' = Yet(g, q)
  BY DEF Yet, HasToken, Copies
<1>2. Driven(g, q) /\ Had(g, Data(q)') = Had(g, Data(q))
  BY DEF AllDriven, SameHad
<1> QED BY <1>1, <1>2 DEF Driven


-----------------------------------------------------------------------------
(* What the steps of the three services do with a token.                   *)

\* Away from payments and stock, a token has ahead what its event has ahead.
AheadOf(g, t) ==
  /\ g[1] \in {"insert", "charge"} => t \in BeforePayment
  /\ g[1] = "take" => t \in BeforeDeduction
  /\ g[1] = "announce" => t # "PAYMENT_REFUND_REQUESTED"

LEMMA AheadIs ==
  ASSUME NEW g, NEW kind \in {"bus", "post", "order"}, NEW job, job.pc # "idle"
  PROVE  Ahead(g, kind, job) <=> AheadOf(g, job.event.topic)
BY DEF Ahead, AheadOf

LEMMA AheadOnBus ==
  ASSUME NEW g, NEW e
  PROVE  Ahead(g, "bus", Waits(e)) <=> AheadOf(g, e.topic)
BY DEF Ahead, AheadOf, Waits

LEMMA HadKept ==
  ASSUME NEW q \in Orders, Rows(q)' = Rows(q), charges'[q] = charges[q], taken'[q] = taken[q],
         bus'[Request("COMPLETED", q)] = bus[Request("COMPLETED", q)],
         bus'[Request("FAILED", q)] = bus[Request("FAILED", q)]
  PROVE  SameHad(q)
<1>1. /\ Data(q)'.rows = Data(q).rows /\ Data(q)'.charges = Data(q).charges
      /\ Data(q)'.taken = Data(q).taken /\ Data(q)'.notices = Data(q).notices
  BY DEF Data
<1> QED BY <1>1, HadSame DEF SameHad

\* Announcements are no events of the saga.
LEMMA NoticesKept ==
  ASSUME NEW S \in SUBSET SagaEvents, \A f \in Events \ S : bus'[f] = bus[f], NEW q \in Orders
  PROVE  /\ bus'[Request("COMPLETED", q)] = bus[Request("COMPLETED", q)]
         /\ bus'[Request("FAILED", q)] = bus[Request("FAILED", q)]
BY RequestIs DEF NoticeTopics

LEMMA TakenFrom ==
  ASSUME NEW e \in SagaEvents, Consume(e) \/ Redeliver(e), TypeOK, NEW q \in Orders
  PROVE  /\ bus'[Request("COMPLETED", q)] = bus[Request("COMPLETED", q)]
         /\ bus'[Request("FAILED", q)] = bus[Request("FAILED", q)]
<1>1. \A f \in Events \ {e} : bus'[f] = bus[f]
  BY DEF Consume, Redeliver, TypeOK, BusTypeOK
<1> QED BY <1>1, NoticesKept

\* A saga's first steps: POST /orders saves the two rows.
LEMMA CreateDrives ==
  ASSUME TypeOK, TypeOK', RowsFinite, AllDriven, NEW o \in Orders,
         UNCHANGED <<cart, stockVars, paymentVars>>,
         CreateOrder(o) \/ CreateSaga(o) \/ CreateThrows(o)
  PROVE  AllDriven'
<1> DEFINE s == <<"post", o>>
<1>1. creating[o] \in {"none", "saveSaga", "emit"}
  BY DEF CreateOrder, CreateSaga, CreateThrows
<1>2. /\ s \in Spots /\ s[1] = "post" /\ HasToken(s, o)
      /\ JobAt(s).pc = creating[o] /\ JobAt(s).event = FirstEvent(o)
  BY <1>1, PostToken, SpotsOf
<1>3. PICK pc \in {"saveSaga", "emit", "aborted"} : creating' = [creating EXCEPT ![o] = pc]
  BY DEF CreateOrder, CreateSaga, CreateThrows
<1>4. creating'[o] = pc /\ \A q \in Orders \ {o} : creating'[q] = creating[q]
  BY <1>3 DEF TypeOK, OrderTypeOK
<1>5. UNCHANGED <<bus, orderWorker>> /\ faults'["redeliver"] = faults["redeliver"]
  BY DEF CreateOrder, CreateSaga, CreateThrows, Fault, TypeOK, BusTypeOK, FaultKinds
<1>6. JobAt(s)' = IF pc = "aborted" THEN NoJob ELSE [pc |-> pc, event |-> FirstEvent(o)]
  BY <1>4 DEF JobAt
<1>7. ASSUME NEW p \in Spots \ {s} PROVE JobAt(p)' = JobAt(p)
  <2>1. p[1] = "post" => p[2] \in Orders \ {o}
    BY SpotIs
  <2> QED BY <1>4, <1>5, <2>1, JobKept DEF stockVars, paymentVars
<1>8. \A q \in Orders : SameHad(q)
  BY <1>5, EffectsKept, HadKept
<1>9. JobAt(s)'.pc # "idle" => JobAt(s)'.event = FirstEvent(o) /\ FirstEvent(o).orderId = o
  BY <1>6 DEF NoJob, FirstEvent, Request
<1>10. ASSUME NEW g \in Stages
       PROVE  Passed(g, o, Ahead(g, s[1], JobAt(s)), Ahead(g, s[1], JobAt(s)'))
  <2>1. Ahead(g, "post", JobAt(s)) <=> AheadOf(g, FirstEvent(o).topic)
    BY <1>1, <1>2, AheadIs
  <2>2. Ahead(g, "post", JobAt(s)') => AheadOf(g, FirstEvent(o).topic)
    BY <1>9, AheadIs DEF Ahead
  <2> QED BY <1>2, <1>8, <2>1, <2>2 DEF Passed, SameHad
<1> HIDE DEF s
<1> QED BY <1>2, <1>5, <1>7, <1>8, <1>9, <1>10, DrivenWorks

LEMMA CreateEmitDrives ==
  ASSUME TypeOK, TypeOK', RowsFinite, AllDriven, NEW o \in Orders,
         UNCHANGED <<cart, stockVars, paymentVars>>, CreateEmit(o)
  PROVE  AllDriven'
<1> DEFINE s == <<"post", o>>
           S == {FirstEvent(o)}
<1>1. HasToken(s, o) /\ JobAt(s).pc = "emit" /\ JobAt(s).event = FirstEvent(o)
  BY PostToken DEF CreateEmit
<1>2. s \in Spots /\ s[1] = "post" /\ s[2] = o
  BY SpotsOf
<1>3. FirstEvent(o) \in SagaEvents /\ FirstEvent(o).orderId = o /\ FirstEvent(o) \in Events
  BY RequestIs DEF FirstEvent, RequestTopics, NoticeTopics, SagaEvents
<1>4. Emit(S) /\ UNCHANGED orderWorker /\ creating' = [creating EXCEPT ![o] = "done"]
  BY DEF CreateEmit, FirstEvent
<1>5. /\ S \in SUBSET Events /\ S \in SUBSET SagaEvents /\ (\A e \in S : e.orderId = o)
      /\ \A e, f \in S : e = f
  BY <1>3
<1>6. creating'[o] = "done" /\ \A q \in Orders \ {o} : creating'[q] = creating[q]
  BY <1>4 DEF TypeOK, OrderTypeOK
<1>7. JobAt(s)'.pc = "idle"
  BY <1>6 DEF JobAt, NoJob
<1>8. ASSUME NEW p \in Spots \ {s}, p[1] # "bus" PROVE JobAt(p)' = JobAt(p)
  <2>1. p[1] = "post" => p[2] \in Orders \ {o}
    BY SpotIs
  <2> QED BY <1>4, <1>6, <1>8, <2>1, JobKept DEF stockVars, paymentVars
<1>9. \A q \in Orders : SameHad(q)
  BY <1>4, <1>5, SentCounts, NoticesKept, EffectsKept, HadKept
<1>10. ASSUME NEW g \in Stages
       PROVE  Passed(g, o, Ahead(g, s[1], JobAt(s)),
                     \E e \in S : e \in SagaEvents /\ Ahead(g, "bus", Waits(e)))
  <2>1. Ahead(g, "post", JobAt(s)) <=> AheadOf(g, FirstEvent(o).topic)
    BY <1>1, AheadIs
  <2> QED BY <1>2, <1>9, <2>1, AheadOnBus DEF Passed, SameHad
<1> HIDE DEF s, S
<1> QED BY <1>1, <1>2, <1>4, <1>5, <1>7, <1>8, <1>9, <1>10, DrivenSent

\* A consumer of order-service takes an event, or drops it.
LEMMA ReceiveResultDrives ==
  ASSUME TypeOK, TypeOK', RowsFinite, AllDriven, NEW w \in OrderWorkers, NEW e \in Results,
         UNCHANGED <<cart, stockVars, paymentVars>>, ReceiveResult(w, e)
  PROVE  AllDriven'
<1> DEFINE s == <<"order", w>>
           o == e.orderId
<1>1. e \in SagaEvents /\ o \in Orders
  BY DEF SagaEvents, Events, Results, ResultTopics, NoticeTopics
<1>2. s \in Spots /\ s[1] = "order" /\ s[2] = w
  BY SpotsOf
<1>3. Consume(e) /\ UNCHANGED <<creating, faults>> /\ orderWorker[w].pc = "idle"
  BY DEF ReceiveResult, IdleOrderWorker
<1>4. /\ orderWorker'[w].pc # "idle" => orderWorker'[w].event = e
      /\ \A v \in OrderWorkers \ {w} : orderWorker'[v] = orderWorker[v]
  BY <1>3 DEF ReceiveResult, TypeOK, OrderTypeOK
<1>5. \A p \in Spots \ {s} : p[1] # "bus" => JobAt(p)' = JobAt(p)
  BY <1>3, <1>4, OtherSpotsOfOrder
<1>6. \A q \in Orders : SameHad(q)
  BY <1>1, <1>3, TakenFrom, EffectsKept, HadKept
<1>7. /\ JobAt(s).pc = "idle"
      /\ JobAt(s)'.pc # "idle" => JobAt(s)'.event = e
  BY <1>3, <1>4 DEF JobAt
<1>8. ASSUME NEW g \in Stages
      PROVE  Passed(g, o, Ahead(g, "bus", Waits(e)), Ahead(g, s[1], JobAt(s)'))
  <2>1. Ahead(g, "order", JobAt(s)') => AheadOf(g, e.topic)
    BY <1>7, AheadIs DEF Ahead
  <2> QED BY <1>1, <1>2, <1>6, <2>1, AheadOnBus DEF Passed, SameHad
<1> HIDE DEF s
<1> QED BY <1>1, <1>2, <1>3, <1>5, <1>6, <1>7, <1>8, DrivenTaken

\* It saves one of the two rows.
LEMMA OrderSavesDrives ==
  ASSUME TypeOK, TypeOK', RowsFinite, AllDriven, NEW w \in OrderWorkers,
         UNCHANGED <<cart, stockVars, paymentVars>>, SaveSaga(w) \/ SaveOrder(w)
  PROVE  AllDriven'
<1>0. PICK job : orderWorker[w] = job
  OBVIOUS
<1> DEFINE s == <<"order", w>>
           o == job.event.orderId
<1>1. job.pc # "idle" /\ UNCHANGED <<creating, bus, faults>>
  BY <1>0 DEF SaveSaga, SaveOrder
<1>2. /\ s \in Spots /\ s[1] = "order" /\ s[2] = w /\ job \in BusyOrderWorker /\ o \in Orders
      /\ JobAt(s) = job /\ HasToken(s, o)
  BY <1>0, <1>1, OrderAt
<1>3. PICK pc \in {"saveOrder", "emit"} : orderWorker' = [orderWorker EXCEPT ![w].pc = pc]
  BY DEF SaveSaga, SaveOrder
<1>4. /\ orderWorker'[w].pc = pc /\ orderWorker'[w].event = job.event
      /\ \A v \in OrderWorkers \ {w} : orderWorker'[v] = orderWorker[v]
  BY <1>0, <1>2, <1>3 DEF TypeOK, OrderTypeOK, BusyOrderWorker
<1>5. \A p \in Spots \ {s} : p[1] # "bus" => JobAt(p)' = JobAt(p)
  BY <1>1, <1>4, OtherSpotsOfOrder
<1>6. \A q \in Orders : SameHad(q)
  BY <1>1, EffectsKept, HadKept
<1>7. JobAt(s)'.pc # "idle" /\ JobAt(s)'.event = job.event
  BY <1>4 DEF JobAt
<1>8. ASSUME NEW g \in Stages
      PROVE  Passed(g, o, Ahead(g, s[1], JobAt(s)), Ahead(g, s[1], JobAt(s)'))
  <2>1. Ahead(g, "order", JobAt(s)') <=> AheadOf(g, job.event.topic)
    BY <1>7, AheadIs
  <2>2. Ahead(g, "order", JobAt(s)) <=> AheadOf(g, job.event.topic)
    BY <1>1, <1>2, AheadIs
  <2> QED BY <1>2, <1>6, <2>1, <2>2 DEF Passed, SameHad
<1> HIDE DEF s
<1> QED BY <1>1, <1>2, <1>5, <1>6, <1>7, <1>8, DrivenWorks

\* A token sends on what it has ahead, except its announcement.
LEMMA SentAhead ==
  ASSUME NEW e \in Results, NEW t \in TopicsAt(NextStep(e)), t \notin NoticeTopics,
         NEW g \in Stages, AheadOf(g, t)
  PROVE  /\ AheadOf(g, e.topic)
         /\ g[1] = "announce" => TopicsAt(NextStep(e)) = {t}
<1>1. e.topic \in ResultTopics /\ e.success \in BOOLEAN
  BY DEF Results
<1>2. \/ t = "PAYMENT_REFUND_REQUESTED" /\ e.topic = "STOCK_DEDUCT_RESULT"
      \/ TopicsAt(NextStep(e)) = {t} /\ t = "PAYMENT_REQUESTED" /\ e.topic = "STOCK_CHECK_RESULT"
      \/ TopicsAt(NextStep(e)) = {t} /\ t = "STOCK_DEDUCT_REQUESTED" /\ e.topic = "PAYMENT_RESULT"
  BY <1>1 DEF TopicsAt, NoticeTopics, NextStep, OnSuccess, OnFailure, ResultTopics
<1> QED BY <1>2 DEF AheadOf, BeforePayment, BeforeDeduction

\* A consumer of order-service sends the next event, or announces the end.
LEMMA EmitNextDrives ==
  ASSUME TypeOK, TypeOK', RowsFinite, AllDriven, NEW w \in OrderWorkers,
         UNCHANGED <<cart, stockVars, paymentVars>>, EmitNext(w)
  PROVE  AllDriven'
<1>0. PICK job : orderWorker[w] = job
  OBVIOUS
<1> DEFINE s == <<"order", w>>
           o == job.event.orderId
           T == TopicsAt(NextStep(job.event))
           S == {Request(t, o) : t \in T}
<1>1. job.pc = "emit" /\ Emit(S) /\ orderWorker' = [orderWorker EXCEPT ![w] = IdleOrderWorker]
      /\ UNCHANGED creating
  BY <1>0 DEF EmitNext
<1>2. /\ s \in Spots /\ s[1] = "order" /\ s[2] = w /\ job.event \in Results /\ o \in Orders
      /\ JobAt(s) = job /\ HasToken(s, o)
  BY <1>0, <1>1, OrderAt
<1>3. T \subseteq RequestTopics \cup NoticeTopics
  BY <1>2 DEF TopicsAt, NextStep, OnSuccess, OnFailure, Results, ResultTopics, RequestTopics, NoticeTopics
<1>4. S \in SUBSET Events /\ (\A e \in S : e.orderId = o)
      /\ \A t \in T : /\ Request(t, o) \in SagaEvents <=> t \notin NoticeTopics
                      /\ Request(t, o).topic = t
  BY <1>2, <1>3, RequestIs
<1>5. \A e, f \in S : e \in SagaEvents /\ f \in SagaEvents => e = f
  <2>1. \A t, u \in T : t \notin NoticeTopics /\ u \notin NoticeTopics => t = u
    BY DEF TopicsAt, NoticeTopics
  <2> QED BY <1>4, <2>1
<1>6. /\ orderWorker'[w].pc = "idle"
      /\ \A v \in OrderWorkers \ {w} : orderWorker'[v] = orderWorker[v]
  BY <1>1 DEF TypeOK, OrderTypeOK, IdleOrderWorker
<1>7. /\ \A p \in Spots \ {s} : p[1] # "bus" => JobAt(p)' = JobAt(p)
      /\ JobAt(s)'.pc = "idle"
  BY <1>1, <1>6, OtherSpotsOfOrder DEF JobAt
<1>8. /\ \A f \in Events \ S : bus'[f] = bus[f]
      /\ \A f \in Events : bus'[f] \in {bus[f], bus[f] + 1}
  BY <1>1, <1>4, SentCounts
<1>9. ASSUME NEW q \in Orders \ {o} PROVE SameHad(q)
  <2>1. /\ bus'[Request("COMPLETED", q)] = bus[Request("COMPLETED", q)]
        /\ bus'[Request("FAILED", q)] = bus[Request("FAILED", q)]
    BY <1>4, <1>8, RequestIs DEF NoticeTopics
  <2> QED BY <2>1, EffectsKept, HadKept
<1>10. /\ Data(o)'.rows = Data(o).rows /\ Data(o)'.charges = Data(o).charges
       /\ Data(o)'.taken = Data(o).taken
  BY <1>2, EffectsKept DEF Data
<1>11. /\ Data(o)'.notices \in {Data(o).notices, Data(o).notices + 1}
       /\ T \cap NoticeTopics = {} => Data(o)'.notices = Data(o).notices
  <2> DEFINE C == Request("COMPLETED", o)
             F == Request("FAILED", o)
  <2>1. C \in Events /\ F \in Events /\ bus[C] \in Nat /\ bus[F] \in Nat
    BY <1>2, RequestIs DEF NoticeTopics, TypeOK, BusTypeOK
  <2>2. (C \in S <=> "COMPLETED" \in T) /\ (F \in S <=> "FAILED" \in T)
    BY DEF Request
  <2>3. ~("COMPLETED" \in T /\ "FAILED" \in T)
    BY DEF TopicsAt
  <2>4. Data(o).notices = bus[C] + bus[F] /\ Data(o)'.notices = bus'[C] + bus'[F]
    BY DEF Data
  <2>5. /\ C \notin S => bus'[C] = bus[C]
        /\ F \notin S => bus'[F] = bus[F]
        /\ bus'[C] \in {bus[C], bus[C] + 1} /\ bus'[F] \in {bus[F], bus[F] + 1}
    BY <1>8, <2>1
  <2> HIDE DEF C, F, S, T
  <2> QED BY <2>1, <2>2, <2>3, <2>4, <2>5 DEF NoticeTopics
<1>12. ASSUME NEW g \in Stages
       PROVE  Passed(g, o, Ahead(g, s[1], JobAt(s)),
                     \E e \in S : e \in SagaEvents /\ Ahead(g, "bus", Waits(e)))
  <2> DEFINE After == \E e \in S : e \in SagaEvents /\ Ahead(g, "bus", Waits(e))
  <2>1. Ahead(g, "order", JobAt(s)) <=> AheadOf(g, job.event.topic)
    BY <1>1, <1>2, AheadIs
  <2>2. ASSUME After
        PROVE  /\ AheadOf(g, job.event.topic)
               /\ g[1] = "announce" => T \cap NoticeTopics = {}
    <3>1. PICK t \in T : Request(t, o) \in SagaEvents /\ Ahead(g, "bus", Waits(Request(t, o)))
      BY <2>2
    <3>2. t \notin NoticeTopics /\ AheadOf(g, t)
      BY <1>4, <3>1, AheadOnBus
    <3> QED BY <1>2, <3>2, SentAhead
  <2>3. CASE g[1] # "announce"
    <3>1. Had(g, Data(o)') = Had(g, Data(o))
      BY <1>10, <2>3 DEF Had
    <3> QED BY <1>2, <2>1, <2>2, <3>1 DEF Passed
  <2>4. CASE g[1] = "announce"
    <3>1. Had(g, Data(o)') = Data(o)'.notices /\ Had(g, Data(o)) = Data(o).notices
      BY <2>4 DEF Had
    <3>2. AheadOf(g, job.event.topic)
      BY <1>2, <2>4 DEF AheadOf, Results, ResultTopics
    <3>3. After => Data(o)'.notices = Data(o).notices
      BY <1>11, <2>2, <2>4
    <3> HIDE DEF After
    <3>4. Passed(g, o, Ahead(g, s[1], JobAt(s)), After)
      BY <1>2, <1>11, <2>1, <3>1, <3>2, <3>3 DEF Passed
    <3> QED BY <3>4 DEF After
  <2> QED BY <2>3, <2>4
<1> HIDE DEF s, o, S
<1> QED BY <1>1, <1>2, <1>4, <1>5, <1>7, <1>9, <1>12, DrivenSent

LEMMA RedeliverResultDrives ==
  ASSUME TypeOK, TypeOK', RowsFinite, AllDriven, NEW w \in OrderWorkers,
         UNCHANGED <<cart, stockVars, paymentVars>>, RedeliverResult(w)
  PROVE  AllDriven'
<1>0. PICK job : orderWorker[w] = job
  OBVIOUS
<1> DEFINE s == <<"order", w>>
<1>1. job.pc # "idle"
  BY <1>0 DEF RedeliverResult, TypeOK, OrderTypeOK, BusyOrderWorker
<1>2. s \in Spots /\ s[1] = "order" /\ job.event \in Results
  BY <1>0, <1>1, OrderAt
<1>3. job.event \in SagaEvents /\ Redeliver(job.event) /\ UNCHANGED creating
  BY <1>0, <1>2 DEF RedeliverResult, SagaEvents, Events, Results, ResultTopics, NoticeTopics
<1>4. /\ orderWorker'[w] = orderWorker[w] \/ orderWorker'[w].pc = "idle"
      /\ \A v \in OrderWorkers \ {w} : orderWorker'[v] = orderWorker[v]
  BY DEF RedeliverResult, TypeOK, OrderTypeOK, IdleOrderWorker
<1>5. /\ \A p \in Spots \ {s} : p[1] # "bus" => JobAt(p)' = JobAt(p)
      /\ JobAt(s)' = JobAt(s) \/ JobAt(s)'.pc = "idle"
  BY <1>3, <1>4, OtherSpotsOfOrder DEF JobAt
<1>6. \A q \in Orders : SameHad(q)
  BY <1>3, TakenFrom, EffectsKept, HadKept
<1> HIDE DEF s
<1> QED BY <1>2, <1>3, <1>5, <1>6, DrivenByRedelivery

-----------------------------------------------------------------------------
(* The steps of product-service.                                           *)

LEMMA ReceiveStockDrives ==
  ASSUME TypeOK, TypeOK', RowsFinite, AllDriven, NEW w \in StockWorkers, NEW e \in Requests,
         UNCHANGED <<cart, orderVars, paymentVars>>, ReceiveStockRequest(w, e)
  PROVE  AllDriven'
<1> DEFINE s == <<"stock", w>>
           o == e.orderId
           job == [pc |-> FirstStep(e), event |-> e, line |-> 1, success |-> FALSE]
<1>1. e \in SagaEvents /\ o \in Orders
      /\ e.topic \in {"STOCK_CHECK_REQUESTED", "STOCK_DEDUCT_REQUESTED"}
  BY DEF ReceiveStockRequest, SagaEvents, Events, Requests, NoticeTopics
<1>2. s \in Spots /\ s[1] = "stock" /\ s[2] = w
  BY SpotsOf
<1>3. /\ Consume(e) /\ UNCHANGED <<taken, faults>> /\ stockWorker' = [stockWorker EXCEPT ![w] = job]
      /\ stockWorker[w].pc = "idle"
  BY DEF ReceiveStockRequest, IdleStockWorker
<1>4. job.event = e
  OBVIOUS
<1> HIDE DEF job
<1>5. /\ stockWorker'[w] = job
      /\ \A v \in StockWorkers \ {w} : stockWorker'[v] = stockWorker[v]
  BY <1>3 DEF TypeOK, StockTypeOK
<1>6. /\ \A p \in Spots \ {s} : p[1] # "bus" => JobAt(p)' = JobAt(p)
      /\ JobAt(s)' = job /\ JobAt(s).pc = "idle"
  BY <1>3, <1>5, OtherSpotsOfStock DEF JobAt
<1>7. \A q \in Orders : SameHad(q)
  BY <1>1, <1>3, TakenFrom, RowsKept, HadKept
<1>8. ASSUME NEW g \in Stages
      PROVE  Passed(g, o, Ahead(g, "bus", Waits(e)), Ahead(g, s[1], JobAt(s)'))
  <2>1. Ahead(g, "stock", job) => AheadOf(g, e.topic)
    BY <1>4 DEF Ahead, AheadOf
  <2> QED BY <1>1, <1>2, <1>6, <1>7, <2>1, AheadOnBus DEF Passed, SameHad
<1> HIDE DEF s
<1> QED BY <1>1, <1>2, <1>3, <1>4, <1>6, <1>7, <1>8, DrivenTaken

LEMMA CheckLineDrives ==
  ASSUME TypeOK, TypeOK', StockJobs, RowsFinite, AllDriven, NEW w \in StockWorkers,
         UNCHANGED <<cart, orderVars, paymentVars>>, CheckLine(w)
  PROVE  AllDriven'
<1>0. PICK job : stockWorker[w] = job
  OBVIOUS
<1> DEFINE s == <<"stock", w>>
           o == job.event.orderId
<1>1. job.pc = "check" /\ UNCHANGED <<taken, bus, faults>>
  BY <1>0 DEF CheckLine
<1>2. /\ s \in Spots /\ s[1] = "stock" /\ job \in BusyStockWorker /\ o \in Orders
      /\ JobAt(s) = job /\ HasToken(s, o)
      /\ job.event.topic = "STOCK_CHECK_REQUESTED"
  BY <1>0, <1>1, StockAt DEF StockJobs, StockJob
<1>3. PICK next \in {NextLine(job), Failed(job)} : stockWorker' = [stockWorker EXCEPT ![w] = next]
  BY <1>0 DEF CheckLine
<1>4. stockWorker'[w] = next /\ \A v \in StockWorkers \ {w} : stockWorker'[v] = stockWorker[v]
  BY <1>3 DEF TypeOK, StockTypeOK
<1>5. next.event = job.event /\ next.pc # "idle"
  BY <1>1, <1>2, <1>3, LineGoesTo
<1>6. /\ \A p \in Spots \ {s} : p[1] # "bus" => JobAt(p)' = JobAt(p)
      /\ JobAt(s)' = next
  BY <1>4, OtherSpotsOfStock DEF JobAt
<1>7. \A q \in Orders : SameHad(q)
  BY <1>1, RowsKept, HadKept
<1>8. ASSUME NEW g \in Stages
      PROVE  Passed(g, o, Ahead(g, s[1], JobAt(s)), Ahead(g, s[1], JobAt(s)'))
  <2>1. Ahead(g, "stock", job) <=> Ahead(g, "stock", next)
    BY <1>1, <1>2, <1>5 DEF Ahead
  <2> QED BY <1>2, <1>6, <1>7, <2>1 DEF Passed, SameHad
<1> HIDE DEF s
<1> QED BY <1>1, <1>2, <1>5, <1>6, <1>7, <1>8, DrivenWorks

\* Line i of o is taken, or its product is gone.
LEMMA HadOfDecrement ==
  ASSUME TypeOK, NEW o \in Orders, NEW i \in Lines(o), UNCHANGED <<orderVars, paymentVars, bus>>,
         Decrement(o, i) \/ taken' = taken
  PROVE  /\ \A q \in Orders \ {o} : SameHad(q)
         /\ \A g \in Stages : \/ Had(g, Data(o)') = Had(g, Data(o))
                              \/ /\ g = <<"take", i>>
                                 /\ Had(g, Data(o)') = Had(g, Data(o)) + 1
<1>1. taken[o] \in [Lines(o) -> Nat] /\ DOMAIN taken = Orders
  BY DEF TypeOK, StockTypeOK
<1>2. CASE taken' = taken
  BY <1>2, RowsKept, HadKept DEF SameHad
<1>3. CASE taken' = [taken EXCEPT ![o] = [taken[o] EXCEPT ![i] = @ + 1]]
  <2>1. taken'[o] = [taken[o] EXCEPT ![i] = @ + 1] /\ \A x \in Orders \ {o} : taken'[x] = taken[x]
    BY <1>1, <1>3
  <2>2. /\ DOMAIN taken'[o] = Lines(o) /\ DOMAIN taken[o] = Lines(o)
        /\ taken'[o][i] = taken[o][i] + 1
        /\ \A j \in Lines(o) \ {i} : taken'[o][j] = taken[o][j]
    BY <1>1, <2>1
  <2>3. \A q \in Orders \ {o} : SameHad(q)
    BY <2>1, RowsKept, HadKept
  <2>4. /\ Data(o)'.rows = Data(o).rows /\ Data(o)'.charges = Data(o).charges
        /\ Data(o)'.notices = Data(o).notices
        /\ Data(o)'.taken = taken'[o] /\ Data(o).taken = taken[o]
    BY RowsKept DEF Data
  <2>5. ASSUME NEW g \in Stages, g # <<"take", i>> PROVE Had(g, Data(o)') = Had(g, Data(o))
    <3>1. CASE g[1] = "take"
      <4>1. g[2] # i
        BY <2>5, <3>1 DEF Stages
      <4> QED BY <2>2, <2>4, <3>1, <4>1 DEF Had
    <3>2. CASE g[1] # "take"
      BY <2>4, <3>2 DEF Had
    <3> QED BY <3>1, <3>2
  <2>6. ASSUME NEW g, g = <<"take", i>> PROVE Had(g, Data(o)') = Had(g, Data(o)) + 1
    BY <2>2, <2>4, <2>6 DEF Had
  <2> QED BY <2>3, <2>5, <2>6
<1> QED BY <1>2, <1>3 DEF Decrement

LEMMA DeductDrives ==
  ASSUME TypeOK, TypeOK', StockJobs, RowsFinite, AllDriven, NEW w \in StockWorkers,
         UNCHANGED <<cart, orderVars, paymentVars>>, DeductLine(w) \/ DeductThrows(w)
  PROVE  AllDriven'
<1>0. PICK job : stockWorker[w] = job
  OBVIOUS
<1> DEFINE s == <<"stock", w>>
           o == job.event.orderId
<1>1. job.pc = "deduct" /\ UNCHANGED bus /\ faults'["redeliver"] = faults["redeliver"]
      /\ (Decrement(o, job.line) \/ taken' = taken)
  BY <1>0 DEF DeductLine, DeductThrows, Fault, TypeOK, BusTypeOK, FaultKinds
<1>2. /\ s \in Spots /\ s[1] = "stock" /\ job \in BusyStockWorker /\ o \in Orders
      /\ job.line \in Lines(o) /\ JobAt(s) = job /\ HasToken(s, o)
      /\ job.event.topic = "STOCK_DEDUCT_REQUESTED"
  BY <1>0, <1>1, StockAt
<1>3. PICK next \in {NextLine(job), Failed(job)} : stockWorker' = [stockWorker EXCEPT ![w] = next]
  BY <1>0 DEF DeductLine, DeductThrows
<1>4. stockWorker'[w] = next /\ \A v \in StockWorkers \ {w} : stockWorker'[v] = stockWorker[v]
  BY <1>3 DEF TypeOK, StockTypeOK
<1>5. /\ next.event = job.event /\ next.pc \in {"deduct", "emit"}
      /\ next.pc = "deduct" => next.line = job.line + 1
  BY <1>1, <1>2, <1>3, LineGoesTo
<1>6. /\ \A p \in Spots \ {s} : p[1] # "bus" => JobAt(p)' = JobAt(p)
      /\ JobAt(s)' = next
  BY <1>4, OtherSpotsOfStock DEF JobAt
<1>7. /\ \A q \in Orders \ {o} : SameHad(q)
      /\ \A g \in Stages : \/ Had(g, Data(o)') = Had(g, Data(o))
                           \/ /\ g = <<"take", job.line>>
                              /\ Had(g, Data(o)') = Had(g, Data(o)) + 1
  BY <1>1, <1>2, HadOfDecrement
<1>8. job.line \in Nat
  BY <1>2 DEF BusyStockWorker
<1>9. ASSUME NEW g \in Stages
      PROVE  Passed(g, o, Ahead(g, s[1], JobAt(s)), Ahead(g, s[1], JobAt(s)'))
  <2>1. Ahead(g, "stock", next) => Ahead(g, "stock", job)
    BY <1>1, <1>2, <1>5, <1>8, StageIs DEF Ahead
  <2>2. g = <<"take", job.line>> => Ahead(g, "stock", job) /\ ~Ahead(g, "stock", next)
    BY <1>1, <1>2, <1>5, <1>8 DEF Ahead, BeforeDeduction
  <2> QED BY <1>2, <1>6, <1>7, <2>1, <2>2 DEF Passed
<1> HIDE DEF s
<1> QED BY <1>1, <1>2, <1>5, <1>6, <1>7, <1>9, DrivenWorks

LEMMA EmitStockDrives ==
  ASSUME TypeOK, TypeOK', StockJobs, RowsFinite, AllDriven, NEW w \in StockWorkers,
         UNCHANGED <<cart, orderVars, paymentVars>>, EmitStockResult(w)
  PROVE  AllDriven'
<1>0. PICK job : stockWorker[w] = job
  OBVIOUS
<1> DEFINE s == <<"stock", w>>
           o == job.event.orderId
           e == Result(ResultTopicOf(job.event), o, job.success)
           S == {e}
<1>1. /\ job.pc = "emit" /\ Emit(S) /\ taken' = taken
      /\ stockWorker' = [stockWorker EXCEPT ![w] = IdleStockWorker]
  BY <1>0 DEF EmitStockResult
<1>2. /\ s \in Spots /\ s[1] = "stock" /\ o \in Orders /\ job \in BusyStockWorker
      /\ job.event.topic \in {"STOCK_CHECK_REQUESTED", "STOCK_DEDUCT_REQUESTED"}
      /\ JobAt(s) = job /\ HasToken(s, o)
  BY <1>0, <1>1, StockAt
<1>3. /\ e \in SagaEvents /\ e \in Events /\ e.orderId = o
      /\ e.topic = IF job.event.topic = "STOCK_CHECK_REQUESTED"
                   THEN "STOCK_CHECK_RESULT" ELSE "STOCK_DEDUCT_RESULT"
  BY <1>2 DEF SagaEvents, Events, Results, Result, ResultTopicOf, ResultTopics, NoticeTopics, BusyStockWorker
<1>4. /\ S \in SUBSET Events /\ S \in SUBSET SagaEvents /\ (\A f \in S : f.orderId = o)
      /\ \A f, g \in S : f = g
  BY <1>3
<1>5. /\ stockWorker'[w].pc = "idle"
      /\ \A v \in StockWorkers \ {w} : stockWorker'[v] = stockWorker[v]
  BY <1>1 DEF TypeOK, StockTypeOK, IdleStockWorker
<1>6. /\ \A p \in Spots \ {s} : p[1] # "bus" => JobAt(p)' = JobAt(p)
      /\ JobAt(s)'.pc = "idle"
  BY <1>5, OtherSpotsOfStock DEF JobAt
<1>7. \A q \in Orders : SameHad(q)
  BY <1>1, <1>4, SentCounts, NoticesKept, RowsKept, HadKept
<1>8. ASSUME NEW g \in Stages
      PROVE  Passed(g, o, Ahead(g, s[1], JobAt(s)),
                    \E f \in S : f \in SagaEvents /\ Ahead(g, "bus", Waits(f)))
  <2>1. AheadOf(g, e.topic) => Ahead(g, "stock", job)
    BY <1>1, <1>2, <1>3, StageIs DEF Ahead, AheadOf, BeforeDeduction, BeforePayment
  <2> HIDE DEF e
  <2> QED BY <1>2, <1>7, <2>1, AheadOnBus DEF Passed, SameHad
<1> HIDE DEF s, S
<1> QED BY <1>1, <1>2, <1>4, <1>6, <1>7, <1>8, DrivenSent

LEMMA RedeliverStockDrives ==
  ASSUME TypeOK, TypeOK', StockJobs, RowsFinite, AllDriven, NEW w \in StockWorkers,
         UNCHANGED <<cart, orderVars, paymentVars>>, RedeliverStockRequest(w)
  PROVE  AllDriven'
<1>0. PICK job : stockWorker[w] = job
  OBVIOUS
<1> DEFINE s == <<"stock", w>>
<1>1. job.pc # "idle"
  BY <1>0 DEF RedeliverStockRequest, TypeOK, StockTypeOK, BusyStockWorker
<1>2. /\ s \in Spots /\ s[1] = "stock" /\ job.event \in Requests
      /\ job.event.topic \in {"STOCK_CHECK_REQUESTED", "STOCK_DEDUCT_REQUESTED"}
  BY <1>0, <1>1, StockAt
<1>3. job.event \in SagaEvents /\ Redeliver(job.event) /\ taken' = taken
  BY <1>0, <1>2 DEF RedeliverStockRequest, SagaEvents, Events, NoticeTopics
<1>4. /\ stockWorker'[w] = stockWorker[w] \/ stockWorker'[w].pc = "idle"
      /\ \A v \in StockWorkers \ {w} : stockWorker'[v] = stockWorker[v]
  BY DEF RedeliverStockRequest, TypeOK, StockTypeOK, IdleStockWorker
<1>5. /\ \A p \in Spots \ {s} : p[1] # "bus" => JobAt(p)' = JobAt(p)
      /\ JobAt(s)' = JobAt(s) \/ JobAt(s)'.pc = "idle"
  BY <1>4, OtherSpotsOfStock DEF JobAt
<1>6. \A q \in Orders : SameHad(q)
  BY <1>3, TakenFrom, RowsKept, HadKept
<1> HIDE DEF s
<1> QED BY <1>2, <1>3, <1>5, <1>6, DrivenByRedelivery

LEMMA OperatorDrives ==
  ASSUME TypeOK, TypeOK', RowsFinite, AllDriven,
         UNCHANGED <<cart, orderVars, paymentVars>>, OperatorStep
  PROVE  AllDriven'
<1>1. UNCHANGED <<bus, faults, taken, stockWorker>>
  BY OperatorMoves DEF TypeOK
<1>2. \A r \in Spots : JobAt(r)' = JobAt(r)
  BY <1>1, JobKept DEF orderVars, paymentVars
<1>3. \A q \in Orders : SameHad(q)
  BY <1>1, RowsKept, HadKept
<1> QED BY <1>1, <1>2, <1>3, DrivenStays

-----------------------------------------------------------------------------
(* The steps of payment-service.                                           *)

\* The other orders' money does not move; rows and charges of o may.
LEMMA HadOfPayment ==
  ASSUME NEW o \in Orders, UNCHANGED <<orderVars, stockVars>>,
         \A q \in Orders : /\ bus'[Request("COMPLETED", q)] = bus[Request("COMPLETED", q)]
                           /\ bus'[Request("FAILED", q)] = bus[Request("FAILED", q)],
         \A q \in Orders \ {o} : Rows(q)' = Rows(q) /\ charges'[q] = charges[q]
  PROVE  /\ \A q \in Orders \ {o} : SameHad(q)
         /\ Rows(o)' = Rows(o) /\ charges'[o] = charges[o] => SameHad(o)
         /\ \A g \in Stages :
              \/ Had(g, Data(o)') = Had(g, Data(o))
              \/ g[1] = "insert" /\ Had(g, Data(o)') = Cardinality(Rows(o)')
                                 /\ Had(g, Data(o)) = Cardinality(Rows(o))
              \/ g[1] = "charge" /\ Had(g, Data(o)') = charges'[o] /\ Had(g, Data(o)) = charges[o]
<1>1. /\ \A q \in Orders \ {o} : SameHad(q)
      /\ Rows(o)' = Rows(o) /\ charges'[o] = charges[o] => SameHad(o)
  BY OthersKept, HadKept
<1>2. /\ Data(o)'.taken = Data(o).taken /\ Data(o)'.notices = Data(o).notices
      /\ Data(o)'.rows = Rows(o)' /\ Data(o).rows = Rows(o)
      /\ Data(o)'.charges = charges'[o] /\ Data(o).charges = charges[o]
  BY OthersKept DEF Data
<1>3. ASSUME NEW g \in Stages
      PROVE  \/ Had(g, Data(o)') = Had(g, Data(o))
             \/ g[1] = "insert" /\ Had(g, Data(o)') = Cardinality(Rows(o)')
                                /\ Had(g, Data(o)) = Cardinality(Rows(o))
             \/ g[1] = "charge" /\ Had(g, Data(o)') = charges'[o] /\ Had(g, Data(o)) = charges[o]
  BY <1>2, StageIs DEF Had
<1> QED BY <1>1, <1>3

\* processPayment inserts a row, whatever rows the order has.
LEMMA ReceivePaymentDrives ==
  ASSUME TypeOK, TypeOK', RowsFinite, AllDriven, NEW w \in PaymentWorkers, NEW e \in Requests,
         NEW p \in PaymentIds, UNCHANGED <<cart, orderVars, stockVars>>, ReceivePayment(w, e, p)
  PROVE  AllDriven'
<1> DEFINE s == <<"payment", w>>
           o == e.orderId
           job == [pc |-> "fire", event |-> e, payment |-> p, success |-> FALSE]
<1>1. e \in SagaEvents /\ o \in Orders /\ e.topic = "PAYMENT_REQUESTED"
  BY DEF ReceivePayment, SagaEvents, Events, Requests, NoticeTopics
<1>2. s \in Spots /\ s[1] = "payment" /\ s[2] = w
  BY SpotsOf
<1>3. /\ Consume(e) /\ UNCHANGED <<charges, faults>>
      /\ paymentWorker' = [paymentWorker EXCEPT ![w] = job]
      /\ payments[p] = NoPayment /\ paymentWorker[w].pc = "idle"
      /\ payments' = [payments EXCEPT ![p] = [orderId |-> o, status |-> "PENDING"]]
  BY DEF ReceivePayment, IdlePaymentWorker
<1>4. job.event = e /\ job.pc = "fire"
  OBVIOUS
<1> HIDE DEF job
<1>5. /\ paymentWorker'[w] = job
      /\ \A v \in PaymentWorkers \ {w} : paymentWorker'[v] = paymentWorker[v]
  BY <1>3 DEF TypeOK, PaymentTypeOK
<1>6. /\ \A q \in Spots \ {s} : q[1] # "bus" => JobAt(q)' = JobAt(q)
      /\ JobAt(s)' = job /\ JobAt(s).pc = "idle"
  BY <1>3, <1>5, OtherSpotsOfPayment DEF JobAt
<1>7. /\ Rows(o)' = Rows(o) \cup {p} /\ p \notin Rows(o)
      /\ \A q \in Orders \ {o} : Rows(q)' = Rows(q)
  BY <1>1, <1>3, RowInserted DEF Rows
<1>8. Cardinality(Rows(o)') = Cardinality(Rows(o)) + 1
  BY <1>1, <1>7, FS_AddElement DEF RowsFinite
<1>9. \A q \in Orders : /\ bus'[Request("COMPLETED", q)] = bus[Request("COMPLETED", q)]
                        /\ bus'[Request("FAILED", q)] = bus[Request("FAILED", q)]
  BY <1>1, <1>3, TakenFrom
<1>10. /\ \A q \in Orders \ {o} : SameHad(q)
       /\ \A g \in Stages : \/ Had(g, Data(o)') = Had(g, Data(o))
                            \/ g[1] = "insert" /\ Had(g, Data(o)') = Had(g, Data(o)) + 1
  BY <1>1, <1>3, <1>7, <1>8, <1>9, HadOfPayment
<1>11. ASSUME NEW g \in Stages
       PROVE  Passed(g, o, Ahead(g, "bus", Waits(e)), Ahead(g, s[1], JobAt(s)'))
  <2>1. Ahead(g, "payment", job) => AheadOf(g, e.topic) /\ g[1] # "insert"
    BY <1>4 DEF Ahead, AheadOf
  <2>2. g[1] = "insert" => AheadOf(g, e.topic)
    BY <1>1 DEF AheadOf, BeforePayment
  <2> QED BY <1>2, <1>6, <1>10, <2>1, <2>2, AheadOnBus DEF Passed
<1> HIDE DEF s
<1> QED BY <1>1, <1>2, <1>3, <1>4, <1>6, <1>10, <1>11, DrivenTaken

LEMMA ReceiveRefundDrives ==
  ASSUME TypeOK, TypeOK', RowsFinite, AllDriven, NEW w \in PaymentWorkers, NEW e \in Requests,
         UNCHANGED <<cart, orderVars, stockVars>>, ReceiveRefund(w, e)
  PROVE  AllDriven'
<1> DEFINE s == <<"payment", w>>
           o == e.orderId
<1>1. e \in SagaEvents /\ o \in Orders /\ e.topic = "PAYMENT_REFUND_REQUESTED"
  BY DEF ReceiveRefund, SagaEvents, Events, Requests, NoticeTopics
<1>2. s \in Spots /\ s[1] = "payment" /\ s[2] = w
  BY SpotsOf
<1>3. Consume(e) /\ UNCHANGED <<payments, charges, faults>> /\ paymentWorker[w].pc = "idle"
  BY DEF ReceiveRefund, IdlePaymentWorker
<1>4. /\ paymentWorker'[w].pc # "idle" => paymentWorker'[w].event = e
      /\ \A v \in PaymentWorkers \ {w} : paymentWorker'[v] = paymentWorker[v]
  BY <1>3 DEF ReceiveRefund, TypeOK, PaymentTypeOK
<1>5. \A q \in Spots \ {s} : q[1] # "bus" => JobAt(q)' = JobAt(q)
  BY <1>4, OtherSpotsOfPayment
<1>6. \A q \in Orders : SameHad(q)
  <2>1. \A q \in Orders : Rows(q)' = Rows(q)
    BY <1>3 DEF Rows
  <2> QED BY <1>1, <1>3, <2>1, TakenFrom, OthersKept, HadKept
<1>7. /\ JobAt(s).pc = "idle"
      /\ JobAt(s)'.pc # "idle" => JobAt(s)'.event = e
  BY <1>3, <1>4 DEF JobAt
<1>8. ASSUME NEW g \in Stages
      PROVE  Passed(g, o, Ahead(g, "bus", Waits(e)), Ahead(g, s[1], JobAt(s)'))
  <2>1. Ahead(g, "payment", JobAt(s)') => AheadOf(g, e.topic)
    BY <1>7 DEF Ahead, AheadOf
  <2> QED BY <1>1, <1>2, <1>6, <2>1, AheadOnBus DEF Passed, SameHad
<1> HIDE DEF s
<1> QED BY <1>1, <1>2, <1>3, <1>5, <1>6, <1>7, <1>8, DrivenTaken

\* The gateway answers: the charge is made, or is not.
LEMMA FireDrives ==
  ASSUME TypeOK, TypeOK', PaymentJobs, PaymentAsked, RowsFinite, AllDriven, NEW w \in PaymentWorkers,
         UNCHANGED <<cart, orderVars, stockVars>>, FireSucceeds(w) \/ FireFails(w)
  PROVE  AllDriven'
<1>0. PICK job : paymentWorker[w] = job
  OBVIOUS
<1> DEFINE s == <<"payment", w>>
           o == job.event.orderId
<1>1. /\ job.pc = "fire" /\ UNCHANGED <<payments, bus, faults>>
      /\ charges' = charges \/ charges' = [charges EXCEPT ![o] = @ + 1]
  BY <1>0 DEF FireSucceeds, FireFails
<1>2. /\ s \in Spots /\ s[1] = "payment" /\ job \in BusyPaymentWorker /\ o \in Orders
      /\ JobAt(s) = job /\ HasToken(s, o)
      /\ job.event.topic = "PAYMENT_REQUESTED"
  BY <1>0, <1>1, PaymentAt DEF PaymentAsked, AskedFor
<1>3. PICK next \in {[job EXCEPT !.pc = "save", !.success = TRUE], [job EXCEPT !.pc = "save"]} :
        paymentWorker' = [paymentWorker EXCEPT ![w] = next]
  BY <1>0 DEF FireSucceeds, FireFails
<1>4. next.event = job.event /\ next.pc = "save"
  BY <1>2, <1>3 DEF BusyPaymentWorker
<1>5. paymentWorker'[w] = next /\ \A v \in PaymentWorkers \ {w} : paymentWorker'[v] = paymentWorker[v]
  BY <1>3 DEF TypeOK, PaymentTypeOK
<1>6. /\ \A p \in Spots \ {s} : p[1] # "bus" => JobAt(p)' = JobAt(p)
      /\ JobAt(s)' = next
  BY <1>5, OtherSpotsOfPayment DEF JobAt
<1>7. /\ \A q \in Orders : Rows(q)' = Rows(q)
      /\ \A q \in Orders \ {o} : charges'[q] = charges[q]
      /\ charges'[o] \in {charges[o], charges[o] + 1}
  BY <1>1, <1>2 DEF Rows, TypeOK, PaymentTypeOK
<1>8. /\ \A q \in Orders \ {o} : SameHad(q)
      /\ \A g \in Stages : \/ Had(g, Data(o)') = Had(g, Data(o))
                           \/ g[1] = "charge" /\ Had(g, Data(o)') = Had(g, Data(o)) + 1
  BY <1>1, <1>2, <1>7, HadOfPayment
<1>9. ASSUME NEW g \in Stages
      PROVE  Passed(g, o, Ahead(g, s[1], JobAt(s)), Ahead(g, s[1], JobAt(s)'))
  <2>1. Ahead(g, "payment", next) => Ahead(g, "payment", job)
    BY <1>1, <1>2, <1>4 DEF Ahead
  <2>2. g[1] = "charge" => Ahead(g, "payment", job) /\ ~Ahead(g, "payment", next)
    BY <1>1, <1>2, <1>4 DEF Ahead, BeforePayment
  <2> QED BY <1>2, <1>6, <1>8, <2>1, <2>2 DEF Passed
<1> HIDE DEF s
<1> QED BY <1>1, <1>2, <1>4, <1>6, <1>8, <1>9, DrivenWorks

\* The outcome of a payment, or a refund, is saved.
LEMMA PaymentSavesDrives ==
  ASSUME TypeOK, TypeOK', PaymentJobs, PaymentAsked, RowsFinite, AllDriven, NEW w \in PaymentWorkers,
         UNCHANGED <<cart, orderVars, stockVars>>, SavePayment(w) \/ SaveRefund(w)
  PROVE  AllDriven'
<1>0. PICK job : paymentWorker[w] = job
  OBVIOUS
<1> DEFINE s == <<"payment", w>>
           o == job.event.orderId
<1>1. job.pc \in {"save", "saveRefund"} /\ UNCHANGED <<charges, bus, faults>>
  BY <1>0 DEF SavePayment, SaveRefund
<1>2. /\ s \in Spots /\ s[1] = "payment" /\ job \in BusyPaymentWorker /\ o \in Orders
      /\ JobAt(s) = job /\ HasToken(s, o) /\ job.payment \in Rows(o)
  BY <1>0, <1>1, PaymentAt
<1>3. PICK status \in PaymentStatus :
        payments' = [payments EXCEPT ![job.payment] = WithStatus(@, status)]
  <2>1. CASE SavePayment(w)
    BY <1>0, <2>1 DEF SavePayment, PaymentStatus, WithStatus
  <2>2. CASE SaveRefund(w)
    BY <1>0, <2>2 DEF SaveRefund, PaymentStatus, WithStatus
  <2> QED BY <2>1, <2>2
<1>4. /\ paymentWorker'[w].pc # "idle" => /\ paymentWorker'[w].event = job.event
                                          /\ paymentWorker'[w].pc = "emit" /\ job.pc = "save"
      /\ \A v \in PaymentWorkers \ {w} : paymentWorker'[v] = paymentWorker[v]
  <2>1. CASE SavePayment(w)
    BY <1>0, <1>2, <2>1 DEF SavePayment, TypeOK, PaymentTypeOK, BusyPaymentWorker
  <2>2. CASE SaveRefund(w)
    BY <2>2 DEF SaveRefund, TypeOK, PaymentTypeOK, IdlePaymentWorker
  <2> QED BY <2>1, <2>2
<1>5. \A p \in Spots \ {s} : p[1] # "bus" => JobAt(p)' = JobAt(p)
  BY <1>4, OtherSpotsOfPayment
<1>6. \A q \in Orders : Rows(q)' = Rows(q)
  BY <1>2, <1>3, RowSaved
<1>7. \A q \in Orders : SameHad(q)
  BY <1>1, <1>6, OthersKept, HadKept
<1>8. JobAt(s)'.pc # "idle" => /\ JobAt(s)'.event = job.event
                               /\ JobAt(s)'.pc = "emit" /\ job.pc = "save"
  BY <1>4 DEF JobAt
<1>9. ASSUME NEW g \in Stages
      PROVE  Passed(g, o, Ahead(g, s[1], JobAt(s)), Ahead(g, s[1], JobAt(s)'))
  <2>1. Ahead(g, "payment", JobAt(s)') => Ahead(g, "payment", job)
    BY <1>8 DEF Ahead
  <2> QED BY <1>2, <1>7, <2>1 DEF Passed, SameHad
<1> HIDE DEF s
<1> QED BY <1>1, <1>2, <1>5, <1>7, <1>8, <1>9, DrivenWorks

LEMMA EmitPaymentDrives ==
  ASSUME TypeOK, TypeOK', PaymentJobs, PaymentAsked, RowsFinite, AllDriven, NEW w \in PaymentWorkers,
         UNCHANGED <<cart, orderVars, stockVars>>, EmitPaymentResult(w)
  PROVE  AllDriven'
<1>0. PICK job : paymentWorker[w] = job
  OBVIOUS
<1> DEFINE s == <<"payment", w>>
           o == job.event.orderId
           e == Result("PAYMENT_RESULT", o, job.success)
           S == {e}
<1>1. /\ job.pc = "emit" /\ Emit(S) /\ UNCHANGED <<payments, charges>>
      /\ paymentWorker' = [paymentWorker EXCEPT ![w] = IdlePaymentWorker]
  BY <1>0 DEF EmitPaymentResult
<1>2. /\ s \in Spots /\ s[1] = "payment" /\ o \in Orders /\ job \in BusyPaymentWorker
      /\ JobAt(s) = job /\ HasToken(s, o)
      /\ job.event.topic = "PAYMENT_REQUESTED"
  BY <1>0, <1>1, PaymentAt DEF PaymentAsked, AskedFor
<1>3. /\ e \in SagaEvents /\ e \in Events /\ e.orderId = o /\ e.topic = "PAYMENT_RESULT"
  BY <1>2 DEF SagaEvents, Events, Results, Result, ResultTopics, NoticeTopics, BusyPaymentWorker
<1>4. /\ S \in SUBSET Events /\ S \in SUBSET SagaEvents /\ (\A f \in S : f.orderId = o)
      /\ \A f, g \in S : f = g
  BY <1>3
<1>5. /\ paymentWorker'[w].pc = "idle"
      /\ \A v \in PaymentWorkers \ {w} : paymentWorker'[v] = paymentWorker[v]
  BY <1>1 DEF TypeOK, PaymentTypeOK, IdlePaymentWorker
<1>6. /\ \A p \in Spots \ {s} : p[1] # "bus" => JobAt(p)' = JobAt(p)
      /\ JobAt(s)'.pc = "idle"
  BY <1>5, OtherSpotsOfPayment DEF JobAt
<1>7. \A q \in Orders : SameHad(q)
  <2>1. \A q \in Orders : Rows(q)' = Rows(q)
    BY <1>1 DEF Rows
  <2> QED BY <1>1, <1>4, <2>1, SentCounts, NoticesKept, OthersKept, HadKept
<1>8. ASSUME NEW g \in Stages
      PROVE  Passed(g, o, Ahead(g, s[1], JobAt(s)),
                    \E f \in S : f \in SagaEvents /\ Ahead(g, "bus", Waits(f)))
  <2>1. AheadOf(g, e.topic) => Ahead(g, "payment", job)
    BY <1>1, <1>2, <1>3, StageIs DEF Ahead, AheadOf, BeforeDeduction, BeforePayment
  <2> HIDE DEF e
  <2> QED BY <1>2, <1>7, <2>1, AheadOnBus DEF Passed, SameHad
<1> HIDE DEF s, S
<1> QED BY <1>1, <1>2, <1>4, <1>6, <1>7, <1>8, DrivenSent

LEMMA RedeliverPaymentDrives ==
  ASSUME TypeOK, TypeOK', PaymentJobs, PaymentAsked, RowsFinite, AllDriven, NEW w \in PaymentWorkers,
         UNCHANGED <<cart, orderVars, stockVars>>, RedeliverPaymentRequest(w)
  PROVE  AllDriven'
<1>0. PICK job : paymentWorker[w] = job
  OBVIOUS
<1> DEFINE s == <<"payment", w>>
<1>1. job.pc # "idle"
  BY <1>0 DEF RedeliverPaymentRequest, TypeOK, PaymentTypeOK, BusyPaymentWorker
<1>2. /\ s \in Spots /\ s[1] = "payment" /\ job.event \in Requests
      /\ job.event.topic \in {"PAYMENT_REQUESTED", "PAYMENT_REFUND_REQUESTED"}
  <2>1. job \in BusyPaymentWorker
    BY <1>0, <1>1, PaymentAt
  <2> QED BY <1>0, <1>1, <2>1, PaymentAt DEF PaymentAsked, AskedFor, BusyPaymentWorker
<1>3. job.event \in SagaEvents /\ Redeliver(job.event) /\ UNCHANGED <<payments, charges>>
  BY <1>0, <1>2 DEF RedeliverPaymentRequest, SagaEvents, Events, NoticeTopics
<1>4. /\ paymentWorker'[w] = paymentWorker[w] \/ paymentWorker'[w].pc = "idle"
      /\ \A v \in PaymentWorkers \ {w} : paymentWorker'[v] = paymentWorker[v]
  BY DEF RedeliverPaymentRequest, TypeOK, PaymentTypeOK, IdlePaymentWorker
<1>5. /\ \A p \in Spots \ {s} : p[1] # "bus" => JobAt(p)' = JobAt(p)
      /\ JobAt(s)' = JobAt(s) \/ JobAt(s)'.pc = "idle"
  BY <1>4, OtherSpotsOfPayment DEF JobAt
<1>6. \A q \in Orders : SameHad(q)
  <2>1. \A q \in Orders : Rows(q)' = Rows(q)
    BY <1>3 DEF Rows
  <2> QED BY <1>3, <2>1, TakenFrom, OthersKept, HadKept
<1> HIDE DEF s
<1> QED BY <1>2, <1>3, <1>5, <1>6, DrivenByRedelivery

-----------------------------------------------------------------------------
(* The invariant.                                                          *)

\* A step inserts one row at most.
LEMMA RowsFiniteStep ==
  ASSUME IInv, RowsFinite, [Next]_vars
  PROVE  RowsFinite'
<1>1. CASE payments' = payments
  BY <1>1 DEF RowsFinite, Rows
<1>2. ASSUME NEW p, \A r \in PaymentIds \ {p} : payments'[r] = payments[r]
      PROVE  RowsFinite'
  <2>1. ASSUME NEW o \in Orders PROVE IsFiniteSet(Rows(o)')
    <3>1. Rows(o)' \subseteq Rows(o) \cup {p}
      BY <1>2 DEF Rows
    <3>2. IsFiniteSet(Rows(o) \cup {p})
      BY FS_AddElement DEF RowsFinite
    <3> QED BY <3>1, <3>2, FS_Subset
  <2> QED BY <2>1 DEF RowsFinite
<1>3. DOMAIN payments = PaymentIds
  BY DEF IInv, TypeOK, PaymentTypeOK
<1>4. \/ payments' = payments
      \/ \E p : \A r \in PaymentIds \ {p} : payments'[r] = payments[r]
  <2>1. ASSUME NEW w \in PaymentWorkers, NEW e \in Requests, ReceivePaymentRequest(w, e)
        PROVE  \/ payments' = payments
               \/ \E p : \A r \in PaymentIds \ {p} : payments'[r] = payments[r]
    BY <1>3, <2>1 DEF ReceivePaymentRequest, ReceivePayment, ReceiveRefund
  <2>2. ASSUME NEW w \in PaymentWorkers, PaymentWorkerStep(w) \/ RedeliverPaymentRequest(w)
        PROVE  \/ payments' = payments
               \/ \E p : \A r \in PaymentIds \ {p} : payments'[r] = payments[r]
    <3>1. CASE SavePayment(w) \/ SaveRefund(w)
      <4>1. PICK p, row : payments' = [payments EXCEPT ![p] = row]
        BY <3>1 DEF SavePayment, SaveRefund
      <4>2. \A r \in PaymentIds \ {p} : payments'[r] = payments[r]
        BY <1>3, <4>1
      <4> QED BY <4>2
    <3>2. CASE ~(SavePayment(w) \/ SaveRefund(w))
      BY <2>2, <3>2 DEF PaymentWorkerStep, FireSucceeds, FireFails, EmitPaymentResult,
                        RedeliverPaymentRequest
    <3> QED BY <3>1, <3>2
  <2> QED BY <2>1, <2>2 DEF Next, PaymentNext, vars, paymentVars
<1> QED BY <1>1, <1>2, <1>4

LEMMA AllDrivenStep ==
  ASSUME IInv, TypeOK', PaymentAsked, RowsFinite, AllDriven, [Next]_vars
  PROVE  AllDriven'
<1> USE DEF IInv
<1>1. CASE UNCHANGED vars
  <2>1. UNCHANGED <<bus, faults, orderVars, stockVars, paymentVars>>
    BY <1>1 DEF vars
  <2>2. \A p \in Spots : JobAt(p)' = JobAt(p)
    BY <2>1, JobKept DEF orderVars, stockVars, paymentVars
  <2>3. \A q \in Orders : SameHad(q)
    BY <2>1, RowsKept, HadKept DEF stockVars
  <2> QED BY <2>1, <2>2, <2>3, DrivenStays
<1>2. CASE OrderNext /\ UNCHANGED <<cart, stockVars, paymentVars>>
  <2>1. ASSUME NEW o \in Orders,
               CreateOrder(o) \/ CreateSaga(o) \/ CreateEmit(o) \/ CreateThrows(o)
        PROVE  AllDriven'
    BY <1>2, <2>1, CreateDrives, CreateEmitDrives
  <2>2. ASSUME NEW w \in OrderWorkers, NEW e \in Results, ReceiveResult(w, e)
        PROVE  AllDriven'
    BY <1>2, <2>2, ReceiveResultDrives
  <2>3. ASSUME NEW w \in OrderWorkers, OrderWorkerStep(w) \/ RedeliverResult(w)
        PROVE  AllDriven'
    BY <1>2, <2>3, OrderSavesDrives, EmitNextDrives, RedeliverResultDrives DEF OrderWorkerStep
  <2> QED BY <1>2, <2>1, <2>2, <2>3 DEF OrderNext
<1>3. CASE StockNext /\ UNCHANGED <<cart, orderVars, paymentVars>>
  <2>1. ASSUME NEW w \in StockWorkers, NEW e \in Requests, ReceiveStockRequest(w, e)
        PROVE  AllDriven'
    BY <1>3, <2>1, ReceiveStockDrives
  <2>2. ASSUME NEW w \in StockWorkers,
               StockWorkerStep(w) \/ DeductThrows(w) \/ RedeliverStockRequest(w)
        PROVE  AllDriven'
    BY <1>3, <2>2, CheckLineDrives, DeductDrives, EmitStockDrives, RedeliverStockDrives
       DEF StockWorkerStep
  <2>3. ASSUME OperatorStep
        PROVE  AllDriven'
    BY <1>3, <2>3, OperatorDrives
  <2> QED BY <1>3, <2>1, <2>2, <2>3 DEF StockNext
<1>4. CASE PaymentNext /\ UNCHANGED <<cart, orderVars, stockVars>>
  <2>1. ASSUME NEW w \in PaymentWorkers, NEW e \in Requests, ReceivePaymentRequest(w, e)
        PROVE  AllDriven'
    BY <1>4, <2>1, ReceivePaymentDrives, ReceiveRefundDrives DEF ReceivePaymentRequest
  <2>2. ASSUME NEW w \in PaymentWorkers, PaymentWorkerStep(w) \/ RedeliverPaymentRequest(w)
        PROVE  AllDriven'
    BY <1>4, <2>2, FireDrives, PaymentSavesDrives, EmitPaymentDrives, RedeliverPaymentDrives
       DEF PaymentWorkerStep
  <2> QED BY <1>4, <2>1, <2>2 DEF PaymentNext
<1>5. CASE Next
  <2>1. UNCHANGED cart
    BY <1>5 DEF Next
  <2> QED BY <1>2, <1>3, <1>4, <1>5, <2>1 DEF Next
<1> QED BY <1>1, <1>5

\* At first a saga has one token, POST /orders, and everything ahead.
LEMMA InitDriven == Init => RowsFinite /\ AllDriven
<1> SUFFICES ASSUME Init PROVE RowsFinite /\ AllDriven
  OBVIOUS
<1> USE DEF Init, BusInit, OrderInit, StockInit, PaymentInit
<1>1. /\ \A e \in Events : bus[e] = 0
      /\ \A o \in Orders : /\ Rows(o) = {} /\ charges[o] = 0
                           /\ taken[o] = [i \in Lines(o) |-> 0]
      /\ faults["redeliver"] = 0
  BY DEF Rows, FaultKinds
<1>2. IsFiniteSet({}) /\ Cardinality({}) = 0
  BY FS_EmptySet
<1>3. ASSUME NEW o \in Orders, NEW g \in Stages PROVE Driven(g, o)
  <2>1. Had(g, Data(o)) = 0
    <3>1. bus[Request("COMPLETED", o)] = 0 /\ bus[Request("FAILED", o)] = 0
      BY <1>1, RequestIs DEF NoticeTopics
    <3>2. /\ Data(o).rows = {} /\ Data(o).charges = 0 /\ Data(o).notices = 0
          /\ Data(o).taken = [i \in Lines(o) |-> 0]
      BY <1>1, <3>1 DEF Data
    <3> QED BY <1>2, <3>2, StageIs DEF Had
  <2> DEFINE t == <<<<"post", o>>, 1>>
  <2>2. ASSUME NEW u \in Yet(g, o) PROVE u = t
    <3>1. u \in Spots \X (Nat \ {0}) /\ u = <<u[1], u[2]>> /\ u[1] \in Spots /\ u[2] \in Nat \ {0}
          /\ HasToken(u[1], o) /\ u[2] <= Copies(u[1])
      BY DEF Yet
    <3>2. u[1][1] # "bus"
      BY <1>1, <3>1, SpotIs DEF HasToken, JobAt, NoJob, SagaEvents
    <3>3. u[1][1] = "post"
      BY <3>1, <3>2, SpotIs DEF HasToken, JobAt, IdleOrderWorker, IdleStockWorker, IdlePaymentWorker
    <3>4. JobAt(u[1]) = [pc |-> "none", event |-> FirstEvent(u[1][2])] /\ u[1][2] \in Orders
      BY <3>1, <3>3, SpotIs DEF JobAt
    <3>5. u[1] = <<"post", o>>
      BY <3>1, <3>3, <3>4, SpotIs DEF HasToken, FirstEvent, Request
    <3>6. Copies(u[1]) = 1
      BY <3>3 DEF Copies
    <3>7. u[2] = 1
      <4>1. PICK n : n = u[2]
        OBVIOUS
      <4>2. n \in Nat \ {0} /\ n <= 1
        BY <3>1, <3>6, <4>1
      <4> QED BY <4>1, <4>2
    <3> QED BY <3>1, <3>5, <3>7
  <2>3. Yet(g, o) \in SUBSET {t}
    BY <2>2
  <2>4. IsFiniteSet({t}) /\ Cardinality({t}) = 1
    BY FS_Singleton
  <2>5. /\ IsFiniteSet(Yet(g, o)) /\ Cardinality(Yet(g, o)) <= Cardinality({t})
    <3> HIDE DEF t
    <3> QED BY <2>3, <2>4, FS_Subset
  <2>6. Cardinality(Yet(g, o)) \in Nat
    BY <2>5, FS_CardinalityType
  <2> HIDE DEF t
  <2> QED BY <1>1, <2>1, <2>4, <2>5, <2>6 DEF Driven
<1>4. ASSUME NEW o \in Orders PROVE IsFiniteSet(Rows(o))
  BY <1>1, <1>2
<1>5. RowsFinite
  BY <1>4, Zenon DEF RowsFinite
<1> QED BY <1>3, <1>5 DEF AllDriven

LEMMA DrivenMeansOnce == IInv /\ RowsFinite /\ AllDriven => OncePerDelivery
<1> SUFFICES ASSUME IInv, RowsFinite, AllDriven PROVE OncePerDelivery
  OBVIOUS
<1>1. ASSUME NEW o \in Orders
      PROVE  /\ Cardinality(Rows(o)) <= 1 + faults["redeliver"]
             /\ charges[o] <= 1 + faults["redeliver"]
             /\ \A i \in Lines(o) : taken[o][i] <= 1 + faults["redeliver"]
             /\ bus[Request("COMPLETED", o)] + bus[Request("FAILED", o)]
                  <= 1 + faults["redeliver"]
  <2>1. ASSUME NEW g \in Stages PROVE Had(g, Data(o)) <= 1 + faults["redeliver"]
    <3>1. Driven(g, o)
      BY DEF AllDriven
    <3>2. Cardinality(Yet(g, o)) \in Nat
      BY <3>1, FS_CardinalityType DEF Driven
    <3>3. Had(g, Data(o)) \in Nat /\ faults["redeliver"] \in Nat
      BY HadIs DEF RowsFinite, IInv, TypeOK, BusTypeOK, FaultKinds
    <3> QED BY <3>1, <3>2, <3>3 DEF Driven
  <2>2. /\ Data(o).rows = Rows(o) /\ Data(o).charges = charges[o] /\ Data(o).taken = taken[o]
        /\ Data(o).notices = bus[Request("COMPLETED", o)] + bus[Request("FAILED", o)]
    BY DEF Data
  <2>3. /\ <<"insert", 0>> \in Stages /\ Had(<<"insert", 0>>, Data(o)) = Cardinality(Rows(o))
        /\ <<"charge", 0>> \in Stages /\ Had(<<"charge", 0>>, Data(o)) = charges[o]
        /\ <<"announce", 0>> \in Stages
        /\ Had(<<"announce", 0>>, Data(o)) = bus[Request("COMPLETED", o)] + bus[Request("FAILED", o)]
    BY <2>2 DEF Stages, Had
  <2>4. ASSUME NEW i \in Lines(o)
        PROVE  <<"take", i>> \in Stages /\ Had(<<"take", i>>, Data(o)) = taken[o][i]
    <3>1. i \in Nat \ {0} /\ DOMAIN taken[o] = Lines(o)
      BY LinesOf DEF IInv, TypeOK, StockTypeOK
    <3> QED BY <2>2, <3>1 DEF Stages, Had
  <2> QED BY <2>1, <2>3, <2>4
<1> QED BY <1>1, Zenon DEF OncePerDelivery

\* For any number of faults, orders and replicas: the handlers have no
\* memory of the events they have handled, yet an event that is delivered
\* again drives its saga once more only.  An order that met n redeliveries
\* has at most n + 1 payment rows, charges, decrements of each line and
\* announcements of its end.
THEOREM DeliveriesDriveOnce == Spec => []OncePerDelivery
<1>1. IInv /\ StockInv /\ RowsFinite /\ AllDriven /\ IInv' /\ [Next]_vars
        => RowsFinite' /\ AllDriven'
  BY RowsFiniteStep, AllDrivenStep DEF IInv, StockInv
<1> QED BY <1>1, InitInv, NextInv, InitStock, NextStock, InitDriven, DrivenMeansOnce, PTL DEF Spec

-----------------------------------------------------------------------------
(* Lost sends: a saga always has somebody who goes on with it, unless it   *)
(* has shown the outcome or a send was lost.                               *)

\* What comes after the outcome is shown: the last emits, and a refund.  And
\* nothing is shown of an order before it is made.
ShownBefore ==
  /\ \A o \in Orders : creating[o] = "none" => orders[o] = "NONE"
  /\ \A w \in OrderWorkers :
       LET job == orderWorker[w] IN
       job.pc = "emit" /\ NextStep(job.event) \in EndSteps => orders[job.event.orderId] \in Final
  /\ \A o \in Orders : InFlight(Request("PAYMENT_REFUND_REQUESTED", o)) => orders[o] \in Final

StrandedOrders == {o \in Orders : Stranded(o)}

\* Stranded orders are finitely many although Orders need not be.
StrandedInv == /\ ShownBefore
               /\ IsFiniteSet(StrandedOrders)
               /\ Cardinality(StrandedOrders) <= faults["lose"]

\* Somebody will go on with o.
Going(o) == \E e \in SagaEvents : e.orderId = o /\ InFlight(e)

LEMMA StrandedIs ==
  ASSUME NEW o \in Orders
  PROVE  /\ Stranded(o) <=> creating[o] = "done" /\ ~Going(o) /\ orders[o] \notin Final
         /\ Stranded(o)' <=> creating'[o] = "done" /\ ~Going(o)' /\ orders'[o] \notin Final
BY DEF Stranded, Settled, Going, SagaEvents

\* The step strands nobody, or loses a send and strands at most one order.
Strands ==
  \/ /\ faults'["lose"] = faults["lose"]
     /\ \A q \in Orders : Stranded(q)' => Stranded(q)
  \/ /\ faults'["lose"] = faults["lose"] + 1
     /\ \E o \in Orders : \A q \in Orders \ {o} : Stranded(q)' => Stranded(q)

\* A step of the saga of o strands no other order, and o itself only if a
\* send is lost.
LEMMA StrandsHere ==
  ASSUME NEW o \in Orders,
         \A q \in Orders \ {o} : orders'[q] = orders[q] /\ creating'[q] = creating[q],
         \A f \in SagaEvents : f.orderId # o /\ InFlight(f) => InFlight(f)',
         \/ faults'["lose"] = faults["lose"] + 1
         \/ /\ faults'["lose"] = faults["lose"]
            /\ creating'[o] # "done" \/ orders'[o] \in Final \/ Going(o)'
  PROVE  Strands
<1>1. ASSUME NEW q \in Orders \ {o}, Stranded(q)' PROVE Stranded(q)
  <2>1. Going(q) => Going(q)'
    BY DEF Going
  <2>2. creating'[q] = "done" /\ ~Going(q)' /\ orders'[q] \notin Final
    BY <1>1, StrandedIs
  <2> QED BY <2>1, <2>2, StrandedIs
<1>2. Stranded(o)' => creating'[o] = "done" /\ ~Going(o)' /\ orders'[o] \notin Final
  BY StrandedIs
<1> QED BY <1>1, <1>2 DEF Strands

\* A send that arrives is on the bus, and one that does not is counted.
LEMMA EmitArrives ==
  ASSUME TypeOK, NEW S, Emit(S)
  PROVE  /\ \A f \in Events : bus[f] > 0 => bus'[f] > 0
         /\ \/ faults'["lose"] = faults["lose"] + 1
            \/ faults'["lose"] = faults["lose"] /\ \A f \in Events : f \in S => bus'[f] > 0
<1>1. bus \in [Events -> Nat] /\ faults \in [FaultKinds -> Nat]
  BY DEF TypeOK, BusTypeOK
<1>2. CASE Deliver(S) /\ UNCHANGED faults
  BY <1>1, <1>2 DEF Deliver
<1>3. ASSUME Fault("lose"), NEW sent \in SUBSET S, Deliver(sent)
      PROVE  /\ \A f \in Events : bus[f] > 0 => bus'[f] > 0
             /\ faults'["lose"] = faults["lose"] + 1
  <2>1. faults'["lose"] = faults["lose"] + 1
    BY <1>1, <1>3 DEF Fault, FaultKinds
  <2> QED BY <1>1, <1>3, <2>1 DEF Deliver
<1> QED BY <1>2, <1>3 DEF Emit

LEMMA ConsumeLeaves ==
  ASSUME TypeOK, NEW e \in Events, Consume(e)
  PROVE  bus[e] > 0 /\ \A f \in Events \ {e} : bus'[f] = bus[f]
BY DEF Consume, TypeOK, BusTypeOK

LEMMA RedeliverLeaves ==
  ASSUME TypeOK, NEW e \in Events, Redeliver(e)
  PROVE  /\ bus'[e] > 0 /\ \A f \in Events : bus[f] > 0 => bus'[f] > 0
         /\ faults'["lose"] = faults["lose"]
BY DEF Redeliver, Fault, FaultKinds, TypeOK, BusTypeOK

LEMMA ThrowLosesNone ==
  ASSUME TypeOK, Fault("throw")
  PROVE  faults'["lose"] = faults["lose"]
BY DEF Fault, FaultKinds, TypeOK, BusTypeOK

\* A replica of order-service that is at work has an event in flight.
LEMMA OrderHolds ==
  ASSUME TypeOK, NEW w \in OrderWorkers, orderWorker[w].pc # "idle"
  PROVE  /\ orderWorker[w] \in BusyOrderWorker /\ orderWorker[w] # IdleOrderWorker
         /\ orderWorker[w].event \in Results /\ orderWorker[w].event \in SagaEvents
         /\ orderWorker[w].event \in Events /\ orderWorker[w].event.orderId \in Orders
         /\ InFlight(orderWorker[w].event)
<1>1. orderWorker[w] \in BusyOrderWorker /\ orderWorker[w] # IdleOrderWorker
  BY DEF TypeOK, OrderTypeOK, IdleOrderWorker
<1>2. orderWorker[w].event \in Results
  BY <1>1 DEF BusyOrderWorker
<1>3. InFlight(orderWorker[w].event)
  BY <1>1 DEF InFlight, HeldByOrder
<1> QED BY <1>1, <1>2, <1>3 DEF Results, ResultTopics, Events, SagaEvents, NoticeTopics

\* Only the saving of an outcome changes a status that is an outcome.
LEMMA FinalStays ==
  ASSUME IInv, ShownBefore, Next, NEW o \in Orders, orders[o] \in Final
  PROVE  orders'[o] \in Final
<1> USE DEF IInv, TypeOK, OrderTypeOK
<1>1. CASE UNCHANGED orders
  BY <1>1
<1>2. ASSUME NEW x \in Orders, CreateOrder(x)
      PROVE  orders'[o] \in Final
  <2>1. x # o
    BY <1>2 DEF CreateOrder, ShownBefore, Final
  <2> QED BY <1>2, <2>1 DEF CreateOrder
<1>3. ASSUME NEW w \in OrderWorkers, SaveOrder(w)
      PROVE  orders'[o] \in Final
  BY <1>3 DEF SaveOrder, StatusAt, Final
<1> QED BY <1>1, <1>2, <1>3 DEF Next, OrderNext, orderVars, OrderWorkerStep, CreateSaga, CreateEmit,
           CreateThrows, ReceiveResult, SaveSaga, EmitNext, RedeliverResult

\* The status is saved before the last events are sent.
LEMMA ShownBeforeStep ==
  ASSUME IInv, ShownBefore, Next
  PROVE  ShownBefore'
<1>0. TypeOK /\ OrderTypeOK
  BY DEF IInv, TypeOK
<1>1. ASSUME NEW o \in Orders, creating'[o] = "none"
      PROVE  orders'[o] = "NONE"
  <2>1. creating[o] = "none"
    <3>1. ASSUME NEW x \in Orders,
                 CreateOrder(x) \/ CreateSaga(x) \/ CreateEmit(x) \/ CreateThrows(x)
          PROVE  creating[o] = "none"
      BY <1>0, <1>1, <3>1 DEF CreateOrder, CreateSaga, CreateEmit, CreateThrows, OrderTypeOK
    <3>2. CASE UNCHANGED creating
      BY <1>1, <3>2
    <3> QED BY <3>1, <3>2 DEF Next, OrderNext, orderVars, OrderWorkerStep, ReceiveResult, SaveSaga,
               SaveOrder, EmitNext, RedeliverResult
  <2>2. orders[o] = "NONE"
    BY <2>1 DEF ShownBefore
  <2>3. ASSUME NEW x \in Orders, CreateOrder(x)
        PROVE  orders'[o] = "NONE"
    BY <1>0, <1>1, <2>2, <2>3 DEF CreateOrder, OrderTypeOK
  <2>4. ASSUME NEW w \in OrderWorkers, SaveOrder(w)
        PROVE  orders'[o] = "NONE"
    <3>1. orderWorker[w].event.orderId # o
      <4>1. orderWorker[w].event \in Events /\ InFlight(orderWorker[w].event)
        BY <1>0, <2>4, OrderHolds DEF SaveOrder
      <4>2. Grounded(orderWorker[w].event)
        BY <4>1 DEF IInv, EventsGrounded
      <4> QED BY <2>2, <4>2 DEF Grounded
    <3> QED BY <2>2, <2>4, <3>1 DEF SaveOrder
  <2> QED BY <2>2, <2>3, <2>4 DEF Next, OrderNext, orderVars, OrderWorkerStep, CreateSaga,
             CreateEmit, CreateThrows, ReceiveResult, SaveSaga, EmitNext, RedeliverResult
<1>2. ASSUME NEW w \in OrderWorkers, orderWorker'[w].pc = "emit",
             NextStep(orderWorker'[w].event) \in EndSteps
      PROVE  orders'[orderWorker'[w].event.orderId] \in Final
  <2>1. orderWorker'[w] # IdleOrderWorker
    BY <1>2 DEF IdleOrderWorker
  <2>2. CASE orderWorker'[w] = orderWorker[w]
    <3>1. orders[orderWorker[w].event.orderId] \in Final
      BY <1>2, <2>2 DEF ShownBefore
    <3>2. orderWorker[w].event.orderId \in Orders
      BY <1>0, <1>2, <2>2, OrderHolds
    <3> QED BY <2>2, <3>1, <3>2, FinalStays
  <2>3. CASE SaveSaga(w)
    <3>1. orderWorker[w] \in BusyOrderWorker
      BY <1>0, <2>3, OrderHolds DEF SaveSaga
    <3>2. /\ orderWorker'[w].event = orderWorker[w].event
          /\ orderWorker'[w].pc = IF NextStep(orderWorker[w].event) \in EndSteps
                                  THEN "saveOrder" ELSE "emit"
      BY <1>0, <2>3, <3>1 DEF SaveSaga, BusyOrderWorker, OrderTypeOK
    <3> QED BY <1>2, <3>2
  <2>4. CASE SaveOrder(w)
    <3>1. orderWorker[w] \in BusyOrderWorker /\ orderWorker[w].event.orderId \in Orders
      BY <1>0, <2>4, OrderHolds DEF SaveOrder
    <3>2. orderWorker'[w].event = orderWorker[w].event
      BY <1>0, <2>4, <3>1 DEF SaveOrder, BusyOrderWorker, OrderTypeOK
    <3> QED BY <1>0, <2>4, <3>1, <3>2 DEF SaveOrder, StatusAt, Final, OrderTypeOK
  <2>5. ASSUME NEW v \in OrderWorkers, NEW e \in Results, ReceiveResult(v, e)
        PROVE  orderWorker'[w] = orderWorker[w]
    BY <1>0, <1>2, <2>5 DEF ReceiveResult, OrderTypeOK
  <2>6. ASSUME NEW v \in OrderWorkers, EmitNext(v) \/ RedeliverResult(v)
        PROVE  orderWorker'[w] = orderWorker[w]
    BY <1>0, <2>1, <2>6 DEF EmitNext, RedeliverResult, OrderTypeOK
  <2>7. ASSUME NEW v \in OrderWorkers \ {w}, SaveSaga(v) \/ SaveOrder(v)
        PROVE  orderWorker'[w] = orderWorker[w]
    BY <1>0, <2>7 DEF SaveSaga, SaveOrder, OrderTypeOK
  <2> QED BY <2>2, <2>3, <2>4, <2>5, <2>6, <2>7 DEF Next, OrderNext, orderVars, OrderWorkerStep,
             CreateOrder, CreateSaga, CreateEmit, CreateThrows
<1>3. ASSUME NEW o \in Orders, InFlight(Request("PAYMENT_REFUND_REQUESTED", o))'
      PROVE  orders'[o] \in Final
  <2> DEFINE r == Request("PAYMENT_REFUND_REQUESTED", o)
  <2>1. r \in Events /\ r.topic = "PAYMENT_REFUND_REQUESTED" /\ r.orderId = o
    BY RequestIs DEF RequestTopics
  <2>2. ASSUME Sendable(r) PROVE orders[o] \in Final
    <3>1. PICK w \in OrderWorkers : /\ orderWorker[w].pc = "emit"
                                    /\ \E t \in TopicsAt(NextStep(orderWorker[w].event)) :
                                         r = Request(t, orderWorker[w].event.orderId)
      BY <2>1, <2>2 DEF Sendable, Request, Result, ResultTopicOf
    <3>2. /\ "PAYMENT_REFUND_REQUESTED" \in TopicsAt(NextStep(orderWorker[w].event))
          /\ orderWorker[w].event.orderId = o /\ orderWorker[w].event \in Results
      BY <1>0, <3>1, OrderHolds DEF Request
    <3>3. NextStep(orderWorker[w].event) \in EndSteps
      BY <3>2 DEF TopicsAt, EndSteps, NextStep, OnSuccess, OnFailure, Results, ResultTopics
    <3> QED BY <3>1, <3>2, <3>3 DEF ShownBefore
  <2> HIDE DEF r
  <2>3. orders[o] \in Final
    BY <1>3, <2>1, <2>2, StepEvents DEF ShownBefore, r
  <2> QED BY <2>3, FinalStays
<1> QED BY <1>1, <1>2, <1>3 DEF ShownBefore

\* An event that waits, or is held, goes on with its order.
LEMMA GoesOnBy ==
  ASSUME NEW e \in SagaEvents,
         bus'[e] > 0 \/ HeldByOrder(e)' \/ HeldByStock(e)' \/ HeldByPayment(e)'
  PROVE  Going(e.orderId)'
BY DEF Going, InFlight

LEMMA OrderStrands ==
  ASSUME IInv, ShownBefore, OrderNext, UNCHANGED <<cart, stockVars, paymentVars>>
  PROVE  Strands
<1>1. TypeOK /\ OrderTypeOK /\ EventsGrounded
  BY DEF IInv, TypeOK
<1>2. \A f \in Events : /\ HeldByStock(f)' = HeldByStock(f)
                        /\ HeldByPayment(f)' = HeldByPayment(f)
  BY DEF stockVars, paymentVars, HeldByStock, HeldByPayment
<1>3. SagaEvents \subseteq Events
  BY DEF SagaEvents
<1>4. ASSUME NEW o \in Orders, CreateOrder(o) \/ CreateSaga(o) \/ CreateThrows(o)
      PROVE  Strands
  <2>1. /\ creating'[o] # "done" /\ faults'["lose"] = faults["lose"]
        /\ \A q \in Orders \ {o} : orders'[q] = orders[q] /\ creating'[q] = creating[q]
    BY <1>1, <1>4, ThrowLosesNone DEF CreateOrder, CreateSaga, CreateThrows, OrderTypeOK
  <2>2. ASSUME NEW f \in Events PROVE InFlight(f)' = InFlight(f)
    BY <1>2, <1>4 DEF CreateOrder, CreateSaga, CreateThrows, InFlight, HeldByOrder
  <2> QED BY <1>3, <2>1, <2>2, StrandsHere
<1>5. ASSUME NEW o \in Orders, CreateEmit(o)
      PROVE  Strands
  <2> DEFINE r == FirstEvent(o)
  <2>1. r \in Events /\ r \in SagaEvents /\ r.orderId = o
    BY RequestIs DEF FirstEvent, RequestTopics, NoticeTopics
  <2>2. Emit({r}) /\ UNCHANGED <<orders, orderWorker>>
        /\ \A q \in Orders \ {o} : orders'[q] = orders[q] /\ creating'[q] = creating[q]
    BY <1>1, <1>5 DEF CreateEmit, FirstEvent, OrderTypeOK
  <2> HIDE DEF r
  <2>3. /\ \A f \in Events : bus[f] > 0 => bus'[f] > 0
        /\ faults'["lose"] # faults["lose"] + 1 => faults'["lose"] = faults["lose"] /\ bus'[r] > 0
    BY <1>1, <2>1, <2>2, EmitArrives
  <2>4. ASSUME NEW f \in Events, InFlight(f) PROVE InFlight(f)'
    BY <1>2, <2>2, <2>3, <2>4 DEF InFlight, HeldByOrder
  <2>5. bus'[r] > 0 => Going(o)'
    BY <2>1 DEF Going, InFlight
  <2> QED BY <1>3, <2>2, <2>3, <2>4, <2>5, StrandsHere
<1>6. ASSUME NEW w \in OrderWorkers, NEW e \in Results, ReceiveResult(w, e)
      PROVE  Strands
  <2> DEFINE o == e.orderId
  <2>1. e \in Events /\ e \in SagaEvents /\ o \in Orders
    BY DEF Events, SagaEvents, Results, ResultTopics, NoticeTopics
  <2>2. bus[e] > 0 /\ \A f \in Events \ {e} : bus'[f] = bus[f]
    BY <1>1, <1>6, <2>1, ConsumeLeaves DEF ReceiveResult
  <2>3. sagas[o] # NoSaga /\ orders[o] # "NONE"
    BY <1>1, <2>1, <2>2 DEF EventsGrounded, Grounded, InFlight
  <2> DEFINE job == [pc |-> "saveSaga", event |-> e, saga |-> Edited(sagas[o], e)]
  <2>4. /\ orderWorker' = [orderWorker EXCEPT ![w] = job]
        /\ job.event = e /\ job.pc = "saveSaga"
    BY <1>6, <2>3 DEF ReceiveResult
  <2> HIDE DEF job
  <2>5. orderWorker[w] = IdleOrderWorker /\ UNCHANGED <<orders, creating, faults>>
    BY <1>6 DEF ReceiveResult
  <2>6. HeldByOrder(e)' /\ \A f \in Events : HeldByOrder(f) => HeldByOrder(f)'
    <3>1. orderWorker'[w] = job /\ job # IdleOrderWorker
      BY <1>1, <2>4 DEF OrderTypeOK, IdleOrderWorker
    <3>2. \A v \in OrderWorkers : orderWorker[v] # IdleOrderWorker => orderWorker'[v] = orderWorker[v]
      BY <1>1, <2>4, <2>5 DEF OrderTypeOK
    <3> QED BY <2>4, <3>1, <3>2 DEF HeldByOrder
  <2>7. ASSUME NEW f \in Events, InFlight(f) PROVE InFlight(f)'
    BY <1>2, <2>2, <2>6, <2>7 DEF InFlight
  <2>8. Going(o)'
    BY <2>1, <2>6, GoesOnBy
  <2> HIDE DEF o
  <2> QED BY <1>3, <2>1, <2>5, <2>7, <2>8, StrandsHere
<1>7. ASSUME NEW w \in OrderWorkers, SaveSaga(w) \/ SaveOrder(w) \/ EmitNext(w) \/ RedeliverResult(w)
      PROVE  Strands
  <2>0. PICK e : e = orderWorker[w].event
    OBVIOUS
  <2> DEFINE o == e.orderId
  <2>1. /\ orderWorker[w] \in BusyOrderWorker /\ orderWorker[w] # IdleOrderWorker
        /\ e \in Results /\ e \in SagaEvents /\ e \in Events /\ o \in Orders
    <3>1. orderWorker[w].pc # "idle"
      BY <1>1, <1>7 DEF SaveSaga, SaveOrder, EmitNext, RedeliverResult, OrderTypeOK,
                        BusyOrderWorker, IdleOrderWorker
    <3> QED BY <1>1, <2>0, <3>1, OrderHolds
  <2>2. \A q \in Orders \ {o} : orders'[q] = orders[q] /\ creating'[q] = creating[q]
    BY <1>1, <1>7, <2>0 DEF SaveSaga, SaveOrder, EmitNext, RedeliverResult, OrderTypeOK
  <2>3. CASE SaveSaga(w) \/ SaveOrder(w)
    <3>1. /\ orderWorker'[w] # IdleOrderWorker /\ orderWorker'[w].event = e
          /\ \A v \in OrderWorkers \ {w} : orderWorker'[v] = orderWorker[v]
      BY <1>1, <2>0, <2>1, <2>3 DEF SaveSaga, SaveOrder, OrderTypeOK, BusyOrderWorker, IdleOrderWorker
    <3>2. UNCHANGED <<bus, faults>>
      BY <2>3 DEF SaveSaga, SaveOrder
    <3>3. HeldByOrder(e)' /\ \A f \in Events : HeldByOrder(f) => HeldByOrder(f)'
      BY <2>0, <3>1 DEF HeldByOrder
    <3>4. \A f \in Events : InFlight(f) => InFlight(f)'
      BY <1>2, <3>2, <3>3 DEF InFlight
    <3>5. Going(o)'
      BY <2>1, <3>3, GoesOnBy
    <3> HIDE DEF o
    <3> QED BY <1>3, <2>1, <2>2, <3>2, <3>4, <3>5, StrandsHere
  <2>4. CASE EmitNext(w)
    <3> DEFINE step == NextStep(e)
               S == {Request(t, o) : t \in TopicsAt(step)}
    <3>1. /\ Emit(S) /\ UNCHANGED <<orders, creating>> /\ orderWorker[w].pc = "emit"
          /\ \A v \in OrderWorkers \ {w} : orderWorker'[v] = orderWorker[v]
      BY <1>1, <2>0, <2>4 DEF EmitNext, OrderTypeOK
    <3> HIDE DEF S
    <3>2. /\ \A f \in Events : bus[f] > 0 => bus'[f] > 0
          /\ faults'["lose"] # faults["lose"] + 1 =>
               faults'["lose"] = faults["lose"] /\ \A f \in Events : f \in S => bus'[f] > 0
      BY <1>1, <3>1, EmitArrives
    <3>3. ASSUME NEW f \in SagaEvents, f.orderId # o, InFlight(f) PROVE InFlight(f)'
      <4>1. HeldByOrder(f) => HeldByOrder(f)'
        BY <2>0, <3>1, <3>3 DEF HeldByOrder
      <4> QED BY <1>2, <1>3, <3>2, <3>3, <4>1 DEF InFlight
    <3>4. CASE step \in EndSteps
      <4>1. orders'[o] \in Final
        BY <2>0, <2>1, <3>1, <3>4 DEF ShownBefore
      <4> HIDE DEF o, step
      <4> QED BY <2>1, <2>2, <3>2, <3>3, <4>1, StrandsHere
    <3>5. CASE step \notin EndSteps
      <4>1. step \in {"PAYMENT_REQUESTED", "STOCK_DEDUCT_REQUESTED"}
        BY <2>1, <3>5 DEF NextStep, OnSuccess, OnFailure, Results, ResultTopics, EndSteps
      <4>2. Request(step, o) \in S
        BY <4>1 DEF TopicsAt, S
      <4>3. Request(step, o) \in Events /\ Request(step, o) \in SagaEvents /\ Request(step, o).orderId = o
        BY <2>1, <4>1, RequestIs DEF RequestTopics, NoticeTopics
      <4>4. bus'[Request(step, o)] > 0 => Going(o)'
        BY <4>3, GoesOnBy
      <4> HIDE DEF o, step
      <4> QED BY <2>1, <2>2, <3>2, <3>3, <4>2, <4>3, <4>4, StrandsHere
    <3> QED BY <3>4, <3>5
  <2>5. CASE RedeliverResult(w)
    <3>1. /\ Redeliver(e) /\ UNCHANGED <<orders, creating>>
          /\ \A v \in OrderWorkers \ {w} : orderWorker'[v] = orderWorker[v]
      BY <1>1, <2>0, <2>5 DEF RedeliverResult, OrderTypeOK
    <3>2. /\ bus'[e] > 0 /\ \A f \in Events : bus[f] > 0 => bus'[f] > 0
          /\ faults'["lose"] = faults["lose"]
      BY <1>1, <2>1, <3>1, RedeliverLeaves
    <3>3. ASSUME NEW f \in Events, InFlight(f) PROVE InFlight(f)'
      <4>1. f # e /\ HeldByOrder(f) => HeldByOrder(f)'
        BY <2>0, <3>1 DEF HeldByOrder
      <4> QED BY <1>2, <3>2, <3>3, <4>1 DEF InFlight
    <3>4. Going(o)'
      BY <2>1, <3>2, GoesOnBy
    <3> HIDE DEF o
    <3> QED BY <1>3, <2>1, <2>2, <3>2, <3>3, <3>4, StrandsHere
  <2> QED BY <1>7, <2>3, <2>4, <2>5
<1> QED BY <1>4, <1>5, <1>6, <1>7 DEF OrderNext, OrderWorkerStep

\* A replica of product-service that is at work has an event in flight.
LEMMA StockHolds ==
  ASSUME IInv, NEW w \in StockWorkers, stockWorker[w] # IdleStockWorker
  PROVE  /\ stockWorker[w] \in BusyStockWorker
         /\ stockWorker[w].event \in SagaEvents /\ stockWorker[w].event \in Events
         /\ stockWorker[w].event.orderId \in Orders
<1>1. stockWorker[w] \in BusyStockWorker
  BY DEF IInv, TypeOK, StockTypeOK
<1>2. /\ stockWorker[w].event \in Requests
      /\ stockWorker[w].event.topic \in {"STOCK_CHECK_REQUESTED", "STOCK_DEDUCT_REQUESTED"}
  BY <1>1 DEF BusyStockWorker, IInv, StockJobs, StockJob
<1> QED BY <1>1, <1>2 DEF Requests, Events, SagaEvents, NoticeTopics

LEMMA StockStrands ==
  ASSUME IInv, StockNext, UNCHANGED <<cart, orderVars, paymentVars>>
  PROVE  Strands
<1>1. TypeOK /\ StockTypeOK
  BY DEF IInv, TypeOK
<1>2. /\ UNCHANGED <<orders, creating>>
      /\ \A f \in Events : /\ HeldByOrder(f)' = HeldByOrder(f)
                           /\ HeldByPayment(f)' = HeldByPayment(f)
  BY DEF orderVars, paymentVars, HeldByOrder, HeldByPayment
<1>3. SagaEvents \subseteq Events
  BY DEF SagaEvents
<1>4. ASSUME OperatorStep
      PROVE  Strands
  <2>1. UNCHANGED <<bus, faults, stockWorker>>
    BY <1>1, <1>4, OperatorMoves
  <2>2. \A f \in Events : InFlight(f)' = InFlight(f)
    BY <1>2, <2>1 DEF InFlight, HeldByStock
  <2>3. \A q \in Orders : Stranded(q)' => Stranded(q)
    BY <1>2, <2>2 DEF Stranded, Settled
  <2> QED BY <2>1, <2>3 DEF Strands
<1>5. ASSUME NEW w \in StockWorkers, NEW e \in Requests, ReceiveStockRequest(w, e)
      PROVE  Strands
  <2> DEFINE o == e.orderId
  <2>1. e \in Events /\ e \in SagaEvents /\ o \in Orders
    BY <1>5 DEF ReceiveStockRequest, Events, SagaEvents, Requests, NoticeTopics
  <2>2. bus[e] > 0 /\ \A f \in Events \ {e} : bus'[f] = bus[f]
    BY <1>1, <1>5, <2>1, ConsumeLeaves DEF ReceiveStockRequest
  <2>3. /\ stockWorker'[w] # IdleStockWorker /\ stockWorker'[w].event = e
        /\ \A v \in StockWorkers \ {w} : stockWorker'[v] = stockWorker[v]
        /\ stockWorker[w] = IdleStockWorker /\ UNCHANGED faults
    BY <1>1, <1>5 DEF ReceiveStockRequest, StockTypeOK, IdleStockWorker
  <2>4. HeldByStock(e)' /\ \A f \in Events : HeldByStock(f) => HeldByStock(f)'
    BY <2>3 DEF HeldByStock
  <2>5. ASSUME NEW f \in Events, InFlight(f) PROVE InFlight(f)'
    BY <1>2, <2>2, <2>4, <2>5 DEF InFlight
  <2>6. Going(o)'
    BY <2>1, <2>4, GoesOnBy
  <2> HIDE DEF o
  <2> QED BY <1>2, <1>3, <2>1, <2>3, <2>5, <2>6, StrandsHere
<1>6. ASSUME NEW w \in StockWorkers,
             CheckLine(w) \/ DeductLine(w) \/ DeductThrows(w) \/ EmitStockResult(w)
               \/ RedeliverStockRequest(w)
      PROVE  Strands
  <2>0. PICK job : job = stockWorker[w]
    OBVIOUS
  <2>1. PICK e : e = job.event
    OBVIOUS
  <2> DEFINE o == e.orderId
  <2>2. stockWorker[w] # IdleStockWorker
    BY <1>6 DEF CheckLine, DeductLine, DeductThrows, EmitStockResult, RedeliverStockRequest,
                IdleStockWorker
  <2>3. job \in BusyStockWorker /\ e \in SagaEvents /\ e \in Events /\ o \in Orders
    BY <2>0, <2>1, <2>2, StockHolds
  <2>4. CASE CheckLine(w) \/ DeductLine(w) \/ DeductThrows(w)
    <3>1. /\ stockWorker' = [stockWorker EXCEPT ![w] = NextLine(job)]
               \/ stockWorker' = [stockWorker EXCEPT ![w] = Failed(job)]
          /\ bus' = bus /\ faults'["lose"] = faults["lose"]
          /\ job.pc \in {"check", "deduct"}
      BY <1>1, <2>0, <2>4, ThrowLosesNone DEF CheckLine, DeductLine, DeductThrows
    <3>2. /\ stockWorker'[w].event = e /\ stockWorker'[w].pc \in {"check", "deduct", "emit"}
          /\ \A v \in StockWorkers \ {w} : stockWorker'[v] = stockWorker[v]
      BY <1>1, <2>1, <2>3, <3>1, LineGoesTo DEF StockTypeOK
    <3>3. HeldByStock(e)' /\ \A f \in Events : HeldByStock(f) => HeldByStock(f)'
      BY <2>0, <2>1, <3>2 DEF HeldByStock, IdleStockWorker
    <3>4. \A f \in Events : InFlight(f) => InFlight(f)'
      BY <1>2, <3>1, <3>3 DEF InFlight
    <3>5. Going(o)'
      BY <2>3, <3>3, GoesOnBy
    <3> HIDE DEF o
    <3> QED BY <1>2, <1>3, <2>3, <3>1, <3>4, <3>5, StrandsHere
  <2>5. CASE EmitStockResult(w)
    <3>1. PICK r : r = Result(ResultTopicOf(e), o, job.success)
      OBVIOUS
    <3>2. r \in Events /\ r \in SagaEvents /\ r.orderId = o
      BY <2>3, <3>1 DEF Result, ResultTopicOf, Results, ResultTopics, Events, SagaEvents,
                        NoticeTopics, BusyStockWorker
    <3>3. /\ Emit({r})
          /\ \A v \in StockWorkers \ {w} : stockWorker'[v] = stockWorker[v]
      BY <1>1, <2>0, <2>1, <2>5, <3>1 DEF EmitStockResult, StockTypeOK
    <3>4. /\ \A f \in Events : bus[f] > 0 => bus'[f] > 0
          /\ faults'["lose"] # faults["lose"] + 1 =>
               faults'["lose"] = faults["lose"] /\ bus'[r] > 0
      BY <1>1, <3>2, <3>3, EmitArrives
    <3>5. ASSUME NEW f \in SagaEvents, f.orderId # o, InFlight(f) PROVE InFlight(f)'
      <4>1. HeldByStock(f) => HeldByStock(f)'
        BY <2>0, <2>1, <3>3, <3>5 DEF HeldByStock
      <4> QED BY <1>2, <1>3, <3>4, <3>5, <4>1 DEF InFlight
    <3>6. bus'[r] > 0 => Going(o)'
      BY <3>2, GoesOnBy
    <3> HIDE DEF o
    <3> QED BY <1>2, <2>3, <3>4, <3>5, <3>6, StrandsHere
  <2>6. CASE RedeliverStockRequest(w)
    <3>1. /\ Redeliver(e)
          /\ \A v \in StockWorkers \ {w} : stockWorker'[v] = stockWorker[v]
      BY <1>1, <2>0, <2>1, <2>6 DEF RedeliverStockRequest, StockTypeOK
    <3>2. /\ bus'[e] > 0 /\ \A f \in Events : bus[f] > 0 => bus'[f] > 0
          /\ faults'["lose"] = faults["lose"]
      BY <1>1, <2>3, <3>1, RedeliverLeaves
    <3>3. ASSUME NEW f \in Events, InFlight(f) PROVE InFlight(f)'
      <4>1. f # e /\ HeldByStock(f) => HeldByStock(f)'
        BY <2>0, <2>1, <3>1 DEF HeldByStock
      <4> QED BY <1>2, <3>2, <3>3, <4>1 DEF InFlight
    <3>4. Going(o)'
      BY <2>3, <3>2, GoesOnBy
    <3> HIDE DEF o
    <3> QED BY <1>2, <1>3, <2>3, <3>2, <3>3, <3>4, StrandsHere
  <2> QED BY <1>6, <2>4, <2>5, <2>6
<1> QED BY <1>4, <1>5, <1>6 DEF StockNext, StockWorkerStep

LEMMA PaymentHolds ==
  ASSUME IInv, PaymentAsked, NEW w \in PaymentWorkers, paymentWorker[w] # IdlePaymentWorker
  PROVE  /\ paymentWorker[w] \in BusyPaymentWorker
         /\ paymentWorker[w].event \in SagaEvents /\ paymentWorker[w].event \in Events
         /\ paymentWorker[w].event.orderId \in Orders
         /\ InFlight(paymentWorker[w].event)
<1>1. paymentWorker[w] \in BusyPaymentWorker
  BY DEF IInv, TypeOK, PaymentTypeOK
<1>2. /\ paymentWorker[w].event \in Requests
      /\ paymentWorker[w].event.topic \in {"PAYMENT_REQUESTED", "PAYMENT_REFUND_REQUESTED"}
  BY <1>1 DEF BusyPaymentWorker, PaymentAsked, AskedFor
<1>3. InFlight(paymentWorker[w].event)
  BY DEF InFlight, HeldByPayment
<1> QED BY <1>1, <1>2, <1>3 DEF Requests, Events, SagaEvents, NoticeTopics

\* A refund is the last step of a saga whose outcome is shown.
LEMMA RefundIsShown ==
  ASSUME ShownBefore, NEW e \in Requests, e.topic = "PAYMENT_REFUND_REQUESTED", InFlight(e)
  PROVE  orders[e.orderId] \in Final
<1>1. e = Request("PAYMENT_REFUND_REQUESTED", e.orderId) /\ e.orderId \in Orders
  BY DEF Requests, Request
<1> QED BY <1>1 DEF ShownBefore

LEMMA PaymentStrands ==
  ASSUME IInv, PaymentAsked, ShownBefore, PaymentNext, UNCHANGED <<cart, orderVars, stockVars>>
  PROVE  Strands
<1>1. TypeOK /\ PaymentTypeOK
  BY DEF IInv, TypeOK
<1>2. /\ UNCHANGED <<orders, creating>>
      /\ \A f \in Events : /\ HeldByOrder(f)' = HeldByOrder(f)
                           /\ HeldByStock(f)' = HeldByStock(f)
  BY DEF orderVars, stockVars, HeldByOrder, HeldByStock
<1>3. SagaEvents \subseteq Events
  BY DEF SagaEvents
<1>4. ASSUME NEW w \in PaymentWorkers, NEW e \in Requests, ReceivePaymentRequest(w, e)
      PROVE  Strands
  <2> DEFINE o == e.orderId
  <2>1. e \in Events /\ e \in SagaEvents /\ o \in Orders
    BY <1>4 DEF ReceivePaymentRequest, ReceivePayment, ReceiveRefund, Events, SagaEvents, Requests,
                NoticeTopics
  <2>2. Consume(e) /\ UNCHANGED faults /\ paymentWorker[w] = IdlePaymentWorker
    BY <1>4 DEF ReceivePaymentRequest, ReceivePayment, ReceiveRefund
  <2>3. bus[e] > 0 /\ \A f \in Events \ {e} : bus'[f] = bus[f]
    BY <1>1, <2>1, <2>2, ConsumeLeaves
  <2>4. /\ \A v \in PaymentWorkers \ {w} : paymentWorker'[v] = paymentWorker[v]
        /\ \/ paymentWorker'[w] # IdlePaymentWorker /\ paymentWorker'[w].event = e
           \/ e.topic = "PAYMENT_REFUND_REQUESTED"
    BY <1>1, <1>4 DEF ReceivePaymentRequest, ReceivePayment, ReceiveRefund, PaymentTypeOK,
                      IdlePaymentWorker
  <2>5. \A f \in Events : HeldByPayment(f) => HeldByPayment(f)'
    BY <2>2, <2>4 DEF HeldByPayment
  <2>6. ASSUME NEW f \in SagaEvents, f.orderId # o, InFlight(f) PROVE InFlight(f)'
    BY <1>2, <1>3, <2>3, <2>5, <2>6 DEF InFlight
  <2>7. Going(o)' \/ orders'[o] \in Final
    <3>1. CASE e.topic = "PAYMENT_REFUND_REQUESTED"
      BY <1>2, <2>3, <3>1, RefundIsShown DEF InFlight
    <3>2. CASE paymentWorker'[w] # IdlePaymentWorker /\ paymentWorker'[w].event = e
      <4>1. HeldByPayment(e)'
        BY <3>2 DEF HeldByPayment
      <4> QED BY <2>1, <4>1, GoesOnBy
    <3> QED BY <2>4, <3>1, <3>2
  <2> HIDE DEF o
  <2> QED BY <1>2, <2>1, <2>2, <2>6, <2>7, StrandsHere
<1>5. ASSUME NEW w \in PaymentWorkers, PaymentWorkerStep(w) \/ RedeliverPaymentRequest(w)
      PROVE  Strands
  <2>0. PICK job : job = paymentWorker[w]
    OBVIOUS
  <2>1. PICK e : e = job.event
    OBVIOUS
  <2> DEFINE o == e.orderId
  <2>2. paymentWorker[w] # IdlePaymentWorker
    BY <1>5 DEF PaymentWorkerStep, FireSucceeds, FireFails, SavePayment, EmitPaymentResult,
                SaveRefund, RedeliverPaymentRequest, IdlePaymentWorker
  <2>3. /\ job \in BusyPaymentWorker /\ e \in SagaEvents /\ e \in Events /\ o \in Orders
        /\ InFlight(e)
    BY <2>0, <2>1, <2>2, PaymentHolds
  <2>4. CASE FireSucceeds(w) \/ FireFails(w) \/ SavePayment(w)
    <3>1. /\ UNCHANGED <<bus, faults>>
          /\ \A v \in PaymentWorkers \ {w} : paymentWorker'[v] = paymentWorker[v]
      BY <1>1, <2>4 DEF FireSucceeds, FireFails, SavePayment, PaymentTypeOK
    <3>2. /\ paymentWorker'[w].event = e /\ paymentWorker'[w].pc # "idle"
      <4>1. PICK next : /\ \/ next = [job EXCEPT !.pc = "save", !.success = TRUE]
                           \/ next = [job EXCEPT !.pc = "save"]
                           \/ next = [job EXCEPT !.pc = "emit"]
                        /\ paymentWorker' = [paymentWorker EXCEPT ![w] = next]
        BY <2>0, <2>4 DEF FireSucceeds, FireFails, SavePayment
      <4>2. next.event = job.event /\ next.pc # "idle"
        BY <2>3, <4>1 DEF BusyPaymentWorker
      <4> QED BY <1>1, <2>1, <4>1, <4>2 DEF PaymentTypeOK
    <3>3. HeldByPayment(e)' /\ \A f \in Events : HeldByPayment(f) => HeldByPayment(f)'
      BY <2>0, <2>1, <3>1, <3>2 DEF HeldByPayment, IdlePaymentWorker
    <3>4. \A f \in Events : InFlight(f) => InFlight(f)'
      BY <1>2, <3>1, <3>3 DEF InFlight
    <3>5. Going(o)'
      BY <2>3, <3>3, GoesOnBy
    <3> HIDE DEF o
    <3> QED BY <1>2, <1>3, <2>3, <3>1, <3>4, <3>5, StrandsHere
  <2>5. CASE EmitPaymentResult(w)
    <3>1. PICK r : r = Result("PAYMENT_RESULT", o, job.success)
      OBVIOUS
    <3>2. r \in Events /\ r \in SagaEvents /\ r.orderId = o
      BY <2>3, <3>1 DEF Result, Results, ResultTopics, Events, SagaEvents, NoticeTopics,
                        BusyPaymentWorker
    <3>3. /\ Emit({r})
          /\ \A v \in PaymentWorkers \ {w} : paymentWorker'[v] = paymentWorker[v]
      BY <1>1, <2>0, <2>1, <2>5, <3>1 DEF EmitPaymentResult, PaymentTypeOK
    <3>4. /\ \A f \in Events : bus[f] > 0 => bus'[f] > 0
          /\ faults'["lose"] # faults["lose"] + 1 =>
               faults'["lose"] = faults["lose"] /\ bus'[r] > 0
      BY <1>1, <3>2, <3>3, EmitArrives
    <3>5. ASSUME NEW f \in SagaEvents, f.orderId # o, InFlight(f) PROVE InFlight(f)'
      <4>1. HeldByPayment(f) => HeldByPayment(f)'
        BY <2>0, <2>1, <3>3, <3>5 DEF HeldByPayment
      <4> QED BY <1>2, <1>3, <3>4, <3>5, <4>1 DEF InFlight
    <3>6. bus'[r] > 0 => Going(o)'
      BY <3>2, GoesOnBy
    <3> HIDE DEF o
    <3> QED BY <1>2, <2>3, <3>4, <3>5, <3>6, StrandsHere
  <2>6. CASE SaveRefund(w)
    <3>1. /\ UNCHANGED <<bus, faults>> /\ job.pc = "saveRefund"
          /\ \A v \in PaymentWorkers \ {w} : paymentWorker'[v] = paymentWorker[v]
      BY <1>1, <2>0, <2>6 DEF SaveRefund, PaymentTypeOK
    <3>2. ASSUME NEW f \in SagaEvents, f.orderId # o, InFlight(f) PROVE InFlight(f)'
      <4>1. HeldByPayment(f) => HeldByPayment(f)'
        BY <2>0, <2>1, <3>1, <3>2 DEF HeldByPayment
      <4> QED BY <1>2, <1>3, <3>1, <3>2, <4>1 DEF InFlight
    <3>3. e \in Requests /\ e.topic = "PAYMENT_REFUND_REQUESTED"
      BY <2>0, <2>1, <2>3, <3>1 DEF PaymentAsked, AskedFor, BusyPaymentWorker
    <3>4. orders'[o] \in Final
      BY <1>2, <2>3, <3>3, RefundIsShown
    <3> HIDE DEF o
    <3> QED BY <1>2, <2>3, <3>1, <3>2, <3>4, StrandsHere
  <2>7. CASE RedeliverPaymentRequest(w)
    <3>1. /\ Redeliver(e)
          /\ \A v \in PaymentWorkers \ {w} : paymentWorker'[v] = paymentWorker[v]
      BY <1>1, <2>0, <2>1, <2>7 DEF RedeliverPaymentRequest, PaymentTypeOK
    <3>2. /\ bus'[e] > 0 /\ \A f \in Events : bus[f] > 0 => bus'[f] > 0
          /\ faults'["lose"] = faults["lose"]
      BY <1>1, <2>3, <3>1, RedeliverLeaves
    <3>3. ASSUME NEW f \in Events, InFlight(f) PROVE InFlight(f)'
      <4>1. f # e /\ HeldByPayment(f) => HeldByPayment(f)'
        BY <2>0, <2>1, <3>1 DEF HeldByPayment
      <4> QED BY <1>2, <3>2, <3>3, <4>1 DEF InFlight
    <3>4. Going(o)'
      BY <2>3, <3>2, GoesOnBy
    <3> HIDE DEF o
    <3> QED BY <1>2, <1>3, <2>3, <3>2, <3>3, <3>4, StrandsHere
  <2> QED BY <1>5, <2>4, <2>5, <2>6, <2>7 DEF PaymentWorkerStep
<1> QED BY <1>4, <1>5 DEF PaymentNext

\* Each lost send accounts for one order more, at most.
LEMMA StrandsCount ==
  ASSUME TypeOK, StrandedInv, Strands
  PROVE  IsFiniteSet(StrandedOrders') /\ Cardinality(StrandedOrders') <= faults'["lose"]
<1>1. faults["lose"] \in Nat
  BY DEF TypeOK, BusTypeOK, FaultKinds
<1>2. /\ IsFiniteSet(StrandedOrders) /\ Cardinality(StrandedOrders) <= faults["lose"]
      /\ Cardinality(StrandedOrders) \in Nat
  BY FS_CardinalityType DEF StrandedInv
<1>3. CASE /\ faults'["lose"] = faults["lose"]
           /\ \A q \in Orders : Stranded(q)' => Stranded(q)
  <2>1. StrandedOrders' \subseteq StrandedOrders
    BY <1>3 DEF StrandedOrders
  <2>2. IsFiniteSet(StrandedOrders') /\ Cardinality(StrandedOrders') <= Cardinality(StrandedOrders)
    BY <1>2, <2>1, FS_Subset
  <2> QED BY <1>1, <1>2, <1>3, <2>2, FS_CardinalityType
<1>4. ASSUME faults'["lose"] = faults["lose"] + 1, NEW o \in Orders,
             \A q \in Orders \ {o} : Stranded(q)' => Stranded(q)
      PROVE  IsFiniteSet(StrandedOrders') /\ Cardinality(StrandedOrders') <= faults'["lose"]
  <2>1. StrandedOrders' \subseteq StrandedOrders \cup {o}
    BY <1>4 DEF StrandedOrders
  <2>2. /\ IsFiniteSet(StrandedOrders \cup {o})
        /\ Cardinality(StrandedOrders \cup {o}) <= Cardinality(StrandedOrders) + 1
    BY <1>2, FS_AddElement
  <2>3. /\ IsFiniteSet(StrandedOrders')
        /\ Cardinality(StrandedOrders') <= Cardinality(StrandedOrders \cup {o})
    BY <2>1, <2>2, FS_Subset
  <2>4. Cardinality(StrandedOrders') \in Nat /\ Cardinality(StrandedOrders \cup {o}) \in Nat
    BY <2>2, <2>3, FS_CardinalityType
  <2> QED BY <1>1, <1>2, <1>4, <2>2, <2>3, <2>4
<1> QED BY <1>3, <1>4 DEF Strands

LEMMA InitStranded == Init => StrandedInv
<1> SUFFICES ASSUME Init PROVE StrandedInv
  OBVIOUS
<1>1. /\ \A o \in Orders : creating[o] = "none" /\ orders[o] = "NONE"
      /\ \A w \in OrderWorkers : orderWorker[w].pc # "emit"
      /\ \A e \in Events : ~InFlight(e)
      /\ faults["lose"] = 0
  BY DEF Init, BusInit, OrderInit, StockInit, PaymentInit, InFlight, HeldByOrder, HeldByStock,
         HeldByPayment, IdleOrderWorker, FaultKinds
<1>2. ShownBefore
  BY <1>1, RequestIs DEF ShownBefore, RequestTopics
<1>3. StrandedOrders = {}
  BY <1>1 DEF StrandedOrders, Stranded
<1> QED BY <1>1, <1>2, <1>3, FS_EmptySet DEF StrandedInv

LEMMA NextStranded == IInv /\ StockInv /\ StrandedInv /\ [Next]_vars => StrandedInv'
<1> SUFFICES ASSUME IInv, StockInv, StrandedInv, [Next]_vars PROVE StrandedInv'
  OBVIOUS
<1>1. CASE UNCHANGED vars
  BY <1>1 DEF vars, orderVars, stockVars, paymentVars, StrandedInv, ShownBefore, StrandedOrders,
              Stranded, Settled, InFlight, HeldByOrder, HeldByStock, HeldByPayment
<1>2. CASE Next
  <2>1. Strands
    BY <1>2, OrderStrands, StockStrands, PaymentStrands DEF Next, StrandedInv, StockInv
  <2>2. IsFiniteSet(StrandedOrders') /\ Cardinality(StrandedOrders') <= faults'["lose"]
    BY <2>1, StrandsCount DEF IInv
  <2>3. ShownBefore'
    BY <1>2, ShownBeforeStep DEF StrandedInv
  <2> QED BY <2>2, <2>3 DEF StrandedInv
<1> QED BY <1>1, <1>2

\* For any number of faults, orders and replicas: an accepted order comes
\* to rest while it still shows PROCESSING only because kafkaClient.emit,
\* which no handler awaits, lost an event, and every lost event leaves at
\* most one such order.  Redeliveries, statements that throw, removed
\* products and overlapping handlers leave none.
THEOREM OnlyLossesStrand == Spec => []LossesStrand
<1>1. StrandedInv => LossesStrand
  BY DEF StrandedInv, StrandedOrders, LossesStrand
<1> QED BY <1>1, InitStranded, NextStranded, InitInv, NextInv, InitStock, NextStock, PTL DEF Spec

=============================================================================

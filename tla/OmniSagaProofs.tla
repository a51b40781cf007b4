--------------------------- MODULE OmniSagaProofs ---------------------------
(***************************************************************************)
(* Theorems about OmniSaga, for any number of orders, replicas, products   *)
(* and payment rows and any budget of faults.                              *)
(***************************************************************************)
EXTENDS OmniSaga, SequenceTheorems, TLAPS

-----------------------------------------------------------------------------
(* What the operations of the bus do to its types, and which events they   *)
(* can make appear.                                                        *)

\* A fault counts itself and nothing else.
LEMMA FaultType ==
  ASSUME BusTypeOK, NEW k \in FaultKinds, Fault(k)
  PROVE  faults' \in [FaultKinds -> Nat]
BY DEF BusTypeOK, Fault

\* Consuming an event adds none (EventBus.Consume: a consumer takes one copy).
LEMMA ConsumeAdds ==
  ASSUME BusTypeOK, NEW e \in Events, Consume(e)
  PROVE  /\ bus' \in [Events -> Nat]
         /\ bus[e] > 0
         /\ \A f \in Events : bus'[f] > 0 => bus[f] > 0
BY DEF BusTypeOK, Consume

\* A redelivery adds a copy of the event a worker holds, and no other.
LEMMA RedeliverAdds ==
  ASSUME BusTypeOK, NEW e \in Events, Redeliver(e)
  PROVE  /\ bus' \in [Events -> Nat]
         /\ faults' \in [FaultKinds -> Nat]
         /\ \A f \in Events : bus'[f] > 0 => bus[f] > 0 \/ f = e
<1>1. faults' \in [FaultKinds -> Nat]
  BY FaultType DEF Redeliver, FaultKinds
<1> QED BY <1>1 DEF BusTypeOK, Redeliver

\* Emitting the events in S adds events of S only, lost or not.
LEMMA EmitAdds ==
  ASSUME BusTypeOK, NEW S, Emit(S)
  PROVE  /\ bus' \in [Events -> Nat]
         /\ faults' \in [FaultKinds -> Nat]
         /\ \A f \in Events : bus'[f] > 0 => bus[f] > 0 \/ f \in S
<1>1. PICK sent \in SUBSET S : Deliver(sent)
  BY DEF Emit
<1>2. faults' \in [FaultKinds -> Nat]
  BY FaultType DEF Emit, FaultKinds, BusTypeOK
<1> QED BY <1>1, <1>2 DEF BusTypeOK, Deliver

-----------------------------------------------------------------------------
(* Type correctness.                                                       *)

\* A handler's entity is a saga row again after its assignments.
LEMMA EditedType ==
  ASSUME NEW saga \in SagaRow, NEW e \in Results
  PROVE  /\ NextStep(e) \in SagaStep
         /\ Edited(saga, e) \in SagaRow
<1>1. NextStep(e) \in SagaStep
  BY DEF Results, ResultTopics, NextStep, OnSuccess, OnFailure, SagaStep
<1> QED BY <1>1 DEF Edited, SagaRow, Results

\* Every step of order-service keeps the types.
LEMMA OrderStepType ==
  ASSUME TypeOK, OrderNext, UNCHANGED <<cart, stockVars, paymentVars>>
  PROVE  TypeOK'
<1> USE DEF TypeOK, BusTypeOK
<1>1. StockTypeOK' /\ PaymentTypeOK'
  BY DEF stockVars, paymentVars, StockTypeOK, PaymentTypeOK, Lines
<1>2. ASSUME NEW o \in Orders,
             CreateOrder(o) \/ CreateSaga(o) \/ CreateEmit(o) \/ CreateThrows(o)
      PROVE  BusTypeOK' /\ OrderTypeOK'
  <2>1. CASE CreateOrder(o)
    BY <2>1 DEF CreateOrder, OrderTypeOK, OrderStatus, Carts
  <2>2. CASE CreateSaga(o)
    BY <2>2 DEF CreateSaga, OrderTypeOK, SagaRow, SagaStep, Carts
  <2>3. CASE CreateEmit(o)
    BY <2>3, EmitAdds DEF CreateEmit, OrderTypeOK, Carts
  <2>4. CASE CreateThrows(o)
    BY <2>4, FaultType DEF CreateThrows, OrderTypeOK, FaultKinds, Carts
  <2> QED BY <1>2, <2>1, <2>2, <2>3, <2>4
<1>3. ASSUME NEW w \in OrderWorkers, NEW e \in Results, ReceiveResult(w, e)
      PROVE  BusTypeOK' /\ OrderTypeOK'
  <2>1. e \in Events /\ e.orderId \in Orders
    BY DEF Events, Results
  <2>2. BusTypeOK'
    BY <1>3, <2>1, ConsumeAdds DEF ReceiveResult
  <2>3. OrderTypeOK'
    BY <1>3, <2>1, EditedType DEF ReceiveResult, OrderTypeOK, BusyOrderWorker
  <2> QED BY <2>2, <2>3
<1>4. ASSUME NEW w \in OrderWorkers, OrderWorkerStep(w) \/ RedeliverResult(w)
      PROVE  BusTypeOK' /\ OrderTypeOK'
  <2>1. /\ orderWorker[w] \in BusyOrderWorker
        /\ orderWorker[w].event \in Results /\ orderWorker[w].event.orderId \in Orders
        /\ orderWorker[w].event \in Events
        /\ orderWorker[w].saga \in SagaRow
    BY <1>4 DEF OrderTypeOK, BusyOrderWorker, IdleOrderWorker, OrderWorkerStep, SaveSaga,
                SaveOrder, EmitNext, RedeliverResult, Events, Results
  <2>2. CASE SaveSaga(w)
    BY <2>1, <2>2 DEF SaveSaga, OrderTypeOK, BusyOrderWorker, Carts
  <2>3. CASE SaveOrder(w)
    BY <2>1, <2>3 DEF SaveOrder, OrderTypeOK, BusyOrderWorker, StatusAt, OrderStatus, Carts
  <2>4. CASE EmitNext(w)
    BY <2>1, <2>4, EmitAdds DEF EmitNext, OrderTypeOK, Carts
  <2>5. CASE RedeliverResult(w)
    BY <2>1, <2>5, RedeliverAdds DEF RedeliverResult, OrderTypeOK, Carts
  <2> QED BY <1>4, <2>2, <2>3, <2>4, <2>5 DEF OrderWorkerStep
<1> QED BY <1>1, <1>2, <1>3, <1>4 DEF OrderNext

\* The lines of an order are 1, 2, ..., at least one, each of a product in a
\* positive quantity (CreateOrderDto).
LEMMA LinesOf ==
  ASSUME BusTypeOK, NEW o \in Orders
  PROVE  /\ Len(cart[o].items) \in Nat \ {0}
         /\ Lines(o) = 1..Len(cart[o].items)
         /\ \A i \in Lines(o) : /\ cart[o].items[i].productId \in Products
                                /\ cart[o].items[i].quantity \in Nat
<1> DEFINE Item  == [productId : Products, quantity : Nat \ {0}]
           items == cart[o].items
<1>1. items \in Seq(Item) /\ items # <<>>
  BY BusAssumption DEF BusTypeOK, Carts
<1> HIDE DEF items
<1> HIDE DEF Item
<1>2. Len(items) \in Nat \ {0} /\ DOMAIN items = 1..Len(items)
  BY <1>1, EmptySeq, LenProperties
<1>3. \A i \in DOMAIN items : items[i] \in Item
  BY <1>1, <1>2, ElementOfSeq
<1> QED BY <1>2, <1>3 DEF Lines, items, Item

\* The job that follows a line that went well is a job again.
LEMMA NextLineType ==
  ASSUME BusTypeOK, NEW job \in BusyStockWorker, job.line \in Lines(job.event.orderId),
         job.event \in Requests
  PROVE  /\ NextLine(job) \in BusyStockWorker
         /\ NextLine(job).line \in Lines(job.event.orderId)
         /\ NextLine(job).event = job.event
<1>1. job.event.orderId \in Orders
  BY DEF Requests
<1>2. CASE job.line = Len(cart[job.event.orderId].items)
  <2>1. NextLine(job) = [job EXCEPT !.pc = "emit", !.success = TRUE]
    BY <1>2 DEF NextLine
  <2> QED BY <2>1 DEF BusyStockWorker
<1>3. CASE job.line # Len(cart[job.event.orderId].items)
  <2>1. NextLine(job) = [job EXCEPT !.line = @ + 1]
    BY <1>3 DEF NextLine
  <2>2. job.line + 1 \in Lines(job.event.orderId) /\ job.line + 1 \in Nat \ {0}
    BY <1>1, <1>3, LinesOf
  <2> QED BY <2>1, <2>2 DEF BusyStockWorker
<1> QED BY <1>2, <1>3

\* A decrement keeps the types of the stock column and of the history.
LEMMA DecrementType ==
  ASSUME BusTypeOK, StockTypeOK, NEW o \in Orders, NEW i \in Lines(o), Decrement(o, i)
  PROVE  /\ stock' \in [Products -> Int]
         /\ taken' = [x \in Orders |-> taken'[x]]
         /\ \A x \in Orders : taken'[x] \in [Lines(x) -> Nat]
<1>1. /\ cart[o].items[i].productId \in Products
      /\ cart[o].items[i].quantity \in Nat
  BY LinesOf
<1>2. CASE cart[o].items[i].productId \in listed
  <2>1. stock' \in [Products -> Int]
    BY <1>1, <1>2 DEF Decrement, StockTypeOK
  <2>2. taken' = [taken EXCEPT ![o] = [taken[o] EXCEPT ![i] = @ + 1]]
    BY <1>2 DEF Decrement
  <2>3. [taken[o] EXCEPT ![i] = @ + 1] \in [Lines(o) -> Nat]
    BY DEF StockTypeOK
  <2>4. taken' = [x \in Orders |-> taken'[x]]
    BY <2>2 DEF StockTypeOK
  <2>5. \A x \in Orders : taken'[x] \in [Lines(x) -> Nat]
    BY <2>2, <2>3 DEF StockTypeOK
  <2> QED BY <2>1, <2>4, <2>5
<1>3. CASE cart[o].items[i].productId \notin listed
  BY <1>3 DEF Decrement, StockTypeOK
<1> QED BY <1>2, <1>3

\* What the operators write: the stock column and the rows of the products,
\* and nothing of what the saga is doing.
LEMMA OperatorMoves ==
  ASSUME StockTypeOK, OperatorStep
  PROVE  /\ UNCHANGED <<taken, stockWorker, bus, faults>>
         /\ removed \subseteq removed' /\ lowered \subseteq lowered'
         /\ Products \ removed \subseteq listed => Products \ removed' \subseteq listed'
         /\ /\ stock' \in [Products -> Int] /\ listed' \subseteq Products
            /\ patch' \in [Operators -> Patch \cup {NoPatch}]
            /\ removed' \subseteq Products /\ lowered' \subseteq Products
<1> USE DEF StockTypeOK
<1>1. ASSUME NEW p \in Products, RemoveProduct(p)
      PROVE  /\ UNCHANGED <<stock, taken, stockWorker, patch, lowered, bus, faults>>
             /\ removed' = removed \cup {p} /\ listed' = listed \ {p}
  BY <1>1 DEF RemoveProduct
<1>2. ASSUME NEW p \in Products, NEW a \in Operators, FindToPatch(a, p)
      PROVE  /\ UNCHANGED <<stock, taken, stockWorker, listed, removed, lowered, bus, faults>>
             /\ patch' \in [Operators -> Patch \cup {NoPatch}]
  <2>1. UNCHANGED <<stock, taken, stockWorker, listed, removed, lowered, bus, faults>>
    BY <1>2 DEF FindToPatch
  <2>2. PICK q \in StockLevels \cup {stock[p]} :
          patch' = [patch EXCEPT ![a] = [pc |-> "save", productId |-> p, stockQuantity |-> q]]
    BY <1>2 DEF FindToPatch
  <2>3. [pc |-> "save", productId |-> p, stockQuantity |-> q] \in Patch
    BY StockAssumption DEF Patch
  <2> QED BY <2>1, <2>2, <2>3
<1>3. ASSUME NEW a \in Operators, SavePatch(a)
      PROVE  /\ UNCHANGED <<taken, stockWorker, removed, bus, faults>>
             /\ stock' \in [Products -> Int]
             /\ listed \subseteq listed' /\ listed' \subseteq Products
             /\ lowered \subseteq lowered' /\ lowered' \subseteq Products
             /\ patch' \in [Operators -> Patch \cup {NoPatch}]
  <2>1. patch[a].productId \in Products /\ patch[a].stockQuantity \in Int
    BY <1>3 DEF SavePatch, Patch, NoPatch
  <2> QED BY <1>3, <2>1 DEF SavePatch
<1>4. CASE \E p \in Products : RemoveProduct(p)
  BY <1>1, <1>4
<1>5. CASE \E p \in Products : \E a \in Operators : FindToPatch(a, p)
  BY <1>2, <1>5
<1>6. CASE \E a \in Operators : SavePatch(a)
  BY <1>3, <1>6
<1> QED BY <1>4, <1>5, <1>6 DEF OperatorStep

\* Every step of product-service keeps the types.
LEMMA StockStepType ==
  ASSUME TypeOK, StockNext, UNCHANGED <<cart, orderVars, paymentVars>>
  PROVE  TypeOK'
<1> USE DEF TypeOK
<1>1. OrderTypeOK' /\ PaymentTypeOK'
  BY DEF orderVars, paymentVars, OrderTypeOK, PaymentTypeOK
<1>2. ASSUME NEW w \in StockWorkers, NEW e \in Requests, ReceiveStockRequest(w, e)
      PROVE  BusTypeOK' /\ StockTypeOK'
  <2>1. e \in Events /\ e.orderId \in Orders
    BY DEF Events, Requests
  <2>2. BusTypeOK'
    BY <1>2, <2>1, ConsumeAdds DEF ReceiveStockRequest, BusTypeOK, Carts
  <2>3. 1 \in Lines(e.orderId)
    BY <2>1, LinesOf
  <2>4. [pc |-> FirstStep(e), event |-> e, line |-> 1, success |-> FALSE] \in BusyStockWorker
    BY DEF FirstStep, BusyStockWorker
  <2>5. StockTypeOK'
    BY <1>2, <2>1, <2>3, <2>4 DEF ReceiveStockRequest, products, StockTypeOK, Lines
  <2> QED BY <2>2, <2>5
<1>3. ASSUME NEW w \in StockWorkers,
             StockWorkerStep(w) \/ DeductThrows(w) \/ RedeliverStockRequest(w)
      PROVE  BusTypeOK' /\ StockTypeOK'
  <2> DEFINE job == stockWorker[w]
             o   == job.event.orderId
  <2>1. /\ job \in BusyStockWorker /\ job # IdleStockWorker
        /\ job.event \in Requests /\ job.event \in Events /\ o \in Orders
        /\ job.line \in Lines(o)
    BY <1>3 DEF StockTypeOK, BusyStockWorker, IdleStockWorker, StockWorkerStep, CheckLine,
                DeductLine, EmitStockResult, DeductThrows, RedeliverStockRequest, Events, Requests
  <2>2. NextLine(job) \in BusyStockWorker /\ NextLine(job).line \in Lines(o) /\ NextLine(job).event = job.event
    BY <2>1, NextLineType
  <2>3. Failed(job) \in BusyStockWorker /\ Failed(job).line \in Lines(o) /\ Failed(job).event = job.event
    BY <2>1 DEF Failed, BusyStockWorker
  <2>4. CASE CheckLine(w)
    BY <2>1, <2>2, <2>3, <2>4 DEF CheckLine, products, StockTypeOK, BusTypeOK, Carts, Lines
  <2>5. CASE DeductLine(w)
    <3>1. BusTypeOK'
      BY <2>5 DEF DeductLine, BusTypeOK, Carts
    <3> QED BY <2>1, <2>2, <2>5, <3>1, DecrementType DEF DeductLine, products, StockTypeOK, Lines
  <2>6. CASE DeductThrows(w)
    <3>1. BusTypeOK'
      BY <2>6, FaultType DEF DeductThrows, BusTypeOK, Carts, FaultKinds
    <3> QED BY <2>1, <2>3, <2>6, <3>1, DecrementType DEF DeductThrows, products, StockTypeOK, Lines
  <2>7. CASE EmitStockResult(w)
    BY <2>1, <2>7, EmitAdds DEF EmitStockResult, products, StockTypeOK, BusTypeOK, Carts, Lines
  <2>8. CASE RedeliverStockRequest(w)
    BY <2>1, <2>8, RedeliverAdds DEF RedeliverStockRequest, products, StockTypeOK, BusTypeOK, Carts, Lines
  <2> QED BY <1>3, <2>4, <2>5, <2>6, <2>7, <2>8 DEF StockWorkerStep
<1>4. ASSUME OperatorStep
      PROVE  BusTypeOK' /\ StockTypeOK'
  BY <1>4, OperatorMoves DEF StockTypeOK, BusTypeOK, Carts, Lines
<1> QED BY <1>1, <1>2, <1>3, <1>4 DEF StockNext

\* Every step of payment-service keeps the types.
LEMMA PaymentStepType ==
  ASSUME TypeOK, PaymentNext, UNCHANGED <<cart, orderVars, stockVars>>
  PROVE  TypeOK'
<1> USE DEF TypeOK
<1>1. OrderTypeOK' /\ StockTypeOK'
  BY DEF orderVars, stockVars, OrderTypeOK, StockTypeOK, Lines
<1>2. ASSUME NEW w \in PaymentWorkers, NEW e \in Requests, ReceivePaymentRequest(w, e)
      PROVE  BusTypeOK' /\ PaymentTypeOK'
  <2>1. e \in Events /\ e.orderId \in Orders
    BY DEF Events, Requests
  <2>2. CASE ReceiveRefund(w, e)
    <3>1. BusTypeOK'
      BY <2>1, <2>2, ConsumeAdds DEF ReceiveRefund, BusTypeOK, Carts
    <3>2. PaymentTypeOK'
      <4>1. CASE UNCHANGED paymentWorker
        BY <2>2, <4>1 DEF ReceiveRefund, PaymentTypeOK
      <4>2. ASSUME NEW p \in Refundable(e.orderId),
                   paymentWorker' = [paymentWorker EXCEPT ![w] =
                     [pc |-> "saveRefund", event |-> e, payment |-> p, success |-> TRUE]]
            PROVE  PaymentTypeOK'
        <5>1. p \in PaymentIds /\ payments[p] # NoPayment
          BY DEF Refundable, NoPayment
        <5>2. [pc |-> "saveRefund", event |-> e, payment |-> p, success |-> TRUE] \in BusyPaymentWorker
          BY <5>1 DEF BusyPaymentWorker
        <5> QED BY <2>2, <4>2, <5>1, <5>2 DEF ReceiveRefund, PaymentTypeOK
      <4> QED BY <2>2, <4>1, <4>2 DEF ReceiveRefund
    <3> QED BY <3>1, <3>2
  <2>3. ASSUME NEW p \in PaymentIds, ReceivePayment(w, e, p)
        PROVE  BusTypeOK' /\ PaymentTypeOK'
    <3>1. BusTypeOK'
      BY <2>1, <2>3, ConsumeAdds DEF ReceivePayment, BusTypeOK, Carts
    <3>2. PaymentTypeOK'
      <4>1. [orderId |-> e.orderId, status |-> "PENDING"] \in Payment
        BY <2>1 DEF Payment, PaymentStatus
      <4>2. [orderId |-> e.orderId, status |-> "PENDING"] # NoPayment
        BY DEF NoPayment
      <4>3. [pc |-> "fire", event |-> e, payment |-> p, success |-> FALSE] \in BusyPaymentWorker
        BY DEF BusyPaymentWorker
      <4> QED BY <2>3, <4>1, <4>2, <4>3 DEF ReceivePayment, PaymentTypeOK
    <3> QED BY <3>1, <3>2
  <2> QED BY <1>2, <2>2, <2>3 DEF ReceivePaymentRequest
<1>3. ASSUME NEW w \in PaymentWorkers, PaymentWorkerStep(w) \/ RedeliverPaymentRequest(w)
      PROVE  BusTypeOK' /\ PaymentTypeOK'
  <2> DEFINE job == paymentWorker[w]
  <2>1. /\ job \in BusyPaymentWorker /\ job # IdlePaymentWorker
        /\ job.event \in Requests /\ job.event \in Events /\ job.event.orderId \in Orders
        /\ job.payment \in PaymentIds /\ job.success \in BOOLEAN
    BY <1>3 DEF PaymentTypeOK, BusyPaymentWorker, IdlePaymentWorker, PaymentWorkerStep,
                FireSucceeds, FireFails, SavePayment, EmitPaymentResult, SaveRefund,
                RedeliverPaymentRequest, Events, Requests
  <2>2. CASE FireSucceeds(w)
    <3>1. [job EXCEPT !.pc = "save", !.success = TRUE] \in BusyPaymentWorker
      BY <2>1 DEF BusyPaymentWorker
    <3>2. [job EXCEPT !.pc = "save", !.success = TRUE].payment = job.payment
      BY <2>1 DEF BusyPaymentWorker
    <3>3. BusTypeOK'
      BY <2>2 DEF FireSucceeds, BusTypeOK, Carts
    <3> QED BY <2>1, <2>2, <3>1, <3>2, <3>3 DEF FireSucceeds, PaymentTypeOK
  <2>3. CASE FireFails(w)
    BY <2>1, <2>3 DEF FireFails, PaymentTypeOK, BusyPaymentWorker, BusTypeOK, Carts
  <2>4. CASE SavePayment(w)
    BY <2>1, <2>4 DEF SavePayment, PaymentTypeOK, BusyPaymentWorker, BusTypeOK, Carts,
                      Payment, NoPayment, PaymentStatus
  <2>5. CASE EmitPaymentResult(w)
    BY <2>1, <2>5, EmitAdds DEF EmitPaymentResult, PaymentTypeOK, BusTypeOK, Carts
  <2>6. CASE SaveRefund(w)
    BY <2>1, <2>6 DEF SaveRefund, PaymentTypeOK, BusTypeOK, Carts, Payment, NoPayment, PaymentStatus
  <2>7. CASE RedeliverPaymentRequest(w)
    BY <2>1, <2>7, RedeliverAdds DEF RedeliverPaymentRequest, PaymentTypeOK, BusTypeOK, Carts
  <2> QED BY <1>3, <2>2, <2>3, <2>4, <2>5, <2>6, <2>7 DEF PaymentWorkerStep
<1> QED BY <1>1, <1>2, <1>3 DEF PaymentNext

\* The initial rows, events and replicas are of their types.
LEMMA InitType == Init => TypeOK
<1> SUFFICES ASSUME Init PROVE TypeOK
  OBVIOUS
<1>1. BusTypeOK
  BY DEF Init, BusInit, BusTypeOK
<1>2. OrderTypeOK
  BY DEF Init, OrderInit, OrderTypeOK
<1>3. StockTypeOK
  BY StockAssumption DEF Init, StockInit, StockTypeOK
<1>4. PaymentTypeOK
  BY DEF Init, PaymentInit, PaymentTypeOK
<1> QED BY <1>1, <1>2, <1>3, <1>4 DEF TypeOK

\* Every step, and every stutter, keeps the types.
LEMMA NextType == TypeOK /\ [Next]_vars => TypeOK'
<1> SUFFICES ASSUME TypeOK, [Next]_vars PROVE TypeOK'
  OBVIOUS
<1>1. CASE UNCHANGED vars
  BY <1>1 DEF vars, orderVars, stockVars, paymentVars, TypeOK, BusTypeOK, OrderTypeOK,
              StockTypeOK, PaymentTypeOK, Carts, Lines
<1> QED BY <1>1, OrderStepType, StockStepType, PaymentStepType DEF Next

\* In every reachable state each variable has its type; in particular no
\* event is consumed that is not there and no handler leaves its lines.
THEOREM TypeCorrect == Spec => []TypeOK
BY InitType, NextType, PTL DEF Spec

-----------------------------------------------------------------------------
(* The inductive invariant.  What an order shows is known from events, and *)
(* an event may come late and more than once; so the invariant says, for   *)
(* each event in flight and each handler at work, which facts of the three *)
(* databases it presupposes.  No step ever takes such a fact back.         *)

\* What the sender of e knew.
Grounded(e) ==
  /\ orders[e.orderId] # "NONE" /\ sagas[e.orderId] # NoSaga
  /\ e.topic = "PAYMENT_RESULT" /\ e.success => Paid(e.orderId)
  /\ e.topic \in {"STOCK_DEDUCT_REQUESTED", "STOCK_DEDUCT_RESULT"} => Paid(e.orderId)
  /\ e.topic = "STOCK_DEDUCT_RESULT" /\ e.success => Deducted(e.orderId)

EventsGrounded == \A e \in Events : InFlight(e) => Grounded(e)

\* POST /orders sends its event after both rows are saved.
CreatingInOrder == \A o \in Orders :
  /\ creating[o] \in {"saveSaga", "emit"} => orders[o] # "NONE"
  /\ creating[o] = "emit" => sagas[o] # NoSaga

\* A payment handler works on a row of its event's order, which it shares
\* with no other handler until its outcome is saved.
PaymentJobs == \A w \in PaymentWorkers :
  LET job == paymentWorker[w]
      row == payments[job.payment]
  IN  /\ job # IdlePaymentWorker => row.orderId = job.event.orderId
      /\ job.pc \in {"fire", "save"} => row.status = "PENDING"
      /\ job.pc = "emit" /\ job.success => row.status \in {"COMPLETED", "REFUNDED"}
      /\ job.pc = "saveRefund" => row.status \in {"COMPLETED", "REFUNDED"}
      /\ \A v \in PaymentWorkers \ {w} :
           job.pc \in {"fire", "save"} /\ paymentWorker[v].pc \in {"fire", "save"} =>
             paymentWorker[v].payment # job.payment

\* A stock handler has taken the lines before the one it is at.
StockJob(job) ==
  LET o == job.event.orderId
  IN  /\ job.pc = "check" => job.event.topic = "STOCK_CHECK_REQUESTED"
      /\ job.pc = "deduct" =>
           /\ job.event.topic = "STOCK_DEDUCT_REQUESTED"
           /\ \A i \in Lines(o) : i < job.line => LineTaken(o, i)
      /\ job.pc = "emit" /\ job.success /\ job.event.topic = "STOCK_DEDUCT_REQUESTED" =>
           Deducted(o)
      /\ job # IdleStockWorker =>
           job.event.topic \in {"STOCK_CHECK_REQUESTED", "STOCK_DEDUCT_REQUESTED"}

StockJobs == \A w \in StockWorkers : StockJob(stockWorker[w])

TouchedMeansPaid == \A o \in Orders : ~Untouched(o) => Paid(o)

\* A product has a row unless it was removed (and then perhaps again).
RowsRemain == Products \ removed \subseteq listed

IInv == /\ TypeOK
        /\ EventsGrounded
        /\ CreatingInOrder
        /\ PaymentJobs
        /\ StockJobs
        /\ TouchedMeansPaid
        /\ RowsRemain
        /\ CompletedMeansPaidAndDeducted

-----------------------------------------------------------------------------
(* Facts that no step takes back.                                          *)

\* A paid row stays a paid row of its order: a payment is saved once, on a
\* row that was PENDING, and a refund leaves the row REFUNDED.
LEMMA PaidRowStays ==
  ASSUME IInv, PaymentNext, NEW o \in Orders, NEW p \in PaidRows(o)
  PROVE  p \in PaidRows(o)'
<1> USE DEF IInv
<1>1. /\ p \in PaymentIds /\ payments[p] # NoPayment /\ payments[p].orderId = o
      /\ payments[p].status \in {"COMPLETED", "REFUNDED"}
      /\ payments[p] \in Payment
  BY DEF PaidRows, Rows, TypeOK, PaymentTypeOK
<1>2. SUFFICES /\ payments'[p].orderId = o
               /\ payments'[p].status \in {"COMPLETED", "REFUNDED"}
  BY <1>1 DEF PaidRows, Rows, NoPayment
<1>3. CASE payments' = payments
  BY <1>1, <1>3
<1>4. ASSUME NEW w \in PaymentWorkers, NEW e \in Requests, NEW q \in PaymentIds,
             ReceivePayment(w, e, q)
      PROVE  payments'[p] = payments[p]
  BY <1>1, <1>4 DEF ReceivePayment, TypeOK, PaymentTypeOK
<1>5. ASSUME NEW w \in PaymentWorkers, SavePayment(w)
      PROVE  payments'[p] = payments[p]
  <2>1. payments[paymentWorker[w].payment].status = "PENDING"
    BY <1>5 DEF SavePayment, PaymentJobs
  <2> QED BY <1>1, <1>5, <2>1 DEF SavePayment, TypeOK, PaymentTypeOK
<1>6. ASSUME NEW w \in PaymentWorkers, SaveRefund(w)
      PROVE  /\ payments'[p].orderId = o
             /\ payments'[p].status \in {"COMPLETED", "REFUNDED"}
  <2>1. payments' = [payments EXCEPT ![paymentWorker[w].payment] =
                       [payments[paymentWorker[w].payment] EXCEPT !.status = "REFUNDED"]]
    BY <1>6 DEF SaveRefund
  <2>2. CASE p = paymentWorker[w].payment
    BY <1>1, <2>1, <2>2 DEF TypeOK, PaymentTypeOK, Payment
  <2>3. CASE p # paymentWorker[w].payment
    BY <1>1, <2>1, <2>3 DEF TypeOK, PaymentTypeOK
  <2> QED BY <2>2, <2>3
<1> QED BY <1>1, <1>3, <1>4, <1>5, <1>6
        DEF PaymentNext, ReceivePaymentRequest, PaymentWorkerStep, ReceiveRefund, FireSucceeds,
            FireFails, EmitPaymentResult, RedeliverPaymentRequest

\* Once paid, an order is never unpaid (it may be refunded).
LEMMA PaidStays ==
  ASSUME IInv, Next, NEW o \in Orders, Paid(o)
  PROVE  Paid(o)'
<1>1. CASE UNCHANGED paymentVars
  BY <1>1 DEF paymentVars, Paid, PaidRows, Rows
<1>2. CASE PaymentNext
  BY <1>2, PaidRowStays DEF Paid
<1> QED BY <1>1, <1>2 DEF Next

\* A decrement of line i of o counts there and nowhere else.
LEMMA DecrementCounts ==
  ASSUME TypeOK, NEW o \in Orders, NEW i \in Lines(o), Decrement(o, i)
  PROVE  /\ \A x \in Orders : \A j \in Lines(x) : taken'[x][j] >= taken[x][j]
         /\ \A x \in Orders \ {o} : taken'[x] = taken[x]
         /\ cart[o].items[i].productId \in listed => taken'[o][i] > 0
<1>1. \A x \in Orders : taken[x] \in [Lines(x) -> Nat]
  BY DEF TypeOK, StockTypeOK
<1>2. CASE taken' = taken /\ cart[o].items[i].productId \notin listed
  BY <1>1, <1>2
<1>3. CASE taken' = [taken EXCEPT ![o] = [taken[o] EXCEPT ![i] = @ + 1]]
  <2>1. DOMAIN taken = Orders
    BY DEF TypeOK, StockTypeOK
  <2>2. taken'[o] = [taken[o] EXCEPT ![i] = @ + 1]
    BY <1>3, <2>1
  <2>3. \A x \in Orders \ {o} : taken'[x] = taken[x]
    BY <1>3, <2>1
  <2>4. taken'[o][i] = taken[o][i] + 1 /\ \A j \in Lines(o) \ {i} : taken'[o][j] = taken[o][j]
    BY <1>1, <2>2
  <2> QED BY <1>1, <2>3, <2>4
<1> QED BY <1>2, <1>3 DEF Decrement

\* What a step of product-service does to the records of lines taken.
LEMMA TakenGrows ==
  ASSUME IInv, StockNext, UNCHANGED cart
  PROVE  /\ removed \subseteq removed'
         /\ \A x \in Orders : \A j \in Lines(x) : taken'[x][j] >= taken[x][j]
         /\ \A x \in Orders : taken'[x] # taken[x] => Paid(x)
<1> USE DEF IInv
<1>1. \A x \in Orders : taken[x] \in [Lines(x) -> Nat]
  BY DEF TypeOK, StockTypeOK
<1>2. CASE removed \subseteq removed' /\ taken' = taken
  BY <1>1, <1>2
<1>3. CASE OperatorStep
  BY <1>2, <1>3, OperatorMoves DEF TypeOK
<1>4. ASSUME NEW w \in StockWorkers, stockWorker[w].pc = "deduct", UNCHANGED removed,
             Decrement(stockWorker[w].event.orderId, stockWorker[w].line)
      PROVE  /\ \A x \in Orders : \A j \in Lines(x) : taken'[x][j] >= taken[x][j]
             /\ \A x \in Orders : taken'[x] # taken[x] => Paid(x)
  <2> DEFINE job == stockWorker[w]
  <2>1. /\ job # IdleStockWorker
        /\ job.event \in Events /\ job.event.orderId \in Orders
        /\ job.line \in Lines(job.event.orderId)
    BY <1>4 DEF TypeOK, StockTypeOK, BusyStockWorker, IdleStockWorker, Events, Requests
  <2>2. job.event.topic = "STOCK_DEDUCT_REQUESTED"
    BY <1>4 DEF StockJobs, StockJob
  <2>3. Paid(job.event.orderId)
    BY <2>1, <2>2 DEF EventsGrounded, Grounded, InFlight, HeldByStock
  <2> QED BY <1>4, <2>1, <2>3, DecrementCounts
<1>5. ASSUME NEW w \in StockWorkers, DeductLine(w) \/ DeductThrows(w)
      PROVE  \/ UNCHANGED <<removed, taken>>
             \/ /\ stockWorker[w].pc = "deduct" /\ UNCHANGED removed
                /\ Decrement(stockWorker[w].event.orderId, stockWorker[w].line)
  BY <1>5 DEF DeductLine, DeductThrows, products
<1>6. ASSUME NEW w \in StockWorkers,
             \/ \E e \in Requests : ReceiveStockRequest(w, e)
             \/ CheckLine(w) \/ EmitStockResult(w) \/ RedeliverStockRequest(w)
      PROVE  UNCHANGED <<removed, taken>>
  BY <1>6 DEF ReceiveStockRequest, CheckLine, EmitStockResult, RedeliverStockRequest, products
<1> QED BY <1>1, <1>2, <1>3, <1>4, <1>5, <1>6 DEF StockNext, StockWorkerStep

\* A line that was taken stays taken.
LEMMA LineTakenStays ==
  ASSUME IInv, Next, NEW o \in Orders, NEW i \in Lines(o), LineTaken(o, i)
  PROVE  LineTaken(o, i)'
<1>1. taken[o][i] \in Nat /\ cart' = cart
  BY DEF IInv, TypeOK, StockTypeOK, Next
<1>2. CASE UNCHANGED stockVars
  BY <1>1, <1>2 DEF stockVars, LineTaken
<1>3. CASE StockNext
  <2>1. removed \subseteq removed' /\ taken'[o][i] >= taken[o][i]
    BY <1>1, <1>3, TakenGrows
  <2>2. TypeOK'
    BY NextType DEF IInv
  <2>3. taken'[o][i] \in Nat
    BY <1>1, <2>2 DEF TypeOK, StockTypeOK, Lines
  <2> QED BY <1>1, <2>1, <2>3 DEF LineTaken
<1> QED BY <1>2, <1>3 DEF Next

\* An order whose lines were all taken stays so.
LEMMA DeductedStays ==
  ASSUME IInv, Next, NEW o \in Orders, Deducted(o)
  PROVE  Deducted(o)'
<1>1. Lines(o)' = Lines(o)
  BY DEF Next, Lines
<1> QED BY <1>1, LineTakenStays DEF Deducted

\* A row of orders or saga_states, once saved, is never removed.
LEMMA RowsStay ==
  ASSUME IInv, Next, NEW o \in Orders
  PROVE  /\ orders[o] # "NONE" => orders'[o] # "NONE"
         /\ sagas[o] # NoSaga => sagas'[o] # NoSaga
<1> USE DEF IInv, TypeOK
<1>1. CASE UNCHANGED orderVars
  BY <1>1 DEF orderVars
<1>2. CASE OrderNext
  <2>1. ASSUME NEW x \in Orders, CreateOrder(x) \/ CreateSaga(x) \/ CreateEmit(x) \/ CreateThrows(x)
        PROVE  /\ orders[o] # "NONE" => orders'[o] # "NONE"
               /\ sagas[o] # NoSaga => sagas'[o] # NoSaga
    BY <2>1 DEF CreateOrder, CreateSaga, CreateEmit, CreateThrows, OrderTypeOK, NoSaga
  <2>2. ASSUME NEW w \in OrderWorkers, SaveSaga(w)
        PROVE  orders' = orders /\ (sagas[o] # NoSaga => sagas'[o] # NoSaga)
    <3>1. orderWorker[w].saga \in SagaRow
      BY <2>2 DEF SaveSaga, OrderTypeOK, BusyOrderWorker, IdleOrderWorker
    <3>2. orderWorker[w].saga # NoSaga
      BY <3>1 DEF SagaRow, NoSaga, SagaStep
    <3> QED BY <2>2, <3>2 DEF SaveSaga, OrderTypeOK
  <2>3. ASSUME NEW w \in OrderWorkers, SaveOrder(w)
        PROVE  sagas' = sagas /\ (orders[o] # "NONE" => orders'[o] # "NONE")
    BY <2>3 DEF SaveOrder, StatusAt, OrderTypeOK
  <2>4. ASSUME NEW w \in OrderWorkers,
               (\E e \in Results : ReceiveResult(w, e)) \/ EmitNext(w) \/ RedeliverResult(w)
        PROVE  UNCHANGED <<orders, sagas>>
    BY <2>4 DEF ReceiveResult, EmitNext, RedeliverResult
  <2> QED BY <1>2, <2>1, <2>2, <2>3, <2>4 DEF OrderNext, OrderWorkerStep
<1> QED BY <1>1, <1>2 DEF Next

\* What an event presupposes stays true for as long as it may be late.
LEMMA GroundedStays ==
  ASSUME IInv, Next, NEW e \in Events, Grounded(e)
  PROVE  Grounded(e)'
<1>1. e.orderId \in Orders
  BY DEF Events, Requests, Results
<1> QED BY <1>1, RowsStay, PaidStays, DeductedStays DEF Grounded

-----------------------------------------------------------------------------
(* Every event that a step puts in flight is grounded.                     *)

\* The events that a request or a handler is about to send.
Sendable(e) ==
  \/ \E o \in Orders : creating[o] = "emit" /\ e = Request("STOCK_CHECK_REQUESTED", o)
  \/ \E w \in OrderWorkers :
       LET job == orderWorker[w] IN
       job.pc = "emit" /\ \E t \in TopicsAt(NextStep(job.event)) : e = Request(t, job.event.orderId)
  \/ \E w \in StockWorkers :
       LET job == stockWorker[w] IN
       job.pc = "emit" /\ e = Result(ResultTopicOf(job.event), job.event.orderId, job.success)
  \/ \E w \in PaymentWorkers :
       LET job == paymentWorker[w] IN
       job.pc = "emit" /\ e = Result("PAYMENT_RESULT", job.event.orderId, job.success)

\* order-service only takes, gives back and emits its events.
LEMMA OrderEvents ==
  ASSUME IInv, OrderNext, UNCHANGED <<cart, stockVars, paymentVars>>,
         NEW e \in Events, InFlight(e)'
  PROVE  InFlight(e) \/ Sendable(e)
<1> USE DEF IInv, TypeOK
<1>0. HeldByStock(e)' = HeldByStock(e) /\ HeldByPayment(e)' = HeldByPayment(e)
  BY DEF stockVars, paymentVars, HeldByStock, HeldByPayment
<1>1. ASSUME NEW o \in Orders,
             CreateOrder(o) \/ CreateSaga(o) \/ CreateEmit(o) \/ CreateThrows(o)
      PROVE  InFlight(e) \/ Sendable(e)
  <2>1. HeldByOrder(e)' = HeldByOrder(e)
    BY <1>1 DEF CreateOrder, CreateSaga, CreateEmit, CreateThrows, HeldByOrder
  <2>2. CASE CreateEmit(o)
    <3>1. bus'[e] > 0 => bus[e] > 0 \/ e = Request("STOCK_CHECK_REQUESTED", o)
      BY <2>2, EmitAdds DEF CreateEmit
    <3> QED BY <1>0, <2>1, <2>2, <3>1 DEF InFlight, Sendable, CreateEmit
  <2> QED BY <1>0, <1>1, <2>1, <2>2 DEF CreateOrder, CreateSaga, CreateThrows, InFlight
<1>2. ASSUME NEW w \in OrderWorkers, NEW x \in Results, ReceiveResult(w, x)
      PROVE  InFlight(e)
  <2>1. x \in Events
    BY DEF Events
  <2>2. bus[x] > 0 /\ (bus'[e] > 0 => bus[e] > 0)
    BY <1>2, <2>1, ConsumeAdds DEF ReceiveResult
  <2>3. HeldByOrder(e)' => HeldByOrder(e) \/ e = x
    BY <1>2 DEF ReceiveResult, HeldByOrder, OrderTypeOK
  <2> QED BY <1>0, <2>2, <2>3 DEF InFlight
<1>3. ASSUME NEW w \in OrderWorkers, OrderWorkerStep(w) \/ RedeliverResult(w)
      PROVE  InFlight(e) \/ Sendable(e)
  <2> DEFINE job == orderWorker[w]
  <2>1. /\ job \in BusyOrderWorker /\ job # IdleOrderWorker
        /\ job.event \in Results /\ job.event \in Events /\ job.event.orderId \in Orders
    BY <1>3 DEF OrderTypeOK, BusyOrderWorker, IdleOrderWorker, OrderWorkerStep, SaveSaga,
                SaveOrder, EmitNext, RedeliverResult, Events, Results
  <2>2. HeldByOrder(e)' => HeldByOrder(e)
    BY <1>3, <2>1 DEF OrderWorkerStep, SaveSaga, SaveOrder, EmitNext, RedeliverResult,
                      HeldByOrder, OrderTypeOK, BusyOrderWorker
  <2>3. CASE SaveSaga(w) \/ SaveOrder(w)
    BY <1>0, <2>2, <2>3 DEF SaveSaga, SaveOrder, InFlight
  <2>4. CASE EmitNext(w)
    <3> DEFINE sent == {Request(t, job.event.orderId) : t \in TopicsAt(NextStep(job.event))}
    <3>1. bus'[e] > 0 => bus[e] > 0 \/ e \in sent
      BY <2>4, EmitAdds DEF EmitNext
    <3>2. e \in sent => Sendable(e)
      BY <2>4 DEF EmitNext, Sendable
    <3> QED BY <1>0, <2>2, <3>1, <3>2 DEF InFlight
  <2>5. CASE RedeliverResult(w)
    <3>1. bus'[e] > 0 => bus[e] > 0 \/ e = job.event
      BY <2>1, <2>5, RedeliverAdds DEF RedeliverResult
    <3> QED BY <1>0, <2>1, <2>2, <3>1 DEF InFlight, HeldByOrder
  <2> QED BY <1>3, <2>3, <2>4, <2>5 DEF OrderWorkerStep
<1> QED BY <1>1, <1>2, <1>3 DEF OrderNext

\* So does product-service.
LEMMA StockEvents ==
  ASSUME IInv, StockNext, UNCHANGED <<cart, orderVars, paymentVars>>,
         NEW e \in Events, InFlight(e)'
  PROVE  InFlight(e) \/ Sendable(e)
<1> USE DEF IInv, TypeOK
<1>0. HeldByOrder(e)' = HeldByOrder(e) /\ HeldByPayment(e)' = HeldByPayment(e)
  BY DEF orderVars, paymentVars, HeldByOrder, HeldByPayment
<1>1. ASSUME NEW w \in StockWorkers, NEW x \in Requests, ReceiveStockRequest(w, x)
      PROVE  InFlight(e)
  <2>1. x \in Events
    BY DEF Events
  <2>2. bus[x] > 0 /\ (bus'[e] > 0 => bus[e] > 0)
    BY <1>1, <2>1, ConsumeAdds DEF ReceiveStockRequest
  <2>3. HeldByStock(e)' => HeldByStock(e) \/ e = x
    BY <1>1 DEF ReceiveStockRequest, HeldByStock, StockTypeOK
  <2> QED BY <1>0, <2>2, <2>3 DEF InFlight
<1>2. ASSUME NEW w \in StockWorkers,
             StockWorkerStep(w) \/ DeductThrows(w) \/ RedeliverStockRequest(w)
      PROVE  InFlight(e) \/ Sendable(e)
  <2> DEFINE job == stockWorker[w]
             o   == job.event.orderId
  <2>1. /\ job \in BusyStockWorker /\ job # IdleStockWorker
        /\ job.event \in Requests /\ job.event \in Events /\ o \in Orders
        /\ job.line \in Lines(o) /\ job.success \in BOOLEAN
    BY <1>2 DEF StockTypeOK, BusyStockWorker, IdleStockWorker, StockWorkerStep, CheckLine,
                DeductLine, EmitStockResult, DeductThrows, RedeliverStockRequest, Events, Requests
  <2>2. CASE CheckLine(w) \/ DeductLine(w) \/ DeductThrows(w)
    <3>1. NextLine(job).event = job.event /\ Failed(job).event = job.event
      BY <2>1, NextLineType DEF Failed, BusyStockWorker
    <3>2. HeldByStock(e)' => HeldByStock(e)
      BY <2>1, <2>2, <3>1 DEF CheckLine, DeductLine, DeductThrows, HeldByStock, StockTypeOK
    <3> QED BY <1>0, <2>2, <3>2 DEF CheckLine, DeductLine, DeductThrows, InFlight
  <2>3. CASE EmitStockResult(w)
    <3> DEFINE result == Result(ResultTopicOf(job.event), o, job.success)
    <3>1. bus'[e] > 0 => bus[e] > 0 \/ e = result
      BY <2>3, EmitAdds DEF EmitStockResult
    <3>2. HeldByStock(e)' => HeldByStock(e)
      BY <2>3 DEF EmitStockResult, HeldByStock, StockTypeOK
    <3>3. Sendable(result)
      BY <2>3 DEF EmitStockResult, Sendable
    <3> QED BY <1>0, <3>1, <3>2, <3>3 DEF InFlight
  <2>4. CASE RedeliverStockRequest(w)
    <3>1. bus'[e] > 0 => bus[e] > 0 \/ e = job.event
      BY <2>1, <2>4, RedeliverAdds DEF RedeliverStockRequest
    <3>2. HeldByStock(e)' => HeldByStock(e)
      BY <2>4 DEF RedeliverStockRequest, HeldByStock, StockTypeOK
    <3> QED BY <1>0, <2>1, <3>1, <3>2 DEF InFlight, HeldByStock
  <2> QED BY <1>2, <2>2, <2>3, <2>4 DEF StockWorkerStep
<1>3. ASSUME OperatorStep
      PROVE  InFlight(e)
  BY <1>0, <1>3, OperatorMoves DEF InFlight, HeldByStock
<1> QED BY <1>1, <1>2, <1>3 DEF StockNext

\* So does payment-service.
LEMMA PaymentEvents ==
  ASSUME IInv, PaymentNext, UNCHANGED <<cart, orderVars, stockVars>>,
         NEW e \in Events, InFlight(e)'
  PROVE  InFlight(e) \/ Sendable(e)
<1> USE DEF IInv, TypeOK
<1>0. HeldByOrder(e)' = HeldByOrder(e) /\ HeldByStock(e)' = HeldByStock(e)
  BY DEF orderVars, stockVars, HeldByOrder, HeldByStock
<1>1. ASSUME NEW w \in PaymentWorkers, NEW x \in Requests, ReceivePaymentRequest(w, x)
      PROVE  InFlight(e)
  <2>1. x \in Events
    BY DEF Events
  <2>2. bus[x] > 0 /\ (bus'[e] > 0 => bus[e] > 0)
    BY <1>1, <2>1, ConsumeAdds DEF ReceivePaymentRequest, ReceivePayment, ReceiveRefund
  <2>3. HeldByPayment(e)' => HeldByPayment(e) \/ e = x
    BY <1>1 DEF ReceivePaymentRequest, ReceivePayment, ReceiveRefund, HeldByPayment, PaymentTypeOK
  <2> QED BY <1>0, <2>2, <2>3 DEF InFlight
<1>2. ASSUME NEW w \in PaymentWorkers, PaymentWorkerStep(w) \/ RedeliverPaymentRequest(w)
      PROVE  InFlight(e) \/ Sendable(e)
  <2> DEFINE job == paymentWorker[w]
             o   == job.event.orderId
  <2>1. /\ job \in BusyPaymentWorker /\ job # IdlePaymentWorker
        /\ job.event \in Requests /\ job.event \in Events /\ o \in Orders
        /\ job.payment \in PaymentIds /\ job.success \in BOOLEAN
        /\ payments[job.payment] # NoPayment /\ payments[job.payment].orderId = o
    BY <1>2 DEF PaymentTypeOK, BusyPaymentWorker, IdlePaymentWorker, PaymentWorkerStep,
                FireSucceeds, FireFails, SavePayment, EmitPaymentResult, SaveRefund,
                RedeliverPaymentRequest, Events, Requests, PaymentJobs
  <2>2. HeldByPayment(e)' => HeldByPayment(e)
    <3>1. CASE FireSucceeds(w)
      BY <2>1, <3>1 DEF FireSucceeds, HeldByPayment, PaymentTypeOK, BusyPaymentWorker
    <3>2. CASE FireFails(w) \/ SavePayment(w)
      BY <2>1, <3>2 DEF FireFails, SavePayment, HeldByPayment, PaymentTypeOK, BusyPaymentWorker
    <3>3. CASE EmitPaymentResult(w) \/ SaveRefund(w) \/ RedeliverPaymentRequest(w)
      BY <3>3 DEF EmitPaymentResult, SaveRefund, RedeliverPaymentRequest, HeldByPayment, PaymentTypeOK
    <3> QED BY <1>2, <3>1, <3>2, <3>3 DEF PaymentWorkerStep
  <2>3. CASE EmitPaymentResult(w)
    <3> DEFINE result == Result("PAYMENT_RESULT", o, job.success)
    <3>1. bus'[e] > 0 => bus[e] > 0 \/ e = result
      BY <2>3, EmitAdds DEF EmitPaymentResult
    <3>2. Sendable(result)
      BY <2>3 DEF EmitPaymentResult, Sendable
    <3> QED BY <1>0, <2>2, <3>1, <3>2 DEF InFlight
  <2>4. CASE RedeliverPaymentRequest(w)
    <3>1. bus'[e] > 0 => bus[e] > 0 \/ e = job.event
      BY <2>1, <2>4, RedeliverAdds DEF RedeliverPaymentRequest
    <3> QED BY <1>0, <2>1, <2>2, <3>1 DEF InFlight, HeldByPayment
  <2> QED BY <1>0, <1>2, <2>2, <2>3, <2>4
          DEF PaymentWorkerStep, FireSucceeds, FireFails, SavePayment, SaveRefund, InFlight
<1> QED BY <1>1, <1>2 DEF PaymentNext

\* Whatever is in flight after a step was so before, or somebody sent it.
LEMMA StepEvents ==
  ASSUME IInv, Next, NEW e \in Events, InFlight(e)'
  PROVE  InFlight(e) \/ Sendable(e)
BY OrderEvents, StockEvents, PaymentEvents DEF Next

\* The saga goes on from an answer only: order-service asks for a deduction
\* after a payment, product-service reports a deduction as done after its
\* last line, payment-service reports a payment as made after its row is saved.
LEMMA SendableGrounded ==
  ASSUME IInv, NEW e \in Events, Sendable(e)
  PROVE  Grounded(e)
<1> USE DEF IInv, TypeOK
<1>1. ASSUME NEW o \in Orders, creating[o] = "emit", e = Request("STOCK_CHECK_REQUESTED", o)
      PROVE  Grounded(e)
  BY <1>1 DEF CreatingInOrder, Grounded, Request
<1>2. ASSUME NEW w \in OrderWorkers, orderWorker[w].pc = "emit",
             NEW t \in TopicsAt(NextStep(orderWorker[w].event)),
             e = Request(t, orderWorker[w].event.orderId)
      PROVE  Grounded(e)
  <2>1. PICK job : job = orderWorker[w]
    OBVIOUS
  <2>2. job \in BusyOrderWorker /\ job.event \in Results /\ job.event \in Events
        /\ job # IdleOrderWorker
    BY <1>2, <2>1 DEF OrderTypeOK, BusyOrderWorker, IdleOrderWorker, Events
  <2>3. Grounded(job.event)
    BY <2>1, <2>2 DEF EventsGrounded, InFlight, HeldByOrder
  <2>4. t \notin {"PAYMENT_RESULT", "STOCK_DEDUCT_RESULT"}
    BY <1>2, <2>1, <2>2 DEF TopicsAt, NextStep, OnSuccess, OnFailure, Results, ResultTopics
  <2>5. t = "STOCK_DEDUCT_REQUESTED" => job.event.topic = "PAYMENT_RESULT" /\ job.event.success
    BY <1>2, <2>1, <2>2 DEF TopicsAt, NextStep, OnSuccess, OnFailure, Results, ResultTopics
  <2> QED BY <1>2, <2>1, <2>3, <2>4, <2>5 DEF Grounded, Request
<1>3. ASSUME NEW w \in StockWorkers, stockWorker[w].pc = "emit",
             e = Result(ResultTopicOf(stockWorker[w].event), stockWorker[w].event.orderId,
                        stockWorker[w].success)
      PROVE  Grounded(e)
  <2>1. PICK job : job = stockWorker[w]
    OBVIOUS
  <2>2. job \in BusyStockWorker /\ job.event \in Events /\ job # IdleStockWorker
    BY <1>3, <2>1 DEF StockTypeOK, BusyStockWorker, IdleStockWorker, Events
  <2>3. Grounded(job.event) /\ StockJob(job)
    BY <2>1, <2>2 DEF EventsGrounded, InFlight, HeldByStock, StockJobs
  <2>4. job.event.topic \in {"STOCK_CHECK_REQUESTED", "STOCK_DEDUCT_REQUESTED"}
    BY <2>2, <2>3 DEF StockJob
  <2>5. /\ e.orderId = job.event.orderId /\ e.success = job.success
        /\ e.topic = IF job.event.topic = "STOCK_CHECK_REQUESTED"
                     THEN "STOCK_CHECK_RESULT" ELSE "STOCK_DEDUCT_RESULT"
    BY <1>3, <2>1 DEF Result, ResultTopicOf
  <2>6. job.success /\ job.event.topic = "STOCK_DEDUCT_REQUESTED" => Deducted(job.event.orderId)
    BY <1>3, <2>1, <2>3 DEF StockJob
  <2> QED BY <2>3, <2>4, <2>5, <2>6 DEF Grounded
<1>4. ASSUME NEW w \in PaymentWorkers, paymentWorker[w].pc = "emit",
             e = Result("PAYMENT_RESULT", paymentWorker[w].event.orderId, paymentWorker[w].success)
      PROVE  Grounded(e)
  <2>1. PICK job : job = paymentWorker[w]
    OBVIOUS
  <2>2. /\ job \in BusyPaymentWorker /\ job.event \in Events /\ job # IdlePaymentWorker
        /\ job.payment \in PaymentIds /\ payments[job.payment] # NoPayment
    BY <1>4, <2>1 DEF PaymentTypeOK, BusyPaymentWorker, IdlePaymentWorker, Events
  <2>3. Grounded(job.event)
    BY <2>1, <2>2 DEF EventsGrounded, InFlight, HeldByPayment
  <2>4. job.success => Paid(job.event.orderId)
    BY <1>4, <2>1, <2>2 DEF PaymentJobs, Paid, PaidRows, Rows
  <2> QED BY <1>4, <2>1, <2>3, <2>4 DEF Grounded, Result
<1> QED BY <1>1, <1>2, <1>3, <1>4 DEF Sendable

\* Hence every event in flight stays grounded, wherever the step was made.
LEMMA EventsGroundedStep ==
  ASSUME IInv, Next
  PROVE  EventsGrounded'
<1>1. ASSUME NEW e \in Events, InFlight(e)'
      PROVE  Grounded(e)
  BY <1>1, StepEvents, SendableGrounded DEF IInv, EventsGrounded
<1> QED BY <1>1, GroundedStays DEF EventsGrounded

-----------------------------------------------------------------------------
(* The handlers and the rows they work on.                                 *)

\* POST /orders saves the order, then the saga, then sends its event.
LEMMA CreatingStep ==
  ASSUME IInv, Next
  PROVE  CreatingInOrder'
<1> USE DEF IInv, TypeOK
<1>1. CASE UNCHANGED creating
  BY <1>1, RowsStay DEF CreatingInOrder
<1>2. ASSUME NEW o \in Orders,
             CreateOrder(o) \/ CreateSaga(o) \/ CreateEmit(o) \/ CreateThrows(o)
      PROVE  CreatingInOrder'
  <2>1. CASE CreateOrder(o)
    BY <2>1 DEF CreateOrder, CreatingInOrder, OrderTypeOK
  <2>2. CASE CreateSaga(o)
    BY <2>2 DEF CreateSaga, CreatingInOrder, OrderTypeOK, NoSaga
  <2>3. CASE CreateEmit(o) \/ CreateThrows(o)
    BY <2>3 DEF CreateEmit, CreateThrows, CreatingInOrder, OrderTypeOK
  <2> QED BY <1>2, <2>1, <2>2, <2>3
<1>3. ASSUME NEW w \in OrderWorkers,
             \/ \E e \in Results : ReceiveResult(w, e)
             \/ OrderWorkerStep(w) \/ RedeliverResult(w)
      PROVE  UNCHANGED creating
  BY <1>3 DEF ReceiveResult, OrderWorkerStep, SaveSaga, SaveOrder, EmitNext, RedeliverResult
<1> QED BY <1>1, <1>2, <1>3 DEF Next, OrderNext, orderVars

\* COMPLETED is written by a handler that holds a successful deduction.
LEMMA CompletedStep ==
  ASSUME IInv, Next
  PROVE  CompletedMeansPaidAndDeducted'
<1> USE DEF IInv, TypeOK
<1>1. CASE UNCHANGED orders
  BY <1>1, PaidStays, DeductedStays DEF CompletedMeansPaidAndDeducted
<1>2. ASSUME NEW x \in Orders, CreateOrder(x)
      PROVE  \A o \in Orders : orders'[o] = "COMPLETED" => orders[o] = "COMPLETED"
  BY <1>2 DEF CreateOrder, OrderTypeOK
<1>3. ASSUME NEW w \in OrderWorkers, SaveOrder(w), NEW o \in Orders, orders'[o] = "COMPLETED"
      PROVE  Paid(o) /\ Deducted(o)
  <2> DEFINE e == orderWorker[w].event
  <2>1. CASE orders[o] = "COMPLETED"
    BY <2>1 DEF CompletedMeansPaidAndDeducted
  <2>2. CASE orders[o] # "COMPLETED"
    <3>1. e \in Results /\ e \in Events /\ orderWorker[w] # IdleOrderWorker
      BY <1>3 DEF SaveOrder, OrderTypeOK, BusyOrderWorker, IdleOrderWorker, Events
    <3>2. o = e.orderId /\ StatusAt(NextStep(e)) = "COMPLETED"
      BY <1>3, <2>2 DEF SaveOrder, OrderTypeOK
    <3>3. e.topic = "STOCK_DEDUCT_RESULT" /\ e.success
      BY <3>1, <3>2 DEF StatusAt, NextStep, OnSuccess, OnFailure, Results, ResultTopics
    <3>4. Grounded(e)
      BY <3>1 DEF EventsGrounded, InFlight, HeldByOrder
    <3> QED BY <3>2, <3>3, <3>4 DEF Grounded
  <2> QED BY <2>1, <2>2
<1>4. UNCHANGED orders \/ (\E x \in Orders : CreateOrder(x)) \/ \E w \in OrderWorkers : SaveOrder(w)
  BY DEF Next, OrderNext, OrderWorkerStep, orderVars, CreateSaga, CreateEmit, CreateThrows,
         ReceiveResult, SaveSaga, EmitNext, RedeliverResult
<1> QED BY <1>1, <1>2, <1>3, <1>4, PaidStays, DeductedStays DEF CompletedMeansPaidAndDeducted

\* Only product-service takes stock, and it does for a paid order.
LEMMA TouchedStep ==
  ASSUME IInv, Next
  PROVE  TouchedMeansPaid'
<1>1. ASSUME NEW o \in Orders, ~Untouched(o)'
      PROVE  Paid(o)
  <2>1. CASE taken'[o] = taken[o]
    <3>1. ~Untouched(o)
      BY <1>1, <2>1 DEF Untouched, Lines, Next
    <3> QED BY <3>1 DEF IInv, TouchedMeansPaid
  <2>2. CASE taken'[o] # taken[o]
    BY <2>2, TakenGrows DEF Next, stockVars
  <2> QED BY <2>1, <2>2
<1> QED BY <1>1, PaidStays DEF TouchedMeansPaid

\* A payment handler keeps to a row of its own until it has saved it.
LEMMA PaymentJobsStep ==
  ASSUME IInv, Next
  PROVE  PaymentJobs'
<1> USE DEF IInv, TypeOK
<1>1. CASE UNCHANGED paymentVars
  BY <1>1 DEF paymentVars, PaymentJobs
<1>2. ASSUME NEW w \in PaymentWorkers, NEW e \in Requests, NEW p \in PaymentIds,
             ReceivePayment(w, e, p)
      PROVE  PaymentJobs'
  <2> DEFINE job == [pc |-> "fire", event |-> e, payment |-> p, success |-> FALSE]
  <2>1. /\ paymentWorker' = [paymentWorker EXCEPT ![w] = job]
        /\ payments' = [payments EXCEPT ![p] = [orderId |-> e.orderId, status |-> "PENDING"]]
        /\ payments[p] = NoPayment
    BY <1>2 DEF ReceivePayment
  <2>2. \A v \in PaymentWorkers : paymentWorker[v] # IdlePaymentWorker =>
          /\ paymentWorker[v].payment # p
          /\ paymentWorker[v].payment \in PaymentIds
    BY <2>1 DEF PaymentTypeOK, BusyPaymentWorker
  <2>3. \A v \in PaymentWorkers : paymentWorker[v].pc # "idle" => paymentWorker[v] # IdlePaymentWorker
    BY DEF IdlePaymentWorker
  <2> QED BY <2>1, <2>2, <2>3 DEF PaymentTypeOK, PaymentJobs, IdlePaymentWorker
<1>3. ASSUME NEW w \in PaymentWorkers, NEW e \in Requests, ReceiveRefund(w, e)
      PROVE  PaymentJobs'
  <2>1. CASE UNCHANGED paymentWorker
    BY <1>3, <2>1 DEF ReceiveRefund, PaymentJobs
  <2>2. ASSUME NEW p \in Refundable(e.orderId),
               paymentWorker' = [paymentWorker EXCEPT ![w] =
                 [pc |-> "saveRefund", event |-> e, payment |-> p, success |-> TRUE]]
        PROVE  PaymentJobs'
    BY <1>3, <2>2 DEF ReceiveRefund, PaymentJobs, PaymentTypeOK, Refundable
  <2> QED BY <1>3, <2>1, <2>2 DEF ReceiveRefund
<1>4. ASSUME NEW w \in PaymentWorkers, PaymentWorkerStep(w) \/ RedeliverPaymentRequest(w)
      PROVE  PaymentJobs'
  <2> DEFINE job == paymentWorker[w]
  <2>1. /\ job \in BusyPaymentWorker /\ job # IdlePaymentWorker
        /\ job.payment \in PaymentIds /\ payments[job.payment] # NoPayment
        /\ payments[job.payment] \in Payment
    BY <1>4 DEF PaymentTypeOK, BusyPaymentWorker, IdlePaymentWorker, PaymentWorkerStep,
                FireSucceeds, FireFails, SavePayment, EmitPaymentResult, SaveRefund,
                RedeliverPaymentRequest
  <2>2. CASE FireSucceeds(w)
    BY <2>1, <2>2 DEF FireSucceeds, PaymentJobs, PaymentTypeOK, BusyPaymentWorker, IdlePaymentWorker
  <2>3. CASE FireFails(w)
    BY <2>1, <2>3 DEF FireFails, PaymentJobs, PaymentTypeOK, BusyPaymentWorker, IdlePaymentWorker
  <2>4. CASE SavePayment(w)
    BY <2>1, <2>4 DEF SavePayment, PaymentJobs, PaymentTypeOK, BusyPaymentWorker, IdlePaymentWorker, Payment
  <2>5. CASE SaveRefund(w)
    BY <2>1, <2>5 DEF SaveRefund, PaymentJobs, PaymentTypeOK, IdlePaymentWorker, Payment
  <2>6. CASE EmitPaymentResult(w) \/ RedeliverPaymentRequest(w)
    BY <2>6 DEF EmitPaymentResult, RedeliverPaymentRequest, PaymentJobs, PaymentTypeOK, IdlePaymentWorker
  <2> QED BY <1>4, <2>2, <2>3, <2>4, <2>5, <2>6 DEF PaymentWorkerStep
<1> QED BY <1>1, <1>2, <1>3, <1>4 DEF Next, PaymentNext, ReceivePaymentRequest

\* What a stock handler has done stays done while others make steps.
LEMMA StockJobKept ==
  ASSUME IInv, Next, NEW job, job = IdleStockWorker \/ job.event.orderId \in Orders, StockJob(job)
  PROVE  StockJob(job)'
<1>1. CASE job = IdleStockWorker
  BY <1>1 DEF StockJob, IdleStockWorker
<1>2. CASE job.event.orderId \in Orders
  <2>1. Lines(job.event.orderId)' = Lines(job.event.orderId)
    BY DEF Lines, Next
  <2> QED BY <1>2, <2>1, LineTakenStays, DeductedStays DEF StockJob
<1> QED BY <1>1, <1>2

\* A step concerns one worker: if its new job is sound, all are.
LEMMA StockJobReplaced ==
  ASSUME IInv, Next, NEW w \in StockWorkers, NEW job,
         stockWorker' = [stockWorker EXCEPT ![w] = job], StockJob(job)'
  PROVE  StockJobs'
<1>1. DOMAIN stockWorker = StockWorkers
  BY DEF IInv, TypeOK, StockTypeOK
<1>2. ASSUME NEW v \in StockWorkers, v # w
      PROVE  StockJob(stockWorker[v])'
  <2>1. PICK other : other = stockWorker[v]
    OBVIOUS
  <2>2. other = IdleStockWorker \/ other.event.orderId \in Orders
    BY <2>1 DEF IInv, TypeOK, StockTypeOK, BusyStockWorker, Requests
  <2>3. StockJob(other)
    BY <2>1 DEF IInv, StockJobs
  <2>4. StockJob(other)'
    BY <2>2, <2>3, StockJobKept
  <2>5. stockWorker'[v] = other
    BY <1>1, <1>2, <2>1
  <2> QED BY <2>4, <2>5
<1>3. stockWorker'[w] = job
  BY <1>1
<1> QED BY <1>2, <1>3 DEF StockJobs

\* A line that a handler has just decremented is taken, and so are the
\* lines before it.
LEMMA DeductLineTakes ==
  ASSUME IInv, Next, NEW w \in StockWorkers, DeductLine(w),
         NEW job, job = stockWorker[w], NEW o \in Orders, o = job.event.orderId,
         job.line \in Lines(o)
  PROVE  \A i \in Lines(o) : i < job.line + 1 => LineTaken(o, i)'
<1>1. /\ Lines(o) = 1..Len(cart[o].items)
      /\ Len(cart[o].items) \in Nat
  BY LinesOf DEF IInv, TypeOK
<1>2. StockJob(job) /\ job.pc = "deduct" /\ Decrement(o, job.line) /\ UNCHANGED <<removed, cart>>
  BY DEF IInv, StockJobs, DeductLine, products, Next
<1>3. ASSUME NEW i \in Lines(o), i < job.line
      PROVE  LineTaken(o, i)'
  BY <1>2, <1>3, LineTakenStays DEF StockJob
<1>4. LineTaken(o, job.line)'
  <2>1. cart[o].items[job.line].productId \in Products
    BY LinesOf DEF IInv, TypeOK
  <2> QED BY <1>2, <2>1, DecrementCounts DEF LineTaken, IInv, RowsRemain
<1> QED BY <1>1, <1>3, <1>4

\* A stock handler goes through the lines in order and takes each of them.
LEMMA StockJobsStep ==
  ASSUME IInv, Next
  PROVE  StockJobs'
<1>1. ASSUME stockWorker' = stockWorker
      PROVE  StockJobs'
  <2>1. ASSUME NEW v \in StockWorkers
        PROVE  StockJob(stockWorker[v])'
    <3>1. PICK job : job = stockWorker[v]
      OBVIOUS
    <3>2. job = IdleStockWorker \/ job.event.orderId \in Orders
      BY <3>1 DEF IInv, TypeOK, StockTypeOK, BusyStockWorker, Requests
    <3>3. StockJob(job)
      BY <3>1 DEF IInv, StockJobs
    <3>4. StockJob(job)'
      BY <3>2, <3>3, StockJobKept
    <3> QED BY <1>1, <3>1, <3>4
  <2> QED BY <2>1 DEF StockJobs
<1>2. ASSUME NEW w \in StockWorkers, NEW e \in Requests, ReceiveStockRequest(w, e)
      PROVE  StockJobs'
  <2>1. PICK job : job = [pc |-> FirstStep(e), event |-> e, line |-> 1, success |-> FALSE]
    OBVIOUS
  <2>2. /\ stockWorker' = [stockWorker EXCEPT ![w] = job]
        /\ e.topic \in {"STOCK_CHECK_REQUESTED", "STOCK_DEDUCT_REQUESTED"}
    BY <1>2, <2>1 DEF ReceiveStockRequest
  <2>3. e.orderId \in Orders /\ cart' = cart
    BY DEF Requests, Next
  <2>4. \A i \in Lines(e.orderId) : ~(i < 1)
    BY <2>3, LinesOf DEF IInv, TypeOK
  <2>5. StockJob(job)'
    BY <2>1, <2>2, <2>3, <2>4 DEF StockJob, FirstStep, Lines
  <2> QED BY <2>2, <2>5, StockJobReplaced
<1>3. ASSUME NEW w \in StockWorkers,
             StockWorkerStep(w) \/ DeductThrows(w) \/ RedeliverStockRequest(w)
      PROVE  StockJobs'
  <2>1. PICK job : job = stockWorker[w]
    OBVIOUS
  <2>2. /\ job \in BusyStockWorker /\ job # IdleStockWorker
        /\ job.event \in Requests /\ job.event.orderId \in Orders
        /\ job.line \in Lines(job.event.orderId)
    BY <1>3, <2>1
       DEF IInv, TypeOK, StockTypeOK, BusyStockWorker, IdleStockWorker, StockWorkerStep, CheckLine,
           DeductLine, EmitStockResult, DeductThrows, RedeliverStockRequest, Requests
  <2>3. PICK o \in Orders : o = job.event.orderId
    BY <2>2
  <2>4. StockJob(job)
    BY <2>1 DEF IInv, StockJobs
  <2>5. PICK next : next = NextLine(job)
    OBVIOUS
  <2>6. PICK failed : failed = Failed(job)
    OBVIOUS
  <2>7. StockJob(failed)'
    <3>1. /\ failed.pc = "emit" /\ failed.success = FALSE /\ failed.event = job.event
      BY <2>2, <2>6 DEF Failed, BusyStockWorker
    <3>2. job.event.topic \in {"STOCK_CHECK_REQUESTED", "STOCK_DEDUCT_REQUESTED"}
      BY <2>2, <2>4 DEF StockJob
    <3> QED BY <3>1, <3>2 DEF StockJob
  <2>8. CASE CheckLine(w)
    <3>1. job.pc = "check" /\ job.event.topic = "STOCK_CHECK_REQUESTED"
      BY <2>1, <2>4, <2>8 DEF CheckLine, StockJob
    <3>2. next.pc \in {"check", "emit"} /\ next.event = job.event
      BY <2>2, <2>5, <3>1 DEF NextLine, BusyStockWorker
    <3>3. StockJob(next)'
      BY <3>1, <3>2 DEF StockJob
    <3>4. \/ stockWorker' = [stockWorker EXCEPT ![w] = next]
          \/ stockWorker' = [stockWorker EXCEPT ![w] = failed]
      BY <2>1, <2>5, <2>6, <2>8 DEF CheckLine
    <3> QED BY <2>7, <3>3, <3>4, StockJobReplaced
  <2>9. CASE DeductLine(w)
    <3>1. job.pc = "deduct" /\ job.event.topic = "STOCK_DEDUCT_REQUESTED"
      BY <2>1, <2>4, <2>9 DEF DeductLine, StockJob
    <3>2. \A i \in Lines(o) : i < job.line + 1 => LineTaken(o, i)'
      BY <2>1, <2>2, <2>3, <2>9, DeductLineTakes
    <3>3. /\ Lines(o)' = Lines(o) /\ Lines(o) = 1..Len(cart[o].items)
          /\ Len(cart[o].items) \in Nat
      BY LinesOf DEF IInv, TypeOK, Lines, Next
    <3>4. CASE job.line = Len(cart[o].items)
      <4>1. next.pc = "emit" /\ next.event = job.event
        BY <2>2, <2>3, <2>5, <3>4 DEF NextLine, BusyStockWorker
      <4>2. Deducted(o)'
        BY <3>2, <3>3, <3>4 DEF Deducted
      <4> QED BY <2>1, <2>3, <2>5, <2>9, <3>1, <4>1, <4>2, StockJobReplaced DEF DeductLine, StockJob
    <3>5. CASE job.line # Len(cart[o].items)
      <4>1. next.pc = "deduct" /\ next.event = job.event /\ next.line = job.line + 1
        BY <2>2, <2>3, <2>5, <3>1, <3>5 DEF NextLine, BusyStockWorker
      <4>2. StockJob(next)'
        BY <2>3, <3>1, <3>2, <3>3, <4>1 DEF StockJob
      <4> QED BY <2>1, <2>5, <2>9, <4>2, StockJobReplaced DEF DeductLine
    <3> QED BY <3>4, <3>5
  <2>10. CASE DeductThrows(w)
    <3>1. stockWorker' = [stockWorker EXCEPT ![w] = failed]
      BY <2>1, <2>6, <2>10 DEF DeductThrows
    <3> QED BY <2>7, <3>1, StockJobReplaced
  <2>11. CASE EmitStockResult(w) \/ RedeliverStockRequest(w)
    <3>1. PICK idle : idle = IdleStockWorker
      OBVIOUS
    <3>2. StockJob(idle)'
      BY <3>1 DEF StockJob, IdleStockWorker
    <3>3. stockWorker' = stockWorker \/ stockWorker' = [stockWorker EXCEPT ![w] = idle]
      BY <2>11, <3>1 DEF EmitStockResult, RedeliverStockRequest
    <3> QED BY <1>1, <3>2, <3>3, StockJobReplaced
  <2> QED BY <1>3, <2>8, <2>9, <2>10, <2>11 DEF StockWorkerStep
<1>4. CASE OperatorStep
  BY <1>1, <1>4, OperatorMoves DEF IInv, TypeOK
<1> QED BY <1>1, <1>2, <1>3, <1>4 DEF Next, StockNext, stockVars

\* Only an operator removes a row, and remembers it.
LEMMA RowsRemainStep ==
  ASSUME IInv, Next
  PROVE  RowsRemain'
<1>1. CASE UNCHANGED <<listed, removed>>
  BY <1>1 DEF IInv, RowsRemain
<1>2. ASSUME NEW w \in StockWorkers,
             \/ \E e \in Requests : ReceiveStockRequest(w, e)
             \/ StockWorkerStep(w) \/ DeductThrows(w) \/ RedeliverStockRequest(w)
      PROVE  UNCHANGED <<listed, removed>>
  BY <1>2 DEF ReceiveStockRequest, StockWorkerStep, CheckLine, DeductLine, EmitStockResult,
              DeductThrows, RedeliverStockRequest, products
<1>3. CASE OperatorStep
  BY <1>3, OperatorMoves DEF IInv, TypeOK, RowsRemain
<1> QED BY <1>1, <1>2, <1>3 DEF Next, StockNext, stockVars

-----------------------------------------------------------------------------
(* The theorems.                                                           *)

\* Nothing is in flight, and nothing shown, in a fresh shop.
LEMMA InitInv == Init => IInv
<1> SUFFICES ASSUME Init PROVE IInv
  OBVIOUS
<1>1. TypeOK
  BY InitType
<1>2. EventsGrounded
  BY DEF Init, BusInit, OrderInit, StockInit, PaymentInit, EventsGrounded, InFlight,
         HeldByOrder, HeldByStock, HeldByPayment
<1>3. CreatingInOrder /\ CompletedMeansPaidAndDeducted
  BY DEF Init, OrderInit, CreatingInOrder, CompletedMeansPaidAndDeducted
<1>4. PaymentJobs /\ StockJobs
  BY DEF Init, StockInit, PaymentInit, PaymentJobs, StockJobs, StockJob, IdleStockWorker,
         IdlePaymentWorker
<1>5. TouchedMeansPaid /\ RowsRemain
  BY DEF Init, StockInit, TouchedMeansPaid, Untouched, RowsRemain
<1> QED BY <1>1, <1>2, <1>3, <1>4, <1>5 DEF IInv

\* Every step of every service keeps the invariant.
LEMMA NextInv == IInv /\ [Next]_vars => IInv'
<1>1. ASSUME IInv, UNCHANGED vars PROVE IInv'
  <2>1. TypeOK'
    BY <1>1, NextType DEF IInv
  <2> QED BY <1>1, <2>1 DEF vars, orderVars, stockVars, paymentVars, IInv, EventsGrounded, Grounded,
        InFlight, HeldByOrder, HeldByStock, HeldByPayment, CreatingInOrder, PaymentJobs,
        StockJobs, StockJob, TouchedMeansPaid, RowsRemain, CompletedMeansPaidAndDeducted,
        Paid, PaidRows, Rows, Deducted, LineTaken, Untouched, Lines
<1>2. ASSUME IInv, Next PROVE IInv'
  <2>1. TypeOK'
    BY <1>2, NextType DEF IInv
  <2> QED BY <1>2, <2>1, EventsGroundedStep, CreatingStep, PaymentJobsStep, StockJobsStep,
             TouchedStep, RowsRemainStep, CompletedStep DEF IInv
<1> QED BY <1>1, <1>2

\* The invariant holds in every reachable state.
THEOREM Invariance == Spec => []IInv
BY InitInv, NextInv, PTL DEF Spec

\* Whatever is delivered again, lost or interrupted, for any number of
\* orders and replicas: COMPLETED is shown only for an order that a payment
\* row says is paid and whose lines were all taken from stock.
THEOREM CompletedIsPaidAndDeducted == Spec => []CompletedMeansPaidAndDeducted
<1>1. IInv => CompletedMeansPaidAndDeducted
  BY DEF IInv
<1> QED BY <1>1, Invariance, PTL

\* No stock is asked for, or taken, for an order that nobody paid.
THEOREM DeductionFollowsPayment == Spec => []DeductOnlyAfterPayment
<1>1. IInv => DeductOnlyAfterPayment
  <2>1. SUFFICES ASSUME IInv, NEW o \in Orders,
                        InFlight(Request("STOCK_DEDUCT_REQUESTED", o)) \/ ~Untouched(o)
                 PROVE  Paid(o)
    BY DEF DeductOnlyAfterPayment
  <2>2. Request("STOCK_DEDUCT_REQUESTED", o) \in Events
    BY DEF Request, Events, Requests, RequestTopics
  <2> QED BY <2>1, <2>2 DEF IInv, EventsGrounded, Grounded, Request, TouchedMeansPaid
<1> QED BY <1>1, Invariance, PTL

\* No handler of order-service ever drops an event for want of a row.
THEOREM NoEventIsOrphaned == Spec => []NoOrphanEvent
<1>1. IInv => NoOrphanEvent
  BY DEF IInv, EventsGrounded, Grounded, NoOrphanEvent
<1> QED BY <1>1, Invariance, PTL

=============================================================================

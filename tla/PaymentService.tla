--------------------------- MODULE PaymentService ---------------------------
(***************************************************************************)
(* payment-service: PaymentsService.processPayment and refundPayment       *)
(* behind PaymentEventsConsumer, with the payments table and the payment   *)
(* gateway.  The gateway is mocked by the code; what it remembers of a     *)
(* charge once it has issued a transaction id is `charges`.                *)
(***************************************************************************)
EXTENDS EventBus

CONSTANTS PaymentWorkers,   \* consumer replicas of payment-service
          PaymentIds        \* ids for rows of the payments table; bounds
                            \* how many rows a behaviour can create

VARIABLES payments,       \* payments[p]: row p
          charges,        \* charges[o]: transactions the gateway made for o
          paymentWorker   \* what each consumer replica is doing

paymentVars == <<payments, charges, paymentWorker>>

ForceFail == "__force_fail__"

PaymentStatus == {"PENDING", "COMPLETED", "FAILED", "REFUNDED"}

Payment   == [orderId : Orders, status : PaymentStatus]
NoPayment == [status |-> "NONE"]

IdlePaymentWorker == [pc |-> "idle"]
BusyPaymentWorker == [pc : {"fire", "save", "emit", "saveRefund"}, event : Requests,
                      payment : PaymentIds, success : BOOLEAN]

-----------------------------------------------------------------------------
(* processPayment.  It inserts a PENDING row whatever rows the order has,  *)
(* calls the gateway through the circuit breaker, saves the outcome and    *)
(* sends it.                                                               *)

ReceivePayment(w, e, p) ==
  /\ paymentWorker[w] = IdlePaymentWorker
  /\ e.topic = "PAYMENT_REQUESTED"
  /\ Consume(e)
  /\ payments[p] = NoPayment
  /\ payments' = [payments EXCEPT ![p] = [orderId |-> e.orderId, status |-> "PENDING"]]
  /\ paymentWorker' = [paymentWorker EXCEPT ![w] =
                         [pc |-> "fire", event |-> e, payment |-> p, success |-> FALSE]]
  /\ UNCHANGED <<charges, faults>>

\* The gateway issues a transaction id.
FireSucceeds(w) ==
  LET job == paymentWorker[w] IN
  /\ job.pc = "fire"
  /\ cart[job.event.orderId].userId # ForceFail
  /\ charges' = [charges EXCEPT ![job.event.orderId] = @ + 1]
  /\ paymentWorker' = [paymentWorker EXCEPT ![w] = [job EXCEPT !.pc = "save", !.success = TRUE]]
  /\ UNCHANGED <<payments, bus, faults>>

\* The gateway refuses, or the breaker is open and does not call it: that
\* can happen to every user.
FireFails(w) ==
  LET job == paymentWorker[w] IN
  /\ job.pc = "fire"
  /\ paymentWorker' = [paymentWorker EXCEPT ![w] = [job EXCEPT !.pc = "save"]]
  /\ UNCHANGED <<payments, charges, bus, faults>>

\* Faulty: the row is saved as paid whatever the gateway said.
SavePaymentAsPaid(w) ==
  LET job == paymentWorker[w] IN
  /\ job.pc = "save"
  /\ payments' = [payments EXCEPT ![job.payment].status = "COMPLETED"]
  /\ paymentWorker' = [paymentWorker EXCEPT ![w].pc = "emit"]
  /\ UNCHANGED <<charges, bus, faults>>

SavePayment(w) ==
  LET job == paymentWorker[w] IN
  /\ job.pc = "save"
  /\ payments' = [payments EXCEPT ![job.payment].status =
                    IF job.success THEN "COMPLETED" ELSE "FAILED"]
  /\ paymentWorker' = [paymentWorker EXCEPT ![w].pc = "emit"]
  /\ UNCHANGED <<charges, bus, faults>>

\* Faulty: a refusal is recorded but not reported.
EmitPaymentSuccess(w) ==
  LET job == paymentWorker[w] IN
  /\ job.pc = "emit"
  /\ Emit(IF job.success THEN {Result("PAYMENT_RESULT", job.event.orderId, TRUE)} ELSE {})
  /\ paymentWorker' = [paymentWorker EXCEPT ![w] = IdlePaymentWorker]
  /\ UNCHANGED <<payments, charges>>

EmitPaymentResult(w) ==
  LET job == paymentWorker[w] IN
  /\ job.pc = "emit"
  /\ Emit({Result("PAYMENT_RESULT", job.event.orderId, job.success)})
  /\ paymentWorker' = [paymentWorker EXCEPT ![w] = IdlePaymentWorker]
  /\ UNCHANGED <<payments, charges>>

-----------------------------------------------------------------------------
(* refundPayment.  It refunds one COMPLETED row of the order and sends     *)
(* nothing.                                                                *)

Refundable(o) == {p \in PaymentIds : /\ payments[p].status = "COMPLETED"
                                     /\ payments[p].orderId = o}

ReceiveRefund(w, e) ==
  /\ paymentWorker[w] = IdlePaymentWorker
  /\ e.topic = "PAYMENT_REFUND_REQUESTED"
  /\ Consume(e)
  /\ \/ /\ Refundable(e.orderId) = {}
        /\ UNCHANGED paymentWorker
     \/ \E p \in Refundable(e.orderId) :
          paymentWorker' = [paymentWorker EXCEPT ![w] =
            [pc |-> "saveRefund", event |-> e, payment |-> p, success |-> TRUE]]
  /\ UNCHANGED <<payments, charges, faults>>

SaveRefund(w) ==
  LET job == paymentWorker[w] IN
  /\ job.pc = "saveRefund"
  /\ payments' = [payments EXCEPT ![job.payment].status = "REFUNDED"]
  /\ paymentWorker' = [paymentWorker EXCEPT ![w] = IdlePaymentWorker]
  /\ UNCHANGED <<charges, bus, faults>>

\* The event is delivered again; see RedeliverResult in OrderService.
RedeliverPaymentRequest(w) ==
  /\ paymentWorker[w] # IdlePaymentWorker
  /\ Redeliver(paymentWorker[w].event)
  /\ \/ paymentWorker' = [paymentWorker EXCEPT ![w] = IdlePaymentWorker]
     \/ UNCHANGED paymentWorker
  /\ UNCHANGED <<payments, charges>>

-----------------------------------------------------------------------------
PaymentInit == /\ payments = [p \in PaymentIds |-> NoPayment]
               /\ charges = [o \in Orders |-> 0]
               /\ paymentWorker = [w \in PaymentWorkers |-> IdlePaymentWorker]

PaymentWorkerStep(w) == \/ FireSucceeds(w) \/ FireFails(w) \/ SavePayment(w)
                        \/ EmitPaymentResult(w) \/ SaveRefund(w)

ReceivePaymentRequest(w, e) == \/ \E p \in PaymentIds : ReceivePayment(w, e, p)
                               \/ ReceiveRefund(w, e)

PaymentNext == \E w \in PaymentWorkers :
                 \/ \E e \in Requests : ReceivePaymentRequest(w, e)
                 \/ PaymentWorkerStep(w)
                 \/ RedeliverPaymentRequest(w)

PaymentTypeOK ==
  /\ payments \in [PaymentIds -> Payment \cup {NoPayment}]
  /\ charges \in [Orders -> Nat]
  /\ paymentWorker \in [PaymentWorkers -> BusyPaymentWorker \cup {IdlePaymentWorker}]
  /\ \A w \in PaymentWorkers :
       paymentWorker[w] # IdlePaymentWorker => payments[paymentWorker[w].payment] # NoPayment

=============================================================================

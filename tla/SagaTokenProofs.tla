-------------------------- MODULE SagaTokenProofs --------------------------
(***************************************************************************)
(* Theorems about OmniSaga as long as nothing is delivered twice: the saga *)
(* of an order is then a token that is at one spot at a time.  A spot is   *)
(* an event that waits, a replica, or POST /orders; which effects the saga *)
(* has had is known from where the token is.                               *)
(***************************************************************************)
EXTENDS OmniSagaProofs, FiniteSetTheorems

-----------------------------------------------------------------------------
(* Spots.                                                                  *)

SagaEvents == {e \in Events : e.topic \notin NoticeTopics}

Spots == ({"bus"} \X SagaEvents) \cup ({"post"} \X Orders) \cup ({"order"} \X OrderWorkers)
           \cup ({"stock"} \X StockWorkers) \cup ({"payment"} \X PaymentWorkers)

NoJob == [pc |-> "idle"]

FirstEvent(o) == Request("STOCK_CHECK_REQUESTED", o)

\* What goes on at spot p.
JobAt(p) ==
  CASE p[1] = "bus"     -> IF bus[p[2]] > 0 THEN [pc |-> "waits", event |-> p[2]] ELSE NoJob
    [] p[1] = "post"    -> IF creating[p[2]] \in {"none", "saveSaga", "emit"}
                           THEN [pc |-> creating[p[2]], event |-> FirstEvent(p[2])] ELSE NoJob
    [] p[1] = "order"   -> orderWorker[p[2]]
    [] p[1] = "stock"   -> stockWorker[p[2]]
    [] p[1] = "payment" -> paymentWorker[p[2]]

\* The token of order o is at p.
HasToken(p, o) == JobAt(p).pc # "idle" /\ JobAt(p).event.orderId = o

-----------------------------------------------------------------------------
(* What is known from where the token is.                                  *)

\* What the databases and the bus say about o.
Data(o) == [rows |-> Rows(o), money |-> Money(o), charges |-> charges[o], taken |-> taken[o],
            status |-> orders[o], step |-> sagas[o].currentStep,
            notices |-> bus[Request("COMPLETED", o)] + bus[Request("FAILED", o)]]

Unpaid(d)       == d.rows = {} /\ d.charges = 0
NothingTaken(d) == \A i \in DOMAIN d.taken : d.taken[i] = 0

BeforePayment   == {"STOCK_CHECK_REQUESTED", "STOCK_CHECK_RESULT", "PAYMENT_REQUESTED"}
BeforeDeduction == BeforePayment \cup {"PAYMENT_RESULT", "STOCK_DEDUCT_REQUESTED"}
AfterPayment    == {"STOCK_DEDUCT_REQUESTED", "STOCK_DEDUCT_RESULT", "PAYMENT_REFUND_REQUESTED"}

\* The effects of the saga up to the event e.
Effects(e, d) ==
  /\ e.topic \in BeforePayment => Unpaid(d)
  /\ e.topic \in BeforeDeduction => NothingTaken(d)
  /\ e.topic = "PAYMENT_RESULT" => IF e.success THEN d.money = "charged" ELSE d.charges = 0
  /\ e.topic \in AfterPayment => d.money = "charged"
  /\ e.topic # "PAYMENT_REFUND_REQUESTED" => d.notices = 0

\* The step of the saga row at which e is sent, or answered.
StepOf(t) == CASE t \in {"STOCK_CHECK_REQUESTED", "STOCK_CHECK_RESULT"} -> "STOCK_CHECK_REQUESTED"
               [] t \in {"PAYMENT_REQUESTED", "PAYMENT_RESULT"} -> "PAYMENT_REQUESTED"
               [] OTHER -> "STOCK_DEDUCT_REQUESTED"

\* What the customer and the saga row show up to the event e.
Shown(e, d) == IF e.topic = "PAYMENT_REFUND_REQUESTED"
               THEN d.status = "FAILED" /\ d.step = "COMPENSATING"
               ELSE d.status = "PROCESSING" /\ d.step = StepOf(e.topic)

PostFits(job, d) ==
  /\ Effects(job.event, d)
  /\ d.status = IF job.pc = "none" THEN "NONE" ELSE "PROCESSING"
  /\ d.step = IF job.pc = "emit" THEN "STOCK_CHECK_REQUESTED" ELSE "NONE"

OrderFits(job, d) ==
  LET step == NextStep(job.event) IN
  /\ Effects(job.event, d)
  /\ d.status = IF job.pc = "emit" /\ step \in EndSteps THEN StatusAt(step) ELSE "PROCESSING"
  /\ d.step = IF job.pc = "saveSaga" THEN StepOf(job.event.topic) ELSE step
  /\ job.pc = "saveSaga" => job.saga.currentStep = step
  /\ job.pc = "saveOrder" => step \in EndSteps

StockFits(job, d) ==
  /\ Shown(job.event, d)
  /\ d.notices = 0
  /\ job.event.topic = "STOCK_CHECK_REQUESTED" => Effects(job.event, d)
  /\ job.event.topic = "STOCK_DEDUCT_REQUESTED" =>
       /\ d.money = "charged"
       /\ job.pc = "deduct" => \A i \in DOMAIN d.taken : i >= job.line => d.taken[i] = 0

PaymentFits(job, d) ==
  /\ Shown(job.event, d)
  /\ IF job.pc = "saveRefund"
     THEN job.event.topic = "PAYMENT_REFUND_REQUESTED" /\ Effects(job.event, d)
     ELSE /\ job.event.topic = "PAYMENT_REQUESTED"
          /\ NothingTaken(d) /\ d.notices = 0
          /\ job.pc = "fire" => ~job.success
          /\ ~job.success => d.charges = 0
          /\ job.pc = "emit" /\ job.success => d.money = "charged"

Fits(kind, job, d) ==
  /\ kind = "bus" => Effects(job.event, d) /\ Shown(job.event, d)
  /\ kind = "post" => PostFits(job, d)
  /\ kind = "order" => OrderFits(job, d)
  /\ kind = "stock" => StockFits(job, d)
  /\ kind = "payment" => PaymentFits(job, d)

\* Each effect at most once, wherever the token is or has been lost.
Once(d) == /\ \A p, q \in d.rows : p = q
           /\ d.charges <= 1
           /\ \A i \in DOMAIN d.taken : d.taken[i] <= 1
           /\ d.notices <= 1

\* The ends of a saga: sold, turned down, or charged and refunded.
Ended(d) ==
  \/ d.status = "COMPLETED" /\ d.step = "COMPLETED" /\ d.money = "charged"
  \/ d.status = "FAILED" /\ d.step = "FAILED" /\ d.charges = 0 /\ NothingTaken(d)
  \/ d.status = "FAILED" /\ d.step = "COMPENSATING" /\ d.money = "refunded" /\ NothingTaken(d)

\* The job is about a deduction that has failed.
Undone(job) ==
  \/ job.event.topic = "STOCK_DEDUCT_REQUESTED" /\ job.pc = "emit" /\ ~job.success
  \/ job.event.topic = "STOCK_DEDUCT_RESULT" /\ ~job.event.success
  \/ job.event.topic = "PAYMENT_REFUND_REQUESTED"

\* Without faults only the demo endpoint fails a deduction, and takes nothing.
Clean(job, d) == NoFaults /\ Undone(job) => NothingTaken(d)

\* The last conjunct: without faults the token is not lost before the end.
Token(o) ==
  /\ \A p, r \in Spots : HasToken(p, o) /\ HasToken(r, o) => p = r
  /\ \A p \in Spots : HasToken(p, o) =>
       Fits(p[1], JobAt(p), Data(o)) /\ Clean(JobAt(p), Data(o))
  /\ Once(Data(o))
  /\ NoFaults => Ended(Data(o)) \/ \E p \in Spots : HasToken(p, o)

\* No saga event waits in two copies.
SingleCopies == \A e \in SagaEvents : bus[e] <= 1

TInv == SingleCopies /\ \A o \in Orders : Token(o)

-----------------------------------------------------------------------------
(* How the token moves.                                                    *)

\* A step of the saga of o: the token goes from one spot to another, or
\* stays there, or gets lost.
LEMMA TokenMoves ==
  ASSUME TInv, SingleCopies', NEW o \in Orders, NEW from \in Spots, NEW to \in Spots,
         HasToken(from, o), \A q \in Orders \ {o} : ~HasToken(to, q),
         \A p \in Spots \ {from, to} : JobAt(p)' = JobAt(p),
         from # to => JobAt(from)'.pc = "idle",
         JobAt(to)'.pc # "idle" =>
           /\ JobAt(to)'.event.orderId = o
           /\ Fits(to[1], JobAt(to)', Data(o)') /\ Clean(JobAt(to), Data(o))',
         NoFaults' => NoFaults,
         NoFaults' => JobAt(to)'.pc # "idle" \/ Ended(Data(o)'),
         Once(Data(o)'),
         \A q \in Orders \ {o} : Data(q)' = Data(q)
  PROVE  TInv'
<1>1. \A p \in Spots \ {from} : ~HasToken(p, o)
  BY DEF TInv, Token
<1>2. Token(o)'
  <2>1. ASSUME NEW p \in Spots, HasToken(p, o)' PROVE p = to
    BY <1>1, <2>1 DEF HasToken
  <2>2. ASSUME NEW p \in Spots, HasToken(p, o)'
        PROVE  Fits(p[1], JobAt(p)', Data(o)') /\ Clean(JobAt(p), Data(o))'
    BY <2>1, <2>2 DEF HasToken
  <2>3. NoFaults' => Ended(Data(o)') \/ HasToken(to, o)'
    BY DEF HasToken
  <2> QED BY <2>1, <2>2, <2>3 DEF Token
<1>3. ASSUME NEW q \in Orders \ {o} PROVE Token(q)'
  <2>1. Token(q)
    BY DEF TInv
  <2>2. ASSUME NEW p \in Spots, HasToken(p, q)' PROVE JobAt(p)' = JobAt(p) /\ HasToken(p, q)
    BY <2>2 DEF HasToken
  <2>3. Data(q)' = Data(q)
    OBVIOUS
  <2>4. ASSUME NEW p \in Spots, HasToken(p, q)'
        PROVE  Fits(p[1], JobAt(p)', Data(q)') /\ Clean(JobAt(p), Data(q))'
    BY <2>1, <2>2, <2>3, <2>4 DEF Token, Clean
  <2>5. Once(Data(q)')
    BY <2>1, <2>3 DEF Token
  <2>6. ASSUME NoFaults' PROVE Ended(Data(q)') \/ \E p \in Spots : HasToken(p, q)'
    <3>1. CASE Ended(Data(q))
      BY <2>3, <3>1
    <3>2. ASSUME NEW p \in Spots, HasToken(p, q) PROVE HasToken(p, q)'
      <4>1. p \notin {from, to}
        BY <3>2 DEF HasToken
      <4> QED BY <3>2, <4>1 DEF HasToken
    <3> QED BY <2>1, <2>6, <3>1, <3>2 DEF Token
  <2> QED BY <2>1, <2>2, <2>4, <2>5, <2>6 DEF Token
<1> QED BY <1>2, <1>3 DEF TInv

\* A step that no order notices.
LEMMA TokenStays ==
  ASSUME TInv, UNCHANGED bus, \A p \in Spots : JobAt(p)' = JobAt(p),
         \A q \in Orders : Data(q)' = Data(q), NoFaults' => NoFaults
  PROVE  TInv'
<1>1. \A q \in Orders, p \in Spots : HasToken(p, q)' = HasToken(p, q)
  BY DEF HasToken
<1>2. ASSUME NEW q \in Orders PROVE Token(q)'
  <2>1. Token(q) /\ Data(q)' = Data(q)
    BY DEF TInv
  <2> QED BY <1>1, <2>1 DEF Token, Clean
<1> QED BY <1>2 DEF TInv, SingleCopies

-----------------------------------------------------------------------------
(* Spots and data, one by one.                                             *)

\* A spot is of one of five kinds.
LEMMA SpotIs ==
  ASSUME NEW p \in Spots
  PROVE  /\ p = <<p[1], p[2]>>
         /\ p[1] \in {"bus", "post", "order", "stock", "payment"}
         /\ p[1] = "bus" => p[2] \in SagaEvents
         /\ p[1] = "post" => p[2] \in Orders
         /\ p[1] = "order" => p[2] \in OrderWorkers
         /\ p[1] = "stock" => p[2] \in StockWorkers
         /\ p[1] = "payment" => p[2] \in PaymentWorkers
BY DEF Spots

LEMMA SpotsOf ==
  /\ \A e \in SagaEvents : <<"bus", e>> \in Spots
  /\ \A o \in Orders : <<"post", o>> \in Spots
  /\ \A w \in OrderWorkers : <<"order", w>> \in Spots
  /\ \A w \in StockWorkers : <<"stock", w>> \in Spots
  /\ \A w \in PaymentWorkers : <<"payment", w>> \in Spots
BY DEF Spots

\* What goes on at a spot depends on its part of the state only.
LEMMA JobKept ==
  ASSUME NEW p \in Spots,
         p[1] = "bus" => bus'[p[2]] = bus[p[2]],
         p[1] = "post" => creating'[p[2]] = creating[p[2]],
         p[1] = "order" => orderWorker'[p[2]] = orderWorker[p[2]],
         p[1] = "stock" => stockWorker'[p[2]] = stockWorker[p[2]],
         p[1] = "payment" => paymentWorker'[p[2]] = paymentWorker[p[2]]
  PROVE  JobAt(p)' = JobAt(p)
BY SpotIs DEF JobAt

LEMMA DataKept ==
  ASSUME NEW q \in Orders, Rows(q)' = Rows(q), Money(q)' = Money(q),
         charges'[q] = charges[q], taken'[q] = taken[q], orders'[q] = orders[q],
         sagas'[q] = sagas[q],
         bus'[Request("COMPLETED", q)] = bus[Request("COMPLETED", q)],
         bus'[Request("FAILED", q)] = bus[Request("FAILED", q)]
  PROVE  Data(q)' = Data(q)
BY DEF Data

\* Requests are events, and announcements are no saga events.
LEMMA RequestIs ==
  ASSUME NEW o \in Orders, NEW t \in RequestTopics \cup NoticeTopics
  PROVE  /\ Request(t, o) \in Events
         /\ Request(t, o).orderId = o /\ Request(t, o).topic = t
         /\ Request(t, o) \in SagaEvents <=> t \notin NoticeTopics
BY DEF Request, Requests, Events, SagaEvents

\* A saga event is taken from the bus: it was the token, and the only copy.
LEMMA TakenFromBus ==
  ASSUME TypeOK, TInv, NEW e \in SagaEvents, Consume(e)
  PROVE  /\ HasToken(<<"bus", e>>, e.orderId)
         /\ Effects(e, Data(e.orderId)) /\ Shown(e, Data(e.orderId))
         /\ Clean([pc |-> "waits", event |-> e], Data(e.orderId))
         /\ JobAt(<<"bus", e>>)'.pc = "idle"
         /\ SingleCopies'
         /\ \A f \in Events \ {e} : bus'[f] = bus[f]
         /\ \A q \in Orders : /\ bus'[Request("COMPLETED", q)] = bus[Request("COMPLETED", q)]
                             /\ bus'[Request("FAILED", q)] = bus[Request("FAILED", q)]
<1>1. e \in Events /\ e.orderId \in Orders /\ bus \in [Events -> Nat]
  BY DEF SagaEvents, Events, Requests, Results, TypeOK, BusTypeOK
<1>2. bus[e] = 1
  BY <1>1 DEF Consume, TInv, SingleCopies
<1>3. bus'[e] = 0 /\ \A f \in Events \ {e} : bus'[f] = bus[f]
  BY <1>1, <1>2 DEF Consume
<1>4. SingleCopies'
  BY <1>3 DEF TInv, SingleCopies, SagaEvents
<1>5. HasToken(<<"bus", e>>, e.orderId) /\ JobAt(<<"bus", e>>) = [pc |-> "waits", event |-> e]
  BY <1>2 DEF HasToken, JobAt
<1>6. JobAt(<<"bus", e>>)'.pc = "idle"
  BY <1>3 DEF JobAt, NoJob
<1>7. /\ Fits("bus", [pc |-> "waits", event |-> e], Data(e.orderId))
      /\ Clean([pc |-> "waits", event |-> e], Data(e.orderId))
  BY <1>1, <1>5, SpotsOf DEF TInv, Token
<1>8. ASSUME NEW q \in Orders
      PROVE  /\ bus'[Request("COMPLETED", q)] = bus[Request("COMPLETED", q)]
             /\ bus'[Request("FAILED", q)] = bus[Request("FAILED", q)]
  BY <1>3, RequestIs DEF SagaEvents, NoticeTopics
<1> QED BY <1>3, <1>4, <1>5, <1>6, <1>7, <1>8 DEF Fits

\* A fault counts.
LEMMA FaultCounts ==
  ASSUME TypeOK, NEW k \in FaultKinds, Fault(k)
  PROVE  ~NoFaults'
BY DEF TypeOK, BusTypeOK, Fault, NoFaults

\* Events of o are sent from a spot off the bus that has the token of o.
LEMMA SentToBus ==
  ASSUME TypeOK, TInv, NEW o \in Orders, NEW from \in Spots, from[1] # "bus",
         HasToken(from, o), NEW S \in SUBSET Events, \A e \in S : e.orderId = o, Emit(S)
  PROVE  /\ SingleCopies'
         /\ \A f \in Events \ S : bus'[f] = bus[f]
         /\ \A f \in Events : bus'[f] \in {bus[f], bus[f] + 1}
         /\ NoFaults' => \A f \in S : bus'[f] > 0
<1>1. PICK sent \in SUBSET S : Deliver(sent) /\ (NoFaults' => sent = S)
  <2>1. CASE Deliver(S) /\ UNCHANGED faults
    BY <2>1
  <2>2. CASE Fault("lose") /\ \E sent \in (SUBSET S) \ {S} : Deliver(sent)
    BY <2>2, FaultCounts DEF FaultKinds
  <2> QED BY <2>1, <2>2 DEF Emit
<1>2. bus \in [Events -> Nat]
  BY DEF TypeOK, BusTypeOK
<1>3. /\ \A f \in Events \ S : bus'[f] = bus[f]
      /\ \A f \in Events : bus'[f] \in {bus[f], bus[f] + 1}
      /\ NoFaults' => \A f \in S : bus'[f] > 0
  BY <1>1, <1>2 DEF Deliver
<1>4. ASSUME NEW f \in SagaEvents PROVE bus'[f] <= 1
  <2>1. f \in Events /\ bus[f] <= 1 /\ bus[f] \in Nat
    BY <1>2 DEF SagaEvents, TInv, SingleCopies
  <2>2. CASE f \in S
    <3>1. ~HasToken(<<"bus", f>>, o)
      BY SpotsOf DEF TInv, Token
    <3>2. bus[f] = 0
      BY <2>1, <2>2, <3>1 DEF HasToken, JobAt
    <3> QED BY <1>3, <2>1, <3>2
  <2>3. CASE f \notin S
    BY <1>3, <2>1, <2>3
  <2> QED BY <2>2, <2>3
<1> QED BY <1>3, <1>4 DEF SingleCopies

-----------------------------------------------------------------------------
(* The three kinds of steps a saga takes.                                  *)

\* Its handler goes on.
LEMMA TokenWorks ==
  ASSUME TInv, UNCHANGED bus, NEW o \in Orders, NEW s \in Spots, s[1] # "bus", HasToken(s, o),
         \A p \in Spots \ {s} : p[1] # "bus" => JobAt(p)' = JobAt(p),
         JobAt(s)'.pc # "idle" =>
           /\ JobAt(s)'.event.orderId = o
           /\ Fits(s[1], JobAt(s)', Data(o)') /\ Clean(JobAt(s), Data(o))',
         NoFaults' => NoFaults,
         NoFaults' => JobAt(s)'.pc # "idle" \/ Ended(Data(o)'),
         Once(Data(o)'),
         \A q \in Orders \ {o} : Data(q)' = Data(q)
  PROVE  TInv'
<1>1. \A p \in Spots : p[1] = "bus" => JobAt(p)' = JobAt(p)
  BY DEF JobAt
<1>2. SingleCopies'
  BY DEF TInv, SingleCopies
<1>3. \A q \in Orders \ {o} : ~HasToken(s, q)
  BY DEF HasToken
<1> QED BY <1>1, <1>2, <1>3, TokenMoves

\* A handler takes the event.
LEMMA TokenTaken ==
  ASSUME TypeOK, TInv, NEW e \in SagaEvents, Consume(e), NEW s \in Spots, s[1] # "bus",
         JobAt(s).pc = "idle",
         \A p \in Spots \ {s} : p[1] # "bus" => JobAt(p)' = JobAt(p),
         JobAt(s)'.pc # "idle" =>
           /\ JobAt(s)'.event.orderId = e.orderId
           /\ Fits(s[1], JobAt(s)', Data(e.orderId)') /\ Clean(JobAt(s), Data(e.orderId))',
         NoFaults' => NoFaults,
         NoFaults' => JobAt(s)'.pc # "idle",
         Once(Data(e.orderId)'),
         \A q \in Orders \ {e.orderId} : Data(q)' = Data(q)
  PROVE  TInv'
<1> DEFINE from == <<"bus", e>>
<1>1. e.orderId \in Orders /\ from \in Spots /\ from # s
  BY SpotsOf DEF SagaEvents, Events, Requests, Results
<1>2. HasToken(from, e.orderId) /\ JobAt(from)'.pc = "idle" /\ SingleCopies'
      /\ \A f \in Events \ {e} : bus'[f] = bus[f]
  BY TakenFromBus
<1>3. ASSUME NEW p \in Spots \ {from, s} PROVE JobAt(p)' = JobAt(p)
  <2>1. CASE p[1] = "bus"
    <3>1. p[2] \in Events \ {e}
      BY <2>1, SpotIs DEF SagaEvents
    <3> QED BY <1>2, <2>1, <3>1 DEF JobAt
  <2>2. CASE p[1] # "bus"
    BY <2>2
  <2> QED BY <2>1, <2>2
<1>4. \A q \in Orders : ~HasToken(s, q)
  BY DEF HasToken
<1> HIDE DEF from
<1> QED BY <1>1, <1>2, <1>3, <1>4, TokenMoves

\* A handler ends with sending events, among them at most one of the saga.
LEMMA TokenSent ==
  ASSUME TypeOK, TInv, NEW o \in Orders, NEW s \in Spots, s[1] # "bus", HasToken(s, o),
         NEW S \in SUBSET Events, \A e \in S : e.orderId = o, Emit(S),
         \A e, f \in S : e \in SagaEvents /\ f \in SagaEvents => e = f,
         \A p \in Spots \ {s} : p[1] # "bus" => JobAt(p)' = JobAt(p),
         JobAt(s)'.pc = "idle",
         \A e \in S : e \in SagaEvents =>
           /\ Effects(e, Data(o)') /\ Shown(e, Data(o)')
           /\ NoFaults' /\ Undone([pc |-> "waits", event |-> e]) => NothingTaken(Data(o)'),
         NoFaults' => NoFaults,
         NoFaults' => Ended(Data(o)') \/ \E e \in S : e \in SagaEvents,
         Once(Data(o)'),
         \A q \in Orders \ {o} : Data(q)' = Data(q)
  PROVE  TInv'
<1>1. /\ SingleCopies' /\ \A f \in Events \ S : bus'[f] = bus[f]
      /\ NoFaults' => \A f \in S : bus'[f] > 0
  BY SentToBus
<1>2. \A p \in Spots : p[1] = "bus" /\ p[2] \notin S => JobAt(p)' = JobAt(p)
  <2>1. ASSUME NEW p \in Spots, p[1] = "bus", p[2] \notin S PROVE bus'[p[2]] = bus[p[2]]
    BY <1>1, <2>1, SpotIs DEF SagaEvents
  <2> QED BY <2>1 DEF JobAt
<1>3. CASE \A e \in S : e \notin SagaEvents
  <2>1. \A p \in Spots \ {s} : JobAt(p)' = JobAt(p)
    BY <1>2, <1>3, SpotIs
  <2>2. \A q \in Orders \ {o} : ~HasToken(s, q)
    BY DEF HasToken
  <2>3. NoFaults' => Ended(Data(o)')
    BY <1>3
  <2> QED BY <1>1, <2>1, <2>2, <2>3, TokenMoves
<1>4. ASSUME NEW e \in S, e \in SagaEvents PROVE TInv'
  <2> DEFINE to == <<"bus", e>>
  <2>1. to \in Spots /\ to # s /\ to[1] = "bus"
    BY <1>4, SpotsOf
  <2>2. ASSUME NEW p \in Spots \ {s, to} PROVE JobAt(p)' = JobAt(p)
    <3>1. p[1] = "bus" => p[2] \notin S
      BY <1>4, SpotIs
    <3> QED BY <1>2, <3>1
  <2>3. JobAt(to)'.pc # "idle" => JobAt(to)' = [pc |-> "waits", event |-> e]
    BY DEF JobAt, NoJob
  <2>4. JobAt(to)'.pc # "idle" => /\ JobAt(to)'.event.orderId = o
                                  /\ Fits("bus", JobAt(to)', Data(o)')
                                  /\ Clean(JobAt(to), Data(o))'
    BY <1>4, <2>3 DEF Fits, Clean
  <2>5. NoFaults' => JobAt(to)'.pc # "idle"
    BY <1>1, <1>4 DEF JobAt
  <2>6. \A q \in Orders \ {o} : ~HasToken(to, q)
    BY <1>4 DEF HasToken, JobAt, NoJob
  <2> HIDE DEF to
  <2> QED BY <1>1, <2>1, <2>2, <2>4, <2>5, <2>6, TokenMoves
<1> QED BY <1>3, <1>4

-----------------------------------------------------------------------------
(* The steps of order-service.                                             *)

\* Payments and stock are as they were.
LEMMA EffectsKept ==
  ASSUME UNCHANGED <<stockVars, paymentVars>>, NEW q \in Orders
  PROVE  /\ Rows(q)' = Rows(q) /\ Money(q)' = Money(q)
         /\ charges'[q] = charges[q] /\ taken'[q] = taken[q]
BY DEF stockVars, paymentVars, Rows, Money

\* POST /orders saves a row.
LEMMA PostMoves ==
  ASSUME TypeOK, TInv, NEW o \in Orders, UNCHANGED <<stockVars, paymentVars, orderWorker, bus>>,
         NEW pc \in {"saveSaga", "emit", "aborted"},
         HasToken(<<"post", o>>, o), creating' = [creating EXCEPT ![o] = pc],
         NoFaults' => NoFaults, pc = "aborted" => ~NoFaults',
         \A q \in Orders \ {o} : orders'[q] = orders[q] /\ sagas'[q] = sagas[q],
         pc # "aborted" => /\ orders'[o] = "PROCESSING"
                           /\ sagas'[o].currentStep = IF pc = "emit" THEN "STOCK_CHECK_REQUESTED" ELSE "NONE"
  PROVE  TInv'
<1> DEFINE post == <<"post", o>>
<1>1. post \in Spots /\ creating'[o] = pc /\ \A q \in Orders \ {o} : creating'[q] = creating[q]
  BY SpotsOf DEF TypeOK, OrderTypeOK
<1>2. PostFits(JobAt(post), Data(o)) /\ Once(Data(o)) /\ JobAt(post).event = FirstEvent(o)
  BY <1>1 DEF TInv, Token, Fits, HasToken, JobAt, NoJob
<1>3. JobAt(post)' = IF pc = "aborted" THEN NoJob ELSE [pc |-> pc, event |-> FirstEvent(o)]
  BY <1>1 DEF JobAt
<1>4. ASSUME NEW p \in Spots \ {post} PROVE JobAt(p)' = JobAt(p)
  <2>1. p[1] = "post" => p[2] \in Orders \ {o}
    BY SpotIs
  <2> QED BY <1>1, <2>1, JobKept DEF stockVars, paymentVars
<1>5. ASSUME NEW q \in Orders \ {o} PROVE Data(q)' = Data(q)
  BY EffectsKept, DataKept
<1>6. /\ Data(o)'.rows = Data(o).rows /\ Data(o)'.money = Data(o).money
      /\ Data(o)'.charges = Data(o).charges /\ Data(o)'.taken = Data(o).taken
      /\ Data(o)'.notices = Data(o).notices
      /\ Data(o)'.status = orders'[o] /\ Data(o)'.step = sagas'[o].currentStep
  BY EffectsKept DEF Data
<1>7. Once(Data(o)')
  BY <1>2, <1>6 DEF Once
<1>8. Effects(FirstEvent(o), Data(o)')
  BY <1>2, <1>6 DEF PostFits, Effects, Unpaid, NothingTaken
<1>9. JobAt(post)'.pc # "idle" => /\ JobAt(post)'.event.orderId = o
                                  /\ Fits("post", JobAt(post)', Data(o)')
                                  /\ Clean(JobAt(post), Data(o))'
  BY <1>3, <1>6, <1>8 DEF NoJob, Fits, PostFits, FirstEvent, Request, Clean, Undone
<1>10. SingleCopies'
  BY DEF TInv, SingleCopies
<1>11. post[1] = "post" /\ (NoFaults' => JobAt(post)'.pc # "idle")
  BY <1>3
<1>12. \A q \in Orders \ {o} : ~HasToken(post, q)
  BY DEF HasToken
<1> HIDE DEF post
<1> QED BY <1>1, <1>4, <1>5, <1>7, <1>9, <1>10, <1>11, <1>12, TokenMoves DEF post

LEMMA PostToken ==
  ASSUME TypeOK, NEW o \in Orders, creating[o] \in {"none", "saveSaga", "emit"}
  PROVE  /\ HasToken(<<"post", o>>, o)
         /\ JobAt(<<"post", o>>).pc = creating[o]
         /\ JobAt(<<"post", o>>).event = FirstEvent(o)
<1>1. JobAt(<<"post", o>>) = [pc |-> creating[o], event |-> FirstEvent(o)]
  BY DEF JobAt
<1> QED BY <1>1 DEF HasToken, FirstEvent, Request

LEMMA CreateMoves ==
  ASSUME TypeOK, TInv, NEW o \in Orders, UNCHANGED <<cart, stockVars, paymentVars>>,
         NoFaults' => NoFaults, CreateOrder(o) \/ CreateSaga(o) \/ CreateThrows(o)
  PROVE  TInv'
<1>1. /\ creating[o] \in {"none", "saveSaga", "emit"}
      /\ HasToken(<<"post", o>>, o) /\ JobAt(<<"post", o>>).pc = creating[o]
  <2>1. creating[o] \in {"none", "saveSaga", "emit"}
    BY DEF CreateOrder, CreateSaga, CreateThrows
  <2> QED BY <2>1, PostToken
<1>2. /\ orders[o] = IF creating[o] = "none" THEN "NONE" ELSE "PROCESSING"
      /\ sagas[o].currentStep = IF creating[o] = "emit" THEN "STOCK_CHECK_REQUESTED" ELSE "NONE"
  BY <1>1, SpotsOf DEF TInv, Token, Fits, PostFits, Data
<1>3. orders \in [Orders -> OrderStatus \cup {"NONE"}] /\ sagas \in [Orders -> SagaRow \cup {NoSaga}]
  BY DEF TypeOK, OrderTypeOK
<1>4. CASE CreateOrder(o)
  BY <1>1, <1>2, <1>3, <1>4, PostMoves DEF CreateOrder
<1>5. CASE CreateSaga(o)
  BY <1>1, <1>2, <1>3, <1>5, PostMoves DEF CreateSaga
<1>6. CASE CreateThrows(o)
  <2>1. ~NoFaults'
    BY <1>6, FaultCounts DEF CreateThrows, FaultKinds
  <2> QED BY <1>1, <1>2, <1>3, <1>6, <2>1, PostMoves DEF CreateThrows
<1> QED BY <1>4, <1>5, <1>6

LEMMA CreateEmitMoves ==
  ASSUME TypeOK, TInv, NEW o \in Orders, UNCHANGED <<cart, stockVars, paymentVars>>,
         NoFaults' => NoFaults, CreateEmit(o)
  PROVE  TInv'
<1> DEFINE s == <<"post", o>>
           S == {FirstEvent(o)}
<1>1. HasToken(s, o) /\ JobAt(s).pc = "emit" /\ JobAt(s).event = FirstEvent(o)
  BY PostToken DEF CreateEmit
<1>2. s \in Spots /\ s[1] = "post" /\ s[2] = o
  BY SpotsOf
<1>3. FirstEvent(o) \in SagaEvents /\ FirstEvent(o).orderId = o
      /\ FirstEvent(o).topic = "STOCK_CHECK_REQUESTED" /\ FirstEvent(o) \in Events
  BY RequestIs DEF FirstEvent, RequestTopics, NoticeTopics, SagaEvents
<1>4. Effects(FirstEvent(o), Data(o)) /\ Data(o).status = "PROCESSING"
      /\ Data(o).step = "STOCK_CHECK_REQUESTED" /\ Once(Data(o))
  BY <1>1, <1>2 DEF TInv, Token, Fits, PostFits
<1>5. Emit(S) /\ UNCHANGED <<orders, sagas, orderWorker>>
      /\ creating' = [creating EXCEPT ![o] = "done"]
  BY DEF CreateEmit, FirstEvent
<1>6. \A f \in Events \ S : bus'[f] = bus[f]
  BY <1>1, <1>2, <1>3, <1>5, SentToBus
<1>7. \A q \in Orders : Data(q)' = Data(q)
  <2>1. ASSUME NEW q \in Orders
        PROVE  /\ bus'[Request("COMPLETED", q)] = bus[Request("COMPLETED", q)]
               /\ bus'[Request("FAILED", q)] = bus[Request("FAILED", q)]
    BY <1>3, <1>6, RequestIs DEF NoticeTopics
  <2> QED BY <1>5, <2>1, EffectsKept, DataKept
<1>8. JobAt(s)'.pc = "idle"
  <2>1. creating'[o] = "done"
    BY <1>5 DEF TypeOK, OrderTypeOK
  <2> QED BY <2>1 DEF JobAt, NoJob
<1>9. ASSUME NEW p \in Spots \ {s}, p[1] # "bus" PROVE JobAt(p)' = JobAt(p)
  <2>1. p[1] = "post" => p[2] \in Orders \ {o}
    BY SpotIs
  <2>2. \A q \in Orders \ {o} : creating'[q] = creating[q]
    BY <1>5 DEF TypeOK, OrderTypeOK
  <2> QED BY <1>5, <1>9, <2>1, <2>2, JobKept DEF stockVars, paymentVars
<1>10. \A e \in S : /\ Effects(e, Data(o)') /\ Shown(e, Data(o)')
                     /\ ~Undone([pc |-> "waits", event |-> e])
  BY <1>3, <1>4, <1>7 DEF Shown, StepOf, Undone
<1>11. Once(Data(o)')
  BY <1>4, <1>7
<1>12. S \in SUBSET Events /\ (\A e \in S : e.orderId = o) /\ (\A e, f \in S : e = f)
       /\ \E e \in S : e \in SagaEvents
  BY <1>3
<1> HIDE DEF s, S
<1> QED BY <1>1, <1>2, <1>5, <1>7, <1>8, <1>9, <1>10, <1>11, <1>12, TokenSent

\* What a busy consumer of order-service holds.
LEMMA OrderAt ==
  ASSUME TypeOK, NEW w \in OrderWorkers, NEW job, orderWorker[w] = job, job.pc # "idle"
  PROVE  LET s == <<"order", w>>
             o == job.event.orderId
         IN  /\ s \in Spots /\ s[1] = "order" /\ s[2] = w
             /\ job \in BusyOrderWorker /\ job.event \in Results /\ o \in Orders
             /\ JobAt(s) = job /\ HasToken(s, o)
<1> DEFINE s == <<"order", w>>
<1>1. job \in BusyOrderWorker
  BY DEF TypeOK, OrderTypeOK, IdleOrderWorker
<1>2. job.event \in Results /\ job.event.orderId \in Orders
  BY <1>1 DEF BusyOrderWorker, Results
<1>3. s \in Spots /\ s[1] = "order" /\ s[2] = w /\ JobAt(s) = job
  BY SpotsOf DEF JobAt
<1> QED BY <1>1, <1>2, <1>3 DEF HasToken

LEMMA OrderJob ==
  ASSUME TypeOK, TInv, NEW w \in OrderWorkers, orderWorker[w].pc # "idle"
  PROVE  LET s == <<"order", w>>
             o == orderWorker[w].event.orderId
         IN  /\ s \in Spots /\ s[1] = "order" /\ s[2] = w
             /\ orderWorker[w] \in BusyOrderWorker /\ orderWorker[w].event \in Results
             /\ o \in Orders
             /\ JobAt(s) = orderWorker[w] /\ HasToken(s, o)
             /\ OrderFits(orderWorker[w], Data(o)) /\ Once(Data(o))
             /\ Clean(orderWorker[w], Data(o))
<1> DEFINE s == <<"order", w>>
           o == orderWorker[w].event.orderId
<1>1. /\ s \in Spots /\ s[1] = "order" /\ s[2] = w
      /\ orderWorker[w] \in BusyOrderWorker /\ orderWorker[w].event \in Results /\ o \in Orders
      /\ JobAt(s) = orderWorker[w] /\ HasToken(s, o)
  BY OrderAt
<1>2. Fits("order", orderWorker[w], Data(o)) /\ Once(Data(o)) /\ Clean(orderWorker[w], Data(o))
  BY <1>1 DEF TInv, Token
<1> QED BY <1>1, <1>2 DEF Fits

\* The other spots off the bus when one consumer of order-service steps.
LEMMA OtherSpotsOfOrder ==
  ASSUME NEW w \in OrderWorkers, UNCHANGED <<stockVars, paymentVars, creating>>,
         \A v \in OrderWorkers \ {w} : orderWorker'[v] = orderWorker[v]
  PROVE  \A p \in Spots \ {<<"order", w>>} : p[1] # "bus" => JobAt(p)' = JobAt(p)
<1> TAKE p \in Spots \ {<<"order", w>>}
<1>1. p[1] = "order" => p[2] \in OrderWorkers \ {w}
  BY SpotIs
<1> QED BY <1>1, JobKept DEF stockVars, paymentVars

LEMMA ReceiveResultMoves ==
  ASSUME TypeOK, TInv, NEW w \in OrderWorkers, NEW e \in Results,
         UNCHANGED <<cart, stockVars, paymentVars>>, NoFaults' => NoFaults, ReceiveResult(w, e)
  PROVE  TInv'
<1> DEFINE s == <<"order", w>>
           o == e.orderId
           job == [pc |-> "saveSaga", event |-> e, saga |-> Edited(sagas[o], e)]
<1>1. e \in SagaEvents /\ o \in Orders /\ e.topic \in ResultTopics
  BY DEF SagaEvents, Events, Results, ResultTopics, NoticeTopics
<1>2. s \in Spots /\ s[1] = "order" /\ s[2] = w
  BY SpotsOf
<1>3. Consume(e) /\ UNCHANGED <<orders, sagas, creating>> /\ orderWorker[w].pc = "idle"
  BY DEF ReceiveResult, IdleOrderWorker
<1>4. \/ orderWorker' = orderWorker /\ (sagas[o] = NoSaga \/ orders[o] = "NONE")
      \/ orderWorker' = [orderWorker EXCEPT ![w] = job]
  BY DEF ReceiveResult
<1>5. /\ orderWorker'[w].pc # "idle" => orderWorker'[w] = job
      /\ \A v \in OrderWorkers \ {w} : orderWorker'[v] = orderWorker[v]
  BY <1>3, <1>4 DEF TypeOK, OrderTypeOK
<1>6. \A p \in Spots \ {s} : p[1] # "bus" => JobAt(p)' = JobAt(p)
  BY <1>3, <1>5, OtherSpotsOfOrder
<1>7. /\ Effects(e, Data(o)) /\ Shown(e, Data(o)) /\ Clean([pc |-> "waits", event |-> e], Data(o))
      /\ \A q \in Orders : /\ bus'[Request("COMPLETED", q)] = bus[Request("COMPLETED", q)]
                           /\ bus'[Request("FAILED", q)] = bus[Request("FAILED", q)]
  BY <1>1, <1>3, TakenFromBus
<1>8. \A q \in Orders : Data(q)' = Data(q)
  BY <1>3, <1>7, EffectsKept, DataKept
<1>9. Once(Data(o)')
  BY <1>1, <1>8 DEF TInv, Token
<1>10. JobAt(s)' = orderWorker'[w]
  BY DEF JobAt
<1>11. OrderFits(job, Data(o))
  BY <1>1, <1>7 DEF OrderFits, Shown, Edited, ResultTopics
<1>12. JobAt(s)'.pc # "idle" => /\ JobAt(s)'.event.orderId = o
                                /\ Fits("order", JobAt(s)', Data(o)') /\ Clean(JobAt(s), Data(o))'
  BY <1>1, <1>5, <1>7, <1>8, <1>10, <1>11 DEF Fits, Clean, Undone, ResultTopics
<1>13. JobAt(s).pc = "idle" /\ JobAt(s)'.pc # "idle"
  <2>1. orders[o] = "PROCESSING" /\ sagas[o].currentStep # "NONE"
    BY <1>1, <1>7 DEF Shown, StepOf, ResultTopics, Data
  <2>2. orderWorker' = [orderWorker EXCEPT ![w] = job]
    BY <1>4, <2>1 DEF NoSaga
  <2>3. orderWorker'[w] = job
    BY <2>2 DEF TypeOK, OrderTypeOK
  <2> QED BY <1>3, <1>10, <2>3 DEF JobAt
<1> HIDE DEF s, job
<1> QED BY <1>1, <1>2, <1>3, <1>6, <1>8, <1>9, <1>12, <1>13, TokenTaken

\* A consumer of order-service saves one of the two rows.
LEMMA OrderSaves ==
  ASSUME TypeOK, TInv, NEW w \in OrderWorkers, UNCHANGED <<stockVars, paymentVars, creating, bus>>,
         NoFaults' => NoFaults,
         NEW job, orderWorker[w] = job, job.pc # "idle",
         NEW next, orderWorker'[w] = next, next.event = job.event,
         \A v \in OrderWorkers \ {w} : orderWorker'[v] = orderWorker[v],
         \A q \in Orders \ {job.event.orderId} :
           orders'[q] = orders[q] /\ sagas'[q] = sagas[q],
         LET o    == job.event.orderId
             step == NextStep(job.event)
         IN  /\ orders'[o] = IF next.pc = "emit" /\ step \in EndSteps THEN StatusAt(step) ELSE "PROCESSING"
             /\ sagas'[o].currentStep = step
             /\ next.pc \in {"saveOrder", "emit"}
             /\ next.pc = "saveOrder" => step \in EndSteps
  PROVE  TInv'
<1> DEFINE s == <<"order", w>>
           o == job.event.orderId
<1>1. /\ s \in Spots /\ s[1] = "order" /\ s[2] = w /\ o \in Orders
      /\ JobAt(s) = job /\ HasToken(s, o)
      /\ OrderFits(job, Data(o)) /\ Once(Data(o)) /\ Clean(job, Data(o)) /\ job.event \in Results
  BY OrderJob
<1>2. JobAt(s)' = next
  BY DEF JobAt
<1>3. \A p \in Spots \ {s} : p[1] # "bus" => JobAt(p)' = JobAt(p)
  BY OtherSpotsOfOrder
<1>4. ASSUME NEW q \in Orders \ {o} PROVE Data(q)' = Data(q)
  BY EffectsKept, DataKept
<1>5. /\ Data(o)'.rows = Data(o).rows /\ Data(o)'.money = Data(o).money
      /\ Data(o)'.charges = Data(o).charges /\ Data(o)'.taken = Data(o).taken
      /\ Data(o)'.notices = Data(o).notices
      /\ Data(o)'.status = orders'[o] /\ Data(o)'.step = sagas'[o].currentStep
  BY <1>1, EffectsKept DEF Data
<1>6. Once(Data(o)')
  BY <1>1, <1>5 DEF Once
<1>7. Effects(next.event, Data(o)')
  BY <1>1, <1>5 DEF OrderFits, Effects, Unpaid, NothingTaken
<1>8. OrderFits(next, Data(o)')
  BY <1>5, <1>7 DEF OrderFits
<1>9. JobAt(s)'.event.orderId = o /\ Fits("order", JobAt(s)', Data(o)') /\ JobAt(s)'.pc # "idle"
  BY <1>2, <1>8 DEF Fits
<1>10. Clean(JobAt(s), Data(o))'
  BY <1>1, <1>2, <1>5 DEF Clean, Undone, NothingTaken, Results, ResultTopics
<1> HIDE DEF s, o
<1> QED BY <1>1, <1>3, <1>4, <1>6, <1>9, <1>10, TokenWorks

LEMMA SaveSagaMoves ==
  ASSUME TypeOK, TInv, NEW w \in OrderWorkers, UNCHANGED <<cart, stockVars, paymentVars>>,
         NoFaults' => NoFaults, SaveSaga(w)
  PROVE  TInv'
<1>0. PICK job : orderWorker[w] = job
  OBVIOUS
<1> DEFINE o == job.event.orderId
           step == NextStep(job.event)
           pc == IF step \in EndSteps THEN "saveOrder" ELSE "emit"
<1>1. job.pc = "saveSaga"
  BY <1>0 DEF SaveSaga
<1>2. job \in BusyOrderWorker /\ job.event \in Results /\ o \in Orders /\ OrderFits(job, Data(o))
  BY <1>0, <1>1, OrderJob
<1>3. job.saga.currentStep = step /\ orders[o] = "PROCESSING"
  BY <1>1, <1>2 DEF OrderFits, Data
<1>4. /\ orderWorker' = [orderWorker EXCEPT ![w].pc = pc]
      /\ sagas' = [sagas EXCEPT ![o] = job.saga] /\ UNCHANGED <<orders, creating, bus>>
  BY <1>0 DEF SaveSaga
<1>5. /\ orderWorker'[w].pc = pc /\ orderWorker'[w].event = job.event
      /\ \A v \in OrderWorkers \ {w} : orderWorker'[v] = orderWorker[v]
  BY <1>0, <1>2, <1>4 DEF TypeOK, OrderTypeOK, BusyOrderWorker
<1>6. sagas'[o] = job.saga /\ \A q \in Orders \ {o} : sagas'[q] = sagas[q]
  BY <1>2, <1>4 DEF TypeOK, OrderTypeOK
<1>7. PICK next : orderWorker'[w] = next
  OBVIOUS
<1>8. UNCHANGED <<stockVars, paymentVars, creating, bus>> /\ job.pc # "idle"
      /\ UNCHANGED orders
  BY <1>1, <1>4
<1>9. /\ next.pc \in {"saveOrder", "emit"} /\ next.event = job.event
      /\ next.pc = "saveOrder" => step \in EndSteps
      /\ orders'[o] = IF next.pc = "emit" /\ step \in EndSteps THEN StatusAt(step) ELSE "PROCESSING"
      /\ sagas'[o].currentStep = step
      /\ \A q \in Orders \ {o} : orders'[q] = orders[q] /\ sagas'[q] = sagas[q]
  BY <1>3, <1>5, <1>6, <1>7, <1>8
<1> HIDE DEF step
<1> QED BY <1>0, <1>5, <1>7, <1>8, <1>9, OrderSaves DEF step

LEMMA SaveOrderMoves ==
  ASSUME TypeOK, TInv, NEW w \in OrderWorkers, UNCHANGED <<cart, stockVars, paymentVars>>,
         NoFaults' => NoFaults, SaveOrder(w)
  PROVE  TInv'
<1>0. PICK job : orderWorker[w] = job
  OBVIOUS
<1> DEFINE o == job.event.orderId
           step == NextStep(job.event)
<1>1. job.pc = "saveOrder"
  BY <1>0 DEF SaveOrder
<1>2. job \in BusyOrderWorker /\ job.event \in Results /\ o \in Orders /\ OrderFits(job, Data(o))
  BY <1>0, <1>1, OrderJob
<1>3. step \in EndSteps /\ sagas[o].currentStep = step
  BY <1>1, <1>2 DEF OrderFits, Data
<1>4. /\ orderWorker' = [orderWorker EXCEPT ![w].pc = "emit"]
      /\ orders' = [orders EXCEPT ![o] = StatusAt(step)] /\ UNCHANGED <<sagas, creating, bus>>
  BY <1>0 DEF SaveOrder
<1>5. /\ orderWorker'[w].pc = "emit" /\ orderWorker'[w].event = job.event
      /\ \A v \in OrderWorkers \ {w} : orderWorker'[v] = orderWorker[v]
  BY <1>0, <1>2, <1>4 DEF TypeOK, OrderTypeOK, BusyOrderWorker
<1>6. orders'[o] = StatusAt(step) /\ \A q \in Orders \ {o} : orders'[q] = orders[q]
  BY <1>2, <1>4 DEF TypeOK, OrderTypeOK
<1>7. PICK next : orderWorker'[w] = next
  OBVIOUS
<1>8. UNCHANGED <<stockVars, paymentVars, creating, bus>> /\ job.pc # "idle"
      /\ UNCHANGED sagas
  BY <1>1, <1>4
<1>9. /\ next.pc \in {"saveOrder", "emit"} /\ next.event = job.event
      /\ next.pc = "saveOrder" => step \in EndSteps
      /\ orders'[o] = IF next.pc = "emit" /\ step \in EndSteps THEN StatusAt(step) ELSE "PROCESSING"
      /\ sagas'[o].currentStep = step
      /\ \A q \in Orders \ {o} : orders'[q] = orders[q] /\ sagas'[q] = sagas[q]
  BY <1>3, <1>5, <1>6, <1>7, <1>8
<1> HIDE DEF step
<1> QED BY <1>0, <1>5, <1>7, <1>8, <1>9, OrderSaves DEF step

\* What EmitNext sends fits the row it has saved.
LEMMA NextSends ==
  ASSUME NEW e \in Results, NEW t \in TopicsAt(NextStep(e)), t \notin NoticeTopics,
         NEW o, NEW d, Effects(e, d), d.step = NextStep(e),
         d.status = IF NextStep(e) \in EndSteps THEN StatusAt(NextStep(e)) ELSE "PROCESSING",
         NEW after, after.rows = d.rows, after.money = d.money, after.charges = d.charges,
         after.taken = d.taken, after.status = d.status, after.step = d.step,
         NextStep(e) # "COMPENSATING" => after.notices = d.notices
  PROVE  /\ Effects(Request(t, o), after) /\ Shown(Request(t, o), after)
         /\ Undone([pc |-> "waits", event |-> Request(t, o)]) =>
              Undone([pc |-> "emit", event |-> e])
<1>1. e.topic \in ResultTopics /\ e.success \in BOOLEAN
  BY DEF Results
<1>2. CASE NextStep(e) = "COMPENSATING"
  <2>1. t = "PAYMENT_REFUND_REQUESTED" /\ e.topic = "STOCK_DEDUCT_RESULT" /\ ~e.success
    BY <1>1, <1>2 DEF TopicsAt, NoticeTopics, NextStep, OnSuccess, OnFailure, ResultTopics
  <2> QED BY <1>2, <2>1 DEF Effects, Shown, Request, AfterPayment, BeforePayment,
                            BeforeDeduction, EndSteps, StatusAt, Undone
<1>3. CASE NextStep(e) # "COMPENSATING"
  <2>1. t = NextStep(e) /\ t \in {"PAYMENT_REQUESTED", "STOCK_DEDUCT_REQUESTED"} /\ e.success
    BY <1>1, <1>3 DEF TopicsAt, NoticeTopics, NextStep, OnSuccess, OnFailure, ResultTopics
  <2>2. e.topic = IF t = "PAYMENT_REQUESTED" THEN "STOCK_CHECK_RESULT" ELSE "PAYMENT_RESULT"
    BY <1>1, <2>1 DEF NextStep, OnSuccess, ResultTopics
  <2>3. after.status = "PROCESSING" /\ after.step = t
    BY <2>1 DEF EndSteps
  <2>4. after.notices = 0
    BY <1>3, <2>2 DEF Effects
  <2>5. NothingTaken(after)
    BY <2>2 DEF Effects, NothingTaken, BeforeDeduction, BeforePayment
  <2>6. t = "PAYMENT_REQUESTED" => Unpaid(after)
    BY <2>2 DEF Effects, Unpaid, BeforePayment
  <2>7. t = "STOCK_DEDUCT_REQUESTED" => after.money = "charged"
    BY <2>1, <2>2 DEF Effects
  <2> QED BY <2>1, <2>3, <2>4, <2>5, <2>6, <2>7
          DEF Effects, Shown, StepOf, Request, BeforePayment, BeforeDeduction, AfterPayment, Undone
<1> QED BY <1>2, <1>3

\* A saga that sends nothing on has ended.
LEMMA NextEnds ==
  ASSUME NEW e \in Results, NextStep(e) \in NoticeTopics, NEW d, Effects(e, d),
         d.step = NextStep(e), d.status = StatusAt(NextStep(e))
  PROVE  Ended(d)
<1>1. e.topic \in ResultTopics /\ e.success \in BOOLEAN
  BY DEF Results
<1>2. CASE NextStep(e) = "COMPLETED"
  <2>1. e.topic = "STOCK_DEDUCT_RESULT"
    BY <1>1, <1>2 DEF NextStep, OnSuccess, OnFailure, ResultTopics
  <2> QED BY <1>2, <2>1 DEF Effects, AfterPayment, StatusAt, Ended
<1>3. CASE NextStep(e) = "FAILED"
  <2>1. e.topic = "STOCK_CHECK_RESULT" \/ (e.topic = "PAYMENT_RESULT" /\ ~e.success)
    BY <1>1, <1>3 DEF NextStep, OnSuccess, OnFailure, ResultTopics
  <2>2. d.charges = 0 /\ NothingTaken(d)
    BY <2>1 DEF Effects, Unpaid, BeforePayment, BeforeDeduction
  <2> QED BY <1>3, <2>2 DEF StatusAt, Ended
<1> QED BY <1>2, <1>3 DEF NoticeTopics

LEMMA EmitNextMoves ==
  ASSUME TypeOK, TInv, NEW w \in OrderWorkers, UNCHANGED <<cart, stockVars, paymentVars>>,
         NoFaults' => NoFaults, EmitNext(w)
  PROVE  TInv'
<1>0. PICK job : orderWorker[w] = job
  OBVIOUS
<1> DEFINE s == <<"order", w>>
           o == job.event.orderId
           step == NextStep(job.event)
           S == {Request(t, o) : t \in TopicsAt(step)}
<1>1. job.pc = "emit"
  BY <1>0 DEF EmitNext
<1>2. /\ s \in Spots /\ s[1] = "order" /\ s[2] = w /\ o \in Orders /\ job.event \in Results
      /\ JobAt(s) = job /\ HasToken(s, o) /\ OrderFits(job, Data(o)) /\ Once(Data(o))
      /\ Clean(job, Data(o))
  BY <1>0, <1>1, OrderJob
<1>3. Effects(job.event, Data(o)) /\ Data(o).notices = 0 /\ Data(o).step = step
      /\ Data(o).status = IF step \in EndSteps THEN StatusAt(step) ELSE "PROCESSING"
  <2>1. job.event.topic # "PAYMENT_REFUND_REQUESTED"
    BY <1>2 DEF Results, ResultTopics
  <2> QED BY <1>1, <1>2, <2>1 DEF OrderFits, Effects
<1>4. /\ Emit(S) /\ orderWorker' = [orderWorker EXCEPT ![w] = IdleOrderWorker]
      /\ UNCHANGED <<orders, sagas, creating>>
  BY <1>0 DEF EmitNext
<1>5. UNCHANGED <<orders, sagas, creating, stockVars, paymentVars>>
  BY <1>4
<1>6. TopicsAt(step) \subseteq RequestTopics \cup NoticeTopics
  BY <1>2 DEF TopicsAt, NextStep, OnSuccess, OnFailure, Results, ResultTopics, RequestTopics, NoticeTopics
<1>7. S \in SUBSET Events /\ (\A e \in S : e.orderId = o)
      /\ \A t \in TopicsAt(step) : Request(t, o) \in SagaEvents <=> t \notin NoticeTopics
  BY <1>2, <1>6, RequestIs
<1>8. \A e, f \in S : e \in SagaEvents /\ f \in SagaEvents => e = f
  <2>1. \A t, u \in TopicsAt(step) : t \notin NoticeTopics /\ u \notin NoticeTopics => t = u
    BY DEF TopicsAt, NoticeTopics
  <2> QED BY <1>7, <2>1
<1>9. /\ orderWorker'[w].pc = "idle"
      /\ \A v \in OrderWorkers \ {w} : orderWorker'[v] = orderWorker[v]
  BY <1>4 DEF TypeOK, OrderTypeOK, IdleOrderWorker
<1>10. \A p \in Spots \ {s} : p[1] # "bus" => JobAt(p)' = JobAt(p)
  BY <1>5, <1>9, OtherSpotsOfOrder
<1>11. JobAt(s)'.pc = "idle"
  BY <1>9 DEF JobAt
<1>12. /\ \A f \in Events \ S : bus'[f] = bus[f]
       /\ \A f \in Events : bus'[f] \in {bus[f], bus[f] + 1}
  BY <1>2, <1>4, <1>7, SentToBus
<1>13. ASSUME NEW q \in Orders \ {o} PROVE Data(q)' = Data(q)
  <2>1. /\ bus'[Request("COMPLETED", q)] = bus[Request("COMPLETED", q)]
        /\ bus'[Request("FAILED", q)] = bus[Request("FAILED", q)]
    BY <1>7, <1>12, RequestIs DEF NoticeTopics
  <2> QED BY <1>5, <2>1, EffectsKept, DataKept
<1>14. /\ Data(o)'.rows = Data(o).rows /\ Data(o)'.money = Data(o).money
       /\ Data(o)'.charges = Data(o).charges /\ Data(o)'.taken = Data(o).taken
       /\ Data(o)'.status = Data(o).status /\ Data(o)'.step = Data(o).step
  BY <1>2, <1>5, EffectsKept DEF Data
<1>15. Data(o)'.notices <= 1 /\ (TopicsAt(step) \cap NoticeTopics = {} => Data(o)'.notices = Data(o).notices)
  <2> DEFINE C == Request("COMPLETED", o)
             F == Request("FAILED", o)
  <2>1. C \in Events /\ F \in Events /\ bus[C] \in Nat /\ bus[F] \in Nat
    BY <1>2, RequestIs DEF NoticeTopics, TypeOK, BusTypeOK
  <2>2. C \in S <=> "COMPLETED" \in TopicsAt(step)
    BY DEF Request
  <2>3. F \in S <=> "FAILED" \in TopicsAt(step)
    BY DEF Request
  <2>4. ~("COMPLETED" \in TopicsAt(step) /\ "FAILED" \in TopicsAt(step))
    BY DEF TopicsAt
  <2>5. bus[C] + bus[F] = 0 /\ Data(o).notices = bus[C] + bus[F] /\ Data(o)'.notices = bus'[C] + bus'[F]
    BY <1>3 DEF Data
  <2>6. /\ C \notin S => bus'[C] = bus[C]
        /\ F \notin S => bus'[F] = bus[F]
        /\ bus'[C] \in {bus[C], bus[C] + 1} /\ bus'[F] \in {bus[F], bus[F] + 1}
    BY <1>12, <2>1
  <2> HIDE DEF C, F, S
  <2> QED BY <2>1, <2>2, <2>3, <2>4, <2>5, <2>6 DEF NoticeTopics
<1>16. Once(Data(o)')
  BY <1>2, <1>14, <1>15 DEF Once
<1>17. ASSUME NEW t \in TopicsAt(step), t \notin NoticeTopics
       PROVE  /\ Effects(Request(t, o), Data(o)') /\ Shown(Request(t, o), Data(o)')
              /\ NoFaults' /\ Undone([pc |-> "waits", event |-> Request(t, o)]) =>
                   NothingTaken(Data(o)')
  <2>1. step # "COMPENSATING" => TopicsAt(step) \cap NoticeTopics = {}
    BY <1>17 DEF TopicsAt
  <2>2. Undone([pc |-> "emit", event |-> job.event]) => Undone(job)
    BY <1>2 DEF Undone, Results, ResultTopics
  <2>3. NoFaults' /\ Undone(job) => NothingTaken(Data(o)')
    BY <1>2, <1>14 DEF Clean, NothingTaken
  <2> HIDE DEF o
  <2>4. /\ Effects(Request(t, o), Data(o)') /\ Shown(Request(t, o), Data(o)')
        /\ Undone([pc |-> "waits", event |-> Request(t, o)]) =>
             Undone([pc |-> "emit", event |-> job.event])
    BY <1>2, <1>3, <1>14, <1>15, <1>17, <2>1, NextSends
  <2> QED BY <2>2, <2>3, <2>4
<1>18. \A e \in S : e \in SagaEvents =>
         /\ Effects(e, Data(o)') /\ Shown(e, Data(o)')
         /\ NoFaults' /\ Undone([pc |-> "waits", event |-> e]) => NothingTaken(Data(o)')
  BY <1>7, <1>17
<1>19. Ended(Data(o)') \/ \E e \in S : e \in SagaEvents
  <2>1. CASE step \in NoticeTopics
    <3>1. step \in EndSteps
      BY <2>1 DEF NoticeTopics, EndSteps
    <3>2. Ended(Data(o))
      BY <1>2, <1>3, <2>1, <3>1, NextEnds
    <3> QED BY <1>14, <3>2 DEF Ended, NothingTaken
  <2>2. CASE step \notin NoticeTopics
    <3>1. \E t \in TopicsAt(step) : t \notin NoticeTopics
      BY <2>2 DEF TopicsAt, NoticeTopics
    <3> QED BY <1>7, <3>1
  <2> QED BY <2>1, <2>2
<1> HIDE DEF s, o, S
<1> QED BY <1>2, <1>4, <1>7, <1>8, <1>10, <1>11, <1>13, <1>16, <1>18, <1>19, TokenSent

-----------------------------------------------------------------------------
(* The steps of product-service.                                           *)

\* What a busy consumer of product-service holds.
LEMMA StockAt ==
  ASSUME TypeOK, StockJobs, NEW w \in StockWorkers,
         NEW job, stockWorker[w] = job, job.pc # "idle"
  PROVE  LET s == <<"stock", w>>
             o == job.event.orderId
         IN  /\ s \in Spots /\ s[1] = "stock" /\ s[2] = w
             /\ job \in BusyStockWorker /\ job.event \in Requests
             /\ job.event.topic \in {"STOCK_CHECK_REQUESTED", "STOCK_DEDUCT_REQUESTED"}
             /\ job.pc = "deduct" => job.event.topic = "STOCK_DEDUCT_REQUESTED"
             /\ o \in Orders /\ job.line \in Lines(o)
             /\ JobAt(s) = job /\ HasToken(s, o)
<1> DEFINE s == <<"stock", w>>
           o == job.event.orderId
<1>1. job \in BusyStockWorker /\ job # IdleStockWorker /\ job.line \in Lines(o)
  BY DEF TypeOK, StockTypeOK, IdleStockWorker
<1>2. job.event \in Requests /\ o \in Orders
  BY <1>1 DEF BusyStockWorker, Requests
<1>3. /\ job.event.topic \in {"STOCK_CHECK_REQUESTED", "STOCK_DEDUCT_REQUESTED"}
      /\ job.pc = "deduct" => job.event.topic = "STOCK_DEDUCT_REQUESTED"
  BY <1>1 DEF StockJobs, StockJob
<1>4. s \in Spots /\ s[1] = "stock" /\ s[2] = w /\ JobAt(s) = job
  BY SpotsOf DEF JobAt
<1> QED BY <1>1, <1>2, <1>3, <1>4 DEF HasToken

LEMMA StockJobAt ==
  ASSUME TypeOK, StockJobs, TInv, NEW w \in StockWorkers,
         NEW job, stockWorker[w] = job, job.pc # "idle"
  PROVE  LET s == <<"stock", w>>
             o == job.event.orderId
         IN  /\ s \in Spots /\ s[1] = "stock" /\ s[2] = w
             /\ job \in BusyStockWorker /\ job.event \in Requests
             /\ job.event.topic \in {"STOCK_CHECK_REQUESTED", "STOCK_DEDUCT_REQUESTED"}
             /\ job.pc = "deduct" => job.event.topic = "STOCK_DEDUCT_REQUESTED"
             /\ o \in Orders /\ job.line \in Lines(o)
             /\ JobAt(s) = job /\ HasToken(s, o)
             /\ StockFits(job, Data(o)) /\ Once(Data(o)) /\ Clean(job, Data(o))
<1> DEFINE s == <<"stock", w>>
           o == job.event.orderId
<1>1. s \in Spots /\ s[1] = "stock" /\ o \in Orders /\ JobAt(s) = job /\ HasToken(s, o)
  BY StockAt
<1>2. Fits("stock", job, Data(o)) /\ Once(Data(o)) /\ Clean(job, Data(o))
  BY <1>1 DEF TInv, Token
<1> QED BY <1>2, StockAt DEF Fits

\* The other spots off the bus when one consumer of product-service steps.
LEMMA OtherSpotsOfStock ==
  ASSUME NEW w \in StockWorkers, UNCHANGED <<orderVars, paymentVars>>,
         \A v \in StockWorkers \ {w} : stockWorker'[v] = stockWorker[v]
  PROVE  \A p \in Spots \ {<<"stock", w>>} : p[1] # "bus" => JobAt(p)' = JobAt(p)
<1> TAKE p \in Spots \ {<<"stock", w>>}
<1>1. p[1] = "stock" => p[2] \in StockWorkers \ {w}
  BY SpotIs
<1> QED BY <1>1, JobKept DEF orderVars, paymentVars

\* Rows and payments are as they were.
LEMMA RowsKept ==
  ASSUME UNCHANGED <<orderVars, paymentVars>>, NEW q \in Orders
  PROVE  /\ Rows(q)' = Rows(q) /\ Money(q)' = Money(q) /\ charges'[q] = charges[q]
         /\ orders'[q] = orders[q] /\ sagas'[q] = sagas[q]
BY DEF orderVars, paymentVars, Rows, Money

LEMMA ReceiveStockMoves ==
  ASSUME TypeOK, TInv, NEW w \in StockWorkers, NEW e \in Requests,
         UNCHANGED <<cart, orderVars, paymentVars>>, NoFaults' => NoFaults, ReceiveStockRequest(w, e)
  PROVE  TInv'
<1> DEFINE s == <<"stock", w>>
           o == e.orderId
           job == [pc |-> FirstStep(e), event |-> e, line |-> 1, success |-> FALSE]
<1>1. e \in SagaEvents /\ o \in Orders
      /\ e.topic \in {"STOCK_CHECK_REQUESTED", "STOCK_DEDUCT_REQUESTED"}
  BY DEF ReceiveStockRequest, SagaEvents, Events, Requests, NoticeTopics
<1>2. s \in Spots /\ s[1] = "stock" /\ s[2] = w
  BY SpotsOf
<1>3. /\ Consume(e) /\ taken' = taken /\ stockWorker' = [stockWorker EXCEPT ![w] = job]
      /\ stockWorker[w].pc = "idle"
  BY DEF ReceiveStockRequest, IdleStockWorker
<1> HIDE DEF job
<1>4. /\ stockWorker'[w] = job
      /\ \A v \in StockWorkers \ {w} : stockWorker'[v] = stockWorker[v]
  BY <1>3 DEF TypeOK, StockTypeOK
<1>5. \A p \in Spots \ {s} : p[1] # "bus" => JobAt(p)' = JobAt(p)
  BY <1>4, OtherSpotsOfStock
<1>6. /\ Effects(e, Data(o)) /\ Shown(e, Data(o))
      /\ \A q \in Orders : /\ bus'[Request("COMPLETED", q)] = bus[Request("COMPLETED", q)]
                           /\ bus'[Request("FAILED", q)] = bus[Request("FAILED", q)]
  BY <1>1, <1>3, TakenFromBus
<1>7. \A q \in Orders : Data(q)' = Data(q)
  BY <1>3, <1>6, RowsKept, DataKept
<1>8. Once(Data(o)')
  BY <1>1, <1>7 DEF TInv, Token
<1>9. JobAt(s)' = job /\ JobAt(s).pc = "idle" /\ job.pc # "idle"
  BY <1>3, <1>4 DEF JobAt, FirstStep, job
<1>10. StockFits(job, Data(o))
  <2>1. Data(o).notices = 0
    BY <1>1, <1>6 DEF Effects
  <2>2. e.topic = "STOCK_DEDUCT_REQUESTED" => Data(o).money = "charged" /\ NothingTaken(Data(o))
    BY <1>6 DEF Effects, AfterPayment, BeforeDeduction
  <2> QED BY <1>6, <2>1, <2>2 DEF StockFits, NothingTaken, job
<1>11. JobAt(s)'.event.orderId = o /\ Fits("stock", JobAt(s)', Data(o)')
  BY <1>7, <1>9, <1>10, <1>1 DEF Fits, job
<1>12. Clean(JobAt(s), Data(o))'
  <2>1. NothingTaken(Data(o))
    BY <1>1, <1>6 DEF Effects, BeforeDeduction, BeforePayment
  <2> QED BY <1>1, <1>7, <2>1 DEF Clean
<1> HIDE DEF s
<1> QED BY <1>1, <1>2, <1>3, <1>5, <1>7, <1>8, <1>9, <1>11, <1>12, TokenTaken

\* A consumer of product-service works on a line.
LEMMA StockWorks ==
  ASSUME TypeOK, StockJobs, TInv, NEW w \in StockWorkers, UNCHANGED <<orderVars, paymentVars, bus>>,
         NoFaults' => NoFaults,
         NEW job, stockWorker[w] = job, job.pc # "idle",
         NEW next, stockWorker'[w] = next, next.event = job.event, next.pc # "idle",
         NoFaults' => ~Undone(next),
         \A v \in StockWorkers \ {w} : stockWorker'[v] = stockWorker[v],
         \A q \in Orders \ {job.event.orderId} : taken'[q] = taken[q],
         LET o == job.event.orderId
         IN  \/ next.pc # "deduct" /\ taken'[o] = taken[o]
             \/ /\ job.pc = "deduct"
                /\ \A i \in DOMAIN taken'[o] : taken'[o][i] <= 1
                /\ next.pc = "deduct" =>
                     \A i \in DOMAIN taken'[o] : i >= next.line => taken'[o][i] = 0
  PROVE  TInv'
<1> DEFINE s == <<"stock", w>>
           o == job.event.orderId
<1>1. /\ s \in Spots /\ s[1] = "stock" /\ s[2] = w
      /\ job.pc = "deduct" => job.event.topic = "STOCK_DEDUCT_REQUESTED"
      /\ o \in Orders
      /\ JobAt(s) = job /\ HasToken(s, o)
      /\ StockFits(job, Data(o)) /\ Once(Data(o))
  BY StockJobAt
<1>2. JobAt(s)' = next
  BY DEF JobAt
<1>3. \A p \in Spots \ {s} : p[1] # "bus" => JobAt(p)' = JobAt(p)
  BY OtherSpotsOfStock
<1>4. ASSUME NEW q \in Orders \ {o} PROVE Data(q)' = Data(q)
  BY RowsKept, DataKept
<1>5. /\ Data(o)'.rows = Data(o).rows /\ Data(o)'.money = Data(o).money
      /\ Data(o)'.charges = Data(o).charges /\ Data(o)'.taken = taken'[o]
      /\ Data(o)'.notices = Data(o).notices /\ Data(o).taken = taken[o]
      /\ Data(o)'.status = Data(o).status /\ Data(o)'.step = Data(o).step
  BY <1>1, RowsKept DEF Data
<1>6. Once(Data(o)')
  BY <1>1, <1>5 DEF Once
<1>7. Shown(next.event, Data(o)')
  BY <1>1, <1>5 DEF StockFits, Shown
<1>8. StockFits(next, Data(o)')
  <2>1. CASE next.pc # "deduct" /\ taken'[o] = taken[o]
    <3>1. Effects(next.event, Data(o)) => Effects(next.event, Data(o)')
      BY <1>5, <2>1 DEF Effects, Unpaid, NothingTaken
    <3> QED BY <1>1, <1>5, <1>7, <2>1, <3>1 DEF StockFits
  <2>2. CASE job.pc = "deduct" /\ (next.pc = "deduct" =>
               \A i \in DOMAIN taken'[o] : i >= next.line => taken'[o][i] = 0)
    BY <1>1, <1>5, <1>7, <2>2 DEF StockFits
  <2> QED BY <2>1, <2>2
<1>9. JobAt(s)'.event.orderId = o /\ Fits("stock", JobAt(s)', Data(o)')
  BY <1>2, <1>8 DEF Fits
<1>10. Clean(JobAt(s), Data(o))' /\ JobAt(s)'.pc # "idle"
  BY <1>2 DEF Clean
<1> HIDE DEF s, o
<1> QED BY <1>1, <1>3, <1>4, <1>6, <1>9, <1>10, TokenWorks

\* A line that was not taken yet is taken at most once.
LEMMA DecrementOnce ==
  ASSUME TypeOK, NEW o \in Orders, NEW i \in Lines(o), Decrement(o, i),
         \A j \in DOMAIN taken[o] : taken[o][j] <= 1,
         \A j \in DOMAIN taken[o] : j >= i => taken[o][j] = 0
  PROVE  /\ \A x \in Orders \ {o} : taken'[x] = taken[x]
         /\ \A j \in DOMAIN taken'[o] : taken'[o][j] <= 1
         /\ \A j \in DOMAIN taken'[o] : j >= i + 1 => taken'[o][j] = 0
<1>1. taken[o] \in [Lines(o) -> Nat] /\ DOMAIN taken = Orders /\ i \in Nat
      /\ \A j \in Lines(o) : j \in Nat
  BY LinesOf DEF TypeOK, StockTypeOK
<1>2. CASE taken' = taken
  <2>1. DOMAIN taken[o] = Lines(o) /\ \A j \in Lines(o) : j >= i + 1 => j >= i
    BY <1>1
  <2>2. \A j \in Lines(o) : j >= i + 1 => taken[o][j] = 0
    BY <2>1
  <2> QED BY <1>2, <2>1, <2>2
<1>3. CASE taken' = [taken EXCEPT ![o] = [taken[o] EXCEPT ![i] = @ + 1]]
  <2>1. taken'[o] = [taken[o] EXCEPT ![i] = @ + 1] /\ \A x \in Orders \ {o} : taken'[x] = taken[x]
    BY <1>1, <1>3
  <2>2. /\ DOMAIN taken'[o] = Lines(o)
        /\ taken'[o][i] = taken[o][i] + 1
        /\ \A j \in Lines(o) \ {i} : taken'[o][j] = taken[o][j]
    BY <1>1, <2>1
  <2>3. taken[o][i] = 0
    BY <1>1
  <2>4. ASSUME NEW j \in Lines(o) PROVE taken'[o][j] <= 1 /\ (j >= i + 1 => taken'[o][j] = 0)
    <3>1. j \in Nat /\ taken[o][j] <= 1 /\ (j >= i => taken[o][j] = 0)
      BY <1>1
    <3>2. CASE j = i
      BY <1>1, <2>2, <2>3, <3>2
    <3>3. CASE j # i
      BY <1>1, <2>2, <3>1, <3>3
    <3> QED BY <3>2, <3>3
  <2> QED BY <2>1, <2>2, <2>4
<1> QED BY <1>2, <1>3 DEF Decrement

\* Where a job goes from a line.
LEMMA LineGoesTo ==
  ASSUME NEW job \in BusyStockWorker
  PROVE  /\ NextLine(job).event = job.event
         /\ NextLine(job).pc \in {job.pc, "emit"}
         /\ NextLine(job).pc # "emit" => NextLine(job).line = job.line + 1
         /\ NextLine(job).pc # job.pc => NextLine(job).success
         /\ Failed(job).event = job.event /\ Failed(job).pc = "emit"
<1>1. Failed(job).event = job.event /\ Failed(job).pc = "emit"
  BY DEF Failed, BusyStockWorker
<1>2. CASE job.line = Len(cart[job.event.orderId].items)
  <2>1. NextLine(job) = [job EXCEPT !.pc = "emit", !.success = TRUE]
    BY <1>2 DEF NextLine
  <2> QED BY <1>1, <2>1 DEF BusyStockWorker
<1>3. CASE job.line # Len(cart[job.event.orderId].items)
  <2>1. NextLine(job) = [job EXCEPT !.line = @ + 1]
    BY <1>3 DEF NextLine
  <2> QED BY <1>1, <2>1 DEF BusyStockWorker
<1> QED BY <1>2, <1>3

LEMMA CheckLineMoves ==
  ASSUME TypeOK, StockJobs, TInv, NEW w \in StockWorkers, UNCHANGED <<cart, orderVars, paymentVars>>,
         NoFaults' => NoFaults, CheckLine(w)
  PROVE  TInv'
<1>0. PICK job : stockWorker[w] = job
  OBVIOUS
<1>1. job.pc = "check" /\ UNCHANGED <<taken, bus>>
  BY <1>0 DEF CheckLine
<1>2. job \in BusyStockWorker /\ job.event.topic = "STOCK_CHECK_REQUESTED"
  BY <1>0, <1>1 DEF TypeOK, StockTypeOK, IdleStockWorker, StockJobs, StockJob
<1>3. PICK next \in {NextLine(job), Failed(job)} : stockWorker' = [stockWorker EXCEPT ![w] = next]
  BY <1>0 DEF CheckLine
<1>4. stockWorker'[w] = next /\ \A v \in StockWorkers \ {w} : stockWorker'[v] = stockWorker[v]
  BY <1>3 DEF TypeOK, StockTypeOK
<1>5. next.event = job.event /\ next.pc \in {"check", "emit"} /\ ~Undone(next)
  BY <1>1, <1>2, <1>3, LineGoesTo DEF Undone
<1>6. UNCHANGED <<orderVars, paymentVars, bus>> /\ taken' = taken
  BY <1>1
<1> QED BY <1>0, <1>1, <1>4, <1>5, <1>6, StockWorks

\* The line a handler is at has not been taken.
LEMMA LineNotTaken ==
  ASSUME TypeOK, StockJobs, TInv, NEW w \in StockWorkers,
         NEW job, stockWorker[w] = job, job.pc = "deduct"
  PROVE  LET o == job.event.orderId
         IN  /\ job \in BusyStockWorker /\ o \in Orders /\ job.line \in Lines(o)
             /\ \A j \in DOMAIN taken[o] : taken[o][j] <= 1
             /\ \A j \in DOMAIN taken[o] : j >= job.line => taken[o][j] = 0
<1> DEFINE o == job.event.orderId
<1>1. /\ job \in BusyStockWorker /\ o \in Orders /\ job.line \in Lines(o)
      /\ job.event.topic = "STOCK_DEDUCT_REQUESTED"
      /\ StockFits(job, Data(o)) /\ Once(Data(o))
  BY StockJobAt
<1>2. Data(o).taken = taken[o]
  BY DEF Data
<1> QED BY <1>1, <1>2 DEF StockFits, Once

LEMMA DeductLineMoves ==
  ASSUME TypeOK, StockJobs, TInv, NEW w \in StockWorkers, UNCHANGED <<cart, orderVars, paymentVars>>,
         NoFaults' => NoFaults, DeductLine(w)
  PROVE  TInv'
<1>0. PICK job : stockWorker[w] = job
  OBVIOUS
<1> DEFINE o == job.event.orderId
<1>1. /\ job.pc = "deduct" /\ UNCHANGED bus /\ Decrement(o, job.line)
      /\ stockWorker' = [stockWorker EXCEPT ![w] = NextLine(job)]
  BY <1>0 DEF DeductLine
<1>2. /\ job \in BusyStockWorker /\ o \in Orders /\ job.line \in Lines(o)
      /\ \A j \in DOMAIN taken[o] : taken[o][j] <= 1
      /\ \A j \in DOMAIN taken[o] : j >= job.line => taken[o][j] = 0
  BY <1>0, <1>1, LineNotTaken
<1>3. PICK next : next = NextLine(job)
  OBVIOUS
<1>4. stockWorker'[w] = next /\ \A v \in StockWorkers \ {w} : stockWorker'[v] = stockWorker[v]
  BY <1>1, <1>3 DEF TypeOK, StockTypeOK
<1>5. /\ next.event = job.event /\ next.pc \in {"deduct", "emit"}
      /\ next.pc = "deduct" => next.line = job.line + 1
      /\ next.pc = "emit" => next.success
  BY <1>1, <1>2, <1>3, LineGoesTo
<1>8. ~Undone(next)
  <2>1. job.event.topic = "STOCK_DEDUCT_REQUESTED"
    BY <1>0, <1>1, StockJobAt
  <2> QED BY <1>5, <2>1 DEF Undone
<1>6. /\ \A x \in Orders \ {o} : taken'[x] = taken[x]
      /\ \A j \in DOMAIN taken'[o] : taken'[o][j] <= 1
      /\ \A j \in DOMAIN taken'[o] : j >= job.line + 1 => taken'[o][j] = 0
  BY <1>1, <1>2, DecrementOnce
<1>7. UNCHANGED <<orderVars, paymentVars, bus>> /\ job.pc # "idle"
  BY <1>1
<1> QED BY <1>0, <1>1, <1>4, <1>5, <1>6, <1>7, <1>8, StockWorks

LEMMA DeductThrowsMoves ==
  ASSUME TypeOK, StockJobs, TInv, NEW w \in StockWorkers, UNCHANGED <<cart, orderVars, paymentVars>>,
         NoFaults' => NoFaults, DeductThrows(w)
  PROVE  TInv'
<1>0. PICK job : stockWorker[w] = job
  OBVIOUS
<1> DEFINE o == job.event.orderId
<1>1. /\ job.pc = "deduct" /\ UNCHANGED bus /\ (Decrement(o, job.line) \/ taken' = taken)
      /\ stockWorker' = [stockWorker EXCEPT ![w] = Failed(job)]
  BY <1>0 DEF DeductThrows
<1>2. /\ job \in BusyStockWorker /\ o \in Orders /\ job.line \in Lines(o)
      /\ \A j \in DOMAIN taken[o] : taken[o][j] <= 1
      /\ \A j \in DOMAIN taken[o] : j >= job.line => taken[o][j] = 0
  BY <1>0, <1>1, LineNotTaken
<1>3. PICK next : next = Failed(job)
  OBVIOUS
<1>4. stockWorker'[w] = next /\ \A v \in StockWorkers \ {w} : stockWorker'[v] = stockWorker[v]
  BY <1>1, <1>3 DEF TypeOK, StockTypeOK
<1>5. next.event = job.event /\ next.pc = "emit"
  BY <1>2, <1>3, LineGoesTo
<1>6. /\ \A x \in Orders \ {o} : taken'[x] = taken[x]
      /\ \A j \in DOMAIN taken'[o] : taken'[o][j] <= 1
  BY <1>1, <1>2, DecrementOnce
<1>7. UNCHANGED <<orderVars, paymentVars, bus>> /\ job.pc # "idle"
  BY <1>1
<1>8. ~NoFaults'
  BY FaultCounts DEF DeductThrows, FaultKinds
<1> QED BY <1>0, <1>1, <1>4, <1>5, <1>6, <1>7, <1>8, StockWorks

LEMMA EmitStockMoves ==
  ASSUME TypeOK, StockJobs, TInv, NEW w \in StockWorkers, UNCHANGED <<cart, orderVars, paymentVars>>,
         NoFaults' => NoFaults, EmitStockResult(w)
  PROVE  TInv'
<1>0. PICK job : stockWorker[w] = job
  OBVIOUS
<1> DEFINE s == <<"stock", w>>
           o == job.event.orderId
           e == Result(ResultTopicOf(job.event), o, job.success)
           S == {e}
<1>1. /\ job.pc = "emit" /\ Emit(S) /\ taken' = taken
      /\ stockWorker' = [stockWorker EXCEPT ![w] = IdleStockWorker]
  BY <1>0 DEF EmitStockResult
<1>2. /\ s \in Spots /\ s[1] = "stock" /\ o \in Orders /\ job \in BusyStockWorker
      /\ job.event.topic \in {"STOCK_CHECK_REQUESTED", "STOCK_DEDUCT_REQUESTED"}
      /\ JobAt(s) = job /\ HasToken(s, o) /\ StockFits(job, Data(o)) /\ Once(Data(o))
      /\ Clean(job, Data(o))
  BY <1>0, <1>1, StockJobAt
<1>3. /\ e \in SagaEvents /\ e \in Events /\ e.orderId = o
      /\ e.topic = IF job.event.topic = "STOCK_CHECK_REQUESTED"
                   THEN "STOCK_CHECK_RESULT" ELSE "STOCK_DEDUCT_RESULT"
  BY <1>2 DEF SagaEvents, Events, Results, Result, ResultTopicOf, ResultTopics, NoticeTopics, BusyStockWorker
<1>4. S \in SUBSET Events /\ (\A f \in S : f.orderId = o) 
      /\ \A f, g \in S : f \in SagaEvents /\ g \in SagaEvents => f = g
  BY <1>3
<1>5. /\ stockWorker'[w].pc = "idle"
      /\ \A v \in StockWorkers \ {w} : stockWorker'[v] = stockWorker[v]
  BY <1>1 DEF TypeOK, StockTypeOK, IdleStockWorker
<1>6. \A p \in Spots \ {s} : p[1] # "bus" => JobAt(p)' = JobAt(p)
  BY <1>5, OtherSpotsOfStock
<1>7. JobAt(s)'.pc = "idle"
  BY <1>5 DEF JobAt
<1>8. \A f \in Events \ S : bus'[f] = bus[f]
  BY <1>1, <1>2, <1>4, SentToBus
<1>9. \A q \in Orders : Data(q)' = Data(q)
  <2>1. ASSUME NEW q \in Orders
        PROVE  /\ bus'[Request("COMPLETED", q)] = bus[Request("COMPLETED", q)]
               /\ bus'[Request("FAILED", q)] = bus[Request("FAILED", q)]
    BY <1>3, <1>8, RequestIs DEF NoticeTopics, SagaEvents
  <2> QED BY <1>1, <2>1, RowsKept, DataKept
<1>10. Effects(e, Data(o)) /\ Shown(e, Data(o))
  <2>1. CASE job.event.topic = "STOCK_CHECK_REQUESTED"
    BY <1>2, <1>3, <2>1 DEF StockFits, Effects, Shown, StepOf, BeforePayment, BeforeDeduction, AfterPayment
  <2>2. CASE job.event.topic = "STOCK_DEDUCT_REQUESTED"
    BY <1>2, <1>3, <2>2 DEF StockFits, Effects, Shown, StepOf, BeforePayment, BeforeDeduction, AfterPayment
  <2> QED BY <1>2, <2>1, <2>2
<1>11. \A f \in S : f \in SagaEvents =>
         /\ Effects(f, Data(o)') /\ Shown(f, Data(o)')
         /\ NoFaults' /\ Undone([pc |-> "waits", event |-> f]) => NothingTaken(Data(o)')
  <2>1. Undone([pc |-> "waits", event |-> e]) => Undone(job)
    BY <1>1, <1>2, <1>3 DEF Undone, Result
  <2> QED BY <1>2, <1>9, <1>10, <2>1 DEF Clean
<1>12. Once(Data(o)') /\ \A q \in Orders \ {o} : Data(q)' = Data(q)
  BY <1>2, <1>9
<1>13. \E f \in S : f \in SagaEvents
  BY <1>3
<1> HIDE DEF s, o, e, S
<1> QED BY <1>1, <1>2, <1>4, <1>6, <1>7, <1>11, <1>12, <1>13, TokenSent

\* What the operators do concerns no saga.
LEMMA OperatorStepMoves ==
  ASSUME TypeOK, TInv, UNCHANGED <<cart, orderVars, paymentVars>>,
         NoFaults' => NoFaults, OperatorStep
  PROVE  TInv'
<1>1. UNCHANGED <<bus, taken, stockWorker>>
  BY OperatorMoves DEF TypeOK
<1>2. \A r \in Spots : JobAt(r)' = JobAt(r)
  BY <1>1, JobKept DEF orderVars, paymentVars
<1>3. \A q \in Orders : Data(q)' = Data(q)
  BY <1>1, RowsKept, DataKept
<1> QED BY <1>1, <1>2, <1>3, TokenStays

-----------------------------------------------------------------------------
(* The steps of payment-service.                                           *)

\* What a busy consumer of payment-service holds.
LEMMA PaymentAt ==
  ASSUME TypeOK, PaymentJobs, NEW w \in PaymentWorkers,
         NEW job, paymentWorker[w] = job, job.pc # "idle"
  PROVE  LET s == <<"payment", w>>
             o == job.event.orderId
         IN  /\ s \in Spots /\ s[1] = "payment" /\ s[2] = w
             /\ job \in BusyPaymentWorker /\ job.event \in Requests /\ o \in Orders
             /\ JobAt(s) = job /\ HasToken(s, o)
             /\ job.payment \in Rows(o)
<1> DEFINE s == <<"payment", w>>
           o == job.event.orderId
<1>1. job \in BusyPaymentWorker /\ job # IdlePaymentWorker
  BY DEF TypeOK, PaymentTypeOK, IdlePaymentWorker
<1>2. job.event \in Requests /\ o \in Orders /\ job.payment \in PaymentIds
  BY <1>1 DEF BusyPaymentWorker, Requests
<1>3. job.payment \in Rows(o)
  BY <1>1, <1>2 DEF PaymentJobs, Rows, TypeOK, PaymentTypeOK
<1>4. s \in Spots /\ s[1] = "payment" /\ s[2] = w /\ JobAt(s) = job
  BY SpotsOf DEF JobAt
<1> QED BY <1>1, <1>2, <1>3, <1>4 DEF HasToken

LEMMA PaymentJobAt ==
  ASSUME TypeOK, PaymentJobs, TInv, NEW w \in PaymentWorkers,
         NEW job, paymentWorker[w] = job, job.pc # "idle"
  PROVE  LET s == <<"payment", w>>
             o == job.event.orderId
         IN  /\ s \in Spots /\ s[1] = "payment" /\ s[2] = w
             /\ job \in BusyPaymentWorker /\ job.event \in Requests /\ o \in Orders
             /\ JobAt(s) = job /\ HasToken(s, o)
             /\ PaymentFits(job, Data(o)) /\ Once(Data(o)) /\ Clean(job, Data(o))
             /\ job.payment \in Rows(o)
<1> DEFINE s == <<"payment", w>>
           o == job.event.orderId
<1>1. s \in Spots /\ s[1] = "payment" /\ o \in Orders /\ JobAt(s) = job /\ HasToken(s, o)
  BY PaymentAt
<1>2. Fits("payment", job, Data(o)) /\ Once(Data(o)) /\ Clean(job, Data(o))
  BY <1>1 DEF TInv, Token
<1> QED BY <1>2, PaymentAt DEF Fits

\* The other spots off the bus when one consumer of payment-service steps.
LEMMA OtherSpotsOfPayment ==
  ASSUME NEW w \in PaymentWorkers, UNCHANGED <<orderVars, stockVars>>,
         \A v \in PaymentWorkers \ {w} : paymentWorker'[v] = paymentWorker[v]
  PROVE  \A p \in Spots \ {<<"payment", w>>} : p[1] # "bus" => JobAt(p)' = JobAt(p)
<1> TAKE p \in Spots \ {<<"payment", w>>}
<1>1. p[1] = "payment" => p[2] \in PaymentWorkers \ {w}
  BY SpotIs
<1> QED BY <1>1, JobKept DEF orderVars, stockVars

\* The other two databases are as they were.
LEMMA OthersKept ==
  ASSUME UNCHANGED <<orderVars, stockVars>>, NEW q \in Orders
  PROVE  taken'[q] = taken[q] /\ orders'[q] = orders[q] /\ sagas'[q] = sagas[q]
BY DEF orderVars, stockVars

\* A row that is inserted is a row of its order and of no other.
LEMMA RowInserted ==
  ASSUME TypeOK, NEW p \in PaymentIds, payments[p] = NoPayment, NEW o \in Orders,
         payments' = [payments EXCEPT ![p] = [orderId |-> o, status |-> "PENDING"]]
  PROVE  /\ Rows(o)' = Rows(o) \cup {p}
         /\ \A q \in Orders \ {o} : Rows(q)' = Rows(q) /\ Money(q)' = Money(q)
<1>1. /\ payments'[p] = [orderId |-> o, status |-> "PENDING"]
      /\ \A r \in PaymentIds \ {p} : payments'[r] = payments[r]
  BY DEF TypeOK, PaymentTypeOK
<1>2. payments'[p] # NoPayment /\ payments'[p].orderId = o
  BY <1>1 DEF NoPayment
<1>3. Rows(o)' = Rows(o) \cup {p}
  BY <1>1, <1>2 DEF Rows
<1>4. ASSUME NEW q \in Orders \ {o} PROVE Rows(q)' = Rows(q) /\ Money(q)' = Money(q)
  <2>1. Rows(q)' = Rows(q) /\ p \notin Rows(q)
    BY <1>1, <1>2 DEF Rows
  <2>2. \A r \in Rows(q) : payments'[r] = payments[r]
    BY <1>1, <2>1 DEF Rows
  <2> QED BY <2>1, <2>2 DEF Money
<1> QED BY <1>3, <1>4

WithStatus(row, status) == [row EXCEPT !.status = status]

\* A row whose status is saved stays a row of its order.
LEMMA RowSaved ==
  ASSUME TypeOK, NEW o \in Orders, NEW p \in Rows(o), NEW status \in PaymentStatus,
         payments' = [payments EXCEPT ![p] = WithStatus(@, status)]
  PROVE  /\ \A q \in Orders : Rows(q)' = Rows(q)
         /\ \A q \in Orders \ {o} : Money(q)' = Money(q)
         /\ payments'[p].status = status
         /\ \A r \in PaymentIds \ {p} : payments'[r] = payments[r]
<1>1. p \in PaymentIds /\ payments[p] \in Payment /\ payments[p].orderId = o
  BY DEF Rows, TypeOK, PaymentTypeOK
<1>2. /\ payments'[p] = [payments[p] EXCEPT !.status = status]
      /\ \A r \in PaymentIds \ {p} : payments'[r] = payments[r]
  BY <1>1 DEF TypeOK, PaymentTypeOK, WithStatus
<1>3. payments'[p].status = status /\ payments'[p].orderId = o /\ payments'[p] # NoPayment
  BY <1>1, <1>2 DEF Payment, NoPayment, PaymentStatus
<1>4. payments[p] # NoPayment
  BY DEF Rows
<1>5. \A q \in Orders : Rows(q)' = Rows(q)
  BY <1>1, <1>2, <1>3, <1>4 DEF Rows
<1>6. ASSUME NEW q \in Orders \ {o} PROVE Money(q)' = Money(q)
  <2>1. \A r \in Rows(q) : payments'[r] = payments[r]
    BY <1>1, <1>2 DEF Rows
  <2> QED BY <1>5, <2>1 DEF Money
<1> QED BY <1>2, <1>3, <1>5, <1>6

LEMMA ReceivePaymentMoves ==
  ASSUME TypeOK, TInv, NEW w \in PaymentWorkers, NEW e \in Requests, NEW p \in PaymentIds,
         UNCHANGED <<cart, orderVars, stockVars>>, NoFaults' => NoFaults, ReceivePayment(w, e, p)
  PROVE  TInv'
<1> DEFINE s == <<"payment", w>>
           o == e.orderId
           job == [pc |-> "fire", event |-> e, payment |-> p, success |-> FALSE]
<1>1. e \in SagaEvents /\ o \in Orders /\ e.topic = "PAYMENT_REQUESTED"
  BY DEF ReceivePayment, SagaEvents, Events, Requests, NoticeTopics
<1>2. s \in Spots /\ s[1] = "payment" /\ s[2] = w
  BY SpotsOf
<1>3. /\ Consume(e) /\ charges' = charges /\ paymentWorker' = [paymentWorker EXCEPT ![w] = job]
      /\ payments[p] = NoPayment /\ paymentWorker[w].pc = "idle"
      /\ payments' = [payments EXCEPT ![p] = [orderId |-> o, status |-> "PENDING"]]
  BY DEF ReceivePayment, IdlePaymentWorker
<1> HIDE DEF job
<1>4. /\ paymentWorker'[w] = job
      /\ \A v \in PaymentWorkers \ {w} : paymentWorker'[v] = paymentWorker[v]
  BY <1>3 DEF TypeOK, PaymentTypeOK
<1>5. \A q \in Spots \ {s} : q[1] # "bus" => JobAt(q)' = JobAt(q)
  BY <1>4, OtherSpotsOfPayment
<1>6. /\ Effects(e, Data(o)) /\ Shown(e, Data(o))
      /\ \A q \in Orders : /\ bus'[Request("COMPLETED", q)] = bus[Request("COMPLETED", q)]
                           /\ bus'[Request("FAILED", q)] = bus[Request("FAILED", q)]
  BY <1>1, <1>3, TakenFromBus
<1>7. /\ Rows(o)' = Rows(o) \cup {p}
      /\ \A q \in Orders \ {o} : Rows(q)' = Rows(q) /\ Money(q)' = Money(q)
  BY <1>1, <1>3, RowInserted
<1>8. \A q \in Orders \ {o} : Data(q)' = Data(q)
  BY <1>3, <1>6, <1>7, OthersKept, DataKept
<1>9. /\ Data(o)'.rows = Data(o).rows \cup {p}
      /\ Data(o)'.charges = Data(o).charges /\ Data(o)'.taken = Data(o).taken
      /\ Data(o)'.notices = Data(o).notices
      /\ Data(o)'.status = Data(o).status /\ Data(o)'.step = Data(o).step
  BY <1>1, <1>3, <1>6, <1>7, OthersKept DEF Data
<1>10. Unpaid(Data(o)) /\ NothingTaken(Data(o)) /\ Data(o).notices = 0
  BY <1>1, <1>6 DEF Effects, BeforePayment, BeforeDeduction
<1>11. Once(Data(o)')
  <2>1. Once(Data(o))
    BY <1>1 DEF TInv, Token
  <2>2. Data(o)'.rows = {p}
    BY <1>9, <1>10 DEF Unpaid
  <2> QED BY <1>9, <2>1, <2>2 DEF Once
<1>12. PaymentFits(job, Data(o)')
  BY <1>1, <1>6, <1>9, <1>10 DEF PaymentFits, Shown, Unpaid, NothingTaken, job
<1>13. JobAt(s)' = job /\ JobAt(s).pc = "idle" /\ job.pc # "idle"
  BY <1>3, <1>4 DEF JobAt, job
<1>14. JobAt(s)'.event.orderId = o /\ Fits("payment", JobAt(s)', Data(o)')
  BY <1>12, <1>13 DEF Fits, job
<1>15. Clean(JobAt(s), Data(o))'
  BY <1>9, <1>10 DEF Clean, NothingTaken
<1> HIDE DEF s
<1> QED BY <1>1, <1>2, <1>3, <1>5, <1>8, <1>11, <1>13, <1>14, <1>15, TokenTaken

LEMMA ReceiveRefundMoves ==
  ASSUME TypeOK, TInv, NEW w \in PaymentWorkers, NEW e \in Requests,
         UNCHANGED <<cart, orderVars, stockVars>>, NoFaults' => NoFaults, ReceiveRefund(w, e)
  PROVE  TInv'
<1> DEFINE s == <<"payment", w>>
           o == e.orderId
<1>1. e \in SagaEvents /\ o \in Orders /\ e.topic = "PAYMENT_REFUND_REQUESTED"
  BY DEF ReceiveRefund, SagaEvents, Events, Requests, NoticeTopics
<1>2. s \in Spots /\ s[1] = "payment" /\ s[2] = w
  BY SpotsOf
<1>3. Consume(e) /\ UNCHANGED <<payments, charges>> /\ paymentWorker[w].pc = "idle"
  BY DEF ReceiveRefund, IdlePaymentWorker
<1>4. /\ Effects(e, Data(o)) /\ Shown(e, Data(o)) /\ Clean([pc |-> "waits", event |-> e], Data(o))
      /\ \A q \in Orders : /\ bus'[Request("COMPLETED", q)] = bus[Request("COMPLETED", q)]
                           /\ bus'[Request("FAILED", q)] = bus[Request("FAILED", q)]
  BY <1>1, <1>3, TakenFromBus
<1>5. /\ paymentWorker'[w].pc = "saveRefund" /\ paymentWorker'[w].event = e
      /\ \A v \in PaymentWorkers \ {w} : paymentWorker'[v] = paymentWorker[v]
  <2>1. Refundable(o) # {}
    BY <1>1, <1>4 DEF Effects, AfterPayment, Data, Money, Rows, Refundable
  <2>2. ASSUME NEW p \in Refundable(o),
               paymentWorker' = [paymentWorker EXCEPT ![w] =
                 [pc |-> "saveRefund", event |-> e, payment |-> p, success |-> TRUE]]
        PROVE  /\ paymentWorker'[w].pc = "saveRefund" /\ paymentWorker'[w].event = e
               /\ \A v \in PaymentWorkers \ {w} : paymentWorker'[v] = paymentWorker[v]
    BY <2>2 DEF TypeOK, PaymentTypeOK
  <2> QED BY <2>1, <2>2 DEF ReceiveRefund
<1>6. \A q \in Spots \ {s} : q[1] # "bus" => JobAt(q)' = JobAt(q)
  BY <1>5, OtherSpotsOfPayment
<1>7. \A q \in Orders : Data(q)' = Data(q)
  <2>1. \A q \in Orders : Rows(q)' = Rows(q) /\ Money(q)' = Money(q)
    BY <1>3 DEF Rows, Money
  <2> QED BY <1>3, <1>4, <2>1, OthersKept, DataKept
<1>8. Once(Data(o)')
  BY <1>1, <1>7 DEF TInv, Token
<1>9. JobAt(s)' = paymentWorker'[w]
  BY DEF JobAt
<1>10. /\ JobAt(s)'.event.orderId = o /\ Fits("payment", JobAt(s)', Data(o)')
       /\ JobAt(s).pc = "idle" /\ JobAt(s)'.pc # "idle"
  BY <1>1, <1>3, <1>4, <1>5, <1>7, <1>9 DEF Fits, PaymentFits, JobAt
<1>11. Clean(JobAt(s), Data(o))'
  BY <1>1, <1>4, <1>7 DEF Clean, Undone
<1> HIDE DEF s
<1> QED BY <1>1, <1>2, <1>3, <1>6, <1>7, <1>8, <1>10, <1>11, TokenTaken

\* processPayment goes on: the gateway answers, or the outcome is saved.
LEMMA PaymentWorks ==
  ASSUME TypeOK, PaymentJobs, TInv, NEW w \in PaymentWorkers, UNCHANGED <<orderVars, stockVars, bus>>,
         NoFaults' => NoFaults,
         NEW job, paymentWorker[w] = job, job.pc \in {"fire", "save"},
         NEW next, paymentWorker'[w] = next, next.event = job.event,
         \A v \in PaymentWorkers \ {w} : paymentWorker'[v] = paymentWorker[v],
         \A q \in Orders : Rows(q)' = Rows(q),
         \A q \in Orders \ {job.event.orderId} : Money(q)' = Money(q) /\ charges'[q] = charges[q],
         LET o == job.event.orderId
         IN  /\ next.pc \in {"save", "emit"}
             /\ charges'[o] <= 1
             /\ ~next.success => charges'[o] = 0
             /\ next.pc = "emit" /\ next.success => Money(o)' = "charged"
  PROVE  TInv'
<1> DEFINE s == <<"payment", w>>
           o == job.event.orderId
<1>1. /\ s \in Spots /\ s[1] = "payment" /\ s[2] = w /\ o \in Orders
      /\ JobAt(s) = job /\ HasToken(s, o)
      /\ PaymentFits(job, Data(o)) /\ Once(Data(o))
  BY PaymentJobAt
<1>2. JobAt(s)' = next
  BY DEF JobAt
<1>3. \A p \in Spots \ {s} : p[1] # "bus" => JobAt(p)' = JobAt(p)
  BY OtherSpotsOfPayment
<1>4. ASSUME NEW q \in Orders \ {o} PROVE Data(q)' = Data(q)
  BY OthersKept, DataKept
<1>5. /\ Data(o)'.rows = Data(o).rows /\ Data(o)'.money = Money(o)'
      /\ Data(o)'.charges = charges'[o] /\ Data(o)'.taken = Data(o).taken
      /\ Data(o)'.notices = Data(o).notices
      /\ Data(o)'.status = Data(o).status /\ Data(o)'.step = Data(o).step
  BY <1>1, OthersKept DEF Data
<1>6. Once(Data(o)')
  BY <1>1, <1>5 DEF Once
<1>7. Shown(next.event, Data(o)')
  BY <1>1, <1>5 DEF PaymentFits, Shown
<1>8. PaymentFits(next, Data(o)')
  BY <1>1, <1>5, <1>7 DEF PaymentFits, NothingTaken
<1>9. JobAt(s)'.event.orderId = o /\ Fits("payment", JobAt(s)', Data(o)')
  BY <1>2, <1>8 DEF Fits
<1>10. Clean(JobAt(s), Data(o))' /\ JobAt(s)'.pc # "idle"
  BY <1>1, <1>2 DEF Clean, Undone, PaymentFits
<1> HIDE DEF s, o
<1> QED BY <1>1, <1>3, <1>4, <1>6, <1>9, <1>10, TokenWorks

LEMMA FireSucceedsMoves ==
  ASSUME TypeOK, PaymentJobs, TInv, NEW w \in PaymentWorkers, UNCHANGED <<cart, orderVars, stockVars>>,
         NoFaults' => NoFaults, FireSucceeds(w)
  PROVE  TInv'
<1>0. PICK job : paymentWorker[w] = job
  OBVIOUS
<1> DEFINE o == job.event.orderId
<1>1. /\ job.pc = "fire" /\ UNCHANGED <<payments, bus>>
      /\ charges' = [charges EXCEPT ![o] = @ + 1]
      /\ paymentWorker' = [paymentWorker EXCEPT ![w] = [job EXCEPT !.pc = "save", !.success = TRUE]]
  BY <1>0 DEF FireSucceeds
<1>2. /\ job \in BusyPaymentWorker /\ o \in Orders /\ PaymentFits(job, Data(o))
  BY <1>0, <1>1, PaymentJobAt
<1>3. PICK next : next = [job EXCEPT !.pc = "save", !.success = TRUE]
  OBVIOUS
<1>4. /\ next.event = job.event /\ next.pc = "save" /\ next.success = TRUE
  BY <1>2, <1>3 DEF BusyPaymentWorker
<1>5. paymentWorker'[w] = next /\ \A v \in PaymentWorkers \ {w} : paymentWorker'[v] = paymentWorker[v]
  BY <1>1, <1>3 DEF TypeOK, PaymentTypeOK
<1>6. charges[o] = 0
  BY <1>1, <1>2 DEF PaymentFits, Data
<1>7. charges'[o] = 1 /\ \A q \in Orders \ {o} : charges'[q] = charges[q]
  BY <1>1, <1>2, <1>6 DEF TypeOK, PaymentTypeOK
<1>8. \A q \in Orders : Rows(q)' = Rows(q) /\ Money(q)' = Money(q)
  BY <1>1 DEF Rows, Money
<1>9. UNCHANGED <<orderVars, stockVars, bus>> /\ job.pc \in {"fire", "save"}
  BY <1>1
<1> QED BY <1>0, <1>4, <1>5, <1>7, <1>8, <1>9, PaymentWorks

LEMMA FireFailsMoves ==
  ASSUME TypeOK, PaymentJobs, TInv, NEW w \in PaymentWorkers, UNCHANGED <<cart, orderVars, stockVars>>,
         NoFaults' => NoFaults, FireFails(w)
  PROVE  TInv'
<1>0. PICK job : paymentWorker[w] = job
  OBVIOUS
<1> DEFINE o == job.event.orderId
<1>1. /\ job.pc = "fire" /\ UNCHANGED <<payments, charges, bus>>
      /\ paymentWorker' = [paymentWorker EXCEPT ![w] = [job EXCEPT !.pc = "save"]]
  BY <1>0 DEF FireFails
<1>2. /\ job \in BusyPaymentWorker /\ o \in Orders /\ PaymentFits(job, Data(o))
  BY <1>0, <1>1, PaymentJobAt
<1>3. PICK next : next = [job EXCEPT !.pc = "save"]
  OBVIOUS
<1>4. next.event = job.event /\ next.pc = "save"
  BY <1>2, <1>3 DEF BusyPaymentWorker
<1>5. paymentWorker'[w] = next /\ \A v \in PaymentWorkers \ {w} : paymentWorker'[v] = paymentWorker[v]
  BY <1>1, <1>3 DEF TypeOK, PaymentTypeOK
<1>6. charges[o] = 0
  BY <1>1, <1>2 DEF PaymentFits, Data
<1>7. \A q \in Orders : Rows(q)' = Rows(q) /\ Money(q)' = Money(q) /\ charges'[q] = charges[q]
  BY <1>1 DEF Rows, Money
<1>8. UNCHANGED <<orderVars, stockVars, bus>> /\ job.pc \in {"fire", "save"}
  BY <1>1
<1>9. charges'[o] = 0
  BY <1>2, <1>6, <1>7
<1> QED BY <1>0, <1>4, <1>5, <1>7, <1>8, <1>9, PaymentWorks

LEMMA SavePaymentMoves ==
  ASSUME TypeOK, PaymentJobs, TInv, NEW w \in PaymentWorkers, UNCHANGED <<cart, orderVars, stockVars>>,
         NoFaults' => NoFaults, SavePayment(w)
  PROVE  TInv'
<1>0. PICK job : paymentWorker[w] = job
  OBVIOUS
<1> DEFINE o == job.event.orderId
           status == IF job.success THEN "COMPLETED" ELSE "FAILED"
<1>1. /\ job.pc = "save" /\ UNCHANGED <<charges, bus>>
      /\ payments' = [payments EXCEPT ![job.payment].status = status]
      /\ paymentWorker' = [paymentWorker EXCEPT ![w].pc = "emit"]
  BY <1>0 DEF SavePayment
<1>2. /\ job \in BusyPaymentWorker /\ o \in Orders /\ PaymentFits(job, Data(o)) /\ Once(Data(o))
      /\ job.payment \in Rows(o)
  BY <1>0, <1>1, PaymentJobAt
<1>3. PICK next : next = paymentWorker'[w]
  OBVIOUS
<1>4. /\ next.event = job.event /\ next.pc = "emit" /\ next.success = job.success
      /\ \A v \in PaymentWorkers \ {w} : paymentWorker'[v] = paymentWorker[v]
  BY <1>0, <1>1, <1>2, <1>3 DEF TypeOK, PaymentTypeOK, BusyPaymentWorker
<1>5. status \in PaymentStatus
  BY DEF PaymentStatus
<1>6. /\ \A q \in Orders : Rows(q)' = Rows(q)
      /\ \A q \in Orders \ {o} : Money(q)' = Money(q)
      /\ payments'[job.payment].status = status
  <2>1. payments' = [payments EXCEPT ![job.payment] = WithStatus(@, status)]
    BY <1>1 DEF WithStatus
  <2>2. PICK p, st, x : p = job.payment /\ st = status /\ x = o
    OBVIOUS
  <2>3. p \in Rows(x) /\ st \in PaymentStatus /\ x \in Orders
    BY <1>2, <1>5, <2>2
  <2>4. payments' = [payments EXCEPT ![p] = WithStatus(@, st)]
    BY <2>1, <2>2
  <2>5. /\ \A q \in Orders : Rows(q)' = Rows(q)
        /\ \A q \in Orders \ {x} : Money(q)' = Money(q)
        /\ payments'[p].status = st
    BY <2>3, <2>4, RowSaved
  <2> QED BY <2>2, <2>5
<1>7. job.success => Money(o)' = "charged"
  <2>1. job.payment \in Rows(o)'
    BY <1>2, <1>6
  <2> QED BY <1>6, <2>1 DEF Money
<1>8. charges[o] <= 1 /\ (~job.success => charges[o] = 0)
  BY <1>1, <1>2 DEF PaymentFits, Once, Data
<1>9. UNCHANGED <<orderVars, stockVars, bus>> /\ job.pc \in {"fire", "save"} /\ charges' = charges
  BY <1>1
<1> QED BY <1>0, <1>3, <1>4, <1>6, <1>7, <1>8, <1>9, PaymentWorks

LEMMA SaveRefundMoves ==
  ASSUME TypeOK, PaymentJobs, TInv, NEW w \in PaymentWorkers, UNCHANGED <<cart, orderVars, stockVars>>,
         NoFaults' => NoFaults, SaveRefund(w)
  PROVE  TInv'
<1>0. PICK job : paymentWorker[w] = job
  OBVIOUS
<1> DEFINE s == <<"payment", w>>
           o == job.event.orderId
<1>1. /\ job.pc = "saveRefund" /\ UNCHANGED <<charges, bus>>
      /\ payments' = [payments EXCEPT ![job.payment].status = "REFUNDED"]
      /\ paymentWorker' = [paymentWorker EXCEPT ![w] = IdlePaymentWorker]
  BY <1>0 DEF SaveRefund
<1>2. /\ s \in Spots /\ s[1] = "payment" /\ o \in Orders /\ HasToken(s, o) /\ Once(Data(o))
      /\ job.payment \in Rows(o) /\ PaymentFits(job, Data(o)) /\ Clean(job, Data(o))
  BY <1>0, <1>1, PaymentJobAt
<1>3. /\ paymentWorker'[w].pc = "idle"
      /\ \A v \in PaymentWorkers \ {w} : paymentWorker'[v] = paymentWorker[v]
  BY <1>1 DEF TypeOK, PaymentTypeOK, IdlePaymentWorker
<1>4. JobAt(s)'.pc = "idle"
  BY <1>3 DEF JobAt
<1>5. \A p \in Spots \ {s} : p[1] # "bus" => JobAt(p)' = JobAt(p)
  BY <1>3, OtherSpotsOfPayment
<1>6. /\ \A q \in Orders : Rows(q)' = Rows(q)
      /\ \A q \in Orders \ {o} : Money(q)' = Money(q)
      /\ payments'[job.payment].status = "REFUNDED"
  <2>1. payments' = [payments EXCEPT ![job.payment] = WithStatus(@, "REFUNDED")]
    BY <1>1 DEF WithStatus
  <2> QED BY <1>2, <2>1, RowSaved DEF PaymentStatus
<1>7. \A q \in Orders \ {o} : Data(q)' = Data(q)
  BY <1>1, <1>6, OthersKept, DataKept
<1>8. /\ Data(o)'.rows = Data(o).rows /\ Data(o)'.charges = Data(o).charges
      /\ Data(o)'.taken = Data(o).taken /\ Data(o)'.notices = Data(o).notices
      /\ Data(o)'.status = Data(o).status /\ Data(o)'.step = Data(o).step
      /\ Data(o)'.money = Money(o)'
  BY <1>1, <1>2, <1>6, OthersKept DEF Data
<1>9. Once(Data(o)')
  BY <1>2, <1>8 DEF Once
<1>10. UNCHANGED bus
  BY <1>1
<1>11. NoFaults' => Ended(Data(o)')
  <2>1. job.event.topic = "PAYMENT_REFUND_REQUESTED" /\ Shown(job.event, Data(o))
    BY <1>1, <1>2 DEF PaymentFits
  <2>2. NoFaults' => NothingTaken(Data(o)')
    BY <1>2, <1>8, <2>1 DEF Clean, Undone, NothingTaken
  <2>3. Rows(o)' = {job.payment}
    BY <1>2, <1>6 DEF Once, Data
  <2>4. Money(o)' = "refunded"
    BY <1>6, <2>3 DEF Money
  <2> QED BY <1>8, <2>1, <2>2, <2>4 DEF Shown, Ended
<1> HIDE DEF s, o
<1> QED BY <1>2, <1>4, <1>5, <1>7, <1>9, <1>10, <1>11, TokenWorks

LEMMA EmitPaymentMoves ==
  ASSUME TypeOK, PaymentJobs, TInv, NEW w \in PaymentWorkers, UNCHANGED <<cart, orderVars, stockVars>>,
         NoFaults' => NoFaults, EmitPaymentResult(w)
  PROVE  TInv'
<1>0. PICK job : paymentWorker[w] = job
  OBVIOUS
<1> DEFINE s == <<"payment", w>>
           o == job.event.orderId
           e == Result("PAYMENT_RESULT", o, job.success)
           S == {e}
<1>1. /\ job.pc = "emit" /\ Emit(S) /\ UNCHANGED <<payments, charges>>
      /\ paymentWorker' = [paymentWorker EXCEPT ![w] = IdlePaymentWorker]
  BY <1>0 DEF EmitPaymentResult
<1>2. /\ s \in Spots /\ s[1] = "payment" /\ o \in Orders /\ job \in BusyPaymentWorker
      /\ JobAt(s) = job /\ HasToken(s, o) /\ PaymentFits(job, Data(o)) /\ Once(Data(o))
  BY <1>0, <1>1, PaymentJobAt
<1>3. /\ e \in SagaEvents /\ e \in Events /\ e.orderId = o
      /\ e.topic = "PAYMENT_RESULT" /\ e.success = job.success
  BY <1>2 DEF SagaEvents, Events, Results, Result, ResultTopics, NoticeTopics, BusyPaymentWorker
<1>4. S \in SUBSET Events /\ (\A f \in S : f.orderId = o) 
      /\ \A f, g \in S : f \in SagaEvents /\ g \in SagaEvents => f = g
  BY <1>3
<1>5. /\ paymentWorker'[w].pc = "idle"
      /\ \A v \in PaymentWorkers \ {w} : paymentWorker'[v] = paymentWorker[v]
  BY <1>1 DEF TypeOK, PaymentTypeOK, IdlePaymentWorker
<1>6. \A p \in Spots \ {s} : p[1] # "bus" => JobAt(p)' = JobAt(p)
  BY <1>5, OtherSpotsOfPayment
<1>7. JobAt(s)'.pc = "idle"
  BY <1>5 DEF JobAt
<1>8. \A f \in Events \ S : bus'[f] = bus[f]
  BY <1>1, <1>2, <1>4, SentToBus
<1>9. \A q \in Orders : Data(q)' = Data(q)
  <2>1. ASSUME NEW q \in Orders
        PROVE  /\ bus'[Request("COMPLETED", q)] = bus[Request("COMPLETED", q)]
               /\ bus'[Request("FAILED", q)] = bus[Request("FAILED", q)]
    BY <1>3, <1>8, RequestIs DEF NoticeTopics, SagaEvents
  <2>2. \A q \in Orders : Rows(q)' = Rows(q) /\ Money(q)' = Money(q)
    BY <1>1 DEF Rows, Money
  <2> QED BY <1>1, <2>1, <2>2, OthersKept, DataKept
<1>10. Effects(e, Data(o)) /\ Shown(e, Data(o))
  BY <1>1, <1>2, <1>3 DEF PaymentFits, Effects, Shown, StepOf, BeforePayment, BeforeDeduction, AfterPayment
<1>11. \A f \in S : f \in SagaEvents =>
         /\ Effects(f, Data(o)') /\ Shown(f, Data(o)')
         /\ NoFaults' /\ Undone([pc |-> "waits", event |-> f]) => NothingTaken(Data(o)')
  BY <1>2, <1>3, <1>9, <1>10 DEF Undone
<1>12. Once(Data(o)') /\ \A q \in Orders \ {o} : Data(q)' = Data(q)
  BY <1>2, <1>9
<1>13. \E f \in S : f \in SagaEvents
  BY <1>3
<1> HIDE DEF s, o, e, S
<1> QED BY <1>1, <1>2, <1>4, <1>6, <1>7, <1>11, <1>12, <1>13, TokenSent

-----------------------------------------------------------------------------
(* The invariant.                                                          *)

\* A redelivery is counted.
LEMMA RedeliveryCounts ==
  ASSUME TypeOK, NEW e, Redeliver(e)
  PROVE  ~NoRedelivery'
BY DEF TypeOK, BusTypeOK, Redeliver, Fault, FaultKinds, NoRedelivery

\* What a step does to the budget of faults.
LEMMA FaultsGrow ==
  ASSUME Next
  PROVE  faults' = faults \/ \E k \in FaultKinds : Fault(k)
<1> USE DEF FaultKinds
<1>1. ASSUME NEW S, Emit(S) PROVE faults' = faults \/ \E k \in FaultKinds : Fault(k)
  BY <1>1 DEF Emit
<1>2. CASE OrderNext
  <2>1. ASSUME NEW o \in Orders,
               CreateOrder(o) \/ CreateSaga(o) \/ CreateEmit(o) \/ CreateThrows(o)
        PROVE  faults' = faults \/ \E k \in FaultKinds : Fault(k)
    BY <1>1, <2>1 DEF CreateOrder, CreateSaga, CreateEmit, CreateThrows
  <2>2. ASSUME NEW w \in OrderWorkers, OrderWorkerStep(w) \/ RedeliverResult(w)
        PROVE  faults' = faults \/ \E k \in FaultKinds : Fault(k)
    BY <1>1, <2>2 DEF OrderWorkerStep, SaveSaga, SaveOrder, EmitNext, RedeliverResult, Redeliver
  <2> QED BY <1>2, <2>1, <2>2 DEF OrderNext, ReceiveResult
<1>3. CASE StockNext
  <2>1. ASSUME NEW w \in StockWorkers,
               StockWorkerStep(w) \/ DeductThrows(w) \/ RedeliverStockRequest(w)
        PROVE  faults' = faults \/ \E k \in FaultKinds : Fault(k)
    BY <1>1, <2>1 DEF StockWorkerStep, CheckLine, DeductLine, EmitStockResult, DeductThrows,
                      RedeliverStockRequest, Redeliver
  <2>2. OperatorStep => faults' = faults
    BY DEF OperatorStep, RemoveProduct, FindToPatch, SavePatch
  <2> QED BY <1>3, <2>1, <2>2 DEF StockNext, ReceiveStockRequest
<1>4. CASE PaymentNext
  <2>1. ASSUME NEW w \in PaymentWorkers, PaymentWorkerStep(w) \/ RedeliverPaymentRequest(w)
        PROVE  faults' = faults \/ \E k \in FaultKinds : Fault(k)
    BY <1>1, <2>1 DEF PaymentWorkerStep, FireSucceeds, FireFails, SavePayment, EmitPaymentResult,
                      SaveRefund, RedeliverPaymentRequest, Redeliver
  <2> QED BY <1>4, <2>1 DEF PaymentNext, ReceivePaymentRequest, ReceivePayment, ReceiveRefund
<1> QED BY <1>2, <1>3, <1>4 DEF Next

\* Faults are never forgotten.
LEMMA FaultsStay ==
  ASSUME TypeOK, [Next]_vars
  PROVE  (NoRedelivery' => NoRedelivery) /\ (NoFaults' => NoFaults)
<1>1. faults \in [FaultKinds -> Nat] /\ "redeliver" \in FaultKinds
  BY DEF TypeOK, BusTypeOK, FaultKinds
<1>2. CASE faults' = faults
  BY <1>2 DEF NoRedelivery, NoFaults
<1>3. ASSUME NEW k \in FaultKinds, Fault(k) PROVE NoRedelivery' => NoRedelivery
  BY <1>1, <1>3 DEF Fault, NoRedelivery
<1>4. ASSUME NEW k \in FaultKinds, Fault(k) PROVE ~NoFaults'
  BY <1>4, FaultCounts
<1> QED BY <1>2, <1>3, <1>4, FaultsGrow DEF vars

\* Every step without redelivery moves at most one token.
LEMMA StepToken ==
  ASSUME IInv, TInv, [Next]_vars, NoRedelivery'
  PROVE  TInv'
<1> USE DEF IInv
<1>0. NoFaults' => NoFaults
  BY FaultsStay
<1>1. CASE UNCHANGED vars
  <2>1. UNCHANGED <<bus, orderVars, stockVars, paymentVars>>
    BY <1>1 DEF vars
  <2>2. \A p \in Spots : JobAt(p)' = JobAt(p)
    BY <2>1, JobKept DEF orderVars, stockVars, paymentVars
  <2>3. \A q \in Orders : Data(q)' = Data(q)
    BY <2>1, RowsKept, DataKept DEF stockVars
  <2> QED BY <1>0, <2>1, <2>2, <2>3, TokenStays
<1>2. CASE OrderNext /\ UNCHANGED <<cart, stockVars, paymentVars>>
  <2>1. ASSUME NEW o \in Orders,
               CreateOrder(o) \/ CreateSaga(o) \/ CreateEmit(o) \/ CreateThrows(o)
        PROVE  TInv'
    BY <1>0, <1>2, <2>1, CreateMoves, CreateEmitMoves
  <2>2. ASSUME NEW w \in OrderWorkers, NEW e \in Results, ReceiveResult(w, e)
        PROVE  TInv'
    BY <1>0, <1>2, <2>2, ReceiveResultMoves
  <2>3. ASSUME NEW w \in OrderWorkers, OrderWorkerStep(w) \/ RedeliverResult(w)
        PROVE  TInv'
    BY <1>0, <1>2, <2>3, SaveSagaMoves, SaveOrderMoves, EmitNextMoves, RedeliveryCounts
       DEF OrderWorkerStep, RedeliverResult
  <2> QED BY <1>2, <2>1, <2>2, <2>3 DEF OrderNext
<1>3. CASE StockNext /\ UNCHANGED <<cart, orderVars, paymentVars>>
  <2>1. ASSUME NEW w \in StockWorkers, NEW e \in Requests, ReceiveStockRequest(w, e)
        PROVE  TInv'
    BY <1>0, <1>3, <2>1, ReceiveStockMoves
  <2>2. ASSUME NEW w \in StockWorkers,
               StockWorkerStep(w) \/ DeductThrows(w) \/ RedeliverStockRequest(w)
        PROVE  TInv'
    BY <1>0, <1>3, <2>2, CheckLineMoves, DeductLineMoves, DeductThrowsMoves, EmitStockMoves,
       RedeliveryCounts DEF StockWorkerStep, RedeliverStockRequest
  <2>3. ASSUME OperatorStep
        PROVE  TInv'
    BY <1>0, <1>3, <2>3, OperatorStepMoves
  <2> QED BY <1>3, <2>1, <2>2, <2>3 DEF StockNext
<1>4. CASE PaymentNext /\ UNCHANGED <<cart, orderVars, stockVars>>
  <2>1. ASSUME NEW w \in PaymentWorkers, NEW e \in Requests, ReceivePaymentRequest(w, e)
        PROVE  TInv'
    BY <1>0, <1>4, <2>1, ReceivePaymentMoves, ReceiveRefundMoves DEF ReceivePaymentRequest
  <2>2. ASSUME NEW w \in PaymentWorkers, PaymentWorkerStep(w) \/ RedeliverPaymentRequest(w)
        PROVE  TInv'
    BY <1>0, <1>4, <2>2, FireSucceedsMoves, FireFailsMoves, SavePaymentMoves, EmitPaymentMoves,
       SaveRefundMoves, RedeliveryCounts DEF PaymentWorkerStep, RedeliverPaymentRequest
  <2> QED BY <1>4, <2>1, <2>2 DEF PaymentNext
<1>5. CASE Next
  <2>1. UNCHANGED cart
    BY <1>5 DEF Next
  <2> QED BY <1>2, <1>3, <1>4, <1>5, <2>1 DEF Next
<1> QED BY <1>1, <1>5

LEMMA InitToken == Init => TInv
<1> SUFFICES ASSUME Init PROVE TInv
  OBVIOUS
<1> USE DEF Init, BusInit, OrderInit, StockInit, PaymentInit
<1>1. \A e \in Events : bus[e] = 0
  OBVIOUS
<1>2. SingleCopies
  BY <1>1 DEF SingleCopies, SagaEvents
<1>3. ASSUME NEW o \in Orders PROVE Token(o)
  <2>1. ASSUME NEW p \in Spots, HasToken(p, o)
        PROVE  p = <<"post", o>> /\ JobAt(p) = [pc |-> "none", event |-> FirstEvent(o)]
    <3>1. p[1] # "bus"
      BY <1>1, <2>1, SpotIs DEF HasToken, JobAt, NoJob, SagaEvents
    <3>2. p[1] = "post"
      BY <2>1, <3>1, SpotIs DEF HasToken, JobAt, IdleOrderWorker, IdleStockWorker, IdlePaymentWorker
    <3>3. JobAt(p) = [pc |-> "none", event |-> FirstEvent(p[2])] /\ p[2] \in Orders
      BY <3>2, SpotIs DEF JobAt
    <3> QED BY <2>1, <3>2, <3>3, SpotIs DEF HasToken, FirstEvent, Request
  <2>2. /\ Data(o).rows = {} /\ Data(o).charges = 0 /\ Data(o).taken = [i \in Lines(o) |-> 0]
        /\ Data(o).status = "NONE" /\ Data(o).step = "NONE" /\ Data(o).notices = 0
    <3>1. Rows(o) = {} /\ taken[o] = [i \in Lines(o) |-> 0] /\ charges[o] = 0
      BY DEF Rows
    <3>2. bus[Request("COMPLETED", o)] = 0 /\ bus[Request("FAILED", o)] = 0
      BY <1>1, RequestIs DEF NoticeTopics
    <3> QED BY <3>1, <3>2 DEF Data, NoSaga
  <2>3. Once(Data(o))
    BY <2>2 DEF Once
  <2>4. PostFits([pc |-> "none", event |-> FirstEvent(o)], Data(o))
    BY <2>2 DEF PostFits, Effects, Unpaid, NothingTaken, FirstEvent, Request, AfterPayment
  <2>5. ASSUME NEW p \in Spots, HasToken(p, o)
        PROVE  Fits(p[1], JobAt(p), Data(o)) /\ Clean(JobAt(p), Data(o))
    BY <2>1, <2>2, <2>4, <2>5 DEF Fits, Clean, NothingTaken
  <2>6. <<"post", o>> \in Spots /\ HasToken(<<"post", o>>, o)
    BY SpotsOf DEF HasToken, JobAt, FirstEvent, Request
  <2> QED BY <2>1, <2>3, <2>5, <2>6 DEF Token
<1> QED BY <1>2, <1>3 DEF TInv

TokenInv == NoRedelivery => TInv

LEMMA NextTokenInv == IInv /\ TokenInv /\ [Next]_vars => TokenInv'
BY StepToken, FaultsStay DEF TokenInv, IInv

\* As long as nothing is delivered twice, sagas are tokens.
THEOREM SagasAreTokens == Spec => []TokenInv
<1>1. Init => TokenInv
  BY InitToken DEF TokenInv
<1> QED BY <1>1, NextTokenInv, Invariance, PTL DEF Spec

-----------------------------------------------------------------------------
(* At most once.                                                           *)

LEMMA AtMostOneElement ==
  ASSUME NEW S, \A x, y \in S : x = y
  PROVE  Cardinality(S) <= 1
<1>1. CASE S = {}
  BY <1>1, FS_EmptySet
<1>2. CASE S # {}
  <2>1. PICK x \in S : S = {x}
    BY <1>2
  <2> QED BY <2>1, FS_Singleton
<1> QED BY <1>1, <1>2

\* An event in flight is where a token is.
LEMMA InFlightIsToken ==
  ASSUME TypeOK, NEW e \in SagaEvents, InFlight(e)
  PROVE  \E p \in Spots : HasToken(p, e.orderId) /\ JobAt(p).event = e
<1>1. CASE bus[e] > 0
  <2> DEFINE p == <<"bus", e>>
  <2>1. p \in Spots /\ JobAt(p) = [pc |-> "waits", event |-> e]
    BY <1>1, SpotsOf DEF JobAt
  <2>2. HasToken(p, e.orderId) /\ JobAt(p).event = e
    BY <2>1 DEF HasToken
  <2> QED BY <2>1, <2>2
<1>2. CASE HeldByOrder(e)
  <2>1. PICK w \in OrderWorkers : orderWorker[w] # IdleOrderWorker /\ orderWorker[w].event = e
    BY <1>2 DEF HeldByOrder
  <2>2. orderWorker[w].pc # "idle"
    BY <1>2, <2>1 DEF TypeOK, OrderTypeOK, BusyOrderWorker
  <2>3. <<"order", w>> \in Spots /\ JobAt(<<"order", w>>) = orderWorker[w]
    BY SpotsOf DEF JobAt
  <2> QED BY <2>1, <2>2, <2>3 DEF HasToken
<1>3. CASE HeldByStock(e)
  <2>1. PICK w \in StockWorkers : stockWorker[w] # IdleStockWorker /\ stockWorker[w].event = e
    BY <1>3 DEF HeldByStock
  <2>2. stockWorker[w].pc # "idle"
    BY <1>3, <2>1 DEF TypeOK, StockTypeOK, BusyStockWorker
  <2>3. <<"stock", w>> \in Spots /\ JobAt(<<"stock", w>>) = stockWorker[w]
    BY SpotsOf DEF JobAt
  <2> QED BY <2>1, <2>2, <2>3 DEF HasToken
<1>4. CASE HeldByPayment(e)
  <2>1. PICK w \in PaymentWorkers : paymentWorker[w] # IdlePaymentWorker /\ paymentWorker[w].event = e
    BY <1>4 DEF HeldByPayment
  <2>2. paymentWorker[w].pc # "idle"
    BY <1>4, <2>1 DEF TypeOK, PaymentTypeOK, BusyPaymentWorker
  <2>3. <<"payment", w>> \in Spots /\ JobAt(<<"payment", w>>) = paymentWorker[w]
    BY SpotsOf DEF JobAt
  <2> QED BY <2>1, <2>2, <2>3 DEF HasToken
<1> QED BY <1>1, <1>2, <1>3, <1>4 DEF InFlight

LEMMA TokenMeansOnce == IInv /\ TokenInv => AtMostOnce
<1> SUFFICES ASSUME TypeOK, TInv, NEW o \in Orders
             PROVE  /\ Cardinality(Rows(o)) <= 1
                    /\ charges[o] <= 1
                    /\ \A i \in Lines(o) : taken[o][i] <= 1
                    /\ bus[Request("COMPLETED", o)] + bus[Request("FAILED", o)] <= 1
                    /\ Cardinality({e \in Events : e.orderId = o /\ e.topic \notin NoticeTopics
                                                   /\ InFlight(e)}) <= 1
  BY DEF IInv, TokenInv, AtMostOnce
<1>1. Once(Data(o))
  BY DEF TInv, Token
<1>2. /\ \A p, q \in Rows(o) : p = q
      /\ charges[o] <= 1
      /\ \A i \in DOMAIN taken[o] : taken[o][i] <= 1
      /\ bus[Request("COMPLETED", o)] + bus[Request("FAILED", o)] <= 1
  BY <1>1 DEF Once, Data
<1>3. DOMAIN taken[o] = Lines(o)
  BY DEF TypeOK, StockTypeOK
<1> DEFINE S == {e \in Events : e.orderId = o /\ e.topic \notin NoticeTopics /\ InFlight(e)}
<1>4. ASSUME NEW e \in S, NEW f \in S PROVE e = f
  <2>1. e \in SagaEvents /\ f \in SagaEvents /\ InFlight(e) /\ InFlight(f)
        /\ e.orderId = o /\ f.orderId = o
    BY DEF SagaEvents
  <2>2. PICK p \in Spots : HasToken(p, o) /\ JobAt(p).event = e
    BY <2>1, InFlightIsToken
  <2>3. PICK r \in Spots : HasToken(r, o) /\ JobAt(r).event = f
    BY <2>1, InFlightIsToken
  <2>4. p = r
    BY <2>2, <2>3 DEF TInv, Token
  <2> QED BY <2>2, <2>3, <2>4
<1>5. Cardinality(S) <= 1
  BY <1>4, AtMostOneElement
<1>6. Cardinality(Rows(o)) <= 1
  BY <1>2, AtMostOneElement
<1> QED BY <1>2, <1>3, <1>5, <1>6

\* As long as nothing is delivered twice, an order has at most one payment
\* row, one charge, one decrement per line, one announcement and one event
\* at work, whatever is lost or throws and however replicas overtake.
THEOREM EffectsAreSingle == Spec => []AtMostOnce
BY Invariance, SagasAreTokens, TokenMeansOnce, PTL

-----------------------------------------------------------------------------
(* What a customer has seen, and how the saga row goes on.                 *)

\* An order that is being accepted shows nothing yet.
LEMMA NewOrderIs ==
  ASSUME TypeOK, TInv, NEW o \in Orders, CreateOrder(o)
  PROVE  orders[o] = "NONE" /\ orders' = [orders EXCEPT ![o] = "PROCESSING"]
<1>1. creating[o] = "none"
  BY DEF CreateOrder
<1>2. HasToken(<<"post", o>>, o) /\ JobAt(<<"post", o>>).pc = "none"
  BY <1>1, PostToken
<1>3. orders[o] = "NONE"
  BY <1>2, SpotsOf DEF TInv, Token, Fits, PostFits, Data
<1> QED BY <1>3 DEF CreateOrder

\* An order that is being ended shows PROCESSING, and is paid if it is sold.
LEMMA EndedOrderIs ==
  ASSUME TypeOK, TInv, NEW w \in OrderWorkers, SaveOrder(w)
  PROVE  LET job == orderWorker[w]
             o   == job.event.orderId
         IN  /\ o \in Orders /\ orders[o] = "PROCESSING"
             /\ orders' = [orders EXCEPT ![o] = StatusAt(NextStep(job.event))]
             /\ StatusAt(NextStep(job.event)) = "COMPLETED" => Money(o) = "charged"
<1>0. PICK job : orderWorker[w] = job
  OBVIOUS
<1> DEFINE o == job.event.orderId
<1>1. job.pc = "saveOrder" /\ orders' = [orders EXCEPT ![o] = StatusAt(NextStep(job.event))]
  BY <1>0 DEF SaveOrder
<1>2. o \in Orders /\ job.event \in Results /\ OrderFits(job, Data(o))
  BY <1>0, <1>1, OrderJob
<1>3. orders[o] = "PROCESSING" /\ Effects(job.event, Data(o))
  BY <1>1, <1>2 DEF OrderFits, Data
<1>4. ASSUME StatusAt(NextStep(job.event)) = "COMPLETED" PROVE Money(o) = "charged"
  <2>1. job.event.topic = "STOCK_DEDUCT_RESULT"
    BY <1>2, <1>4 DEF StatusAt, NextStep, OnSuccess, OnFailure, Results, ResultTopics
  <2> QED BY <1>3, <2>1 DEF Effects, AfterPayment, Data
<1> QED BY <1>0, <1>1, <1>2, <1>3, <1>4

\* The status column is written by POST /orders and by SaveOrder only.
LEMMA OrdersWritten ==
  ASSUME [Next]_vars
  PROVE  \/ orders' = orders
         \/ \E o \in Orders : CreateOrder(o)
         \/ \E w \in OrderWorkers : SaveOrder(w)
<1>1. CASE OrderNext
  <2>1. ASSUME NEW o \in Orders, CreateSaga(o) \/ CreateEmit(o) \/ CreateThrows(o)
        PROVE  orders' = orders
    BY <2>1 DEF CreateSaga, CreateEmit, CreateThrows
  <2>2. ASSUME NEW w \in OrderWorkers, SaveSaga(w) \/ EmitNext(w) \/ RedeliverResult(w)
        PROVE  orders' = orders
    BY <2>2 DEF SaveSaga, EmitNext, RedeliverResult
  <2> QED BY <1>1, <2>1, <2>2 DEF OrderNext, OrderWorkerStep, ReceiveResult
<1> QED BY <1>1 DEF Next, vars, orderVars

LEMMA StepFinal ==
  ASSUME IInv, TokenInv, [Next]_vars, NEW o \in Orders, NoRedelivery', orders[o] \in Final
  PROVE  orders'[o] = orders[o]
<1>1. TypeOK /\ TInv
  BY FaultsStay DEF IInv, TokenInv
<1>2. orders[o] # "NONE" /\ orders[o] # "PROCESSING"
  BY DEF Final
<1>3. ASSUME NEW q \in Orders, CreateOrder(q) PROVE orders'[o] = orders[o]
  BY <1>1, <1>2, <1>3, NewOrderIs DEF TypeOK, OrderTypeOK
<1>4. ASSUME NEW w \in OrderWorkers, SaveOrder(w) PROVE orders'[o] = orders[o]
  BY <1>1, <1>2, <1>4, EndedOrderIs DEF TypeOK, OrderTypeOK
<1> QED BY <1>3, <1>4, OrdersWritten

\* As long as nothing is delivered twice, no handler overwrites an outcome
\* that GET /orders/:id has shown.
THEOREM OutcomeStays == Spec => OutcomeIsFinal
<1>1. IInv /\ TokenInv /\ [Next]_vars =>
        [\A o \in Orders : NoRedelivery' /\ orders[o] \in Final => orders'[o] = orders[o]]_vars
  BY StepFinal
<1> QED BY <1>1, Invariance, SagasAreTokens, PTL DEF Spec, OutcomeIsFinal

\* The saga row is written by POST /orders and by SaveSaga only.
LEMMA SagasWritten ==
  ASSUME [Next]_vars
  PROVE  \/ sagas' = sagas
         \/ \E o \in Orders : CreateSaga(o) /\ UNCHANGED paymentVars
         \/ \E w \in OrderWorkers : SaveSaga(w) /\ UNCHANGED paymentVars
<1>1. CASE OrderNext /\ UNCHANGED paymentVars
  <2>1. ASSUME NEW o \in Orders, CreateOrder(o) \/ CreateEmit(o) \/ CreateThrows(o)
        PROVE  sagas' = sagas
    BY <2>1 DEF CreateOrder, CreateEmit, CreateThrows
  <2>2. ASSUME NEW w \in OrderWorkers, SaveOrder(w) \/ EmitNext(w) \/ RedeliverResult(w)
        PROVE  sagas' = sagas
    BY <2>2 DEF SaveOrder, EmitNext, RedeliverResult
  <2> QED BY <1>1, <2>1, <2>2 DEF OrderNext, OrderWorkerStep, ReceiveResult
<1> QED BY <1>1 DEF Next, vars, orderVars

\* A handler goes one step on from the step at which its event was sent.
LEMMA StepIsNext ==
  ASSUME NEW e \in Results
  PROVE  /\ NextStep(e) \in StepsAfter[StepOf(e.topic)]
         /\ NextStep(e) = "FAILED" => \/ e.topic = "STOCK_CHECK_RESULT"
                                      \/ e.topic = "PAYMENT_RESULT" /\ ~e.success
BY DEF StepsAfter, NextStep, OnSuccess, OnFailure, StepOf, Results, ResultTopics

LEMMA StepAdvances ==
  ASSUME IInv, TokenInv, [Next]_vars, NEW o \in Orders, NoRedelivery', sagas'[o] # sagas[o]
  PROVE  /\ sagas'[o].currentStep \in StepsAfter[sagas[o].currentStep]
         /\ sagas'[o].currentStep = "FAILED" => charges[o] = 0
<1>1. TypeOK /\ TInv
  BY FaultsStay DEF IInv, TokenInv
<1>2. ASSUME NEW q \in Orders, CreateSaga(q)
      PROVE  /\ sagas'[o].currentStep \in StepsAfter[sagas[o].currentStep]
             /\ sagas'[o].currentStep = "FAILED" => charges[o] = 0
  <2>1. creating[q] = "saveSaga"
    BY <1>2 DEF CreateSaga
  <2>2. HasToken(<<"post", q>>, q) /\ JobAt(<<"post", q>>).pc = "saveSaga"
    BY <1>1, <2>1, PostToken
  <2>3. sagas[q].currentStep = "NONE"
    BY <1>1, <2>2, SpotsOf DEF TInv, Token, Fits, PostFits, Data
  <2>4. q = o /\ sagas'[o].currentStep = "STOCK_CHECK_REQUESTED"
    BY <1>1, <1>2 DEF CreateSaga, TypeOK, OrderTypeOK
  <2> QED BY <2>3, <2>4 DEF StepsAfter
<1>3. ASSUME NEW w \in OrderWorkers, SaveSaga(w)
      PROVE  /\ sagas'[o].currentStep \in StepsAfter[sagas[o].currentStep]
             /\ sagas'[o].currentStep = "FAILED" => charges[o] = 0
  <2>0. PICK job : orderWorker[w] = job
    OBVIOUS
  <2>1. job.pc = "saveSaga" /\ sagas' = [sagas EXCEPT ![job.event.orderId] = job.saga]
    BY <1>3, <2>0 DEF SaveSaga
  <2>2. o = job.event.orderId /\ sagas'[o] = job.saga
    BY <1>1, <2>1 DEF TypeOK, OrderTypeOK
  <2>3. job.event \in Results /\ OrderFits(job, Data(o))
    BY <1>1, <2>0, <2>1, <2>2, OrderJob
  <2>4. /\ sagas[o].currentStep = StepOf(job.event.topic) /\ job.saga.currentStep = NextStep(job.event)
        /\ Effects(job.event, Data(o))
    BY <2>1, <2>3 DEF OrderFits, Data
  <2>5. /\ job.event.topic = "STOCK_CHECK_RESULT" => charges[o] = 0
        /\ job.event.topic = "PAYMENT_RESULT" /\ ~job.event.success => charges[o] = 0
    BY <2>4 DEF Effects, BeforePayment, Unpaid, Data
  <2> QED BY <2>2, <2>3, <2>4, <2>5, StepIsNext
<1> QED BY <1>2, <1>3, SagasWritten

\* As long as nothing is delivered twice, the saga row goes from each step to
\* one that comes next, and it fails only for an order that was not charged.
THEOREM SagaGoesForward == Spec => SagaAdvances
<1>1. IInv /\ TokenInv /\ [Next]_vars =>
        [\A o \in Orders : NoRedelivery' /\ sagas'[o] # sagas[o] =>
           /\ sagas'[o].currentStep \in StepsAfter[sagas[o].currentStep]
           /\ sagas'[o].currentStep = "FAILED" => charges[o] = 0]_vars
  BY StepAdvances
<1> QED BY <1>1, Invariance, SagasAreTokens, PTL DEF Spec, SagaAdvances

-----------------------------------------------------------------------------
(* The contract.                                                           *)

\* The payments table is written by three steps.
LEMMA PaymentsWritten ==
  ASSUME PaymentNext
  PROVE  \/ payments' = payments
         \/ \E w \in PaymentWorkers, e \in Requests, p \in PaymentIds : ReceivePayment(w, e, p)
         \/ \E w \in PaymentWorkers : SavePayment(w)
         \/ \E w \in PaymentWorkers : SaveRefund(w)
<1>1. ASSUME NEW w \in PaymentWorkers,
             FireSucceeds(w) \/ FireFails(w) \/ EmitPaymentResult(w) \/ RedeliverPaymentRequest(w)
      PROVE  payments' = payments
  BY <1>1 DEF FireSucceeds, FireFails, EmitPaymentResult, RedeliverPaymentRequest
<1>2. ASSUME NEW w \in PaymentWorkers, NEW e \in Requests, ReceiveRefund(w, e)
      PROVE  payments' = payments
  BY <1>2 DEF ReceiveRefund
<1> QED BY <1>1, <1>2 DEF PaymentNext, ReceivePaymentRequest, PaymentWorkerStep

\* A row that is inserted shows no money yet.
LEMMA NewRowShowsNothing ==
  ASSUME TypeOK, TInv, NEW w \in PaymentWorkers, NEW e \in Requests, NEW p \in PaymentIds,
         ReceivePayment(w, e, p)
  PROVE  \A q \in Orders : Money(q)' = Money(q)
<1> DEFINE o == e.orderId
<1>1. /\ e \in SagaEvents /\ o \in Orders /\ e.topic = "PAYMENT_REQUESTED" /\ Consume(e)
      /\ payments[p] = NoPayment
      /\ payments' = [payments EXCEPT ![p] = [orderId |-> o, status |-> "PENDING"]]
  BY DEF ReceivePayment, SagaEvents, Events, Requests, NoticeTopics
<1>2. /\ Rows(o)' = Rows(o) \cup {p}
      /\ \A q \in Orders \ {o} : Money(q)' = Money(q)
  BY <1>1, RowInserted
<1>3. Rows(o) = {}
  BY <1>1, TakenFromBus DEF Effects, BeforePayment, Unpaid, Data
<1>4. payments'[p].status = "PENDING"
  BY <1>1 DEF TypeOK, PaymentTypeOK
<1>5. Money(o) = "none" /\ Money(o)' = "none"
  BY <1>2, <1>3, <1>4 DEF Money
<1> QED BY <1>1, <1>2, <1>5

\* The outcome of a payment is saved: a charge, or nothing.
LEMMA SavedPaymentShows ==
  ASSUME IInv, TInv, NEW w \in PaymentWorkers, SavePayment(w)
  PROVE  \/ \A q \in Orders : Money(q)' = Money(q)
         \/ \E o \in Orders : /\ orders[o] = "PROCESSING" /\ Money(o) = "none"
                              /\ Money(o)' = "charged"
                              /\ \A q \in Orders \ {o} : Money(q)' = Money(q)
<1>0. PICK job : paymentWorker[w] = job
  OBVIOUS
<1> DEFINE o == job.event.orderId
           status == IF job.success THEN "COMPLETED" ELSE "FAILED"
<1>1. /\ job.pc = "save"
      /\ payments' = [payments EXCEPT ![job.payment].status = status]
  BY <1>0 DEF SavePayment
<1>2. /\ o \in Orders /\ PaymentFits(job, Data(o)) /\ Once(Data(o)) /\ job.payment \in Rows(o)
  BY <1>0, <1>1, PaymentJobAt DEF IInv
<1>3. PICK p, st, x : p = job.payment /\ st = status /\ x = o
  OBVIOUS
<1>4. p \in Rows(x) /\ st \in PaymentStatus /\ x \in Orders
  BY <1>2, <1>3 DEF PaymentStatus
<1>5. TypeOK /\ payments' = [payments EXCEPT ![p] = WithStatus(@, st)]
  BY <1>1, <1>3 DEF WithStatus, IInv
<1>6. /\ \A q \in Orders : Rows(q)' = Rows(q)
      /\ \A q \in Orders \ {o} : Money(q)' = Money(q)
      /\ payments'[p].status = st
  <2>1. /\ \A q \in Orders : Rows(q)' = Rows(q)
        /\ \A q \in Orders \ {x} : Money(q)' = Money(q)
        /\ payments'[p].status = st
    BY <1>4, <1>5, RowSaved
  <2> QED BY <1>3, <2>1
<1>7. Rows(o) = {p} /\ payments[p].status = "PENDING"
  <2>1. \A r \in Rows(o) : r = p
    BY <1>2, <1>3, <1>4 DEF Once, Data
  <2>2. payments[p].status = "PENDING"
    BY <1>0, <1>1, <1>3 DEF IInv, PaymentJobs
  <2> QED BY <1>3, <1>4, <2>1, <2>2
<1>8. Money(o) = "none"
  BY <1>7 DEF Money
<1>9. Money(o)' = IF job.success THEN "charged" ELSE "none"
  <2>1. Rows(o)' = {p}
    BY <1>2, <1>6, <1>7
  <2>2. CASE job.success
    BY <1>3, <1>6, <2>1, <2>2 DEF Money
  <2>3. CASE ~job.success
    BY <1>3, <1>6, <2>1, <2>3 DEF Money
  <2> QED BY <2>2, <2>3
<1>10. orders[o] = "PROCESSING"
  BY <1>1, <1>2 DEF PaymentFits, Shown, Data
<1> QED BY <1>2, <1>6, <1>8, <1>9, <1>10

\* A refund is saved.
LEMMA SavedRefundShows ==
  ASSUME IInv, TInv, NEW w \in PaymentWorkers, SaveRefund(w)
  PROVE  \E o \in Orders : /\ orders[o] = "FAILED" /\ Money(o) = "charged"
                           /\ Money(o)' = "refunded"
                           /\ \A q \in Orders \ {o} : Money(q)' = Money(q)
<1>0. PICK job : paymentWorker[w] = job
  OBVIOUS
<1> DEFINE o == job.event.orderId
           p == job.payment
<1>1. /\ job.pc = "saveRefund"
      /\ payments' = [payments EXCEPT ![p].status = "REFUNDED"]
  BY <1>0 DEF SaveRefund
<1>2. /\ o \in Orders /\ PaymentFits(job, Data(o)) /\ Once(Data(o)) /\ p \in Rows(o)
  BY <1>0, <1>1, PaymentJobAt DEF IInv
<1>3. orders[o] = "FAILED" /\ Money(o) = "charged"
  BY <1>1, <1>2 DEF PaymentFits, Shown, Effects, AfterPayment, Data
<1>4. TypeOK /\ payments' = [payments EXCEPT ![p] = WithStatus(@, "REFUNDED")]
  BY <1>1 DEF WithStatus, IInv
<1>5. /\ \A q \in Orders : Rows(q)' = Rows(q)
      /\ \A q \in Orders \ {o} : Money(q)' = Money(q)
      /\ payments'[p].status = "REFUNDED"
  BY <1>2, <1>4, RowSaved DEF PaymentStatus
<1>6. Rows(o)' = {p}
  BY <1>2, <1>5 DEF Once, Data
<1>7. Money(o)' = "refunded"
  BY <1>5, <1>6 DEF Money
<1> QED BY <1>2, <1>3, <1>5, <1>7

\* What the contract sees of the money.
MoneyShown == [o \in Orders |-> Money(o)]

\* Every step without redelivery is a step of the contract, or changes
\* nothing the customer can see.
LEMMA StepContract ==
  ASSUME IInv, TInv, [Next]_vars
  PROVE  [Contract!Next]_(Contract!vars)
<1> DEFINE Goal == \/ UNCHANGED <<orders, MoneyShown>>
                   \/ \E o \in Orders :
                        \/ /\ orders[o] = "NONE" /\ orders' = [orders EXCEPT ![o] = "PROCESSING"]
                           /\ UNCHANGED MoneyShown
                        \/ /\ orders[o] = "PROCESSING" /\ MoneyShown[o] = "none"
                           /\ MoneyShown' = [MoneyShown EXCEPT ![o] = "charged"]
                           /\ UNCHANGED orders
                        \/ /\ orders[o] = "PROCESSING" /\ MoneyShown[o] = "charged"
                           /\ orders' = [orders EXCEPT ![o] = "COMPLETED"]
                           /\ UNCHANGED MoneyShown
                        \/ /\ orders[o] = "PROCESSING"
                           /\ orders' = [orders EXCEPT ![o] = "FAILED"]
                           /\ UNCHANGED MoneyShown
                        \/ /\ orders[o] = "FAILED" /\ MoneyShown[o] = "charged"
                           /\ MoneyShown' = [MoneyShown EXCEPT ![o] = "refunded"]
                           /\ UNCHANGED orders
<1>1. SUFFICES Goal
  BY DEF Contract!Next, Contract!vars, Contract!Accept, Contract!Settle, Contract!Charge,
         Contract!Complete, Contract!Fail, Contract!Refund, Contract!Becomes, Contract!Moves,
         MoneyShown
<1>2. (\A q \in Orders : Money(q)' = Money(q)) => MoneyShown' = MoneyShown
  BY DEF MoneyShown
<1>3. ASSUME NEW o \in Orders, NEW m, Money(o)' = m,
             \A q \in Orders \ {o} : Money(q)' = Money(q)
      PROVE  MoneyShown' = [MoneyShown EXCEPT ![o] = m]
  BY <1>3 DEF MoneyShown
<1>4. CASE UNCHANGED payments
  <2>1. MoneyShown' = MoneyShown
    BY <1>2, <1>4 DEF Money, Rows
  <2>2. ASSUME NEW o \in Orders, CreateOrder(o) PROVE Goal
    BY <2>1, <2>2, NewOrderIs DEF IInv
  <2>3. ASSUME NEW w \in OrderWorkers, SaveOrder(w) PROVE Goal
    <3>1. PICK o \in Orders, s \in {"COMPLETED", "FAILED"} :
            /\ orders[o] = "PROCESSING" /\ orders' = [orders EXCEPT ![o] = s]
            /\ s = "COMPLETED" => Money(o) = "charged"
      BY <2>3, EndedOrderIs DEF StatusAt, IInv
    <3> QED BY <2>1, <3>1 DEF MoneyShown
  <2> QED BY <2>1, <2>2, <2>3, OrdersWritten
<1>5. CASE PaymentNext /\ UNCHANGED orders
  <2>1. ASSUME NEW w \in PaymentWorkers, NEW e \in Requests, NEW p \in PaymentIds,
               ReceivePayment(w, e, p)
        PROVE  Goal
    BY <1>2, <1>5, <2>1, NewRowShowsNothing DEF IInv
  <2>2. ASSUME NEW w \in PaymentWorkers, SavePayment(w) PROVE Goal
    BY <1>2, <1>3, <1>5, <2>2, SavedPaymentShows DEF MoneyShown
  <2>3. ASSUME NEW w \in PaymentWorkers, SaveRefund(w) PROVE Goal
    BY <1>3, <1>5, <2>3, SavedRefundShows DEF MoneyShown
  <2> QED BY <1>4, <1>5, <2>1, <2>2, <2>3, PaymentsWritten
<1> QED BY <1>4, <1>5 DEF Next, vars, paymentVars, orderVars

LEMMA InitContract == Init => Contract!Init
<1> SUFFICES ASSUME Init PROVE Contract!Init
  OBVIOUS
<1>1. \A o \in Orders : Rows(o) = {}
  BY DEF Init, PaymentInit, Rows
<1>2. \A o \in Orders : Money(o) = "none"
  BY <1>1 DEF Money
<1> QED BY <1>2 DEF Contract!Init, Init, OrderInit

\* Without a budget for redeliveries there is none.
LEMMA NoBudget ==
  ASSUME MaxFaults["redeliver"] = 0, TypeOK, [Next]_vars, NoRedelivery
  PROVE  NoRedelivery'
<1>1. faults \in [FaultKinds -> Nat] /\ "redeliver" \in FaultKinds
  BY DEF TypeOK, BusTypeOK, FaultKinds
<1>2. CASE faults' = faults
  BY <1>2 DEF NoRedelivery
<1>3. ASSUME NEW k \in FaultKinds, Fault(k) PROVE NoRedelivery'
  BY <1>1, <1>3 DEF Fault, NoRedelivery
<1> QED BY <1>2, <1>3, FaultsGrow DEF vars

\* As long as nothing is delivered twice, the composed services implement
\* the contract: events may be lost, calls may throw, replicas may overtake
\* each other, and still no order is charged twice, sold unpaid, or shown an
\* outcome that is taken back.
THEOREM ContractIsKept ==
  ASSUME MaxFaults["redeliver"] = 0
  PROVE  Spec => KeepsContract
<1>1. Init => NoRedelivery
  BY DEF Init, BusInit, NoRedelivery, FaultKinds
<1>2. IInv /\ NoRedelivery /\ [Next]_vars => NoRedelivery'
  BY NoBudget DEF IInv
<1>3. IInv /\ TokenInv /\ NoRedelivery /\ [Next]_vars => [Contract!Next]_(Contract!vars)
  BY StepContract DEF TokenInv
<1> QED BY <1>1, <1>2, <1>3, InitContract, Invariance, SagasAreTokens, PTL
        DEF Spec, KeepsContract, Contract!Spec

=============================================================================

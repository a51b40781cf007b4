# Omni Commerce: TLA+ verification project

TLA+ models of the shop in this repository (NestJS services over Kafka,
PostgreSQL and Redis), TLC runs that check them on small instances, and proofs
that TLAPS checks for every instance. Source paths below are relative to the
repository; `X.ts:a-b` are line ranges. `PROJECT.json` lists components, runs,
mutants, theorems, findings and the source lines of every definition.

## 1. Inventory

| Component | State | Operations | Interacts with |
| --- | --- | --- | --- |
| order-service (`orders.service.ts`, `order-events.consumer.ts`) | `orders`, `order_items`, `saga_states` | POST /orders, GET /orders, GET /orders/:id; handlers of stock check, payment and stock deduct results | emits four request topics and `order.completed`, `order.failed` |
| product-service, saga side (`product-events.consumer.ts`) | `products.stock_quantity` | stock check, stock deduct, stock restore (never asked for) | answers with result topics |
| product-service, catalogue (`products.service.ts`) | `products`, Redis keys `product:<id>` and `products:list` | create, findAll, findOne, update, updateStock, remove, deductStock | HTTP from the gateway, and the saga consumer |
| payment-service (`payments.service.ts`) | `payments`, the mocked gateway's charges | processPayment, refundPayment | answers with `order.payment-result`; a refund is not answered |
| circuit breaker (opossum, configured in `payments.service.ts:14-31`) | one per replica: state, rolling window, timers | fire, success, failure, half-open trial | stands between processPayment and the payment gateway |
| event bus (`libs/kafka`) | Kafka topics | `emit` (not awaited), consumer groups | all three services |
| api-gateway, accounts (`auth.service.ts`) | `users` | register, login | PostgreSQL, bcrypt, JWT |
| api-gateway, proxy (`orders.service.ts`, `products.service.ts`) | none of its own; rate counters in a library | orders, demo order, products | HTTP to order-service and product-service under `X-User-Id`, given up after 10 s |
| `libs/common`, `libs/database` | none | validation, envelope, error filter, logging, base entity | |

What is hard, and what makes each component correct:

* **The saga** is a choreography with no timeout, no step guard and no
  transaction across rows. Handlers of several replicas interleave at every
  `await`; Kafka delivers at least once; a send that fails is not noticed; a
  handler can die between two saves. Correct means: an order ends in exactly one
  outcome on which orders, payments and stock agree; what is shown as COMPLETED
  was paid and deducted; no money is recorded that was not taken; the effects
  happen once.
* **Stock** is checked and, after the payment, deducted without a reservation.
  Operators PATCH the same column meanwhile. Correct means: sold stock existed, or
  another order or an operator took it in between; a failed order keeps none.
* **Payments**: a row says PAID only if the gateway has charged, a failed order
  that was charged is refunded.
* **The catalogue** is a cache-aside in which updates work on entities that
  were read through the cache. Correct means: reads are fresh or explainably
  stale, staleness ends, nobody's write is undone by the way.
* **The breaker** counts in a window that moves while a call is in flight and a
  reset timer runs. Correct means: payments are refused unasked only for one reset
  period after a real refusal, a recovery is judged by what follows it, a gateway
  that is down is spared, and the breaker closes when it is up again.
* **The proxy** gives up after 10 s while the service goes on, so a call and its
  job upstream end apart. Correct means: a call has its effect once, given up or
  not; a caller reads own orders and all of those it was told of, settled if it
  has seen them settled; every call is answered, and polling ends.
* **Accounts**: bcrypt takes its time between the look-up of an e-mail and the
  insert, so registrations of one e-mail overlap. Correct means: one of them makes
  the account, a token names the user whose password was given, and who was told
  "registered" can log in. (That the loser is told 409 is documented, and not so.)

The hazards, each with its source line and the properties that cover it, are in
`PROJECT.json` under `hazards`.

## 2. Modules

```
            EventBus                      SagaContract      ProductCatalog
          /    |     \                         |              /         \
 OrderService StockService PaymentService      |     CatalogRaces   ProductCatalogProofs
          \    |     /                         |        /      \         /
             OmniSaga  --- INSTANCE (Contract)-+       /    CatalogRacesProofs
            /        \                        MCProductCatalog
    MCOmniSaga    OmniSagaProofs
                         |                Accounts         Gateway         PaymentBreaker
                  SagaTokenProofs        /        \       /       \         /          \
                         |             MC..   ..Proofs  MC..   ..Proofs   MC..     ..Proofs
                  SagaOutcomeProofs

     Accounts  --- INSTANCE (Registry) --- AccountRegistry
```

The five systems share no variable. `ProductCatalog` has the saga's decrement as
one of its operations. `Gateway` knows the saga by its contract only: an order
whose saga was started settles, once and for all, unless one of its events is lost. `PaymentService` knows the
breaker by a refusal that can meet any call, and `PaymentBreaker` says when one
can. `Accounts` hands out the tokens that `Gateway` takes as its `Users`.

| Module | Models | State | Actions |
| --- | --- | --- | --- |
| `EventBus` | `libs/kafka`, the event interfaces | `bus` (a bag of events), `cart` (what each order contains), `faults` | `Consume`, `Emit`, `Redeliver` |
| `OrderService` | `orders.service.ts`, its consumer and entities | `orders`, `sagas`, `creating`, `orderWorker` | `CreateOrder`, `CreateSaga`, `CreateEmit`, `CreateThrows`; `ReceiveResult`, `SaveSaga`, `SaveOrder`, `EmitNext`, `RedeliverResult` |
| `StockService` | `product-events.consumer.ts`, `checkStock`, `deductStock`, and `update`, `updateStock`, `remove` as far as the stock column and the row go | `stock`, `listed`, `stockWorker`, `patch`, histories `taken`, `removed`, `lowered` | `ReceiveStockRequest`, `CheckLine`, `DeductLine`, `DeductThrows`, `EmitStockResult`, `RedeliverStockRequest`; of operators `FindToPatch`, `SavePatch`, `RemoveProduct` |
| `PaymentService` | `payments.service.ts`, its consumer and entity | `payments`, `charges`, `paymentWorker` | `ReceivePayment`, `FireSucceeds`, `FireFails`, `SavePayment`, `EmitPaymentResult`, `ReceiveRefund`, `SaveRefund`, `RedeliverPaymentRequest` |
| `OmniSaga` | the composition | the above | `Next`, fairness, the properties |
| `SagaContract` | what a customer is promised | `status`, `money` | `Accept`, `Charge`, `Complete`, `Fail`, `Refund` |
| `ProductCatalog` | `products.service.ts`, `products.controller.ts`, `redis.constants.ts` | `rows`, `cache`, `worker`, `issued`, histories `ledger`, `exposed` | one per request, one per Redis or database call, `CallRejects`, `Expire` |
| `CatalogRaces` | the same, with which overlaps can do harm | histories `raced`, `spoiled` | those of `ProductCatalog`, each with `Histories` |
| `Gateway` | the orders and products modules of the gateway, JWT guard, `create`, `findOne`, `findAll` of order-service as seen from there | `status`, `userId`, `sagas`, `call`, `job`, histories `placedBy`, `acked`, `final`, counters `writes`, `faults` | `CreateOrder`, `ForceFail`, `GetOrder`, `ListOrders`, `WriteProduct`; upstream `SaveOrder`, `StartSaga`, `ReadOrders`, `UseProduct`, `UpstreamThrows`, `UpstreamDies`, `Settle`, `Strand`; `PassOn`, `ConnectionFails`, `TimesOut`, `GivesUp` |
| `PaymentBreaker` | the breaker of one replica: options and mock from the code, counting from opossum | `state`, `pendingClose`, `fires`, `failures`, `call`, `openFor`, history `calm` | `Ask`, `Reject`, `Succeed`, `Fail`, `Tick`, `HalfOpen` |
| `Accounts` | `auth.service.ts`, `auth.controller.ts`, `user.entity.ts` | `users`, `request`, history `promised` | `Register`, `Login`, `FindExisting`, `SaveUser`, `FindUser`, `Compare`, `CallRejects` |
| `AccountRegistry` | what registration and login promise, each request one step | `accounts`, `answer` | `Create`, `Conflict`, `Admit`, `TurnAway`, `Fail` |

A step of a handler ends where the code awaits; between two steps any other
replica, request or service may run. The event a handler takes leaves the bus;
what a worker is doing is a record with a program counter.

The three result handlers of order-service have one shape, so they are one set
of actions and three tables: `OnSuccess` and `OnFailure` (the next step of the
saga), `TopicsAt` (what is emitted there), `StatusAt` (what the order then shows).

In each module a definition marked *Faulty* is a plausible mistake in the
definition that follows it. The mutants of `PROJECT.json` replace the definition
by it; no specification uses it.

### Abstractions

* `repository.save` is one step that writes the whole entity. (TypeORM reads the
  row and writes the columns that differ: the same row results unless another
  write falls between these two statements.)
* The two `findOne` of a result handler run in parallel and are one step; the
  order of the three rows involved cannot differ in what the code does with them.
* Names, prices, amounts and texts of reasons are left out. A failure reason is
  abstracted to the topic that reported it, the columns other than the stock to
  one column `details`.
* `cart[o]` is chosen at the start for every order id, and rows and events refer
  to it: no code path changes an order's lines or its user.
* Events are sent without a key, so the bus keeps no order between them.
* Redelivery happens while a handler holds the event (the handler dies, throws,
  or loses its partition and goes on). A delivery that is repeated before the
  handler has done anything equals an event that waits on the bus.
* The circuit breaker appears as a refusal that can happen to every call
  (`FireFails`), for the demo user too, whose gateway calls themselves never fail.
* `order.stock-restore-requested` has a consumer and no producer: it is left out.
* A bcrypt hash is stood for by the password it was made of; a token by the user
  it names. The id of a user is called after the request that inserted the row.
* A database call that rejects has done nothing. (A commit whose answer is lost
  is not in `Accounts` and `ProductCatalog`.)
* In the saga modules a PATCH is two steps: it reads the entity and puts the new
  values in (`FindToPatch`), and it saves the whole entity (`SavePatch`), which
  writes back the stock it read if the PATCH does not mention the stock, and inserts
  the row again if a DELETE came in between. A PATCH that reads a cached entity is
  one that has read when the key was filled. The cache itself is in `ProductCatalog`.
* A job of `Gateway` that writes a product is one step that has its effect (the row is
  saved) and may then answer 500 all the same (`redis.del` rejects).
* In `Gateway` a client has one call at a time. A call that the gateway gives up
  goes on under a number (`Adrift`), so any number of jobs of one client can
  overlap. `SETTLED` stands for COMPLETED and FAILED. A call without a token is
  answered 401 and leaves no trace, so it is the absence of a step. A request that
  validation or throttling turns away is left out for the same reason, and
  GET /products for being a read without a guard.
* In `PaymentBreaker` time passes in ticks, one per bucket of the rolling window.
  The mocked gateway answers within 300 ms, so a call sees at most one tick and
  the 3 s timeout of the breaker never ends one. The reset timer is on time to
  the tick: how far it drifts from the window's own timer is not modelled. How
  opossum counts, trips and resets is external to the repository and marked so.

## 3. Runs

| Run | Instance | Shows |
| --- | --- | --- |
| `saga_faulty` | 1 order, any cart of one or two lines over 2 products, all three kinds of user, 2 replicas of each service, at most 1 redelivery, 1 lost send, 1 rejected call | `TypeOK`, `NoOrphanEvent`, `CompletedMeansPaidAndDeducted`, `DeductOnlyAfterPayment`, `PaidRowsAreCharged` survive every combination of faults; a redelivery drives a saga once more and no further (`OncePerDelivery`); a failed order keeps the customer's money at most as often as something was redelivered or lost (`MoneyComesBack`); only a lost send leaves an order PROCESSING with nothing on its way (`LossesStrand`) |
| `saga_orders` | 2 orders for 1 product with 1 unit in stock, lines of 1 or 2 units, 2 replicas of order-service and of product-service, an operator who sets the stock to 0, saves what was read, and removes the product, 1 lost send, 1 rejected call | without redelivery every effect happens at most once (`AtMostOnce`), a settled order is sold, turned down or refunded in all three databases (`SettledOutcome`), stock falls below zero only by order lines, and by one alone only if a PATCH lowered it (`OversoldByTwo`), one lost send strands one of the two orders (`LossesStrand`), outcomes are final (`OutcomeIsFinal`), a saga row goes to the next step and passes over none (`SagaAdvances`), and the contract is kept (`KeepsContract`) |
| `saga_settles` | 1 order, 2 replicas each, 1 redelivery | every accepted order reaches a final status for good (`EveryOrderSettles`); without the redelivery also the contract's liveness, refunds included (`FulfilsContract`) |
| `catalog` | 2 products (one listed at the start), 2 workers, 4 requests, 1 rejected call | a stale key is explained by a pending deletion, or, since it was last deleted, by a fill that overlapped a write or a deletion that failed (`FreshUnlessExposed`); a stock is what was set and sold unless a save was overtaken by a write, or began with a cached value that a write had yet to delete, and no PATCH has set it since (`StockAccounted`), and each step that brings a deleted product back is such a save (`RemovedStaysRemoved`); under fairness the TTL brings every key back to the table (`CacheConverges`) |
| `accounts` | 4 requests on 2 e-mails with 2 passwords, all overlapping, 1 rejected call | one registration of an e-mail wins (`OneWinner`), tokens are earned (`TokenIsEarned`), an acknowledged registration can log in (`RegisteredCanLogIn`); all are answered as if each request were one step (`KeepsRegistry`) |
| `gateway` | 2 orders; a shopper who orders and reads, a visitor who sends the demo order and writes products, a client without a token who tries everything; 1 write to products, 1 fault | a call has its effect once (`OneEffect`), reads show own orders (`OwnOrdersOnly`) and never fall behind earlier answers (`ReadsCatchUp`), also after a call was given up; every call is answered (`EveryCallAnswered`) and polling comes to an end unless the saga of the order has lost an event (`PollingEnds`) |
| `breaker` | window of 3 ticks, reset after 3 ticks, 3 payments per tick, a customer and both demo users | refusals are explained by a real one (`RejectsOnlyAfterFailure`), a trial starts with a clean window (`OutageIsForgotten`), a gateway that is down is asked once per reset period (`SparesGateway`), and a breaker in front of a gateway that has recovered closes for good (`Recovers`) |

Five more runs end in a violation and stand for a disagreement of the code with
what its documents or comments say (`PROJECT.json`, `findings`):

| Run | The text | The code |
| --- | --- | --- |
| `doc_stock_minimum` | stock has `minimum: 0` (`update-stock.dto.ts:5`) | check and deduct are apart, the decrement is unconditional: -1 |
| `doc_stock_restore` | "saga compensating transaction" puts stock back (`products.service.ts:114`) | nobody emits the event; a deduction that failed half way keeps what it took |
| `doc_failed_payment` | stock is deducted before the payment, and a failed payment leads to a refund request (`README.md:53,56`) | the payment comes after the check (`orders.service.ts:111-120`), the deduction after the payment (`orders.service.ts:147-162`); a failed payment leads to the failure alone (`orders.service.ts:163-175`) |
| `doc_demo_poll` | the caller is told to poll `GET /orders/:id` (gateway, `orders.controller.ts:65`) | the demo order belongs to `__force_fail_deduct__`, the caller gets 404 |
| `doc_email_conflict` | a registered e-mail is answered 409 (`auth.controller.ts:19`) | the registration that loses the race fails at the unique index: 500 |

That a save can undo a write it has not seen is no text's business, and so no run
of its own: it is the premise of `StockAccounted` and `RemovedStaysRemoved`. Without
`spoiled` TLC finds both at once: a stock that was sold or set comes back to what an
overlapping PATCH had read, and such a PATCH inserts a deleted product again. The
excuses end: a product is `spoiled` until a PATCH sets its stock, a key `exposed`
until it is deleted or expires while nobody is filling it.

Against the two lines of `README.md` the saga keeps another order whatever goes
wrong: `DeductOnlyAfterPayment`, and without faults a failed order that was charged is one
whose deduction failed (`SettledOutcome`).

**Bounds.** `MaxFaults` (redeliveries, lost sends, rejected calls) bounds the
faults of the saga; `PaymentIds` bounds payment rows, two being what one redelivery
or two orders can create; `saga_faulty` has a third, so that `OncePerDelivery` is not
the bound of the ids. One redelivery already re-drives a finished saga in front
of a second replica; two lines are enough for a partial deduction and for a duplicate
product; two orders and one unit are enough to compete. `Operators` and `StockLevels`
bound what operators do to the stock: one PATCH under way is enough to come between a
check and its deduction; it lowers the stock to 0, and raises it by saving what it read
before. `MaxRequests` and `MaxThrows` bound the catalogue: two overlapping operations are enough for a fill to race a write,
a third reads the result, and a fourth writes on top of it. `Requests` and `MaxThrows`
bound the accounts: a winner, a loser of the race, a login before and one after are
four requests. `MaxWrites` and `MaxFaults` bound the gateway: one call that is given up
leaves one job adrift, next to which its client and another go on; two orders let the
ordering of both overlap. `Buckets`, `ResetTicks` and `MaxFires` bound the breaker: the
code has 10 buckets of 1 s and a reset after 10 s, the run 3 and 3, the same ratio, and
the rate of failures crosses 50 % in both directions with three payments per tick.
The theorems below have no bounds.

**Deadlock** is checked in `breaker`, where time always passes, and in no other run:
their instances end when the orders have settled, or the requests are used up, as the
shop rests when nobody orders.

**Fairness.** `OrderProgress`, `StockProgress`, `PaymentProgress`: each replica
weakly fairly goes on with its handler and takes an event when it is idle (the
consumer loop of Kafka), and POST /orders goes on (Node runs a resolved promise).
In `ProductCatalog` a started operation goes on and Redis expires a key that was
set with a TTL. In `Gateway` jobs, answers and timeouts go on, and a saga that was
started settles: that is the contract's liveness, which `saga_settles` shows of the
services. It is assumed only of sagas no event of which is lost: every emit after the
first can fail unnoticed as well (`orders.service.ts:120,159,201`,
`product-events.consumer.ts:47,76`, `payments.service.ts:99`), and `Strand` takes such an
order out of `sagas`, of which `PollingEnds` then claims nothing. It needs clients that
poll: `Poll` is strongly fair, as other calls of the same client get in between. In `PaymentBreaker` the mock answers (it is a
timer) and time passes; `Recovers` has its two premises, no more refusals and
payments that keep coming, in the formula. No fairness is assumed of operators
(nobody has to PATCH or DELETE) or faults, and none makes the payment gateway accept.

## 4. Proofs

`OmniSagaProofs` proves for `Spec` of `OmniSaga`, for every choice of the
constants that satisfies `BusAssumption` and `StockAssumption`, with unbounded
orders, replicas and faults:

| Theorem | Statement |
| --- | --- |
| `TypeCorrect` | `Spec => []TypeOK` |
| `Invariance` | `Spec => []IInv` |
| `NoEventIsOrphaned` | `Spec => []NoOrphanEvent` |
| `DeductionFollowsPayment` | `Spec => []DeductOnlyAfterPayment` |
| `CompletedIsPaidAndDeducted` | `Spec => []CompletedMeansPaidAndDeducted` |

The properties are not inductive: that a completed order was deducted depends on
the result event that completed it, which depends on the stock worker that sent
it, which depends on the lines it has passed. `IInv` says this for every place
where the knowledge travels: `EventsGrounded` (an event in flight has its rows,
and a request to deduct or a successful result its facts), `CreatingInOrder` (POST
/orders saves the order, then the saga, then sends), `PaymentJobs` and `StockJobs`
(what a worker in the middle of a handler has established: it has charged, its
row exists, the lines before its current one are taken), `TouchedMeansPaid` and
`CompletedMeansPaidAndDeducted`. `RowsRemain` keeps that a product without a row is one
that some DELETE has removed, though a stale save may bring it back. The argument rests on three facts that no action
disturbs, each a lemma: a saved row stays saved, a paid row stays paid (COMPLETED
can only become REFUNDED), a line that was taken stays taken. What a step sends is
`Sendable`: it was in flight before, or the lemmas on the three services
(`OrderEvents`, `StockEvents`, `PaymentEvents`) say which job has sent it, so that
a property of events is proved from the senders alone. Faults only add
copies of events that were grounded once, which is why the proof needs no bound
on them.

`SagaTokenProofs` and `SagaOutcomeProofs` go on from `IInv`, under the same assumptions:

| Module | Theorem | Statement |
| --- | --- | --- |
| `SagaTokenProofs` | `SagasAreTokens` | `Spec => []TokenInv` |
| | `EffectsAreSingle` | `Spec => []AtMostOnce` |
| | `OutcomeStays` | `Spec => OutcomeIsFinal` |
| | `SagaGoesForward` | `Spec => SagaAdvances` |
| | `ContractIsKept` | `ASSUME MaxFaults["redeliver"] = 0 PROVE Spec => KeepsContract` |
| `SagaOutcomeProofs` | `ClaimsAreCharged` | `Spec => []PaidRowsAreCharged` |
| | `OversellingTakesTwo` | `Spec => []OversoldByTwo` |
| | `DatabasesAgree` | `Spec => []SettledOutcome` |
| | `DeliveriesDriveOnce` | `Spec => []OncePerDelivery` |
| | `OnlyLossesStrand` | `Spec => []LossesStrand` |

*Money.* That paid rows never outnumber charges holds with every fault, and is not
inductive: between the gateway's answer and the save a replica owes the table a
row. `Covered` counts it: the paid rows of an order together with the replicas that
have charged for it and not saved yet are at most its charges. Both sets are part of the
invariant as finite sets, though payment ids and replicas may be infinitely many.
`Undecided` adds that a replica which waits for the gateway has recorded no success.

*The token.* Without redelivery the saga of an order is a token that is at one spot
at a time: POST /orders, an event that waits on the bus, or a replica that holds
one. `Token` says so, and `Fits` says from the spot alone which effects have
happened: which rows there are, what the gateway has charged, which lines are taken,
what the order and its saga row show. The step of a handler either works at its
spot (`TokenWorks`), takes the event of another (`TokenTaken`) or sends the next
(`TokenSent`); one lemma, `TokenMoves`, does the bookkeeping for all three. A send
that is lost or a handler that throws loses the token, after which nothing happens
to the order any more, and `Once` keeps that each effect happened once. The
invariant speaks of behaviours up to the first redelivery (`NoRedelivery => TInv`).

*The outcome.* `SettledOutcome` is about orders whose token is gone, of which the
spot says nothing. So `Token` also keeps that without any fault the token is not
lost: as long as none is at a spot the order has `Ended`, sold, turned down, or
charged and refunded. And it keeps `Clean`: without faults the only deduction
that fails is the one of the demo endpoint, which has touched no stock. An order
that has settled has no token (`SettledHasNoToken`); it has ended, and the end says
what the payment rows show (`MoneySays`).

*The saga row.* `SagaAdvances` names the successors of each step (`StepsAfter`), so it is
about the row a handler overwrites, which it read steps before. The token gives it: a
result is at one spot, and the spot says which step the row shows until that handler saves.

*Stock.* That stock below zero needs two order lines, or a PATCH that lowered it, needs
what the stock check has found, several events and two services earlier. Stock goes up
and down, so what the check leaves behind is relative: a line is `Affordable` as long
as it fits into the stock, or some line has taken the product, or a PATCH has
lowered it; each writer of the stock keeps one of the three true (`AffordableStays`),
and what was taken stays taken (`TakersStay`). `EventsChecked` carries it on the events behind
the check, `CheckJobs` along the lines of a check that is going on. `BelowMeansTaken`
says that a stock, or the one a PATCH is about to save, is below zero only if a line
has taken the product, so operators alone never bring it there, not even with what they
read long ago. These hold under all faults. `Accounted` then says that without
redelivery a stock is not below zero, or a PATCH has lowered it, or two lines have
taken the product: the first line to take one was affordable, and a line is deducted once.

*Redelivery.* With redeliveries an order has several tokens, so they are counted. An
effect (a row inserted, a charge, line `i` taken, the end announced) is `Ahead` of a
token by the token's spot: a payment request has the charge ahead, a result of the
deduction has not. `Driven` bounds, for each effect, the tokens that have it ahead
(`Yet`, copies on the bus counted) plus the times it was had by 1 + the redeliveries
so far. A handler turns one such token into one effect or passes it on, a lost send
and a handler that throws only remove one, and a redelivery adds one token and one to
the bound. That a token with an effect behind it never gets it ahead again is the
point: no result makes order-service send an earlier step. It needs `StockInv` for the
topics payment handlers work on, and `RowsFinite`, since payment ids need not be
finite.

*Lost sends.* `SettledOutcome` excludes faults; `LossesStrand` says which fault is to
blame for an order that rests in PROCESSING. An order is `Going` while one of its
events is in flight. A step consumes an event, holds it, sends the next or delivers it
again, so an order that was going still is, has its outcome, or a send was lost
(`Strands`, for each service); a step belongs to one order, hence a lost send costs
one (`StrandsHere`). Where a saga ends on purpose the outcome must be there already:
`ShownBefore` keeps that the last emits, and a refund, find the order in its final
status, which is why the order in which `SaveOrder` and `EmitNext` come matters. The
stranded orders are part of the invariant as a finite set, though orders may be
infinitely many.

*The contract.* `SagaContract` sees the status of an order and its `Money`,
which is read off the payment rows. That each step of the services is `Accept`,
`Charge`, `Complete`, `Fail`, `Refund` or a stutter there follows from the token:
the save that shows a charge finds the order PROCESSING and its money untouched,
because no other spot can have the token. The theorem needs a shop without
redelivery, since a redelivered request can charge a second time.

`ProductCatalogProofs` proves for any number of products, workers, requests and
rejected calls, under `CatalogAssumption`:

| Theorem | Statement |
| --- | --- |
| `TypeCorrect` | `Spec => []TypeOK` |
| `StaleIsExplained` | `Spec => []FreshUnlessExposed` |

`FreshUnlessExposed` speaks of what is in the cache, and what a fill puts there was
read some steps before. A key stops being `exposed` when it is deleted or expires
and nobody is filling it, for then nothing old is left. The invariant adds `FillsCurrent` (a read that is about to
fill a key no write has exposed holds what the table says now), `JobShape` (which
operation can be at which call, on which kind of key) and `UnissuedUnseen` (of an
id not handed out yet there is no row, no cached copy, and nobody about to make
one: otherwise an insert would make a cached answer stale).

`CatalogRacesProofs` proves over the same invariant, for `RacesSpec`:

| Theorem | Statement |
| --- | --- |
| `StockIsAccounted` | `RacesSpec => []StockAccounted` |
| `RemovedIsGone` | `RacesSpec => RemovedStaysRemoved` |

What has to be added is `HeldIsCurrent`: a worker that holds an entity it will save,
and is not `raced`, holds what the table says now. It got it from the table, or from
a key that no write was about to delete, which by `FreshUnlessExposed` was current. A
save of a stock by such a worker, or by any worker that sets the stock, makes it
accounted again. `RemovedIsGone` follows step by step: who saves a product without a row
holds an entity the table does not have, hence is `raced`.

`AccountsProofs` proves for any number of requests, e-mails and passwords, under
`AccountsAssumption`:

| Theorem | Statement |
| --- | --- |
| `TypeCorrect` | `Spec => []TypeOK` |
| `OneRegistrationWins` | `Spec => []OneWinner` |
| `TokensAreEarned` | `Spec => []TokenIsEarned` |
| `RegisteredIsNotTurnedAway` | `Spec => []RegisteredCanLogIn` |
| `AccountsAreAtomic` | `Spec => KeepsRegistry` |

Its invariant says that e-mails are unique among the rows, that every row belongs
to a registration that was answered 201, that a login compares with a row of its
e-mail, and that for every promised login there is a row with its credentials.
The last two meet in `Compare`: by uniqueness it is the same row.

`AccountsAreAtomic` is the refinement: `AccountRegistry` answers a request in one step
by the accounts of that moment. An account is a row (`Book`), an answer what a request
that is done was told (`Answers`). Each service step that answers is the atomic
request, the others stutter: a registration takes effect at its insert, or, if the
e-mail is taken, at its look-up (the loser of the race fails at its insert with 500,
which the registry allows at any time); a login takes effect at its comparison,
because the row it looked up is still there and, by uniqueness, still the one of its
e-mail; a login that finds nobody at its look-up. `SavesRegister` says that only
registrations insert.

`PaymentBreakerProofs` proves, under `BreakerAssumption` (any window, any rate of
payments, any reset period not shorter than the window):

| Theorem | Statement |
| --- | --- |
| `TypeCorrect` | `Spec => []TypeOK` |
| `RefusalsAreExplained` | `Spec => []RejectsOnlyAfterFailure` |
| `TrialsStartAfresh` | `Spec => []OutageIsForgotten` |
| `GatewayIsSpared` | `Spec => SparesGateway` |

Its invariant has three parts: `TrialsInOrder` (a half-open breaker has its trial to
come or in flight, never neither), `TimerSinceFailure` (the reset timer of an open
breaker runs since a refusal) and `NoFailureSince` (the window is empty of failures as
far back as the gateway has not refused). Reset not shorter than the window is
needed for `OutageIsForgotten`, and the code's options satisfy it with equality.

`GatewayProofs` proves, under `GatewayAssumption`, for any number of clients, orders
and faults:

| Theorem | Statement |
| --- | --- |
| `TypeCorrect` | `Spec => []TypeOK` |
| `EffectsHappenOnce` | `Spec => []OneEffect` |
| `OrdersStayPrivate` | `Spec => []OwnOrdersOnly` |
| `AnswersCatchUp` | `Spec => []ReadsCatchUp` |

A property about answers must first hold of the replies that jobs have ready. `RowsOwned`
ties the user column to whose call made the row (the demo's rows excepted), `JobsFit`
says of a job at each of its steps how many effects it has had and what its reply
shows, for jobs adrift too, and `CallFits` says it of the answer. `KnownFits` and
`CaughtUp` carry what a client has been told: those orders are its own and exist,
what it has seen settled is settled, and a read that began before a later answer
cannot exist, since a client has one call at a time. A job that has written a product
and fails behind it (`ProductWritten`) has had its effect under an answer 500, and
`StrandKeeps` that an event lost by a saga changes nothing a client can read.

Every invariant and every safety property of an action that a passing run checks is
proved, except `MoneyComesBack`. Each inductive invariant was also evaluated by TLC on the instances of the runs.

Only model-checked: `MoneyComesBack`, which needs the count of refunds that are still to
come for each payment row, and everything under fairness (`EveryOrderSettles`,
`FulfilsContract`, `CacheConverges`, `EveryCallAnswered`, `PollingEnds`, `Recovers`),
as liveness is beyond the prover.

## 5. Not modelled, and the plan

Not modelled: the response envelope, the error filter, logging, tracing, health
endpoints, the database module, bootstrap and deployment (no state to speak about);
signature and expiry of tokens, JWT and bcrypt (libraries); the throttler's counting
(library); floating-point totals, of which only the failed save is modelled
(`UpstreamThrows`).

Order of work. Done: the saga (the core of the shop) and its contract, the
catalogue and its races, the accounts and their registry, the breaker, the gateway,
and a proof of every safety property of the runs but one. Left:

1. The contract under redelivery: `KeepsContract` is proved of a shop without
   redelivery. A weaker contract, in which an order may be charged once more per
   redelivery and then owes a refund for each, would say what is left with one; so
   far only the counts (`OncePerDelivery`) and the ends (`LossesStrand`) are proved, and
   `MoneyComesBack` is checked: its proof would be the first lemma.
2. An abstract shop for `Gateway` to refine: orders that are placed and read in one
   step, as the accounts have it with `AccountRegistry`.
3. The catalogue against a table without a cache, with what a stale read may return
   as the only difference.

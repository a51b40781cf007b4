---------------------------- MODULE StockService ----------------------------
(***************************************************************************)
(* The part of product-service the saga talks to: ProductEventsConsumer    *)
(* with checkStock and deductStock of ProductsService, on the stock column *)
(* of the products table.  Every line of an order is an awaited statement  *)
(* of its own, so the consumers of two replicas interleave line by line.   *)
(* deductStock also deletes two Redis keys, which may throw after the      *)
(* decrement has been made; the cache itself is the subject of             *)
(* ProductCatalog.                                                         *)
(*                                                                         *)
(* The operators of the shop write the same column by PATCH and take the   *)
(* row away by DELETE, while the saga is at work.                          *)
(***************************************************************************)
EXTENDS EventBus

CONSTANTS StockWorkers,   \* consumer replicas of product-service
          InitialStock,   \* InitialStock[p]: stock when the first order comes
          Operators,      \* each has one PATCH under way at a time
          StockLevels     \* what a PATCH may ask for: @IsInt() @Min(0)

ASSUME StockAssumption == /\ InitialStock \in [Products -> Nat]
                          /\ StockLevels \subseteq Nat

VARIABLES stock,        \* stock[p]: p's stock_quantity; the column is signed
          listed,       \* the products that have a row
          taken,        \* taken[o][i]: how often line i of o was decremented
                        \* (a history; the database keeps no such record)
          stockWorker,  \* what each consumer replica is doing
          patch,        \* patch[a]: the entity a's PATCH is about to save
          removed,      \* products some DELETE has removed (a history)
          lowered       \* products whose stock some PATCH has set to less
                        \* than it was at that moment (a history)

products  == <<listed, patch, removed, lowered>>
stockVars == <<stock, listed, taken, stockWorker, patch, removed, lowered>>

NoPatch == [pc |-> "idle"]
Patch   == [pc : {"save"}, productId : Products, stockQuantity : Int]

ForceFailDeduct == "__force_fail_deduct__"

IdleStockWorker == [pc |-> "idle"]
BusyStockWorker == [pc : {"check", "deduct", "emit"}, event : Requests,
                    line : Nat \ {0}, success : BOOLEAN]

-----------------------------------------------------------------------------
(* ProductsService.checkStock and deductStock.                             *)

\* Faulty: the product exists, whatever its stock.
EnoughIfListed(item) == item.productId \in listed

Enough(item) == /\ item.productId \in listed
                /\ stock[item.productId] >= item.quantity

\* UPDATE ... SET stock_quantity = stock_quantity - q WHERE id = p: without
\* a row it changes nothing and succeeds all the same.
Decrement(o, i) ==
  LET item == cart[o].items[i] IN
  IF item.productId \in listed
  THEN /\ stock' = [stock EXCEPT ![item.productId] = @ - item.quantity]
       /\ taken' = [taken EXCEPT ![o][i] = @ + 1]
  ELSE UNCHANGED <<stock, taken>>

\* Faulty: the loop runs one line too far, or returns after the first one.
NextLinePastEnd(job) ==
  IF job.line > Len(cart[job.event.orderId].items)
  THEN [job EXCEPT !.pc = "emit", !.success = TRUE]
  ELSE [job EXCEPT !.line = @ + 1]

NextLineFirstOnly(job) == [job EXCEPT !.pc = "emit", !.success = TRUE]

\* The job after its current line went well: the next line, or the result.
NextLine(job) ==
  IF job.line = Len(cart[job.event.orderId].items)
  THEN [job EXCEPT !.pc = "emit", !.success = TRUE]
  ELSE [job EXCEPT !.line = @ + 1]

Failed(job) == [job EXCEPT !.pc = "emit", !.success = FALSE]

\* What onStockDeductRequested starts with; an order of the demo endpoint
\* carries forceFail and touches no stock.
FirstStep(e) == IF e.topic = "STOCK_CHECK_REQUESTED" THEN "check"
                ELSE IF cart[e.orderId].userId = ForceFailDeduct THEN "emit"
                ELSE "deduct"

ResultTopicOf(e) == IF e.topic = "STOCK_CHECK_REQUESTED"
                    THEN "STOCK_CHECK_RESULT"
                    ELSE "STOCK_DEDUCT_RESULT"

-----------------------------------------------------------------------------
(* ProductEventsConsumer.                                                  *)

ReceiveStockRequest(w, e) ==
  /\ stockWorker[w] = IdleStockWorker
  /\ e.topic \in {"STOCK_CHECK_REQUESTED", "STOCK_DEDUCT_REQUESTED"}
  /\ Consume(e)
  /\ stockWorker' = [stockWorker EXCEPT ![w] =
                       [pc |-> FirstStep(e), event |-> e, line |-> 1, success |-> FALSE]]
  /\ UNCHANGED <<stock, taken, products, faults>>

\* The loop of onStockCheckRequested stops at the first line it cannot fill.
CheckLine(w) ==
  LET job == stockWorker[w] IN
  /\ job.pc = "check"
  /\ stockWorker' = [stockWorker EXCEPT ![w] =
       IF Enough(cart[job.event.orderId].items[job.line]) THEN NextLine(job) ELSE Failed(job)]
  /\ UNCHANGED <<stock, taken, products, bus, faults>>

DeductLine(w) ==
  LET job == stockWorker[w] IN
  /\ job.pc = "deduct"
  /\ Decrement(job.event.orderId, job.line)
  /\ stockWorker' = [stockWorker EXCEPT ![w] = NextLine(job)]
  /\ UNCHANGED <<products, bus, faults>>

\* Faulty: the catch block reports nothing.
DeductThrowsSilently(w) ==
  LET job == stockWorker[w] IN
  /\ job.pc = "deduct"
  /\ Fault("throw")
  /\ \/ Decrement(job.event.orderId, job.line)
     \/ UNCHANGED <<stock, taken>>
  /\ stockWorker' = [stockWorker EXCEPT ![w] = IdleStockWorker]
  /\ UNCHANGED <<products, bus>>

\* The catch block of onStockDeductRequested: the statement throws, or the
\* cache invalidation behind it does.  Lines already taken stay taken.
DeductThrows(w) ==
  LET job == stockWorker[w] IN
  /\ job.pc = "deduct"
  /\ Fault("throw")
  /\ \/ Decrement(job.event.orderId, job.line)
     \/ UNCHANGED <<stock, taken>>
  /\ stockWorker' = [stockWorker EXCEPT ![w] = Failed(job)]
  /\ UNCHANGED <<products, bus>>

EmitStockResult(w) ==
  LET job == stockWorker[w] IN
  /\ job.pc = "emit"
  /\ Emit({Result(ResultTopicOf(job.event), job.event.orderId, job.success)})
  /\ stockWorker' = [stockWorker EXCEPT ![w] = IdleStockWorker]
  /\ UNCHANGED <<stock, taken, products>>

\* The event is delivered again; see RedeliverResult in OrderService.
RedeliverStockRequest(w) ==
  /\ stockWorker[w] # IdleStockWorker
  /\ Redeliver(stockWorker[w].event)
  /\ \/ stockWorker' = [stockWorker EXCEPT ![w] = IdleStockWorker]
     \/ UNCHANGED stockWorker
  /\ UNCHANGED <<stock, taken, products>>

-----------------------------------------------------------------------------
(* The routes of the operators, at any time.                               *)

\* DELETE /products/:id
RemoveProduct(p) ==
  /\ p \in listed
  /\ listed' = listed \ {p}
  /\ removed' = removed \cup {p}
  /\ UNCHANGED <<stock, taken, stockWorker, patch, lowered, bus, faults>>

\* PATCH /products/:id and /products/:id/stock: findOne, and the new values
\* put into the entity.  A PATCH that does not mention the stock keeps what
\* it has read; one that reads the cache has read when the key was filled.
FindToPatch(a, p) ==
  /\ patch[a] = NoPatch
  /\ p \in listed
  /\ \E q \in StockLevels \cup {stock[p]} :
       patch' = [patch EXCEPT ![a] = [pc |-> "save", productId |-> p, stockQuantity |-> q]]
  /\ UNCHANGED <<stock, taken, stockWorker, listed, removed, lowered, bus, faults>>

\* productRepo.save writes the entity as it is, whatever the row says now,
\* and inserts the row anew if it is gone.
SavePatch(a) ==
  LET p == patch[a].productId
      q == patch[a].stockQuantity
  IN
  /\ patch[a].pc = "save"
  /\ stock' = [stock EXCEPT ![p] = q]
  /\ listed' = listed \cup {p}
  /\ lowered' = IF q < stock[p] THEN lowered \cup {p} ELSE lowered
  /\ patch' = [patch EXCEPT ![a] = NoPatch]
  /\ UNCHANGED <<taken, stockWorker, removed, bus, faults>>

-----------------------------------------------------------------------------
StockInit == /\ stock = InitialStock
             /\ listed = Products
             /\ taken = [o \in Orders |-> [i \in Lines(o) |-> 0]]
             /\ stockWorker = [w \in StockWorkers |-> IdleStockWorker]
             /\ patch = [a \in Operators |-> NoPatch]
             /\ removed = {} /\ lowered = {}

StockWorkerStep(w) == CheckLine(w) \/ DeductLine(w) \/ EmitStockResult(w)

OperatorStep == \/ \E p \in Products : \/ RemoveProduct(p)
                                       \/ \E a \in Operators : FindToPatch(a, p)
                \/ \E a \in Operators : SavePatch(a)

StockNext == \/ \E w \in StockWorkers : \/ \E e \in Requests : ReceiveStockRequest(w, e)
                                        \/ StockWorkerStep(w)
                                        \/ DeductThrows(w)
                                        \/ RedeliverStockRequest(w)
             \/ OperatorStep

StockTypeOK ==
  /\ stock \in [Products -> Int]
  /\ listed \subseteq Products
  /\ taken = [o \in Orders |-> taken[o]]
  /\ \A o \in Orders : taken[o] \in [Lines(o) -> Nat]
  /\ stockWorker \in [StockWorkers -> BusyStockWorker \cup {IdleStockWorker}]
  /\ \A w \in StockWorkers :
       stockWorker[w] # IdleStockWorker =>
         stockWorker[w].line \in Lines(stockWorker[w].event.orderId)
  /\ patch \in [Operators -> Patch \cup {NoPatch}]
  /\ removed \subseteq Products /\ lowered \subseteq Products

=============================================================================

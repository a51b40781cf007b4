--------------------------- MODULE ProductCatalog ---------------------------
(***************************************************************************)
(* product-service: the products table, the Redis cache in front of it     *)
(* (cache-aside) and every operation of ProductsService.  An operation     *)
(* runs up to its next `await`: one Redis command or one statement is one  *)
(* step, and the operations of all replicas interleave between the steps.  *)
(*                                                                         *)
(* Both cached reads have one shape, whatever the key: `product:<id>`      *)
(* holds a row, `products:list` the whole table.  PATCH /products/:id and  *)
(* PATCH /products/:id/stock differ only in the columns of their DTO.      *)
(***************************************************************************)
EXTENDS Integers

CONSTANTS Products,      \* ids; POST /products takes one never used before
          Workers,       \* operations that may be in progress together
          Dtos,          \* bodies of the two PATCH requests
          NewRows,       \* bodies of POST /products
          InitialRows,   \* the table at the start
          MaxRequests,   \* bounds how many operations are started
          MaxThrows      \* bounds how many Redis or database calls reject

Columns == {"details", "stock"}   \* "details": name, description and price

Row   == [details : STRING, stock : Int]
NoRow == [stock |-> "no row"]
Table == [Products -> Row \cup {NoRow}]

ListKey == "products:list"

ASSUME CatalogAssumption ==
  /\ ListKey \notin Products
  /\ NewRows \subseteq Row
  /\ \A dto \in Dtos : /\ DOMAIN dto \subseteq Columns
                       /\ "details" \in DOMAIN dto => dto.details \in STRING
                       /\ "stock" \in DOMAIN dto => dto.stock \in Int
  /\ InitialRows \in Table
  /\ MaxRequests \in Nat /\ MaxThrows \in Nat

VARIABLES rows,      \* the products table
          cache,     \* Redis: what each key holds, Nothing if it is not set
          worker,    \* worker[w]: the operation in progress
          issued,    \* ids that POST /products may not hand out again
          started,   \* operations started so far
          throws,    \* calls that have rejected so far
          ledger,    \* ledger[p]: the stock p ought to have after what was
                     \* written to the column on purpose (a history)
          exposed    \* keys that a fill which overlapped a write, or an
                     \* invalidation that failed, has left to the TTL;
                     \* no longer so once they are deleted (a history)

vars == <<rows, cache, worker, issued, started, throws, ledger, exposed>>

\* `product:<id>` is called after the id, `products:list` is ListKey.
Keys == Products \cup {ListKey}

Nothing == [key |-> "nothing"]

\* What a fresh read of the table would put under a key.
Current(k) == IF k = ListKey THEN [table |-> rows] ELSE rows[k]

\* Values the cache can hold under a key.
ValuesOf(k) == IF k = ListKey THEN [table : Table] ELSE Row

Idle == [pc |-> "idle"]

Ops == {"read", "save", "remove", "decrement", "insert"}

\* The call a worker waits for; the last of an operation's own is its name.
Pcs == Ops \cup {"get", "find", "fill", "delProduct", "delList"}

\* What a worker does is a record: the operation, the key it reads, the
\* entity it has read, the DTO.  The fields an operation does not use yet
\* hold Nothing.
Jobs == [pc     : Pcs,
         op     : Ops,
         key    : Keys,
         entity : Row \cup [table : Table] \cup {Nothing},
         dto    : Dtos \cup NewRows \cup {Nothing}]

Job(pc, op, k, dto) == [pc |-> pc, op |-> op, key |-> k, entity |-> Nothing, dto |-> dto]

-----------------------------------------------------------------------------
(* Requests.                                                               *)

Start(w, job) == /\ worker[w] = Idle
                 /\ started < MaxRequests
                 /\ started' = started + 1
                 /\ worker' = [worker EXCEPT ![w] = job]
                 /\ UNCHANGED <<rows, cache, issued, throws, ledger, exposed>>

FindOne(w, p)     == Start(w, Job("get", "read", p, Nothing))
FindAll(w)        == Start(w, Job("get", "read", ListKey, Nothing))
Update(w, p, dto) == Start(w, Job("get", "save", p, dto))
Remove(w, p)      == Start(w, Job("get", "remove", p, Nothing))
Deduct(w, p)      == Start(w, Job("decrement", "decrement", p, Nothing))
Create(w, row)    == Start(w, Job("insert", "insert", ListKey, row))

-----------------------------------------------------------------------------
(* Steps.                                                                  *)

Goes(w, pc)       == worker' = [worker EXCEPT ![w].pc = pc]
Reads(w, entity)  == worker' = [worker EXCEPT ![w].entity = entity,
                                              ![w].pc = worker[w].op]
Ends(w)           == worker' = [worker EXCEPT ![w] = Idle]

\* Some worker is about to fill k with what it read before.
Filling(k) == \E v \in Workers : worker[v].pc = "fill" /\ worker[v].key = k

\* A write of p's row exposes the keys that are being filled.
Exposes(p) == exposed' = exposed \cup {k \in {p, ListKey} : Filling(k)}

\* redis.del, or the end of a TTL.
Forgets(k) == /\ cache' = [cache EXCEPT ![k] = Nothing]
              /\ exposed' = IF Filling(k) THEN exposed ELSE exposed \ {k}

Unforgotten == <<issued, started, throws, ledger>>
Bookkeeping == <<issued, started, throws, ledger, exposed>>

\* redis.get: a hit is the answer, or the entity update and remove work on.
Get(w) ==
  LET k == worker[w].key IN
  /\ worker[w].pc = "get"
  /\ IF cache[k] = Nothing THEN Goes(w, "find") ELSE Reads(w, cache[k])
  /\ UNCHANGED <<rows, cache, Bookkeeping>>

\* Faulty: the answer of the table is cached unseen, also if it is no row.
FindUnchecked(w) ==
  /\ worker[w].pc = "find"
  /\ worker' = [worker EXCEPT ![w].entity = Current(worker[w].key), ![w].pc = "fill"]
  /\ UNCHANGED <<rows, cache, Bookkeeping>>

\* productRepo.find or findOne; a product without a row is a 404.
Find(w) ==
  LET k == worker[w].key IN
  /\ worker[w].pc = "find"
  /\ IF Current(k) = NoRow
     THEN Ends(w)
     ELSE worker' = [worker EXCEPT ![w].entity = Current(k), ![w].pc = "fill"]
  /\ UNCHANGED <<rows, cache, Bookkeeping>>

\* redis.setex
Fill(w) ==
  LET job == worker[w] IN
  /\ job.pc = "fill"
  /\ cache' = [cache EXCEPT ![job.key] = job.entity]
  /\ Goes(w, job.op)
  /\ UNCHANGED <<rows, Bookkeeping>>

\* The answer of a GET.
Answer(w) ==
  /\ worker[w].pc = "read"
  /\ Ends(w)
  /\ UNCHANGED <<rows, cache, Bookkeeping>>

\* Object.assign(product, dto)
Assigned(entity, dto) ==
  [c \in Columns |-> IF c \in DOMAIN dto THEN dto[c] ELSE entity[c]]

\* productRepo.save of the whole entity: every column is written, and a
\* row that is gone is inserted again under its id.
Save(w) ==
  LET job == worker[w] IN
  /\ job.pc = "save"
  /\ rows' = [rows EXCEPT ![job.key] = Assigned(job.entity, job.dto)]
  /\ Goes(w, "delProduct")
  /\ Exposes(job.key)
  /\ ledger' = IF "stock" \in DOMAIN job.dto
               THEN [ledger EXCEPT ![job.key] = job.dto.stock]
               ELSE ledger
  /\ UNCHANGED <<cache, issued, started, throws>>

\* Faulty: remove invalidates the list only.
DeleteKeepsKey(w) ==
  LET p == worker[w].key IN
  /\ worker[w].pc = "remove"
  /\ rows' = [rows EXCEPT ![p] = NoRow]
  /\ Goes(w, "delList")
  /\ Exposes(p)
  /\ UNCHANGED <<cache, issued, started, throws, ledger>>

\* productRepo.remove; to remove a row that is gone is no error.
Delete(w) ==
  LET p == worker[w].key IN
  /\ worker[w].pc = "remove"
  /\ rows' = [rows EXCEPT ![p] = NoRow]
  /\ Goes(w, "delProduct")
  /\ Exposes(p)
  /\ UNCHANGED <<cache, issued, started, throws, ledger>>

\* Faulty: deductStock invalidates the list only.
DecrementKeepsKey(w) ==
  LET p == worker[w].key IN
  /\ worker[w].pc = "decrement" /\ rows[p] # NoRow
  /\ rows' = [rows EXCEPT ![p].stock = @ - 1]
  /\ ledger' = [ledger EXCEPT ![p] = @ - 1]
  /\ Goes(w, "delList")
  /\ Exposes(p)
  /\ UNCHANGED <<cache, issued, started, throws>>

\* productRepo.decrement, without a look at the stock or at the row.
Decrement(w) ==
  LET p == worker[w].key IN
  /\ worker[w].pc = "decrement"
  /\ IF rows[p] = NoRow
     THEN UNCHANGED <<rows, ledger, exposed>>
     ELSE /\ rows' = [rows EXCEPT ![p].stock = @ - 1]
          /\ ledger' = [ledger EXCEPT ![p] = @ - 1]
          /\ Exposes(p)
  /\ Goes(w, "delProduct")
  /\ UNCHANGED <<cache, issued, started, throws>>

\* create: the row gets a fresh id; only the list key is invalidated.
Insert(w, p) ==
  /\ worker[w].pc = "insert"
  /\ p \notin issued
  /\ issued' = issued \cup {p}
  /\ rows' = [rows EXCEPT ![p] = worker[w].dto]
  /\ ledger' = [ledger EXCEPT ![p] = worker[w].dto.stock]
  /\ Goes(w, "delList")
  /\ Exposes(p)
  /\ UNCHANGED <<cache, started, throws>>

\* Faulty: the wrong key is deleted.
DelProductWrongKey(w) ==
  /\ worker[w].pc = "delProduct"
  /\ Forgets(ListKey)
  /\ Goes(w, "delList")
  /\ UNCHANGED <<rows, Unforgotten>>

\* invalidateProductCache
DelProduct(w) ==
  /\ worker[w].pc = "delProduct"
  /\ Forgets(worker[w].key)
  /\ Goes(w, "delList")
  /\ UNCHANGED <<rows, Unforgotten>>

\* invalidateListCache, the last step of every write.
DelList(w) ==
  /\ worker[w].pc = "delList"
  /\ Forgets(ListKey)
  /\ Ends(w)
  /\ UNCHANGED <<rows, Unforgotten>>

\* The call a worker waits for rejects: the request ends with an error, the
\* saga consumer's with a failed deduction.  What was done stays done, and
\* keys that were to be deleted are not.
Pending(job) == {k \in Keys : \/ job.pc = "delProduct" /\ k \in {job.key, ListKey}
                              \/ job.pc = "delList"    /\ k = ListKey}

CallRejects(w) ==
  /\ worker[w].pc \notin {"idle", "read"}
  /\ throws < MaxThrows
  /\ throws' = throws + 1
  /\ exposed' = exposed \cup Pending(worker[w])
  /\ Ends(w)
  /\ UNCHANGED <<rows, cache, issued, started, ledger>>

\* Faulty: only the list is set with a TTL.
ExpireListOnly(k) ==
  /\ k = ListKey /\ cache[k] # Nothing
  /\ Forgets(k)
  /\ UNCHANGED <<rows, worker, Unforgotten>>

\* CACHE_TTL: Redis forgets a key some time after it was set.
Expire(k) ==
  /\ cache[k] # Nothing
  /\ Forgets(k)
  /\ UNCHANGED <<rows, worker, Unforgotten>>

-----------------------------------------------------------------------------
Init == /\ rows = InitialRows
        /\ cache = [k \in Keys |-> Nothing]
        /\ worker = [w \in Workers |-> Idle]
        /\ issued = {p \in Products : InitialRows[p] # NoRow}
        /\ started = 0
        /\ throws = 0
        /\ ledger = [p \in Products |-> IF InitialRows[p] = NoRow THEN 0 ELSE InitialRows[p].stock]
        /\ exposed = {}

Request(w) == \/ FindAll(w)
              \/ \E p \in Products : \/ FindOne(w, p) \/ Remove(w, p) \/ Deduct(w, p)
                                     \/ \E dto \in Dtos : Update(w, p, dto)
              \/ \E row \in NewRows : Create(w, row)

Step(w) == \/ Get(w) \/ Find(w) \/ Fill(w) \/ Answer(w) \/ Save(w) \/ Delete(w)
           \/ Decrement(w) \/ DelProduct(w) \/ DelList(w)
           \/ \E p \in Products : Insert(w, p)

Next == \/ \E w \in Workers : Request(w) \/ Step(w) \/ CallRejects(w)
        \/ \E k \in Keys : Expire(k)

Spec == Init /\ [][Next]_vars

\* An operation that was started goes on, and a key that is set expires.
Fairness == /\ \A w \in Workers : WF_vars(Step(w))
            /\ \A k \in Keys : WF_vars(Expire(k))

FairSpec == Spec /\ Fairness

-----------------------------------------------------------------------------
(* Properties.                                                             *)

\* Each variable has the type its table, key or operation declares.
TypeOK ==
  /\ rows \in Table
  /\ cache = [k \in Keys |-> cache[k]]
  /\ \A k \in Keys : cache[k] \in ValuesOf(k) \cup {Nothing}
  /\ issued \subseteq Products /\ exposed \subseteq Keys
  /\ ledger \in [Products -> Int]
  /\ started \in 0..MaxRequests /\ throws \in 0..MaxThrows
  /\ worker \in [Workers -> Jobs \cup {Idle}]
  /\ \A w \in Workers : worker[w].pc \in {"fill", "save", "remove", "read"} =>
       worker[w].entity \in ValuesOf(worker[w].key)

Fresh(k) == cache[k] \in {Nothing, Current(k)}

\* The cache differs from the table only while a write has still to delete
\* the key, or where a read that overlapped a write filled the key with
\* what it had read before, or where a deletion failed.
FreshUnlessExposed == \A k \in Keys \ exposed :
  Fresh(k) \/ \E w \in Workers : k \in Pending(worker[w])

\* Whatever has gone wrong, once the writes have ended the TTL brings every
\* key of the cache back to the table.
CacheConverges == \A k \in Keys : <>[]Fresh(k)

=============================================================================

------------------------ MODULE ProductCatalogProofs ------------------------
(***************************************************************************)
(* Proofs about ProductCatalog, for any number of products, operations and *)
(* failures: the type invariant, and that a stale key is always explained. *)
(***************************************************************************)
EXTENDS ProductCatalog, TLAPS

\* Which operations reach which step, and on what kind of key.
Shape(job) ==
  /\ job.op \in {"save", "remove", "decrement"} => job.key \in Products
  /\ job.pc \in Ops => job.pc = job.op
  /\ job.pc \in {"get", "find", "fill"} => job.op \in {"read", "save", "remove"}
  /\ job.pc = "delProduct" => job.op \in {"save", "remove", "decrement"}
  /\ job.op = "save" => job.dto \in Dtos
  /\ job.op = "insert" => job.dto \in NewRows

JobShape == \A w \in Workers : worker[w] # Idle => Shape(worker[w])

\* What a worker is about to put under a key that no write has exposed is
\* what the table says.
FillsCurrent == \A w \in Workers :
  worker[w].pc = "fill" /\ worker[w].key \notin exposed =>
    worker[w].entity = Current(worker[w].key)

\* Of an id that POST /products may still hand out there is no row, no
\* cached copy, and nobody about to write either.
UnissuedUnseen ==
  /\ \A p \in Products \ issued : rows[p] = NoRow /\ cache[p] = Nothing
  /\ \A w \in Workers : worker[w].pc \in {"fill", "save"} /\ worker[w].key \in Products =>
       worker[w].key \in issued

IInv == TypeOK /\ JobShape /\ FillsCurrent /\ UnissuedUnseen /\ FreshUnlessExposed


-----------------------------------------------------------------------------
(* What the steps have in common.                                          *)


\* A job that moves on to another call, and one that has read an entity.
Moved(job, pc)           == [job EXCEPT !.pc = pc]
Holding(job, entity, pc) == [job EXCEPT !.entity = entity, !.pc = pc]

\* A job moved on to another call differs in its pc only.
LEMMA MovedJob ==
  ASSUME NEW job \in Jobs, NEW pc \in Pcs
  PROVE  /\ Moved(job, pc) \in Jobs /\ Moved(job, pc) # Idle
         /\ Moved(job, pc).pc = pc
         /\ Moved(job, pc).op = job.op
         /\ Moved(job, pc).key = job.key
         /\ Moved(job, pc).entity = job.entity
         /\ Moved(job, pc).dto = job.dto
<1> DEFINE next == [job EXCEPT !.pc = pc]
<1>1. next.pc = pc /\ next.op = job.op /\ next.key = job.key
      /\ next.entity = job.entity /\ next.dto = job.dto
  BY DEF Jobs
<1>2. next \in Jobs
  BY DEF Jobs
<1>3. "idle" \notin Pcs
  BY DEF Pcs, Ops
<1>4. next # Idle
  BY <1>1, <1>3 DEF Idle
<1> QED BY <1>1, <1>2, <1>4 DEF Moved

\* A job that has read an entity keeps its operation, key and DTO.
LEMMA ReadJob ==
  ASSUME NEW job \in Jobs, NEW pc \in Pcs, NEW k \in Keys, NEW entity \in ValuesOf(k)
  PROVE  /\ Holding(job, entity, pc) \in Jobs /\ Holding(job, entity, pc) # Idle
         /\ Holding(job, entity, pc).pc = pc
         /\ Holding(job, entity, pc).op = job.op
         /\ Holding(job, entity, pc).key = job.key
         /\ Holding(job, entity, pc).entity = entity
         /\ Holding(job, entity, pc).dto = job.dto
<1> DEFINE next == [job EXCEPT !.entity = entity, !.pc = pc]
<1>1. next.pc = pc /\ next.op = job.op /\ next.key = job.key
      /\ next.entity = entity /\ next.dto = job.dto
  BY DEF Jobs
<1>2. entity \in Row \cup [table : Table] \cup {Nothing}
  BY DEF ValuesOf
<1>3. next \in Jobs
  BY <1>2 DEF Jobs
<1>4. "idle" \notin Pcs
  BY DEF Pcs, Ops
<1>5. next # Idle
  BY <1>1, <1>4 DEF Idle
<1> QED BY <1>1, <1>3, <1>5 DEF Holding

\* A worker that is at some call has a job.
LEMMA BusyWorker ==
  ASSUME TypeOK, NEW w \in Workers, worker[w].pc # "idle"
  PROVE  worker[w] \in Jobs /\ worker[w] # Idle /\ worker[w].key \in Keys
         /\ worker[w].pc \in Pcs /\ worker[w].op \in Ops
BY DEF TypeOK, Jobs, Idle

\* What a job that is at some call holds, the entity included.
HoldsEntity(job) == job.pc \in {"fill", "save", "remove", "read"} =>
                      job.entity \in ValuesOf(job.key)

\* Worker w goes on to `next`, a well-formed job, or ends.
LEMMA WorkerMoves ==
  ASSUME TypeOK, JobShape, NEW w \in Workers, NEW next \in Jobs \cup {Idle},
         worker' = [worker EXCEPT ![w] = next],
         next # Idle => Shape(next) /\ HoldsEntity(next)
  PROVE  /\ worker'[w] = next
         /\ \A v \in Workers \ {w} : worker'[v] = worker[v]
         /\ worker' \in [Workers -> Jobs \cup {Idle}]
         /\ \A v \in Workers : HoldsEntity(worker'[v])
         /\ JobShape'
<1>1. /\ worker'[w] = next
      /\ \A v \in Workers \ {w} : worker'[v] = worker[v]
      /\ worker' \in [Workers -> Jobs \cup {Idle}]
  BY DEF TypeOK
<1>2. HoldsEntity(Idle)
  BY DEF HoldsEntity, Idle
<1>3. \A v \in Workers : HoldsEntity(worker'[v])
  BY <1>1, <1>2 DEF TypeOK, HoldsEntity
<1>4. JobShape'
  BY <1>1 DEF JobShape
<1> QED BY <1>1, <1>3, <1>4

\* If neither the table nor the cache changes and the worker that moves owes
\* no deletion, or exposes what it owes, stale keys stay explained.
LEMMA FreshKept ==
  ASSUME TypeOK, FreshUnlessExposed, NEW w \in Workers,
         UNCHANGED <<rows, cache>>, exposed \subseteq exposed',
         \A v \in Workers \ {w} : worker'[v] = worker[v],
         Pending(worker[w]) \subseteq exposed'
  PROVE  FreshUnlessExposed'
<1> SUFFICES ASSUME NEW k \in Keys \ exposed'
             PROVE  Fresh(k)' \/ \E v \in Workers : k \in Pending(worker'[v])
  BY DEF FreshUnlessExposed
<1>1. Fresh(k) \/ \E v \in Workers : k \in Pending(worker[v])
  BY DEF FreshUnlessExposed
<1>2. CASE Fresh(k)
  BY <1>2 DEF Fresh, Current
<1>3. CASE \E v \in Workers : k \in Pending(worker[v])
  BY <1>3
<1> QED BY <1>1, <1>2, <1>3

-----------------------------------------------------------------------------
(* The invariant holds at the start and is kept by each action.            *)

LEMMA InitIInv == Init => IInv
<1> SUFFICES ASSUME Init PROVE IInv
  OBVIOUS
<1>0. "idle" \notin Pcs
  BY DEF Pcs, Ops
<1>1. \A w \in Workers : worker[w] = Idle /\ worker[w].pc = "idle"
  BY DEF Init, Idle
<1>2. rows \in Table /\ ledger \in [Products -> Int]
  <2>1. rows \in Table
    BY CatalogAssumption DEF Init
  <2>2. \A p \in Products : InitialRows[p] # NoRow => InitialRows[p].stock \in Int
    BY CatalogAssumption DEF Table, Row
  <2> QED BY <2>1, <2>2 DEF Init
<1>3. TypeOK
  BY <1>1, <1>2, CatalogAssumption DEF Init, TypeOK
<1>4. JobShape /\ FillsCurrent
  BY <1>1 DEF JobShape, FillsCurrent
<1>5. UnissuedUnseen
  BY <1>1, CatalogAssumption DEF Init, UnissuedUnseen, Keys
<1>6. FreshUnlessExposed
  BY DEF Init, FreshUnlessExposed, Fresh
<1> QED BY <1>3, <1>4, <1>5, <1>6 DEF IInv

\* A request takes up an idle worker with a job that reads or inserts.
LEMMA StartKeeps ==
  ASSUME IInv, NEW w \in Workers, NEW job \in Jobs, Start(w, job),
         Shape(job), job.pc \in {"get", "decrement", "insert"}
  PROVE  IInv'
<1>1. /\ worker' = [worker EXCEPT ![w] = job] /\ worker[w] = Idle
      /\ UNCHANGED <<rows, cache, issued, throws, ledger, exposed>>
  BY DEF Start
<1>2. HoldsEntity(job)
  BY DEF HoldsEntity
<1>3. /\ worker'[w] = job
      /\ \A v \in Workers \ {w} : worker'[v] = worker[v]
      /\ worker' \in [Workers -> Jobs \cup {Idle}]
      /\ \A v \in Workers : HoldsEntity(worker'[v])
      /\ JobShape'
  BY <1>1, <1>2, WorkerMoves DEF IInv
<1>4. started' \in 0..MaxRequests
  BY CatalogAssumption DEF IInv, TypeOK, Start
<1>5. TypeOK'
  BY <1>1, <1>3, <1>4 DEF IInv, TypeOK, HoldsEntity
<1>6. FillsCurrent'
  BY <1>1, <1>3 DEF IInv, FillsCurrent, Current
<1>7. UnissuedUnseen'
  BY <1>1, <1>3 DEF IInv, UnissuedUnseen
<1>8. FreshUnlessExposed'
  <2>1. Pending(worker[w]) = {}
    BY <1>1 DEF Pending, Idle
  <2> QED BY <1>1, <1>3, <2>1, FreshKept DEF IInv
<1> QED BY <1>3, <1>5, <1>6, <1>7, <1>8 DEF IInv

\* Redis.get: a hit hands an operation its entity.
LEMMA GetKeeps ==
  ASSUME IInv, NEW w \in Workers, Get(w)
  PROVE  IInv'
<1> DEFINE job == worker[w]
<1> USE DEF IInv
<1>1. /\ job \in Jobs /\ job # Idle /\ job.key \in Keys /\ job.op \in Ops
      /\ job.pc = "get" /\ Shape(job)
  BY BusyWorker DEF Get, JobShape
<1>2. UNCHANGED <<rows, cache, issued, started, throws, ledger, exposed>>
  BY DEF Get, Bookkeeping
<1>3. PICK next \in Jobs :
        /\ next # Idle /\ worker' = [worker EXCEPT ![w] = next]
        /\ Shape(next) /\ HoldsEntity(next)
        /\ next.key = job.key /\ next.pc # "fill"
        /\ next.pc = "save" => cache[job.key] # Nothing
  <2>1. CASE cache[job.key] = Nothing
    <3> DEFINE next == Moved(job, "find")
    <3>1. worker' = [worker EXCEPT ![w] = next]
      BY <2>1 DEF Get, Goes, Moved
    <3>2. /\ next \in Jobs /\ next # Idle /\ next.pc = "find" /\ next.op = job.op
          /\ next.key = job.key /\ next.dto = job.dto
      BY <1>1, MovedJob DEF Pcs
    <3>3. Shape(next) /\ HoldsEntity(next)
      BY <1>1, <3>2 DEF Shape, HoldsEntity, Ops
    <3> HIDE DEF next
    <3> QED BY <3>1, <3>2, <3>3
  <2>2. CASE cache[job.key] # Nothing
    <3> DEFINE next == Holding(job, cache[job.key], job.op)
    <3>1. worker' = [worker EXCEPT ![w] = next]
      BY <2>2 DEF Get, Reads, Holding
    <3>2. cache[job.key] \in ValuesOf(job.key)
      BY <1>1, <2>2 DEF TypeOK
    <3>3. /\ next \in Jobs /\ next # Idle /\ next.pc = job.op /\ next.op = job.op
          /\ next.key = job.key /\ next.dto = job.dto /\ next.entity = cache[job.key]
      BY <1>1, <3>2, ReadJob DEF Pcs
    <3>4. Shape(next) /\ HoldsEntity(next)
      BY <1>1, <3>2, <3>3 DEF Shape, HoldsEntity, Ops
    <3>5. next.pc # "fill"
      BY <1>1, <3>3 DEF Ops
    <3> HIDE DEF next
    <3> QED BY <2>2, <3>1, <3>3, <3>4, <3>5
  <2> QED BY <2>1, <2>2
<1>4. /\ worker'[w] = next
      /\ \A v \in Workers \ {w} : worker'[v] = worker[v]
      /\ worker' \in [Workers -> Jobs \cup {Idle}]
      /\ \A v \in Workers : HoldsEntity(worker'[v])
      /\ JobShape'
  BY <1>3, WorkerMoves
<1>5. TypeOK'
  BY <1>2, <1>4 DEF TypeOK, HoldsEntity
<1>6. FillsCurrent'
  BY <1>2, <1>3, <1>4 DEF FillsCurrent, Current
<1>7. UnissuedUnseen'
  BY <1>1, <1>2, <1>3, <1>4 DEF UnissuedUnseen
<1>8. FreshUnlessExposed'
  <2>1. Pending(worker[w]) = {}
    BY <1>1 DEF Pending
  <2> QED BY <1>2, <1>4, <2>1, FreshKept
<1> QED BY <1>4, <1>5, <1>6, <1>7, <1>8

\* The answer of the table is what the cache is to be filled with.
LEMMA FindKeeps ==
  ASSUME IInv, NEW w \in Workers, Find(w)
  PROVE  IInv'
<1> DEFINE job == worker[w]
<1> USE DEF IInv
<1>1. /\ job \in Jobs /\ job # Idle /\ job.key \in Keys
      /\ job.pc = "find" /\ Shape(job)
  BY BusyWorker DEF Find, JobShape
<1>2. UNCHANGED <<rows, cache, issued, started, throws, ledger, exposed>>
  BY DEF Find, Bookkeeping
<1>3. PICK next \in Jobs \cup {Idle} :
        /\ worker' = [worker EXCEPT ![w] = next]
        /\ next # Idle => Shape(next) /\ HoldsEntity(next)
        /\ next.pc = "save" => FALSE
        /\ next.pc = "fill" => /\ next.key = job.key
                               /\ next.entity = Current(job.key)
                               /\ Current(job.key) # NoRow
  <2>1. CASE Current(job.key) = NoRow
    BY <2>1 DEF Find, Ends, Idle
  <2>2. CASE Current(job.key) # NoRow
    <3> DEFINE next == Holding(job, Current(job.key), "fill")
    <3>1. worker' = [worker EXCEPT ![w] = next]
      BY <2>2 DEF Find, Holding
    <3>2. Current(job.key) \in ValuesOf(job.key)
      BY <1>1, <2>2 DEF TypeOK, Current, ValuesOf, Keys, Table
    <3>3. /\ next \in Jobs /\ next # Idle /\ next.pc = "fill" /\ next.op = job.op
          /\ next.key = job.key /\ next.dto = job.dto /\ next.entity = Current(job.key)
      BY <1>1, <3>2, ReadJob DEF Pcs
    <3>4. Shape(next) /\ HoldsEntity(next)
      BY <1>1, <3>2, <3>3 DEF Shape, HoldsEntity, Ops
    <3> HIDE DEF next
    <3> QED BY <2>2, <3>1, <3>3, <3>4
  <2> QED BY <2>1, <2>2
<1>4. /\ worker'[w] = next
      /\ \A v \in Workers \ {w} : worker'[v] = worker[v]
      /\ worker' \in [Workers -> Jobs \cup {Idle}]
      /\ \A v \in Workers : HoldsEntity(worker'[v])
      /\ JobShape'
  BY <1>3, WorkerMoves
<1>5. TypeOK'
  BY <1>2, <1>4 DEF TypeOK, HoldsEntity
<1>6. FillsCurrent'
  BY <1>2, <1>3, <1>4 DEF FillsCurrent, Current
<1>7. UnissuedUnseen'
  <2>1. next.pc \in {"fill", "save"} /\ next.key \in Products => next.key \in issued
    BY <1>3, CatalogAssumption DEF UnissuedUnseen, Current
  <2> QED BY <1>2, <1>4, <2>1 DEF UnissuedUnseen
<1>8. FreshUnlessExposed'
  <2>1. Pending(worker[w]) = {}
    BY <1>1 DEF Pending
  <2> QED BY <1>2, <1>4, <2>1, FreshKept
<1> QED BY <1>4, <1>5, <1>6, <1>7, <1>8

\* A fill puts under an unexposed key what the table says.
LEMMA FillKeeps ==
  ASSUME IInv, NEW w \in Workers, Fill(w)
  PROVE  IInv'
<1> DEFINE job  == worker[w]
           next == Moved(job, job.op)
<1> USE DEF IInv
<1>1. /\ job \in Jobs /\ job # Idle /\ job.key \in Keys /\ job.op \in Ops
      /\ job.pc = "fill" /\ Shape(job)
      /\ job.entity \in ValuesOf(job.key)
  BY BusyWorker DEF Fill, JobShape, TypeOK
<1>2. /\ UNCHANGED <<rows, issued, started, throws, ledger, exposed>>
      /\ cache' = [cache EXCEPT ![job.key] = job.entity]
      /\ worker' = [worker EXCEPT ![w] = next]
  BY DEF Fill, Bookkeeping, Goes, Moved
<1>3. /\ next \in Jobs /\ next # Idle /\ next.pc = job.op /\ next.op = job.op
      /\ next.key = job.key /\ next.dto = job.dto /\ next.entity = job.entity
  BY <1>1, MovedJob DEF Pcs
<1>4. Shape(next) /\ HoldsEntity(next)
  BY <1>1, <1>3 DEF Shape, HoldsEntity, Ops
<1> HIDE DEF next
<1>5. /\ worker'[w] = next
      /\ \A v \in Workers \ {w} : worker'[v] = worker[v]
      /\ worker' \in [Workers -> Jobs \cup {Idle}]
      /\ \A v \in Workers : HoldsEntity(worker'[v])
      /\ JobShape'
  BY <1>2, <1>3, <1>4, WorkerMoves
<1>6. /\ DOMAIN cache = Keys /\ cache'[job.key] = job.entity
      /\ \A k \in Keys \ {job.key} : cache'[k] = cache[k]
  BY <1>1, <1>2 DEF TypeOK
<1>7. TypeOK'
  <2>1. /\ cache' = [k \in Keys |-> cache'[k]]
        /\ \A k \in Keys : cache'[k] \in ValuesOf(k) \cup {Nothing}
    BY <1>1, <1>2, <1>6 DEF TypeOK
  <2> QED BY <1>2, <1>5, <2>1 DEF TypeOK, HoldsEntity
<1>8. next.pc # "fill"
  BY <1>1, <1>3 DEF Ops
<1>9. FillsCurrent'
  BY <1>2, <1>5, <1>8 DEF FillsCurrent, Current
<1>10. UnissuedUnseen'
  <2>1. job.key \in Products => job.key \in issued
    BY <1>1 DEF UnissuedUnseen
  <2>2. \A p \in Products : p \in Keys
    BY DEF Keys
  <2> QED BY <1>2, <1>3, <1>5, <1>6, <2>1, <2>2 DEF UnissuedUnseen
<1>11. FreshUnlessExposed'
  <2> SUFFICES ASSUME NEW k \in Keys \ exposed
               PROVE  Fresh(k)' \/ \E v \in Workers : k \in Pending(worker'[v])
    BY <1>2 DEF FreshUnlessExposed
  <2>1. CASE k = job.key
    BY <1>1, <1>2, <1>6, <2>1 DEF FillsCurrent, Fresh, Current
  <2>2. CASE k # job.key
    <3>1. Fresh(k) \/ \E v \in Workers : k \in Pending(worker[v])
      BY DEF FreshUnlessExposed
    <3>2. Pending(job) = {}
      BY <1>1 DEF Pending
    <3> QED BY <1>2, <1>5, <1>6, <2>2, <3>1, <3>2 DEF Fresh, Current
  <2> QED BY <2>1, <2>2
<1> QED BY <1>5, <1>7, <1>9, <1>10, <1>11

\* An operation that ends without another write exposes what it still owes
\* the cache: the answer of a GET owes nothing, a rejected call may.
LEMMA EndKeeps ==
  ASSUME IInv, NEW w \in Workers, Ends(w), worker[w].pc # "idle",
         UNCHANGED <<rows, cache, issued, started, ledger>>,
         throws' \in 0..MaxThrows,
         exposed' = exposed \cup Pending(worker[w])
  PROVE  IInv'
<1> USE DEF IInv
<1>1. worker' = [worker EXCEPT ![w] = Idle]
  BY DEF Ends
<1>2. /\ worker'[w] = Idle
      /\ \A v \in Workers \ {w} : worker'[v] = worker[v]
      /\ worker' \in [Workers -> Jobs \cup {Idle}]
      /\ \A v \in Workers : HoldsEntity(worker'[v])
      /\ JobShape'
  BY <1>1, WorkerMoves
<1>3. Pending(worker[w]) \subseteq Keys
  BY DEF Pending
<1>4. TypeOK'
  BY <1>2, <1>3 DEF TypeOK, HoldsEntity
<1>5. FillsCurrent'
  BY <1>2 DEF FillsCurrent, Current, Idle
<1>6. UnissuedUnseen'
  BY <1>2 DEF UnissuedUnseen, Idle
<1>7. FreshUnlessExposed'
  BY <1>2, FreshKept
<1> QED BY <1>2, <1>4, <1>5, <1>6, <1>7

LEMMA AnswerKeeps ==
  ASSUME IInv, NEW w \in Workers, Answer(w)
  PROVE  IInv'
<1>1. Pending(worker[w]) = {}
  BY DEF Answer, Pending
<1>2. throws' \in 0..MaxThrows
  BY DEF Answer, Bookkeeping, IInv, TypeOK
<1> QED BY <1>1, <1>2, EndKeeps DEF Answer, Bookkeeping

LEMMA CallRejectsKeeps ==
  ASSUME IInv, NEW w \in Workers, CallRejects(w)
  PROVE  IInv'
<1>1. throws' \in 0..MaxThrows
  BY CatalogAssumption DEF CallRejects, IInv, TypeOK
<1> QED BY <1>1, EndKeeps DEF CallRejects

\* A key that is deleted, or that expires, is fresh.
LEMMA ForgetKeeps ==
  ASSUME IInv, NEW k \in Keys, Forgets(k),
         UNCHANGED <<rows, issued, started, throws, ledger>>,
         worker' \in [Workers -> Jobs \cup {Idle}], JobShape',
         \A v \in Workers : HoldsEntity(worker'[v]),
         \A v \in Workers : worker'[v] = worker[v] \/ worker'[v].pc \notin {"fill", "save"},
         \A v \in Workers : Pending(worker[v]) \subseteq Pending(worker'[v]) \cup {k}
  PROVE  IInv'
<1> USE DEF IInv
<1>1. /\ cache'[k] = Nothing
      /\ \A l \in Keys \ {k} : cache'[l] = cache[l]
      /\ cache' = [l \in Keys |-> cache'[l]]
      /\ exposed' \subseteq exposed /\ exposed \subseteq exposed' \cup {k}
      /\ Filling(k) => exposed' = exposed
  BY DEF TypeOK, Forgets
<1>2. TypeOK'
  <2>1. \A l \in Keys : cache'[l] \in ValuesOf(l) \cup {Nothing}
    BY <1>1 DEF TypeOK
  <2> QED BY <1>1, <2>1 DEF TypeOK, HoldsEntity
<1>3. FillsCurrent'
  <2> SUFFICES ASSUME NEW v \in Workers, worker'[v].pc = "fill", worker'[v].key \notin exposed'
               PROVE  worker[v].entity = Current(worker[v].key)
    BY DEF FillsCurrent, Current
  <2>1. worker'[v] = worker[v]
    OBVIOUS
  <2>2. worker[v].key \notin exposed
    BY <1>1, <2>1 DEF Filling
  <2> QED BY <2>1, <2>2 DEF FillsCurrent
<1>4. UnissuedUnseen'
  BY <1>1 DEF UnissuedUnseen, Keys
<1>5. FreshUnlessExposed'
  BY <1>1 DEF FreshUnlessExposed, Fresh, Current
<1> QED BY <1>2, <1>3, <1>4, <1>5

LEMMA ExpireKeeps ==
  ASSUME IInv, NEW k \in Keys, Expire(k)
  PROVE  IInv'
<1>1. JobShape' /\ worker' \in [Workers -> Jobs \cup {Idle}]
      /\ \A v \in Workers : HoldsEntity(worker'[v])
  BY DEF IInv, JobShape, Expire, TypeOK, HoldsEntity
<1> QED BY <1>1, ForgetKeeps DEF Expire, Unforgotten

LEMMA DelProductKeeps ==
  ASSUME IInv, NEW w \in Workers, DelProduct(w)
  PROVE  IInv'
<1> DEFINE job  == worker[w]
           next == Moved(job, "delList")
<1> USE DEF IInv
<1>1. /\ job \in Jobs /\ job # Idle /\ job.key \in Keys
      /\ job.pc = "delProduct" /\ Shape(job)
  BY BusyWorker DEF DelProduct, JobShape
<1>2. /\ UNCHANGED <<rows, issued, started, throws, ledger>>
      /\ Forgets(job.key)
      /\ worker' = [worker EXCEPT ![w] = next]
  BY DEF DelProduct, Unforgotten, Goes, Moved
<1>3. /\ next \in Jobs /\ next # Idle /\ next.pc = "delList" /\ next.op = job.op
      /\ next.key = job.key /\ next.dto = job.dto
  BY <1>1, MovedJob DEF Pcs
<1>4. Shape(next) /\ HoldsEntity(next)
  BY <1>1, <1>3 DEF Shape, HoldsEntity, Ops
<1> HIDE DEF next
<1>5. /\ worker'[w] = next
      /\ \A v \in Workers \ {w} : worker'[v] = worker[v]
      /\ worker' \in [Workers -> Jobs \cup {Idle}]
      /\ \A v \in Workers : HoldsEntity(worker'[v])
      /\ JobShape'
  BY <1>2, <1>3, <1>4, WorkerMoves
<1>6. Pending(job) \subseteq Pending(next) \cup {job.key}
  BY <1>1, <1>3 DEF Pending
<1> QED BY <1>1, <1>2, <1>3, <1>5, <1>6, ForgetKeeps

LEMMA DelListKeeps ==
  ASSUME IInv, NEW w \in Workers, DelList(w)
  PROVE  IInv'
<1> USE DEF IInv
<1>1. /\ UNCHANGED <<rows, issued, started, throws, ledger>>
      /\ Forgets(ListKey)
      /\ worker' = [worker EXCEPT ![w] = Idle]
  BY DEF DelList, Unforgotten, Ends
<1>2. /\ worker'[w] = Idle
      /\ \A v \in Workers \ {w} : worker'[v] = worker[v]
      /\ worker' \in [Workers -> Jobs \cup {Idle}]
      /\ \A v \in Workers : HoldsEntity(worker'[v])
      /\ JobShape'
  BY <1>1, WorkerMoves
<1>3. Pending(worker[w]) \subseteq {ListKey}
  BY DEF DelList, Pending
<1>4. ListKey \in Keys /\ Idle.pc \notin {"fill", "save"}
  BY DEF Keys, Idle
<1> QED BY <1>1, <1>2, <1>3, <1>4, ForgetKeeps

-----------------------------------------------------------------------------
(* The four actions that write the table.                                  *)

\* A write to p's row exposes the keys that an overlapping read will fill
\* with what it read before, and the writer owes the deletion of the others.
LEMMA WriteKeeps ==
  ASSUME IInv, NEW w \in Workers, NEW p \in Products, NEW pc \in {"delProduct", "delList"},
         worker[w].pc \in {"save", "remove", "decrement", "insert"},
         Goes(w, pc), Exposes(p) \/ UNCHANGED <<rows, exposed>>,
         rows' \in Table, \A q \in Products \ {p} : rows'[q] = rows[q],
         ledger' \in [Products -> Int],
         UNCHANGED <<cache, started, throws>>,
         issued' \subseteq Products, issued \subseteq issued',
         p \notin issued' => rows'[p] = rows[p],
         pc = "delProduct" => worker[w].key = p /\ worker[w].op # "insert",
         pc = "delList" => cache[p] = Nothing
  PROVE  IInv'
<1> DEFINE job  == worker[w]
           next == Moved(job, pc)
<1> USE DEF IInv
<1>1. /\ job \in Jobs /\ job # Idle /\ job.key \in Keys /\ job.op \in Ops
      /\ Shape(job)
  BY BusyWorker DEF JobShape
<1>2. worker' = [worker EXCEPT ![w] = next]
  BY DEF Goes, Moved
<1>3. /\ next \in Jobs /\ next # Idle /\ next.pc = pc /\ next.op = job.op
      /\ next.key = job.key /\ next.dto = job.dto
  BY <1>1, MovedJob DEF Pcs
<1>4. Shape(next) /\ HoldsEntity(next)
  BY <1>1, <1>3 DEF Shape, HoldsEntity, Ops
<1> HIDE DEF next
<1>5. /\ worker'[w] = next
      /\ \A v \in Workers \ {w} : worker'[v] = worker[v]
      /\ worker' \in [Workers -> Jobs \cup {Idle}]
      /\ \A v \in Workers : HoldsEntity(worker'[v])
      /\ JobShape'
  BY <1>2, <1>3, <1>4, WorkerMoves
<1>6. /\ exposed \subseteq exposed' /\ exposed' \subseteq Keys
      /\ \/ UNCHANGED <<rows, exposed>>
         \/ \A v \in Workers : worker[v].pc = "fill" /\ worker[v].key \in {p, ListKey} =>
              worker[v].key \in exposed'
  BY DEF Exposes, Filling, TypeOK, Keys
<1>7. TypeOK'
  BY <1>5, <1>6 DEF TypeOK, HoldsEntity
<1>8. FillsCurrent'
  <2>0. CASE UNCHANGED <<rows, exposed>>
    BY <1>3, <1>5, <2>0 DEF FillsCurrent, Current
  <2> SUFFICES ASSUME NEW v \in Workers, worker'[v].pc = "fill", worker'[v].key \notin exposed',
                      ~UNCHANGED <<rows, exposed>>
               PROVE  worker'[v].entity = rows'[worker'[v].key] /\ worker'[v].key # ListKey
    BY <2>0 DEF FillsCurrent, Current
  <2>1. v # w /\ worker'[v] = worker[v]
    BY <1>3, <1>5
  <2>2. worker[v].key \in Products \ {p}
    BY <1>6, <2>1, BusyWorker DEF Keys
  <2>3. worker[v].entity = rows[worker[v].key] /\ worker[v].key # ListKey
    BY <1>6, <2>1, <2>2, CatalogAssumption DEF FillsCurrent, Current
  <2> QED BY <2>1, <2>2, <2>3
<1>9. UnissuedUnseen'
  <2>1. \A q \in Products \ issued' : rows'[q] = NoRow /\ cache'[q] = Nothing
    BY DEF UnissuedUnseen
  <2>2. \A v \in Workers : worker'[v].pc \in {"fill", "save"} /\ worker'[v].key \in Products =>
          worker'[v].key \in issued'
    BY <1>3, <1>5 DEF UnissuedUnseen
  <2> QED BY <2>1, <2>2 DEF UnissuedUnseen
<1>10. FreshUnlessExposed'
  <2> SUFFICES ASSUME NEW k \in Keys \ exposed'
               PROVE  Fresh(k)' \/ \E v \in Workers : k \in Pending(worker'[v])
    BY DEF FreshUnlessExposed
  <2>1. CASE k = ListKey
    BY <1>3, <1>5, <2>1 DEF Pending
  <2>2. CASE k = p /\ pc = "delProduct"
    BY <1>3, <1>5, <2>2 DEF Pending
  <2>3. CASE k = p /\ pc = "delList"
    BY <2>3 DEF Fresh
  <2>4. CASE k \in Products \ {p}
    <3>1. Fresh(k) \/ \E v \in Workers : k \in Pending(worker[v])
      BY <1>6 DEF FreshUnlessExposed
    <3>2. Pending(job) = {}
      BY DEF Pending
    <3>3. Fresh(k) => Fresh(k)'
      BY <2>4, CatalogAssumption DEF Fresh, Current
    <3> QED BY <1>5, <3>1, <3>2, <3>3
  <2> QED BY <2>1, <2>2, <2>3, <2>4 DEF Keys
<1> QED BY <1>5, <1>7, <1>8, <1>9, <1>10

\* What save writes is a row.
LEMMA AssignedType ==
  ASSUME NEW entity \in Row, NEW dto \in Dtos
  PROVE  /\ Assigned(entity, dto) \in Row
         /\ "stock" \in DOMAIN dto => dto.stock \in Int
BY CatalogAssumption DEF Assigned, Row, Columns

\* A worker at a call of its own operation is at the one it is named after.
LEMMA OwnCall ==
  ASSUME IInv, NEW w \in Workers, worker[w].pc \in Ops
  PROVE  /\ worker[w].op = worker[w].pc /\ worker[w] \in Jobs
         /\ worker[w].pc \in {"save", "remove", "decrement"} => worker[w].key \in Products
         /\ worker[w].pc = "save" => worker[w].dto \in Dtos
         /\ worker[w].pc = "insert" => worker[w].dto \in NewRows
<1>1. worker[w].pc # "idle"
  BY DEF Ops
<1> QED BY <1>1, BusyWorker DEF IInv, JobShape, Shape

LEMMA SaveKeeps ==
  ASSUME IInv, NEW w \in Workers, Save(w)
  PROVE  IInv'
<1> DEFINE job == worker[w]
           p   == job.key
           row == Assigned(job.entity, job.dto)
<1>1. /\ job.pc = "save" /\ job.op = "save" /\ p \in Products /\ job.dto \in Dtos
  BY OwnCall DEF Save, Ops
<1>2. job.entity \in Row
  BY <1>1, CatalogAssumption DEF IInv, TypeOK, ValuesOf
<1>3. row \in Row /\ ("stock" \in DOMAIN job.dto => job.dto.stock \in Int)
  BY <1>1, <1>2, AssignedType
<1>4. p \in issued
  BY <1>1 DEF IInv, UnissuedUnseen
<1> HIDE DEF row
<1>5. /\ rows' = [rows EXCEPT ![p] = row]
      /\ Goes(w, "delProduct") /\ Exposes(p)
      /\ UNCHANGED <<cache, issued, started, throws>>
  BY DEF Save, row
<1>6. rows' \in Table /\ \A q \in Products \ {p} : rows'[q] = rows[q]
  BY <1>1, <1>3, <1>5 DEF IInv, TypeOK, Table
<1>7. ledger' \in [Products -> Int]
  BY <1>1, <1>3 DEF Save, IInv, TypeOK
<1>8. issued' \subseteq Products /\ p \in issued'
  BY <1>4, <1>5 DEF IInv, TypeOK
<1> QED BY <1>1, <1>5, <1>6, <1>7, <1>8, WriteKeeps

LEMMA DeleteKeeps ==
  ASSUME IInv, NEW w \in Workers, Delete(w)
  PROVE  IInv'
<1> DEFINE p == worker[w].key
<1>1. worker[w].pc = "remove" /\ worker[w].op = "remove" /\ p \in Products
  BY OwnCall DEF Delete, Ops
<1>2. /\ rows' = [rows EXCEPT ![p] = NoRow]
      /\ Goes(w, "delProduct") /\ Exposes(p)
      /\ UNCHANGED <<cache, issued, started, throws, ledger>>
  BY DEF Delete
<1>3. rows' \in Table /\ \A q \in Products \ {p} : rows'[q] = rows[q]
  BY <1>1, <1>2 DEF IInv, TypeOK, Table
<1>4. p \notin issued' => rows'[p] = rows[p]
  BY <1>1, <1>2 DEF IInv, UnissuedUnseen, TypeOK, Table
<1>5. ledger' \in [Products -> Int] /\ issued' \subseteq Products
  BY <1>2 DEF IInv, TypeOK
<1> QED BY <1>1, <1>2, <1>3, <1>4, <1>5, WriteKeeps

LEMMA DecrementKeeps ==
  ASSUME IInv, NEW w \in Workers, Decrement(w)
  PROVE  IInv'
<1> DEFINE p == worker[w].key
<1>1. worker[w].pc = "decrement" /\ worker[w].op = "decrement" /\ p \in Products
  BY OwnCall DEF Decrement, Ops
<1>2. /\ Goes(w, "delProduct") /\ (Exposes(p) \/ UNCHANGED <<rows, exposed>>)
      /\ UNCHANGED <<cache, issued, started, throws>>
  BY DEF Decrement
<1>3. /\ rows' \in Table /\ \A q \in Products \ {p} : rows'[q] = rows[q]
      /\ p \notin issued' => rows'[p] = rows[p]
      /\ ledger' \in [Products -> Int]
  <2>1. CASE rows[p] = NoRow
    BY <1>1, <1>2, <2>1 DEF Decrement, IInv, TypeOK
  <2>2. CASE rows[p] # NoRow
    <3> DEFINE row == [rows[p] EXCEPT !.stock = @ - 1]
    <3>1. rows[p] \in Row
      BY <1>1, <2>2 DEF IInv, TypeOK, Table
    <3>2. row \in Row
      BY <3>1 DEF Row
    <3>3. rows' = [rows EXCEPT ![p] = row]
      BY <2>2 DEF Decrement
    <3> HIDE DEF row
    <3>4. rows' \in Table /\ \A q \in Products \ {p} : rows'[q] = rows[q]
      BY <1>1, <3>2, <3>3 DEF IInv, TypeOK, Table
    <3>5. ledger' \in [Products -> Int]
      BY <1>1, <2>2 DEF Decrement, IInv, TypeOK
    <3>6. p \in issued'
      BY <1>1, <1>2, <2>2 DEF IInv, UnissuedUnseen
    <3> QED BY <3>4, <3>5, <3>6
  <2> QED BY <2>1, <2>2
<1>4. issued' \subseteq Products
  BY <1>2 DEF IInv, TypeOK
<1> QED BY <1>1, <1>2, <1>3, <1>4, WriteKeeps

LEMMA InsertKeeps ==
  ASSUME IInv, NEW w \in Workers, NEW p \in Products, Insert(w, p)
  PROVE  IInv'
<1>1. worker[w].pc = "insert" /\ worker[w].dto \in Row /\ worker[w].dto.stock \in Int
  BY OwnCall, CatalogAssumption DEF Insert, Ops, Row
<1>2. /\ rows' = [rows EXCEPT ![p] = worker[w].dto]
      /\ ledger' = [ledger EXCEPT ![p] = worker[w].dto.stock]
      /\ Goes(w, "delList") /\ Exposes(p)
      /\ p \notin issued /\ issued' = issued \cup {p}
      /\ UNCHANGED <<cache, started, throws>>
  BY DEF Insert
<1>3. rows' \in Table /\ \A q \in Products \ {p} : rows'[q] = rows[q]
  BY <1>1, <1>2 DEF IInv, TypeOK, Table
<1>4. /\ ledger' \in [Products -> Int] /\ issued' \subseteq Products
      /\ issued \subseteq issued' /\ p \in issued'
  BY <1>1, <1>2 DEF IInv, TypeOK
<1>5. cache[p] = Nothing
  BY <1>2 DEF IInv, UnissuedUnseen
<1> QED BY <1>1, <1>2, <1>3, <1>4, <1>5, WriteKeeps

-----------------------------------------------------------------------------
(* The theorems.                                                           *)

\* The jobs that requests start with are well formed.
LEMMA RequestKeeps ==
  ASSUME IInv, NEW w \in Workers, Request(w)
  PROVE  IInv'
<1> USE DEF Shape, Ops
<1>1. PICK job : /\ Start(w, job) /\ job \in Jobs /\ Shape(job)
                 /\ job.pc \in {"get", "decrement", "insert"}
  <2>1. CASE FindAll(w)
    BY <2>1 DEF FindAll, Job, Jobs, Pcs, Keys
  <2>2. CASE \E p \in Products : FindOne(w, p)
    BY <2>2 DEF FindOne, Job, Jobs, Pcs, Keys
  <2>3. CASE \E p \in Products : Remove(w, p)
    BY <2>3 DEF Remove, Job, Jobs, Pcs, Keys
  <2>4. CASE \E p \in Products : Deduct(w, p)
    BY <2>4 DEF Deduct, Job, Jobs, Pcs, Keys
  <2>5. CASE \E p \in Products, dto \in Dtos : Update(w, p, dto)
    BY <2>5 DEF Update, Job, Jobs, Pcs, Keys
  <2>6. CASE \E row \in NewRows : Create(w, row)
    BY <2>6 DEF Create, Job, Jobs, Pcs, Keys
  <2> QED BY <2>1, <2>2, <2>3, <2>4, <2>5, <2>6 DEF Request
<1> QED BY <1>1, StartKeeps

\* The invariant is inductive.
LEMMA NextKeepsIInv == IInv /\ [Next]_vars => IInv'
<1> SUFFICES ASSUME IInv, [Next]_vars
             PROVE  IInv'
  OBVIOUS
<1>1. CASE UNCHANGED vars
  BY <1>1 DEF vars, IInv, TypeOK, JobShape, FillsCurrent, UnissuedUnseen,
              FreshUnlessExposed, Fresh, Current
<1>2. ASSUME NEW w \in Workers, Step(w)
      PROVE  IInv'
  BY <1>2, GetKeeps, FindKeeps, FillKeeps, AnswerKeeps, SaveKeeps, DeleteKeeps,
     DecrementKeeps, DelProductKeeps, DelListKeeps, InsertKeeps DEF Step
<1> QED BY <1>1, <1>2, RequestKeeps, CallRejectsKeeps, ExpireKeeps DEF Next

\* In every reachable state the table, the cache and the operations in
\* progress have their types (ProductsService, the products table, Redis).
THEOREM TypeCorrect == Spec => []TypeOK
<1>1. IInv => TypeOK
  BY DEF IInv
<1> QED BY <1>1, InitIInv, NextKeepsIInv, PTL DEF Spec

\* However many reads, writes and failed calls overlap, a key of the cache
\* differs from the table only while a write has still to delete it, or after
\* a fill that overlapped a write or a deletion that failed (cache-aside in
\* findOne and findAll, invalidation in the writing operations).
THEOREM StaleIsExplained == Spec => []FreshUnlessExposed
<1>1. IInv => FreshUnlessExposed
  BY DEF IInv
<1> QED BY <1>1, InitIInv, NextKeepsIInv, PTL DEF Spec

=============================================================================

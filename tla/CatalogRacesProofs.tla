------------------------- MODULE CatalogRacesProofs -------------------------
(***************************************************************************)
(* Proofs about CatalogRaces, for any number of products, operations and   *)
(* failures: only a save that raced undoes a write or revives a product.   *)
(***************************************************************************)
EXTENDS CatalogRaces, ProductCatalogProofs

\* A worker that has not raced is about to save what the table says.
HeldIsCurrent == \A w \in Workers :
  Holds(w) /\ w \notin raced => worker[w].entity = rows[worker[w].key]

RInv == IInv /\ HeldIsCurrent /\ StockAccounted

\* What a worker does, whichever operation it is busy with.
Acts(w) == Request(w) \/ Step(w) \/ CallRejects(w)

-----------------------------------------------------------------------------
(* What a step does to the workers and to the table.                       *)

\* No row is the absence of one.
LEMMA NoRowIsNoRow == NoRow \notin Row
<1>1. ASSUME NoRow \in Row PROVE FALSE
  <2>1. NoRow.stock \in Int
    BY <1>1 DEF Row
  <2>2. DOMAIN NoRow = {"stock"} /\ DOMAIN NoRow = {"details", "stock"}
    BY <1>1 DEF Row, NoRow
  <2> QED BY <2>2
<1> QED BY <1>1

\* A worker that holds an entity works on a product and holds a row.
LEMMA HoldsRow ==
  ASSUME IInv, NEW w \in Workers, Holds(w)
  PROVE  worker[w].key \in Products /\ worker[w].entity \in Row /\ worker[w].key \in issued
<1>1. worker[w].pc \in {"fill", "save"} /\ worker[w].op = "save"
  BY DEF Holds
<1>2. worker[w] # Idle
  BY <1>1 DEF Idle
<1>3. worker[w].key \in Products
  BY <1>1, <1>2 DEF IInv, JobShape, Shape
<1>4. worker[w].key # ListKey
  BY <1>3, CatalogAssumption
<1>5. worker[w].entity \in Row
  BY <1>1, <1>4 DEF IInv, TypeOK, ValuesOf
<1> QED BY <1>1, <1>3, <1>5 DEF IInv, UnissuedUnseen

\* A worker that moves leaves the others where they are.
LEMMA OthersStay ==
  ASSUME IInv, NEW w \in Workers, Acts(w)
  PROVE  \A v \in Workers \ {w} : worker'[v] = worker[v]
<1> USE DEF IInv, TypeOK
<1>1. CASE Request(w)
  BY <1>1 DEF Request, FindAll, FindOne, Remove, Deduct, Update, Create, Start
<1>2. CASE Step(w)
  BY <1>2 DEF Step, Get, Find, Fill, Answer, Save, Delete, Decrement, DelProduct,
              DelList, Insert, Goes, Reads, Ends
<1>3. CASE CallRejects(w)
  BY <1>3 DEF CallRejects, Ends
<1> QED BY <1>1, <1>2, <1>3 DEF Acts

\* A worker that holds an entity after its step has taken it from the cache
\* or from the table by this step, or has held it before.
LEMMA HowHeld ==
  ASSUME IInv, NEW w \in Workers, Acts(w), Holds(w)'
  PROVE  /\ rows' = rows /\ worker'[w].key = worker[w].key
         /\ \/ /\ worker[w].pc = "get" /\ cache[worker[w].key] # Nothing
               /\ worker'[w].entity = cache[worker[w].key]
            \/ worker'[w].entity = Current(worker[w].key)
            \/ Holds(w) /\ worker'[w].entity = worker[w].entity
<1> DEFINE job == worker[w]
<1>1. /\ worker'[w].pc \in {"fill", "save"} /\ worker'[w].op = "save"
      /\ worker \in [Workers -> Jobs \cup {Idle}]
  BY DEF Holds, IInv, TypeOK
<1>2. ASSUME NEW pc, Goes(w, pc), job \in Jobs
      PROVE  /\ worker'[w].pc = pc /\ worker'[w].op = job.op /\ worker'[w].key = job.key
             /\ worker'[w].entity = job.entity
  BY <1>1, <1>2 DEF Goes, Jobs
<1>3. ASSUME NEW entity, NEW pc, job \in Jobs,
             worker' = [worker EXCEPT ![w].entity = entity, ![w].pc = pc]
      PROVE  /\ worker'[w].pc = pc /\ worker'[w].op = job.op /\ worker'[w].key = job.key
             /\ worker'[w].entity = entity
  BY <1>1, <1>3 DEF Jobs
<1>4. ~Ends(w)
  BY <1>1 DEF Ends, Idle
<1>5. ASSUME job.pc # "idle" PROVE job \in Jobs
  BY <1>5, BusyWorker DEF IInv
<1>6. CASE Request(w)
  <2>1. worker'[w].pc \in {"get", "decrement", "insert"}
    BY <1>1, <1>6 DEF Request, FindAll, FindOne, Remove, Deduct, Update, Create, Start, Job
  <2> QED BY <1>1, <2>1
<1>7. CASE Get(w)
  <2>1. job \in Jobs /\ rows' = rows
    BY <1>5, <1>7 DEF Get
  <2>2. CASE cache[job.key] = Nothing
    <3>1. worker'[w].pc = "find"
      BY <1>2, <1>7, <2>1, <2>2 DEF Get
    <3> QED BY <1>1, <3>1
  <2>3. CASE cache[job.key] # Nothing
    <3>1. worker' = [worker EXCEPT ![w].entity = cache[job.key], ![w].pc = worker[w].op]
      BY <1>7, <2>3 DEF Get, Reads
    <3>2. worker'[w].key = job.key /\ worker'[w].entity = cache[job.key]
      BY <1>3, <2>1, <3>1
    <3> QED BY <1>7, <2>1, <2>3, <3>2 DEF Get
  <2> QED BY <2>2, <2>3
<1>8. CASE Find(w)
  <2>1. job \in Jobs /\ rows' = rows
    BY <1>5, <1>8 DEF Find
  <2>2. worker' = [worker EXCEPT ![w].entity = Current(job.key), ![w].pc = "fill"]
    BY <1>4, <1>8 DEF Find
  <2> QED BY <1>3, <2>1, <2>2
<1>9. CASE Fill(w)
  <2>1. job \in Jobs /\ rows' = rows /\ job.pc = "fill" /\ Goes(w, job.op)
    BY <1>5, <1>9 DEF Fill
  <2>2. worker'[w].op = job.op /\ worker'[w].key = job.key /\ worker'[w].entity = job.entity
    BY <1>2, <2>1
  <2> QED BY <1>1, <2>1, <2>2 DEF Holds
<1>10. CASE Save(w) \/ Delete(w) \/ Decrement(w) \/ DelProduct(w) \/ \E p \in Products : Insert(w, p)
  <2>1. job.pc # "idle" /\ (Goes(w, "delProduct") \/ Goes(w, "delList"))
    BY <1>10 DEF Save, Delete, Decrement, DelProduct, Insert
  <2>2. worker'[w].pc \in {"delProduct", "delList"}
    BY <1>2, <1>5, <2>1
  <2> QED BY <1>1, <2>2
<1>11. CASE Answer(w) \/ DelList(w) \/ CallRejects(w)
  BY <1>4, <1>11 DEF Answer, DelList, CallRejects
<1> QED BY <1>6, <1>7, <1>8, <1>9, <1>10, <1>11 DEF Acts, Step

\* The cache does not mislead: what it holds under a key that is not
\* doubtful is what the table says.
LEMMA HitIsCurrent ==
  ASSUME IInv, NEW k \in Products, ~Doubtful(k), cache[k] # Nothing
  PROVE  cache[k] = rows[k]
<1>1. k \in Keys \ exposed /\ k # ListKey
  BY CatalogAssumption DEF Doubtful, Keys
<1>2. Fresh(k)
  BY <1>1 DEF IInv, FreshUnlessExposed, Doubtful
<1> QED BY <1>1, <1>2 DEF Fresh, Current

-----------------------------------------------------------------------------
(* The invariant is kept.                                                  *)

LEMMA HeldStaysCurrent ==
  ASSUME RInv, RacesNext
  PROVE  HeldIsCurrent'
<1> SUFFICES ASSUME NEW v \in Workers, Holds(v)', v \notin raced'
             PROVE  worker'[v].entity = rows'[worker'[v].key]
  BY DEF HeldIsCurrent, Holds
<1>1. v \notin raced /\ ~TakesDoubtfulHit(v) /\ ~IsOvertaken(v)
  BY DEF RacesNext, Histories
<1>2. CASE worker'[v] = worker[v]
  <2>1. Holds(v)
    BY <1>2 DEF Holds
  <2> QED BY <1>1, <1>2, <2>1 DEF RInv, HeldIsCurrent, IsOvertaken
<1>3. CASE Acts(v)
  <2>1. /\ rows' = rows /\ worker'[v].key = worker[v].key
        /\ \/ /\ worker[v].pc = "get" /\ cache[worker[v].key] # Nothing
              /\ worker'[v].entity = cache[worker[v].key]
           \/ worker'[v].entity = Current(worker[v].key)
           \/ Holds(v) /\ worker'[v].entity = worker[v].entity
    BY <1>3, HowHeld DEF RInv
  <2>2. worker'[v].key \in Products /\ worker'[v].key # ListKey
    <3>1. IInv'
      BY NextKeepsIInv DEF RInv, RacesNext
    <3>2. worker'[v] # Idle
      BY DEF Holds, Idle
    <3> QED BY <3>1, <3>2, CatalogAssumption DEF Holds, IInv, JobShape, Shape
  <2>3. CASE worker[v].pc = "get" /\ cache[worker[v].key] # Nothing
             /\ worker'[v].entity = cache[worker[v].key]
    <3>1. ~Doubtful(worker[v].key)
      BY <1>1, <2>3 DEF TakesDoubtfulHit
    <3> QED BY <2>1, <2>2, <2>3, <3>1, HitIsCurrent DEF RInv
  <2>4. CASE worker'[v].entity = Current(worker[v].key)
    BY <2>1, <2>2, <2>4 DEF Current
  <2>5. CASE Holds(v) /\ worker'[v].entity = worker[v].entity
    BY <1>1, <2>1, <2>5 DEF RInv, HeldIsCurrent
  <2> QED BY <2>1, <2>3, <2>4, <2>5
<1>4. CASE \E w \in Workers \ {v} : Acts(w)
  BY <1>2, <1>4, OthersStay DEF RInv
<1>5. CASE \E k \in Keys : Expire(k)
  BY <1>2, <1>5 DEF Expire
<1> QED BY <1>3, <1>4, <1>5 DEF RacesNext, Next, Acts

\* A save that has not raced finds the row it has read.
LEMMA SaveSeesRow ==
  ASSUME RInv, NEW w \in Workers, Save(w)
  PROVE  /\ worker[w].key \in Products /\ worker[w].dto \in Dtos /\ worker[w].entity \in Row
         /\ w \notin raced => worker[w].entity = rows[worker[w].key]
         /\ Saves(w, worker[w].key)
<1>1. worker[w].pc = "save" /\ worker[w].op = "save" /\ worker[w] \in Jobs /\ worker[w].dto \in Dtos
  BY OwnCall DEF RInv, Save, Ops
<1>2. worker'[w].pc = "delProduct"
  BY <1>1 DEF Save, Goes, RInv, IInv, TypeOK, Jobs
<1>3. Holds(w)
  BY <1>1 DEF Holds
<1> QED BY <1>1, <1>2, <1>3, HoldsRow DEF RInv, HeldIsCurrent, Saves

\* Nothing but a save goes from the save to the first key.
LEMMA WhoSaves ==
  ASSUME RInv, Next, NEW w \in Workers, NEW p \in Products, Saves(w, p)
  PROVE  Save(w)
<1>1. worker[w].pc = "save" /\ worker'[w] # worker[w] /\ worker[w] # Idle
  BY DEF Saves, Idle
<1>2. CASE Acts(w)
  <2>1. CASE CallRejects(w)
    <3>1. worker'[w] = Idle
      BY <2>1 DEF CallRejects, Ends, RInv, IInv, TypeOK
    <3> QED BY <3>1 DEF Saves, Idle
  <2>2. ~Request(w)
    BY <1>1 DEF Request, FindAll, FindOne, Remove, Deduct, Update, Create, Start
  <2> QED BY <1>1, <1>2, <2>1, <2>2 DEF Acts, Step, Get, Find, Fill, Answer, Delete,
                                        Decrement, DelProduct, DelList, Insert
<1>3. CASE \E v \in Workers \ {w} : Acts(v)
  BY <1>1, <1>3, OthersStay DEF RInv
<1>4. CASE \E k \in Keys : Expire(k)
  BY <1>1, <1>4 DEF Expire
<1> QED BY <1>2, <1>3, <1>4 DEF Next, Acts

LEMMA StockStaysAccounted ==
  ASSUME RInv, RacesNext
  PROVE  StockAccounted'
<1> SUFFICES ASSUME NEW p \in Products, p \notin spoiled', rows'[p] # NoRow
             PROVE  rows'[p].stock = ledger'[p]
  BY DEF StockAccounted
<1>1. rows \in Table /\ ledger \in [Products -> Int]
  BY DEF RInv, IInv, TypeOK
<1>2. ASSUME NEW w \in Workers, Saves(w, p) PROVE rows'[p].stock = ledger'[p]
  <2> DEFINE job == worker[w]
  <2>1. /\ job.key = p /\ Save(w)
        /\ rows'[p] = Assigned(job.entity, job.dto)
    BY <1>1, <1>2, WhoSaves DEF RacesNext, Saves, Save, Table
  <2>2. CASE SetsStock(w)
    <3>1. ledger'[p] = job.dto.stock
      BY <1>1, <2>1, <2>2 DEF Save, SetsStock
    <3> QED BY <2>1, <2>2, <3>1 DEF Assigned, Columns, SetsStock
  <2>3. CASE ~SetsStock(w)
    <3>1. w \notin raced
      BY <1>2, <2>3 DEF RacesNext, Histories
    <3>2. job.entity \in Row /\ job.entity = rows[p]
      BY <2>1, <3>1, SaveSeesRow
    <3>3. \A v \in Workers : Saves(v, p) => ~SetsStock(v)
      <4> SUFFICES ASSUME NEW v \in Workers \ {w}, Saves(v, p) PROVE FALSE
        BY <2>3
      <4>1. worker'[v] = worker[v]
        BY <2>1, OthersStay DEF RInv, Acts, Step
      <4> QED BY <4>1 DEF Saves
    <3>4. p \notin spoiled
      BY <3>3 DEF RacesNext, Histories
    <3>5. job.entity.stock = ledger[p]
      BY <3>2, <3>4, NoRowIsNoRow DEF RInv, StockAccounted
    <3>6. ledger'[p] = ledger[p]
      BY <2>1, <2>3 DEF Save, SetsStock
    <3> QED BY <2>1, <2>3, <3>5, <3>6 DEF Assigned, Columns, SetsStock
  <2> QED BY <2>2, <2>3
<1>3. CASE \A w \in Workers : ~Saves(w, p)
  <2>1. p \notin spoiled
    BY <1>3 DEF RacesNext, Histories
  <2>2. rows[p] # NoRow => rows[p].stock = ledger[p]
    BY <2>1 DEF RInv, StockAccounted
  <2>3. CASE rows'[p] = rows[p] /\ ledger'[p] = ledger[p]
    BY <2>2, <2>3
  <2>4. ASSUME NEW w \in Workers, Save(w) PROVE rows'[p].stock = ledger'[p]
    <3>1. worker[w].key \in Products /\ worker[w].key # p
      BY <1>3, <2>4, SaveSeesRow
    <3> QED BY <1>1, <2>3, <2>4, <3>1 DEF Save, Table
  <2>5. ASSUME NEW w \in Workers, Delete(w) PROVE rows'[p].stock = ledger'[p]
    <3>1. worker[w].key \in Products
      BY <2>5, OwnCall DEF RInv, Delete, Ops
    <3> QED BY <1>1, <2>3, <2>5, <3>1 DEF Delete, Table
  <2>6. ASSUME NEW w \in Workers, Decrement(w) PROVE rows'[p].stock = ledger'[p]
    <3> DEFINE q == worker[w].key
    <3>1. q \in Products
      BY <2>6, OwnCall DEF RInv, Decrement, Ops
    <3>2. CASE rows[q] = NoRow
      BY <2>3, <2>6, <3>2 DEF Decrement
    <3>3. CASE rows[q] # NoRow
      <4>1. /\ rows' = [rows EXCEPT ![q].stock = @ - 1]
            /\ ledger' = [ledger EXCEPT ![q] = @ - 1]
        BY <2>6, <3>3 DEF Decrement
      <4>2. rows[q] \in Row
        BY <1>1, <3>1, <3>3 DEF Table
      <4>3. CASE q = p
        BY <1>1, <2>2, <3>1, <3>3, <4>1, <4>2, <4>3 DEF Table, Row
      <4>4. CASE q # p
        BY <1>1, <2>3, <4>1, <4>4 DEF Table
      <4> QED BY <4>3, <4>4
    <3> QED BY <3>2, <3>3
  <2>7. ASSUME NEW w \in Workers, NEW q \in Products, Insert(w, q)
        PROVE  rows'[p].stock = ledger'[p]
    BY <1>1, <2>3, <2>7 DEF Insert, Table
  <2>8. ASSUME NEW w \in Workers, Get(w) \/ Find(w) \/ Fill(w) \/ Answer(w)
                                 \/ DelProduct(w) \/ DelList(w) \/ CallRejects(w)
        PROVE  rows'[p].stock = ledger'[p]
    BY <2>3, <2>8 DEF Get, Find, Fill, Answer, DelProduct, DelList, CallRejects,
                      Bookkeeping, Unforgotten
  <2>9. ASSUME NEW w \in Workers, Request(w) PROVE rows'[p].stock = ledger'[p]
    BY <2>3, <2>9 DEF Request, FindAll, FindOne, Remove, Deduct, Update, Create, Start
  <2>10. ASSUME NEW k \in Keys, Expire(k) PROVE rows'[p].stock = ledger'[p]
    BY <2>3, <2>10 DEF Expire, Unforgotten
  <2> QED BY <2>4, <2>5, <2>6, <2>7, <2>8, <2>9, <2>10 DEF RacesNext, Next, Step
<1> QED BY <1>2, <1>3

LEMMA InitRInv == RacesInit => RInv
<1> SUFFICES ASSUME RacesInit PROVE RInv
  OBVIOUS
<1>1. IInv
  BY InitIInv DEF RacesInit
<1>2. HeldIsCurrent
  BY DEF RacesInit, Init, HeldIsCurrent, Holds, Idle
<1>3. StockAccounted
  BY CatalogAssumption DEF RacesInit, Init, StockAccounted
<1> QED BY <1>1, <1>2, <1>3 DEF RInv

LEMMA NextKeepsRInv == RInv /\ [RacesNext]_rvars => RInv'
<1> SUFFICES ASSUME RInv, [RacesNext]_rvars PROVE RInv'
  OBVIOUS
<1>1. CASE RacesNext
  <2>1. IInv'
    BY <1>1, NextKeepsIInv DEF RInv, RacesNext
  <2> QED BY <1>1, <2>1, HeldStaysCurrent, StockStaysAccounted DEF RInv
<1>2. CASE UNCHANGED rvars
  <2>1. IInv'
    BY <1>2, NextKeepsIInv DEF RInv, rvars
  <2>2. HeldIsCurrent' /\ StockAccounted'
    BY <1>2 DEF rvars, vars, RInv, HeldIsCurrent, Holds, StockAccounted
  <2> QED BY <2>1, <2>2 DEF RInv
<1> QED BY <1>1, <1>2

-----------------------------------------------------------------------------
(* The theorems.                                                           *)

\* However operations on the catalogue overlap and fail, the stock of a
\* product is what creation, PATCH and the saga's decrements have made it,
\* unless a PATCH that does not set it saved an entity that a write had
\* overtaken, and none has set it since (update, updateStock and deductStock
\* of ProductsService).
THEOREM StockIsAccounted == RacesSpec => []StockAccounted
<1>1. RInv => StockAccounted
  BY DEF RInv
<1> QED BY <1>1, InitRInv, NextKeepsRInv, PTL DEF RacesSpec

\* A product that was deleted comes back only by such a PATCH (remove and
\* update of ProductsService).
THEOREM RemovedIsGone == RacesSpec => RemovedStaysRemoved
<1>1. RInv /\ [RacesNext]_rvars =>
        [\A p \in issued : rows[p] = NoRow /\ rows'[p] # NoRow =>
           \E w \in raced : Saves(w, p)]_rvars
  <2> SUFFICES ASSUME RInv, RacesNext, NEW p \in issued, rows[p] = NoRow,
                      \A w \in raced : ~Saves(w, p)
               PROVE  rows'[p] = NoRow
    OBVIOUS
  <2>1. p \in Products /\ rows \in Table
    BY DEF RInv, IInv, TypeOK
  <2>2. CASE rows'[p] = rows[p]
    BY <2>2
  <2>3. ASSUME NEW w \in Workers, Save(w) PROVE rows'[p] = NoRow
    <3>1. worker[w].key # p
      BY <2>3, SaveSeesRow, NoRowIsNoRow
    <3> QED BY <2>1, <2>3, <3>1 DEF Save, Table
  <2>4. ASSUME NEW w \in Workers, Delete(w) PROVE rows'[p] = NoRow
    BY <2>1, <2>4 DEF Delete, Table
  <2>5. ASSUME NEW w \in Workers, Decrement(w) PROVE rows'[p] = NoRow
    <3>1. CASE rows[worker[w].key] = NoRow
      BY <2>5, <3>1 DEF Decrement
    <3>2. CASE rows[worker[w].key] # NoRow
      BY <2>1, <2>5, <3>2 DEF Decrement, Table
    <3> QED BY <3>1, <3>2
  <2>6. ASSUME NEW w \in Workers, NEW q \in Products, Insert(w, q) PROVE rows'[p] = NoRow
    BY <2>1, <2>6 DEF Insert, Table
  <2>7. ASSUME NEW w \in Workers, Get(w) \/ Find(w) \/ Fill(w) \/ Answer(w)
                                 \/ DelProduct(w) \/ DelList(w) \/ CallRejects(w)
        PROVE  rows'[p] = NoRow
    BY <2>2, <2>7 DEF Get, Find, Fill, Answer, DelProduct, DelList, CallRejects
  <2>8. ASSUME NEW w \in Workers, Request(w) PROVE rows'[p] = NoRow
    BY <2>2, <2>8 DEF Request, FindAll, FindOne, Remove, Deduct, Update, Create, Start
  <2>9. ASSUME NEW k \in Keys, Expire(k) PROVE rows'[p] = NoRow
    BY <2>2, <2>9 DEF Expire
  <2> QED BY <2>3, <2>4, <2>5, <2>6, <2>7, <2>8, <2>9 DEF RacesNext, Next, Step
<1> QED BY <1>1, InitRInv, NextKeepsRInv, PTL DEF RacesSpec, RemovedStaysRemoved

=============================================================================

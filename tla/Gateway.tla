------------------------------ MODULE Gateway ------------------------------
(***************************************************************************)
(* api-gateway: the guarded routes of /orders and /products, forwarded to  *)
(* order-service and product-service over HTTP.                            *)
(*                                                                         *)
(* A client has one call at a time; a call becomes a job upstream.  The    *)
(* two may end apart: when the gateway has given up and answered 500 the   *)
(* job goes on, adrift.  Of the saga behind an order only the contract of  *)
(* the shop is known here: once started it settles, once and for all,      *)
(* unless one of its events is lost.                                       *)
(***************************************************************************)
EXTENDS Integers, FiniteSets

CONSTANTS Orders,
          Users,      \* subjects of valid tokens
          Anonymous,  \* a client without a valid token
          DemoUser,   \* "__force_fail_deduct__"
          Routes,     \* Routes[u]: kinds of calls the client u makes
          MaxWrites,  \* bounds the calls that write to products
          MaxFaults   \* bounds what goes wrong: a query that rejects, a
                      \* service that dies, one that is slow, a lost event

Posts  == {"create", "demo"}
Writes == Posts \cup {"write"}
Reads  == {"get", "list"}
Kinds  == Writes \cup Reads

ASSUME GatewayAssumption ==
  /\ Anonymous \notin Users /\ DemoUser \notin Users \cup {Anonymous}
  /\ Routes \in [Users \cup {Anonymous} -> SUBSET Kinds]
  /\ MaxWrites \in Nat /\ MaxFaults \in Nat
  /\ Users \cap (1..MaxFaults) = {} /\ Anonymous \notin 1..MaxFaults

VARIABLES status,   \* status[o]: the order's, "NONE" if it has no row
          userId,   \* userId[o]: the column of the order's row
          sagas,    \* orders whose saga is under way, or has settled them:
                    \* no event of it has been lost
          call,     \* call[u]: what u asked last, and the answer
          job,      \* job[u]: what the service does for u's call;
                    \* job[n]: what it does for the call given up n-th
          placedBy, \* placedBy[o]: whose call made the order (a history)
          acked,    \* acked[u]: orders u has been told of (a history)
          final,    \* final[u]: orders u has seen settled (a history)
          writes,   \* calls that write to products so far
          faults    \* things that have gone wrong so far

shop   == <<status, userId, sagas, placedBy>>
client == <<call, acked, final>>
vars   == <<shop, client, job, writes, faults>>

Clients == Users \cup {Anonymous}
Adrift  == 1..MaxFaults

\* Of a status the gateway's clients want to know whether it is final:
\* "SETTLED" stands for COMPLETED and FAILED.
OrderStatus == {"PROCESSING", "SETTLED"}

Settled == {o \in Orders : status[o] = "SETTLED"}

\* An answer: its code (0 as long as there is none), the orders it shows
\* and those it shows settled.
Reply == [code    : {0, 200, 201, 404, 500},
          shows   : SUBSET Orders,
          settled : SUBSET Orders]

Plain(n)       == [code |-> n, shows |-> {}, settled |-> {}]
Showing(n, os) == [code |-> n, shows |-> os, settled |-> os \cap Settled]

Call == [kind : Kinds, reply : Reply]
Free == [kind |-> "get", reply |-> Plain(500)]

\* pc: "asked", then for a POST of an order "saved", then "ready" to reply;
\* "silent" if the service was lost without a word, "none" if the job has
\* ended.  effects counts the rows it has written.
Job == [pc      : {"none", "asked", "saved", "ready", "silent"},
        kind    : Kinds,
        who     : Clients,
        about   : SUBSET Orders,
        effects : Nat,
        reply   : Reply]

NoJob == [pc |-> "none", kind |-> "get", who |-> Anonymous, about |-> {},
          effects |-> 0, reply |-> Plain(0)]

Pending(u) == call[u].reply.code = 0

-----------------------------------------------------------------------------
(* Routes of the gateway.                                                  *)

\* Faulty: the guard is missing on the routes that write to products.
AuthorizedToOrder(u, kind) == u \in Users \/ kind = "write"

\* JwtAuthGuard: without a valid token the answer is 401 at once, and
\* nothing else happens.
Authorized(u, kind) == u \in Users

\* A call begins and is forwarded.
Begin(u, kind, about) ==
  /\ kind \in Routes[u] /\ ~Pending(u)
  /\ Authorized(u, kind)
  /\ call' = [call EXCEPT ![u] = [kind |-> kind, reply |-> Plain(0)]]
  /\ job' = [job EXCEPT ![u] = [NoJob EXCEPT !.pc = "asked", !.kind = kind,
                                             !.who = u, !.about = about]]
  /\ UNCHANGED <<shop, acked, final, faults>>

\* The pool of ids bounds the orders: a POST comes while one is to spare.
IdToSpare == Cardinality({o \in Orders : status[o] = "NONE"}) >
             Cardinality({j \in DOMAIN job : job[j].pc = "asked" /\ job[j].kind \in Posts})

CreateOrder(u) == IdToSpare /\ Begin(u, "create", {}) /\ UNCHANGED writes
ForceFail(u)   == IdToSpare /\ Begin(u, "demo", {}) /\ UNCHANGED writes
GetOrder(u, o) == Begin(u, "get", {o}) /\ UNCHANGED writes
ListOrders(u)  == Begin(u, "list", Orders) /\ UNCHANGED writes

\* POST, PATCH and DELETE of products.
WriteProduct(u) == /\ writes < MaxWrites
                   /\ writes' = writes + 1
                   /\ Begin(u, "write", {})

-----------------------------------------------------------------------------
(* The job upstream.                                                       *)

Works(j, kinds, pc) == job[j].pc = pc /\ job[j].kind \in kinds
Fault               == faults < MaxFaults /\ faults' = faults + 1

Wrote(j, pc, reply) ==
  job' = [job EXCEPT ![j].pc = pc, ![j].effects = @ + 1, ![j].reply = reply]
Replies(j, reply) == job' = [job EXCEPT ![j].pc = "ready", ![j].reply = reply]

\* Faulty: a POST of an order forwards no user.
HeaderOfReads(j) == IF job[j].kind \in Posts THEN Anonymous ELSE job[j].who

\* X-User-Id
Header(j) == IF job[j].kind = "demo" THEN DemoUser ELSE job[j].who

\* OrdersService.create: orderRepo.save, under the user of the header.
SaveOrder(j, o) ==
  /\ Works(j, Posts, "asked")
  /\ status[o] = "NONE"
  /\ status' = [status EXCEPT ![o] = "PROCESSING"]
  /\ userId' = [userId EXCEPT ![o] = Header(j)]
  /\ placedBy' = [placedBy EXCEPT ![o] = job[j].who]
  /\ Wrote(j, "saved", Showing(201, {o}))
  /\ UNCHANGED <<sagas, client, writes, faults>>

\* sagaRepo.save, and the first event of the saga; whether the event is
\* sent makes no difference to the answer.
StartSaga(j) ==
  /\ Works(j, Posts, "saved")
  /\ Replies(j, job[j].reply)
  /\ \/ sagas' = sagas \cup job[j].reply.shows /\ UNCHANGED faults
     \/ Fault /\ UNCHANGED sagas
  /\ UNCHANGED <<status, userId, placedBy, client, writes>>

\* Faulty: the row is found by its id alone.
VisibleById(j) == {o \in job[j].about : status[o] # "NONE"}

\* Faulty: only what is still open is found.
VisibleOpen(j) == {o \in job[j].about : userId[o] = Header(j) /\ o \notin Settled}

\* Rows a query of order-service finds: `where` names the user.
Visible(j) == {o \in job[j].about : userId[o] = Header(j)}

\* OrdersService.findOne and findAll
ReadOrders(j) ==
  /\ Works(j, Reads, "asked")
  /\ Replies(j, IF job[j].kind = "get" /\ Visible(j) = {}
                THEN Plain(404) ELSE Showing(200, Visible(j)))
  /\ UNCHANGED <<shop, client, writes, faults>>

\* product-service writes, or does not know the product.
UseProduct(j) ==
  /\ Works(j, {"write"}, "asked")
  /\ Wrote(j, "ready", Plain(200)) \/ Replies(j, Plain(404))
  /\ UNCHANGED <<shop, client, writes, faults>>

\* A query rejects, or a total exceeds its decimal(10,2) column: 500.  So
\* it is for a product that is saved when the cache cannot be invalidated.
UpstreamThrows(j) ==
  /\ job[j].pc \in {"asked", "saved"}
  /\ Fault
  /\ \/ Replies(j, Plain(500))
     \/ job[j].kind = "write" /\ Wrote(j, "ready", Plain(500))
  /\ UNCHANGED <<shop, client, writes>>

\* The service cannot be reached, or dies over the job; the gateway learns
\* of it from the connection, or not at all.
UpstreamDies(j) ==
  /\ job[j].pc \in {"asked", "saved", "ready"}
  /\ Fault
  /\ \E left \in {"none", "silent"} :
       job' = [job EXCEPT ![j].pc = left, ![j].reply = Plain(0)]
  /\ UNCHANGED <<shop, client, writes>>

-----------------------------------------------------------------------------
(* The answer of the gateway: forward, handleError.                        *)

Answers(u, reply) == call' = [call EXCEPT ![u].reply = reply]

\* Status and body go to the client as they are.
PassOn(u) ==
  LET reply == job[u].reply IN
  /\ Pending(u) /\ job[u].pc = "ready"
  /\ Answers(u, reply)
  /\ job' = [job EXCEPT ![u].pc = "none", ![u].reply = Plain(0)]
  /\ acked' = [acked EXCEPT ![u] = @ \cup reply.shows]
  /\ final' = [final EXCEPT ![u] = @ \cup reply.settled]
  /\ UNCHANGED <<shop, writes, faults>>

\* Faulty: the call is sent once more.
ConnectionFailsRetry(u) ==
  /\ Pending(u) /\ job[u].pc = "none"
  /\ job' = [job EXCEPT ![u].pc = "asked"]
  /\ UNCHANGED <<shop, client, writes, faults>>

\* Faulty: the code of the connection's error is the code of the answer.
ConnectionFailsRaw(u) ==
  /\ Pending(u) /\ job[u].pc = "none"
  /\ Answers(u, Plain(-1))
  /\ UNCHANGED <<shop, job, acked, final, writes, faults>>

\* An error without a response: 500 "unreachable".
ConnectionFails(u) ==
  /\ Pending(u) /\ job[u].pc = "none"
  /\ Answers(u, Plain(500))
  /\ UNCHANGED <<shop, job, acked, final, writes, faults>>

\* Faulty: the client of axios has no timeout.
NoTimeout(u) == FALSE

\* The timeout of 10 s, for a service that was lost.
TimesOut(u) ==
  /\ Pending(u) /\ job[u].pc = "silent"
  /\ Answers(u, Plain(500))
  /\ job' = [job EXCEPT ![u].pc = "none"]
  /\ UNCHANGED <<shop, acked, final, writes, faults>>

\* The same for one that is slow: nothing stops the job.
GivesUp(u) ==
  /\ Pending(u) /\ job[u].pc \in {"asked", "saved", "ready"}
  /\ Fault
  /\ Answers(u, Plain(500))
  /\ job' = [job EXCEPT ![faults + 1] = job[u], ![u].pc = "none", ![u].reply = Plain(0)]
  /\ UNCHANGED <<shop, acked, final, writes>>

-----------------------------------------------------------------------------
(* The saga of an order, see SagaContract and OmniSaga.                    *)

\* It comes to its end.
Settle(o) ==
  /\ o \in sagas /\ status[o] = "PROCESSING"
  /\ status' = [status EXCEPT ![o] = "SETTLED"]
  /\ UNCHANGED <<userId, sagas, placedBy, client, job, writes, faults>>

\* An event of it is lost, and nothing carries it on: emit is not awaited in
\* any handler of the three services.
Strand(o) ==
  /\ o \in sagas /\ status[o] = "PROCESSING"
  /\ Fault
  /\ sagas' = sagas \ {o}
  /\ UNCHANGED <<status, userId, placedBy, client, job, writes>>

-----------------------------------------------------------------------------
Init == /\ status = [o \in Orders |-> "NONE"]
        /\ userId = [o \in Orders |-> Anonymous]
        /\ placedBy = [o \in Orders |-> Anonymous]
        /\ sagas = {}
        /\ call = [u \in Clients |-> Free]
        /\ job = [j \in Clients \cup Adrift |-> NoJob]
        /\ acked = [u \in Clients |-> {}]
        /\ final = [u \in Clients |-> {}]
        /\ writes = 0 /\ faults = 0

Request(u) == \/ CreateOrder(u) \/ ForceFail(u) \/ ListOrders(u) \/ WriteProduct(u)
              \/ \E o \in Orders : GetOrder(u, o)

Work(j) == \/ StartSaga(j) \/ ReadOrders(j) \/ UseProduct(j)
           \/ \E o \in Orders : SaveOrder(j, o)

Answer(u) == PassOn(u) \/ ConnectionFails(u) \/ TimesOut(u)

Next == \/ \E u \in Clients : Request(u) \/ Answer(u) \/ GivesUp(u)
        \/ \E j \in DOMAIN job : Work(j) \/ UpstreamThrows(j) \/ UpstreamDies(j)
        \/ \E o \in Orders : Settle(o) \/ Strand(o)

Spec == Init /\ [][Next]_vars

\* A client that polls asks for an order it was told of until it has seen
\* it settled.
Poll(u, o) == o \in acked[u] \ final[u] /\ GetOrder(u, o)

\* Services and gateway go on, clients poll, and so do the consumers of a
\* saga none of whose events has been lost (SettlesForGood of OmniSaga).
FairSpec == /\ Spec
            /\ \A j \in Clients \cup Adrift : WF_vars(Work(j))
            /\ \A u \in Clients : WF_vars(Answer(u))
            /\ \A o \in Orders : WF_vars(Settle(o))
            /\ \A u \in Users, o \in Orders : SF_vars(Poll(u, o))

-----------------------------------------------------------------------------
(* Properties.                                                             *)

\* Each variable has the type its service declares.
TypeOK ==
  /\ status \in [Orders -> OrderStatus \cup {"NONE"}]
  /\ userId \in [Orders -> Clients \cup {DemoUser}]
  /\ placedBy \in [Orders -> Clients]
  /\ sagas \subseteq Orders
  /\ call \in [Clients -> Call]
  /\ job \in [Clients \cup Adrift -> Job]
  /\ acked \in [Clients -> SUBSET Orders] /\ final \in [Clients -> SUBSET Orders]
  /\ writes \in 0..MaxWrites /\ faults \in 0..MaxFaults

\* A call takes effect once at most, given up or not; not at all without a
\* token or if it is answered 404, and surely if it is answered with
\* success.
OneEffect ==
  /\ \A j \in DOMAIN job : /\ job[j].effects <= 1
                           /\ job[j].who = Anonymous => job[j].effects = 0
  /\ \A u \in Clients :
       /\ call[u].reply.code \in {200, 201} /\ call[u].kind \in Writes => job[u].effects = 1
       /\ call[u].reply.code = 404 => job[u].effects = 0

\* GET /orders shows a caller the orders the caller has made and no others,
\* whoever else is calling.
OwnOrdersOnly == \A u \in Clients : call[u].kind \in Reads =>
  \A o \in call[u].reply.shows : placedBy[o] = u

\* A read shows the orders that earlier answers have told the caller of,
\* settled if they have shown that.  The demo's orders are another matter.
ReadsCatchUp == \A u \in Clients :
  call[u].kind \in Reads /\ call[u].reply.code \in {200, 404} =>
    LET about == {o \in job[u].about : userId[o] # DemoUser} IN
    /\ about \cap acked[u] \subseteq call[u].reply.shows
    /\ about \cap final[u] \subseteq call[u].reply.settled

\* POST /orders/demo/force-fail: the order can be polled under the id that
\* the caller was told.
DemoIsPollable == \A u \in Clients :
  call[u].kind = "get" /\ job[u].about \cap acked[u] # {} => call[u].reply.code # 404

\* Whatever happens upstream, a call is answered.
EveryCallAnswered == \A u \in Users : Pending(u) ~> ~Pending(u)

\* A client that polls an order it was told of comes to see its outcome,
\* unless an event of the order's saga is lost: the first one or a later
\* one.  Nothing that happens to the polling itself keeps it from that.
PollingEnds == \A u \in Users, o \in Orders :
  (o \in acked[u] /\ userId[o] # DemoUser) ~> (o \in final[u] \/ o \notin sagas)

=============================================================================

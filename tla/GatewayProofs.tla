--------------------------- MODULE GatewayProofs ---------------------------
(***************************************************************************)
(* Proofs about Gateway, for any orders, users, routes and faults.         *)
(***************************************************************************)
EXTENDS Gateway, TLAPS

Jobs == Clients \cup Adrift

-----------------------------------------------------------------------------
(* The inductive invariant.                                                *)

\* A row of a user was made by that user; an order without a row is nobody's.
RowsOwned == \A o \in Orders :
  /\ status[o] = "NONE" => userId[o] = Anonymous
  /\ userId[o] \in Users => placedBy[o] = userId[o]

\* What r may show, given the columns st and us: orders of its caller or of
\* the demo, the caller's only if r reads; as settled only what is settled.
ShowsFit(r, st, us) ==
  /\ \A o \in r.reply.shows : /\ st[o] # "NONE" /\ us[o] \in {r.who, DemoUser}
                              /\ r.kind \in Reads => us[o] = r.who
  /\ \A o \in r.reply.settled : o \in r.reply.shows /\ st[o] = "SETTLED"

\* What a job r knows at each of its steps.
Fits(r, st, us) ==
  /\ r.pc # "none" => r.who \in Users
  /\ r.effects \in {0, 1}
  /\ r.who = Anonymous => r.effects = 0
  /\ r.pc = "asked" => r.effects = 0
  /\ r.pc = "saved" => r.effects = 1 /\ r.kind \in Posts /\ r.reply.code = 201
  /\ r.pc = "ready" =>
       /\ r.reply.code # 0
       /\ r.reply.code \in {200, 201} /\ r.kind \in Writes => r.effects = 1
       /\ r.reply.code = 404 => r.effects = 0
  /\ r.pc \in {"saved", "ready"} => ShowsFit(r, st, us)

JobsFit == \A j \in Jobs : Fits(job[j], status, userId)

\* A pending call has its job, an answered one has none at work, and its
\* answer tells what the job has done.
CallFits(u) ==
  /\ Pending(u) => u \in Users /\ job[u].who = u /\ job[u].kind = call[u].kind
  /\ ~Pending(u) => job[u].pc = "none"
  /\ call[u].reply.code \in {200, 201} /\ call[u].kind \in Writes => job[u].effects = 1
  /\ call[u].reply.code = 404 => job[u].effects = 0
  /\ call[u].kind \in Reads =>
       \A o \in call[u].reply.shows : u \in Users /\ status[o] # "NONE" /\ userId[o] = u

\* What a client was told of exists and is the client's or the demo's; what
\* it was told is settled is settled.
KnownFits(u) ==
  /\ \A o \in acked[u] : status[o] # "NONE" /\ userId[o] \in {u, DemoUser}
  /\ \A o \in final[u] : o \in acked[u] /\ status[o] = "SETTLED"

\* reply has what the client u was told before about the orders it asked for.
Covers(u, reply) == \A o \in job[u].about : userId[o] # DemoUser =>
  /\ o \in acked[u] => o \in reply.shows
  /\ o \in final[u] => o \in reply.settled

Says(reply) == reply.code \in {200, 404}

ReadyCovers(u) ==
  job[u].pc = "ready" /\ job[u].kind \in Reads /\ Says(job[u].reply) =>
    Covers(u, job[u].reply)

CaughtUp(u) ==
  /\ call[u].kind \in Reads /\ Says(call[u].reply) => Covers(u, call[u].reply)
  /\ ReadyCovers(u)

ClientsFit == \A u \in Clients : CallFits(u) /\ KnownFits(u) /\ CaughtUp(u)

IInv == TypeOK /\ RowsOwned /\ JobsFit /\ ClientsFit

-----------------------------------------------------------------------------
(* What every step leaves of the rows.                                     *)

\* Rows are kept, with their user; what is settled stays settled.
RowsKept == \A o \in Orders :
  /\ status[o] # "NONE" => /\ status'[o] # "NONE"
                           /\ userId'[o] = userId[o] /\ placedBy'[o] = placedBy[o]
  /\ status[o] = "SETTLED" => status'[o] = "SETTLED"

LEMMA SameRowsKept == ASSUME UNCHANGED shop PROVE RowsKept
BY DEF shop, RowsKept

\* What fits goes on fitting.
LEMMA StillFits ==
  ASSUME RowsKept, NEW r \in Job, Fits(r, status, userId)
  PROVE  Fits(r, status', userId')
<1>1. r.reply.shows \subseteq Orders /\ r.reply.settled \subseteq Orders
  BY DEF Job, Reply
<1>2. ASSUME ShowsFit(r, status, userId) PROVE ShowsFit(r, status', userId')
  BY <1>1, <1>2 DEF ShowsFit, RowsKept
<1> QED BY <1>2 DEF Fits

\* The same of a client that gets no answer, with what its job has come to.
LEMMA StillKnown ==
  ASSUME TypeOK, RowsKept, NEW u \in Clients, KnownFits(u),
         acked'[u] = acked[u], final'[u] = final[u]
  PROVE  KnownFits(u)'
<1>1. acked[u] \subseteq Orders
  BY DEF TypeOK
<1> QED BY <1>1 DEF KnownFits, RowsKept

LEMMA StillCovered ==
  ASSUME TypeOK, RowsOwned, RowsKept, NEW u \in Clients, NEW reply, Covers(u, reply),
         acked'[u] = acked[u], final'[u] = final[u], job'[u].about = job[u].about
  PROVE  Covers(u, reply)'
<1>1. job[u].about \subseteq Orders
  BY DEF TypeOK, Job
<1>2. DemoUser # Anonymous
  BY GatewayAssumption
<1>3. ASSUME NEW o \in Orders, userId'[o] # DemoUser PROVE userId[o] # DemoUser
  BY <1>2, <1>3 DEF RowsOwned, RowsKept
<1> QED BY <1>1, <1>3 DEF Covers

LEMMA StillAnswered ==
  ASSUME TypeOK, RowsKept, NEW u \in Clients, CallFits(u),
         call'[u] = call[u], job'[u].effects = job[u].effects,
         job'[u].who = job[u].who, job'[u].kind = job[u].kind,
         ~Pending(u) => job'[u].pc = "none"
  PROVE  CallFits(u)'
<1>1. call[u].reply.shows \subseteq Orders
  BY DEF TypeOK, Call, Reply
<1> QED BY <1>1 DEF CallFits, Pending, RowsKept

-----------------------------------------------------------------------------
(* The job upstream.                                                       *)

\* One step of the job j that leaves its caller waiting.
LEMMA WorkKeeps ==
  ASSUME IInv, TypeOK', RowsOwned', RowsKept, UNCHANGED client,
         NEW j \in Jobs, job[j].pc # "none",
         \A i \in Jobs \ {j} : job'[i] = job[i],
         job'[j].kind = job[j].kind, job'[j].who = job[j].who,
         job'[j].about = job[j].about,
         Fits(job'[j], status', userId'),
         j \in Clients => ReadyCovers(j)'
  PROVE  IInv'
<1>1. JobsFit'
  <2> SUFFICES ASSUME NEW i \in Jobs PROVE Fits(job'[i], status', userId')
    BY DEF JobsFit
  <2>1. CASE i = j
    BY <2>1
  <2>2. CASE i # j
    <3>1. job[i] \in Job /\ Fits(job[i], status, userId) /\ job'[i] = job[i]
      BY <2>2 DEF IInv, TypeOK, JobsFit, Jobs
    <3> QED BY <3>1, StillFits
  <2> QED BY <2>1, <2>2
<1>2. ASSUME NEW u \in Clients PROVE CallFits(u)' /\ KnownFits(u)' /\ CaughtUp(u)'
  <2> USE DEF client
  <2>1. CallFits(u) /\ KnownFits(u) /\ CaughtUp(u) /\ u \in Jobs /\ TypeOK /\ RowsOwned
    BY DEF IInv, ClientsFit, Jobs
  <2>2. KnownFits(u)'
    BY <2>1, StillKnown
  <2>3. job'[u].about = job[u].about /\ job'[u].kind = job[u].kind /\ job'[u].who = job[u].who
    BY <2>1
  <2>4. ASSUME NEW reply, Covers(u, reply) PROVE Covers(u, reply)'
    BY <2>1, <2>3, <2>4, StillCovered
  <2>5. CASE u = j
    <3>1. Pending(u)
      BY <2>1, <2>5 DEF CallFits
    <3>2. CallFits(u)'
      BY <2>1, <2>3, <3>1 DEF CallFits, Pending, TypeOK, Call, Reply, RowsKept
    <3>3. CaughtUp(u)'
      BY <2>5, <3>1 DEF CaughtUp, Pending, Says
    <3> QED BY <2>2, <3>2, <3>3
  <2>6. CASE u # j
    <3>1. job'[u] = job[u] /\ call'[u] = call[u]
      BY <2>1, <2>6
    <3>2. CallFits(u)'
      BY <2>1, <3>1, StillAnswered DEF CallFits
    <3>3. CaughtUp(u)'
      BY <2>1, <2>4, <3>1 DEF CaughtUp, ReadyCovers, Says
    <3> QED BY <2>2, <3>2, <3>3
  <2> QED BY <2>5, <2>6
<1> QED BY <1>1, <1>2 DEF IInv, ClientsFit

LEMMA TypesOfJob ==
  ASSUME TypeOK, NEW j \in Jobs
  PROVE  job[j] \in Job
BY DEF TypeOK, Jobs

\* A job that is ready with its reply.
Finished(r, reply) == [r EXCEPT !.pc = "ready", !.reply = reply]

\* A job that has written its row.
Written(r, pc, reply) == [r EXCEPT !.pc = pc, !.effects = @ + 1, !.reply = reply]

\* The parts of a job that SaveOrder and its like write.
LEMMA RepliesJob ==
  ASSUME TypeOK, NEW j \in Jobs, NEW reply \in Reply, Replies(j, reply)
  PROVE  /\ job' \in [Jobs -> Job]
         /\ \A i \in Jobs \ {j} : job'[i] = job[i]
         /\ job'[j] = Finished(job[j], reply)
BY DEF TypeOK, Jobs, Replies, Job, Finished

LEMMA WroteJob ==
  ASSUME TypeOK, NEW j \in Jobs, NEW reply \in Reply, NEW pc \in {"saved", "ready"},
         Wrote(j, pc, reply)
  PROVE  /\ job' \in [Jobs -> Job]
         /\ \A i \in Jobs \ {j} : job'[i] = job[i]
         /\ job'[j] = Written(job[j], pc, reply)
BY DEF TypeOK, Jobs, Wrote, Job, Written

\* What a reply has, whichever way it was made.
LEMMA ReplyParts ==
  /\ \A n \in {0, 200, 404, 500} :
       Plain(n) \in Reply /\ Plain(n).code = n /\ Plain(n).shows = {} /\ Plain(n).settled = {}
  /\ \A n \in {200, 201}, os \in SUBSET Orders :
       /\ Showing(n, os) \in Reply /\ Showing(n, os).code = n /\ Showing(n, os).shows = os
       /\ Showing(n, os).settled = os \cap Settled
BY DEF Plain, Showing, Reply, Settled

LEMMA SaveOrderKeeps ==
  ASSUME IInv, NEW j \in Jobs, NEW o \in Orders, SaveOrder(j, o)
  PROVE  IInv'
<1> DEFINE reply == Showing(201, {o})
<1>1. /\ job[j].pc = "asked" /\ job[j].kind \in Posts /\ status[o] = "NONE"
      /\ status' = [status EXCEPT ![o] = "PROCESSING"]
      /\ userId' = [userId EXCEPT ![o] = Header(j)]
      /\ placedBy' = [placedBy EXCEPT ![o] = job[j].who]
      /\ Wrote(j, "saved", reply)
      /\ UNCHANGED <<sagas, client, writes, faults>>
  BY DEF SaveOrder, Works
<1>2. TypeOK /\ RowsOwned /\ job[j] \in Job /\ Fits(job[j], status, userId)
  BY TypesOfJob DEF IInv, JobsFit
<1>3. job[j].who \in Users /\ Header(j) \in {job[j].who, DemoUser} /\ job[j].effects = 0
  BY <1>1, <1>2 DEF Fits, Header
<1>4. reply \in Reply /\ reply.code = 201 /\ reply.shows = {o} /\ reply.settled = {}
  BY <1>1, ReplyParts DEF Settled
<1> HIDE DEF reply
<1>5. /\ job' \in [Jobs -> Job] /\ \A i \in Jobs \ {j} : job'[i] = job[i]
      /\ job'[j] = Written(job[j], "saved", reply)
  BY <1>1, <1>2, <1>4, WroteJob
<1>6. TypeOK'
  BY <1>1, <1>2, <1>3, <1>5 DEF TypeOK, OrderStatus, Clients, client, Jobs
<1>7. RowsKept
  BY <1>1, <1>2 DEF RowsKept, TypeOK
<1>8. RowsOwned'
  BY <1>1, <1>2, <1>3, GatewayAssumption DEF RowsOwned, TypeOK
<1>9. /\ job'[j].pc = "saved" /\ job'[j].effects = 1 /\ job'[j].reply = reply
      /\ job'[j].kind = job[j].kind /\ job'[j].who = job[j].who /\ job'[j].about = job[j].about
  BY <1>2, <1>3, <1>5 DEF Job, Written
<1>10. ShowsFit(job'[j], status', userId')
  <2>1. status'[o] = "PROCESSING" /\ userId'[o] \in {job[j].who, DemoUser}
    BY <1>1, <1>2, <1>3 DEF TypeOK
  <2>2. job[j].kind \notin Reads
    BY <1>1 DEF Posts, Reads
  <2> QED BY <1>4, <1>9, <2>1, <2>2 DEF ShowsFit
<1>11. Fits(job'[j], status', userId')
  BY <1>1, <1>3, <1>4, <1>9, <1>10, GatewayAssumption DEF Fits
<1>12. ReadyCovers(j)'
  BY <1>9 DEF ReadyCovers
<1> QED BY <1>1, <1>5, <1>6, <1>7, <1>8, <1>9, <1>11, <1>12, WorkKeeps

\* A step that replies and leaves the rows as they are.
LEMMA RepliesKeep ==
  ASSUME IInv, NEW j \in Jobs, NEW reply \in Reply, Replies(j, reply),
         UNCHANGED <<status, userId, placedBy, client>>,
         sagas' \subseteq Orders, writes' \in 0..MaxWrites, faults' \in 0..MaxFaults,
         job[j].pc # "none", reply.code # 0,
         reply.code \in {200, 201} /\ job[j].kind \in Writes => job[j].effects = 1,
         reply.code = 404 => job[j].effects = 0,
         ShowsFit(Finished(job[j], reply), status, userId),
         j \in Clients /\ job[j].kind \in Reads /\ Says(reply) => Covers(j, reply)
  PROVE  IInv'
<1>1. TypeOK /\ RowsOwned /\ job[j] \in Job /\ Fits(job[j], status, userId)
  BY TypesOfJob DEF IInv, JobsFit
<1>2. /\ job' \in [Jobs -> Job] /\ \A i \in Jobs \ {j} : job'[i] = job[i]
      /\ job'[j] = Finished(job[j], reply)
  BY <1>1, RepliesJob
<1>3. /\ job'[j].pc = "ready" /\ job'[j].effects = job[j].effects /\ job'[j].reply = reply
      /\ job'[j].kind = job[j].kind /\ job'[j].who = job[j].who /\ job'[j].about = job[j].about
  BY <1>1, <1>2 DEF Job, Finished
<1>4. TypeOK'
  BY <1>1, <1>2 DEF TypeOK, client, Jobs
<1>5. RowsKept /\ RowsOwned'
  BY <1>1 DEF RowsKept, RowsOwned
<1>6. Fits(job'[j], status', userId')
  BY <1>1, <1>2, <1>3 DEF Fits
<1>7. ASSUME j \in Clients PROVE ReadyCovers(j)'
  BY <1>3, <1>7 DEF ReadyCovers, Covers, client
<1> QED BY <1>2, <1>3, <1>4, <1>5, <1>6, <1>7, WorkKeeps

\* An empty reply shows nothing that could be wrong.
LEMMA PlainShowsFit ==
  ASSUME NEW r \in Job, NEW n \in {0, 200, 404, 500}
  PROVE  ShowsFit(Finished(r, Plain(n)), status, userId)
BY ReplyParts DEF ShowsFit, Job, Finished

LEMMA StartSagaKeeps ==
  ASSUME IInv, NEW j \in Jobs, StartSaga(j)
  PROVE  IInv'
<1>1. /\ job[j].pc = "saved" /\ job[j].kind \in Posts /\ Replies(j, job[j].reply)
      /\ UNCHANGED <<status, userId, placedBy, client, writes>>
      /\ \/ sagas' = sagas \cup job[j].reply.shows /\ UNCHANGED faults
         \/ Fault /\ UNCHANGED sagas
  BY DEF StartSaga, Works
<1>2. TypeOK /\ job[j] \in Job /\ Fits(job[j], status, userId)
  BY TypesOfJob DEF IInv, JobsFit
<1>3. job[j].reply \in Reply /\ job[j].reply.shows \subseteq Orders
  BY <1>2 DEF Job, Reply
<1>4. sagas' \subseteq Orders /\ writes' \in 0..MaxWrites /\ faults' \in 0..MaxFaults
  BY <1>1, <1>2, <1>3, GatewayAssumption DEF TypeOK, Fault
<1>5. job[j].reply.code = 201 /\ job[j].effects = 1 /\ ShowsFit(job[j], status, userId)
  BY <1>1, <1>2 DEF Fits
<1>6. ShowsFit(Finished(job[j], job[j].reply), status, userId)
  BY <1>2, <1>5 DEF ShowsFit, Job, Finished
<1> QED BY <1>1, <1>3, <1>4, <1>5, <1>6, RepliesKeep DEF Says

LEMMA ReadOrdersKeeps ==
  ASSUME IInv, NEW j \in Jobs, ReadOrders(j)
  PROVE  IInv'
<1> DEFINE reply == IF job[j].kind = "get" /\ Visible(j) = {}
                    THEN Plain(404) ELSE Showing(200, Visible(j))
<1>1. /\ job[j].pc = "asked" /\ job[j].kind \in Reads /\ Replies(j, reply)
      /\ UNCHANGED <<shop, client, writes, faults>>
  BY DEF ReadOrders, Works
<1>2. TypeOK /\ RowsOwned /\ job[j] \in Job /\ Fits(job[j], status, userId)
  BY TypesOfJob DEF IInv, JobsFit
<1>3. Visible(j) \subseteq Orders
  BY <1>2 DEF Visible, Job
<1>4. /\ reply \in Reply /\ reply.code \in {200, 404}
      /\ reply.shows = Visible(j) /\ reply.settled = Visible(j) \cap Settled
  BY <1>3, ReplyParts
<1> HIDE DEF reply
<1>5. job[j].who \in Users /\ job[j].effects = 0 /\ Header(j) = job[j].who
  BY <1>1, <1>2 DEF Fits, Header, Reads
<1>6. \A o \in Visible(j) : userId[o] = job[j].who /\ status[o] # "NONE"
  BY <1>2, <1>3, <1>5, GatewayAssumption DEF Visible, RowsOwned
<1>7. ShowsFit(Finished(job[j], reply), status, userId)
  BY <1>2, <1>4, <1>6 DEF ShowsFit, Job, Settled, Finished
<1>8. ASSUME j \in Clients PROVE Covers(j, reply)
  <2>1. KnownFits(j) /\ CallFits(j)
    BY <1>8 DEF IInv, ClientsFit
  <2>2. job[j].who = j
    BY <1>1, <2>1 DEF CallFits
  <2>3. job[j].about \subseteq Orders
    BY <1>2 DEF Job
  <2> SUFFICES ASSUME NEW o \in job[j].about, userId[o] # DemoUser
               PROVE  /\ o \in acked[j] => o \in reply.shows
                      /\ o \in final[j] => o \in reply.settled
    BY DEF Covers
  <2>4. ASSUME o \in acked[j] PROVE o \in Visible(j)
    BY <1>5, <2>1, <2>2, <2>4 DEF KnownFits, Visible
  <2>5. ASSUME o \in final[j] PROVE o \in acked[j] /\ o \in Settled
    BY <2>1, <2>3, <2>5 DEF KnownFits, Settled
  <2> QED BY <1>4, <2>4, <2>5
<1>9. /\ UNCHANGED <<status, userId, placedBy, client>>
      /\ sagas' \subseteq Orders /\ writes' \in 0..MaxWrites /\ faults' \in 0..MaxFaults
  BY <1>1, <1>2 DEF TypeOK, shop
<1>10. job[j].kind \notin Writes
  BY <1>1 DEF Reads, Writes, Posts
<1> QED BY <1>1, <1>4, <1>5, <1>7, <1>8, <1>9, <1>10, RepliesKeep

\* product-service has written, and replies.
LEMMA ProductWritten ==
  ASSUME IInv, NEW j \in Jobs, job[j].pc = "asked", job[j].kind = "write",
         NEW n \in {200, 500}, Wrote(j, "ready", Plain(n)),
         UNCHANGED <<shop, client, writes>>, faults' \in 0..MaxFaults
  PROVE  IInv'
<1>1. TypeOK /\ RowsOwned /\ job[j] \in Job /\ Fits(job[j], status, userId)
  BY TypesOfJob DEF IInv, JobsFit
<1>2. job[j].who \in Users /\ job[j].effects = 0 /\ job[j].kind \notin Reads
  BY <1>1 DEF Fits, Reads
<1>3. Plain(n) \in Reply /\ Plain(n).code = n /\ Plain(n).shows = {} /\ Plain(n).settled = {}
  BY ReplyParts
<1>4. /\ job' \in [Jobs -> Job] /\ \A i \in Jobs \ {j} : job'[i] = job[i]
      /\ job'[j] = Written(job[j], "ready", Plain(n))
  BY <1>1, <1>3, WroteJob
<1>5. /\ job'[j].pc = "ready" /\ job'[j].effects = 1 /\ job'[j].reply = Plain(n)
      /\ job'[j].kind = job[j].kind /\ job'[j].who = job[j].who
      /\ job'[j].about = job[j].about
  BY <1>1, <1>2, <1>4 DEF Job, Written
<1>6. TypeOK'
  BY <1>1, <1>4 DEF TypeOK, client, shop, Jobs
<1>7. RowsKept /\ RowsOwned'
  BY <1>1 DEF RowsKept, RowsOwned, shop
<1>8. ShowsFit(job'[j], status', userId')
  BY <1>3, <1>5 DEF ShowsFit
<1>9. Fits(job'[j], status', userId')
  BY <1>2, <1>3, <1>5, <1>8, GatewayAssumption DEF Fits
<1>10. ReadyCovers(j)'
  BY <1>2, <1>5 DEF ReadyCovers
<1> QED BY <1>4, <1>5, <1>6, <1>7, <1>9, <1>10, WorkKeeps

LEMMA UpstreamThrowsKeeps ==
  ASSUME IInv, NEW j \in Jobs, UpstreamThrows(j)
  PROVE  IInv'
<1>1. /\ job[j].pc \in {"asked", "saved"} /\ Fault
      /\ UNCHANGED <<shop, client, writes>>
  BY DEF UpstreamThrows
<1>2. TypeOK /\ job[j] \in Job /\ Fits(job[j], status, userId)
  BY TypesOfJob DEF IInv, JobsFit
<1>3. Plain(500) \in Reply /\ Plain(500).code = 500
  BY ReplyParts
<1>4. /\ UNCHANGED <<status, userId, placedBy, client>>
      /\ sagas' \subseteq Orders /\ writes' \in 0..MaxWrites /\ faults' \in 0..MaxFaults
  BY <1>1, <1>2, GatewayAssumption DEF TypeOK, shop, Fault
<1>5. CASE Replies(j, Plain(500))
  <2>1. ShowsFit(Finished(job[j], Plain(500)), status, userId)
    BY <1>2, PlainShowsFit
  <2> QED BY <1>1, <1>3, <1>4, <1>5, <2>1, RepliesKeep DEF Says
<1>6. CASE job[j].kind = "write" /\ Wrote(j, "ready", Plain(500))
  <2>1. job[j].pc = "asked"
    BY <1>1, <1>2, <1>6 DEF Fits, Posts
  <2> QED BY <1>1, <1>4, <1>6, <2>1, ProductWritten
<1> QED BY <1>5, <1>6 DEF UpstreamThrows

LEMMA UseProductKeeps ==
  ASSUME IInv, NEW j \in Jobs, UseProduct(j)
  PROVE  IInv'
<1>1. /\ job[j].pc = "asked" /\ job[j].kind = "write"
      /\ Wrote(j, "ready", Plain(200)) \/ Replies(j, Plain(404))
      /\ UNCHANGED <<shop, client, writes, faults>>
  BY DEF UseProduct, Works
<1>2. TypeOK /\ job[j] \in Job /\ Fits(job[j], status, userId)
  BY TypesOfJob DEF IInv, JobsFit
<1>3. job[j].effects = 0 /\ job[j].kind \notin Reads
  BY <1>1, <1>2 DEF Fits, Reads
<1>4. Plain(404) \in Reply /\ Plain(404).code = 404
  BY ReplyParts
<1>5. /\ UNCHANGED <<status, userId, placedBy, client>>
      /\ sagas' \subseteq Orders /\ writes' \in 0..MaxWrites /\ faults' \in 0..MaxFaults
  BY <1>1, <1>2 DEF TypeOK, shop
<1>6. CASE Wrote(j, "ready", Plain(200))
  BY <1>1, <1>5, <1>6, ProductWritten
<1>7. CASE Replies(j, Plain(404))
  <2>1. ShowsFit(Finished(job[j], Plain(404)), status, userId)
    BY <1>2, PlainShowsFit
  <2> QED BY <1>1, <1>3, <1>4, <1>5, <1>7, <2>1, RepliesKeep
<1> QED BY <1>1, <1>6, <1>7

LEMMA UpstreamDiesKeeps ==
  ASSUME IInv, NEW j \in Jobs, UpstreamDies(j)
  PROVE  IInv'
<1>1. /\ job[j].pc \in {"asked", "saved", "ready"} /\ Fault
      /\ UNCHANGED <<shop, client, writes>>
  BY DEF UpstreamDies
<1>2. PICK left \in {"none", "silent"} :
        job' = [job EXCEPT ![j].pc = left, ![j].reply = Plain(0)]
  BY DEF UpstreamDies
<1>3. TypeOK /\ RowsOwned /\ job[j] \in Job /\ Fits(job[j], status, userId)
  BY TypesOfJob DEF IInv, JobsFit
<1>4. Plain(0) \in Reply
  BY ReplyParts
<1>5. job' \in [Jobs -> Job] /\ \A i \in Jobs \ {j} : job'[i] = job[i]
  BY <1>2, <1>3, <1>4 DEF TypeOK, Jobs, Job
<1>6. /\ job'[j].pc = left /\ job'[j].effects = job[j].effects
      /\ job'[j].kind = job[j].kind /\ job'[j].who = job[j].who
      /\ job'[j].about = job[j].about
  BY <1>2, <1>3 DEF TypeOK, Jobs, Job
<1>7. TypeOK'
  BY <1>1, <1>3, <1>5, GatewayAssumption DEF TypeOK, client, shop, Jobs, Fault
<1>8. RowsKept /\ RowsOwned'
  BY <1>1, <1>3 DEF RowsKept, RowsOwned, shop
<1>9. Fits(job'[j], status', userId')
  BY <1>1, <1>3, <1>6 DEF Fits
<1>10. ReadyCovers(j)'
  BY <1>6 DEF ReadyCovers
<1> QED BY <1>1, <1>5, <1>6, <1>7, <1>8, <1>9, <1>10, WorkKeeps

-----------------------------------------------------------------------------
(* The client's side.                                                      *)

\* One step of the client u that leaves the rows as they are.
LEMMA ClientKeeps ==
  ASSUME IInv, TypeOK', UNCHANGED shop, JobsFit', NEW u \in Clients,
         \A v \in Clients \ {u} : /\ job'[v] = job[v] /\ call'[v] = call[v]
                                 /\ acked'[v] = acked[v] /\ final'[v] = final[v],
         CallFits(u)' /\ KnownFits(u)' /\ CaughtUp(u)'
  PROVE  IInv'
<1>1. RowsKept /\ RowsOwned'
  BY DEF RowsKept, RowsOwned, shop, IInv
<1>2. ASSUME NEW v \in Clients \ {u} PROVE CallFits(v)' /\ KnownFits(v)' /\ CaughtUp(v)'
  BY DEF IInv, ClientsFit, CallFits, Pending, KnownFits, CaughtUp, ReadyCovers, Covers, Says, shop
<1> QED BY <1>1, <1>2 DEF IInv, ClientsFit

LEMMA BeginKeeps ==
  ASSUME IInv, NEW u \in Clients, NEW kind \in Kinds, NEW about \in SUBSET Orders,
         Begin(u, kind, about), writes' \in 0..MaxWrites
  PROVE  IInv'
<1>1. /\ u \in Users /\ UNCHANGED <<shop, acked, final, faults>>
      /\ call' = [call EXCEPT ![u] = [kind |-> kind, reply |-> Plain(0)]]
      /\ job' = [job EXCEPT ![u] = [NoJob EXCEPT !.pc = "asked", !.kind = kind,
                                                 !.who = u, !.about = about]]
  BY DEF Begin, Authorized
<1>2. TypeOK /\ JobsFit /\ KnownFits(u) /\ u \in Jobs /\ u # Anonymous
  BY <1>1, GatewayAssumption DEF IInv, ClientsFit, Jobs
<1>3. Plain(0) \in Reply /\ Plain(0).code = 0 /\ Plain(0).shows = {}
  BY ReplyParts
<1>4. /\ job'[u] = [pc |-> "asked", kind |-> kind, who |-> u, about |-> about,
                    effects |-> 0, reply |-> Plain(0)]
      /\ job'[u] \in Job /\ job' \in [Jobs -> Job]
      /\ \A i \in Jobs \ {u} : job'[i] = job[i]
  BY <1>1, <1>2, <1>3 DEF NoJob, TypeOK, Jobs, Job
<1>5. TypeOK'
  BY <1>1, <1>2, <1>3, <1>4 DEF TypeOK, shop, Jobs, Call
<1>6. call'[u] = [kind |-> kind, reply |-> Plain(0)] /\ \A v \in Clients \ {u} : call'[v] = call[v]
  BY <1>1, <1>2 DEF TypeOK
<1>7. JobsFit'
  <2>1. Fits(job'[u], status', userId')
    BY <1>1, <1>2, <1>4 DEF Fits
  <2> QED BY <1>1, <1>2, <1>4, <2>1 DEF JobsFit, shop
<1>8. CallFits(u)' /\ KnownFits(u)' /\ CaughtUp(u)'
  BY <1>1, <1>2, <1>3, <1>4, <1>6
     DEF CallFits, Pending, KnownFits, CaughtUp, ReadyCovers, Says, shop
<1> QED BY <1>1, <1>4, <1>5, <1>6, <1>7, <1>8, ClientKeeps DEF Jobs

LEMMA RequestKeeps ==
  ASSUME IInv, NEW u \in Clients, Request(u)
  PROVE  IInv'
<1>1. writes' \in 0..MaxWrites
  <2>1. CASE WriteProduct(u)
    BY <2>1, GatewayAssumption DEF WriteProduct, IInv, TypeOK
  <2>2. CASE CreateOrder(u) \/ ForceFail(u) \/ ListOrders(u) \/ \E o \in Orders : GetOrder(u, o)
    BY <2>2 DEF CreateOrder, ForceFail, ListOrders, GetOrder, IInv, TypeOK
  <2> QED BY <2>1, <2>2 DEF Request
<1>2. \E kind \in Kinds, about \in SUBSET Orders : Begin(u, kind, about)
  BY DEF Request, CreateOrder, ForceFail, ListOrders, GetOrder, WriteProduct, Kinds, Reads, Writes, Posts
<1> QED BY <1>1, <1>2, BeginKeeps

LEMMA PassOnKeeps ==
  ASSUME IInv, NEW u \in Clients, PassOn(u)
  PROVE  IInv'
<1> DEFINE reply == job[u].reply
<1>1. /\ Pending(u) /\ job[u].pc = "ready"
      /\ call' = [call EXCEPT ![u].reply = reply]
      /\ job' = [job EXCEPT ![u].pc = "none", ![u].reply = Plain(0)]
      /\ acked' = [acked EXCEPT ![u] = @ \cup reply.shows]
      /\ final' = [final EXCEPT ![u] = @ \cup reply.settled]
      /\ UNCHANGED <<shop, writes, faults>>
  BY DEF PassOn, Answers
<1>2. /\ TypeOK /\ RowsOwned /\ JobsFit /\ u \in Jobs /\ job[u] \in Job
      /\ Fits(job[u], status, userId)
  BY TypesOfJob DEF IInv, JobsFit, Jobs
<1>3. CallFits(u) /\ KnownFits(u) /\ CaughtUp(u)
  BY DEF IInv, ClientsFit
<1>4. reply \in Reply /\ Plain(0) \in Reply
  BY <1>2, ReplyParts DEF Job
<1>5. /\ job' \in [Jobs -> Job] /\ \A i \in Jobs \ {u} : job'[i] = job[i]
      /\ job'[u].pc = "none" /\ job'[u].effects = job[u].effects
      /\ job'[u].who = job[u].who /\ job'[u].about = job[u].about
  BY <1>1, <1>2, <1>4 DEF TypeOK, Jobs, Job
<1>6. /\ call' \in [Clients -> Call] /\ \A v \in Clients \ {u} : call'[v] = call[v]
      /\ call'[u].reply = reply /\ call'[u].kind = call[u].kind
  BY <1>1, <1>2, <1>4 DEF TypeOK, Call
<1>7. /\ acked' \in [Clients -> SUBSET Orders] /\ final' \in [Clients -> SUBSET Orders]
      /\ \A v \in Clients \ {u} : acked'[v] = acked[v] /\ final'[v] = final[v]
      /\ acked'[u] = acked[u] \cup reply.shows /\ final'[u] = final[u] \cup reply.settled
  BY <1>1, <1>2, <1>4 DEF TypeOK, Reply
<1>8. TypeOK'
  BY <1>1, <1>2, <1>5, <1>6, <1>7 DEF TypeOK, shop, Jobs
<1>9. JobsFit'
  BY <1>1, <1>2, <1>5 DEF JobsFit, Fits, shop
<1>10. /\ u \in Users /\ job[u].who = u /\ job[u].kind = call[u].kind
       /\ ShowsFit(job[u], status, userId)
  BY <1>1, <1>2, <1>3 DEF CallFits, Fits
<1>11. CallFits(u)'
  BY <1>1, <1>2, <1>5, <1>6, <1>10 DEF CallFits, Pending, Fits, ShowsFit, shop
<1>12. KnownFits(u)'
  BY <1>1, <1>3, <1>7, <1>10 DEF KnownFits, ShowsFit, shop
<1>13. CaughtUp(u)'
  <2>1. ASSUME call[u].kind \in Reads, Says(reply) PROVE Covers(u, call[u].reply)'
    <3>1. Covers(u, reply)
      BY <1>1, <1>3, <1>10, <2>1 DEF CaughtUp, ReadyCovers
    <3>2. UNCHANGED userId
      BY <1>1 DEF shop
    <3> QED BY <1>5, <1>6, <1>7, <3>1, <3>2 DEF Covers
  <2> QED BY <1>5, <1>6, <2>1 DEF CaughtUp, ReadyCovers, Says
<1> QED BY <1>1, <1>5, <1>6, <1>7, <1>8, <1>9, <1>11, <1>12, <1>13, ClientKeeps DEF Jobs

\* The gateway answers by itself.
LEMMA RefusedKeeps ==
  ASSUME IInv, NEW u \in Clients, Pending(u), Answers(u, Plain(500)),
         UNCHANGED <<shop, acked, final>>,
         writes' \in 0..MaxWrites, faults' \in 0..MaxFaults,
         job' \in [Jobs -> Job], \A v \in Clients \ {u} : job'[v] = job[v],
         job'[u].pc = "none", JobsFit'
  PROVE  IInv'
<1>1. Plain(500) \in Reply /\ Plain(500).code = 500 /\ Plain(500).shows = {}
  BY ReplyParts
<1>2. TypeOK /\ KnownFits(u)
  BY DEF IInv, ClientsFit
<1>3. /\ call' \in [Clients -> Call] /\ \A v \in Clients \ {u} : call'[v] = call[v]
      /\ call'[u].reply = Plain(500)
  BY <1>1, <1>2 DEF TypeOK, Answers, Call
<1>4. TypeOK'
  BY <1>2, <1>3 DEF TypeOK, shop, Jobs
<1>5. CallFits(u)' /\ KnownFits(u)' /\ CaughtUp(u)'
  BY <1>1, <1>2, <1>3 DEF CallFits, Pending, KnownFits, CaughtUp, ReadyCovers, Says, shop
<1> QED BY <1>3, <1>4, <1>5, ClientKeeps

LEMMA ConnectionFailsKeeps ==
  ASSUME IInv, NEW u \in Clients, ConnectionFails(u)
  PROVE  IInv'
<1>1. /\ Pending(u) /\ job[u].pc = "none" /\ Answers(u, Plain(500))
      /\ UNCHANGED <<shop, job, acked, final, writes, faults>>
  BY DEF ConnectionFails
<1>2. TypeOK /\ JobsFit
  BY DEF IInv
<1>3. writes' \in 0..MaxWrites /\ faults' \in 0..MaxFaults /\ job' \in [Jobs -> Job]
  BY <1>1, <1>2 DEF TypeOK, Jobs
<1>4. JobsFit'
  BY <1>1, <1>2 DEF JobsFit, shop
<1> QED BY <1>1, <1>3, <1>4, RefusedKeeps

LEMMA TimesOutKeeps ==
  ASSUME IInv, NEW u \in Clients, TimesOut(u)
  PROVE  IInv'
<1>1. /\ Pending(u) /\ job[u].pc = "silent" /\ Answers(u, Plain(500))
      /\ job' = [job EXCEPT ![u].pc = "none"]
      /\ UNCHANGED <<shop, acked, final, writes, faults>>
  BY DEF TimesOut
<1>2. TypeOK /\ JobsFit /\ u \in Jobs
  BY DEF IInv, Jobs
<1>3. /\ job' \in [Jobs -> Job] /\ \A i \in Jobs \ {u} : job'[i] = job[i]
      /\ job'[u].pc = "none" /\ job'[u].effects = job[u].effects /\ job'[u].who = job[u].who
  BY <1>1, <1>2 DEF TypeOK, Jobs, Job
<1>4. writes' \in 0..MaxWrites /\ faults' \in 0..MaxFaults
  BY <1>1, <1>2 DEF TypeOK
<1>5. JobsFit'
  BY <1>1, <1>2, <1>3 DEF JobsFit, Fits, shop
<1> QED BY <1>1, <1>3, <1>4, <1>5, RefusedKeeps DEF Jobs

\* The job given up goes on as job[faults + 1]: it fits there as it did.
LEMMA GivesUpKeeps ==
  ASSUME IInv, NEW u \in Clients, GivesUp(u)
  PROVE  IInv'
<1>1. /\ Pending(u) /\ Answers(u, Plain(500))
      /\ faults < MaxFaults /\ faults' = faults + 1
      /\ job' = [job EXCEPT ![faults + 1] = job[u], ![u].pc = "none", ![u].reply = Plain(0)]
      /\ UNCHANGED <<shop, acked, final, writes>>
  BY DEF GivesUp, Fault
<1>2. TypeOK /\ JobsFit /\ u \in Jobs /\ job[u] \in Job /\ Plain(0) \in Reply
  BY TypesOfJob, ReplyParts DEF IInv, Jobs
<1>3. faults + 1 \in Adrift /\ writes' \in 0..MaxWrites /\ faults' \in 0..MaxFaults
  BY <1>1, <1>2, GatewayAssumption DEF TypeOK, Adrift
<1>4. faults + 1 \in Jobs \ Clients
  BY <1>3, GatewayAssumption DEF Jobs, Clients, Adrift
<1>5. /\ job' \in [Jobs -> Job] /\ job'[faults + 1] = job[u]
      /\ \A i \in Jobs \ {u, faults + 1} : job'[i] = job[i]
      /\ job'[u].pc = "none" /\ job'[u].effects = job[u].effects /\ job'[u].who = job[u].who
  BY <1>1, <1>2, <1>4 DEF TypeOK, Jobs, Job
<1>6. JobsFit'
  <2> SUFFICES ASSUME NEW i \in Jobs PROVE Fits(job'[i], status, userId)
    BY <1>1 DEF JobsFit, shop
  <2>1. CASE i = u
    BY <1>2, <1>5, <2>1 DEF JobsFit, Fits
  <2>2. CASE i # u
    BY <1>2, <1>5, <2>2 DEF JobsFit
  <2> QED BY <2>1, <2>2
<1> QED BY <1>1, <1>3, <1>4, <1>5, <1>6, RefusedKeeps DEF Jobs

-----------------------------------------------------------------------------
(* The saga, and all steps together.                                       *)

LEMMA SettleKeeps ==
  ASSUME IInv, NEW o \in Orders, Settle(o)
  PROVE  IInv'
<1>1. /\ status[o] = "PROCESSING" /\ status' = [status EXCEPT ![o] = "SETTLED"]
      /\ UNCHANGED <<userId, sagas, placedBy, client, job, writes, faults>>
  BY DEF Settle
<1>2. TypeOK /\ RowsOwned /\ JobsFit
  BY DEF IInv
<1>3. TypeOK'
  BY <1>1, <1>2 DEF TypeOK, OrderStatus, client
<1>4. RowsKept /\ RowsOwned'
  BY <1>1, <1>2 DEF RowsKept, RowsOwned, TypeOK
<1>5. JobsFit'
  BY <1>1, <1>2, <1>4, TypesOfJob, StillFits DEF JobsFit
<1>6. ASSUME NEW u \in Clients PROVE CallFits(u)' /\ KnownFits(u)' /\ CaughtUp(u)'
  <2>1. CallFits(u) /\ KnownFits(u) /\ CaughtUp(u)
    BY DEF IInv, ClientsFit
  <2>2. CallFits(u)'
    BY <1>1, <1>2, <1>4, <2>1, StillAnswered DEF client, CallFits
  <2>3. KnownFits(u)'
    BY <1>1, <1>2, <1>4, <2>1, StillKnown DEF client
  <2>4. CaughtUp(u)'
    BY <1>1, <2>1 DEF client, CaughtUp, ReadyCovers, Covers, Says
  <2> QED BY <2>2, <2>3, <2>4
<1> QED BY <1>3, <1>4, <1>5, <1>6 DEF IInv, ClientsFit

LEMMA StrandKeeps ==
  ASSUME IInv, NEW o \in Orders, Strand(o)
  PROVE  IInv'
<1>1. /\ sagas' \subseteq sagas /\ Fault
      /\ UNCHANGED <<status, userId, placedBy, client, job, writes>>
  BY DEF Strand
<1>2. TypeOK'
  BY <1>1, GatewayAssumption DEF IInv, TypeOK, client, Fault
<1> QED BY <1>1, <1>2 DEF client, IInv, RowsOwned, JobsFit, ClientsFit, CallFits,
              Pending, KnownFits, CaughtUp, ReadyCovers, Covers, Says

LEMMA InitIInv == Init => IInv
<1> SUFFICES ASSUME Init PROVE IInv
  OBVIOUS
<1>1. \A n \in {0, 500} :
        Plain(n) \in Reply /\ Plain(n).code = n /\ Plain(n).shows = {} /\ Plain(n).settled = {}
  BY ReplyParts
<1>2. NoJob \in Job /\ Free \in Call
  BY <1>1 DEF NoJob, Free, Job, Call, Kinds, Reads, Clients
<1>3. TypeOK
  BY <1>2, GatewayAssumption DEF Init, TypeOK, Clients
<1>4. RowsOwned
  BY GatewayAssumption DEF Init, RowsOwned
<1>5. JobsFit
  BY GatewayAssumption DEF Init, JobsFit, Jobs, Fits, NoJob
<1>6. ClientsFit
  BY <1>1 DEF Init, ClientsFit, CallFits, Pending, KnownFits, CaughtUp, ReadyCovers, Covers,
              Says, NoJob, Free, Clients
<1> QED BY <1>3, <1>4, <1>5, <1>6 DEF IInv

LEMMA NextKeepsIInv == IInv /\ [Next]_vars => IInv'
<1> SUFFICES ASSUME IInv, [Next]_vars PROVE IInv'
  OBVIOUS
<1>1. CASE UNCHANGED vars
  BY <1>1 DEF vars, shop, client, IInv, TypeOK, RowsOwned, JobsFit, ClientsFit, CallFits,
              Pending, KnownFits, CaughtUp, ReadyCovers, Covers, Says
<1>2. ASSUME NEW u \in Clients, Request(u) \/ Answer(u) \/ GivesUp(u) PROVE IInv'
  BY <1>2, RequestKeeps, PassOnKeeps, ConnectionFailsKeeps, TimesOutKeeps, GivesUpKeeps
     DEF Answer
<1>3. ASSUME NEW j \in Jobs, Work(j) \/ UpstreamThrows(j) \/ UpstreamDies(j) PROVE IInv'
  BY <1>3, StartSagaKeeps, ReadOrdersKeeps, UseProductKeeps, SaveOrderKeeps,
     UpstreamThrowsKeeps, UpstreamDiesKeeps DEF Work
<1>4. DOMAIN job = Jobs
  BY DEF IInv, TypeOK, Jobs
<1> QED BY <1>1, <1>2, <1>3, <1>4, SettleKeeps, StrandKeeps DEF Next

-----------------------------------------------------------------------------
(* The theorems.                                                           *)

\* The rows, the jobs and the answers have their types.
THEOREM TypeCorrect == Spec => []TypeOK
<1>1. IInv => TypeOK
  BY DEF IInv
<1> QED BY <1>1, InitIInv, NextKeepsIInv, PTL DEF Spec

\* Whatever is given up, lost or refused, a call takes effect once at most,
\* and as its answer says (JwtAuthGuard, forward, OrdersService.create).
THEOREM EffectsHappenOnce == Spec => []OneEffect
<1>1. IInv => OneEffect
  <2> SUFFICES ASSUME IInv PROVE OneEffect
    OBVIOUS
  <2>1. \A j \in Jobs : Fits(job[j], status, userId)
    BY DEF IInv, JobsFit
  <2>2. DOMAIN job = Jobs
    BY DEF IInv, TypeOK, Jobs
  <2>3. \A u \in Clients : CallFits(u)
    BY DEF IInv, ClientsFit
  <2> QED BY <2>1, <2>2, <2>3 DEF OneEffect, Fits, CallFits
<1> QED BY <1>1, InitIInv, NextKeepsIInv, PTL DEF Spec

\* Nobody is shown an order that somebody else has made (X-User-Id, and
\* `where` in OrdersService).
THEOREM OrdersStayPrivate == Spec => []OwnOrdersOnly
<1>1. IInv => OwnOrdersOnly
  BY DEF IInv, TypeOK, Call, Reply, RowsOwned, ClientsFit, CallFits, OwnOrdersOnly
<1> QED BY <1>1, InitIInv, NextKeepsIInv, PTL DEF Spec

\* A read is never behind what the caller was told before.
THEOREM AnswersCatchUp == Spec => []ReadsCatchUp
<1>1. IInv => ReadsCatchUp
  BY DEF IInv, ClientsFit, CaughtUp, Covers, Says, ReadsCatchUp
<1> QED BY <1>1, InitIInv, NextKeepsIInv, PTL DEF Spec

=============================================================================

--------------------------- MODULE AccountsProofs ---------------------------
(***************************************************************************)
(* Proofs about Accounts, for any number of requests, e-mails, passwords   *)
(* and rejected calls.                                                     *)
(***************************************************************************)
EXTENDS Accounts, TLAPS

\* The row that request r would make, or must find, with its credentials.
RowFor(r) == [email |-> request[r].email, passwordHash |-> request[r].password]

\* The unique index.
UniqueEmails == \A u, v \in Rows : users[u].email = users[v].email => u = v

\* A row is there only once its registration has been answered.
RowsAreAnswered == \A r \in Rows : Done(r, 201) /\ request[r].user = r

\* What a token names is a row with the credentials of the request.
TokensMatch == \A r \in Requests :
  Done(r, 200) \/ Done(r, 201) => users[request[r].user] = RowFor(r)

\* A registration that has succeeded names its own row.
WinnersOwn == \A r \in Requests : Done(r, 201) => request[r].user = r

\* A login compares with a row that has its e-mail.
ComparedIsFound == \A r \in Requests :
  request[r].pc = "compare" => /\ request[r].op = "login"
                               /\ request[r].user \in RowsOf(request[r].email)

\* Only registrations insert.
SavesRegister == \A r \in Requests : request[r].pc = "save" => request[r].op = "register"

\* For a promised login there is a row, and it has not been turned away.
PromiseKept == \A r \in promised :
  /\ request[r].pc \in {"find", "compare", "done"}
  /\ request[r].op = "login"
  /\ \E u \in Rows : users[u] = RowFor(r)
  /\ ~Done(r, 401)

IInv == /\ TypeOK
        /\ UniqueEmails
        /\ RowsAreAnswered
        /\ TokensMatch
        /\ WinnersOwn
        /\ ComparedIsFound
        /\ SavesRegister
        /\ PromiseKept

-----------------------------------------------------------------------------
\* The mark of a missing row is no row, and the job of a request that has not
\* begun is none of the others.
LEMMA NoUserIsNone == NoUser \notin User
<1> SUFFICES ASSUME NoUser \in User PROVE FALSE
  OBVIOUS
<1>1. DOMAIN NoUser = {"email"}
  BY DEF NoUser
<1>2. DOMAIN NoUser = {"email", "passwordHash"}
  BY DEF User
<1> QED BY <1>1, <1>2

LEMMA InitIInv == Init => IInv
<1> SUFFICES ASSUME Init PROVE IInv
  OBVIOUS
<1>1. TypeOK
  BY AccountsAssumption DEF Init, TypeOK
<1>2. \A r \in Requests : request[r].pc = "idle"
  BY DEF Init, Idle
<1>3. Rows = {} /\ promised = {}
  BY DEF Init, Rows
<1> QED BY <1>1, <1>2, <1>3 DEF IInv, UniqueEmails, RowsAreAnswered, TokensMatch,
           WinnersOwn, ComparedIsFound, SavesRegister, PromiseKept, Done

\* Answering r without a change of the table keeps the invariant, if a token
\* is earned and a promised login is not turned away.
LEMMA AnswerKeeps ==
  ASSUME IInv, NEW r \in Requests, NEW status \in {200, 401, 409, 500}, NEW u \in Requests,
         request[r] \in Active, Answer(r, status, u),
         UNCHANGED <<users, promised>>, throws' \in 0..MaxThrows,
         status = 200 => users[u] = RowFor(r),
         r \in promised => status # 401
  PROVE  IInv'
<1> DEFINE job == [pc |-> "done", op |-> request[r].op, email |-> request[r].email,
                   password |-> request[r].password, user |-> u, status |-> status]
<1>1. job \in Answered
  BY DEF Active, Answered
<1>2. request' = [request EXCEPT ![r] = job]
  BY DEF Answer
<1> HIDE DEF job
<1>3. TypeOK'
  BY <1>1, <1>2 DEF IInv, TypeOK
<1>4. /\ job.pc = "done" /\ job.op = request[r].op /\ job.email = request[r].email
      /\ job.password = request[r].password /\ job.user = u /\ job.status = status
  BY DEF job
<1>5. \A q \in Requests : request'[q] = IF q = r THEN job ELSE request[q]
  BY <1>2 DEF IInv, TypeOK
<1>6. Rows' = Rows /\ r \notin Rows
  BY DEF Rows, IInv, RowsAreAnswered, Done, Active
<1>7. \A q \in Requests : RowFor(q)' = RowFor(q)
  BY <1>4, <1>5 DEF RowFor
<1>8. UniqueEmails' /\ RowsAreAnswered'
  BY <1>5, <1>6 DEF IInv, UniqueEmails, RowsAreAnswered, Done, Rows
<1>9. TokensMatch'
  BY <1>4, <1>5, <1>7 DEF IInv, TokensMatch, Done
<1>10. WinnersOwn'
  BY <1>4, <1>5 DEF IInv, WinnersOwn, Done
<1>11. ComparedIsFound' /\ SavesRegister'
  BY <1>4, <1>5, <1>6 DEF IInv, ComparedIsFound, SavesRegister, RowsOf
<1>12. PromiseKept'
  BY <1>4, <1>5, <1>6, <1>7 DEF IInv, TypeOK, PromiseKept, Done
<1> QED BY <1>3, <1>8, <1>9, <1>10, <1>11, <1>12 DEF IInv

\* So does r going on to another call, if a login goes on to compare with a
\* row that has its e-mail.
LEMMA GoesOnKeeps ==
  ASSUME IInv, NEW r \in Requests, NEW pc \in {"save", "compare"}, NEW u \in Requests,
         request[r] \in Active, GoesOn(r, pc, u),
         UNCHANGED <<users, throws, promised>>,
         pc = "save" => request[r].op = "register",
         pc = "compare" => request[r].op = "login" /\ u \in RowsOf(request[r].email)
  PROVE  IInv'
<1> DEFINE job == [pc |-> pc, op |-> request[r].op, email |-> request[r].email,
                   password |-> request[r].password, user |-> u]
<1>1. job \in Active
  BY DEF Active
<1>2. request' = [request EXCEPT ![r] = job]
  BY DEF GoesOn
<1> HIDE DEF job
<1>3. TypeOK'
  BY <1>1, <1>2 DEF IInv, TypeOK
<1>4. /\ job.pc = pc /\ job.op = request[r].op /\ job.email = request[r].email
      /\ job.password = request[r].password /\ job.user = u
  BY DEF job
<1>5. \A q \in Requests : request'[q] = IF q = r THEN job ELSE request[q]
  BY <1>2 DEF IInv, TypeOK
<1>6. Rows' = Rows /\ r \notin Rows
  BY DEF Rows, IInv, RowsAreAnswered, Done, Active
<1>7. \A q \in Requests : RowFor(q)' = RowFor(q)
  BY <1>4, <1>5 DEF RowFor
<1>8. UniqueEmails' /\ RowsAreAnswered'
  BY <1>5, <1>6 DEF IInv, UniqueEmails, RowsAreAnswered, Done, Rows
<1>9. TokensMatch' /\ WinnersOwn'
  BY <1>4, <1>5, <1>7 DEF IInv, TokensMatch, WinnersOwn, Done
<1>10. ComparedIsFound' /\ SavesRegister'
  BY <1>4, <1>5, <1>6 DEF IInv, ComparedIsFound, SavesRegister, RowsOf
<1>11. PromiseKept'
  BY <1>4, <1>5, <1>6, <1>7 DEF IInv, TypeOK, PromiseKept, Done
<1> QED BY <1>3, <1>8, <1>9, <1>10, <1>11 DEF IInv

\* A request that begins keeps the invariant.
LEMMA BeginKeeps ==
  ASSUME IInv, NEW r \in Requests, NEW op \in {"register", "login"},
         NEW e \in Emails, NEW pw \in Passwords, Begin(r, op, e, pw),
         \/ UNCHANGED promised
         \/ op = "login" /\ Acknowledged(e, pw) # {} /\ promised' = promised \cup {r}
  PROVE  IInv'
<1> DEFINE job == [pc |-> "find", op |-> op, email |-> e, password |-> pw, user |-> r]
<1>1. job \in Active
  BY DEF Active
<1>2. request' = [request EXCEPT ![r] = job] /\ request[r].pc = "idle"
  BY DEF Begin, Idle
<1> HIDE DEF job
<1>3. TypeOK'
  BY <1>1, <1>2 DEF Begin, IInv, TypeOK
<1>4. /\ job.pc = "find" /\ job.op = op /\ job.email = e
      /\ job.password = pw /\ job.user = r
  BY DEF job
<1>5. \A q \in Requests : request'[q] = IF q = r THEN job ELSE request[q]
  BY <1>2 DEF IInv, TypeOK
<1>6. Rows' = Rows /\ users' = users /\ r \notin Rows /\ r \notin promised
  BY <1>2 DEF Begin, Rows, IInv, RowsAreAnswered, PromiseKept, Done
<1>7. \A q \in Requests : q # r => RowFor(q)' = RowFor(q)
  BY <1>5 DEF RowFor
<1>8. UniqueEmails' /\ RowsAreAnswered'
  BY <1>5, <1>6 DEF IInv, UniqueEmails, RowsAreAnswered, Done, Rows
<1>9. TokensMatch' /\ WinnersOwn'
  BY <1>4, <1>5, <1>6, <1>7 DEF IInv, TokensMatch, WinnersOwn, Done
<1>10. ComparedIsFound' /\ SavesRegister'
  BY <1>4, <1>5, <1>6 DEF IInv, ComparedIsFound, SavesRegister, RowsOf
<1>11. PromiseKept'
  <2>1. ASSUME NEW q \in promised
        PROVE  /\ request'[q].pc \in {"find", "compare", "done"}
               /\ request'[q].op = "login"
               /\ \E u \in Rows : users[u] = RowFor(q)'
               /\ ~Done(q, 401)'
    BY <1>5, <1>6, <1>7 DEF IInv, TypeOK, PromiseKept, Done
  <2>2. ASSUME r \in promised'
        PROVE  \E u \in Rows : users[u] = RowFor(r)'
    <3>1. PICK s \in Requests : /\ Done(s, 201)
                                /\ request[s].email = e /\ request[s].password = pw
      BY <1>6, <2>2 DEF Acknowledged, Done
    <3>2. users[s] = RowFor(s) /\ users[s] \in User \cup {NoUser}
      BY <3>1 DEF IInv, TypeOK, TokensMatch, WinnersOwn
    <3>3. RowFor(s) = [email |-> e, passwordHash |-> pw]
      BY <3>1 DEF RowFor
    <3>4. s \in Rows
      BY <3>2, <3>3, NoUserIsNone DEF Rows, User
    <3>5. RowFor(r)' = [email |-> e, passwordHash |-> pw]
      BY <1>4, <1>5 DEF RowFor
    <3> QED BY <3>2, <3>3, <3>4, <3>5
  <2>3. ASSUME r \in promised'
        PROVE  /\ request'[r].pc = "find" /\ request'[r].op = "login" /\ ~Done(r, 401)'
    BY <1>4, <1>5, <1>6, <2>3 DEF Done
  <2> QED BY <1>6, <2>1, <2>2, <2>3 DEF PromiseKept
<1> QED BY <1>3, <1>8, <1>9, <1>10, <1>11 DEF IInv

\* So does the insert of a row whose e-mail is in no row yet.
LEMMA InsertKeeps ==
  ASSUME IInv, NEW r \in Requests, request[r] \in Active, request[r].pc = "save",
         RowsOf(request[r].email) = {},
         users' = [users EXCEPT ![r] = RowFor(r)],
         Answer(r, 201, r), UNCHANGED <<throws, promised>>
  PROVE  IInv'
<1> DEFINE job == [pc |-> "done", op |-> request[r].op, email |-> request[r].email,
                   password |-> request[r].password, user |-> r, status |-> 201]
<1>1. job \in Answered /\ RowFor(r) \in User
  BY DEF Active, Answered, RowFor, User
<1>2. request' = [request EXCEPT ![r] = job]
  BY DEF Answer
<1> HIDE DEF job
<1>3. TypeOK'
  BY <1>1, <1>2 DEF IInv, TypeOK
<1>4. /\ job.pc = "done" /\ job.op = request[r].op /\ job.email = request[r].email
      /\ job.password = request[r].password /\ job.user = r /\ job.status = 201
  BY DEF job
<1>5. \A q \in Requests : request'[q] = IF q = r THEN job ELSE request[q]
  BY <1>2 DEF IInv, TypeOK
<1>6. \A q \in Requests : users'[q] = IF q = r THEN RowFor(r) ELSE users[q]
  BY DEF IInv, TypeOK
<1>7. RowFor(r) # NoUser /\ RowFor(r).email = request[r].email
  BY <1>1, NoUserIsNone DEF RowFor
<1>8. Rows' = Rows \cup {r} /\ r \notin Rows /\ r \notin promised
  BY <1>6, <1>7 DEF Rows, IInv, RowsAreAnswered, PromiseKept, Done
<1>9. \A q \in Requests : RowFor(q)' = RowFor(q)
  BY <1>4, <1>5 DEF RowFor
<1>10. UniqueEmails'
  BY <1>6, <1>7, <1>8 DEF IInv, UniqueEmails, RowsOf, Rows
<1>11. RowsAreAnswered'
  BY <1>4, <1>5, <1>8 DEF IInv, RowsAreAnswered, Done, Rows
<1>12. \A q \in Requests : Done(q, 200) \/ Done(q, 201) => request[q].user \in Rows
  <2> SUFFICES ASSUME NEW q \in Requests, Done(q, 200) \/ Done(q, 201)
               PROVE  request[q].user \in Rows
    OBVIOUS
  <2>1. request[q] \in Answered
    BY DEF IInv, TypeOK, Active, Idle, Done
  <2>2. users[request[q].user] = RowFor(q) /\ RowFor(q) \in User /\ request[q].user \in Requests
    BY <2>1 DEF IInv, TokensMatch, RowFor, User, Answered
  <2> QED BY <2>2, NoUserIsNone DEF Rows
<1>13. TokensMatch'
  BY <1>4, <1>5, <1>6, <1>8, <1>9, <1>12 DEF IInv, TokensMatch, Done
<1>14. WinnersOwn'
  BY <1>4, <1>5 DEF IInv, WinnersOwn, Done
<1>15. ComparedIsFound' /\ SavesRegister'
  BY <1>4, <1>5, <1>6, <1>8 DEF IInv, ComparedIsFound, SavesRegister, RowsOf
<1>16. PromiseKept'
  BY <1>4, <1>5, <1>6, <1>8, <1>9 DEF IInv, TypeOK, PromiseKept, Done
<1> QED BY <1>3, <1>10, <1>11, <1>13, <1>14, <1>15, <1>16 DEF IInv

-----------------------------------------------------------------------------
\* The invariant is inductive.
LEMMA NextKeepsIInv == IInv /\ [Next]_vars => IInv'
<1> SUFFICES ASSUME IInv, [Next]_vars
             PROVE  IInv'
  OBVIOUS
<1>1. CASE UNCHANGED vars
  BY <1>1 DEF vars, IInv, TypeOK, UniqueEmails, RowsAreAnswered, TokensMatch, WinnersOwn,
              ComparedIsFound, SavesRegister, PromiseKept, Done, Rows, RowsOf, RowFor
<1>2. ASSUME NEW r \in Requests, NEW e \in Emails, NEW pw \in Passwords,
             Register(r, e, pw) \/ Login(r, e, pw)
      PROVE  IInv'
  <2>1. CASE Register(r, e, pw)
    BY <2>1, BeginKeeps DEF Register
  <2>2. CASE Login(r, e, pw)
    BY <2>2, BeginKeeps DEF Login
  <2> QED BY <1>2, <2>1, <2>2
<1>3. ASSUME NEW r \in Requests, request[r].pc \in {"find", "save", "compare"}
      PROVE  request[r] \in Active
  BY <1>3 DEF IInv, TypeOK, Answered, Idle
<1>4. throws \in 0..MaxThrows
  BY DEF IInv, TypeOK
<1>5. ASSUME NEW r \in Requests, FindExisting(r)
      PROVE  IInv'
  <2>1. request[r] \in Active /\ request[r].op = "register" /\ r \notin promised
    BY <1>3, <1>5 DEF FindExisting, IInv, PromiseKept
  <2>2. CASE Answer(r, 409, r)
    BY <1>4, <1>5, <2>1, <2>2, AnswerKeeps DEF FindExisting
  <2>3. CASE GoesOn(r, "save", r)
    BY <1>5, <2>1, <2>3, GoesOnKeeps DEF FindExisting
  <2> QED BY <1>5, <2>2, <2>3 DEF FindExisting
<1>6. ASSUME NEW r \in Requests, SaveUser(r)
      PROVE  IInv'
  <2>1. request[r] \in Active /\ request[r].pc = "save"
    BY <1>3, <1>6 DEF SaveUser
  <2>2. CASE RowsOf(request[r].email) # {}
    BY <1>4, <1>6, <2>1, <2>2, AnswerKeeps DEF SaveUser
  <2>3. CASE RowsOf(request[r].email) = {}
    BY <1>6, <2>1, <2>3, InsertKeeps DEF SaveUser, RowFor
  <2> QED BY <2>2, <2>3
<1>7. ASSUME NEW r \in Requests, FindUser(r)
      PROVE  IInv'
  <2>1. request[r] \in Active /\ request[r].op = "login"
    BY <1>3, <1>7 DEF FindUser
  <2>2. CASE RowsOf(request[r].email) = {} /\ Answer(r, 401, r)
    <3>1. ASSUME r \in promised
          PROVE  FALSE
      <4>1. PICK u \in Rows : users[u] = RowFor(r)
        BY <3>1 DEF IInv, PromiseKept
      <4>2. u \in RowsOf(request[r].email)
        BY <4>1 DEF RowsOf, RowFor
      <4> QED BY <2>2, <4>2
    <3> QED BY <1>4, <1>7, <2>1, <2>2, <3>1, AnswerKeeps DEF FindUser
  <2>3. ASSUME NEW u \in RowsOf(request[r].email), GoesOn(r, "compare", u)
        PROVE  IInv'
    <3>1. u \in Requests
      BY DEF RowsOf, Rows
    <3> QED BY <1>7, <2>1, <2>3, <3>1, GoesOnKeeps DEF FindUser
  <2> QED BY <1>7, <2>2, <2>3 DEF FindUser
<1>8. ASSUME NEW r \in Requests, Compare(r)
      PROVE  IInv'
  <2> DEFINE user   == request[r].user
             status == IF request[r].password = users[user].passwordHash THEN 200 ELSE 401
  <2>1. request[r] \in Active
    BY <1>3, <1>8 DEF Compare
  <2>2. user \in RowsOf(request[r].email) /\ user \in Requests
    BY <1>8, <2>1 DEF Compare, IInv, ComparedIsFound, Active
  <2>3. users[user] \in User /\ users[user].email = request[r].email
    BY <2>2 DEF RowsOf, Rows, IInv, TypeOK
  <2>4. status = 200 => users[user] = RowFor(r)
    BY <2>3 DEF RowFor, User
  <2>5. r \in promised => status # 401
    <3> SUFFICES ASSUME r \in promised PROVE request[r].password = users[user].passwordHash
      OBVIOUS
    <3>1. PICK u \in Rows : users[u] = RowFor(r)
      BY DEF IInv, PromiseKept
    <3>2. u = user
      BY <2>2, <2>3, <3>1 DEF IInv, UniqueEmails, RowsOf, RowFor
    <3> QED BY <3>1, <3>2 DEF RowFor
  <2>6. Answer(r, status, user) /\ UNCHANGED <<users, throws, promised>>
    BY <1>8 DEF Compare
  <2>7. status \in {200, 401, 409, 500}
    OBVIOUS
  <2> HIDE DEF status, user
  <2> QED BY <1>4, <2>1, <2>2, <2>4, <2>5, <2>6, <2>7, AnswerKeeps
<1>9. ASSUME NEW r \in Requests, CallRejects(r)
      PROVE  IInv'
  <2>1. request[r] \in Active
    BY <1>3, <1>9 DEF CallRejects
  <2>2. throws' \in 0..MaxThrows
    BY <1>4, <1>9, AccountsAssumption DEF CallRejects
  <2> QED BY <1>9, <2>1, <2>2, AnswerKeeps DEF CallRejects
<1> QED BY <1>1, <1>2, <1>5, <1>6, <1>7, <1>8, <1>9 DEF Next

\* In every reachable state the users table and the requests have their
\* types (AuthService, the users table).
THEOREM TypeCorrect == Spec => []TypeOK
<1>1. IInv => TypeOK
  BY DEF IInv
<1> QED BY <1>1, InitIInv, NextKeepsIInv, PTL DEF Spec

\* What a token names is a row, in every state of the invariant.
LEMMA TokenRow ==
  ASSUME IInv, NEW r \in Requests, Done(r, 200) \/ Done(r, 201)
  PROVE  /\ request[r].user \in Rows
         /\ users[request[r].user] = RowFor(r)
         /\ users[request[r].user].email = request[r].email
<1>1. request[r] \in Answered
  BY DEF IInv, TypeOK, Active, Idle, Done
<1>2. users[request[r].user] = RowFor(r) /\ RowFor(r) \in User /\ request[r].user \in Requests
  BY <1>1 DEF IInv, TokensMatch, RowFor, User, Answered
<1> QED BY <1>2, NoUserIsNone DEF Rows, RowFor

\* However many registrations of an e-mail overlap, at most one of them is
\* answered 201, and the account it names is its own (AuthService.register).
THEOREM OneRegistrationWins == Spec => []OneWinner
<1>1. IInv => OneWinner
  BY TokenRow DEF IInv, UniqueEmails, WinnersOwn, OneWinner
<1> QED BY <1>1, InitIInv, NextKeepsIInv, PTL DEF Spec

\* A token is handed out only for the one user that has the e-mail and the
\* password of the request (AuthService.register and login).
THEOREM TokensAreEarned == Spec => []TokenIsEarned
<1>1. IInv => TokenIsEarned
  BY TokenRow DEF IInv, UniqueEmails, TokenIsEarned, RowsOf, Rows, RowFor
<1> QED BY <1>1, InitIInv, NextKeepsIInv, PTL DEF Spec

\* Who has been told that the registration succeeded is not turned away with
\* the same credentials (AuthService.login after AuthService.register).
THEOREM RegisteredIsNotTurnedAway == Spec => []RegisteredCanLogIn
<1>1. IInv => RegisteredCanLogIn
  BY DEF IInv, PromiseKept, RegisteredCanLogIn
<1> QED BY <1>1, InitIInv, NextKeepsIInv, PTL DEF Spec
-----------------------------------------------------------------------------
(* Accounts implements AccountRegistry.                                    *)

\* An answer is what the registry tells r.
LEMMA AnswerTells ==
  ASSUME IInv, NEW r \in Requests, request[r] \in Active, NEW status, NEW u,
         Answer(r, status, u)
  PROVE  Registry!Tells(r, request[r].op, request[r].email, request[r].password, status,
                        IF status \in {200, 201} THEN u ELSE r)
<1>1. request[r].pc # "done"
  BY DEF Active
<1>2. Answers[r] = Registry!Pending
  BY <1>1 DEF Answers, Registry!Pending
<1> DEFINE job == [pc |-> "done", op |-> request[r].op, email |-> request[r].email,
                   password |-> request[r].password, user |-> u, status |-> status]
           said == [op |-> request[r].op, email |-> request[r].email,
                    password |-> request[r].password, status |-> status,
                    user |-> IF status \in {200, 201} THEN u ELSE r]
<1>3. request' = [request EXCEPT ![r] = job]
  BY DEF Answer
<1>4. /\ job.pc = "done" /\ job.op = request[r].op /\ job.email = request[r].email
      /\ job.password = request[r].password /\ job.user = u /\ job.status = status
  OBVIOUS
<1> HIDE DEF job
<1>5. \A q \in Requests : request'[q] = IF q = r THEN job ELSE request[q]
  BY <1>3 DEF IInv, TypeOK
<1>6. Told(r)' = said
  BY <1>4, <1>5 DEF Told
<1>7. \A q \in Requests : q # r => Told(q)' = Told(q)
  BY <1>5 DEF Told
<1> HIDE DEF said
<1>8. Answers' = [Answers EXCEPT ![r] = said]
  BY <1>4, <1>5, <1>6, <1>7 DEF Answers
<1> QED BY <1>2, <1>8 DEF Registry!Tells, said

\* The registry does not see a request begin or go on to its next call.
LEMMA GoingOnIsUnseen ==
  ASSUME IInv, NEW r \in Requests, request[r].pc # "done", NEW job, job.pc # "done",
         request' = [request EXCEPT ![r] = job], users' = users
  PROVE  Answers' = Answers /\ Book' = Book
<1>1. \A q \in Requests : request'[q] = IF q = r THEN job ELSE request[q]
  BY DEF IInv, TypeOK
<1>2. \A q \in Requests : q # r => Told(q)' = Told(q)
  BY <1>1 DEF Told
<1>3. Answers' = Answers
  BY <1>1, <1>2 DEF Answers
<1>4. Book' = Book
  BY DEF Book, Rows
<1> QED BY <1>3, <1>4

\* An e-mail is free in the registry if no row has it.
LEMMA FreeMeansNoRow ==
  ASSUME NEW e
  PROVE  Registry!Free(e) <=> RowsOf(e) = {}
<1> DEFINE account(r) == [id |-> r, email |-> users[r].email, password |-> users[r].passwordHash]
<1>1. Registry!Free(e) <=> \A r \in Rows : account(r).email # e
  BY DEF Registry!Free, Book
<1>2. \A r \in Rows : account(r).email = users[r].email
  OBVIOUS
<1> QED BY <1>1, <1>2 DEF RowsOf

\* The accounts are the rows.
LEMMA AccountIsRow ==
  ASSUME NEW u, NEW e, NEW pw
  PROVE  Registry!Account(u, e, pw) \in Book
           <=> u \in Rows /\ users[u].email = e /\ users[u].passwordHash = pw
BY DEF Registry!Account, Book
\* An inserted row is a new account.
LEMMA InsertedIsBooked ==
  ASSUME IInv, NEW r \in Requests, request[r] \in Active, request[r].pc = "save",
         users' = [users EXCEPT ![r] = RowFor(r)]
  PROVE  Book' = Book \cup {Registry!Account(r, request[r].email, request[r].password)}
<1>1. \A q \in Requests : users'[q] = IF q = r THEN RowFor(r) ELSE users[q]
  BY DEF IInv, TypeOK
<1>2. RowFor(r) \in User
  BY DEF Active, RowFor, User
<1>3. RowFor(r) # NoUser
  BY <1>2, NoUserIsNone
<1>4. Rows' = Rows \cup {r} /\ r \notin Rows
  BY <1>1, <1>3 DEF Rows, IInv, RowsAreAnswered, Done
<1> DEFINE account(q) == [id       |-> q, email |-> users[q].email,
                          password |-> users[q].passwordHash]
<1>5. \A q \in Rows : account(q)' = account(q)
  BY <1>1, <1>4 DEF Rows
<1>6. account(r)' = Registry!Account(r, request[r].email, request[r].password)
  BY <1>1 DEF RowFor, Registry!Account
<1>7. Book = {account(q) : q \in Rows}
  BY DEF Book
<1>8. Book' = {account(q)' : q \in Rows'}
  BY DEF Book
<1> HIDE DEF account
<1> QED BY <1>4, <1>5, <1>6, <1>7, <1>8

\* Every step is one of the registry, or one that it does not see.
LEMMA StepIsRegistry == IInv /\ IInv' /\ [Next]_vars => [Registry!Next]_(Registry!vars)
<1> SUFFICES ASSUME IInv, IInv', [Next]_vars
             PROVE  [Registry!Next]_(Registry!vars)
  OBVIOUS
<1>1. CASE UNCHANGED vars
  <2>1. Answers' = Answers /\ Book' = Book
    BY <1>1 DEF vars, Answers, Told, Book, Rows
  <2> QED BY <2>1 DEF Registry!vars
<1>2. ASSUME NEW r \in Requests, request[r].pc \in {"find", "save", "compare"}
      PROVE  /\ request[r] \in Active /\ request[r].email \in Emails
             /\ request[r].password \in Passwords /\ request[r].op \in {"register", "login"}
  BY <1>2 DEF IInv, TypeOK, Answered, Idle, Active
<1>3. ASSUME users' = users
      PROVE  Book' = Book
  BY <1>3 DEF Book, Rows
<1>4. ASSUME NEW r \in Requests, NEW e \in Emails, NEW pw \in Passwords,
             Register(r, e, pw) \/ Login(r, e, pw)
      PROVE  Answers' = Answers /\ Book' = Book
  <2>1. PICK op \in {"register", "login"} : Begin(r, op, e, pw)
    BY <1>4 DEF Register, Login
  <2> DEFINE job == [pc |-> "find", op |-> op, email |-> e, password |-> pw, user |-> r]
  <2>2. /\ request' = [request EXCEPT ![r] = job] /\ users' = users
        /\ request[r].pc # "done" /\ job.pc # "done"
    BY <2>1 DEF Begin, Idle
  <2> HIDE DEF job
  <2> QED BY <2>2, GoingOnIsUnseen
<1>5. ASSUME NEW r \in Requests, request[r] \in Active, users' = users,
             NEW pc \in {"save", "compare"}, NEW u, GoesOn(r, pc, u)
      PROVE  Answers' = Answers /\ Book' = Book
  <2> DEFINE job == [pc |-> pc, op |-> request[r].op, email |-> request[r].email,
                     password |-> request[r].password, user |-> u]
  <2>1. /\ request' = [request EXCEPT ![r] = job]
        /\ request[r].pc # "done" /\ job.pc # "done"
    BY <1>5 DEF GoesOn, Active
  <2> HIDE DEF job
  <2> QED BY <1>5, <2>1, GoingOnIsUnseen
<1>6. ASSUME NEW r \in Requests, FindExisting(r)
      PROVE  [Registry!Next]_(Registry!vars)
  <2>1. request[r] \in Active /\ users' = users /\ request[r].op = "register"
    BY <1>2, <1>6 DEF FindExisting
  <2>2. CASE RowsOf(request[r].email) # {} /\ Answer(r, 409, r)
    <3>1. Registry!Conflict(r, request[r].email, request[r].password)
      BY <1>3, <2>1, <2>2, AnswerTells, FreeMeansNoRow DEF Registry!Conflict
    <3> QED BY <1>2, <1>6, <3>1 DEF Registry!Next, FindExisting
  <2>3. CASE GoesOn(r, "save", r)
    <3>1. Answers' = Answers /\ Book' = Book
      BY <1>5, <2>1, <2>3
    <3> QED BY <3>1 DEF Registry!vars
  <2> QED BY <1>6, <2>2, <2>3 DEF FindExisting
<1>7. ASSUME NEW r \in Requests, SaveUser(r)
      PROVE  [Registry!Next]_(Registry!vars)
  <2>1. request[r] \in Active /\ request[r].op = "register" /\ request[r].pc = "save"
    BY <1>2, <1>7 DEF SaveUser, IInv, SavesRegister
  <2>2. CASE Answer(r, 500, r) /\ UNCHANGED users
    <3>1. Registry!Fail(r, "register", request[r].email, request[r].password)
      BY <1>3, <2>1, <2>2, AnswerTells DEF Registry!Fail
    <3> QED BY <1>2, <1>7, <3>1 DEF Registry!Next, SaveUser
  <2>3. CASE /\ RowsOf(request[r].email) = {} /\ Answer(r, 201, r)
             /\ users' = [users EXCEPT ![r] = RowFor(r)]
    <3>1. Book' = Book \cup {Registry!Account(r, request[r].email, request[r].password)}
      BY <2>1, <2>3, InsertedIsBooked
    <3>2. Registry!Create(r, request[r].email, request[r].password)
      BY <2>1, <2>3, <3>1, AnswerTells, FreeMeansNoRow DEF Registry!Create
    <3> QED BY <1>2, <1>7, <3>2 DEF Registry!Next, SaveUser
  <2> QED BY <1>7, <2>2, <2>3 DEF SaveUser, RowFor
<1>8. ASSUME NEW r \in Requests, FindUser(r)
      PROVE  [Registry!Next]_(Registry!vars)
  <2>1. request[r] \in Active /\ users' = users /\ request[r].op = "login"
    BY <1>2, <1>8 DEF FindUser
  <2>2. CASE RowsOf(request[r].email) = {} /\ Answer(r, 401, r)
    <3>1. \A u \in Requests :
            Registry!Account(u, request[r].email, request[r].password) \notin Book
      BY <2>2, AccountIsRow DEF RowsOf
    <3>2. Registry!TurnAway(r, request[r].email, request[r].password)
      BY <1>3, <2>1, <2>2, <3>1, AnswerTells DEF Registry!TurnAway
    <3> QED BY <1>2, <1>8, <3>2 DEF Registry!Next, FindUser
  <2>3. ASSUME NEW u \in RowsOf(request[r].email), GoesOn(r, "compare", u)
        PROVE  [Registry!Next]_(Registry!vars)
    <3>1. Answers' = Answers /\ Book' = Book
      BY <1>5, <2>1, <2>3
    <3> QED BY <3>1 DEF Registry!vars
  <2> QED BY <1>8, <2>2, <2>3 DEF FindUser
<1>9. ASSUME NEW r \in Requests, Compare(r)
      PROVE  [Registry!Next]_(Registry!vars)
  <2> DEFINE u == request[r].user
  <2>1. request[r] \in Active /\ users' = users
    BY <1>2, <1>9 DEF Compare
  <2>2. request[r].op = "login" /\ u \in Rows /\ users[u].email = request[r].email
    BY <1>9 DEF Compare, IInv, ComparedIsFound, RowsOf
  <2>3. CASE request[r].password = users[u].passwordHash
    <3>1. Answer(r, 200, u)
      BY <1>9, <2>3 DEF Compare
    <3>2. Registry!Account(u, request[r].email, request[r].password) \in Book /\ u \in Requests
      BY <2>2, <2>3, AccountIsRow DEF Rows
    <3>3. Registry!Tells(r, "login", request[r].email, request[r].password, 200, u)
      BY <2>1, <2>2, <3>1, AnswerTells
    <3>4. Registry!Admit(r, request[r].email, request[r].password)
      BY <1>3, <2>1, <3>2, <3>3 DEF Registry!Admit
    <3> QED BY <1>2, <1>9, <3>4 DEF Registry!Next, Compare
  <2>4. CASE request[r].password # users[u].passwordHash
    <3>1. Answer(r, 401, u)
      BY <1>9, <2>4 DEF Compare
    <3>2. ASSUME NEW v \in Requests,
                 Registry!Account(v, request[r].email, request[r].password) \in Book
          PROVE  FALSE
      <4>1. /\ v \in Rows /\ users[v].email = request[r].email
            /\ users[v].passwordHash = request[r].password
        BY <3>2, AccountIsRow
      <4>2. v = u
        BY <2>2, <4>1 DEF IInv, UniqueEmails
      <4> QED BY <2>4, <4>1, <4>2
    <3>3. Registry!Tells(r, "login", request[r].email, request[r].password, 401, r)
      BY <2>1, <2>2, <3>1, AnswerTells
    <3>4. Registry!TurnAway(r, request[r].email, request[r].password)
      BY <1>3, <2>1, <3>2, <3>3 DEF Registry!TurnAway
    <3> QED BY <1>2, <1>9, <3>4 DEF Registry!Next, Compare
  <2> QED BY <2>3, <2>4
<1>10. ASSUME NEW r \in Requests, CallRejects(r)
       PROVE  [Registry!Next]_(Registry!vars)
  <2>1. request[r] \in Active /\ users' = users
    BY <1>2, <1>10 DEF CallRejects
  <2>2. Registry!Fail(r, request[r].op, request[r].email, request[r].password)
    BY <1>3, <1>10, <2>1, AnswerTells DEF Registry!Fail, CallRejects
  <2> QED BY <1>2, <1>10, <2>2 DEF Registry!Next, CallRejects
<1> QED BY <1>1, <1>4, <1>6, <1>7, <1>8, <1>9, <1>10 DEF Next, Registry!vars

\* Callers of register and login cannot tell that look-up, bcrypt and insert
\* are apart, however many requests overlap: each is answered as if it had
\* been done in one step, by the accounts there are when it is answered.
THEOREM AccountsAreAtomic == Spec => KeepsRegistry
<1>1. Init => Registry!Init
  <2> SUFFICES ASSUME Init PROVE Registry!Init
    OBVIOUS
  <2>1. Book = {}
    BY DEF Init, Book, Rows
  <2>2. \A r \in Requests : request[r].pc # "done"
    BY DEF Init, Idle
  <2>3. Answers = [r \in Requests |-> Registry!Pending]
    BY <2>2 DEF Answers, Registry!Pending
  <2> QED BY <2>1, <2>3 DEF Registry!Init
<1> QED BY <1>1, InitIInv, NextKeepsIInv, StepIsRegistry, PTL DEF Spec, KeepsRegistry, Registry!Spec

=============================================================================

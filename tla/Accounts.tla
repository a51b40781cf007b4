------------------------------ MODULE Accounts ------------------------------
(***************************************************************************)
(* api-gateway: POST /auth/register and POST /auth/login (AuthService) on  *)
(* the users table.  A request runs up to its next database call; between  *)
(* the look-up and the insert of a registration lies a bcrypt hash, so two *)
(* registrations of one e-mail easily overlap.                             *)
(*                                                                         *)
(* A hash is stood for by the password it was made of: compare tells       *)
(* whether two passwords are equal, and nothing else is done with it.      *)
(***************************************************************************)
EXTENDS Naturals, FiniteSets

CONSTANTS Requests,    \* requests a behaviour consists of, each made once
          Emails,
          Passwords,
          MaxThrows    \* bounds how many database calls reject

ASSUME AccountsAssumption == MaxThrows \in Nat

VARIABLES users,      \* users[r]: the row that request r has inserted; its
                      \* id is called after r
          request,    \* request[r]: what r asks for and how far it is
          throws,     \* database calls that have rejected so far
          promised    \* logins that began when a registration with the same
                      \* e-mail and password had been answered (a history)

vars == <<users, request, throws, promised>>

User   == [email : Emails, passwordHash : Passwords]
NoUser == [email |-> "no user"]

Idle   == [pc |-> "idle"]
Active == [pc : {"find", "save", "compare"}, op : {"register", "login"},
           email : Emails, password : Passwords, user : Requests]

\* An answer: the HTTP status, and the user the token of a success names.
Answered == [pc : {"done"}, op : {"register", "login"}, email : Emails,
             password : Passwords, user : Requests, status : {200, 201, 401, 409, 500}]

Rows           == {r \in Requests : users[r] # NoUser}
RowsOf(e)      == {r \in Rows : users[r].email = e}

-----------------------------------------------------------------------------
\* What r's request becomes when it is answered, or goes on with user u.
Answer(r, status, u) ==
  request' = [request EXCEPT ![r] =
    [pc |-> "done", op |-> request[r].op, email |-> request[r].email,
     password |-> request[r].password, user |-> u, status |-> status]]

GoesOn(r, pc, u) ==
  request' = [request EXCEPT ![r] =
    [pc |-> pc, op |-> request[r].op, email |-> request[r].email,
     password |-> request[r].password, user |-> u]]

Begin(r, op, e, pw) ==
  /\ request[r] = Idle
  /\ request' = [request EXCEPT ![r] =
       [pc |-> "find", op |-> op, email |-> e, password |-> pw, user |-> r]]
  /\ UNCHANGED <<users, throws>>

Register(r, e, pw) == /\ Begin(r, "register", e, pw)
                      /\ UNCHANGED promised

\* Registrations of e with pw that have been acknowledged.
Acknowledged(e, pw) == {s \in Requests : /\ request[s].pc = "done"
                                         /\ request[s].status = 201
                                         /\ request[s].email = e
                                         /\ request[s].password = pw}

Login(r, e, pw) == /\ Begin(r, "login", e, pw)
                   /\ promised' = IF Acknowledged(e, pw) # {}
                                  THEN promised \cup {r} ELSE promised

\* register looks for a user with the e-mail: 409 if there is one.
FindExisting(r) ==
  /\ request[r].pc = "find" /\ request[r].op = "register"
  /\ IF RowsOf(request[r].email) # {} THEN Answer(r, 409, r) ELSE GoesOn(r, "save", r)
  /\ UNCHANGED <<users, throws, promised>>

\* Faulty: the column is not unique.
SaveUserTwice(r) ==
  /\ request[r].pc = "save"
  /\ users' = [users EXCEPT ![r] = [email |-> request[r].email, passwordHash |-> request[r].password]]
  /\ Answer(r, 201, r)
  /\ UNCHANGED <<throws, promised>>

\* Faulty: save updates the row that has the e-mail.
SaveUserOver(r) ==
  LET row == [email |-> request[r].email, passwordHash |-> request[r].password] IN
  /\ request[r].pc = "save"
  /\ IF RowsOf(row.email) = {}
     THEN users' = [users EXCEPT ![r] = row] /\ Answer(r, 201, r)
     ELSE \E u \in RowsOf(row.email) :
            users' = [users EXCEPT ![u] = row] /\ Answer(r, 201, u)
  /\ UNCHANGED <<throws, promised>>

\* The insert fails at the unique index if a row with the e-mail exists by
\* now; the error is no HttpException, so the filter answers 500.
SaveUser(r) ==
  /\ request[r].pc = "save"
  /\ IF RowsOf(request[r].email) # {}
     THEN Answer(r, 500, r) /\ UNCHANGED users
     ELSE /\ users' = [users EXCEPT ![r] = [email        |-> request[r].email,
                                            passwordHash |-> request[r].password]]
          /\ Answer(r, 201, r)
  /\ UNCHANGED <<throws, promised>>

\* Faulty: login does not ask whether there is such a user.
FindUserUnchecked(r) ==
  /\ request[r].pc = "find" /\ request[r].op = "login"
  /\ \/ /\ RowsOf(request[r].email) = {}
        /\ GoesOn(r, "compare", NoUser)
     \/ \E u \in RowsOf(request[r].email) : GoesOn(r, "compare", u)
  /\ UNCHANGED <<users, throws, promised>>

\* login looks the user up.
FindUser(r) ==
  /\ request[r].pc = "find" /\ request[r].op = "login"
  /\ \/ /\ RowsOf(request[r].email) = {}
        /\ Answer(r, 401, r)
     \/ \E u \in RowsOf(request[r].email) : GoesOn(r, "compare", u)
  /\ UNCHANGED <<users, throws, promised>>

\* Faulty: the result of compare is not awaited, and a promise is truthy.
CompareUnawaited(r) ==
  /\ request[r].pc = "compare"
  /\ Answer(r, 200, request[r].user)
  /\ UNCHANGED <<users, throws, promised>>

Compare(r) ==
  /\ request[r].pc = "compare"
  /\ Answer(r, IF request[r].password = users[request[r].user].passwordHash THEN 200 ELSE 401,
            request[r].user)
  /\ UNCHANGED <<users, throws, promised>>

\* Faulty: whatever the database rejects is taken for the unique index.
CallRejectsAsConflict(r) ==
  /\ request[r].pc \in {"find", "save"}
  /\ throws < MaxThrows
  /\ throws' = throws + 1
  /\ Answer(r, 409, r)
  /\ UNCHANGED <<users, promised>>

\* A database call rejects.
CallRejects(r) ==
  /\ request[r].pc \in {"find", "save"}
  /\ throws < MaxThrows
  /\ throws' = throws + 1
  /\ Answer(r, 500, r)
  /\ UNCHANGED <<users, promised>>

-----------------------------------------------------------------------------
Init == /\ users = [r \in Requests |-> NoUser]
        /\ request = [r \in Requests |-> Idle]
        /\ throws = 0
        /\ promised = {}

Next == \E r \in Requests :
  \/ \E e \in Emails, pw \in Passwords : Register(r, e, pw) \/ Login(r, e, pw)
  \/ FindExisting(r) \/ SaveUser(r) \/ FindUser(r) \/ Compare(r) \/ CallRejects(r)

Spec == Init /\ [][Next]_vars

-----------------------------------------------------------------------------
(* Properties.                                                             *)

\* The users table, the requests and the histories have their types.
TypeOK == /\ users \in [Requests -> User \cup {NoUser}]
          /\ request \in [Requests -> Active \cup Answered \cup {Idle}]
          /\ throws \in 0..MaxThrows
          /\ promised \subseteq Requests

Done(r, status) == request[r].pc = "done" /\ request[r].status = status

\* However many registrations of one e-mail overlap, one of them is told
\* that it has made the account, and that account is its own row.
OneWinner == \A r, s \in Requests :
  /\ Done(r, 201) => r \in Rows
  /\ Done(r, 201) /\ Done(s, 201) /\ request[r].email = request[s].email => r = s

\* A token is handed out only for a user whose e-mail and password were
\* given, and there was no other user it could have been handed out for.
TokenIsEarned == \A r \in Requests :
  Done(r, 200) \/ Done(r, 201) =>
    /\ users[request[r].user] = [email        |-> request[r].email,
                                 passwordHash |-> request[r].password]
    /\ RowsOf(request[r].email) = {request[r].user}

\* Who has been told that the registration succeeded is not turned away with
\* the same credentials afterwards, whatever other registrations do.
RegisteredCanLogIn == \A r \in promised : ~Done(r, 401)

\* What callers see of the table and of the requests.
Book == {[id       |-> r,
          email    |-> users[r].email,
          password |-> users[r].passwordHash] : r \in Rows}

Told(r) == [op       |-> request[r].op,
            email    |-> request[r].email,
            password |-> request[r].password,
            status   |-> request[r].status,
            user     |-> IF request[r].status \in {200, 201} THEN request[r].user ELSE r]

Answers == [r \in Requests |-> IF request[r].pc = "done" THEN Told(r)
                                                        ELSE [status |-> "pending"]]

Registry == INSTANCE AccountRegistry WITH accounts <- Book, answer <- Answers

\* Callers cannot tell that look-up, hash and insert are apart: every request
\* is answered as if it had been done in one step, by the accounts there are
\* when it is answered.
KeepsRegistry == Registry!Spec

\* The controller documents 409 for an e-mail that is registered already.
TakenMeansConflict == throws = 0 => \A r \in Requests : ~Done(r, 500)

=============================================================================

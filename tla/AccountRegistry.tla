-------------------------- MODULE AccountRegistry --------------------------
(***************************************************************************)
(* What registration and login promise, with no word about look-ups,       *)
(* hashes and inserts: a request is answered in one step, by the accounts  *)
(* there are at that moment.  An e-mail has one account, which nothing     *)
(* changes or takes back.                                                  *)
(***************************************************************************)
CONSTANTS Requests, Emails, Passwords

VARIABLES accounts,  \* the accounts: who made it, the e-mail, the password
          answer     \* answer[r]: what r was told, or Pending

vars == <<accounts, answer>>

Pending == [status |-> "pending"]

\* r, which is op with e and pw, is told status; a token names user.
Tells(r, op, e, pw, status, user) ==
  /\ answer[r] = Pending
  /\ answer' = [answer EXCEPT ![r] = [op |-> op, email |-> e, password |-> pw,
                                      status |-> status, user |-> user]]

Account(r, e, pw) == [id |-> r, email |-> e, password |-> pw]

Free(e) == \A a \in accounts : a.email # e

Create(r, e, pw) == /\ Free(e)
                    /\ accounts' = accounts \cup {Account(r, e, pw)}
                    /\ Tells(r, "register", e, pw, 201, r)

Conflict(r, e, pw) == /\ ~Free(e)
                      /\ Tells(r, "register", e, pw, 409, r)
                      /\ UNCHANGED accounts

Admit(r, e, pw) == /\ \E u \in Requests : /\ Account(u, e, pw) \in accounts
                                          /\ Tells(r, "login", e, pw, 200, u)
                   /\ UNCHANGED accounts

TurnAway(r, e, pw) == /\ \A u \in Requests : Account(u, e, pw) \notin accounts
                      /\ Tells(r, "login", e, pw, 401, r)
                      /\ UNCHANGED accounts

\* An error has changed nothing.
Fail(r, op, e, pw) == /\ Tells(r, op, e, pw, 500, r)
                      /\ UNCHANGED accounts

Init == /\ accounts = {}
        /\ answer = [r \in Requests |-> Pending]

Next == \E r \in Requests, e \in Emails, pw \in Passwords :
  \/ Create(r, e, pw) \/ Conflict(r, e, pw)
  \/ Admit(r, e, pw) \/ TurnAway(r, e, pw)
  \/ \E op \in {"register", "login"} : Fail(r, op, e, pw)

Spec == Init /\ [][Next]_vars

=============================================================================

--------------------------- MODULE PaymentBreaker ---------------------------
(***************************************************************************)
(* payment-service: the circuit breaker in front of the payment gateway,   *)
(* one per replica.  A replica takes one payment request at a time, so the *)
(* breaker has at most one call in flight.                                 *)
(*                                                                         *)
(* The repository chooses the options and mocks the gateway; how a breaker *)
(* counts and when it changes its state is the library opossum's.  Time    *)
(* passes in ticks, one per bucket of the rolling window.  The mock takes  *)
(* 300 ms at most, so a call sees at most one tick and the 3 s timeout     *)
(* never ends one.                                                         *)
(***************************************************************************)
EXTENDS Integers, Functions

CONSTANTS Users,       \* who pays: customers, and the two users of the demos
          Buckets,     \* rolling window, in ticks: rollingCountTimeout
          ResetTicks,  \* resetTimeout, in ticks
          MaxFires     \* bounds how many payments come within one tick

ForceFail       == "__force_fail__"
ForceFailDeduct == "__force_fail_deduct__"

ErrorThreshold == 50   \* errorThresholdPercentage

ASSUME BreakerAssumption ==
  /\ "nobody" \notin Users
  /\ Buckets \in Nat \ {0}
  /\ ResetTicks \in Nat /\ ResetTicks >= Buckets
  /\ MaxFires \in Nat \ {0}

VARIABLES state,         \* "closed", "open" or "halfOpen"
          pendingClose,  \* the next call is the trial of a half-open breaker
          fires,         \* fires[i]: payments fired i ticks ago
          failures,      \* failures[i]: failures i ticks ago
          call,          \* the call the gateway is working on
          openFor,       \* ticks since the breaker opened
          calm           \* ticks since the gateway last refused a call
                         \* (a history; it stops at Calm)

vars == <<state, pendingClose, fires, failures, call, openFor, calm>>

Slots == 0..Buckets - 1
Calm  == ResetTicks + 1

NoCall == [user |-> "nobody", ticks |-> 0]
Call   == [user : Users, ticks : 0..1]

-----------------------------------------------------------------------------
(* A payment is fired: breaker.fire.                                       *)

Counted == /\ fires[0] < MaxFires
           /\ fires' = [fires EXCEPT ![0] = @ + 1]

Admits == state = "closed" \/ pendingClose

\* Faulty: a half-open breaker lets every payment through.
AskKeepsPending(u) ==
  /\ call = NoCall /\ Admits
  /\ Counted
  /\ call' = [user |-> u, ticks |-> 0]
  /\ UNCHANGED <<state, pendingClose, failures, openFor, calm>>

\* The gateway is asked; in a half-open breaker this is the trial.
Ask(u) ==
  /\ call = NoCall /\ Admits
  /\ Counted
  /\ pendingClose' = FALSE
  /\ call' = [user |-> u, ticks |-> 0]
  /\ UNCHANGED <<state, failures, openFor, calm>>

\* An open breaker refuses at once: the payment counts as fired, not as a
\* failure.
Reject ==
  /\ call = NoCall /\ ~Admits
  /\ Counted
  /\ UNCHANGED <<state, pendingClose, failures, call, openFor, calm>>

-----------------------------------------------------------------------------
(* The gateway answers: mockGatewayCall.                                   *)

\* Faulty: a trial that succeeds leaves the breaker as it is.
SucceedUnnoticed ==
  /\ call # NoCall /\ call.user # ForceFail
  /\ call' = NoCall
  /\ UNCHANGED <<state, pendingClose, fires, failures, openFor, calm>>

Succeed ==
  /\ call # NoCall /\ call.user # ForceFail
  /\ call' = NoCall
  /\ state' = IF state = "halfOpen" THEN "closed" ELSE state
  /\ UNCHANGED <<pendingClose, fires, failures, openFor, calm>>

\* More than ErrorThreshold per cent of the window has failed.  There is no
\* volumeThreshold: one failure in an empty window is 100 per cent.
OverThreshold == 100 * SumFunction(failures') > ErrorThreshold * SumFunction(fires)

\* Faulty: a failed trial is weighed like any other failure.
TripsByRate == OverThreshold

\* A failed trial opens the breaker whatever the rate.
Trips == state = "halfOpen" \/ OverThreshold

Fail ==
  /\ call # NoCall /\ call.user # ForceFailDeduct
  /\ call' = NoCall
  /\ failures' = [failures EXCEPT ![0] = @ + 1]
  /\ IF Trips
     THEN state' = "open" /\ openFor' = 0
     ELSE UNCHANGED <<state, openFor>>
  /\ calm' = 0
  /\ UNCHANGED <<pendingClose, fires>>

-----------------------------------------------------------------------------
(* Time.                                                                   *)

Rotated(counts) == [i \in Slots |-> IF i = 0 THEN 0 ELSE counts[i - 1]]

\* Faulty: the reset timer is late.
InTimeLate == call.ticks = 0

\* The mock answers before a second tick, and the reset timer is on time.
InTime == /\ call.ticks = 0
          /\ state = "open" => openFor < ResetTicks

Tick ==
  /\ InTime
  /\ fires' = Rotated(fires)
  /\ failures' = Rotated(failures)
  /\ call' = IF call = NoCall THEN call ELSE [call EXCEPT !.ticks = 1]
  /\ openFor' = IF state = "open" THEN openFor + 1 ELSE openFor
  /\ calm' = IF calm < Calm THEN calm + 1 ELSE calm
  /\ UNCHANGED <<state, pendingClose>>

\* Faulty: the reset comes one tick before the window is over.
HalfOpenEarly ==
  /\ state = "open" /\ openFor = ResetTicks - 1
  /\ state' = "halfOpen"
  /\ pendingClose' = TRUE
  /\ UNCHANGED <<fires, failures, call, openFor, calm>>

\* resetTimeout has passed.
HalfOpen ==
  /\ state = "open" /\ openFor = ResetTicks
  /\ state' = "halfOpen"
  /\ pendingClose' = TRUE
  /\ UNCHANGED <<fires, failures, call, openFor, calm>>

-----------------------------------------------------------------------------
Init == /\ state = "closed" /\ pendingClose = FALSE
        /\ fires = [i \in Slots |-> 0]
        /\ failures = [i \in Slots |-> 0]
        /\ call = NoCall
        /\ openFor = 0
        /\ calm = Calm

Fire   == (\E u \in Users : Ask(u)) \/ Reject
Answer == Succeed \/ Fail
Timers == Tick \/ HalfOpen

Next == Fire \/ Answer \/ Timers

Spec == Init /\ [][Next]_vars

\* The mock always answers, and time passes.
FairSpec == Spec /\ WF_vars(Answer) /\ WF_vars(Timers)

-----------------------------------------------------------------------------
(* Properties.                                                             *)

\* Each variable has the type opossum keeps it in.
TypeOK ==
  /\ state \in {"closed", "open", "halfOpen"} /\ pendingClose \in BOOLEAN
  /\ fires \in [Slots -> Nat] /\ failures \in [Slots -> Nat]
  /\ call \in Call \cup {NoCall}
  /\ openFor \in 0..ResetTicks /\ calm \in 0..Calm

Rejecting == call = NoCall /\ ~Admits

\* Customers are refused unasked only for one resetTimeout after the
\* gateway itself refused a call: no half-open breaker waits for a trial
\* that nobody can make any more.
RejectsOnlyAfterFailure == Rejecting => calm <= ResetTicks

\* When a trial is admitted the window holds no failure from before the
\* breaker opened, so what follows a recovery is judged by itself: this is
\* why resetTimeout may not be shorter than the rolling window.
OutageIsForgotten == pendingClose => \A i \in Slots : failures[i] = 0

\* A gateway that is down is asked once per resetTimeout and not again.
SparesGateway ==
  [][call = NoCall /\ call' # NoCall /\ state # "closed" => calm >= ResetTicks]_vars

\* Once the gateway refuses nobody any more and payments keep coming, the
\* breaker closes for good.
Recovers == (<>[][~Fail]_vars /\ []<><<Fire>>_vars) => <>[](state = "closed")

=============================================================================

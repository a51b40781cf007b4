------------------------ MODULE PaymentBreakerProofs ------------------------
(***************************************************************************)
(* Proofs about PaymentBreaker, for any users, window and reset period     *)
(* that is not shorter than the window.                                    *)
(***************************************************************************)
EXTENDS PaymentBreaker, TLAPS

\* A trial is pending in a half-open breaker only, before anybody is asked;
\* an open breaker has no call in flight, a half-open one has a trial that
\* is pending or in flight.
TrialsInOrder ==
  /\ pendingClose => state = "halfOpen" /\ call = NoCall
  /\ state = "open" => call = NoCall
  /\ state = "halfOpen" /\ ~pendingClose => call # NoCall

\* The reset timer of an open breaker runs since the failure that opened it.
TimerSinceFailure ==
  /\ state = "open" => openFor = calm
  /\ pendingClose => calm >= ResetTicks

\* Nothing has failed since.
NoFailureSince ==
  /\ state = "open" => \A i \in Slots : i < openFor => failures[i] = 0
  /\ OutageIsForgotten

IInv == TypeOK /\ TrialsInOrder /\ TimerSinceFailure /\ NoFailureSince

-----------------------------------------------------------------------------
LEMMA InitIInv == Init => IInv
<1> USE BreakerAssumption
<1> SUFFICES ASSUME Init PROVE IInv
  OBVIOUS
<1>1. TypeOK
  <2>1. 0 \in 0..ResetTicks /\ Calm \in 0..Calm
    BY DEF Calm
  <2>2. fires \in [Slots -> Nat] /\ failures \in [Slots -> Nat]
    BY DEF Init
  <2> QED BY <2>1, <2>2 DEF Init, TypeOK
<1>2. TrialsInOrder /\ TimerSinceFailure /\ NoFailureSince
  BY DEF Init, TrialsInOrder, TimerSinceFailure, NoFailureSince, OutageIsForgotten
<1> QED BY <1>1, <1>2 DEF IInv

\* To count a payment keeps the window a window.
LEMMA CountedType ==
  ASSUME TypeOK, Counted
  PROVE  fires' \in [Slots -> Nat]
<1>1. 0 \in Slots
  BY BreakerAssumption DEF Slots
<1> QED BY <1>1 DEF TypeOK, Counted

\* A call to the gateway is not the absence of one.
LEMMA CallIsCall ==
  ASSUME NEW u \in Users
  PROVE  [user |-> u, ticks |-> 0] \in Call /\ [user |-> u, ticks |-> 0] # NoCall
BY BreakerAssumption DEF Call, NoCall

LEMMA AskKeeps ==
  ASSUME IInv, NEW u \in Users, Ask(u)
  PROVE  IInv'
<1> USE DEF IInv
<1>1. /\ call = NoCall /\ Admits /\ pendingClose' = FALSE
      /\ call' \in Call /\ call' # NoCall
      /\ UNCHANGED <<state, failures, openFor, calm>>
  BY CallIsCall DEF Ask
<1>2. TypeOK'
  BY <1>1, CountedType DEF TypeOK, Ask
<1>3. state' # "open"
  BY <1>1 DEF Admits, TrialsInOrder
<1> QED BY <1>1, <1>2, <1>3 DEF TrialsInOrder, TimerSinceFailure, NoFailureSince, OutageIsForgotten

LEMMA RejectKeeps ==
  ASSUME IInv, Reject
  PROVE  IInv'
<1>1. UNCHANGED <<state, pendingClose, failures, call, openFor, calm>>
  BY DEF Reject
<1>2. TypeOK'
  BY <1>1, CountedType DEF IInv, TypeOK, Reject
<1> QED BY <1>1, <1>2 DEF IInv, TrialsInOrder, TimerSinceFailure, NoFailureSince, OutageIsForgotten

LEMMA SucceedKeeps ==
  ASSUME IInv, Succeed
  PROVE  IInv'
<1>1. /\ call # NoCall /\ call' = NoCall /\ state' \in {"closed", "open"}
      /\ state' = "open" => state = "open"
      /\ UNCHANGED <<pendingClose, fires, failures, openFor, calm>>
  BY DEF Succeed, IInv, TypeOK
<1>2. ~pendingClose /\ state' # "open"
  BY <1>1 DEF IInv, TrialsInOrder
<1> QED BY <1>1, <1>2 DEF IInv, TypeOK, TrialsInOrder, TimerSinceFailure, NoFailureSince, OutageIsForgotten

LEMMA FailKeeps ==
  ASSUME IInv, Fail
  PROVE  IInv'
<1>1. /\ call # NoCall /\ call' = NoCall /\ calm' = 0
      /\ failures' = [failures EXCEPT ![0] = @ + 1]
      /\ UNCHANGED <<pendingClose, fires>>
      /\ \/ state' = "open" /\ openFor' = 0
         \/ state # "halfOpen" /\ UNCHANGED <<state, openFor>>
  BY DEF Fail, Trips
<1>2. ~pendingClose /\ state # "open" /\ state' # "halfOpen"
  BY <1>1 DEF IInv, TrialsInOrder, TypeOK
<1>3. TypeOK'
  <2>1. 0 \in Slots /\ 0 \in 0..Calm /\ 0 \in 0..ResetTicks
    BY BreakerAssumption DEF Slots, Calm
  <2> QED BY <1>1, <2>1 DEF IInv, TypeOK
<1> QED BY <1>1, <1>2, <1>3 DEF IInv, TypeOK, Slots, TrialsInOrder, TimerSinceFailure,
                             NoFailureSince, OutageIsForgotten

LEMMA TickKeeps ==
  ASSUME IInv, Tick
  PROVE  IInv'
<1> USE BreakerAssumption
<1>1. /\ fires' = Rotated(fires) /\ failures' = Rotated(failures)
      /\ openFor' = IF state = "open" THEN openFor + 1 ELSE openFor
      /\ calm' = IF calm < Calm THEN calm + 1 ELSE calm
      /\ state' = state /\ pendingClose' = pendingClose
      /\ state = "open" => openFor < ResetTicks
      /\ call.ticks = 0
  BY DEF Tick, InTime
<1>2. fires' \in [Slots -> Nat] /\ failures' \in [Slots -> Nat]
  BY <1>1 DEF IInv, TypeOK, Rotated, Slots
<1>3. call' \in Call \cup {NoCall} /\ (call' = NoCall <=> call = NoCall)
  <2>1. CASE call = NoCall
    BY <2>1 DEF Tick
  <2>2. CASE call # NoCall
    BY <2>2 DEF Tick, IInv, TypeOK, Call, NoCall
  <2> QED BY <2>1, <2>2
<1>4. TypeOK'
  BY <1>1, <1>2, <1>3 DEF IInv, TypeOK, Calm
<1>5. TrialsInOrder'
  BY <1>1, <1>3 DEF IInv, TrialsInOrder
<1>6. TimerSinceFailure'
  BY <1>1 DEF IInv, TypeOK, TimerSinceFailure, Calm
<1>7. NoFailureSince'
  <2>1. ASSUME state' = "open", NEW i \in Slots, i < openFor' PROVE failures'[i] = 0
    BY <1>1, <2>1 DEF IInv, TypeOK, NoFailureSince, Rotated, Slots
  <2>2. ASSUME pendingClose', NEW i \in Slots PROVE failures'[i] = 0
    BY <1>1, <2>2 DEF IInv, TypeOK, NoFailureSince, OutageIsForgotten, Rotated, Slots
  <2> QED BY <2>1, <2>2 DEF NoFailureSince, OutageIsForgotten, Slots
<1> QED BY <1>4, <1>5, <1>6, <1>7 DEF IInv

LEMMA HalfOpenKeeps ==
  ASSUME IInv, HalfOpen
  PROVE  IInv'
<1>1. /\ state = "open" /\ openFor = ResetTicks
      /\ state' = "halfOpen" /\ pendingClose' = TRUE
      /\ UNCHANGED <<fires, failures, call, openFor, calm>>
  BY DEF HalfOpen
<1>2. \A i \in Slots : failures[i] = 0
  BY <1>1, BreakerAssumption DEF IInv, NoFailureSince, Slots
<1> QED BY <1>1, <1>2, BreakerAssumption
        DEF IInv, TypeOK, Calm, TrialsInOrder, TimerSinceFailure, NoFailureSince, OutageIsForgotten

LEMMA NextKeepsIInv == IInv /\ [Next]_vars => IInv'
<1> SUFFICES ASSUME IInv, [Next]_vars PROVE IInv'
  OBVIOUS
<1>1. CASE UNCHANGED vars
  BY <1>1 DEF vars, IInv, TypeOK, TrialsInOrder, TimerSinceFailure, NoFailureSince, OutageIsForgotten
<1> QED BY <1>1, AskKeeps, RejectKeeps, SucceedKeeps, FailKeeps, TickKeeps, HalfOpenKeeps
        DEF Next, Fire, Answer, Timers

-----------------------------------------------------------------------------
(* The theorems.                                                           *)

\* The breaker's variables have their types (opossum, PaymentsService).
THEOREM TypeCorrect == Spec => []TypeOK
<1>1. IInv => TypeOK
  BY DEF IInv
<1> QED BY <1>1, InitIInv, NextKeepsIInv, PTL DEF Spec

\* A replica refuses payments unasked for one resetTimeout after a refusal
\* of the gateway and no longer (breaker.fire in processPayment).
THEOREM RefusalsAreExplained == Spec => []RejectsOnlyAfterFailure
<1>1. IInv => RejectsOnlyAfterFailure
  BY BreakerAssumption
     DEF IInv, TypeOK, TrialsInOrder, TimerSinceFailure, RejectsOnlyAfterFailure, Rejecting, Admits
<1> QED BY <1>1, InitIInv, NextKeepsIInv, PTL DEF Spec

\* A trial is not judged by failures from before the breaker opened
\* (resetTimeout against the rolling window).
THEOREM TrialsStartAfresh == Spec => []OutageIsForgotten
<1>1. IInv => OutageIsForgotten
  BY DEF IInv, NoFailureSince
<1> QED BY <1>1, InitIInv, NextKeepsIInv, PTL DEF Spec

\* A gateway that refuses is asked once per resetTimeout.
THEOREM GatewayIsSpared == Spec => SparesGateway
<1>1. IInv /\ [Next]_vars =>
        [call = NoCall /\ call' # NoCall /\ state # "closed" => calm >= ResetTicks]_vars
  <2> SUFFICES ASSUME IInv, Next, call = NoCall, call' # NoCall, state # "closed"
               PROVE  calm >= ResetTicks
    OBVIOUS
  <2>1. PICK u \in Users : Ask(u)
    BY DEF Next, Fire, Answer, Timers, Reject, Succeed, Fail, Tick, HalfOpen
  <2>2. pendingClose
    BY <2>1 DEF Ask, Admits
  <2> QED BY <2>2 DEF IInv, TimerSinceFailure
<1> QED BY <1>1, InitIInv, NextKeepsIInv, PTL DEF Spec, SparesGateway

=============================================================================

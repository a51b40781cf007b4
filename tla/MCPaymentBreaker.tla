-------------------------- MODULE MCPaymentBreaker --------------------------
(* Instances of PaymentBreaker for TLC. *)
EXTENDS PaymentBreaker

\* A customer, whom the mock may refuse or not, and the two demo users.
MCUsers == {"customer", ForceFail, ForceFailDeduct}

=============================================================================

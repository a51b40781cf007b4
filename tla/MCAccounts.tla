----------------------------- MODULE MCAccounts -----------------------------
(* Instances of Accounts for TLC. *)
EXTENDS Accounts, TLC

Sym == Permutations(Requests) \cup Permutations(Emails) \cup Permutations(Passwords)

=============================================================================

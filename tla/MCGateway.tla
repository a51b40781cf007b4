----------------------------- MODULE MCGateway -----------------------------
(* Instances of Gateway for TLC. *)
EXTENDS Gateway

CONSTANTS Shopper, Visitor   \* the users

MCUsers == {Shopper, Visitor}

\* The shopper orders and watches, the visitor tries the demo and keeps the
\* catalogue; without a token everything is tried.
MCRoutes == [u \in MCUsers \cup {Anonymous} |->
  IF u = Shopper THEN {"create", "get", "list"}
  ELSE IF u = Visitor THEN {"demo", "write"}
  ELSE Kinds]

\* The visitor follows what the demo's description says.
MCDemoRoutes == [u \in MCUsers \cup {Anonymous} |->
  IF u = Visitor THEN {"demo", "get"} ELSE {"create"}]

=============================================================================

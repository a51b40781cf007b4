----------------------------- MODULE MCOmniSaga -----------------------------
(* Instances of OmniSaga for TLC: the users, carts, budgets and symmetries. *)
EXTENDS OmniSaga, TLC

CONSTANTS Redeliveries, Losses, Throws, OneLine, Quantities

Customer == "customer"

AllUsers  == {Customer, ForceFail, ForceFailDeduct}
DemoUsers == {Customer, ForceFailDeduct}

Line(p, q) == [productId |-> p, quantity |-> q]

\* One line, or two that may name the same product: nothing merges them.
MCItemLists == {<<Line(p, q)>> : p \in Products, q \in Quantities}
               \cup IF OneLine THEN {}
                    ELSE {<<Line(p, 1), Line(r, 1)>> : p, r \in Products}

MCMaxFaults == [k \in FaultKinds |-> CASE k = "redeliver" -> Redeliveries
                                       [] k = "lose"      -> Losses
                                       [] k = "throw"     -> Throws]

CONSTANT StockLevel
MCInitialStock == [p \in Products |-> StockLevel]

Sym == Permutations(Orders) \cup Permutations(PaymentIds) \cup Permutations(OrderWorkers)
       \cup Permutations(StockWorkers) \cup Permutations(PaymentWorkers)
       \cup Permutations(Products) \cup Permutations(Operators)

=============================================================================

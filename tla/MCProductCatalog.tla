-------------------------- MODULE MCProductCatalog --------------------------
(* Instances of ProductCatalog, with the histories of CatalogRaces, for TLC. *)
EXTENDS CatalogRaces

CONSTANTS Listed   \* the products that have a row at the start

MCRow         == [details |-> "old", stock |-> 1]
MCNewRows     == {MCRow}
MCInitialRows == [p \in Products |-> IF p \in Listed THEN MCRow ELSE NoRow]

\* A new name, and a new stock: the second is what PATCH /stock sends.
MCDtos == {[details |-> "new"], [stock |-> 2]}

=============================================================================

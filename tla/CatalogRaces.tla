---------------------------- MODULE CatalogRaces ----------------------------
(***************************************************************************)
(* Which overlaps of operations on the catalogue can do harm.  PATCH saves *)
(* a whole entity that it read before, from the cache as a rule, so a      *)
(* write that came in between is undone.  Two history variables tell the   *)
(* saves that this may happen to from all others, by how the operations    *)
(* overlap and not by what is in the table.                                *)
(***************************************************************************)
EXTENDS ProductCatalog

VARIABLES raced,    \* workers whose entity may be outdated
          spoiled   \* products that such a worker has saved, until a PATCH
                    \* sets the stock

rvars == <<vars, raced, spoiled>>

\* w has read the product it will save.
Holds(w) == worker[w].pc \in {"fill", "save"} /\ worker[w].op = "save"

\* The cache may hold an old value under k: a write has still to delete the
\* key, or it was left to the TTL.
Doubtful(k) == k \in exposed \/ \E w \in Workers : k \in Pending(worker[w])

TakesDoubtfulHit(w) == /\ worker[w].pc = "get" /\ Holds(w)'
                       /\ Doubtful(worker[w].key)

IsOvertaken(w) == Holds(w) /\ rows'[worker[w].key] # rows[worker[w].key]

\* w saves p, and whether it says what the stock shall be.
Saves(w, p)  == worker[w].pc = "save" /\ worker[w].key = p /\ worker'[w].pc = "delProduct"
SetsStock(w) == "stock" \in DOMAIN worker[w].dto

Histories ==
  /\ raced' = {w \in Workers : Holds(w)' /\ (w \in raced \/ TakesDoubtfulHit(w) \/ IsOvertaken(w))}
  /\ spoiled' = {p \in Products :
       \/ p \in spoiled /\ \A w \in Workers : Saves(w, p) => ~SetsStock(w)
       \/ \E w \in raced : Saves(w, p) /\ ~SetsStock(w)}

RacesInit == Init /\ raced = {} /\ spoiled = {}

RacesNext == Next /\ Histories

RacesSpec == RacesInit /\ [][RacesNext]_rvars /\ Fairness

-----------------------------------------------------------------------------
(* Properties.                                                             *)

\* The stock of a product is what creation, PATCH and the saga's decrements
\* have made it, whatever overlaps or fails: only a save that was overtaken
\* by a write, or began with a cached value a write had not yet deleted,
\* brings an older stock back, and only until a PATCH of the stock.
StockAccounted == \A p \in Products \ spoiled : rows[p] # NoRow => rows[p].stock = ledger[p]

\* A product that was deleted comes back by such a save only.
RemovedStaysRemoved ==
  [][\A p \in issued : rows[p] = NoRow /\ rows'[p] # NoRow =>
       \E w \in raced : Saves(w, p)]_rvars

=============================================================================

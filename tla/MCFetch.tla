------------------------------ MODULE MCFetch -------------------------------
(* The target t depends on a and c, and its author wrote b before it, which    *)
(* only a depends on: a plan needs two pages of questions and the catalogue.   *)
(* The owner's device, restored from a backup, writes x in the slot in which   *)
(* it had published a.  Another client transfers b.                            *)
EXTENDS FetchOwner
CONSTANTS t, a, b, c, x
MCRecord == {t, a, b, c, x}
MCDeps == [r \in MCRecord |-> CASE r = t -> {a, c} [] r = a -> {b} [] OTHER -> {}]
MCPrev == [r \in MCRecord |-> IF r = t THEN b ELSE None]
MCActor == [r \in MCRecord |-> CASE r \in {t, b} -> 1 [] r \in {a, x} -> 2 [] r = c -> 3]
MCNumber == [r \in MCRecord |-> IF r = t THEN 2 ELSE 1]
MCTarget == {t}
MCOwn == {x}
MCCatalogues == {{b, c}, {a, b, c}, {a, b, c, x}}
MCTransfers == {b}
=============================================================================

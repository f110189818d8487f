------------------------- MODULE MCOwnedApplication -------------------------
(* Two changes, b on top of a, either of which is the target of a controller; *)
(* two operations of intents and one of the embedding.                       *)
EXTENDS OwnedApplication, TLC

MCChanges == {"a", "b"}
MCDeps == [e \in MCChanges |-> IF e = "a" THEN {} ELSE {"a"}]
MCSlot == [e \in MCChanges |-> e]
MCTargets == {{"a"}, {"b"}}
MCSymmetry == Permutations(OwnOps)

\* An embedding that has called the controller sees one intent through.
OneIntent == asked # None => Len(log) <= 3
=============================================================================

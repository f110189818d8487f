--------------------------- MODULE CausalDocument ---------------------------
(***************************************************************************)
(* What the durable document promises: it is a set of changes that contains *)
(* what its changes depend on, it only grows, and each operation identity   *)
(* moves it at most once, by something new.                                 *)
(***************************************************************************)
CONSTANTS Changes, Deps, Ops

VARIABLES document, done

vars == <<document, done>>

CausallyClosed(S) == \A c \in S : Deps[c] \subseteq S

Init == document = {} /\ done = {}

Apply(op) ==
    /\ op \notin done
    /\ done' = done \cup {op}
    /\ document' \in SUBSET Changes
    /\ document \subseteq document' /\ document # document'
    /\ CausallyClosed(document')

Next == \E op \in Ops : Apply(op)

Spec == Init /\ [][Next]_vars
=============================================================================

---------------------------- MODULE MCEventHost -----------------------------
(* TLC instance of EventHost.  Request objects and channels are interchangeable. *)
EXTENDS EventHost, TLC

Symmetry == Permutations(Ids) \cup Permutations(Channels)
=============================================================================

-------------------------- MODULE MCEventCommands ---------------------------
(* TLC instance of the journal and its command port.  Operations and inputs *)
(* are interchangeable.  The subscriber and the owner's own publications    *)
(* meet the commands only through the rows and the state of the journal:    *)
(* once a client is connected, the instance leaves them out and bounds the  *)
(* journal to one event, one spare nonce and one authority change or restart.    *)
EXTENDS EventCommands, TLC

Symmetry == Permutations(Ops) \cup Permutations(Inputs)
OnePort ==
    (\E c \in Conns : conns[c].link # "new") =>
        /\ \A c \in Consumers : consumers[c] = None
        /\ call # None => call.kind \in {"nonce", "event"} /\ Serving # {}
        /\ auth.stamp <= 1 /\ Len(nonces) <= Len(events) + 1 /\ Len(events) <= 1
        /\ client.retained # None => client.retained.parents = {} \/ nonces = <<>>
=============================================================================

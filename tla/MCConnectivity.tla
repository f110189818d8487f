--------------------------- MODULE MCConnectivity ---------------------------
(* Two operations, three sockets and a limit of two; the policy allows a local *)
(* and a global address at first, and after a change the global one only, on a *)
(* metered network and with room for one connection.                           *)
EXTENDS Connectivity, TLC
CONSTANTS a1, a2, a3
MCClass == a1 :> "local" @@ a2 :> "global" @@ a3 :> "special"
MCPolicy == [g \in 0 .. MaxGeneration |->
                [networks |-> {a1, a2, a3}, allow_local |-> g = 0, allow_egress |-> TRUE,
                 metered |-> g = 1, allow_metered |-> {"user"}, max_inflight |-> MaxInflight,
                 max_connections |-> IF g = 0 THEN MaxConnections ELSE 1,
                 max_attempts |-> MaxAttempts]]
=============================================================================

------------------------------- MODULE MCPool -------------------------------
(* Two peers; "a" may have two requests waiting, "b" one. *)
EXTENDS Pool

MCPeers == <<"a", "b">>
MCPeerOf == [j \in Jobs |-> IF j = "b1" THEN "b" ELSE "a"]
=============================================================================

------------------------------ MODULE MCUpload ------------------------------
(* An object of two bytes for a lease that exists and the index of another *)
(* lease, too large for the spool together, two windows, two authorities   *)
(* and retirement requests that share an operation.                        *)
EXTENDS UploadWindow

CONSTANTS y, z, l1, l2, a, b

MCStage == (y :> [kind |-> "object", lease |-> l1, want |-> <<a, a>>, auth |-> 1])
        @@ (z :> [kind |-> "index", lease |-> l2, want |-> <<a>>, auth |-> 1])
MCRequests == {[id |-> 1, token |-> y, auth |-> 1], [id |-> 2, token |-> y, auth |-> 2], [id |-> 1, token |-> z, auth |-> 2]}
=============================================================================

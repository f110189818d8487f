------------------------------ MODULE MCKeeper ------------------------------
(* A lease of two objects and one of one object that only fits once the    *)
(* first was collected.  Two authorities; the second repair, cancellation  *)
(* and collection are signed under the later one.                          *)
EXTENDS KeeperService, TLC

CONSTANTS l1, l2, o1, o2, c1

MCIndex == (l1 :> {o1, o2}) @@ (l2 :> {o1})
Call(action, lease, nonce, secs, auth) == [action |-> action, lease |-> lease, nonce |-> nonce, secs |-> secs, auth |-> auth]
MCCalls ==
    {Call("seal", l1, 1, 2, 1), Call("renew", l1, 2, 1, 1), Call("renew", l1, 2, 2, 2), Call("release", l1, 3, 1, 1)}
MCCollects == {[lease |-> l1, gen |-> 1, release |-> 3, auth |-> 1], [lease |-> l1, gen |-> 1, release |-> 3, auth |-> 2]}
MCRepairs ==
    {[lease |-> l1, gen |-> 1, targets |-> {o1, o2}, auth |-> 1], [lease |-> l1, gen |-> 1, targets |-> {o1}, auth |-> 2]}
MCReads == {[lease |-> l1, oid |-> o1, auth |-> 1], [lease |-> l1, oid |-> None, auth |-> 1]}
MCCancels == [repair : MCRepairs, auth : {2}]
=============================================================================

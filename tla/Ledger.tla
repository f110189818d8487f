------------------------------- MODULE Ledger -------------------------------
(***************************************************************************)
(* What the store promises the callers of commit and lookup_operation, with *)
(* no database, no files and no crashes: an operation takes effect at most  *)
(* once, as one envelope, for ever; an acknowledgement names exactly the    *)
(* envelope that took effect.  An operation may take effect and its         *)
(* acknowledgement be lost; it can then be learned later.                   *)
(***************************************************************************)
CONSTANTS Ops, Envelopes, None

VARIABLES
    ledger,        \* the envelope of each operation, None until it takes effect
    acknowledged   \* every (operation, envelope) some caller was told of

vars == <<ledger, acknowledged>>

Init ==
    /\ ledger = [o \in Ops |-> None]
    /\ acknowledged = {}

TakeEffect(o, e) ==
    /\ ledger[o] = None
    /\ \A q \in Ops : ledger[q] # e
    /\ ledger' = [ledger EXCEPT ![o] = e]
    /\ acknowledged' \in {acknowledged, acknowledged \cup {<<o, e>>}}

Acknowledge(o) ==
    /\ ledger[o] # None
    /\ acknowledged' = acknowledged \cup {<<o, ledger[o]>>}
    /\ UNCHANGED ledger

Next ==
    \/ \E o \in Ops, e \in Envelopes : TakeEffect(o, e)
    \/ \E o \in Ops : Acknowledge(o)

Spec == Init /\ [][Next]_vars

\* No two callers are ever told different envelopes for one operation, however
\* often commit is retried and whichever attempt's answer is lost.
OneOutcome ==
    \A a, b \in acknowledged : a[1] = b[1] => a[2] = b[2]
=============================================================================

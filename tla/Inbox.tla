------------------------------- MODULE Inbox -------------------------------
(***************************************************************************)
(* The synchronisation inbox (product/wp04/inbox.py): encrypted candidate    *)
(* records received from peers, kept in files beside the authenticated       *)
(* store, and their evaluation against what the inbox and the store hold.    *)
(* A record is staged, synced, renamed into place and its directory synced   *)
(* before a receipt is given; the process may be killed, or the power fail,  *)
(* between any two of these steps.  Signatures, certificates and ciphertext  *)
(* are left out: a record is its envelope, whose header names the changes it *)
(* depends on, its author's previous envelope and its place in the author's  *)
(* sequence.  Every record enumerated is signed for this scope.              *)
(***************************************************************************)
EXTENDS Naturals, FiniteSets

CONSTANTS
    Record,       \* envelopes of the document
    Deps,         \* the changes each record depends on (header 10)
    Prev,         \* the author's previous envelope, or None (header 8)
    Actor,        \* the author of each record (headers 5 and 6)
    Number,       \* its place in the author's sequence (header 7)
    Own,          \* records this owner writes itself
    MaxRecords,   \* maxRecords of scope.json
    MaxOrphans,   \* DEFAULT_RECORDS, as the bound on leftover staging files
    None

HeaderShape(r) ==
    /\ Deps[r] \subseteq Record \ {r}                               \* SELF_DEPENDENCY
    /\ (Number[r] = 1) = (Prev[r] = None)                           \* PREVIOUS_MISMATCH
ASSUME RecordShapes == \A r \in Record : HeaderShape(r)

VARIABLES
    visible,    \* records/: the names a process sees
    durable,    \* those whose directory entry was synced
    orphans,    \* staging/: files left by a killed receive
    committed,  \* envelopes committed in the local store
    box,        \* the handle: "closed", "open" or "uncertain"
    authority   \* the control head and the network generation are still those bound

boxVars == <<visible, durable, orphans, committed, box, authority>>

Held == visible \cup committed
SameSlot(r, s) == r # s /\ Actor[r] = Actor[s] /\ Number[r] = Number[s]
Conflict(S) == \E r, s \in S : SameSlot(r, s)

BoxInit(initial) ==
    /\ visible = initial /\ durable = initial /\ orphans = 0
    /\ committed = {} /\ box = "open" /\ authority = TRUE

-----------------------------------------------------------------------------
(* _evaluation: the dependency walk and the request for the core.            *)

\* visit(): what is reached from a record without passing a missing one.
WalkClosed(S) == \A c \in S \cap Held : Deps[c] \subseteq S
Walk(r) == {c \in Record : \A S \in SUBSET Record : Deps[r] \subseteq S /\ WalkClosed(S) => c \in S}
Missing(r) == Walk(r) \ Held
MissingPrevious(r) == IF Prev[r] = None THEN {} ELSE {Prev[r]} \ (Walk(r) \cup Held)

\* core_request: the author link of every change is inside its own causal past.
CoreRequest(r) ==
    /\ r \notin Walk(r)                                             \* CHANGE_ALREADY_PRESENT
    /\ ~Conflict(Walk(r) \cup {r})                                  \* ACTOR_EQUIVOCATION
    /\ \A c \in Walk(r) \cup {r} : Number[c] > 1 =>
          /\ Prev[c] \in Walk(c)
          /\ Actor[Prev[c]] = Actor[c] /\ Number[Prev[c]] = Number[c] - 1

View(r) ==
    IF r \notin visible THEN "NOT_OBSERVED"
    ELSE IF Conflict(Held) THEN "QUARANTINED"
    ELSE IF ~authority THEN "WAITING_AUTHORITY"
    ELSE IF Missing(r) \cup MissingPrevious(r) # {} THEN "WAITING_DEPENDENCIES"
    ELSE IF CoreRequest(r) THEN "READY_FOR_CORE" ELSE "INVALID_DEPENDENCY_GRAPH"

-----------------------------------------------------------------------------
(* receive()                                                                 *)

\* One slot beyond the limit is kept for the evidence of an equivocation.
Slots(r) == MaxRecords + (IF \E s \in Held : SameSlot(r, s) THEN 1 ELSE 0)
Receivable(r) ==
    /\ box = "open" /\ authority                                    \* AUTH_REJECTED
    /\ r \in visible \/ Cardinality(visible) < Slots(r)             \* RESOURCE_BLOCKED

\* Mutant: a record that is already there is acknowledged as it is.
PublishedOnce(r) ==
    /\ visible' = visible \cup {r}
    /\ durable' = IF r \in visible THEN durable ELSE visible'
\* A record that is already there is synced again before it is acknowledged.
Published(r) ==
    /\ visible' = visible \cup {r}
    /\ durable' = visible'

Receives(r) ==
    /\ Receivable(r)
    /\ Published(r)
    /\ UNCHANGED <<orphans, committed, box, authority>>

\* An exception after the rename: INBOX_OUTCOME_UNKNOWN until the box is reopened.
ReceiveUnknown(r) ==
    /\ Receivable(r) /\ r \notin visible
    /\ visible' = visible \cup {r}
    /\ durable' \in {durable, visible'}
    /\ box' = "uncertain"
    /\ UNCHANGED <<orphans, committed, authority>>

\* The process is killed while it receives r: a staged file or an unsynced name.
KilledReceiving(r) ==
    /\ Receivable(r) /\ r \notin visible
    /\ \/ visible' = visible \cup {r} /\ UNCHANGED orphans
       \/ orphans' = orphans + 1 /\ UNCHANGED visible
    /\ box' = "closed"
    /\ UNCHANGED <<durable, committed, authority>>

-----------------------------------------------------------------------------
(* The handle, and what else the owner of the store does.                    *)

CloseBox ==
    /\ box' = "closed"
    /\ UNCHANGED <<visible, durable, orphans, committed, authority>>

\* Unsynced names may be lost with the power.
PowerLoss ==
    /\ \E lost \in SUBSET (visible \ durable) : visible' = visible \ lost
    /\ durable' = visible'
    /\ box' = "closed"
    /\ UNCHANGED <<orphans, committed, authority>>

OpenBox ==
    /\ box = "closed"
    /\ Cardinality(visible) <= MaxRecords + 1                       \* INBOX_CORRUPT
    /\ orphans <= MaxOrphans                                        \* RESOURCE_BLOCKED
    /\ box' = "open"
    /\ UNCHANGED <<visible, durable, orphans, committed, authority>>

\* collect_dependencies: the closure of a change, all of it in the store.
StoreClosed(r) == Walk(r) \subseteq committed

\* SharedWriter.write: the change's closure is in the store and the core agrees.
Write(r) ==
    /\ box = "open" /\ authority
    /\ r \in Own \ committed
    /\ StoreClosed(r) /\ CoreRequest(r)
    /\ committed' = committed \cup {r}
    /\ UNCHANGED <<visible, durable, orphans, box, authority>>

\* The control head or the network generation moves on: every guard looks at both.
AuthorityChanges ==
    /\ authority
    /\ authority' = FALSE
    /\ UNCHANGED <<visible, durable, orphans, committed, box>>
=============================================================================

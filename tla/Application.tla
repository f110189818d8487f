---------------------------- MODULE Application ----------------------------
(***************************************************************************)
(* DocumentApplier (product/wp04/application.py): the durable application   *)
(* of signed changes to one document.  prepare() collects the dependency    *)
(* closure of the targets, has the core materialise it and reserves a       *)
(* nonce; commit() binds inputs, event, frontier and nonce in one           *)
(* transaction, provided that the authority row, the writer fence, the      *)
(* available inputs and the frontier are still those prepare() saw.         *)
(***************************************************************************)
EXTENDS Naturals, Sequences, FiniteSets

CONSTANTS
    Changes,      \* envelopes of the document
    Deps,         \* the changes each one directly depends on
    Slot,         \* (actor, sequence) of each change
    Targets,      \* the target sets callers ask for
    Ops,          \* operation identities
    MaxEvents,    \* MAX_EVENTS
    MaxNonces,    \* MAX_NONCES
    MaxOwner,     \* bound on authority and fence changes
    None

ASSUME DepsAssumption == Deps \in [Changes -> SUBSET Changes]
ASSUME TargetsAssumption == Targets \subseteq SUBSET Changes
ASSUME NoneAssumption == None \notin Ops /\ None \notin [revision : Nat, op : Ops]
ASSUME BoundAssumption == MaxEvents \in Nat /\ MaxNonces \in Nat /\ MaxOwner \in Nat

VARIABLES
    pool,       \* _external(): changes available in the store and the inbox
    owner,      \* the authority row and the writer fence, as a version
    inputs,     \* document_inputs: change -> the operation that brought it, or None
    events,     \* document_apply_events, in order of revision
    frontier,   \* document_frontiers: revision and operation, or None
    nonces,     \* document_apply_nonces: request and user of each reservation
    prepared,   \* PreparedApplication values of the live applier
    uncertain   \* DocumentApplier._uncertain

vars == <<pool, owner, inputs, events, frontier, nonces, prepared, uncertain>>
tables == <<inputs, events, frontier, nonces>>

Requests == [op : Ops, targets : Targets, expected : 0 .. MaxEvents]
Prepared == [request : Requests, inputs : SUBSET Changes, owner : 0 .. MaxOwner,
             source : SUBSET Changes, nonce : Nat]
EventRows == [request : Requests, inputs : SUBSET Changes, nonce : Nat]
NonceRows == [request : Requests, usedBy : Ops \cup {None}]
Revision == IF frontier = None THEN 0 ELSE frontier.revision
Old == {c \in Changes : inputs[c] # None}
\* Mutant: the ledger of operations is not consulted.
CommittedNever(op) == FALSE
Committed(op) == \E r \in DOMAIN events : events[r].request.op = op

Init ==
    /\ pool = {} /\ owner = 0
    /\ inputs = [c \in Changes |-> None]
    /\ events = <<>> /\ frontier = None /\ nonces = <<>>
    /\ prepared = {} /\ uncertain = FALSE

-----------------------------------------------------------------------------
(* What other parts of the owner do between two calls.                      *)

Ingest(c) ==
    /\ c \notin pool
    /\ pool' = pool \cup {c}
    /\ UNCHANGED <<owner, tables, prepared, uncertain>>

OwnerChanges ==
    /\ owner < MaxOwner
    /\ owner' = owner + 1
    /\ UNCHANGED <<pool, tables, prepared, uncertain>>

\* The applier is dropped with its prepared values and made again.
Reopen ==
    /\ prepared' = {}
    /\ uncertain' = FALSE
    /\ UNCHANGED <<pool, owner, tables>>

-----------------------------------------------------------------------------
(* _collect: what visit() selects is the least set that holds the targets   *)
(* and the old inputs and, with a change, its dependencies.                 *)

IsClosed(S) == \A c \in S : Deps[c] \subseteq S
Closed(T) == {S \in SUBSET Changes : T \subseteq S /\ IsClosed(S)}
Selected(T) == {c \in Changes : \A S \in Closed(T) : c \in S}

Collectable(T, available) ==
    /\ Selected(T) \subseteq available                                  \* DEPENDENCIES_MISSING
    /\ \A c, d \in available : Slot[c] = Slot[d] => c = d               \* ACTOR_EQUIVOCATION
\* Mutant: the selection is not closed.
SelectTargets(T) == T
Select(T) == Selected(T)

NonceRoom == Len(nonces) < MaxNonces

Request(op, targets) == [op |-> op, targets |-> targets, expected |-> Revision]
Preparable(op, targets) ==
    /\ ~uncertain
    /\ ~Committed(op)                                                   \* OPERATION_ALREADY_COMMITTED
    /\ targets \ Old # {}                                               \* NO_NEW_CHANGES
    /\ Collectable(targets \cup Old, pool \cup Old)
    /\ Len(events) < MaxEvents /\ NonceRoom
Reserve(op, targets) == nonces' = Append(nonces, [request |-> Request(op, targets), usedBy |-> None])

Prepare(op, targets) ==
    /\ Preparable(op, targets)
    /\ Reserve(op, targets)
    /\ prepared' = prepared \cup
          {[request |-> Request(op, targets), inputs |-> Select(targets \cup Old), owner |-> owner,
            source |-> pool, nonce |-> Len(nonces) + 1]}
    /\ UNCHANGED <<pool, owner, inputs, events, frontier, uncertain>>

\* The reservation's COMMIT raises: it may be durable, the applier is uncertain.
PrepareUnknown(op, targets) ==
    /\ Preparable(op, targets)
    /\ Reserve(op, targets) \/ UNCHANGED nonces
    /\ uncertain' = TRUE
    /\ UNCHANGED <<pool, owner, inputs, events, frontier, prepared>>

-----------------------------------------------------------------------------
\* _guard and the frontier checks, before and inside the transaction.
Guard(p) ==
    /\ owner = p.owner                                \* WRITER_FENCE_CHANGED, OWNER_STATE_CHANGED
    /\ pool = p.source                                \* INPUTS_CHANGED
    /\ Revision = p.request.expected                  \* STALE_FRONTIER

\* The transaction's rows.
Insert(p) == [c \in Changes |-> IF c \in p.inputs /\ inputs[c] = None THEN p.request.op ELSE inputs[c]]

Record(p) ==
    /\ inputs' = Insert(p)
    /\ events' = Append(events, [request |-> p.request, inputs |-> p.inputs, nonce |-> p.nonce])
    /\ frontier' = [revision |-> p.request.expected + 1, op |-> p.request.op]
    /\ nonces' = [nonces EXCEPT ![p.nonce].usedBy = p.request.op]

Commits(p) ==
    /\ ~uncertain
    /\ ~Committed(p.request.op)
    /\ Guard(p)
    /\ nonces[p.nonce].usedBy = None

Commit(p) ==
    /\ Commits(p)
    /\ Record(p)
    /\ UNCHANGED <<pool, owner, prepared, uncertain>>

\* COMMIT or what follows it raises: durable or not, the applier is uncertain.
CommitUnknown(p) ==
    /\ Commits(p)
    /\ Record(p) \/ UNCHANGED tables
    /\ uncertain' = TRUE
    /\ UNCHANGED <<pool, owner, prepared>>

Next ==
    \/ \E c \in Changes : Ingest(c)
    \/ OwnerChanges
    \/ Reopen
    \/ \E op \in Ops, targets \in Targets :
          Prepare(op, targets) \/ PrepareUnknown(op, targets)
    \/ \E p \in prepared : Commit(p) \/ CommitUnknown(p)

Spec == Init /\ [][Next]_vars

-----------------------------------------------------------------------------
TypeOK ==
    /\ pool \in SUBSET Changes
    /\ owner \in 0 .. MaxOwner
    /\ inputs \in [Changes -> Ops \cup {None}]
    /\ events \in Seq(EventRows)
    /\ frontier \in [revision : Nat, op : Ops] \cup {None}
    /\ nonces \in Seq(NonceRows)
    /\ prepared \in SUBSET Prepared
    /\ uncertain \in BOOLEAN
    /\ Len(nonces) <= MaxNonces

EventSound(r) ==
    /\ events[r].inputs \subseteq Old
    /\ r > 1 => /\ events[r - 1].inputs \subseteq events[r].inputs
                /\ events[r - 1].inputs # events[r].inputs
    /\ \A c \in events[r].inputs :
          (r = 1 \/ c \notin events[r - 1].inputs) => inputs[c] = events[r].request.op
    /\ nonces[events[r].nonce] = [request |-> events[r].request, usedBy |-> events[r].request.op]

\* audit_records: revisions are contiguous, the frontier is the last event, each
\* event's inputs strictly contain its predecessor's and are all present, inputs
\* name the event that brought them, and exactly the events use their nonces.
AuditValid ==
    /\ \A r \in DOMAIN events : events[r].request.expected = r - 1 /\ EventSound(r)
    /\ frontier = IF events = <<>> THEN None
                  ELSE [revision |-> Len(events), op |-> events[Len(events)].request.op]
    /\ \A c \in Old : \E r \in DOMAIN events : c \in events[r].inputs
    /\ \A n \in DOMAIN nonces :
          nonces[n].usedBy # None => \E r \in DOMAIN events : events[r].nonce = n

\* The applied set is causally closed: a stale preparation, an equivocating actor
\* or a half-known outcome never leaves a change without its dependencies.
AppliedClosed == IsClosed(Old)

\* What the audit and the closure rest on: a preparation is closed, holds its own
\* reservation, and, while its expected revision is current, adds something to
\* everything applied so far; the last event names all the inputs.
PreparedSound ==
    \A p \in prepared :
        /\ IsClosed(p.inputs)
        /\ p.request.expected <= Len(events)
        /\ p.nonce \in DOMAIN nonces /\ nonces[p.nonce].request = p.request
        /\ p.request.expected = Len(events) => Old \subseteq p.inputs /\ Old # p.inputs
LastHoldsAll == Old = IF events = <<>> THEN {} ELSE events[Len(events)].inputs
NoncesInRange == \A r \in DOMAIN events : events[r].nonce \in DOMAIN nonces

IndInv ==
    /\ TypeOK /\ AuditValid /\ AppliedClosed
    /\ PreparedSound /\ LastHoldsAll /\ NoncesInRange

\* The applier implements the abstract causal document.
Done == {events[r].request.op : r \in DOMAIN events}
Document == INSTANCE CausalDocument WITH document <- Old, done <- Done
ImplementsDocument == Document!Spec
=============================================================================

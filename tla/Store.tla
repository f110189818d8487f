------------------------------- MODULE Store -------------------------------
(***************************************************************************)
(* The local store: one SQLite database and one directory of content       *)
(* addressed block files, owned by at most one process at a time           *)
(* (experiments/g0-store/par_store).                                       *)
(*                                                                         *)
(* A commit publishes its block files first and then inserts its rows in   *)
(* one transaction, so a crash may leave block files that no row names.    *)
(* The process may die between any two steps; the database and the block   *)
(* directory survive it.                                                   *)
(***************************************************************************)
EXTENDS Naturals, Sequences, FiniteSets

CONSTANTS
    Spaces, Objects, Actors,   \* space_id, object_id, actor_id
    Ops, Digests,              \* operation_id and input_digest
    Nonces,                    \* a (key_context, nonce) pair, which names its reservation
    Envelopes, Gens, Caches,   \* envelope_id, actor_generation, encrypted_cache
    Blocks,                    \* block_id, the hash of the block's bytes
    Prepared,                  \* the PreparedCommit values a caller may submit
    None,                      \* SQL NULL, or no row
    MaxEpoch,                  \* the largest epoch (the code's is 2^64 - 1)
    MaxFence                   \* bound on the rotations of the fence

ASSUME NoneAssumption ==
    /\ None \notin Nat
    /\ None \notin Digests \cup Envelopes \cup Caches \cup Prepared
    /\ None \notin [op : Ops, digest : Digests, consumedBy : Envelopes \cup {None}]
    /\ None \notin [gen : Gens, last : Nat, prev : Envelopes]
    /\ None \notin [p : Prepared, token : Nat, at : Nat \ {0}, part : BOOLEAN]
    /\ None \notin [kind : {"receipt", "refused", "unknown"}, p : Prepared]

\* PreparedCommit: a frozen record; its fingerprint covers every field, so two
\* records have the same fingerprint exactly when they are equal.
ASSUME PreparedAssumption ==
    Prepared \subseteq
        [op : Ops, digest : Digests, space : Spaces, object : Objects,
         actor : Actors, gen : Gens, epoch : Nat, seq : Nat \ {0},
         prev : Envelopes \cup {None}, rid : Nonces, eid : Envelopes,
         cache : Caches, blocks : Seq(Blocks)]

ASSUME BoundAssumption == MaxFence \in Nat /\ MaxEpoch \in Nat

VARIABLES
    up,         \* a process holds the writer lock and has the store open
    fence,      \* writer_fences.fencing_token; a new token is the next number
    epoch,      \* spaces.content_epoch, None where the space has no row
    intents,    \* local_operation_intents: operation -> input digest
    reserved,   \* issued_nonces and local_nonce_reservations, by nonce
    log,        \* the rows a commit inserts, in local_commit_meta.commit_order
    actors,     \* actor_states, by (space, object, actor)
    catalog,    \* catalog.encrypted_snapshot_ref, by (space, object)
    outbox,     \* outbox.state, by envelope
    files,      \* complete files of blocks/
    parts,      \* .part files that dead processes left in staging/
    call,       \* the commit the process is executing (_busy), or None
    reply,      \* what the last commit call told its caller, or None
    receipts    \* every (operation, envelope) receipt ever handed out

db == <<fence, epoch, intents, reserved, log, actors, catalog, outbox>>
disk == <<files, parts>>
told == <<reply, receipts>>
vars == <<up, db, disk, call, told>>

Chains == Spaces \X Objects \X Actors
Chain(p) == <<p.space, p.object, p.actor>>
Document(p) == <<p.space, p.object>>
Committed == {log[i] : i \in DOMAIN log}
BlockRows == UNION {{p.blocks[j] : j \in DOMAIN p.blocks} : p \in Committed}

OutboxStates == {"none", "pending", "in-flight", "rebase-required"}
Reservation == [op : Ops, digest : Digests, consumedBy : Envelopes \cup {None}]
ActorState == [gen : Gens, last : Nat, prev : Envelopes]
Call == [p : Prepared, token : Nat, at : Nat \ {0}, part : BOOLEAN]
Reply == [kind : {"receipt", "refused", "unknown"}, p : Prepared]

Init ==
    /\ up = FALSE
    /\ fence = 0
    /\ epoch = [s \in Spaces |-> None]
    /\ intents = [o \in Ops |-> None]
    /\ reserved = [n \in Nonces |-> None]
    /\ log = <<>>
    /\ actors = [k \in Chains |-> None]
    /\ catalog = [d \in Spaces \X Objects |-> None]
    /\ outbox = [e \in Envelopes |-> "none"]
    /\ files = {}
    /\ parts = 0
    /\ call = None
    /\ reply = None
    /\ receipts = {}

-----------------------------------------------------------------------------
(* The writer's life.  The lock is an flock held for the process's life:    *)
(* a second open fails with WRITER_BUSY and changes nothing.                *)

\* _writable: the store is open and no operation is in progress.
Writable == up /\ call = None

\* open: take the lock and rotate the fence.
Open ==
    /\ ~up
    /\ fence < MaxFence
    /\ up' = TRUE
    /\ fence' = fence + 1
    /\ UNCHANGED <<epoch, intents, reserved, log, actors, catalog, outbox,
                   disk, call, told>>

Close ==
    /\ Writable
    /\ up' = FALSE
    /\ UNCHANGED <<db, disk, call, told>>

\* SIGKILL: an open transaction rolls back, a .part file stays in staging/,
\* and the caller of an unfinished commit hears nothing.
Crash ==
    /\ up
    /\ up' = FALSE
    /\ call' = None
    /\ parts' = IF call # None /\ call.part THEN parts + 1 ELSE parts
    /\ reply' = IF call # None THEN None ELSE reply
    /\ UNCHANGED <<db, files, receipts>>

RotateFence ==
    /\ Writable
    /\ fence < MaxFence
    /\ fence' = fence + 1
    /\ UNCHANGED <<up, epoch, intents, reserved, log, actors, catalog, outbox,
                   disk, call, told>>

-----------------------------------------------------------------------------
(* Spaces, epochs and nonce reservations: one transaction each.             *)

\* INSERT INTO spaces: fails when the space exists.
ConfigureSpace(s, e) ==
    /\ Writable
    /\ epoch[s] = None
    /\ epoch' = [epoch EXCEPT ![s] = e]
    /\ UNCHANGED <<up, fence, intents, reserved, log, actors, catalog, outbox,
                   disk, call, told>>

\* DELETE FROM actor_states WHERE space_id=?
ActorsDropped(s) == [k \in Chains |-> IF k[1] = s THEN None ELSE actors[k]]

\* Every undelivered envelope of the space needs a rebase and every actor of
\* the space starts again at sequence 1.
AdvanceEpoch(s) ==
    /\ Writable
    /\ epoch[s] # None
    /\ epoch[s] < MaxEpoch
    /\ epoch' = [epoch EXCEPT ![s] = @ + 1]
    /\ outbox' = [e \in Envelopes |->
                    IF /\ outbox[e] \in {"pending", "in-flight"}
                       /\ \E p \in Committed : p.eid = e /\ p.space = s
                    THEN "rebase-required" ELSE outbox[e]]
    /\ actors' = ActorsDropped(s)
    /\ UNCHANGED <<up, fence, intents, reserved, log, catalog, disk, call, told>>

\* A nonce is issued once, to one operation, for that operation's one input.
ReserveNonce(o, d, n) ==
    /\ Writable
    /\ intents[o] \in {None, d}
    /\ reserved[n] = None
    /\ \A p \in Committed : p.op # o
    /\ intents' = [intents EXCEPT ![o] = d]
    /\ reserved' = [reserved EXCEPT ![n] =
                      [op |-> o, digest |-> d, consumedBy |-> None]]
    /\ UNCHANGED <<up, fence, epoch, log, actors, catalog, outbox,
                   disk, call, told>>

-----------------------------------------------------------------------------
(* The outbox. *)

MarkInflight(e) ==
    /\ Writable
    /\ outbox[e] = "pending"
    /\ outbox' = [outbox EXCEPT ![e] = "in-flight"]
    /\ UNCHANGED <<up, fence, epoch, intents, reserved, log, actors, catalog,
                   disk, call, told>>

\* What an epoch change set aside is not revived.
Recovered(state) == IF state = "in-flight" THEN "pending" ELSE state

RecoverOutbox ==
    /\ Writable
    /\ outbox' = [e \in Envelopes |-> Recovered(outbox[e])]
    /\ UNCHANGED <<up, fence, epoch, intents, reserved, log, actors, catalog,
                   disk, call, told>>

-----------------------------------------------------------------------------
(* commit: look the operation up, check, publish the blocks, insert.        *)

\* lookup_operation returns the receipt of a committed operation.
LookupOperation(p) ==
    /\ Writable
    /\ p \in Committed
    /\ receipts' = receipts \cup {<<p.op, p.eid>>}
    /\ UNCHANGED <<up, db, disk, call, reply>>

\* Mutant: an unknown outcome comes with a receipt.
ReceiptUnlessRefused(kind) == kind # "refused"
GivesReceipt(kind) == kind = "receipt"

Answer(kind, p) ==
    /\ call' = None
    /\ reply' = [kind |-> kind, p |-> p]
    /\ receipts' = IF GivesReceipt(kind)
                   THEN receipts \cup {<<p.op, p.eid>>} ELSE receipts

ContinuesChain(p) ==
    IF actors[Chain(p)] = None
    THEN p.seq = 1 /\ p.prev = None
    ELSE /\ actors[Chain(p)].gen = p.gen
         /\ actors[Chain(p)].last + 1 = p.seq
         /\ actors[Chain(p)].prev = p.prev

\* _check_state: the caller's fence, the space and its epoch, the reservation,
\* the operation's input, and the actor's chain.
CheckState(p, token) ==
    /\ token = fence
    /\ epoch[p.space] = p.epoch
    /\ reserved[p.rid] # None
    /\ reserved[p.rid].op = p.op
    /\ reserved[p.rid].consumedBy = None
    /\ intents[p.op] = p.digest
    /\ ContinuesChain(p)

\* A committed operation is answered from the ledger: the receipt for the same
\* prepared record, a conflict for any other, whatever fence the caller holds.
CommitAgain(p) ==
    /\ Writable
    /\ \E q \in Committed : q.op = p.op
    /\ Answer(IF p \in Committed THEN "receipt" ELSE "refused", p)
    /\ UNCHANGED <<up, db, disk>>

CommitRefused(p, token) ==
    /\ Writable
    /\ \A q \in Committed : q.op # p.op
    /\ ~CheckState(p, token)
    /\ Answer("refused", p)
    /\ UNCHANGED <<up, db, disk>>

CommitStart(p, token) ==
    /\ Writable
    /\ \A q \in Committed : q.op # p.op
    /\ CheckState(p, token)
    /\ call' = [p |-> p, token |-> token, at |-> 1, part |-> FALSE]
    /\ UNCHANGED <<up, db, disk, told>>

\* The running call, at another block.
At(i, part) == [p |-> call.p, token |-> call.token, at |-> i, part |-> part]

Publishing == call # None /\ call.at <= Len(call.p.blocks)

\* BlockPort.publish of a block whose file exists: it is only synced again.
PublishExisting ==
    /\ Publishing
    /\ ~call.part
    /\ call.p.blocks[call.at] \in files
    /\ call' = At(call.at + 1, FALSE)
    /\ UNCHANGED <<up, db, disk, told>>

\* BlockPort.publish of a new block: write and sync a .part file ...
PublishPart ==
    /\ Publishing
    /\ ~call.part
    /\ call.p.blocks[call.at] \notin files
    /\ call' = At(call.at, TRUE)
    /\ UNCHANGED <<up, db, disk, told>>

\* ... and rename it to its final name.
PublishRename ==
    /\ Publishing
    /\ call.part
    /\ files' = files \cup {call.p.blocks[call.at]}
    /\ call' = At(call.at + 1, FALSE)
    /\ UNCHANGED <<up, db, parts, told>>

\* The rows that PRIMARY KEY and UNIQUE constraints admit.
InsertsAdmitted(p) ==
    \A q \in Committed :
        /\ q.op # p.op
        /\ q.eid # p.eid
        /\ q.rid # p.rid
        /\ ~(Chain(q) = Chain(p) /\ q.epoch = p.epoch /\ q.seq = p.seq)

\* BEGIN IMMEDIATE ... COMMIT: check again, then insert the atomic set.
Insert(p) ==
    /\ log' = Append(log, p)
    /\ actors' = [actors EXCEPT ![Chain(p)] =
                    [gen |-> p.gen, last |-> p.seq, prev |-> p.eid]]
    /\ catalog' = [catalog EXCEPT ![Document(p)] = p.cache]
    /\ outbox' = [outbox EXCEPT ![p.eid] = "pending"]
    /\ reserved' = [reserved EXCEPT ![p.rid].consumedBy = p.eid]

Ready ==
    /\ call # None
    /\ call.at > Len(call.p.blocks)
    /\ CheckState(call.p, call.token)
    /\ InsertsAdmitted(call.p)

CommitDone ==
    /\ Ready
    /\ Insert(call.p)
    /\ Answer("receipt", call.p)
    /\ UNCHANGED <<up, fence, epoch, intents, disk>>

\* COMMIT raised, or what follows it did: the rows may be there or not, and
\* the caller is told LOCAL_OUTCOME_UNKNOWN.
CommitUnknown ==
    /\ Ready
    /\ \/ Insert(call.p)
       \/ UNCHANGED <<log, actors, catalog, outbox, reserved>>
    /\ Answer("unknown", call.p)
    /\ UNCHANGED <<up, fence, epoch, intents, disk>>

\* The process dies after COMMIT and before it answers.
CommitCrash ==
    /\ Ready
    /\ Insert(call.p)
    /\ up' = FALSE
    /\ call' = None
    /\ reply' = None
    /\ UNCHANGED <<fence, epoch, intents, disk, receipts>>

\* Any exception before COMMIT: roll back and unlink the .part file.
CommitAborted ==
    /\ call # None
    /\ Answer("refused", call.p)
    /\ UNCHANGED <<up, db, disk>>

-----------------------------------------------------------------------------
(* The audit: live state is recomputed from the committed rows.             *)

NonceBinding ==
    \A p \in Committed :
        /\ reserved[p.rid] # None
        /\ reserved[p.rid].op = p.op
        /\ reserved[p.rid].digest = p.digest
        /\ reserved[p.rid].consumedBy = p.eid
        /\ intents[p.op] = p.digest

AtomicSet ==
    \A e \in Envelopes : outbox[e] # "none" <=> \E p \in Committed : p.eid = e

BlocksReadable == BlockRows \subseteq files

\* The commits of a chain that belong to its space's current epoch.
Live(k) == {i \in DOMAIN log : Chain(log[i]) = k /\ log[i].epoch = epoch[k[1]]}

ActorStates ==
    \A k \in Chains :
        IF Live(k) = {} THEN actors[k] = None
        ELSE \E i \in Live(k) :
                /\ \A j \in Live(k) : j <= i
                /\ actors[k] = [gen |-> log[i].gen, last |-> log[i].seq,
                                prev |-> log[i].eid]

Versions(d) == {i \in DOMAIN log : Document(log[i]) = d}

CacheReference ==
    \A d \in Spaces \X Objects :
        IF Versions(d) = {} THEN catalog[d] = None
        ELSE \E i \in Versions(d) :
                /\ \A j \in Versions(d) : j <= i
                /\ catalog[d] = log[i].cache

Audit == NonceBinding /\ AtomicSet /\ BlocksReadable /\ ActorStates /\ CacheReference

\* collect_orphans: remove the block files no row names, then the .part files.
CollectOrphans ==
    /\ Writable
    /\ Audit
    /\ files' = files \cap BlockRows
    /\ parts' = 0
    /\ UNCHANGED <<up, db, call, told>>

\* The process dies while it removes them.
CollectCrash ==
    /\ Writable
    /\ Audit
    /\ \/ /\ \E gone \in SUBSET (files \ BlockRows) : files' = files \ gone
          /\ parts' = parts
       \/ /\ files' = files \cap BlockRows
          /\ parts' \in 0 .. parts
    /\ up' = FALSE
    /\ UNCHANGED <<db, call, told>>

-----------------------------------------------------------------------------
Next ==
    \/ Open \/ Close \/ Crash \/ RotateFence
    \/ \E s \in Spaces : \E e \in 0 .. MaxEpoch : ConfigureSpace(s, e)
    \/ \E s \in Spaces : AdvanceEpoch(s)
    \/ \E o \in Ops, d \in Digests, n \in Nonces : ReserveNonce(o, d, n)
    \/ \E e \in Envelopes : MarkInflight(e)
    \/ RecoverOutbox
    \/ \E p \in Prepared :
          \/ LookupOperation(p)
          \/ CommitAgain(p)
          \/ \E token \in 1 .. fence : CommitRefused(p, token) \/ CommitStart(p, token)
    \/ PublishExisting \/ PublishPart \/ PublishRename
    \/ CommitDone \/ CommitUnknown \/ CommitCrash \/ CommitAborted
    \/ CollectOrphans \/ CollectCrash

Spec == Init /\ [][Next]_vars

-----------------------------------------------------------------------------
TypeOK ==
    /\ up \in BOOLEAN
    /\ fence \in Nat
    /\ epoch \in [Spaces -> Nat \cup {None}]
    /\ intents \in [Ops -> Digests \cup {None}]
    /\ reserved \in [Nonces -> Reservation \cup {None}]
    /\ log \in Seq(Prepared)
    /\ actors \in [Chains -> ActorState \cup {None}]
    /\ catalog \in [Spaces \X Objects -> Caches \cup {None}]
    /\ outbox \in [Envelopes -> OutboxStates]
    /\ files \in SUBSET Blocks
    /\ parts \in Nat
    /\ call \in Call \cup {None}
    /\ reply \in Reply \cup {None}
    /\ receipts \in SUBSET (Ops \X Envelopes)

\* The audit the code runs before a collection and before an export finds no
\* error in any state: live rows agree with what the committed rows imply, and
\* every block a row names has its file, whatever crashed in between.
AuditValid == Audit

\* Within one epoch the commits of an actor form one unforked chain: sequence
\* numbers 1, 2, 3, ... each naming the envelope before it, under one actor
\* generation.  _check_state compares only with the last row of actor_states.
ChainsLinked ==
    \A i \in DOMAIN log :
        /\ IF log[i].seq = 1 THEN log[i].prev = None
           ELSE \E j \in 1 .. (i - 1) :
                   /\ Chain(log[j]) = Chain(log[i])
                   /\ log[j].epoch = log[i].epoch
                   /\ log[j].gen = log[i].gen
                   /\ log[j].seq + 1 = log[i].seq
                   /\ log[j].eid = log[i].prev
        /\ \A j \in DOMAIN log :
              /\ Chain(log[j]) = Chain(log[i])
              /\ log[j].epoch = log[i].epoch
              /\ log[j].seq = log[i].seq
              => j = i

\* What the outbox still offers for delivery was sealed for its space's current
\* epoch: neither a commit nor recover_outbox after a crash revives an envelope
\* that advance_epoch set aside.
OutboxCurrent ==
    \A p \in Committed :
        outbox[p.eid] \in {"pending", "in-flight"} => epoch[p.space] = p.epoch

\* A refused commit left no row and an acknowledged one did; only the
\* LOCAL_OUTCOME_UNKNOWN answer leaves the caller to look the operation up.
RepliesTruthful ==
    reply # None =>
        /\ reply.kind = "receipt" => reply.p \in Committed
        /\ reply.kind = "refused" => reply.p \notin Committed

\* A reservation, and so a nonce, seals at most one committed envelope, and an
\* operation that was prepared several times commits at most once.
CommitsDistinct ==
    \A i, j \in DOMAIN log :
        \/ log[i].op = log[j].op
        \/ log[i].rid = log[j].rid
        \/ log[i].eid = log[j].eid
        => i = j

\* Staging files outlive a call only when its process died: at most one for each
\* process that ever opened the store and is gone.
PartsBounded == IF up THEN parts < fence ELSE parts <= fence
-----------------------------------------------------------------------------
(* What the proofs add to the properties to make them inductive.            *)

\* A reservation carries its operation's recorded input, which never changes.
ReservationsBound ==
    \A n \in Nonces : reserved[n] # None =>
        intents[reserved[n].op] = reserved[n].digest

\* No commit is ahead of its space's epoch, so a new epoch starts empty.
EpochsReached ==
    \A p \in Committed : epoch[p.space] # None /\ p.epoch <= epoch[p.space]

\* A running call belongs to a live process, its operation has no row, and the
\* blocks it has gone past are in place.
CallSound ==
    call # None =>
        /\ up
        /\ \A q \in Committed : q.op # call.p.op
        /\ \A j \in DOMAIN call.p.blocks : j < call.at => call.p.blocks[j] \in files
        /\ call.part => call.at <= Len(call.p.blocks)

ReceiptsHold == \A r \in receipts : \E p \in Committed : r = <<p.op, p.eid>>

IndInv ==
    /\ TypeOK
    /\ Audit
    /\ ChainsLinked
    /\ OutboxCurrent
    /\ RepliesTruthful
    /\ CommitsDistinct
    /\ PartsBounded
    /\ ReservationsBound
    /\ EpochsReached
    /\ CallSound
    /\ ReceiptsHold

-----------------------------------------------------------------------------
\* The ledger a caller observes: the envelope of each committed operation.
LedgerView ==
    [o \in Ops |-> IF \E p \in Committed : p.op = o
                   THEN (CHOOSE p \in Committed : p.op = o).eid ELSE None]

L == INSTANCE Ledger WITH ledger <- LedgerView, acknowledged <- receipts

\* The store implements the abstract ledger: crashes, lost answers, retries
\* under a new envelope and stale callers never make an operation take effect
\* twice, change what took effect, or acknowledge what did not.
ImplementsLedger == L!Spec

\* No two receipts for one operation ever name different envelopes.
OneOutcome == L!OneOutcome
=============================================================================

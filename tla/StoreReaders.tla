---------------------------- MODULE StoreReaders ----------------------------
(***************************************************************************)
(* What is read from a BlobStore and changes nothing in it: the observer of *)
(* product/runtime_read/observer.py, the queue that AuthorityStore.pending  *)
(* offers, the attachments of an envelope, and a snapshot with the store    *)
(* that restore_snapshot makes of it.                                       *)
(*                                                                         *)
(* Each reader runs on the owner's thread between two operations (_busy),   *)
(* so it sees one state; it is an operator over that state, not an action.  *)
(* A snapshot or a restored store that fails half-way stays in a directory  *)
(* of its own that is never renamed to its destination.  Seals of the local *)
(* records, limits on their number and the observer's stamps are left out.  *)
(***************************************************************************)
EXTENDS BlobStore

-----------------------------------------------------------------------------
(* StoreObserver *)

\* Mutant: the phase that the row records is reported.
ReportedDurable(s) == auth[s].phase
\* status: the phase of the replayed history with the package this handle holds.
Reported(s) ==
    IF failed[s] # None THEN "AUTH_PERSISTENCE_UNCERTAIN"
    ELSE Status(auth[s].hist, Active(s))

\* _enter of the observer and of its owner.
ObserverEnters == Writable

\* observe: the audits pass and the space is known.
Observable(s) == ObserverEnters /\ Audit /\ AuthorityAudit /\ BlobAudit /\ auth[s] # None

ReportedEditor(s, d) == HasRole(auth[s].hist, KnownHead(auth[s].hist), d, {2})

\* writeAuthorized; what restore_snapshot made is never authorized.
WriteAuthorized(s, d) == auth[s] # None /\ Reported(s) = "ACTIVE" /\ ReportedEditor(s, d)

\* _inspect: the ledger row joined with its envelope, proof and outbox row, within
\* the observer's space, document and device.
Inspected(s, x, d, o) ==
    {p \in Committed : /\ p.op = o /\ p.space = s /\ p.object = x
                       /\ proofs[o] # None /\ proofs[o].member = d
                       /\ outbox[p.eid] # "none"}

-----------------------------------------------------------------------------
(* AuthorityStore.pending and BlobStore.attachments *)

\* pending: the queued envelopes of the epoch whose package is open.
Offered ==
    {p \in Committed : /\ outbox[p.eid] = "pending"
                       /\ auth[p.space].phase = "ACTIVE"
                       /\ ActiveFor(auth[p.space].hist, Active(p.space))
                       /\ KnownEpoch(auth[p.space].hist) = p.epoch}

\* attachments: the objects of an envelope's references, by position.
Attachments(e) == {<<r[2], r[3]>> : r \in {q \in references : q[1] = e /\ q[3] \in objects}}

-----------------------------------------------------------------------------
(* export_snapshot, restore_snapshot *)

\* export_snapshot: the store is open, idle and its audit valid.
Exports == up /\ call = None /\ Audit

\* The files of a snapshot, which validate_snapshot requires to be the ones its
\* manifest lists: the database and each block that has a row.
SnapshotBlocks == {b \in BlockRows : b \in files}

\* restore_snapshot: the database is copied as it was, with the restore flag,
\* next to the snapshot's blocks, and is opened and audited before it is
\* published; it has no session, no unfinished files and no staged artifacts.
Restored == INSTANCE BlobStore WITH
        up <- FALSE, files <- SnapshotBlocks, parts <- 0, call <- None,
        cache <- [s \in Spaces |-> None], failed <- [s \in Spaces |-> None],
        tickets <- {}, pending <- None, stage <- [f \in FileOps |-> None]

-----------------------------------------------------------------------------
\* What the readers say between two operations is true of the write path: a
\* device that observe() calls authorized gets through _authorize (no authority
\* write in doubt, its package open, no fork); every committed operation is
\* found by its own device, with the envelope it was committed as; a queued
\* envelope is offered only under the epoch its header names; and an envelope's
\* attachments are the blocks it was prepared with, in order - after any crash,
\* failed authority write, new epoch or collection of orphans.
ReadersTrue ==
    ObserverEnters =>
        /\ \A s \in Spaces, d \in Members :
              WriteAuthorized(s, d) /\ Observable(s) =>
                  failed[s] = None /\ AuthorizedWriter(auth[s].hist, Active(s), d)
        /\ \A p \in Committed :
              /\ Inspected(p.space, p.object, Header[p.eid].member, p.op) = {p}
              /\ Attachments(p.eid) = {<<i, p.blocks[i]>> : i \in DOMAIN p.blocks}
        /\ \A p \in Offered :
              Entry[Header[p.eid].head].epoch = epoch[p.space] /\ failed[p.space] = None

\* The three audits of every open() are never in error: not after a crash inside
\* a commit, an unknown outcome, a fork, a new epoch, a collection of orphans or
\* two changes that share a block.  And whatever is exported can be restored: the
\* audits that restore_snapshot runs before it publishes pass on the snapshot's
\* files, though it was taken with orphans and torn files about, or of rows that
\* still say ACTIVE.
StoreReopens == AuditsPass /\ (Exports => Restored!AuditsPass)
=============================================================================

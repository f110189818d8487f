--------------------------- MODULE AuthorityStore ---------------------------
(***************************************************************************)
(* AuthorityStore (experiments/auth-store/par_auth_store): the store of     *)
(* module Store under a durable, signed authority history in the same       *)
(* database.  BoundStorage refuses the raw configure_space, advance_epoch   *)
(* and commit; instead every change of the history moves the space's row,   *)
(* and a commit must carry a ticket that was bound to the history it was    *)
(* prepared under and is compared with it again inside the transaction.     *)
(*                                                                         *)
(* Nothing of the history stays in memory between two calls: each replays   *)
(* the row's events.  Only the opened key package is kept, in a cache that  *)
(* is valid for one revision of the row.  The two nonces of a prepared      *)
(* write's local cache and receipt records are left out.                    *)
(***************************************************************************)
EXTENDS Store, AuthorityChain

CONSTANTS
    Header,         \* the header of each envelope: [head, member, secret]
    MaxRevision,    \* bound on the revisions of a space's authority row
    MaxMaterials    \* how many materials a space may record (the code's is 1024)

VARIABLES
    auth,       \* auth_spaces, None where the space is not enrolled
    keys,       \* auth_epoch_keys: the secret of each epoch, by space
    materials,  \* auth_materials, by space
    proofs,     \* auth_commits, by operation
    cache,      \* _cache: the package opened at a revision of the row
    failed,     \* _failed: the history an unfinished write must be repeated with
    tickets,    \* the BoundWrite candidates callers hold
    pending     \* _pending: the ticket of the running commit

authdb == <<auth, keys, materials, proofs>>
session == <<cache, failed, tickets, pending>>
avars == <<vars, authdb, session>>

Epochs == 1 .. MaxEpoch

AInit ==
    /\ Init
    /\ auth = [s \in Spaces |-> None]
    /\ keys = [s \in Spaces |-> [e \in Epochs |-> None]]
    /\ materials = [s \in Spaces |-> {}]
    /\ proofs = [o \in Ops |-> None]
    /\ cache = [s \in Spaces |-> None]
    /\ failed = [s \in Spaces |-> None]
    /\ tickets = {}
    /\ pending = None

\* The package that was opened at the row's revision, if this process has it.
Active(s) ==
    IF cache[s] # None /\ cache[s].revision = auth[s].revision
    THEN cache[s].active ELSE Absent

\* A new handle, or none: seals, cache and failures belong to the handle.
Forgotten ==
    /\ cache' = [s \in Spaces |-> None]
    /\ failed' = [s \in Spaces |-> None]
    /\ tickets' = {}
    /\ pending' = None

-----------------------------------------------------------------------------
(* _persist: the row, the material, its key and the queue in one transaction *)

\* The row after history h, with package "active" open and k newly supplied.
Row(s, h, active, k) ==
    LET old == auth[s]
    IN [hist |-> h, phase |-> Status(h, active),
        revision |-> IF old = None THEN 1 ELSE old.revision + 1,
        material |-> IF k # Absent THEN k
                     ELSE IF old = None \/ KnownEpoch(old.hist) # KnownEpoch(h)
                     THEN Absent ELSE old.material]

\* The spaces row follows; a new epoch sets aside the outbox and the actors.
MovesSpace(s, h) ==
    IF auth[s] = None THEN ConfigureSpace(s, 0)
    ELSE IF KnownEpoch(h) # KnownEpoch(auth[s].hist) THEN AdvanceEpoch(s)
    ELSE Writable /\ UNCHANGED vars

Written(s, h, active, k) ==
    /\ k # Absent /\ k \notin materials[s] => Cardinality(materials[s]) < MaxMaterials
    /\ MovesSpace(s, h)
    /\ auth' = [auth EXCEPT ![s] = Row(s, h, active, k)]
    /\ keys' = IF k = Absent THEN keys
               ELSE [keys EXCEPT ![s][KnownEpoch(h)] = Package[k].secret]
    /\ materials' = IF k = Absent THEN materials ELSE [materials EXCEPT ![s] = @ \cup {k}]
    /\ UNCHANGED proofs

\* Once a write failed, at any point, only a repetition that leads to the same
\* history is tried: the first one may have been committed.
Persist(s, h, active, k) ==
    /\ failed[s] \in {None, h}
    /\ auth[s] # None => auth[s].revision < MaxRevision
    /\ \/ /\ Written(s, h, active, k)
          /\ cache' = [cache EXCEPT ![s] = [revision |-> Row(s, h, active, k).revision,
                                            active |-> active]]
          /\ failed' = [failed EXCEPT ![s] = None]
       \/ /\ \/ Written(s, h, active, k)
             \/ Writable /\ UNCHANGED <<vars, authdb>>
          /\ cache' = [cache EXCEPT ![s] = None]
          /\ failed' = [failed EXCEPT ![s] = h]
    /\ UNCHANGED <<tickets, pending>>

-----------------------------------------------------------------------------
(* enroll, observe, provide_membership, activate, reactivate                 *)

Enroll(s) == auth[s] = None /\ Persist(s, Unfounded, Absent, Absent)

\* The exact target of a failed write is already durable: its reply was lost.
Duplicate(s) ==
    /\ Writable
    /\ failed[s] = auth[s].hist
    /\ failed' = [failed EXCEPT ![s] = None]
    /\ UNCHANGED <<vars, authdb, cache, tickets, pending>>

Observe(s, c) ==
    /\ auth[s] # None
    /\ LET h == auth[s].hist
       IN \/ Knows(h, c) /\ Duplicate(s)
          \/ Forks(s, h, c) /\ Persist(s, Forked(h, c), Active(s), Absent)
          \/ Follows(s, h, c) /\ Persist(s, Followed(h, c), Active(s), Absent)

ProvideMembership(s) ==
    /\ auth[s] # None
    /\ LET h == auth[s].hist
       IN \/ ~Blocked(h) /\ h.resolved /\ Duplicate(s)
          \/ AwaitsMembership(h) /\ Persist(s, Verified(h), Active(s), Absent)

\* An epoch has one secret, and no other epoch has it.
SecretFresh(s, e, secret) ==
    /\ keys[s][e] \in {None, secret}
    /\ \A x \in Epochs \ {e} : keys[s][x] # secret

Activate(s, k) ==
    /\ auth[s] # None
    /\ Activates(auth[s].hist, k)
    /\ SecretFresh(s, KnownEpoch(auth[s].hist), Package[k].secret)
    /\ Persist(s, auth[s].hist, k, k)

Reactivate(s) ==
    /\ auth[s] # None
    /\ auth[s].material # Absent
    /\ Activate(s, auth[s].material)

-----------------------------------------------------------------------------
(* The audit, and _load's comparison of a row with the replay of its events. *)

\* _row: the spaces row moved with the authority's.
SpaceRowSound(s) == epoch[s] = KnownEpoch(auth[s].hist)

RowSound(s) ==
    LET r == auth[s]
        base == Status(r.hist, Absent)
    IN /\ ReplayAccepts(s, r.hist)
       /\ \A e \in Epochs :
             keys[s][e] # None <=> \E k \in materials[s] : Entry[Package[k].anchor].epoch = e
       /\ \A k \in materials[s] :
             /\ Knows(r.hist, Package[k].anchor)
             /\ keys[s][Entry[Package[k].anchor].epoch] = Package[k].secret
       /\ IF r.phase = "ACTIVE"
          THEN /\ base = "EPOCH_PENDING"
               /\ r.material \in materials[s]
               /\ Package[r.material].anchor = EpochAnchor(r.hist)
          ELSE base = r.phase

ProofSound(o) ==
    LET q == proofs[o]
        r == auth[q.p.space]
    IN /\ q.p \in Committed
       /\ r # None
       /\ HasRole(r.hist, q.head, q.member, {2})
       /\ Entry[q.head].epoch = q.p.epoch
       /\ q.revision <= r.revision
       /\ q.material \in materials[q.p.space]
       /\ Package[q.material].anchor = AnchorAt(r.hist, Position(r.hist, q.head))
       /\ Package[q.material].secret = Header[q.p.eid].secret
       /\ Header[q.p.eid].head = q.head

AuthorityAudit ==
    /\ \A s \in Spaces : (epoch[s] # None) <=> (auth[s] # None)
    /\ \A s \in Spaces : auth[s] # None => SpaceRowSound(s) /\ RowSound(s)
    /\ {o \in Ops : proofs[o] # None} = {p.op : p \in Committed}
    /\ \A o \in Ops : proofs[o] # None => ProofSound(o)

-----------------------------------------------------------------------------
(* The handle's life.                                                        *)

\* _check_pins, of a pin() that was taken when the row was "pin": its head is
\* still at its position, nothing went back, and the same revision has the same
\* history.
PinAccepted(r, pin) ==
    /\ r # None
    /\ r.revision >= pin.revision
    /\ Len(r.hist.chain) >= Len(pin.hist.chain)
    /\ SubSeq(r.hist.chain, 1, Len(pin.hist.chain)) = pin.hist.chain
    /\ r.revision = pin.revision => r.hist = pin.hist

\* A persisted ACTIVE is never trusted: the package has to be opened again.
Reopened(s) ==
    IF auth[s] # None /\ auth[s].phase = "ACTIVE"
    THEN Row(s, auth[s].hist, Absent, Absent) ELSE auth[s]

\* open: audit, and take back every ACTIVE row, each in a
\* transaction of its own that may fail and end the attempt.
AOpen ==
    /\ ~up
    /\ \A s \in Spaces : auth[s] # None => auth[s].revision < MaxRevision
    /\ Audit /\ AuthorityAudit
    /\ \/ /\ Open
          /\ auth' = [s \in Spaces |-> Reopened(s)]
       \/ /\ fence < MaxFence
          /\ fence' = fence + 1
          /\ \E some \in SUBSET Spaces :
                auth' = [s \in Spaces |-> IF s \in some THEN Reopened(s) ELSE auth[s]]
          /\ UNCHANGED <<up, epoch, intents, reserved, log, actors, catalog, outbox,
                         disk, call, told>>
    /\ UNCHANGED <<keys, materials, proofs, session>>

AClose == (Close \/ Crash \/ CollectCrash) /\ Forgotten /\ UNCHANGED authdb

\* What the storage underneath does without the authority.
Underneath ==
    /\ \/ RotateFence
       \/ \E e \in Envelopes : MarkInflight(e)
       \/ RecoverOutbox
       \/ CollectOrphans
       \/ PublishExisting \/ PublishPart \/ PublishRename
    /\ UNCHANGED <<authdb, session>>

-----------------------------------------------------------------------------
(* Writes: AuthenticatedWriter.prepare, AuthorityStore.commit                *)

\* _authorize and the header of the change that is to be written.
MayWrite(p) ==
    LET s == p.space
        h == auth[s].hist
        header == Header[p.eid]
    IN /\ auth[s] # None
       /\ failed[s] = None
       /\ AuthorizedWriter(h, Active(s), header.member)
       /\ p.epoch = KnownEpoch(h)
       /\ header.head = KnownHead(h)
       /\ header.secret = keys[s][KnownEpoch(h)]

Bind(p) ==
    LET r == auth[p.space]
    IN [p |-> p, head |-> KnownHead(r.hist), revision |-> r.revision,
        material |-> r.material, fence |-> fence]

\* CryptoStoreWriter: the operation is not committed; reserve a nonce and seal.
Seal(p) == epoch[p.space] = p.epoch /\ ReserveNonce(p.op, p.digest, p.rid)

\* prepare: authorize, seal, bind; an exception may end it after the reservation.
Prepare(p) ==
    /\ MayWrite(p)
    /\ Seal(p)
    /\ \/ tickets' = tickets \cup {Bind(p)}
       \/ tickets' = tickets
    /\ UNCHANGED <<authdb, cache, failed, pending>>

\* Mutant: only the epoch is compared again.
GuardEpoch(t) ==
    /\ t.fence = fence
    /\ failed[t.p.space] = None
    /\ KnownEpoch(auth[t.p.space].hist) = t.p.epoch
\* _guard: nothing the ticket was bound to has moved.
Guard(t) ==
    LET s == t.p.space
        r == auth[s]
    IN /\ t.fence = fence
       /\ failed[s] = None
       /\ r.phase = "ACTIVE"
       /\ KnownHead(r.hist) = t.head
       /\ r.revision = t.revision
       /\ r.material = t.material
       /\ cache[s] # None
       /\ cache[s].revision = r.revision
       /\ keys[s][t.p.epoch] = Header[t.p.eid].secret

CommitBound(t) ==
    /\ t \in tickets
    /\ Guard(t)
    /\ \/ CommitAgain(t.p) /\ pending' = None
       \/ CommitRefused(t.p, t.fence) /\ pending' = None
       \/ CommitStart(t.p, t.fence) /\ pending' = t
    /\ UNCHANGED <<authdb, cache, failed, tickets>>

\* auth_commits: the authority a commit was made under.
Proof(t) ==
    [head |-> t.head, revision |-> t.revision, member |-> Header[t.p.eid].member,
     material |-> t.material, p |-> t.p]

\* Inside the transaction: compare again, and record the proof with the rows.
CommitEnds ==
    /\ pending # None
    /\ \/ /\ Guard(pending)
          /\ CommitDone \/ CommitUnknown
          /\ proofs' = IF log' = log THEN proofs
                       ELSE [proofs EXCEPT ![pending.p.op] = Proof(pending)]
       \/ CommitAborted /\ proofs' = proofs
    /\ pending' = None
    /\ UNCHANGED <<auth, keys, materials, cache, failed, tickets>>

CommitDies ==
    /\ pending # None
    /\ Guard(pending)
    /\ CommitCrash
    /\ proofs' = [proofs EXCEPT ![pending.p.op] = Proof(pending)]
    /\ Forgotten
    /\ UNCHANGED <<auth, keys, materials>>

\* read_committed: the receipt, and the proof that must be beside it.
ReadCommitted(p) ==
    /\ LookupOperation(p)
    /\ proofs[p.op] # None
    /\ UNCHANGED <<authdb, session>>

-----------------------------------------------------------------------------
\* A pin that a caller took from this store is accepted by every later open():
\* no failed, repeated or half-finished authority write takes the history back.
PinsHold ==
    [][\A s \in Spaces : auth[s] # None => PinAccepted(auth'[s], auth[s])]_avars

\* A change enters the log only under the head its header names, while that head
\* is the last one known, with its members verified, no fork seen, no authority
\* write in doubt, and the epoch's package open in this process.
WritesUnderHead ==
    [][log' # log =>
         LET p == log'[Len(log')]
             r == auth[p.space]
         IN /\ failed[p.space] = None
            /\ Header[p.eid].head = KnownHead(r.hist)
            /\ AuthorizedWriter(r.hist, Active(p.space), Header[p.eid].member)]_avars
=============================================================================

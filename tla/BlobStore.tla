----------------------------- MODULE BlobStore -----------------------------
(***************************************************************************)
(* BlobStore (experiments/blob-store/par_blob_store) and FileWriter         *)
(* (experiments/blob-manifest/par_file) over AuthorityStore.  A commit with *)
(* attachments carries a signed manifest and inserts, in its transaction,   *)
(* one root, one typed object for each new block and one reference for each *)
(* position.  A file is first staged as sealed artifacts in a directory of  *)
(* its own - the intent, the chunks, then the manifest that lists them -    *)
(* and the staged artifacts become the attachments of one change.           *)
(*                                                                         *)
(* A block of a file is <<operation, position, version of the source>>,     *)
(* position 0 being the manifest.  stage() runs to its end or to any        *)
(* failure in one action: nothing else of the process runs in between, only *)
(* the source may change, before the second reading or between its chunks.  *)
(* Each artifact is sealed under a nonce of its own;*)
(* of those reservations only the intent row that the first one leaves is   *)
(* kept.  Temporary files, names and media types are left out.              *)
(***************************************************************************)
EXTENDS AuthorityStore

CONSTANTS
    FileOps, StageOp,   \* operations that write a file, and their stage operation
    Contents,           \* versions of a source file; each is its own digest
    Chunks,             \* how many chunks a file has
    BlockHeader,        \* what a block was sealed as: [space, epoch, slot]
    MaxJobs             \* max_jobs: staging directories, which nothing removes

ASSUME FileAssumption ==
    /\ FileOps \subseteq Ops
    /\ StageOp \in [FileOps -> Ops \ FileOps]
    /\ Contents \subseteq Digests
    /\ Chunks \in Nat \ {0}
    /\ \A b \in Blocks : BlockHeader[b].space \in Spaces /\ BlockHeader[b].epoch \in Nat

VARIABLES
    roots,       \* blob_commit_roots.mode, by operation
    objects,     \* blob_objects: the blocks with a typed identity
    references,  \* blob_references: envelope, position, block
    stage        \* the staging directory of each file, None before it exists

blobdb == <<roots, objects, references>>
bvars == <<avars, blobdb, stage>>

Staged == [intent : Contents \cup {None}, chunks : [1 .. Chunks -> Contents \cup {None}],
           manifest : BOOLEAN]

BInit ==
    /\ AInit
    /\ roots = [o \in Ops |-> None]
    /\ objects = {}
    /\ references = {}
    /\ stage = [f \in FileOps |-> None]

-----------------------------------------------------------------------------
(* stage *)

\* The attachments of a file: its manifest, then its chunks in order.
Parts(f, v) == <<<<f, 0, v>>>> \o [i \in 1 .. Chunks |-> <<f, i, v>>]

Empty == [intent |-> None, chunks |-> [i \in 1 .. Chunks |-> None], manifest |-> FALSE]
Directories == {f \in FileOps : stage[f] # None}

\* _all: every artifact is there and belongs to the intent.
Complete(f, v) ==
    /\ stage[f] # None
    /\ stage[f].intent = v
    /\ stage[f].manifest
    /\ \A i \in 1 .. Chunks : stage[f].chunks[i] = v

\* The intent record binds the operation to the first reading of its source.
Bound(d, v) == [d EXCEPT !.intent = v]

\* Mutant: the manifest is sealed over whatever chunks are there.
SealsManifestAny(d, v, w) == TRUE
\* The manifest follows only when the second reading found what the first did.
SealsManifest(d, v, w) == \A i \in 1 .. Chunks : w[i] = v /\ d.chunks[i] = v

\* What the directory holds after n of the chunks were read, the i-th as version
\* w[i]: one that is there is compared with the source, a missing one published.
Sealed(d, n, w) ==
    [d EXCEPT !.chunks = [i \in 1 .. Chunks |->
        IF i <= n /\ d.chunks[i] = None THEN w[i] ELSE d.chunks[i]]]
Comparable(d, n, w) == \A i \in 1 .. n : d.chunks[i] \in {None, w[i]}

\* stage: the source is read twice, as v to bind the operation and, chunk by chunk,
\* as w to seal it, and the call may stop at any artifact.
StageFile(f, v, w) ==
    LET old == IF stage[f] = None THEN Empty ELSE stage[f]
        bound == Bound(old, v)
    IN /\ Writable
       /\ old.intent \in {None, v}
       /\ ~old.manifest
       /\ \E p \in Prepared : p.op = f /\ p.digest = v /\ MayWrite(p)  \* the record holds the header
       /\ stage[f] # None \/ Cardinality(Directories) < MaxJobs
       /\ \/ /\ intents[StageOp[f]] \in {None, v}
             /\ intents' = [intents EXCEPT ![StageOp[f]] = v]
             /\ \E n \in 0 .. Chunks, whole \in BOOLEAN :
                   LET d == Sealed(bound, n, w)
                   IN /\ Comparable(bound, n, w)
                      /\ whole => n = Chunks /\ SealsManifest(d, v, w)
                      /\ stage' = [stage EXCEPT ![f] = [d EXCEPT !.manifest = whole]]
          \/ /\ intents' = IF intents[StageOp[f]] = None THEN [intents EXCEPT ![StageOp[f]] = v] ELSE intents
             /\ stage' = [stage EXCEPT ![f] = old]
       /\ UNCHANGED <<up, fence, epoch, reserved, log, actors, catalog, outbox, disk,
                      call, told, authdb, session, blobdb>>

-----------------------------------------------------------------------------
(* Writes with attachments *)

\* inspect_batch: no block and no slot is attached twice, and every block was sealed
\* for the space and the epoch of the change.
Batch(p) ==
    /\ \A i, j \in DOMAIN p.blocks :
          \/ p.blocks[i] = p.blocks[j]
          \/ BlockHeader[p.blocks[i]].slot = BlockHeader[p.blocks[j]].slot
          => i = j
    /\ \A i \in DOMAIN p.blocks :
          LET h == BlockHeader[p.blocks[i]] IN h.space = p.space /\ h.epoch = p.epoch

\* BlobWriter.prepare and FileWriter.commit: the attachments of a file are the
\* complete set of its staged artifacts.
PrepareBlob(p) ==
    /\ Prepare(p)
    /\ Batch(p)
    /\ p.op \in FileOps => \E v \in Contents : Complete(p.op, v) /\ p.blocks = Parts(p.op, v)
    /\ UNCHANGED <<blobdb, stage>>

\* _verify_blob: the manifest's signer is a member at the ticket's head.
VerifyBlob(t) == HasRole(auth[t.p.space].hist, t.head, Header[t.p.eid].member, 1 .. 3)

CommitWith(t) ==
    /\ t.p.blocks # <<>> => VerifyBlob(t)
    /\ CommitBound(t)

\* _guard inside the transaction: every block is read back.
BlocksReadBack(p) == \A i \in DOMAIN p.blocks : p.blocks[i] \in files

\* Mutant: a block that has its object row gets no second reference.
ReferencesNew(p) ==
    {<<p.eid, i, p.blocks[i]>> : i \in {j \in DOMAIN p.blocks : p.blocks[j] \notin objects}}
ReferencesOf(p) == {<<p.eid, i, p.blocks[i]>> : i \in DOMAIN p.blocks}

\* _record_commit: mode 0 is a change that a plain AuthenticatedWriter bound; it
\* has no attachments.
Record(p) ==
    /\ \E mode \in {0, 1} :
          /\ p.blocks # <<>> => mode = 1
          /\ roots' = [roots EXCEPT ![p.op] = mode]
    /\ objects' = objects \cup {p.blocks[i] : i \in DOMAIN p.blocks}
    /\ references' = references \cup ReferencesOf(p)

CommitBlob ==
    /\ CommitEnds \/ CommitDies
    /\ IF log' = log THEN UNCHANGED blobdb
       ELSE BlocksReadBack(log'[Len(log')]) /\ Record(log'[Len(log')])
    /\ UNCHANGED stage

\* The audit of attachments: the roots are those of the ledger, the batches are
\* inspected again, and references and objects are exactly what the committed changes' blocks imply.
BlobAudit ==
    /\ {o \in Ops : roots[o] # None} = {p.op : p \in Committed}
    /\ \A p \in Committed : IF roots[p.op] = 0 THEN p.blocks = <<>> ELSE Batch(p)
    /\ references = UNION {{<<p.eid, i, p.blocks[i]>> : i \in DOMAIN p.blocks} : p \in Committed}
    /\ objects = BlockRows

\* What leaves attachments and staging alone.
Elsewhere ==
    /\ \/ AOpen /\ BlobAudit
       \/ AClose \/ Underneath
       \/ \E s \in Spaces :
             \/ Enroll(s) \/ ProvideMembership(s) \/ Reactivate(s)
             \/ \E c \in Controls : Observe(s, c)
             \/ \E k \in Packages : Activate(s, k)
       \/ \E p \in Prepared : ReadCommitted(p)
       \/ \E t \in tickets : CommitWith(t)
    /\ UNCHANGED <<blobdb, stage>>

BNext ==
    \/ Elsewhere
    \/ \E p \in Prepared : PrepareBlob(p)
    \/ \E f \in FileOps, v \in Contents, w \in [1 .. Chunks -> Contents] : StageFile(f, v, w)
    \/ CommitBlob

BSpec == BInit /\ [][BNext]_bvars

-----------------------------------------------------------------------------
\* Every open() of the blob store audits the payload, the authority and the
\* attachments together.
AuditsPass == Audit /\ AuthorityAudit /\ BlobAudit

\* The reader: the first attachment is the manifest, and the chunks it lists are
\* the other attachments, in order, and make up the file it names.
Reads(p, v) == p.blocks = Parts(p.op, v)

\* A committed file is whole: all its chunks come from one version of its source,
\* the one its operation was bound to by the first reading, though the source
\* changed between or during attempts and staging was cut off and repeated.
FilesWhole ==
    /\ \A p \in Committed : p.op \in FileOps =>
          \E v \in Contents : Reads(p, v) /\ intents[StageOp[p.op]] = v
    /\ \A f \in FileOps : stage[f] # None /\ stage[f].manifest =>
          Complete(f, intents[StageOp[f]])
=============================================================================

------------------------------- MODULE Spool -------------------------------
(***************************************************************************)
(* The upload journal of the Keeper and the retirement of unfinished       *)
(* uploads.  An upload is a `.part' file that grows by acknowledged        *)
(* chunks, a `.cbor' record of the acknowledged prefix and, once it is     *)
(* retired, a `.retirement' journal.  Every handler runs alone on the      *)
(* owner's thread, one file operation per step; a kill may come between    *)
(* any two.  An OSError poisons the instance, which then refuses all work  *)
(* until it is opened again: for the files that is the same as a kill.     *)
(* Of the Keeper, the model keeps what the handlers ask of it.  Signatures *)
(* and the temporary files of atomic replacement are left out: recovery    *)
(* removes the latter first.                                               *)
(***************************************************************************)
EXTENDS Naturals, Sequences, FiniteSets, SequencesExt, FiniteSetsExt, TLC

CONSTANTS Tokens, Stage,        \* token -> [kind, lease, want, auth] of its begin command
          Byte,                 \* what a chunk may hold
          Requests,             \* signed retirement requests [id, token, auth]
          Leases, Given,        \* leases, and those their owner gives up
          Authorities,
          MaxBytes, MaxRecords, MaxRebinds, \* limits of the spool
          None

\* _shape and _grant_shape: an index upload makes its lease, an object upload
\* names one that exists; a grant is for one stage and no older authority.
StageShape(s) == s.kind \in {"index", "object"} /\ s.lease \in Leases /\ s.want \in Seq(Byte) /\ s.want # <<>> /\ s.auth \in Authorities
RequestShape(r) == r.id \in Nat /\ r.token \in Tokens /\ r.auth \in Authorities /\ r.auth >= Stage[r.token].auth
ASSUME SpoolShapes == (\A t \in Tokens : StageShape(Stage[t])) /\ (\A r \in Requests : RequestShape(r))

VARIABLES kp,      \* the Keeper: authority, lease states, tokens whose payload it holds
          meta,    \* token -> .cbor record, or None
          part,    \* token -> bytes of the .part file, or None
          journal, \* token -> .retirement journal, or None
          op,      \* the handler under way, or None
          told     \* history: token -> what a client or the host was answered about it, and
                   \* whether its record was made without asking for room
spool == <<meta, part, journal>>

Total(t) == Len(Stage[t].want)
Fresh == [acked |-> <<>>, state |-> "active"]
At(kind, pc) == op # None /\ op.kind = kind /\ op.pc = pc

SpoolInit ==
    /\ kp = [auth |-> 1, leases |-> [l \in Leases |-> IF \E t \in Tokens : Stage[t].lease = l /\ Stage[t].kind = "index" THEN "none" ELSE "reserved"],
             stored |-> {}]
    /\ meta = [t \in Tokens |-> None] /\ part = [t \in Tokens |-> None] /\ journal = [t \in Tokens |-> None]
    /\ op = None /\ told = [t \in Tokens |-> [acked |-> <<>>, done |-> {}]]

-----------------------------------------------------------------------------
(* The Keeper's side *)

Advance == op = None /\ \E a \in Authorities : a > kp.auth /\ kp' = [kp EXCEPT !.auth = a]
\* Released leases are collected later, which takes their objects.
Release(l) == op = None /\ kp.leases[l] \in {"reserved", "sealed"} /\ kp' = [kp EXCEPT !.leases[l] = "released"]
Collect(l) ==
    /\ op = None /\ kp.leases[l] = "released"
    /\ kp' = [kp EXCEPT !.leases[l] = "collected", !.stored = {t \in @ : Stage[t].lease # l \/ Stage[t].kind = "index"}]

\* _scope: the capability is current and the lease of an object is served.
InScope(t) ==
    /\ Stage[t].auth = kp.auth
    /\ Stage[t].kind = "object" => kp.leases[Stage[t].lease] \in {"reserved", "sealed"}
Uploading(t) == Stage[t].kind = "object" => kp.leases[Stage[t].lease] = "reserved"

-----------------------------------------------------------------------------
(* What is on disk *)

\* _meta: the acknowledged prefix is there; more than it only in recovery.
MetaValid(t, recover) ==
    LET m == meta[t]
    IN /\ Len(m.acked) <= Total(t)
       /\ m.state = "committed" => m.acked = Stage[t].want
       /\ \/ m.state = "committed" /\ part[t] = None
          \/ /\ part[t] # None /\ Len(part[t]) <= Total(t) /\ IsPrefix(m.acked, part[t])
             /\ recover \/ part[t] = m.acked

\* _original: the record alone, whether or not its payload is still there.
Original(t) == meta[t] # None /\ Len(meta[t].acked) <= Total(t)
\* _identity of the payload: its inode, size and digest, which its bytes stand for.
Identity(t) == part[t]

\* _validate_journal
JournalValid(t) ==
    LET j == journal[t]
    IN /\ Original(t) /\ meta[t].state = "active" /\ j.ident = meta[t].acked
       /\ Len(j.reqs) \in 1..MaxRebinds
       /\ \A i \in 1..Len(j.reqs) : j.reqs[i].token = t /\ (i > 1 => j.reqs[i - 1].auth < j.reqs[i].auth)
       /\ part[t] # None => j.phase = "INTENT" /\ Identity(t) = j.ident

Records == {t \in Tokens : meta[t] # None}
Journals == {t \in Tokens : journal[t] # None}
Tombstoned(t) == journal[t] # None /\ journal[t].phase = "TOMBSTONED"
\* The reservation of a stage lasts until it is committed or tombstoned.
ReservedBy(S) == MapThenSumSet(Total, {t \in S : meta[t].state = "active" /\ ~Tombstoned(t)})
Reserved == ReservedBy(Records)

\* _recover: what it refuses ...
RecordsAudited ==
    /\ Journals \subseteq Records /\ Cardinality(Records) <= MaxRecords
    /\ \A t \in Journals : JournalValid(t)
    /\ \A s, t \in Journals : s # t => {r.id : r \in ToSet(journal[s].reqs)} \cap {r.id : r \in ToSet(journal[t].reqs)} = {}
    /\ \A t \in Records \ Journals : MetaValid(t, TRUE)
CapacityAudited == Reserved <= MaxBytes
\* ... and what it does: tails no one was told of, payloads of committed
\* stages and parts without a record go.
Recover ==
    part' = [t \in Tokens |->
               IF t \notin Records THEN None
               ELSE IF t \in Journals \/ part[t] = None THEN part[t]
               ELSE IF meta[t].state = "committed" THEN None ELSE meta[t].acked]

-----------------------------------------------------------------------------
(* Uploading: Spool.execute *)

\* _guard_upload
Live(t) == journal[t] = None
Known(t) == meta[t] # None /\ Live(t) /\ MetaValid(t, FALSE) /\ InScope(t)

\* _begin of a new stage; a known one only answers with its progress.
BeginFits(t) == Uploading(t) /\ Cardinality(Records) < MaxRecords /\ Reserved + Total(t) <= MaxBytes
Begin(t) ==
    /\ Live(t) /\ InScope(t) /\ meta[t] = None /\ BeginFits(t)
    /\ part[t] = None  \* O_EXCL
    /\ op' = [kind |-> "begin", pc |-> "meta", t |-> t] /\ part' = [part EXCEPT ![t] = <<>>]
BeginMeta ==
    /\ At("begin", "meta")
    /\ meta' = [meta EXCEPT ![op.t] = Fresh] /\ op' = None

\* _chunk of the next byte.  One that was acknowledged is compared with the
\* file and only answered; any other offset is refused.
Chunk(t, b) ==
    /\ op = None /\ Known(t) /\ meta[t].state = "active" /\ Len(meta[t].acked) < Total(t)
    /\ part' = [part EXCEPT ![t] = Append(@, b)] /\ op' = [kind |-> "chunk", pc |-> "meta", t |-> t]
ChunkMeta ==
    /\ At("chunk", "meta")
    /\ meta' = [meta EXCEPT ![op.t].acked = part[op.t]] /\ op' = None

\* _finalize: the Keeper first, then the marker, then the payload goes.  The
\* Keeper's reserve and put are idempotent, so a stage whose marker was lost
\* is handed over again.
KeeperTakes(t) ==
    LET l == Stage[t].lease
    IN IF Stage[t].kind = "index"
       THEN kp' = [kp EXCEPT !.stored = @ \cup {t}, !.leases[l] = IF @ = "none" THEN "reserved" ELSE @]
       ELSE kp' = [kp EXCEPT !.stored = @ \cup {t}]
\* Mutant: the marker is written before the Keeper has the payload.
FinalizeMarks(t) ==
    /\ op = None /\ Known(t) /\ meta[t].state = "active" /\ meta[t].acked = Stage[t].want
    /\ op' = [kind |-> "finalize", pc |-> "meta", t |-> t] /\ UNCHANGED kp
Finalize(t) ==
    /\ op = None /\ Known(t) /\ meta[t].state = "active"
    /\ meta[t].acked = Stage[t].want  \* STAGE_INCOMPLETE, OBJECT_HASH
    /\ KeeperTakes(t) /\ op' = [kind |-> "finalize", pc |-> "meta", t |-> t]
FinalizeMeta ==
    /\ At("finalize", "meta")
    /\ meta' = [meta EXCEPT ![op.t].state = "committed"] /\ op' = [op EXCEPT !.pc = "unlink"]
FinalizeUnlink ==
    /\ At("finalize", "unlink")
    /\ part' = [part EXCEPT ![op.t] = None] /\ op' = None

Seal(l) ==
    /\ op = None /\ kp.leases[l] = "reserved" /\ \E t \in kp.stored : Stage[t].lease = l /\ Stage[t].kind = "object" /\ Stage[t].auth = kp.auth
    /\ \A t \in Tokens : Stage[t].lease = l => t \in kp.stored
    /\ kp' = [kp EXCEPT !.leases[l] = "sealed"]

-----------------------------------------------------------------------------
(* Retiring: RetiringSpool.retire and rebind *)

\* _unique
Unique(r) == \A t \in Journals : \A q \in ToSet(journal[t].reqs) : q.id = r.id => q = r
\* _locate
Locate(r) == meta[r.token] # None /\ r.auth = kp.auth /\ meta[r.token].state = "active" /\ Unique(r)

RetireIntent(r) ==
    /\ Locate(r) /\ Live(r.token) /\ MetaValid(r.token, FALSE)
    /\ journal' = [journal EXCEPT ![r.token] = [reqs |-> <<r>>, phase |-> "INTENT", ident |-> Identity(r.token)]]
    /\ op' = [kind |-> "retire", pc |-> "unlink", t |-> r.token]
\* The same request goes on where the last attempt stopped; another one needs
\* a rebind.
RetireResume(r) ==
    /\ op = None /\ Locate(r) /\ ~Live(r.token) /\ JournalValid(r.token) /\ Last(journal[r.token].reqs) = r
    /\ journal[r.token].phase # "TOMBSTONED"
    /\ op' = [kind |-> "retire", t |-> r.token, pc |-> IF journal[r.token].phase = "INTENT" THEN "unlink" ELSE "credit"]
RetireUnlink ==
    /\ At("retire", "unlink")
    /\ part' = [part EXCEPT ![op.t] = None] /\ op' = [op EXCEPT !.pc = "removed"]
RetireRemoved ==
    /\ At("retire", "removed")
    /\ journal' = [journal EXCEPT ![op.t].phase = "PAYLOAD_REMOVED"] /\ op' = [op EXCEPT !.pc = "credit"]
RetireCredit ==
    /\ At("retire", "credit") /\ JournalValid(op.t)
    /\ journal' = [journal EXCEPT ![op.t].phase = "TOMBSTONED"]
    /\ told' = [told EXCEPT ![op.t].done = (@ \ {"unasked"}) \cup {"retired"}] /\ op' = None

Rebind(r) ==
    /\ op = None /\ Locate(r) /\ ~Live(r.token) /\ JournalValid(r.token)
    /\ ~Tombstoned(r.token) /\ Len(journal[r.token].reqs) < MaxRebinds
    /\ Last(journal[r.token].reqs).auth < r.auth
    /\ journal' = [journal EXCEPT ![r.token].reqs = Append(@, r)]

-----------------------------------------------------------------------------
(* Properties *)

\* The payload bytes of some stages on disk.
HeldBy(S) == MapThenSumSet(LAMBDA t : IF part[t] = None THEN 0 ELSE Len(part[t]), S)
=============================================================================

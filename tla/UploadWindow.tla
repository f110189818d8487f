---------------------------- MODULE UploadWindow ----------------------------
(***************************************************************************)
(* Replay windows around the upload spool, and the host that serves them.  *)
(* Every command is signed for one window.  A window is opened by its      *)
(* issuer, admits uploads, is closed over an audit archive of exactly its  *)
(* terminal records, and is cleaned by unlinking what the archive holds,   *)
(* after which the next one may open.  Data commands arrive over           *)
(* connections; retirements, closing and cleaning are the trusted host's.  *)
(* One connection is enough to let any administration happen while an      *)
(* answer is still to be sent.                                             *)
(***************************************************************************)
EXTENDS Spool

CONSTANTS MaxWindows, MaxArchive \* windows; records all archives may hold

VARIABLES bound,    \* token -> window its .bound file is signed for, or None
          rows,     \* STATE.cbor: the windows so far, [phase, archive]
          archives, \* window -> archive file, or None
          approved, \* the export and the closing approval the host holds, or None
          conn      \* an answer not sent yet, or None
uvars == <<kp, meta, part, journal, op, told, bound, rows, archives, approved, conn>>

Window == Len(rows)
Phase == IF rows = <<>> THEN "EMPTY" ELSE Last(rows).phase
Archived == IF Window = 0 THEN None ELSE archives[Window]
Bound == {t \in Tokens : bound[t] # None}

Init ==
    /\ SpoolInit /\ bound = [t \in Tokens |-> None] /\ rows = <<>> /\ archives = [w \in 1..MaxWindows |-> None]
    /\ approved = None /\ conn = None

-----------------------------------------------------------------------------
(* What is on disk *)

\* _files and _capture: every record file of a stage, with its contents.
Files == {<<"bound", t, bound[t]>> : t \in Bound} \cup {<<"meta", t, meta[t]>> : t \in Records} \cup {<<"journal", t, journal[t]>> : t \in Journals}

\* check_archive: whole groups of files, each of a terminal stage.
ArchiveValid(a) ==
    \A t \in {f[2] : f \in a} :
        LET of(kind) == {f[3] : f \in {g \in a : g[1] = kind /\ g[2] = t}}
        IN /\ Cardinality(of("bound")) = 1 /\ Cardinality(of("meta")) = 1
           /\ \A m \in of("meta") : IF m.state = "committed" THEN of("journal") = {} ELSE \E j \in of("journal") : j.phase = "TOMBSTONED"

\* _layout: an archive for every window but an open one, which may have it.
LayoutValid ==
    \A w \in 1..MaxWindows :
        IF w > Window THEN archives[w] = None
        ELSE /\ archives[w] = None => rows[w].phase = "OPEN"
             /\ archives[w] # None => ArchiveValid(archives[w]) /\ (rows[w].phase # "OPEN" => rows[w].archive = archives[w])

\* _audit_live
LiveValid ==
    CASE Phase \in {"EMPTY", "CLEANED"} -> Files = {}
      [] Phase = "CLOSED" -> Files \subseteq Archived
      [] Phase = "OPEN" -> Records \subseteq Bound /\ Cardinality(Bound) <= MaxRecords /\ \A t \in Bound : bound[t] = Window

-----------------------------------------------------------------------------
(* Admission *)

\* Mutant: a command is taken whatever window it was signed for.
AdmitAny(w) == op = None /\ Phase = "OPEN" /\ Archived = None /\ LiveValid
\* _admit: not once the archive is there, although STATE still says OPEN.
Admit(w) == op = None /\ Phase = "OPEN" /\ Archived = None /\ LiveValid /\ w = Window

\* _admission_capacity: the record, the bytes and the audit space it may need.
Spent == MapThenSumSet(LAMBDA w : IF archives[w] = None THEN 0 ELSE Cardinality({f[2] : f \in archives[w]}), 1..MaxWindows)
AdmissionFits(t) ==
    /\ Cardinality(Bound) < MaxRecords /\ Reserved + Total(t) <= MaxBytes /\ Uploading(t)
    /\ Cardinality(Bound) + 1 + Spent <= MaxArchive

\* Server._accept and _dispatch: the hello names the open window and the
\* request repeats it, so the command is for the window that admits it.  An
\* error is answered and changes nothing.
Requested == conn = None
Disconnect ==
    /\ op = None /\ conn # None /\ conn' = None
    /\ UNCHANGED <<kp, meta, part, journal, op, told, bound, rows, archives, approved>>

\* Spool.stamp behind ReplaySpool.stamp.
StampHolds(w, t) == Admit(w) /\ Live(t) /\ InScope(t)
Stamp(t) == <<kp.auth, kp.leases[Stage[t].lease]>>
\* What is known of a stage when its command is done.
Answer(t, fact) == conn' = [window |-> Window, token |-> t, fact |-> fact, stamp |-> Stamp(t)]
\* _write: sent only while the stamp is what it was.
Send ==
    /\ conn # None /\ op = None /\ conn' = None
    /\ LET t == conn.token
       IN IF StampHolds(conn.window, t) /\ Stamp(t) = conn.stamp
          THEN told' = [told EXCEPT ![t] = [acked |-> conn.fact.acked, done |-> IF conn.fact.state = "committed" THEN @.done \cup {"committed"} ELSE @.done]]
          ELSE UNCHANGED told
    /\ UNCHANGED <<kp, meta, part, journal, op, bound, rows, archives, approved>>

-----------------------------------------------------------------------------
(* ReplaySpool.execute *)

\* begin: the binding goes first, the schema2 begin after it.
Bind(w, t) ==
    /\ Requested /\ Admit(w) /\ Live(t) /\ InScope(t) /\ bound[t] = None /\ AdmissionFits(t)
    /\ bound' = [bound EXCEPT ![t] = w] /\ op' = [kind |-> "bind", pc |-> "begin", t |-> t]
    /\ UNCHANGED <<kp, spool, told, rows, archives, approved, conn>>
BeginStage(w, t) ==
    /\ Requested
    /\ (At("bind", "begin") /\ op.t = t) \/ (Admit(w) /\ bound[t] = w)
    /\ Begin(t) /\ UNCHANGED <<kp, meta, journal, told, bound, rows, archives, approved, conn>>
BeginDone ==
    /\ BeginMeta /\ Answer(op.t, Fresh)
    /\ UNCHANGED <<kp, part, journal, told, bound, rows, archives, approved>>
\* A repeated begin, progress and a repeated chunk or finalization.
Repeat(w, t) ==
    /\ Requested /\ Admit(w) /\ bound[t] = w /\ Known(t)
    /\ meta[t].state = "committed" => t \in kp.stored
    /\ Answer(t, meta[t])
    /\ UNCHANGED <<kp, spool, op, told, bound, rows, archives, approved>>
ChunkStage(w, t, b) ==
    /\ Requested /\ Admit(w) /\ bound[t] # None /\ Chunk(t, b)
    /\ UNCHANGED <<kp, meta, journal, told, bound, rows, archives, approved, conn>>
ChunkDone ==
    /\ ChunkMeta /\ Answer(op.t, [meta[op.t] EXCEPT !.acked = part[op.t]])
    /\ UNCHANGED <<kp, part, journal, told, bound, rows, archives, approved>>
FinalizeStage(w, t) ==
    /\ Requested /\ Admit(w) /\ bound[t] # None /\ Finalize(t)
    /\ UNCHANGED <<spool, told, bound, rows, archives, approved, conn>>
FinalizeMark == FinalizeMeta /\ UNCHANGED <<kp, part, journal, told, bound, rows, archives, approved, conn>>
FinalizeDone ==
    /\ FinalizeUnlink /\ Answer(op.t, meta[op.t])
    /\ UNCHANGED <<kp, meta, journal, told, bound, rows, archives, approved>>
SealLease(w, l) ==
    /\ Requested /\ Admit(w) /\ Seal(l)
    /\ UNCHANGED <<spool, op, told, bound, rows, archives, approved, conn>>

\* retire and rebind, wrapped for the window by the host.  A binding whose
\* upload never began gets an empty record first: no capability is asked for
\* and no capacity.
Abandon(w, r) ==
    /\ Admit(w) /\ bound[r.token] # None /\ meta[r.token] = None /\ r.auth = kp.auth
    /\ part[r.token] \in {None, <<>>} /\ part' = [part EXCEPT ![r.token] = <<>>]
    /\ op' = [kind |-> "abandon", pc |-> "meta", t |-> r.token, r |-> r]
    /\ UNCHANGED <<kp, meta, journal, told, bound, rows, archives, approved, conn>>
AbandonMeta ==
    /\ At("abandon", "meta") /\ meta' = [meta EXCEPT ![op.t] = Fresh] /\ op' = [op EXCEPT !.pc = "intent"]
    /\ told' = [told EXCEPT ![op.t].done = @ \cup {"unasked"}]
    /\ UNCHANGED <<kp, part, journal, bound, rows, archives, approved, conn>>
RetireStage(w, r) ==
    /\ (Admit(w) /\ bound[r.token] # None) \/ (At("abandon", "intent") /\ op.r = r)
    /\ RetireIntent(r) \/ (RetireResume(r) /\ UNCHANGED journal)
    /\ UNCHANGED <<kp, meta, part, told, bound, rows, archives, approved, conn>>
\* The abandoned record stays active when the intent is refused.
AbandonRefused ==
    /\ At("abandon", "intent") /\ ~Locate(op.r) /\ op' = None
    /\ UNCHANGED <<kp, spool, told, bound, rows, archives, approved, conn>>
RetireStep ==
    /\ \/ RetireUnlink /\ UNCHANGED <<journal, told>>
       \/ RetireRemoved /\ UNCHANGED <<part, told>>
       \/ RetireCredit /\ UNCHANGED part
    /\ UNCHANGED <<kp, meta, bound, rows, archives, approved, conn>>
RebindStage(w, r) ==
    /\ Admit(w) /\ bound[r.token] # None /\ Rebind(r)
    /\ UNCHANGED <<kp, meta, part, op, told, bound, rows, archives, approved, conn>>

-----------------------------------------------------------------------------
(* Windows *)

OpenWindow ==
    /\ op = None /\ Phase \in {"EMPTY", "CLEANED"} /\ LiveValid /\ Window < MaxWindows
    /\ rows' = Append(rows, [phase |-> "OPEN", archive |-> None])
    /\ told' = [t \in Tokens |-> [acked |-> <<>>, done |-> {}]]
    /\ UNCHANGED <<kp, spool, op, bound, archives, approved, conn>>

\* _terminal_entries: every bound stage retired or handed over, and what was
\* handed over is still with the Keeper.
Terminal ==
    /\ LiveValid /\ Records = Bound
    /\ \A t \in Records :
          /\ Tombstoned(t) \/ (meta[t].state = "committed" /\ t \in kp.stored)
          /\ part[t] = None

\* export_archive and approve_close: the issuer approves these very files.
Export ==
    /\ op = None /\ Phase = "OPEN" /\ Terminal
    /\ approved' = [window |-> Window, auth |-> kp.auth, archive |-> Files]
    /\ UNCHANGED <<kp, spool, op, told, bound, rows, archives, conn>>
CloseArchive ==
    /\ op = None /\ Phase = "OPEN" /\ approved # None /\ approved.window = Window /\ approved.auth = kp.auth
    /\ Terminal /\ approved.archive = Files /\ Archived \in {None, Files}
    /\ archives' = [archives EXCEPT ![Window] = Files] /\ op' = [kind |-> "close", pc |-> "barrier", t |-> None]
    /\ UNCHANGED <<kp, spool, told, bound, rows, approved, conn>>
CloseBarrier ==
    /\ At("close", "barrier") /\ Terminal /\ Files = approved.archive
    /\ rows' = [rows EXCEPT ![Window] = [phase |-> "CLOSED", archive |-> Files]]
    /\ op' = None /\ approved' = None /\ UNCHANGED <<kp, spool, told, bound, archives, conn>>

\* compact: names sort bindings before records.
Compact ==
    /\ op = None /\ Phase = "CLOSED" /\ Files \subseteq Archived
    /\ op' = [kind |-> "compact", pc |-> "unlink", t |-> None]
    /\ UNCHANGED <<kp, spool, told, bound, rows, archives, approved, conn>>
CompactUnlink ==
    /\ At("compact", "unlink")
    /\ \/ \E t \in Bound : bound' = [bound EXCEPT ![t] = None] /\ UNCHANGED <<meta, journal>>
       \/ Bound = {} /\ \E t \in Records : meta' = [meta EXCEPT ![t] = None] /\ UNCHANGED <<bound, journal>>
       \/ Bound = {} /\ \E t \in Journals \ Records : journal' = [journal EXCEPT ![t] = None] /\ UNCHANGED <<bound, meta>>
    /\ UNCHANGED <<kp, part, op, told, rows, archives, approved, conn>>
CompactDone ==
    /\ At("compact", "unlink") /\ Files = {}
    /\ rows' = [rows EXCEPT ![Window].phase = "CLEANED"] /\ op' = None
    /\ UNCHANGED <<kp, spool, told, bound, archives, approved, conn>>

-----------------------------------------------------------------------------
(* __init__ after a kill or a poisoned instance.  An open window's spool is
   recovered, which refuses reservations over the limit. *)
Opens == LayoutValid /\ LiveValid /\ (Phase = "OPEN" => RecordsAudited /\ CapacityAudited)
Reopen ==
    /\ Opens
    /\ IF Phase = "OPEN" THEN Recover ELSE UNCHANGED part
    /\ op' = None /\ conn' = None
    /\ UNCHANGED <<kp, meta, journal, told, bound, rows, archives, approved>>

KeeperStep ==
    /\ Advance \/ \E l \in Given : Release(l) \/ Collect(l)
    /\ UNCHANGED <<meta, part, journal, op, told, bound, rows, archives, approved, conn>>

Next ==
    \/ KeeperStep \/ Reopen \/ Disconnect \/ Send
    \/ \E w \in 1..MaxWindows, t \in Tokens :
          Bind(w, t) \/ BeginStage(w, t) \/ Repeat(w, t) \/ FinalizeStage(w, t) \/ \E b \in Byte : ChunkStage(w, t, b)
    \/ BeginDone \/ ChunkDone \/ FinalizeMark \/ FinalizeDone
    \/ \E w \in 1..MaxWindows, l \in Leases : SealLease(w, l)
    \/ \E w \in 1..MaxWindows, r \in Requests : Abandon(w, r) \/ RetireStage(w, r) \/ RebindStage(w, r)
    \/ AbandonMeta \/ AbandonRefused \/ RetireStep
    \/ OpenWindow \/ Export \/ CloseArchive \/ CloseBarrier \/ Compact \/ CompactUnlink \/ CompactDone

Spec == Init /\ [][Next]_uvars

-----------------------------------------------------------------------------
(* Properties *)

\* The record of a stage as it stands: in the spool, or in the archive once
\* the window is closed.
Outcome(t) ==
    IF Phase \in {"CLOSED", "CLEANED"}
    THEN [metas |-> {f[3] : f \in {g \in Archived : g[1] = "meta" /\ g[2] = t}},
          journals |-> {f[3] : f \in {g \in Archived : g[1] = "journal" /\ g[2] = t}}]
    ELSE [metas |-> {meta[t]} \ {None}, journals |-> {journal[t]} \ {None}]

\* The stages whose record was made by a retirement, of an upload that never began.
Unasked == {t \in Tokens : "unasked" \in told[t].done}

\* Whatever file operation a kill interrupts, in whichever window, the audits
\* of __init__ and of the spool's recovery accept every record they find.  The
\* reservations that recovery adds up last, and the payloads on disk, never
\* exceed the byte limit, although stages are committed, retired in three steps
\* and interrupted at will: no reservation is given back before its payload is
\* gone.  Only the record that a retirement makes for a binding whose upload never
\* began asks for no room, so only with such a record may the store not open again.
RecordsReopen ==
    /\ LayoutValid /\ LiveValid /\ (Phase = "OPEN" => RecordsAudited)
    /\ ReservedBy(Records \ Unasked) <= MaxBytes
    /\ op = None => HeldBy(Tokens \ Unasked) <= MaxBytes

\* What a client or the host was answered about a stage stays true: an
\* acknowledged prefix is never lost or replaced, a commitment is only
\* marked when the Keeper has the payload (or its lease was given up), and a
\* retired stage stays retired, through kills, retries, closing and cleaning.
AcknowledgedKept ==
    \A t \in Tokens :
        LET o == Outcome(t)
        IN /\ told[t].acked # <<>> => \E m \in o.metas : IsPrefix(told[t].acked, m.acked)
           /\ "committed" \in told[t].done => \E m \in o.metas : m.state = "committed"
           /\ "retired" \in told[t].done => part[t] = None /\ \E j \in o.journals : j.phase = "TOMBSTONED"
           /\ \A m \in o.metas : m.state = "committed" => t \in kp.stored \/ kp.leases[Stage[t].lease] = "collected"
=============================================================================

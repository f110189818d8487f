----------------------------- MODULE Migration -----------------------------
(***************************************************************************)
(* The local store migration (product/wp14/par_migration): a plan bound to *)
(* the content of the source generation, a verified backup, a shadow built *)
(* from it, publication by rename and the switch of ACTIVE.json, resumed    *)
(* from whatever files an interrupted run left.                            *)
(*                                                                         *)
(* A plan's digest depends on the source content only, so the work         *)
(* directory and the target generation are named by that content.  A run   *)
(* holds .migration.lock (a second one is refused), a killed process       *)
(* releases it; a writer of the source takes the same lock.  Paths,        *)
(* permissions, capacity and the byte formats are left out.                *)
(***************************************************************************)
EXTENDS Naturals, FiniteSets

CONSTANTS Contents,  \* source databases: [kept, signed], signed a set of source rows
          Notes,     \* what plans of one content differ in: observedAt, availableBytes
          Supported, \* SUPPORTED_CODECS
          MaxStops,  \* bound on interrupted runs
          None, Torn

VARIABLES source,  \* content of the source generation
          active,  \* ACTIVE.json: the content named and whether it is the target
          targets, \* content -> published generation, or None
          work,    \* content -> work directory
          plans,   \* plans made and kept by callers
          run,     \* the run holding the lease: [plan, pc, goal], or None
          stops    \* interrupted runs so far

vars == <<source, active, targets, work, plans, run, stops>>

Plans == [content : Contents, note : Notes]

\* STAGES, by index: PLANNED, BACKUP_VERIFIED, SHADOW_BUILT, SHADOW_VERIFIED,
\* PUBLISHED, ACTIVATED.
Stages == 0..5

EmptyWork == [plan |-> None, journal |-> None, backupPending |-> None, backup |-> None,
              shadowPending |-> None, shadow |-> None, temp |-> None]

Init ==
    /\ source \in Contents /\ active = [target |-> FALSE, content |-> source]
    /\ targets = [c \in Contents |-> None]
    /\ work = [c \in Contents |-> EmptyWork]
    /\ plans = {} /\ run = None /\ stops = 0

-----------------------------------------------------------------------------
(* The converter *)

\* _expected_signed_rows: what cannot be interpreted is kept but claims nothing.
\* Mutant: its claims are kept.
ExpectedClaimed(r) ==
    [id |-> r.id, codec |-> r.codec, mandatory |-> r.mandatory, bytes |-> r.bytes,
     applied |-> r.applied, ack |-> r.ack, resigned |-> r.resigned,
     status |-> IF r.codec \in Supported THEN "PRESERVED" ELSE "UPGRADE_REQUIRED"]
Expected(r) ==
    LET known == r.codec \in Supported
    IN [id |-> r.id, codec |-> r.codec, mandatory |-> r.mandatory, bytes |-> r.bytes,
        applied |-> known /\ r.applied,
        ack |-> IF known THEN r.ack ELSE IF r.mandatory THEN "BLOCKED" ELSE "OPAQUE",
        resigned |-> known /\ r.resigned,
        status |-> IF known THEN "PRESERVED" ELSE IF r.mandatory THEN "UPGRADE_REQUIRED" ELSE "OPAQUE_OPTIONAL"]

\* _build_database: ledger, outbox, drafts and seed as they are.
Build(backup) == [kept |-> backup.kept, signed |-> {Expected(r) : r \in backup.signed}]

\* A missing or half-written file is none of the contents.
ASSUME NoContent ==
    /\ None # Torn /\ {None, Torn} \cap (Contents \cup Plans \cup Stages) = {}
    /\ \A c \in Contents : Build(c) \notin {None, Torn}

\* verify_backup: a complete directory that reads back as the planned source.
BackupVerified(c) == work[c].backup = c

\* verify_shadow of a shadow or published directory: database and manifest are
\* there, and the rows are those the backup converts to.
Complete(db) == db \notin {None, Torn}
Validated(c, db) == db = Build(work[c].backup)
Verified(c, db) == BackupVerified(c) /\ Complete(db) /\ Validated(c, db)

\* open_active_readonly, on what ACTIVE.json names.
Opens(pointer) ==
    IF pointer.target THEN targets[pointer.content] = Build(pointer.content)
    ELSE source = pointer.content

-----------------------------------------------------------------------------
(* Steps of the run.  A check that fails raises and releases the lease;     *)
(* where the files of this model cannot make it fail it is a mere guard.    *)

C == run.plan.content
At(pc) == run # None /\ run.pc = pc

\* The run goes on at pc, once the journal has reached goal.
Go(pc, goal) == run' = [run EXCEPT !.pc = pc, !.goal = goal]
Fail == run' = None

\* write_json_atomic: the old content or the new one, never half of it.
Replaces(field, value) == work' = [work EXCEPT ![C][field] = value]

\* _advance_to: one durable replacement per stage.
Behind == run # None /\ run.goal # None /\ work[C].journal < run.goal
Advance ==
    /\ Behind
    /\ Replaces("journal", work[C].journal + 1)
    /\ UNCHANGED <<source, active, targets, plans, run, stops>>

Ready(pc) == At(pc) /\ ~Behind
Store == <<source, active, targets, plans, stops>>
Files == <<Store, work>>
Put(field, value) == work' = [work EXCEPT ![C][field] = value]

\* _require_source_active and _verify_current_source.  Mutant: with a
\* backup there, the source is not looked at again.
SourceHolds(c) == source = c
VerifyCurrentSource(c) == active.content = c /\ SourceHolds(c)
SourceTrusted(c) == ~active.target /\ (VerifyCurrentSource(c) \/ BackupVerified(c))
SourceActive(c) == ~active.target /\ VerifyCurrentSource(c)
TargetActive(c) == active.target /\ active.content = c

Start(p) ==
    /\ run = None /\ p \in plans
    /\ run' = [plan |-> p, pc |-> "begin", goal |-> None]
    /\ UNCHANGED Files

\* _run_migration_locked up to the backup.
Begin ==
    /\ At("begin")
    /\ IF TargetActive(C) /\ Verified(C, targets[C]) THEN Go("done", 5)
       ELSE IF SourceActive(C) THEN Go("plan", None)
       ELSE Fail
    /\ UNCHANGED Files

\* write_json_exclusive: the file exists before its content is written.
Creates(field, writing) == work[C][field] = None /\ Put(field, Torn) /\ Go(writing, None)
Writes(field, value, next) == Put(field, value) /\ Go(next, None)

\* The file there is read back: the same plan, a readable journal.
Keeps(field, good, next) ==
    /\ work[C][field] # None
    /\ IF good THEN Go(next, None) ELSE Fail
    /\ UNCHANGED work

\* MigrationJournal.initialize
InitPlan ==
    /\ At("plan") /\ UNCHANGED Store
    /\ Creates("plan", "plan.write") \/ Keeps("plan", work[C].plan = run.plan, "journal")
WritePlan == At("plan.write") /\ Writes("plan", run.plan, "journal") /\ UNCHANGED Store
InitJournal ==
    /\ At("journal") /\ UNCHANGED Store
    /\ Creates("journal", "journal.write") \/ Keeps("journal", work[C].journal # Torn, "backup")
WriteJournal == At("journal.write") /\ Writes("journal", 0, "backup") /\ UNCHANGED Store

\* remove_owned_tree of what an earlier run left, and a directory to fill.
Anew(field) == Put(field, Torn)

\* create_verified_backup: an earlier backup is verified, an earlier pending
\* tree is removed before the copy.
\* Mutant: it is not removed.
BackupOverPending ==
    /\ At("backup") /\ UNCHANGED Store
    /\ IF work[C].backup = None /\ work[C].backupPending = None THEN Put("backupPending", Torn) /\ Go("copy", None)
       ELSE UNCHANGED work /\ IF BackupVerified(C) THEN Go("target", 1) ELSE Fail
Backup ==
    /\ At("backup") /\ UNCHANGED Store
    /\ IF work[C].backup = None THEN Anew("backupPending") /\ Go("copy", None)
       ELSE BackupVerified(C) /\ Go("target", 1) /\ UNCHANGED work
CopyBackup == At("copy") /\ Writes("backupPending", source, "readback") /\ UNCHANGED Store

\* Readback, manifest, rename.
RenameBackup ==
    /\ At("readback") /\ work[C].backupPending = C
    /\ work' = [work EXCEPT ![C].backup = C, ![C].backupPending = None]
    /\ Go("target", 1) /\ UNCHANGED Store

\* A target that exists is verified; otherwise the shadow is built.
Target ==
    /\ Ready("target") /\ UNCHANGED Files
    /\ IF targets[C] = None THEN Go("shadow", 1) ELSE Verified(C, targets[C]) /\ Go("recheck", 4)

\* build_shadow
Shadow ==
    /\ Ready("shadow") /\ UNCHANGED Store
    /\ IF work[C].shadow = None THEN Anew("shadowPending") /\ Go("build", 1)
       ELSE Verified(C, work[C].shadow) /\ Put("shadowPending", None) /\ Go("publish", 3)
BuildShadow == At("build") /\ Writes("shadowPending", Build(work[C].backup), "rename") /\ UNCHANGED Store
RenameShadow ==
    /\ At("rename") /\ Verified(C, work[C].shadowPending)
    /\ work' = [work EXCEPT ![C].shadow = work[C].shadowPending, ![C].shadowPending = None]
    /\ Go("verify", 2) /\ UNCHANGED Store
VerifyShadow == Ready("verify") /\ Verified(C, work[C].shadow) /\ Go("publish", 3) /\ UNCHANGED Files

Publish ==
    /\ Ready("publish") /\ SourceActive(C)
    /\ targets' = [targets EXCEPT ![C] = work[C].shadow]
    /\ Put("shadow", None) /\ Go("published", None)
    /\ UNCHANGED <<source, active, plans, stops>>
Published == At("published") /\ Verified(C, targets[C]) /\ Go("recheck", 4) /\ UNCHANGED Files

\* _switch_pointer: the temporary is this migration's own, removed if left over.
OwnTemp == Put("temp", Torn)
Recheck == Ready("recheck") /\ SourceActive(C) /\ OwnTemp /\ Go("temp", 4) /\ UNCHANGED Store
WriteTemp == At("temp") /\ Writes("temp", targets[C], "replace") /\ UNCHANGED Store
Replace ==
    /\ At("replace")
    /\ active' = [target |-> TRUE, content |-> C]
    /\ Put("temp", None) /\ Go("done", 5)
    /\ UNCHANGED <<source, targets, plans, stops>>
Done == Ready("done") /\ TargetActive(C) /\ Verified(C, targets[C]) /\ Fail /\ UNCHANGED Files

-----------------------------------------------------------------------------
(* Callers and crashes *)

\* plan_migration reads only; a version-2 store is refused.
Plan(n) ==
    /\ ~active.target /\ active.content = source
    /\ plans' = plans \cup {[content |-> source, note |-> n]}
    /\ UNCHANGED <<source, active, targets, work, run, stops>>

\* A killed process, an exception of the observer or of the file system.
Stop ==
    /\ run # None /\ stops < MaxStops
    /\ stops' = stops + 1 /\ Fail
    /\ UNCHANGED <<source, active, targets, work, plans>>

\* The application writes the source between two runs.
SourceWrites(c) ==
    /\ run = None /\ ~active.target
    /\ source' = c /\ active' = [target |-> FALSE, content |-> c]
    /\ UNCHANGED <<targets, work, plans, run, stops>>

Step ==
    \/ Begin \/ Advance
    \/ InitPlan \/ WritePlan \/ InitJournal \/ WriteJournal
    \/ Backup \/ CopyBackup \/ RenameBackup
    \/ Target \/ Shadow \/ BuildShadow \/ RenameShadow \/ VerifyShadow
    \/ Publish \/ Published \/ Recheck \/ WriteTemp \/ Replace \/ Done

Next ==
    \/ Step \/ Stop
    \/ \E p \in Plans : Start(p)
    \/ \E n \in Notes : Plan(n)
    \/ \E c \in Contents : SourceWrites(c)

Spec == Init /\ [][Next]_vars

\* A run that is not interrupted proceeds, and callers resume the plans they hold;
\* interruptions are bounded by MaxStops.
FairSpec == Spec /\ WF_vars(Step) /\ \A p \in Plans : SF_vars(Start(p))

-----------------------------------------------------------------------------
\* The rows of a target: everything of the source with its bytes, and no object
\* of an unknown codec applied, acknowledged or signed again.
Faithful(db, c) ==
    /\ db.kept = c.kept
    /\ {<<r.id, r.codec, r.bytes>> : r \in db.signed} = {<<r.id, r.codec, r.bytes>> : r \in c.signed}
    /\ \A r \in db.signed : r.codec \notin Supported =>
          ~r.applied /\ ~r.resigned /\ r.ack \in {"BLOCKED", "OPAQUE"}

\* Whenever a process stops, a reader can open what ACTIVE.json names: the old
\* generation as it was, or a complete and faithful target.
ActiveSound == Opens(active) /\ (active.target => Faithful(targets[active.content], active.content))

\* A migration never drops what was written before it ran: the generation it
\* replaced holds exactly the content that was converted, and so does the backup;
\* and the journal, written apart from the files, never claims more than they
\* hold, so that a resumed run skips nothing that is still to be done.
NothingLost ==
    /\ active.target => source = active.content /\ BackupVerified(active.content)
    /\ \A c \in Contents :
          work[c].journal \in Stages =>
              /\ work[c].journal >= 1 => BackupVerified(c)
              /\ work[c].journal >= 2 => Verified(c, work[c].shadow) \/ Verified(c, targets[c])
              /\ work[c].journal >= 4 => Verified(c, targets[c])
              /\ work[c].journal = 5 => TargetActive(c)

\* A plan that is resumed converges to the activated target, unless the source
\* moved on, another plan of the same content took the work directory, or an
\* interruption left PLAN.json or JOURNAL.json without content.
Converges ==
    \A p \in Plans :
        LET w == work[p.content]
        IN p \in plans ~> (\/ TargetActive(p.content) \/ source # p.content
                           \/ w.plan \notin {None, p} \/ w.journal = Torn)
=============================================================================

-------------------------- MODULE MigrationProofs ---------------------------
(***************************************************************************)
(* Proofs about the store migration, for every set of source contents and  *)
(* plans and any number of interruptions: what ACTIVE.json names opens and *)
(* is a faithful conversion (ActiveSound), and the journal never claims    *)
(* more than the files hold (NothingLost).                                 *)
(***************************************************************************)
EXTENDS Migration, TLAPS

USE ZenonT(60)

(* The inductive invariant. *)

Builds == {Build(c) : c \in Contents}
Works == [plan : Plans \cup {None, Torn}, journal : Stages \cup {None, Torn},
          backupPending : Contents \cup {None, Torn}, backup : Contents \cup {None},
          shadowPending : Builds \cup {None, Torn}, shadow : Builds \cup {None},
          temp : Builds \cup {None, Torn}]

\* The files of one content: whatever is complete is right.
FilesSound(c) ==
    /\ work[c].backup \in {None, c}
    /\ work[c].shadow \in {None, Build(c)} /\ targets[c] \in {None, Build(c)}
    /\ (work[c].shadow # None \/ targets[c] # None) => work[c].backup = c

\* What a journal at stage n claims of the files.
Claims(c, n) ==
    /\ n >= 1 => work[c].backup = c
    /\ n >= 2 => work[c].shadow = Build(c) \/ targets[c] = Build(c)
    /\ n >= 4 => targets[c] = Build(c)
    /\ n = 5 => TargetActive(c)

\* ACTIVE.json names the source as it is, or the target made from it.
PointerSound ==
    /\ active \in [target : BOOLEAN, content : Contents]
    /\ active.content = source
    /\ active.target => /\ targets[source] = Build(source) /\ work[source].backup = source
                        /\ work[source].journal \in Stages

\* The points of a run, in order.
Early == {"begin", "plan", "plan.write", "journal", "journal.write"}
Copying == {"backup", "copy", "readback"}
Building == {"target", "shadow", "build", "rename"}
Publishing == {"verify", "publish"}
Switching == {"published", "recheck", "temp", "replace"}

Points == Early \cup Copying \cup Building \cup Publishing \cup Switching \cup {"done"}
Goals == Stages \cup {None}
Runs == [plan : Plans, pc : Points, goal : Goals]

\* What a run of content c knows at a point: the checks it has passed stay true,
\* because nobody else writes while it holds the lease.
Knows(c, pc, goal) ==
    /\ pc \notin {"begin", "done"} => SourceActive(c)
    /\ pc \notin Early => work[c].journal \in Stages
    /\ pc \in Building \cup Publishing \cup Switching => work[c].backup = c
    /\ pc \in Publishing => work[c].shadow = Build(c)
    /\ pc \in Switching => targets[c] = Build(c)
    /\ goal # None => pc \notin Early /\ Claims(c, goal)
RunSound == Knows(C, run.pc, run.goal)

TypeInv ==
    /\ source \in Contents /\ active \in [target : BOOLEAN, content : Contents]
    /\ targets \in [Contents -> Builds \cup {None}] /\ work \in [Contents -> Works]
    /\ plans \subseteq Plans /\ run \in Runs \cup {None}

FilesInv == \A c \in Contents : FilesSound(c) /\ (work[c].journal \in Stages => Claims(c, work[c].journal))

MigrationInv == TypeInv /\ PointerSound /\ FilesInv /\ (run # None => RunSound)

-----------------------------------------------------------------------------
\* The converter keeps every object with its bytes, and claims nothing for what it
\* cannot interpret (_expected_signed_rows, _build_database).
LEMMA BuildFaithful == \A c : Faithful(Build(c), c)
<1>1. ASSUME NEW c PROVE Faithful(Build(c), c)
  <2>1. Build(c).kept = c.kept /\ Build(c).signed = {Expected(r) : r \in c.signed}
    BY DEF Build
  <2>2. \A r : /\ Expected(r).id = r.id /\ Expected(r).codec = r.codec /\ Expected(r).bytes = r.bytes
               /\ r.codec \notin Supported =>
                     /\ ~Expected(r).applied /\ ~Expected(r).resigned
                     /\ Expected(r).ack \in {"BLOCKED", "OPAQUE"}
    BY DEF Expected
  <2> HIDE DEF Expected, Build
  <2>3. {<<r.id, r.codec, r.bytes>> : r \in Build(c).signed} = {<<r.id, r.codec, r.bytes>> : r \in c.signed}
    BY <2>1, <2>2, SMTT(60)
  <2>4. \A r \in Build(c).signed : r.codec \notin Supported =>
            ~r.applied /\ ~r.resigned /\ r.ack \in {"BLOCKED", "OPAQUE"}
    BY <2>1, <2>2
  <2> QED BY <2>1, <2>3, <2>4 DEF Faithful
<1> QED BY <1>1

\* A journal that claims a stage claims the stages before it.
LEMMA ClaimsDown ==
    ASSUME NEW c, NEW n \in Stages, NEW m \in Stages, m <= n, Claims(c, n)
    PROVE  m # 5 => Claims(c, m)
BY SMTT(60) DEF Claims, Stages

\* A step of the run that writes neither journal, backup, shadow nor target, and
\* leaves the source and ACTIVE.json alone, keeps what is known of the files.
Same ==
    /\ UNCHANGED <<source, active, targets>>
    /\ \A c \in Contents : /\ work'[c].journal = work[c].journal
                           /\ work'[c].backup = work[c].backup
                           /\ work'[c].shadow = work[c].shadow

\* While the files and the pointer stay, so does what is said of them.
LEMMA SameKeeps ==
    ASSUME MigrationInv, Same
    PROVE  /\ PointerSound' /\ FilesInv'
           /\ \A c \in Contents, n \in Stages : Claims(c, n) => Claims(c, n)'
<1>1. \A c \in Contents : \A n : Claims(c, n)' <=> Claims(c, n)
  BY DEF Same, Claims, TargetActive
<1>2. \A c \in Contents : FilesSound(c)'
  BY DEF Same, MigrationInv, FilesInv, FilesSound
<1>3. FilesInv'
  BY <1>1, <1>2 DEF Same, MigrationInv, FilesInv
<1>4. PointerSound'
  BY DEF Same, MigrationInv, PointerSound, TypeInv
<1> QED BY <1>1, <1>3, <1>4

\* The run behind a step: its content, and what it knows.
LEMMA RunFacts ==
    ASSUME MigrationInv, run # None
    PROVE  run \in Runs /\ C \in Contents /\ Knows(C, run.pc, run.goal)
BY DEF MigrationInv, TypeInv, Runs, Plans, C, RunSound

\* Going on at a point whose facts hold keeps the run sound.
LEMMA Goes ==
    ASSUME run \in Runs, NEW c, c = C, NEW pc \in Points, NEW goal \in Goals,
           Go(pc, goal), Knows(c, pc, goal)'
    PROVE  run' \in Runs /\ RunSound'
<1>1. run' \in Runs /\ run'.pc = pc /\ run'.goal = goal /\ run'.plan = run.plan
  BY DEF Runs, Go
<1>2. C' = c
  BY <1>1 DEF C
<1>3. Knows(C, run.pc, run.goal)' <=> Knows(c, pc, goal)'
  BY <1>1, <1>2 DEF Knows, Claims, SourceActive, VerifyCurrentSource, SourceHolds, TargetActive
<1> QED BY <1>1, <1>3 DEF RunSound

\* A step of the run that only moves on: no file the argument looks at changes.
LEMMA Moves ==
    ASSUME MigrationInv, run # None, NEW c \in Contents, c = C,
           Same, work' \in [Contents -> Works], UNCHANGED plans,
           NEW pc \in Points, NEW goal \in Goals, Go(pc, goal), Knows(c, pc, goal)
    PROVE  MigrationInv'
<1>1. run \in Runs /\ TypeInv
  BY DEF MigrationInv, TypeInv
<1>2. PointerSound' /\ FilesInv' /\ (goal # None => (Claims(c, goal) => Claims(c, goal)'))
  BY SameKeeps DEF Goals
<1>3. Knows(c, pc, goal)'
  BY <1>2 DEF Knows, Same, SourceActive, VerifyCurrentSource, SourceHolds
<1>4. run' \in Runs /\ RunSound'
  BY <1>1, <1>3, Goes
<1>5. TypeInv'
  BY <1>1, <1>4 DEF TypeInv, Same
<1> QED BY <1>2, <1>4, <1>5 DEF MigrationInv

\* A run that ends, by a failed check, an exception or a kill.
LEMMA Ends ==
    ASSUME MigrationInv, Same, work' \in [Contents -> Works], UNCHANGED plans, run' = None
    PROVE  MigrationInv'
<1>1. PointerSound' /\ FilesInv'
  BY SameKeeps
<1>2. TypeInv'
  BY DEF MigrationInv, TypeInv, Same
<1> QED BY <1>1, <1>2 DEF MigrationInv

\* Nothing is written.
LEMMA UntouchedSame ==
    ASSUME MigrationInv, UNCHANGED <<source, active, targets, work>>
    PROVE  Same /\ work' \in [Contents -> Works]
BY DEF Same, MigrationInv, TypeInv

\* The plan, a pending tree or the temporary pointer is written.
LEMMA PutSame ==
    ASSUME MigrationInv, NEW c \in Contents, UNCHANGED <<source, active, targets>>,
           NEW value,
           \/ value \in Plans \cup {None, Torn} /\ work' = [work EXCEPT ![c]["plan"] = value]
           \/ value \in Contents \cup {None, Torn} /\ work' = [work EXCEPT ![c]["backupPending"] = value]
           \/ value \in Builds \cup {None, Torn} /\ work' = [work EXCEPT ![c]["shadowPending"] = value]
           \/ value \in Builds \cup {None, Torn} /\ work' = [work EXCEPT ![c]["temp"] = value]
    PROVE  Same /\ work' \in [Contents -> Works]
<1>0. work \in [Contents -> Works]
  BY DEF MigrationInv, TypeInv
<1>1. CASE value \in Plans \cup {None, Torn} /\ work' = [work EXCEPT ![c]["plan"] = value]
  BY <1>0, <1>1, SMTT(60) DEF Same, Works
<1>2. CASE value \in Contents \cup {None, Torn} /\ work' = [work EXCEPT ![c]["backupPending"] = value]
  BY <1>0, <1>2, SMTT(60) DEF Same, Works
<1>3. CASE value \in Builds \cup {None, Torn} /\ work' = [work EXCEPT ![c]["shadowPending"] = value]
  BY <1>0, <1>3, SMTT(60) DEF Same, Works
<1>4. CASE value \in Builds \cup {None, Torn} /\ work' = [work EXCEPT ![c]["temp"] = value]
  BY <1>0, <1>4, SMTT(60) DEF Same, Works
<1> QED BY <1>1, <1>2, <1>3, <1>4

-----------------------------------------------------------------------------
(* The steps of a run *)

\* Begin: the target is active already, or the source still is what was planned.
LEMMA BeginSound == ASSUME MigrationInv, Begin PROVE MigrationInv'
<1>0. run # None /\ run \in Runs /\ Same /\ work' \in [Contents -> Works] /\ UNCHANGED plans
  BY RunFacts, UntouchedSame DEF Begin, At, Files, Store
<1> PICK c \in Contents : c = C
  BY <1>0, RunFacts
<1>1. CASE TargetActive(c) /\ Verified(c, targets[c])
  <2>1. Go("done", 5)
    BY <1>1 DEF Begin
  <2>2. Knows(c, "done", 5)
    BY <1>1 DEF MigrationInv, TypeInv, PointerSound, TargetActive, Verified, Validated, BackupVerified,
                Knows, Claims, Early, Building, Copying, Publishing, Switching
  <2> QED BY <1>0, <2>1, <2>2, Moves, SMTT(60) DEF Points, Goals, Stages
<1>2. CASE ~(TargetActive(c) /\ Verified(c, targets[c])) /\ SourceActive(c)
  <2>1. Go("plan", None)
    BY <1>2 DEF Begin
  <2>2. Knows(c, "plan", None)
    BY <1>2 DEF Knows, Early, Building, Publishing, Switching
  <2> QED BY <1>0, <2>1, <2>2, Moves DEF Points, Goals, Early
<1>3. CASE ~(TargetActive(c) /\ Verified(c, targets[c])) /\ ~SourceActive(c)
  <2>1. Fail
    BY <1>3 DEF Begin
  <2> QED BY <1>0, <2>1, Ends DEF Fail
<1> QED BY <1>1, <1>2, <1>3

\* initialize: PLAN.json is created, written, or read back.
LEMMA PlanSound == ASSUME MigrationInv, InitPlan \/ WritePlan PROVE MigrationInv'
<1>0. run # None /\ run \in Runs /\ UNCHANGED <<source, active, targets>> /\ UNCHANGED plans
  BY RunFacts DEF InitPlan, WritePlan, At, Store
<1> PICK c \in Contents : c = C
  BY <1>0, RunFacts
<1>1. SourceActive(c)
  BY RunFacts, <1>0 DEF Knows, InitPlan, WritePlan, At
<1>2. \A pc \in {"plan.write", "journal"} : Knows(c, pc, None)
  BY <1>1 DEF Knows, Early, Building, Publishing, Switching
<1>3. CASE Creates("plan", "plan.write")
  <2>1. Same /\ work' \in [Contents -> Works]
    BY <1>0, <1>3, PutSame DEF Creates, Put
  <2> QED BY <1>0, <1>2, <1>3, <2>1, Moves DEF Creates, Points, Goals, Early
<1>4. CASE Keeps("plan", work[C].plan = run.plan, "journal")
  <2>1. Same /\ work' \in [Contents -> Works]
    BY <1>0, <1>4, UntouchedSame DEF Keeps
  <2>2. CASE Go("journal", None)
    BY <1>0, <1>2, <2>1, <2>2, Moves DEF Points, Goals, Early
  <2>3. CASE Fail
    BY <1>0, <2>1, <2>3, Ends DEF Fail
  <2> QED BY <1>4, <2>2, <2>3 DEF Keeps
<1>5. CASE WritePlan
  <2>1. run.plan \in Plans
    BY <1>0 DEF Runs
  <2>2. Same /\ work' \in [Contents -> Works]
    BY <1>0, <1>5, <2>1, PutSame DEF WritePlan, Writes, Put
  <2> QED BY <1>0, <1>2, <1>5, <2>2, Moves DEF WritePlan, Writes, Points, Goals, Early
<1> QED BY <1>3, <1>4, <1>5 DEF InitPlan

\* A journal written by the run: what it claims holds, and nothing else changes.
LEMMA JournalPut ==
    ASSUME MigrationInv, NEW c \in Contents, UNCHANGED <<source, active, targets>>,
           NEW value \in Stages \cup {None, Torn},
           value \in Stages => Claims(c, value),
           value \notin Stages => SourceActive(c),
           work' = [work EXCEPT ![c]["journal"] = value]
    PROVE  /\ work' \in [Contents -> Works] /\ work'[c].journal = value
           /\ PointerSound' /\ FilesInv'
           /\ \A d \in Contents, n \in Stages : Claims(d, n) => Claims(d, n)'
           /\ \A d \in Contents : work'[d].backup = work[d].backup /\ work'[d].shadow = work[d].shadow
<1>0. work \in [Contents -> Works] /\ source \in Contents
  BY DEF MigrationInv, TypeInv
<1>1. /\ work' \in [Contents -> Works] /\ work'[c].journal = value
      /\ \A d \in Contents : /\ work'[d].backup = work[d].backup /\ work'[d].shadow = work[d].shadow
                             /\ d # c => work'[d].journal = work[d].journal
  BY <1>0, SMTT(60) DEF Works
<1>2. \A d \in Contents : \A n : Claims(d, n)' <=> Claims(d, n)
  BY <1>1 DEF Claims, TargetActive
<1>3. \A d \in Contents : FilesSound(d)'
  BY <1>1 DEF FilesSound, MigrationInv, FilesInv
<1>4. FilesInv'
  BY <1>1, <1>2, <1>3, SMTT(60) DEF MigrationInv, FilesInv
<1>5. PointerSound'
  BY <1>0, <1>1, SMTT(60) DEF MigrationInv, PointerSound, SourceActive
<1> QED BY <1>1, <1>2, <1>4, <1>5

\* initialize: JOURNAL.json is created, written at PLANNED, or read back.
LEMMA JournalSound == ASSUME MigrationInv, InitJournal \/ WriteJournal PROVE MigrationInv'
<1>0. run # None /\ run \in Runs /\ UNCHANGED <<source, active, targets>> /\ UNCHANGED plans
  BY RunFacts DEF InitJournal, WriteJournal, At, Store
<1> PICK c \in Contents : c = C
  BY <1>0, RunFacts
<1>1. SourceActive(c) /\ TypeInv
  BY RunFacts, <1>0 DEF Knows, InitJournal, WriteJournal, At, MigrationInv
<1>2. CASE Creates("journal", "journal.write")
  <2>1. /\ work' \in [Contents -> Works] /\ work'[c].journal = Torn /\ PointerSound' /\ FilesInv'
    BY <1>0, <1>1, <1>2, NoContent, JournalPut DEF Creates, Put
  <2>2. Knows(c, "journal.write", None)'
    BY <1>0, <1>1 DEF Knows, SourceActive, VerifyCurrentSource, SourceHolds, Early, Building, Publishing, Switching
  <2>3. run' \in Runs /\ RunSound'
    BY <1>0, <1>2, <2>2, Goes DEF Creates, Points, Goals, Early
  <2> QED BY <1>0, <1>1, <2>1, <2>3 DEF MigrationInv, TypeInv
<1>3. CASE WriteJournal
  <2>1. /\ work' \in [Contents -> Works] /\ work'[c].journal = 0 /\ PointerSound' /\ FilesInv'
    <3>1. 0 \in Stages /\ Claims(c, 0)
      BY SMTT(60) DEF Claims, Stages
    <3> QED BY <1>0, <1>1, <1>3, <3>1, JournalPut DEF WriteJournal, Writes, Put
  <2>2. Knows(c, "backup", None)'
    BY <1>0, <1>1, <2>1, SMTT(60) DEF Knows, SourceActive, VerifyCurrentSource, SourceHolds, Building, Publishing, Switching, Stages
  <2>3. run' \in Runs /\ RunSound'
    BY <1>0, <1>3, <2>2, Goes DEF WriteJournal, Writes, Points, Goals, Copying
  <2> QED BY <1>0, <1>1, <2>1, <2>3 DEF MigrationInv, TypeInv
<1>4. CASE Keeps("journal", work[C].journal # Torn, "backup")
  <2>1. Same /\ work' \in [Contents -> Works]
    BY <1>0, <1>4, UntouchedSame DEF Keeps
  <2>2. CASE work[c].journal # Torn
    <3>1. work[c].journal \in Stages
      BY <1>1, <1>4, <2>2 DEF Keeps, TypeInv, Works
    <3>2. Knows(c, "backup", None)
      BY <1>1, <3>1 DEF Knows, Building, Publishing, Switching
    <3> QED BY <1>0, <1>4, <2>1, <2>2, <3>2, Moves DEF Keeps, Points, Goals, Copying
  <2>3. CASE work[c].journal = Torn
    BY <1>0, <1>4, <2>1, <2>3, Ends DEF Fail, Keeps
  <2> QED BY <2>2, <2>3
<1> QED BY <1>2, <1>3, <1>4 DEF InitJournal

\* _advance_to: the journal follows the files, one stage at a time.
LEMMA AdvanceSound == ASSUME MigrationInv, Advance PROVE MigrationInv'
<1>0. run # None /\ run \in Runs /\ UNCHANGED <<source, active, targets, plans, run>>
  BY RunFacts DEF Advance, Behind
<1> PICK c \in Contents : c = C
  BY <1>0, RunFacts
<1>1. run.goal \in Stages /\ Knows(c, run.pc, run.goal) /\ run.pc \notin Early /\ Claims(c, run.goal)
  BY <1>0, RunFacts DEF Advance, Behind, Knows, Runs, Goals
<1>2. work[c].journal \in Stages /\ work[c].journal < run.goal
  BY <1>1 DEF Knows, Advance, Behind
<1> DEFINE next == work[c].journal + 1
<1>3. next \in Stages /\ next <= run.goal
  BY <1>1, <1>2, SMTT(60) DEF Stages
<1>4. work' = [work EXCEPT ![c]["journal"] = next]
  BY DEF Advance, Replaces
<1> HIDE DEF next
<1>5. Claims(c, next)
  BY <1>1, <1>3, ClaimsDown, SMTT(60) DEF Claims, Stages
<1>6. /\ work' \in [Contents -> Works] /\ work'[c].journal = next
      /\ PointerSound' /\ FilesInv'
      /\ \A d \in Contents, n \in Stages : Claims(d, n) => Claims(d, n)'
      /\ \A d \in Contents : work'[d].backup = work[d].backup /\ work'[d].shadow = work[d].shadow
  BY <1>0, <1>3, <1>4, <1>5, JournalPut
<1>7. C' = c /\ run' = run
  BY <1>0 DEF C
<1>8. RunSound'
  BY <1>0, <1>1, <1>3, <1>6, <1>7 DEF RunSound, Knows, SourceActive, VerifyCurrentSource, SourceHolds
<1> QED BY <1>0, <1>6, <1>8 DEF MigrationInv, TypeInv

\* create_verified_backup: a pending tree filled from the source, or the backup that
\* is there, verified.
LEMMA BackupSound == ASSUME MigrationInv, Backup \/ CopyBackup PROVE MigrationInv'
<1>0. run # None /\ run \in Runs /\ UNCHANGED <<source, active, targets>> /\ UNCHANGED plans
  BY RunFacts DEF Backup, CopyBackup, At, Store
<1> PICK c \in Contents : c = C
  BY <1>0, RunFacts
<1>1. SourceActive(c) /\ work[c].journal \in Stages /\ source \in Contents
  BY RunFacts, <1>0 DEF Knows, Backup, CopyBackup, At, Early, MigrationInv, TypeInv
<1>2. \A pc \in {"copy", "readback"} : Knows(c, pc, None)
  BY <1>1 DEF Knows, Building, Publishing, Switching
<1>3. CASE Anew("backupPending") /\ Go("copy", None)
  <2>1. Same /\ work' \in [Contents -> Works]
    BY <1>0, <1>3, PutSame DEF Anew, Put
  <2> QED BY <1>0, <1>2, <1>3, <2>1, Moves DEF Points, Goals, Copying
<1>4. CASE BackupVerified(C) /\ Go("target", 1) /\ UNCHANGED work
  <2>1. Same /\ work' \in [Contents -> Works]
    BY <1>0, <1>4, UntouchedSame
  <2>2. Knows(c, "target", 1)
    BY <1>1, <1>4, SMTT(60) DEF BackupVerified, Knows, Claims, Publishing, Switching, Early
  <2> QED BY <1>0, <1>4, <2>1, <2>2, Moves, SMTT(60) DEF Points, Goals, Building, Stages
<1>5. CASE CopyBackup
  <2>1. Same /\ work' \in [Contents -> Works]
    BY <1>0, <1>1, <1>5, PutSame DEF CopyBackup, Writes, Put
  <2> QED BY <1>0, <1>2, <1>5, <2>1, Moves DEF CopyBackup, Writes, Points, Goals, Copying
<1> QED BY <1>3, <1>4, <1>5 DEF Backup

\* The copy that reads back as the source becomes the backup.
LEMMA RenameBackupSound == ASSUME MigrationInv, RenameBackup PROVE MigrationInv'
<1>0. run # None /\ run \in Runs /\ UNCHANGED <<source, active, targets>> /\ UNCHANGED plans
  BY RunFacts DEF RenameBackup, At, Store
<1> PICK c \in Contents : c = C
  BY <1>0, RunFacts
<1>1. SourceActive(c) /\ work[c].journal \in Stages /\ TypeInv
  BY RunFacts, <1>0 DEF Knows, RenameBackup, At, Early, MigrationInv
<1>2. /\ work' \in [Contents -> Works] /\ work'[c].backup = c
      /\ \A d \in Contents : /\ work'[d].journal = work[d].journal /\ work'[d].shadow = work[d].shadow
                             /\ d # c => work'[d].backup = work[d].backup
  <2> DEFINE w == [work[c] EXCEPT !.backup = c, !.backupPending = None]
  <2>1. work[c] \in Works /\ work \in [Contents -> Works]
    BY <1>1 DEF TypeInv
  <2>2. /\ w \in Works /\ w.backup = c /\ w.journal = work[c].journal
        /\ w.shadow = work[c].shadow
    BY <2>1 DEF Works
  <2>3. work' = [work EXCEPT ![c] = w]
    BY <1>1, <2>1 DEF RenameBackup
  <2> HIDE DEF w
  <2> QED BY <2>1, <2>2, <2>3
<1>3. \A d \in Contents : \A n : Claims(d, n) => Claims(d, n)'
  BY <1>0, <1>2 DEF Claims, TargetActive
<1>4. FilesInv'
  BY <1>0, <1>2, <1>3 DEF MigrationInv, FilesInv, FilesSound
<1>5. PointerSound'
  BY <1>0, <1>1 DEF MigrationInv, PointerSound, SourceActive
<1>6. Knows(c, "target", 1)'
  BY <1>0, <1>1, <1>2, SMTT(60) DEF Knows, Claims, SourceActive, VerifyCurrentSource, SourceHolds, Publishing, Switching, Early
<1>7. run' \in Runs /\ RunSound'
  BY <1>0, <1>6, Goes, SMTT(60) DEF RenameBackup, Points, Goals, Building, Stages
<1> QED BY <1>0, <1>1, <1>2, <1>4, <1>5, <1>7 DEF MigrationInv, TypeInv

\* A published target is used as it is, an earlier shadow likewise, and otherwise the
\* shadow is built from the backup.
LEMMA BuildSound ==
    ASSUME MigrationInv, Target \/ Shadow \/ BuildShadow \/ VerifyShadow
    PROVE  MigrationInv'
<1>0. run # None /\ run \in Runs /\ UNCHANGED <<source, active, targets>> /\ UNCHANGED plans
  BY RunFacts DEF Target, Shadow, BuildShadow, VerifyShadow, Ready, At, Files, Store
<1> PICK c \in Contents : c = C
  BY <1>0, RunFacts
<1>1. SourceActive(c) /\ work[c].journal \in Stages /\ work[c].backup = c /\ FilesSound(c)
  BY RunFacts, <1>0 DEF Knows, Target, Shadow, BuildShadow, VerifyShadow, Ready, At, Early, Building, Publishing,
                        MigrationInv, FilesInv
<1>2. Build(c) \in Builds
  BY DEF Builds
<1>3. ASSUME Target PROVE MigrationInv'
  <2>1. Same /\ work' \in [Contents -> Works]
    BY <1>0, <1>3, UntouchedSame DEF Target, Files
  <2>2. CASE Go("shadow", 1)
    <3>1. Knows(c, "shadow", 1)
      BY <1>1, SMTT(60) DEF Knows, Claims, Publishing, Switching, Early
    <3> QED BY <1>0, <2>1, <2>2, <3>1, Moves, SMTT(60) DEF Points, Goals, Building, Stages
  <2>3. CASE Verified(C, targets[C]) /\ Go("recheck", 4)
    <3>1. Knows(c, "recheck", 4)
      BY <1>1, <2>3, SMTT(60) DEF Verified, Validated, Knows, Claims, Publishing, Early
    <3> QED BY <1>0, <2>1, <2>3, <3>1, Moves, SMTT(60) DEF Points, Goals, Switching, Stages
  <2> QED BY <1>3, <2>2, <2>3 DEF Target
<1>4. ASSUME Shadow PROVE MigrationInv'
  <2>1. CASE Anew("shadowPending") /\ Go("build", 1)
    <3>1. Same /\ work' \in [Contents -> Works]
      BY <1>0, <2>1, PutSame DEF Anew, Put
    <3>2. Knows(c, "build", 1)
      BY <1>1, SMTT(60) DEF Knows, Claims, Publishing, Switching, Early
    <3> QED BY <1>0, <2>1, <3>1, <3>2, Moves, SMTT(60) DEF Points, Goals, Building, Stages
  <2>2. CASE Verified(C, work[C].shadow) /\ Put("shadowPending", None) /\ Go("publish", 3)
    <3>1. Same /\ work' \in [Contents -> Works]
      BY <1>0, <2>2, PutSame DEF Put
    <3>2. Knows(c, "publish", 3)
      BY <1>1, <2>2, SMTT(60) DEF Verified, Validated, Knows, Claims, Switching, Early
    <3> QED BY <1>0, <2>2, <3>1, <3>2, Moves, SMTT(60) DEF Points, Goals, Publishing, Stages
  <2> QED BY <1>4, <2>1, <2>2 DEF Shadow
<1>5. ASSUME BuildShadow PROVE MigrationInv'
  <2>1. Same /\ work' \in [Contents -> Works]
    BY <1>0, <1>1, <1>2, <1>5, PutSame DEF BuildShadow, Writes, Put
  <2>2. Knows(c, "rename", None)
    BY <1>1 DEF Knows, Publishing, Switching, Early
  <2> QED BY <1>0, <1>5, <2>1, <2>2, Moves DEF BuildShadow, Writes, Points, Goals, Building
<1>6. ASSUME VerifyShadow PROVE MigrationInv'
  <2>1. Same /\ work' \in [Contents -> Works]
    BY <1>0, <1>6, UntouchedSame DEF VerifyShadow, Files
  <2>2. Knows(c, "publish", 3)
    BY <1>1, <1>6, SMTT(60) DEF VerifyShadow, Verified, Validated, Knows, Claims, Switching, Early
  <2> QED BY <1>0, <1>6, <2>1, <2>2, Moves, SMTT(60) DEF VerifyShadow, Points, Goals, Publishing, Stages
<1> QED BY <1>3, <1>4, <1>5, <1>6

\* The verified build becomes the shadow.
LEMMA RenameShadowSound == ASSUME MigrationInv, RenameShadow PROVE MigrationInv'
<1>0. run # None /\ run \in Runs /\ UNCHANGED <<source, active, targets>> /\ UNCHANGED plans
  BY RunFacts DEF RenameShadow, At, Store
<1> PICK c \in Contents : c = C
  BY <1>0, RunFacts
<1>1. SourceActive(c) /\ work[c].journal \in Stages /\ work[c].backup = c /\ TypeInv
  BY RunFacts, <1>0 DEF Knows, RenameShadow, At, Early, Building, MigrationInv
<1>2. work[c].shadowPending = Build(c) /\ Build(c) \in Builds
  BY <1>1 DEF RenameShadow, Verified, Validated, Builds
<1>3. /\ work' \in [Contents -> Works] /\ work'[c].shadow = Build(c)
      /\ \A d \in Contents : /\ work'[d].journal = work[d].journal /\ work'[d].backup = work[d].backup
                             /\ d # c => work'[d].shadow = work[d].shadow
  <2> DEFINE w == [work[c] EXCEPT !.shadow = Build(c), !.shadowPending = None]
  <2>1. work[c] \in Works /\ work \in [Contents -> Works]
    BY <1>1 DEF TypeInv
  <2>2. /\ w \in Works /\ w.shadow = Build(c) /\ w.journal = work[c].journal
        /\ w.backup = work[c].backup
    BY <1>2, <2>1 DEF Works
  <2>3. work' = [work EXCEPT ![c] = w]
    BY <1>1, <1>2, <2>1 DEF RenameShadow
  <2> HIDE DEF w
  <2> QED BY <2>1, <2>2, <2>3
<1>4. \A d \in Contents : \A n : Claims(d, n) => Claims(d, n)'
  BY <1>0, <1>3 DEF Claims, TargetActive
<1>5. FilesInv'
  BY <1>0, <1>1, <1>3, <1>4 DEF MigrationInv, FilesInv, FilesSound
<1>6. PointerSound'
  BY <1>0, <1>1 DEF MigrationInv, PointerSound, SourceActive
<1>7. Knows(c, "verify", 2)'
  BY <1>0, <1>1, <1>3, SMTT(60) DEF Knows, Claims, SourceActive, VerifyCurrentSource, SourceHolds, Switching, Early
<1>8. run' \in Runs /\ RunSound'
  BY <1>0, <1>7, Goes, SMTT(60) DEF RenameShadow, Points, Goals, Publishing, Stages
<1> QED BY <1>0, <1>1, <1>3, <1>5, <1>6, <1>8 DEF MigrationInv, TypeInv

\* The shadow is published by a rename: it leaves the work directory as it becomes
\* the target.
LEMMA PublishSound == ASSUME MigrationInv, Publish PROVE MigrationInv'
<1>0. run # None /\ run \in Runs /\ UNCHANGED <<source, active, plans>>
  BY RunFacts DEF Publish, Ready, At
<1> PICK c \in Contents : c = C
  BY <1>0, RunFacts
<1>1. /\ SourceActive(c) /\ work[c].journal \in Stages /\ work[c].backup = c /\ TypeInv
      /\ work[c].shadow = Build(c)
  BY RunFacts, <1>0 DEF Knows, Publish, Ready, At, Early, Publishing, MigrationInv
<1>2. Build(c) \in Builds
  BY DEF Builds
<1>3. /\ work' \in [Contents -> Works] /\ work'[c].shadow = None
      /\ \A d \in Contents : /\ work'[d].journal = work[d].journal /\ work'[d].backup = work[d].backup
                             /\ d # c => work'[d].shadow = work[d].shadow
  BY <1>1, <1>2, SMTT(60) DEF Publish, Put, TypeInv, Works
<1>4. /\ targets' \in [Contents -> Builds \cup {None}] /\ targets'[c] = Build(c)
      /\ \A d \in Contents : d # c => targets'[d] = targets[d]
  BY <1>1, <1>2 DEF Publish, TypeInv
<1>5. \A d \in Contents : \A n : Claims(d, n) => Claims(d, n)'
  BY <1>0, <1>3, <1>4 DEF Claims, TargetActive
<1>6. FilesInv'
  BY <1>0, <1>1, <1>3, <1>4, <1>5, SMTT(60) DEF MigrationInv, FilesInv, FilesSound
<1>7. PointerSound'
  BY <1>0, <1>1 DEF MigrationInv, PointerSound, SourceActive
<1>8. Knows(c, "published", None)'
  BY <1>0, <1>1, <1>3, <1>4 DEF Knows, SourceActive, VerifyCurrentSource, SourceHolds, Publishing
<1>9. run' \in Runs /\ RunSound'
  BY <1>0, <1>8, Goes DEF Publish, Points, Goals, Switching
<1> QED BY <1>0, <1>1, <1>3, <1>4, <1>6, <1>7, <1>9 DEF MigrationInv, TypeInv

\* The way to the switch: the target is verified, the source looked at again, the
\* temporary pointer written.
LEMMA SwitchSound ==
    ASSUME MigrationInv, Published \/ Recheck \/ WriteTemp
    PROVE  MigrationInv'
<1>0. run # None /\ run \in Runs /\ UNCHANGED <<source, active, targets>> /\ UNCHANGED plans
  BY RunFacts DEF Published, Recheck, WriteTemp, Ready, At, Files, Store
<1> PICK c \in Contents : c = C
  BY <1>0, RunFacts
<1>1. SourceActive(c) /\ work[c].journal \in Stages /\ work[c].backup = c /\ targets[c] = Build(c)
  BY RunFacts, <1>0 DEF Knows, Published, Recheck, WriteTemp, Ready, At, Early, Switching
<1>2. \A pc \in {"recheck", "temp", "replace"}, goal \in {4, None} : Knows(c, pc, goal)
  BY <1>1, SMTT(60) DEF Knows, Claims, Publishing, Early
<1>3. Build(c) \in Builds
  BY DEF Builds
<1>4. CASE Published
  <2>1. Same /\ work' \in [Contents -> Works]
    BY <1>0, <1>4, UntouchedSame DEF Published, Files
  <2> QED BY <1>0, <1>2, <1>4, <2>1, Moves, SMTT(60) DEF Published, Points, Goals, Switching, Stages
<1>5. CASE Recheck
  <2>1. Same /\ work' \in [Contents -> Works]
    BY <1>0, <1>5, PutSame DEF Recheck, OwnTemp, Put
  <2> QED BY <1>0, <1>2, <1>5, <2>1, Moves, SMTT(60) DEF Recheck, Points, Goals, Switching, Stages
<1>6. CASE WriteTemp
  <2>1. Same /\ work' \in [Contents -> Works]
    BY <1>0, <1>1, <1>3, <1>6, PutSame DEF WriteTemp, Writes, Put
  <2> QED BY <1>0, <1>2, <1>6, <2>1, Moves DEF WriteTemp, Writes, Points, Goals, Switching
<1> QED BY <1>4, <1>5, <1>6

\* _switch_pointer: ACTIVE.json names the target from here on.
LEMMA ReplaceSound == ASSUME MigrationInv, Replace PROVE MigrationInv'
<1>0. run # None /\ run \in Runs /\ UNCHANGED <<source, targets, plans>>
  BY RunFacts DEF Replace, At
<1> PICK c \in Contents : c = C
  BY <1>0, RunFacts
<1>1. /\ SourceActive(c) /\ work[c].journal \in Stages /\ work[c].backup = c
      /\ targets[c] = Build(c) /\ TypeInv
  BY RunFacts, <1>0 DEF Knows, Replace, At, Early, Switching, MigrationInv
<1>2. /\ work' \in [Contents -> Works]
      /\ \A d \in Contents : /\ work'[d].journal = work[d].journal /\ work'[d].backup = work[d].backup
                             /\ work'[d].shadow = work[d].shadow
  BY <1>1, SMTT(60) DEF Replace, Put, TypeInv, Works
<1>3. active' = [target |-> TRUE, content |-> c] /\ source' = c
  BY <1>0, <1>1 DEF Replace, SourceActive, VerifyCurrentSource, SourceHolds
<1>4. \A d \in Contents : \A n : Claims(d, n) => Claims(d, n)'
  BY <1>0, <1>1, <1>2 DEF Claims, TargetActive, SourceActive
<1>5. FilesInv'
  BY <1>0, <1>2, <1>4 DEF MigrationInv, FilesInv, FilesSound
<1>6. PointerSound'
  BY <1>0, <1>1, <1>2, <1>3 DEF PointerSound
<1>7. Knows(c, "done", 5)'
  BY <1>0, <1>1, <1>2, <1>3 DEF Knows, Claims, TargetActive, Building, Publishing, Switching, Early
<1>8. run' \in Runs /\ RunSound'
  BY <1>0, <1>7, Goes, SMTT(60) DEF Replace, Points, Goals, Stages
<1> QED BY <1>0, <1>1, <1>2, <1>3, <1>5, <1>6, <1>8 DEF MigrationInv, TypeInv

-----------------------------------------------------------------------------
(* Callers, crashes, and the theorems *)

\* The steps that end a run.
LEMMA EndSound == ASSUME MigrationInv, Done \/ Stop PROVE MigrationInv'
<1>1. Same /\ work' \in [Contents -> Works] /\ UNCHANGED plans
  BY UntouchedSame DEF Done, Stop, Files, Store
<1> QED BY <1>1, Ends DEF Done, Stop, Fail

\* A caller takes the lease for a plan it holds.
LEMMA StartSound == ASSUME MigrationInv, NEW p \in Plans, Start(p) PROVE MigrationInv'
<1>1. Same /\ work' = work /\ UNCHANGED plans
  BY UntouchedSame DEF Start, Files, Store
<1>2. PointerSound' /\ FilesInv'
  BY <1>1, SameKeeps
<1>3. run' \in Runs /\ run'.pc = "begin" /\ run'.goal = None
  BY DEF Start, Runs, Points, Early, Goals
<1>4. RunSound'
  BY <1>3 DEF RunSound, Knows, Early, Building, Publishing, Switching
<1> QED BY <1>1, <1>2, <1>3, <1>4 DEF MigrationInv, TypeInv, Same

\* A plan is made: it binds the content of the source as it is.
LEMMA PlanMadeSound == ASSUME MigrationInv, NEW n \in Notes, Plan(n) PROVE MigrationInv'
<1>1. Same /\ UNCHANGED <<work, run>>
  BY UntouchedSame DEF Plan
<1>2. PointerSound' /\ FilesInv'
  BY <1>1, SameKeeps
<1>3. TypeInv'
  BY <1>1, SMTT(60) DEF MigrationInv, TypeInv, Plan, Plans, Same
<1>4. run # None => (RunSound => RunSound')
  BY <1>1 DEF RunSound, Knows, Same, Claims, SourceActive, VerifyCurrentSource, SourceHolds, TargetActive, C
<1> QED BY <1>1, <1>2, <1>3, <1>4 DEF MigrationInv

\* The application writes the source while no run holds the lease.
LEMMA SourceWritesSound == ASSUME MigrationInv, NEW c \in Contents, SourceWrites(c) PROVE MigrationInv'
<1>1. UNCHANGED <<targets, work, plans, run>> /\ run' = None /\ ~active.target
  BY DEF SourceWrites
<1>2. active' = [target |-> FALSE, content |-> c] /\ source' = c
  BY DEF SourceWrites
<1>3. \A d \in Contents : \A n : Claims(d, n) => Claims(d, n)'
  BY <1>1 DEF Claims, TargetActive
<1>4. FilesInv'
  BY <1>1, <1>3 DEF MigrationInv, FilesInv, FilesSound
<1>5. PointerSound'
  BY <1>2 DEF PointerSound
<1> QED BY <1>1, <1>2, <1>4, <1>5 DEF MigrationInv, TypeInv

\* A fresh store: the source is active and nothing has been converted.
LEMMA InitSound == Init => MigrationInv
<1> SUFFICES ASSUME Init PROVE MigrationInv
  OBVIOUS
<1>1. EmptyWork \in Works /\ EmptyWork.journal = None /\ EmptyWork.backup = None /\ EmptyWork.shadow = None
  BY DEF EmptyWork, Works
<1>2. TypeInv
  BY <1>1 DEF Init, TypeInv
<1>3. \A c \in Contents : work[c].journal = None /\ FilesSound(c)
  BY <1>1 DEF Init, FilesSound
<1>4. None \notin Stages
  BY NoContent
<1>5. PointerSound
  BY <1>2 DEF Init, PointerSound, TypeInv
<1> QED BY <1>2, <1>3, <1>4, <1>5 DEF MigrationInv, FilesInv, Init

\* Every step of a run, of a caller or of a crash keeps the invariant.
LEMMA NextSound == MigrationInv /\ [Next]_vars => MigrationInv'
<1> SUFFICES ASSUME MigrationInv, [Next]_vars PROVE MigrationInv'
  OBVIOUS
<1>1. ASSUME Step PROVE MigrationInv'
  BY <1>1, BeginSound, AdvanceSound, PlanSound, JournalSound, BackupSound, RenameBackupSound, BuildSound,
     RenameShadowSound, PublishSound, SwitchSound, ReplaceSound, EndSound DEF Step
<1>2. ASSUME Stop PROVE MigrationInv'
  BY <1>2, EndSound
<1>3. ASSUME NEW p \in Plans, Start(p) PROVE MigrationInv'
  BY <1>3, StartSound
<1>4. ASSUME NEW n \in Notes, Plan(n) PROVE MigrationInv'
  BY <1>4, PlanMadeSound
<1>5. ASSUME NEW c \in Contents, SourceWrites(c) PROVE MigrationInv'
  BY <1>5, SourceWritesSound
<1>6. ASSUME UNCHANGED vars PROVE MigrationInv'
  BY <1>6 DEF vars, MigrationInv, TypeInv, PointerSound, FilesInv, FilesSound, RunSound, Knows, Claims,
              SourceActive, VerifyCurrentSource, SourceHolds, TargetActive, C
<1> QED BY <1>1, <1>2, <1>3, <1>4, <1>5, <1>6 DEF Next

\* For every source, plan and interruption the migration keeps its invariant.
THEOREM MigrationInvariance == Spec => []MigrationInv
<1> QED BY InitSound, NextSound, PTL DEF Spec

\* Wherever a migration is interrupted, what ACTIVE.json names can be opened: the
\* source as it was, or a complete and faithful target (open_active_readonly).
THEOREM ActiveAlwaysSound == Spec => []ActiveSound
<1>1. MigrationInv => ActiveSound
  BY BuildFaithful DEF MigrationInv, TypeInv, PointerSound, ActiveSound, Opens
<1> QED BY <1>1, MigrationInvariance, PTL

\* The journal never claims more than the files hold, and the content converted is the
\* content the replaced generation and the backup hold (_advance_to, _run_migration_locked).
THEOREM NothingEverLost == Spec => []NothingLost
<1>1. ASSUME MigrationInv, NEW c \in Contents
      PROVE  /\ work[c].shadow = Build(c) => Verified(c, work[c].shadow)
             /\ targets[c] = Build(c) => Verified(c, targets[c])
  <2>1. Build(c) \notin {None, Torn}
    BY <1>1, NoContent
  <2> QED BY <1>1, <2>1 DEF MigrationInv, FilesInv, FilesSound, Verified, BackupVerified, Complete, Validated
<1>2. MigrationInv => NothingLost
  <2> SUFFICES ASSUME MigrationInv PROVE NothingLost
    OBVIOUS
  <2>1. active.target => source = active.content /\ BackupVerified(active.content)
    BY DEF MigrationInv, PointerSound, BackupVerified
  <2>2. ASSUME NEW c \in Contents, work[c].journal \in Stages PROVE Claims(c, work[c].journal)
    BY <2>2 DEF MigrationInv, FilesInv
  <2> QED BY <1>1, <2>1, <2>2 DEF NothingLost, Claims, BackupVerified
<1> QED BY <1>2, MigrationInvariance, PTL
=============================================================================

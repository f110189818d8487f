---------------------------- MODULE Submissions -----------------------------
(***************************************************************************)
(* Staged registration of management jobs by the controller (experiments/  *)
(* host-job-submit) and the retirement of staged payloads (experiments/    *)
(* job-submission-retire and job-submission-retire-control).               *)
(*                                                                         *)
(* A stage is a signed record beside its payload file; it is received in   *)
(* chunks, marked INFLIGHT before the job is submitted and REGISTERED      *)
(* once the job is found in the job journal.  After an interruption the    *)
(* job journal decides, before an explicit retry.  Retirement records its  *)
(* intent, removes the payload, and releases the reservation last.         *)
(*                                                                         *)
(* The stage store, the job journal and the control policy are separate    *)
(* files; nothing is atomic across them.  Every step between two durable   *)
(* writes is an action, so callbacks, rotations of the controller and      *)
(* crashes fall between them.  Bytes, signatures and the migration of an   *)
(* older store are left out.                                               *)
(***************************************************************************)
EXTENDS JobControl

CONSTANTS Chunks  \* chunks of a payload

VARIABLES stages,   \* the .stage files: None or the record
          payload,  \* the .payload files: chunks present (no file counts as none)
          retired,  \* the .retire files: None or [phase, revision, fact]
          staging,  \* the store: "open" or "poisoned"
          call,     \* the operation in progress: None or [job, at]
          owned     \* history: the jobs the owner submitted under the id of a retired stage

files == <<stages, payload, retired>>
zvars == <<stages, payload, retired, staging, call>>
avars == <<svars, cvars, zvars, owned>>

StageStates == {"RECEIVING", "READY", "INFLIGHT", "RETRY_READY", "REGISTERED"}
StageRecords == [state : StageStates, received : 0..Chunks, revision : 1..MaxRevision, job : JobRecords]
RetireRecords == [phase : {"INTENT", "PAYLOAD_REMOVED", "TOMBSTONED"}, revision : 1..MaxRevision,
                  fact : BOOLEAN]
Calls == [job : Jobs, at : {"chunk", "inflight", "submitted", "unlink", "unlinked", "release"}]

ASSUME StageBounds == Chunks \in Nat \ {0}
ASSUME StageNone == None \notin StageRecords /\ None \notin RetireRecords /\ None \notin Calls

AInit ==
    /\ SInit /\ CInit
    /\ stages = [j \in Jobs |-> None] /\ payload = [j \in Jobs |-> 0]
    /\ retired = [j \in Jobs |-> None] /\ staging = "open" /\ call = None /\ owned = {}

-----------------------------------------------------------------------------
(* What the store reads *)

Stage(j) == IF stages[j] = None THEN "ABSENT" ELSE stages[j].state

\* A signed descriptor, the job as submitted, its target and the controller, in
\* the record of a stage that has received nothing.
Descriptor(action, cmd) ==
    [state |-> "RECEIVING", received |-> 0, revision |-> policy.revision, job |-> NewJob(action, cmd)]

\* The window and authority are those the descriptor was signed for.
OnTarget(j) == authority = stages[j].job.authority /\ Pin = stages[j].job.pin

\* _matching: not retired, and of the current controller and revision.
Matching(j) == stages[j] # None /\ retired[j] = None /\ Current(stages[j].revision)

\* _lookup: the job journal holds this very input for this very target.
SameInput(job, other) == IntentOf(job) = IntentOf(other) /\ job.authority = other.authority
Registered(j) == jobs[j] # None /\ SameInput(jobs[j], stages[j].job)

\* _bound_job: a registered stage has its job, any other has none.
BoundJob(j, fact) == IF fact THEN Registered(j) ELSE jobs[j] = None

\* audit: a record with its payload, and the record of a retirement with the payload
\* and the job it is bound to.
AuditStage(j) ==
    /\ payload[j] >= stages[j].received
    /\ Stage(j) # "RECEIVING" => stages[j].received = Chunks /\ payload[j] = Chunks
AuditRecord(j) ==
    /\ Stage(j) # "INFLIGHT" /\ retired[j].fact = (Stage(j) = "REGISTERED")
    /\ payload[j] > 0 => retired[j].phase = "INTENT"
AuditRetired(j) == AuditRecord(j) /\ BoundJob(j, retired[j].fact)
Audit ==
    \A j \in Jobs : stages[j] # None => IF retired[j] = None THEN AuditStage(j) ELSE AuditRetired(j)

\* _preflight: everything that jobs.submit will ask, without submitting.
Preflight(j) ==
    /\ Current(stages[j].revision) /\ OnTarget(j)
    /\ Cardinality({k \in Jobs : jobs[k] # None}) < MaxJobs
    /\ Fresh(stages[j].job) /\ Valid(stages[j].job)

-----------------------------------------------------------------------------
(* Writing.  A write that fails leaves the old file or the new one and     *)
(* poisons the store; the server then holds the host.                      *)

\* operation: every call starts with the audit.
Idle == Free /\ command = None /\ call = None /\ staging = "open" /\ control = "open" /\ Audit
At(j, point) == call = [job |-> j, at |-> point] /\ Free /\ staging = "open"

StageTo(j, state) == [stages EXCEPT ![j].state = state]

Persist(new, next) ==
    \/ stages' = new /\ call' = next /\ UNCHANGED <<staging, svars>>
    \/ /\ stages' = new \/ UNCHANGED stages
       /\ staging' = "poisoned" /\ call' = None
       /\ Hold("HELD") /\ UNCHANGED vars

PersistRetirement(new, next) ==
    \/ retired' = new /\ call' = next /\ UNCHANGED <<staging, svars>>
    \/ /\ retired' = new \/ UNCHANGED retired
       /\ staging' = "poisoned" /\ call' = None
       /\ Hold("HELD") /\ UNCHANGED vars

-----------------------------------------------------------------------------
(* begin and chunk *)

\* The identifier was never used for a stage, retired ones included.
Unstaged(j) == stages[j] = None /\ retired[j] = None

Begin(j, action, cmd) ==
    /\ Idle /\ journal = "open" /\ Current(policy.revision) /\ Unstaged(j)
    /\ (action = "compact") <=> (cmd = None)
    /\ jobs[j] = None => Cardinality({k \in Jobs : jobs[k] # None}) < MaxJobs
    /\ Persist([stages EXCEPT ![j] = Descriptor(action, cmd)], None)
    /\ UNCHANGED <<cvars, payload, retired>>

\* The payload is durable before the record counts it.
Chunk(j) ==
    /\ Idle /\ Matching(j) /\ Stage(j) = "RECEIVING" /\ OnTarget(j)
    /\ \/ /\ payload' = [payload EXCEPT ![j] = stages[j].received + 1]
          /\ call' = [job |-> j, at |-> "chunk"] /\ UNCHANGED <<staging, svars>>
       \/ /\ \E more \in 0..1 : payload' = [payload EXCEPT ![j] = stages[j].received + more]
          /\ staging' = "poisoned" /\ call' = None /\ Hold("HELD") /\ UNCHANGED vars
    /\ UNCHANGED <<cvars, stages, retired>>

Counted(j) ==
    [stages EXCEPT ![j].received = @ + 1,
                   ![j].state = IF stages[j].received + 1 = Chunks THEN "READY" ELSE @]

\* The record, after a second look at controller and target.
ChunkRecord(j) ==
    /\ At(j, "chunk") /\ Current(stages[j].revision) /\ OnTarget(j)
    /\ Persist(Counted(j), None)
    /\ UNCHANGED <<cvars, payload, retired>>

-----------------------------------------------------------------------------
(* submit, retry and reconcile *)

\* submit in READY and retry in RETRY_READY: the job journal is asked first.
Submittable(j) == Matching(j) /\ Stage(j) \in {"READY", "RETRY_READY"} /\ journal = "open"

SubmitFound(j) ==
    /\ Idle /\ Submittable(j) /\ Registered(j)
    /\ Persist(StageTo(j, "REGISTERED"), None)
    /\ UNCHANGED <<cvars, payload, retired>>

\* _dispatch up to the durable INFLIGHT.
SubmitBegin(j) ==
    /\ Idle /\ Submittable(j) /\ jobs[j] = None /\ Preflight(j)
    /\ Persist(StageTo(j, "INFLIGHT"), [job |-> j, at |-> "inflight"])
    /\ UNCHANGED <<cvars, payload, retired>>

\* jobs.submit; a job journal poisoned by it holds the host.
SubmitJobs(j) ==
    /\ At(j, "inflight") /\ Current(stages[j].revision) /\ OnTarget(j)
    /\ Submit(j, stages[j].job.action, stages[j].job.cmd)
    /\ IF journal' = "open"
       THEN call' = [job |-> j, at |-> "submitted"] /\ UNCHANGED owner
       ELSE call' = None /\ Hold("HELD")
    /\ UNCHANGED <<cvars, files, staging>>

SubmitRegister(j) ==
    /\ At(j, "submitted") /\ Current(stages[j].revision) /\ Registered(j)
    /\ Persist(StageTo(j, "REGISTERED"), None)
    /\ UNCHANGED <<cvars, payload, retired>>

\* reconcile of the current controller: the job, or RETRY_READY after a preflight.
Reconcilable(j) == Matching(j) /\ Stage(j) \in {"INFLIGHT", "RETRY_READY"} /\ journal = "open"

ReconcileStage(j) ==
    /\ Idle /\ Reconcilable(j)
    /\ \/ Registered(j) /\ Persist(StageTo(j, "REGISTERED"), None)
       \/ /\ jobs[j] = None /\ Preflight(j) /\ Stage(j) = "INFLIGHT"
          /\ Persist(StageTo(j, "RETRY_READY"), None)
    /\ UNCHANGED <<cvars, payload, retired>>

\* reconcile_registration, also by a later controller: no preflight.
ReconcileRegistration(j) ==
    /\ Idle /\ Current(policy.revision) /\ retired[j] = None /\ Stage(j) = "INFLIGHT" /\ journal = "open"
    /\ \/ Registered(j) /\ Persist(StageTo(j, "REGISTERED"), None)
       \/ jobs[j] = None /\ Persist(StageTo(j, "RETRY_READY"), None)
    /\ UNCHANGED <<cvars, payload, retired>>

-----------------------------------------------------------------------------
(* retire and rebind *)

\* An INFLIGHT stage must be reconciled before it is retired.
RetirableAny(j) == stages[j] # None
Retirable(j) == stages[j] # None /\ Stage(j) # "INFLIGHT"

\* Mutant: a retirement that is not finished may be requested afresh.
NotTombstoned(j) == retired[j] # None => retired[j].phase # "TOMBSTONED"
\* There is no retirement file yet.
Unretired(j) == retired[j] = None

RetireTo(j, phase) == [retired EXCEPT ![j].phase = phase]

RetireBegin(j) ==
    /\ Idle /\ journal = "open" /\ Current(policy.revision) /\ Unretired(j)
    /\ Retirable(j) /\ BoundJob(j, Stage(j) = "REGISTERED")
    /\ PersistRetirement([retired EXCEPT ![j] = [phase |-> "INTENT", revision |-> policy.revision,
                                                 fact |-> Stage(j) = "REGISTERED"]],
                         [job |-> j, at |-> "unlink"])
    /\ UNCHANGED <<cvars, stages, payload>>

\* The request a retirement was last approved with, presented again.
RetireResume(j) ==
    /\ Idle /\ journal = "open" /\ retired[j] # None /\ Current(retired[j].revision)
    /\ retired[j].phase # "TOMBSTONED"
    /\ call' = [job |-> j, at |-> IF retired[j].phase = "INTENT" THEN "unlink" ELSE "release"]
    /\ UNCHANGED <<svars, cvars, files, staging>>

\* The unlink and its directory sync.
RetireUnlink(j) ==
    /\ At(j, "unlink") /\ Current(retired[j].revision)
    /\ \/ payload' = [payload EXCEPT ![j] = 0] /\ call' = [job |-> j, at |-> "unlinked"]
          /\ UNCHANGED <<staging, svars>>
       \/ /\ payload' = [payload EXCEPT ![j] = 0] \/ UNCHANGED payload
          /\ staging' = "poisoned" /\ call' = None /\ Hold("HELD") /\ UNCHANGED vars
    /\ UNCHANGED <<cvars, stages, retired>>

\* The record says so once the payload is gone.
RetireRemoved(j) ==
    /\ At(j, "unlinked") /\ Current(retired[j].revision)
    /\ PersistRetirement(RetireTo(j, "PAYLOAD_REMOVED"), [job |-> j, at |-> "release"])
    /\ UNCHANGED <<cvars, stages, payload>>

RetireRelease(j) ==
    /\ At(j, "release") /\ Current(retired[j].revision)
    /\ PersistRetirement(RetireTo(j, "TOMBSTONED"), None)
    /\ UNCHANGED <<cvars, stages, payload>>

\* rebind: a later controller approves the same retirement.
Rebind(j) ==
    /\ Idle /\ journal = "open" /\ Current(policy.revision)
    /\ retired[j] # None /\ retired[j].revision < policy.revision
    /\ PersistRetirement([retired EXCEPT ![j].revision = policy.revision], None)
    /\ UNCHANGED <<cvars, stages, payload>>

\* A check fails or a callback raises between two writes: the call ends.
Interrupted ==
    /\ call # None /\ Free
    /\ call' = None
    /\ UNCHANGED <<svars, cvars, files, staging>>

-----------------------------------------------------------------------------
(* The host *)

StageStep(j) ==
    \/ \E action \in Actions, cmd \in Cmds \cup {None} : Begin(j, action, cmd)
    \/ Chunk(j) \/ ChunkRecord(j)
    \/ SubmitFound(j) \/ SubmitBegin(j) \/ SubmitJobs(j) \/ SubmitRegister(j)
    \/ ReconcileStage(j) \/ ReconcileRegistration(j)
RetireStep(j) ==
    \/ RetireBegin(j) \/ RetireResume(j) \/ RetireUnlink(j) \/ RetireRemoved(j) \/ RetireRelease(j)
    \/ Rebind(j)

\* One thread: the owner loop turns, and its owner calls submit, schedule and
\* reconcile, only between calls.  submit asks nothing of the stages.
Between == command = None /\ call = None
OwnerTurn ==
    /\ Between
    /\ \/ \E j \in Jobs : SubmitUnder(j) /\ owned' = IF retired[j] = None THEN owned ELSE owned \cup {j}
       \/ /\ \/ \E j \in Jobs : Schedule(j, FALSE) \/ ReconcileJob(j)
             \/ Tick \/ TickFails
          /\ UNCHANGED owned
    /\ UNCHANGED <<cvars, zvars>>

\* A crash ends every call; starting again reopens all journals, audited.
Crashed ==
    /\ HostCrash /\ CRestart
    /\ staging' = "open" /\ call' = None /\ UNCHANGED files
Started == HostStart /\ Audit /\ UNCHANGED <<cvars, zvars>>

ControlStep ==
    \/ /\ call = None
       /\ \E i \in Intents : Execute(i)
    \/ Dispatch \/ Record \/ Abandon

\* What a callback, or the owner between calls, may change.
Callback ==
    \/ \E owns \in BOOLEAN : Rotate([revision |-> policy.revision + 1, owner |-> owns]) /\ UNCHANGED zvars
    \/ /\ host = "up" /\ UNCHANGED <<owner, cvars, zvars>>
       /\ \E action \in Actions, cmd \in Cmds \cup {None} : Direct(action, cmd)

ANext ==
    \/ /\ \/ \E j \in Jobs : StageStep(j) \/ RetireStep(j)
          \/ Interrupted \/ Crashed \/ Started \/ Callback
          \/ ControlStep /\ UNCHANGED zvars
       /\ UNCHANGED owned
    \/ OwnerTurn

ASpec == AInit /\ [][ANext]_avars

-----------------------------------------------------------------------------
\* The audit that every operation and every start begin with accepts the files of
\* any moment: a payload is never shorter than its record says, a stage that is not
\* being received has all of it, a retirement keeps the payload only while it is an
\* INTENT and never covers an INFLIGHT stage.  REGISTERED is true for ever: the job of
\* that stage is in the job journal with the staged input and target, whatever
\* interrupted its registration and whoever reconciled it.  And no job appears under a
\* stage that was retired unregistered, which the audit would refuse from then on,
\* unless the owner itself submitted one under that id: submit() does not look.
StagesReopen ==
    \A j \in Jobs :
        /\ stages[j] = None => payload[j] = 0 /\ retired[j] = None
        /\ stages[j] # None =>
              IF retired[j] = None THEN AuditStage(j)
              ELSE AuditRecord(j) /\ (BoundJob(j, retired[j].fact) \/ j \in owned)
        /\ Stage(j) = "REGISTERED" => Registered(j)

\* PHASES.index, none before the first.
PhaseIndex(r) ==
    IF r = None THEN 0
    ELSE CASE r.phase = "INTENT" -> 1 [] r.phase = "PAYLOAD_REMOVED" -> 2 [] OTHER -> 3

\* RetiringSubmissions.verify_pin: every pinned stage is there with its descriptor,
\* its retirement has not gone back and keeps the approvals it had.
StagePinHolds(pin, now) ==
    \A j \in Jobs : pin.stages[j] # None =>
        /\ now.stages[j] # None /\ now.stages[j].revision = pin.stages[j].revision
        /\ SameInput(now.stages[j].job, pin.stages[j].job)
        /\ PhaseIndex(now.retired[j]) >= PhaseIndex(pin.retired[j])
        /\ pin.retired[j] # None => now.retired[j].revision >= pin.retired[j].revision

\* The pins taken before any step are accepted after it, through failed writes,
\* crashes, reconciliation, retries, rotations and rebinding: an owner who keeps
\* the pins of the window, job, control and stage stores outside of them never
\* has a pin refused that the stores themselves gave out.
PinsAccepted == [][
    /\ rows' # rows => WindowPinHolds(Pin, rows')
    /\ jobs' # jobs => JobPinHolds(jobs, jobs')
    /\ <<policy, ops>>' # <<policy, ops>> =>
          ControlPinHolds([policy |-> policy, ops |-> ops], [policy |-> policy', ops |-> ops'])
    /\ files' # files =>
          StagePinHolds([stages |-> stages, retired |-> retired], [stages |-> stages', retired |-> retired'])
    ]_avars
=============================================================================

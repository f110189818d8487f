--------------------------- MODULE ManagementJobs ---------------------------
(***************************************************************************)
(* The durable management jobs of the keeper host                          *)
(* (experiments/host-management-jobs): a job is submitted against the      *)
(* current window, advanced one stage per step, marked EXECUTING in its    *)
(* own file before its effect, and after an interruption reconciled        *)
(* against the window itself before an explicit retry.                     *)
(*                                                                         *)
(* The job files and the window store are two durable domains; nothing is  *)
(* atomic across them.  The window store appears as the rows the backend   *)
(* reads and changes.  Signatures, archives and byte budgets are left out; *)
(* a signed command is a model value.                                      *)
(***************************************************************************)
EXTENDS Naturals, Sequences, FiniteSets

CONSTANTS Jobs, Cmds, None,
          MaxJobs,      \* max_jobs
          MaxEvents,    \* MAX_EVENTS, the history limit of one job
          MaxWindows,   \* bound on windows opened
          MaxAuthority  \* bound on authority changes

VARIABLES jobs,      \* the job files: None or the record
          rows,      \* the window store: one row per window
          authority, \* the keeper's authority
          journal,   \* "open", or "closed": not open, or poisoned and refusing every call
          running,   \* the job inside _execute: None, or [job, stage]
          active,    \* transfers in progress: connections or reader pins
          applies    \* how often each job's effect was carried out

vars == <<jobs, rows, authority, journal, running, active, applies>>

Actions == {"open", "close", "compact", "retire"}
Cancellable == {"QUEUED", "VALIDATED", "PREPARED"}
Unresolved == {"EXECUTING", "OUTCOME_UNKNOWN", "RETRY_READY"}
Edges == {<<"QUEUED", "VALIDATED">>, <<"QUEUED", "CANCELLED">>,
          <<"VALIDATED", "PREPARED">>, <<"VALIDATED", "CANCELLED">>,
          <<"PREPARED", "EXECUTING">>, <<"PREPARED", "CANCELLED">>,
          <<"EXECUTING", "OUTCOME_UNKNOWN">>, <<"EXECUTING", "RETRY_READY">>, <<"EXECUTING", "SUCCEEDED">>,
          <<"OUTCOME_UNKNOWN", "RETRY_READY">>, <<"OUTCOME_UNKNOWN", "SUCCEEDED">>,
          <<"RETRY_READY", "EXECUTING">>, <<"RETRY_READY", "SUCCEEDED">>}

\* A window has its close command from its closing on.
Rows == {row \in [open : Cmds, phase : {"OPEN", "CLOSED", "CLEANED"}, close : Cmds \cup {None},
                  retired : SUBSET Cmds] :
            (row.close = None) <=> (row.phase = "OPEN")}
Pins == [sequence : 0..MaxWindows, window : Cmds \cup {None}, close : Cmds \cup {None},
         phase : {"EMPTY", "OPEN", "CLOSED", "CLEANED"}]
JobRecords == [action : Actions, cmd : Cmds \cup {None}, authority : 0..MaxAuthority, pin : Pins,
               state : Cancellable \cup Unresolved \cup {"SUCCEEDED", "CANCELLED"},
               events : 1..MaxEvents]

\* The job inside _execute.
Runs == [job : Jobs, stage : {"marked", "applied"}]

\* A history has room for a job that is cancelled as late as possible; None is
\* none of the values it stands beside.
ASSUME JobBounds == MaxEvents \in Nat /\ MaxEvents >= 4 /\ MaxWindows \in Nat /\ MaxAuthority \in Nat
ASSUME JobNone == None \notin Jobs /\ None \notin Cmds /\ None \notin JobRecords /\ None \notin Runs

Init ==
    /\ jobs = [j \in Jobs |-> None] /\ rows = <<>> /\ authority = 0
    /\ journal = "open" /\ running = None /\ active = FALSE
    /\ applies = [j \in Jobs |-> 0]

-----------------------------------------------------------------------------
(* The backend *)

Phase == IF rows = <<>> THEN "EMPTY" ELSE rows[Len(rows)].phase
Pin == [sequence |-> Len(rows),
        window |-> IF rows = <<>> THEN None ELSE rows[Len(rows)].open,
        close |-> IF rows = <<>> THEN None ELSE rows[Len(rows)].close,
        phase |-> Phase]

\* The window transition a command stands for is possible now.
Possible(action, cmd) ==
    CASE action = "open" -> Phase \in {"EMPTY", "CLEANED"} /\ Len(rows) < MaxWindows
      [] action = "close" -> Phase = "OPEN"
      [] action = "compact" -> Phase = "CLOSED"
      [] OTHER -> Phase = "OPEN"

Effect(action, cmd) ==
    LET last == Len(rows)
    IN CASE action = "open" -> Append(rows, [open |-> cmd, phase |-> "OPEN", close |-> None, retired |-> {}])
         [] action = "close" -> [rows EXCEPT ![last].phase = "CLOSED", ![last].close = cmd]
         [] action = "compact" -> [rows EXCEPT ![last].phase = "CLEANED"]
         [] OTHER -> [rows EXCEPT ![last].retired = @ \cup {cmd}]

\* WindowBackend.validate: authority, window and phase are those of submission.
Valid(job) == authority = job.authority /\ Pin = job.pin /\ Possible(job.action, job.cmd)

\* WindowBackend.probe: what the stored rows say of the job's effect, whatever
\* happened to the window since.  "CHANGED" is JOB_TARGET_CHANGED.
ProbeRow(job, row) ==
    CASE job.action = "close" -> IF row.phase = "OPEN" THEN "PENDING"
                                 ELSE IF row.close = job.cmd THEN "APPLIED" ELSE "CHANGED"
      [] job.action = "compact" -> IF row.phase = "CLEANED" THEN "APPLIED" ELSE "PENDING"
      [] OTHER -> IF job.cmd \in row.retired THEN "APPLIED"
                  ELSE IF row.phase = "OPEN" THEN "PENDING" ELSE "CHANGED"
Probe(job) ==
    LET n == job.pin.sequence
    IN IF job.action = "open"
       THEN IF n + 1 > Len(rows) THEN "PENDING"
            ELSE IF rows[n + 1].open = job.cmd THEN "APPLIED" ELSE "CHANGED"
       ELSE ProbeRow(job, rows[n])

-----------------------------------------------------------------------------
(* The journal *)

Enter == journal = "open" /\ running = None
State(j) == IF jobs[j] = None THEN "ABSENT" ELSE jobs[j].state

Moved(j, state) == [jobs EXCEPT ![j].state = state, ![j].events = @ + 1]

\* shape refuses a record whose history leaves the table of edges.
Follows(j, state) == <<State(j), state>> \in Edges

\* transition: durable, or the write failed somewhere around the replacement,
\* which poisons the journal; then the file is the old one or the new one.
Written(j, state) == Follows(j, state) /\ jobs' = Moved(j, state) /\ UNCHANGED journal
WriteFails(j, state) ==
    /\ Follows(j, state)
    /\ journal' = "closed"
    /\ jobs' = Moved(j, state) \/ UNCHANGED jobs
Transition(j, state) == Written(j, state) \/ WriteFails(j, state)

\* The intent that makes two submissions the same work.
IntentOf(job) == <<job.action, job.cmd, job.pin>>

\* No other job carries this intent (JOB_ALIAS).
Fresh(job) == \A k \in Jobs : jobs[k] # None => IntentOf(jobs[k]) # IntentOf(job)

\* The record of a submission, bound to the current authority and window.
NewJob(action, cmd) ==
    [action |-> action, cmd |-> cmd, authority |-> authority, pin |-> Pin, state |-> "QUEUED", events |-> 1]

Submit(j, action, cmd) ==
    LET job == NewJob(action, cmd)
        written == [jobs EXCEPT ![j] = job]
    IN /\ Enter /\ jobs[j] = None
       /\ (action = "compact") <=> (cmd = None)
       /\ Cardinality({k \in Jobs : jobs[k] # None}) < MaxJobs
       /\ Fresh(job) /\ Valid(job)
       /\ \/ jobs' = written /\ UNCHANGED journal
          \/ journal' = "closed" /\ (jobs' = written \/ UNCHANGED jobs)
       /\ UNCHANGED <<rows, authority, running, active, applies>>

\* cancel up to the last state before the EXECUTING marker.
MayCancel(state) == state \in Cancellable

Cancel(j) ==
    /\ Enter /\ MayCancel(State(j))
    /\ Transition(j, "CANCELLED")
    /\ UNCHANGED <<rows, authority, running, active, applies>>

\* step in QUEUED and VALIDATED.
StepCheck(j) ==
    /\ Enter /\ State(j) \in {"QUEUED", "VALIDATED"} /\ Valid(jobs[j])
    /\ Transition(j, IF State(j) = "QUEUED" THEN "VALIDATED" ELSE "PREPARED")
    /\ UNCHANGED <<rows, authority, running, active, applies>>

\* Room for EXECUTING, its outcome and the reconciled success.
HistoryRoom(job) == job.events <= MaxEvents - 3

\* The probe finds the effect still to be done.
NotChanged(j) == Probe(jobs[j]) # "CHANGED"
NothingApplied(j) == Probe(jobs[j]) = "PENDING"

\* step in PREPARED, and retry once the probe finds nothing applied.
MayExecute(j) ==
    \/ State(j) = "PREPARED"
    \/ State(j) = "RETRY_READY" /\ NothingApplied(j)

\* EXECUTING is durable before the effect is dispatched.
Marked(j) == Written(j, "EXECUTING")

\* _execute up to the durable marker: history room, no transfers, valid again.
ExecuteBegin(j) ==
    /\ Enter /\ MayExecute(j) /\ Valid(jobs[j]) /\ HistoryRoom(jobs[j]) /\ ~active
    /\ \/ Marked(j) /\ running' = [job |-> j, stage |-> "marked"]
       \/ WriteFails(j, "EXECUTING") /\ UNCHANGED running
    /\ UNCHANGED <<rows, authority, active, applies>>

\* apply, after the second look at activity and validity.
ExecuteApply(j) ==
    /\ running = [job |-> j, stage |-> "marked"]
    /\ ~active /\ Valid(jobs[j])
    /\ rows' = Effect(jobs[j].action, jobs[j].cmd)
    /\ applies' = [applies EXCEPT ![j] = @ + 1]
    /\ running' = [job |-> j, stage |-> "applied"]
    /\ UNCHANGED <<jobs, authority, journal, active>>

\* The probe after apply confirms the effect.
Confirmed(j) == Probe(jobs[j]) = "APPLIED"

\* SUCCEEDED, or OUTCOME_UNKNOWN after any exception since the marker; a journal
\* poisoned on the way keeps EXECUTING as it is.
ExecuteEnd(j, state) ==
    /\ running # None /\ running.job = j
    /\ state = "SUCCEEDED" => running.stage = "applied" /\ Confirmed(j)
    /\ running' = None
    /\ Transition(j, state)
    /\ UNCHANGED <<rows, authority, active, applies>>

\* reconcile: the rows decide.
ReconcileApplied(j) ==
    /\ Enter /\ State(j) \in Unresolved /\ Confirmed(j)
    /\ Transition(j, "SUCCEEDED")
    /\ UNCHANGED <<rows, authority, running, active, applies>>

ReconcilePending(j) ==
    /\ Enter /\ State(j) \in {"EXECUTING", "OUTCOME_UNKNOWN"}
    /\ NothingApplied(j) /\ jobs[j].events <= MaxEvents - 2 /\ Valid(jobs[j])
    /\ Transition(j, "RETRY_READY")
    /\ UNCHANGED <<rows, authority, running, active, applies>>

\* retry whose probe finds the effect.
RetryApplied(j) ==
    /\ Enter /\ State(j) = "RETRY_READY" /\ Confirmed(j)
    /\ Transition(j, "SUCCEEDED")
    /\ UNCHANGED <<rows, authority, running, active, applies>>

-----------------------------------------------------------------------------
(* Process and environment *)

Crash ==
    /\ journal = "open"
    /\ journal' = "closed" /\ running' = None
    /\ UNCHANGED <<jobs, rows, authority, active, applies>>

Reopen ==
    /\ journal = "closed"
    /\ journal' = "open"
    /\ UNCHANGED <<jobs, rows, authority, running, active, applies>>

\* The owner changes the window without a job, also from a callback.
Direct(action, cmd) ==
    /\ (action = "compact") <=> (cmd = None)
    /\ Possible(action, cmd) /\ rows' = Effect(action, cmd)
    /\ UNCHANGED <<jobs, authority, journal, running, active, applies>>

Reauthorize ==
    /\ authority < MaxAuthority /\ authority' = authority + 1
    /\ UNCHANGED <<jobs, rows, journal, running, active, applies>>

Transfer ==
    /\ active' = ~active
    /\ UNCHANGED <<jobs, rows, authority, journal, running, applies>>

-----------------------------------------------------------------------------
(* Pins: what an owner keeps outside the stores, to refuse an older copy. *)

\* ReplaySpool.verify_pin: the pinned window is still there, with its close.
WindowPinHolds(pin, now) ==
    /\ pin.sequence <= Len(now)
    /\ pin.sequence > 0 => /\ now[pin.sequence].open = pin.window
                           /\ pin.close # None => now[pin.sequence].close = pin.close

\* ManagementJobs.verify_pin: every pinned job has the pinned history at the
\* start of its own.
SameSubmission(job, other) == <<IntentOf(job), job.authority>> = <<IntentOf(other), other.authority>>
JobPinHolds(pin, now) ==
    \A j \in Jobs : pin[j] # None =>
        /\ now[j] # None /\ SameSubmission(pin[j], now[j])
        /\ now[j].events >= pin[j].events
        /\ now[j].events = pin[j].events => now[j].state = pin[j].state

-----------------------------------------------------------------------------
\* A job's record is one that a reader accepts, within its bounded history, and
\* true of its effect, through any crash, journal failure, reconcile and retry:
\* a job whose effect was carried out shows EXECUTING, OUTCOME_UNKNOWN,
\* RETRY_READY or SUCCEEDED, never a state from which it may still be cancelled,
\* and was carried out once; while it is unresolved its history has room for the
\* record of success; and a recorded success stays provable from the window
\* store, which _status probes again.
EffectsTrue ==
    /\ \A n \in DOMAIN rows : rows[n] \in Rows
    /\ \A j \in Jobs :
        /\ jobs[j] \in JobRecords \cup {None}
        /\ applies[j] <= 1
        /\ applies[j] > 0 => State(j) \in Unresolved \cup {"SUCCEEDED"}
        /\ State(j) \in Unresolved => jobs[j].events < MaxEvents
        /\ State(j) = "SUCCEEDED" => Probe(jobs[j]) = "APPLIED"
=============================================================================

-------------------------- MODULE SubmissionsProofs -------------------------
(***************************************************************************)
(* Proofs about the management jobs, their owner loop, and the control     *)
(* operations and staged submissions over them, for every set of jobs,     *)
(* commands and operations and every bound.                                *)
(*                                                                         *)
(* Of the jobs under the owner loop (the specification of JobScheduler):   *)
(* what a job's record says of its effect is true (EffectsTrue), and       *)
(* clients are accepted only while no job is selected or unresolved        *)
(* (ServingResolved).                                                      *)
(*                                                                         *)
(* Of the submissions: an operation is dispatched at most once             *)
(* (DispatchedOnce), the stage store reopens whatever interrupted it       *)
(* (StagesReopen), and the pins the stores give out stay acceptable        *)
(* (PinsAccepted).  What the first part establishes of the scheduled host  *)
(* holds under these calls too.                                            *)
(***************************************************************************)
EXTENDS Submissions, TLAPS

USE ZenonT(60)

-----------------------------------------------------------------------------
(* I. The jobs and their owner loop.                                         *)

(* The inductive invariant of the job files and the window store. *)

JobType ==
    /\ jobs \in [Jobs -> JobRecords \cup {None}]
    /\ rows \in Seq(Rows) /\ Len(rows) <= MaxWindows
    /\ authority \in 0..MaxAuthority
    /\ running \in Runs \cup {None}
    /\ applies \in [Jobs -> Nat]

\* How long the history of a job in each state may be: the transitions still
\* ahead of it, the record of success last, must fit.
HistoryFits(job) ==
    /\ job.state = "QUEUED" => job.events <= 1
    /\ job.state = "VALIDATED" => job.events <= 2
    /\ job.state = "PREPARED" => job.events <= 3
    /\ job.state = "EXECUTING" => job.events <= MaxEvents - 2
    /\ job.state \in {"OUTCOME_UNKNOWN", "RETRY_READY"} => job.events <= MaxEvents - 1

\* The window row a job is about exists, apart from the one it is to open.
Targeted(job) ==
    /\ (job.action = "compact") <=> (job.cmd = None)
    /\ job.pin.sequence <= Len(rows)
    /\ job.action # "open" => job.pin.sequence >= 1

\* An effect that was carried out, and one recorded as a success, is provable.
JobSound(j) ==
    /\ jobs[j] # None => HistoryFits(jobs[j]) /\ Targeted(jobs[j])
    /\ applies[j] <= 1
    /\ applies[j] > 0 => State(j) \in Unresolved \cup {"SUCCEEDED"} /\ Probe(jobs[j]) = "APPLIED"
    /\ State(j) = "SUCCEEDED" => Probe(jobs[j]) = "APPLIED"

\* The job inside _execute is marked, and before its apply nothing was applied.
RunSound ==
    running # None =>
        /\ State(running.job) = "EXECUTING"
        /\ running.stage = "marked" => applies[running.job] = 0

JobInv == JobType /\ (\A j \in Jobs : JobSound(j)) /\ RunSound

-----------------------------------------------------------------------------
(* The window store only moves on. *)

RowsOnward ==
    /\ Len(rows) <= Len(rows')
    /\ \A n \in 1..Len(rows) :
          /\ rows'[n].open = rows[n].open
          /\ rows[n].phase # "OPEN" => rows'[n].phase # "OPEN" /\ rows'[n].close = rows[n].close
          /\ rows[n].phase = "CLEANED" => rows'[n].phase = "CLEANED"
          /\ rows[n].retired \subseteq rows'[n].retired

\* Every window transition of WindowBackend.apply keeps the rows well formed,
\* and takes nothing back of what an earlier one recorded.
LEMMA EffectOnward ==
    ASSUME JobType, NEW action \in Actions, NEW cmd \in Cmds \cup {None},
           (action = "compact") <=> (cmd = None),
           Possible(action, cmd), rows' = Effect(action, cmd)
    PROVE  rows' \in Seq(Rows) /\ Len(rows') <= MaxWindows /\ RowsOnward
<1> USE JobBounds, JobNone
<1>1. rows \in Seq(Rows) /\ Len(rows) \in Nat
  BY SMTT(60) DEF JobType
<1>2. CASE action = "open"
  <2> DEFINE new == [open |-> cmd, phase |-> "OPEN", close |-> None, retired |-> {}]
  <2>1. new \in Rows
    BY <1>2 DEF Rows
  <2>2. rows' = Append(rows, new) /\ Len(rows) < MaxWindows
    BY <1>2 DEF Effect, Possible
  <2>3. rows' \in Seq(Rows) /\ Len(rows') = Len(rows) + 1
    BY <1>1, <2>1, <2>2, SMTT(60)
  <2>4. \A n \in 1..Len(rows) : rows'[n] = rows[n]
    BY <1>1, <2>1, <2>2, SMTT(60)
  <2> QED
    BY <1>1, <2>2, <2>3, <2>4, MaxWindows \in Nat, SMTT(60) DEF RowsOnward
<1>3. CASE action # "open"
  <2> DEFINE last == Len(rows)
  <2>1. rows # <<>> /\ Phase = rows[last].phase /\ last \in 1..Len(rows)
    BY <1>1, <1>3, SMTT(60) DEF Possible, Phase, Actions
  <2>2. rows[last] \in Rows
    BY <1>1, <2>1, SMTT(60)
  <2>3. PICK row \in Rows :
           /\ rows' = [rows EXCEPT ![last] = row]
           /\ row.open = rows[last].open
           /\ rows[last].phase # "OPEN" => row.phase # "OPEN" /\ row.close = rows[last].close
           /\ rows[last].phase # "CLEANED"
           /\ rows[last].retired \subseteq row.retired
    <3>1. CASE action = "close"
      <4> DEFINE row == [rows[last] EXCEPT !.phase = "CLOSED", !.close = cmd]
      <4>1. row \in Rows /\ row.open = rows[last].open /\ row.retired = rows[last].retired
        BY <2>2, <3>1 DEF Rows
      <4>2. rows' = [rows EXCEPT ![last] = row] /\ rows[last].phase = "OPEN"
        BY <1>1, <2>1, <3>1 DEF Effect, Possible
      <4> QED BY <4>1, <4>2
    <3>2. CASE action = "compact"
      <4> DEFINE row == [rows[last] EXCEPT !.phase = "CLEANED"]
      <4>1. rows' = [rows EXCEPT ![last] = row] /\ rows[last].phase = "CLOSED"
        BY <1>1, <2>1, <3>2 DEF Effect, Possible
      <4>2. /\ row \in Rows /\ row.open = rows[last].open /\ row.retired = rows[last].retired
            /\ row.phase = "CLEANED" /\ row.close = rows[last].close
        BY <2>2, <4>1 DEF Rows
      <4> QED BY <4>1, <4>2
    <3>3. CASE action = "retire"
      <4> DEFINE row == [rows[last] EXCEPT !.retired = @ \cup {cmd}]
      <4>1. row \in Rows /\ row.open = rows[last].open /\ rows[last].retired \subseteq row.retired
        BY <2>2, <3>3 DEF Rows
      <4>2. rows' = [rows EXCEPT ![last] = row] /\ rows[last].phase = "OPEN"
        BY <1>1, <2>1, <3>3 DEF Effect, Possible
      <4> QED BY <4>1, <4>2
    <3> QED BY <1>3, <3>1, <3>2, <3>3 DEF Actions
  <2>4. rows' \in Seq(Rows) /\ Len(rows') = Len(rows)
    BY <1>1, <2>1, <2>3, SMTT(60)
  <2>5. rows'[last] = row /\ \A n \in 1..Len(rows) : n # last => rows'[n] = rows[n]
    BY <1>1, <2>1, <2>3, SMTT(60)
  <2>6. Len(rows) <= MaxWindows
    BY DEF JobType
  <2>7. ASSUME NEW n \in 1..Len(rows)
        PROVE  /\ rows'[n].open = rows[n].open
               /\ rows[n].phase # "OPEN" => rows'[n].phase # "OPEN" /\ rows'[n].close = rows[n].close
               /\ rows[n].phase = "CLEANED" => rows'[n].phase = "CLEANED"
               /\ rows[n].retired \subseteq rows'[n].retired
    <3>1. CASE n = last
      BY <2>3, <2>5, <3>1
    <3>2. CASE n # last
      BY <2>5, <3>2
    <3> QED BY <3>1, <3>2
  <2> QED BY <1>1, <2>4, <2>6, <2>7, SMTT(60) DEF RowsOnward
<1> QED BY <1>2, <1>3

\* What the probe once found applied it finds applied for ever, although the
\* window moves on or another job or the owner changes it.
LEMMA ProbeStable ==
    ASSUME JobType, NEW job \in JobRecords, Targeted(job), RowsOnward,
           rows' \in Seq(Rows), Probe(job) = "APPLIED"
    PROVE  Probe(job)' = "APPLIED" /\ Targeted(job)'
<1> DEFINE n == job.pin.sequence
<1>1. n \in Nat /\ Len(rows) \in Nat /\ Len(rows') \in Nat /\ n <= Len(rows) /\ Len(rows) <= Len(rows')
  BY JobBounds, SMTT(60) DEF JobType, JobRecords, Pins, Targeted, RowsOnward
<1>2. Targeted(job)'
  BY <1>1, SMTT(60) DEF Targeted
<1>3. CASE job.action = "open"
  <2>1. n + 1 \in 1..Len(rows) /\ rows[n + 1].open = job.cmd
    BY <1>1, <1>3, SMTT(60) DEF Probe
  <2>2. rows'[n + 1].open = job.cmd /\ ~(n + 1 > Len(rows'))
    BY <1>1, <2>1, SMTT(60) DEF RowsOnward
  <2> QED BY <1>2, <1>3, <2>2 DEF Probe
<1>4. CASE job.action # "open"
  <2>1. n \in 1..Len(rows)
    BY <1>1, <1>4, SMTT(60) DEF Targeted
  <2>2. /\ rows[n].phase # "OPEN" => rows'[n].phase # "OPEN" /\ rows'[n].close = rows[n].close
        /\ rows[n].phase = "CLEANED" => rows'[n].phase = "CLEANED"
        /\ rows[n].retired \subseteq rows'[n].retired
    BY <2>1 DEF RowsOnward
  <2>3. ProbeRow(job, rows[n]) = "APPLIED"
    BY <1>4 DEF Probe
  <2>4. ProbeRow(job, rows'[n]) = "APPLIED"
    BY <2>2, <2>3, <1>4 DEF ProbeRow, JobRecords, Actions
  <2> QED BY <1>2, <1>4, <2>4 DEF Probe
<1> QED BY <1>3, <1>4

-----------------------------------------------------------------------------
(* The steps of the job files. *)

\* The invariant holds of the empty journal and window store.
LEMMA JobInitially == Init => JobInv
<1> SUFFICES ASSUME Init PROVE JobInv
  OBVIOUS
<1> USE JobBounds, JobNone DEF Init
<1>1. JobType
  BY SMTT(60) DEF JobType
<1>2. \A j \in Jobs : JobSound(j)
  BY SMTT(60) DEF JobSound, State, Unresolved
<1> QED BY <1>1, <1>2 DEF JobInv, RunSound

\* What leaves the files alone, crashes and failed writes included, keeps the
\* invariant; a job inside _execute may be cut short.
LEMMA JobQuiet ==
    ASSUME JobInv, UNCHANGED <<jobs, rows, applies>>,
           authority' \in 0..MaxAuthority, running' \in {running, None}
    PROVE  JobInv'
<1>1. JobType'
  BY DEF JobInv, JobType
<1>2. \A j \in Jobs : JobSound(j)'
  <2> SUFFICES ASSUME NEW j \in Jobs PROVE JobSound(j)'
    OBVIOUS
  <2>1. JobSound(j)
    BY DEF JobInv
  <2> QED BY <2>1 DEF JobSound, State, Probe, ProbeRow, Targeted, HistoryFits
<1>3. RunSound'
  BY DEF JobInv, RunSound, State
<1> QED BY <1>1, <1>2, <1>3 DEF JobInv

\* One record is replaced by one of the same submission, or written for the
\* first time, and it is sound; the other records are left alone.
LEMMA JobReplaced ==
    ASSUME JobInv, NEW j \in Jobs, NEW job \in JobRecords,
           jobs' = [jobs EXCEPT ![j] = job], UNCHANGED <<rows, authority, applies>>,
           HistoryFits(job), Targeted(job),
           applies[j] > 0 => job.state \in Unresolved \cup {"SUCCEEDED"} /\ Probe(job) = "APPLIED",
           job.state = "SUCCEEDED" => Probe(job) = "APPLIED",
           running' \in Runs \cup {None}, RunSound'
    PROVE  JobInv'
<1>1. /\ jobs \in [Jobs -> JobRecords \cup {None}] /\ jobs'[j] = job
      /\ \A k \in Jobs : k # j => jobs'[k] = jobs[k]
  BY DEF JobInv, JobType
<1>2. JobType'
  BY <1>1 DEF JobInv, JobType
<1>3. ASSUME NEW k \in Jobs PROVE JobSound(k)'
  <2>1. JobSound(k)
    BY DEF JobInv
  <2>2. CASE k = j
    <3>1. State(k)' = job.state /\ jobs'[k] = job /\ job # None
      BY <1>1, <2>2, JobNone DEF State
    <3>2. Probe(jobs[k])' = Probe(job) /\ Targeted(job)'
      BY <3>1 DEF Probe, ProbeRow, Targeted
    <3>3. applies'[k] = applies[j] /\ applies[k] <= 1
      BY <2>1, <2>2 DEF JobSound
    <3>4. HistoryFits(jobs[k])' /\ Targeted(jobs[k])'
      BY <3>1, <3>2 DEF HistoryFits, Targeted
    <3> QED BY <2>2, <3>1, <3>2, <3>3, <3>4 DEF JobSound
  <2>3. CASE k # j
    <3>1. jobs'[k] = jobs[k]
      BY <1>1, <2>3
    <3>2. State(k)' = State(k)
      BY <3>1, SMTT(60) DEF State
    <3>3. Probe(jobs[k])' = Probe(jobs[k])
      BY <3>1 DEF Probe, ProbeRow
    <3>4. Targeted(jobs[k])' <=> Targeted(jobs[k])
      BY <3>1 DEF Targeted
    <3>5. HistoryFits(jobs[k])' <=> HistoryFits(jobs[k])
      BY <3>1 DEF HistoryFits
    <3> QED BY <2>1, <3>1, <3>2, <3>3, <3>4, <3>5 DEF JobSound
  <2> QED BY <2>2, <2>3
<1> QED BY <1>2, <1>3 DEF JobInv

\* A transition adds one event to a job's history and leaves its submission
\* alone; the probe depends on the submission only.
LEMMA MovedRecord ==
    ASSUME JobInv, NEW j \in Jobs, NEW state \in Cancellable \cup Unresolved \cup {"SUCCEEDED", "CANCELLED"},
           jobs[j] # None, jobs[j].events < MaxEvents
    PROVE  LET job == [jobs[j] EXCEPT !.state = state, !.events = @ + 1]
           IN /\ job \in JobRecords /\ Moved(j, state) = [jobs EXCEPT ![j] = job]
              /\ job.state = state /\ job.events = jobs[j].events + 1
              /\ Probe(job) = Probe(jobs[j]) /\ Targeted(job)
              /\ SameSubmission(jobs[j], job)
<1> DEFINE job == [jobs[j] EXCEPT !.state = state, !.events = @ + 1]
<1>1. jobs \in [Jobs -> JobRecords \cup {None}] /\ jobs[j] \in JobRecords
  BY DEF JobInv, JobType
<1>2. jobs[j].events \in 1..MaxEvents /\ jobs[j].events + 1 \in 1..MaxEvents
  BY <1>1, JobBounds, SMTT(60) DEF JobRecords
<1>3. job \in JobRecords
  BY <1>1, <1>2 DEF JobRecords
<1>4. Moved(j, state) = [jobs EXCEPT ![j] = job]
  BY <1>1 DEF Moved
<1>5. /\ job.state = state /\ job.events = jobs[j].events + 1 /\ job.action = jobs[j].action
      /\ job.cmd = jobs[j].cmd /\ job.pin = jobs[j].pin /\ job.authority = jobs[j].authority
  BY <1>1 DEF JobRecords
<1>6. Probe(job) = Probe(jobs[j])
  BY <1>5 DEF Probe, ProbeRow
<1>7. Targeted(job)
  BY <1>5 DEF JobInv, JobSound, Targeted
<1>8. SameSubmission(jobs[j], job)
  BY <1>5 DEF SameSubmission, IntentOf
<1> QED BY <1>3, <1>4, <1>5, <1>6, <1>7, <1>8

\* A transition whose record fits keeps the invariant, whether its write succeeds
\* or fails around the replacement of the file.
LEMMA JobTransition ==
    ASSUME JobInv, NEW j \in Jobs, NEW state \in Cancellable \cup Unresolved \cup {"SUCCEEDED", "CANCELLED"},
           jobs[j] # None, jobs[j].events < MaxEvents, jobs' = Moved(j, state) \/ UNCHANGED jobs,
           HistoryFits([jobs[j] EXCEPT !.state = state, !.events = @ + 1]),
           applies[j] > 0 => state \in Unresolved \cup {"SUCCEEDED"},
           state = "SUCCEEDED" => Probe(jobs[j]) = "APPLIED",
           UNCHANGED <<rows, authority, applies>>, running' = None
    PROVE  JobInv'
<1> DEFINE job == [jobs[j] EXCEPT !.state = state, !.events = @ + 1]
<1>1. /\ job \in JobRecords /\ Moved(j, state) = [jobs EXCEPT ![j] = job]
      /\ job.state = state /\ Probe(job) = Probe(jobs[j]) /\ Targeted(job)
  BY MovedRecord
<1>2. applies[j] > 0 => Probe(jobs[j]) = "APPLIED"
  BY DEF JobInv, JobSound
<1>3. CASE jobs' = Moved(j, state)
  <2>1. HistoryFits(job) /\ running' \in Runs \cup {None} /\ RunSound'
    BY DEF RunSound
  <2>2. jobs' = [jobs EXCEPT ![j] = job]
    BY <1>1, <1>3
  <2> HIDE DEF job
  <2> QED BY <1>1, <1>2, <2>1, <2>2, JobReplaced
<1>4. CASE UNCHANGED jobs
  <2>1. authority' \in 0..MaxAuthority
    BY DEF JobInv, JobType
  <2> QED BY <1>4, <2>1, JobQuiet
<1> QED BY <1>3, <1>4

\* Before the EXECUTING marker nothing was applied, and the history is short.
LEMMA Early ==
    ASSUME JobInv, NEW j \in Jobs, State(j) \in Cancellable
    PROVE  jobs[j] \in JobRecords /\ jobs[j] # None /\ applies[j] = 0 /\ jobs[j].events <= 3
<1>1. jobs[j] # None /\ jobs[j] \in JobRecords /\ JobSound(j) /\ applies[j] \in Nat
  BY DEF State, Cancellable, JobInv, JobType
<1>2. State(j) \notin Unresolved \cup {"SUCCEEDED"}
  BY DEF Cancellable, Unresolved
<1>3. applies[j] = 0
  BY <1>1, <1>2, SMTT(60) DEF JobSound
<1>4. jobs[j].state \in Cancellable /\ jobs[j].events \in Nat /\ HistoryFits(jobs[j])
  BY <1>1, JobBounds, SMTT(60) DEF State, JobRecords, JobSound
<1>5. jobs[j].events <= 3
  BY <1>4, SMTT(60) DEF HistoryFits, Cancellable
<1> QED BY <1>1, <1>3, <1>5

\* cancel
LEMMA CancelSound ==
    ASSUME JobInv, NEW j \in Jobs, Cancel(j)
    PROVE  JobInv'
<1>1. /\ State(j) \in Cancellable /\ running = None /\ (jobs' = Moved(j, "CANCELLED") \/ UNCHANGED jobs)
      /\ UNCHANGED <<rows, authority, running, applies>>
  BY DEF Cancel, MayCancel, Enter, Transition, Written, WriteFails
<1>2. jobs[j] \in JobRecords /\ jobs[j] # None /\ applies[j] = 0 /\ jobs[j].events <= 3
  BY <1>1, Early
<1>3. jobs[j].events < MaxEvents
  BY <1>2, JobBounds, SMTT(60) DEF JobRecords
<1>4. HistoryFits([jobs[j] EXCEPT !.state = "CANCELLED", !.events = @ + 1])
  BY <1>2 DEF JobRecords, HistoryFits
<1>5. running' = None /\ ~(applies[j] > 0) /\ "CANCELLED" # "SUCCEEDED"
  BY <1>1, <1>2, SMTT(60)
<1> QED BY <1>1, <1>2, <1>3, <1>4, <1>5, JobTransition

\* step in QUEUED and VALIDATED
LEMMA StepCheckSound ==
    ASSUME JobInv, NEW j \in Jobs, StepCheck(j)
    PROVE  JobInv'
<1> DEFINE next == IF State(j) = "QUEUED" THEN "VALIDATED" ELSE "PREPARED"
<1>1. /\ State(j) \in {"QUEUED", "VALIDATED"} /\ running = None /\ (jobs' = Moved(j, next) \/ UNCHANGED jobs)
      /\ UNCHANGED <<rows, authority, running, applies>>
  BY DEF StepCheck, Enter, Transition, Written, WriteFails
<1>2. jobs[j] \in JobRecords /\ jobs[j] # None /\ applies[j] = 0 /\ jobs[j].events <= 3 /\ State(j) = jobs[j].state
  BY <1>1, Early DEF Cancellable, State
<1>3. jobs[j].events < MaxEvents /\ HistoryFits(jobs[j])
  BY <1>2, JobBounds, SMTT(60) DEF JobRecords, JobInv, JobSound
<1>4. HistoryFits([jobs[j] EXCEPT !.state = next, !.events = @ + 1])
  <2>1. CASE State(j) = "QUEUED"
    BY <1>2, <1>3, <2>1, SMTT(60) DEF JobRecords, HistoryFits
  <2>2. CASE State(j) = "VALIDATED"
    BY <1>2, <1>3, <2>2, SMTT(60) DEF JobRecords, HistoryFits
  <2> QED BY <1>1, <2>1, <2>2
<1>5. next \in Cancellable /\ next # "SUCCEEDED" /\ running' = None /\ ~(applies[j] > 0)
  BY <1>1, <1>2, SMTT(60) DEF Cancellable
<1> HIDE DEF next
<1> QED BY <1>1, <1>2, <1>3, <1>4, <1>5, JobTransition

\* An unresolved job has room for one more event.
LEMMA Late ==
    ASSUME JobInv, NEW j \in Jobs, State(j) \in Unresolved
    PROVE  /\ jobs[j] \in JobRecords /\ jobs[j] # None /\ jobs[j].events < MaxEvents
           /\ State(j) = jobs[j].state /\ jobs[j].events \in Nat
           /\ State(j) = "EXECUTING" => jobs[j].events <= MaxEvents - 2
<1>1. jobs[j] # None /\ jobs[j] \in JobRecords /\ HistoryFits(jobs[j]) /\ State(j) = jobs[j].state
  BY DEF State, Unresolved, JobInv, JobType, JobSound
<1>2. jobs[j].events \in Nat /\ jobs[j].state \in Unresolved
  BY <1>1, JobBounds, SMTT(60) DEF JobRecords
<1>3. jobs[j].events < MaxEvents /\ (State(j) = "EXECUTING" => jobs[j].events <= MaxEvents - 2)
  BY <1>1, <1>2, JobBounds, SMTT(60) DEF HistoryFits, Unresolved
<1> QED BY <1>1, <1>2, <1>3

\* The end of _execute, reconcile and retry: the job is resolved, or stays
\* unresolved with room for the record of success.
LEMMA LateTransition ==
    ASSUME JobInv, NEW j \in Jobs, State(j) \in Unresolved,
           NEW state \in {"OUTCOME_UNKNOWN", "RETRY_READY", "SUCCEEDED"}, Transition(j, state),
           state = "SUCCEEDED" => Probe(jobs[j]) = "APPLIED",
           state # "SUCCEEDED" => jobs[j].events <= MaxEvents - 2,
           UNCHANGED <<rows, authority, applies>>, running' = None
    PROVE  JobInv'
<1>1. /\ jobs[j] \in JobRecords /\ jobs[j] # None /\ jobs[j].events < MaxEvents /\ jobs[j].events \in Nat
  BY Late
<1>2. HistoryFits([jobs[j] EXCEPT !.state = state, !.events = @ + 1])
  <2>1. CASE state = "SUCCEEDED"
    BY <1>1, <2>1 DEF JobRecords, HistoryFits
  <2>2. CASE state # "SUCCEEDED"
    BY <1>1, <2>2, JobBounds, SMTT(60) DEF JobRecords, HistoryFits
  <2> QED BY <2>1, <2>2
<1>3. jobs' = Moved(j, state) \/ UNCHANGED jobs
  BY DEF Transition, Written, WriteFails
<1>4. state \in Unresolved \cup {"SUCCEEDED"}
  BY DEF Unresolved
<1> QED BY <1>1, <1>2, <1>3, <1>4, JobTransition

\* SUCCEEDED or OUTCOME_UNKNOWN after the marker
LEMMA ExecuteEndSound ==
    ASSUME JobInv, NEW j \in Jobs, NEW state \in {"SUCCEEDED", "OUTCOME_UNKNOWN"}, ExecuteEnd(j, state)
    PROVE  JobInv'
<1>1. State(j) = "EXECUTING"
  BY DEF ExecuteEnd, JobInv, RunSound
<1>2. State(j) \in Unresolved /\ jobs[j].events <= MaxEvents - 2
  BY <1>1, Late DEF Unresolved
<1>3. /\ Transition(j, state) /\ UNCHANGED <<rows, authority, applies>> /\ running' = None
      /\ state = "SUCCEEDED" => Probe(jobs[j]) = "APPLIED"
  BY DEF ExecuteEnd, Confirmed
<1> QED BY <1>2, <1>3, LateTransition

\* reconcile and retry that find the effect, and reconcile that finds nothing
LEMMA ReconcileSound ==
    ASSUME JobInv, NEW j \in Jobs, ReconcileApplied(j) \/ ReconcilePending(j) \/ RetryApplied(j)
    PROVE  JobInv'
<1>1. CASE ReconcileApplied(j) \/ RetryApplied(j)
  <2>1. State(j) \in Unresolved
    BY <1>1 DEF ReconcileApplied, RetryApplied, Unresolved
  <2>2. /\ Transition(j, "SUCCEEDED") /\ Probe(jobs[j]) = "APPLIED"
        /\ UNCHANGED <<rows, authority, applies>> /\ running' = None
    BY <1>1 DEF ReconcileApplied, RetryApplied, Confirmed, Enter
  <2> QED BY <2>1, <2>2, LateTransition
<1>2. CASE ReconcilePending(j)
  <2>1. State(j) \in Unresolved /\ "RETRY_READY" # "SUCCEEDED"
    BY <1>2 DEF ReconcilePending, Unresolved
  <2>2. /\ Transition(j, "RETRY_READY") /\ jobs[j].events <= MaxEvents - 2
        /\ UNCHANGED <<rows, authority, applies>> /\ running' = None
    BY <1>2 DEF ReconcilePending, Enter
  <2> QED BY <2>1, <2>2, LateTransition
<1> QED BY <1>1, <1>2

\* _execute up to the marker: nothing was applied, or the job would not be
\* PREPARED, or the probe before the retry would have found it.
LEMMA ExecuteBeginSound ==
    ASSUME JobInv, NEW j \in Jobs, ExecuteBegin(j)
    PROVE  JobInv'
<1>1. /\ running = None /\ MayExecute(j) /\ jobs[j].events <= MaxEvents - 3
      /\ UNCHANGED <<rows, authority, applies>>
      /\ \/ jobs' = Moved(j, "EXECUTING") /\ running' = [job |-> j, stage |-> "marked"]
         \/ (jobs' = Moved(j, "EXECUTING") \/ UNCHANGED jobs) /\ running' = None
  BY DEF ExecuteBegin, Enter, HistoryRoom, Marked, Written, WriteFails
<1>2. jobs[j] \in JobRecords /\ jobs[j] # None /\ JobSound(j) /\ applies \in [Jobs -> Nat]
  BY <1>1 DEF MayExecute, State, JobInv, JobType
<1>3. applies[j] = 0
  <2>1. applies[j] > 0 => State(j) = "RETRY_READY" /\ Probe(jobs[j]) = "APPLIED"
    BY <1>1, <1>2 DEF JobSound, MayExecute, Unresolved
  <2>2. State(j) = "RETRY_READY" => Probe(jobs[j]) = "PENDING"
    BY <1>1 DEF MayExecute, NothingApplied
  <2> QED BY <1>2, <2>1, <2>2, SMTT(60)
<1>4. jobs[j].events \in Nat /\ jobs[j].events < MaxEvents
  BY <1>1, <1>2, JobBounds, SMTT(60) DEF JobRecords
<1>5. HistoryFits([jobs[j] EXCEPT !.state = "EXECUTING", !.events = @ + 1])
  BY <1>1, <1>2, <1>4, JobBounds, SMTT(60) DEF JobRecords, HistoryFits
<1>6. "EXECUTING" \in Unresolved /\ "EXECUTING" # "SUCCEEDED"
  BY DEF Unresolved
<1>7. CASE (jobs' = Moved(j, "EXECUTING") \/ UNCHANGED jobs) /\ running' = None
  BY <1>1, <1>2, <1>4, <1>5, <1>6, <1>7, JobTransition
<1>8. CASE jobs' = Moved(j, "EXECUTING") /\ running' = [job |-> j, stage |-> "marked"]
  <2> DEFINE job == [jobs[j] EXCEPT !.state = "EXECUTING", !.events = @ + 1]
  <2>1. /\ job \in JobRecords /\ jobs' = [jobs EXCEPT ![j] = job]
        /\ job.state = "EXECUTING" /\ Targeted(job)
    BY <1>2, <1>4, <1>6, <1>8, MovedRecord
  <2>2. running' \in Runs \cup {None}
    BY <1>8 DEF Runs
  <2>3. jobs'[j] = job /\ job # None
    BY <2>1, JobNone DEF JobInv, JobType
  <2>4. RunSound'
    BY <1>1, <1>3, <1>8, <2>1, <2>3 DEF RunSound, State
  <2>5. HistoryFits(job) /\ ~(applies[j] > 0) /\ job.state # "SUCCEEDED"
    BY <1>3, <1>5, <2>1, SMTT(60)
  <2> HIDE DEF job
  <2> QED BY <1>1, <2>1, <2>2, <2>4, <2>5, JobReplaced
<1> QED BY <1>1, <1>7, <1>8

\* The pin of the current window, as a submission records it.
LEMMA PinShape ==
    ASSUME JobType
    PROVE  Pin \in Pins /\ Pin.sequence = Len(rows) /\ (Phase # "EMPTY" => Len(rows) >= 1)
<1>1. rows \in Seq(Rows) /\ Len(rows) \in 0..MaxWindows
  BY JobBounds, SMTT(60) DEF JobType
<1>2. CASE rows = <<>>
  BY <1>1, <1>2, JobBounds DEF Pin, Pins, Phase
<1>3. CASE rows # <<>>
  <2>1. Len(rows) \in 1..Len(rows) /\ rows[Len(rows)] \in Rows
    BY <1>1, <1>3, SMTT(60)
  <2> QED BY <1>1, <1>3, <2>1, SMTT(60) DEF Pin, Pins, Phase, Rows
<1> QED BY <1>2, <1>3

\* submit
LEMMA SubmitSound ==
    ASSUME JobInv, NEW j \in Jobs, NEW action \in Actions, NEW cmd \in Cmds \cup {None},
           Submit(j, action, cmd)
    PROVE  JobInv'
<1> DEFINE job == NewJob(action, cmd)
<1>1. /\ running = None /\ jobs[j] = None
      /\ (action = "compact") <=> (cmd = None)
      /\ Valid(job) /\ UNCHANGED <<rows, authority, running, applies>>
      /\ jobs' = [jobs EXCEPT ![j] = job] \/ UNCHANGED jobs
  BY DEF Submit, Enter
<1>2. JobType /\ JobSound(j) /\ authority \in 0..MaxAuthority
  BY DEF JobInv, JobType
<1>3. Pin \in Pins /\ Pin.sequence = Len(rows) /\ (Phase # "EMPTY" => Len(rows) >= 1) /\ Len(rows) \in Nat
  BY <1>2, PinShape, SMTT(60) DEF JobType
<1>4. job \in JobRecords
  BY <1>2, <1>3, JobBounds, SMTT(60) DEF NewJob, JobRecords, Cancellable
<1>5. HistoryFits(job)
  BY SMTT(60) DEF NewJob, HistoryFits
<1>6. job.action = action /\ job.cmd = cmd /\ job.pin = Pin /\ job.state = "QUEUED"
  BY DEF NewJob
<1>7. action # "open" => Phase # "EMPTY"
  BY <1>1, <1>6 DEF Valid, Possible, Actions
<1>8. Targeted(job)
  BY <1>1, <1>3, <1>6, <1>7, SMTT(60) DEF Targeted
<1>9. State(j) = "ABSENT" /\ applies[j] = 0
  <2>1. State(j) = "ABSENT" /\ applies[j] \in Nat
    BY <1>1 DEF State, JobInv, JobType
  <2> QED BY <1>2, <2>1, SMTT(60) DEF JobSound, Unresolved
<1>10. /\ ~(applies[j] > 0) /\ job.state # "SUCCEEDED" /\ running' = None
       /\ running' \in Runs \cup {None} /\ RunSound'
  BY <1>1, <1>6, <1>9, SMTT(60) DEF RunSound
<1> HIDE DEF job
<1>11. CASE jobs' = [jobs EXCEPT ![j] = job]
  BY <1>1, <1>4, <1>5, <1>8, <1>10, <1>11, JobReplaced
<1>12. CASE UNCHANGED jobs
  BY <1>1, <1>2, <1>10, <1>12, JobQuiet
<1> QED BY <1>1, <1>11, <1>12

\* What happens to the window outside of a job keeps every record true.
LEMMA WindowMoves ==
    ASSUME JobInv, NEW action \in Actions, NEW cmd \in Cmds \cup {None},
           (action = "compact") <=> (cmd = None), Possible(action, cmd), rows' = Effect(action, cmd),
           UNCHANGED jobs
    PROVE  /\ rows' \in Seq(Rows) /\ Len(rows') <= MaxWindows
           /\ \A j \in Jobs : /\ jobs[j] # None => HistoryFits(jobs[j])' /\ Targeted(jobs[j])'
                              /\ jobs[j] # None /\ Probe(jobs[j]) = "APPLIED" => Probe(jobs[j])' = "APPLIED"
<1>1. JobType
  BY DEF JobInv
<1>2. rows' \in Seq(Rows) /\ Len(rows') <= MaxWindows /\ RowsOnward
  BY <1>1, EffectOnward
<1>3. ASSUME NEW j \in Jobs, jobs[j] # None
      PROVE  /\ HistoryFits(jobs[j])' /\ Targeted(jobs[j])'
             /\ Probe(jobs[j]) = "APPLIED" => Probe(jobs[j])' = "APPLIED"
  <2>1. PICK job \in JobRecords : jobs[j] = job /\ jobs'[j] = job
    BY <1>1, <1>3 DEF JobType
  <2>2. HistoryFits(job) /\ Targeted(job)
    BY <1>3, <2>1 DEF JobInv, JobSound
  <2>3. HistoryFits(jobs[j])'
    BY <2>1, <2>2 DEF HistoryFits
  <2>4. Targeted(jobs[j])'
    <3>1. job.pin.sequence \in Nat /\ Len(rows) \in Nat /\ Len(rows') \in Nat /\ Len(rows) <= Len(rows')
      BY <1>1, <1>2, JobBounds, SMTT(60) DEF JobType, JobRecords, Pins, RowsOnward
    <3> QED BY <2>1, <2>2, <3>1, SMTT(60) DEF Targeted
  <2>5. Probe(job) = "APPLIED" => Probe(job)' = "APPLIED"
    BY <1>1, <1>2, <2>2, ProbeStable
  <2>6. Probe(jobs[j]) = Probe(job) /\ Probe(jobs[j])' = Probe(job)'
    BY <2>1 DEF Probe, ProbeRow
  <2> QED BY <2>3, <2>4, <2>5, <2>6
<1> QED BY <1>2, <1>3

\* The owner's own change of the window
LEMMA DirectSound ==
    ASSUME JobInv, NEW action \in Actions, NEW cmd \in Cmds \cup {None}, Direct(action, cmd)
    PROVE  JobInv'
<1>1. /\ (action = "compact") <=> (cmd = None)
      /\ Possible(action, cmd) /\ rows' = Effect(action, cmd)
      /\ UNCHANGED <<jobs, authority, running, applies>>
  BY DEF Direct
<1>2. /\ rows' \in Seq(Rows) /\ Len(rows') <= MaxWindows
      /\ \A j \in Jobs : /\ jobs[j] # None => HistoryFits(jobs[j])' /\ Targeted(jobs[j])'
                         /\ jobs[j] # None /\ Probe(jobs[j]) = "APPLIED" => Probe(jobs[j])' = "APPLIED"
  BY <1>1, WindowMoves
<1>3. JobType'
  BY <1>1, <1>2 DEF JobInv, JobType
<1>4. ASSUME NEW j \in Jobs PROVE JobSound(j)'
  <2>1. JobSound(j) /\ State(j)' = State(j) /\ jobs'[j] = jobs[j] /\ applies'[j] = applies[j]
    BY <1>1 DEF JobInv, State
  <2>2. State(j) \in Unresolved \cup {"SUCCEEDED"} => jobs[j] # None
    BY DEF State, Unresolved
  <2> QED BY <1>2, <2>1, <2>2 DEF JobSound
<1>5. RunSound'
  BY <1>1 DEF JobInv, RunSound, State
<1> QED BY <1>3, <1>4, <1>5 DEF JobInv

\* Right after apply the probe finds the effect: validate held the job's window
\* and phase to be those of its submission.
LEMMA EffectProbed ==
    ASSUME JobType, NEW job \in JobRecords, Targeted(job), Pin = job.pin,
           Possible(job.action, job.cmd), rows' = Effect(job.action, job.cmd)
    PROVE  Probe(job)' = "APPLIED"
<1> DEFINE n == Len(rows)
<1>1. rows \in Seq(Rows) /\ n \in Nat /\ job.pin.sequence = n /\ job.action \in Actions
  BY PinShape, SMTT(60) DEF JobType, JobRecords
<1>2. CASE job.action = "open"
  <2>1. Len(rows') = n + 1 /\ rows'[n + 1].open = job.cmd
    BY <1>1, <1>2, SMTT(60) DEF Effect
  <2> QED BY <1>1, <1>2, <2>1, SMTT(60) DEF Probe
<1>3. CASE job.action # "open"
  <2>1. n \in 1..Len(rows) /\ rows[n] \in Rows
    BY <1>1, <1>3, SMTT(60) DEF Targeted
  <2>2. CASE job.action = "close"
    <3>1. rows'[n].phase = "CLOSED" /\ rows'[n].close = job.cmd
      BY <1>1, <2>1, <2>2, SMTT(60) DEF Effect, Rows
    <3> QED BY <1>1, <2>2, <3>1 DEF Probe, ProbeRow
  <2>3. CASE job.action = "compact"
    <3>1. rows'[n].phase = "CLEANED"
      BY <1>1, <2>1, <2>3, SMTT(60) DEF Effect, Rows
    <3> QED BY <1>1, <2>3, <3>1 DEF Probe, ProbeRow
  <2>4. CASE job.action = "retire"
    <3>1. job.cmd \in rows'[n].retired
      BY <1>1, <2>1, <2>4, SMTT(60) DEF Effect, Rows
    <3> QED BY <1>1, <2>4, <3>1 DEF Probe, ProbeRow
  <2> QED BY <1>1, <1>3, <2>2, <2>3, <2>4 DEF Actions
<1> QED BY <1>2, <1>3

\* apply: once, and only for the job that carries the marker
LEMMA ExecuteApplySound ==
    ASSUME JobInv, NEW j \in Jobs, ExecuteApply(j)
    PROVE  JobInv'
<1>1. /\ running = [job |-> j, stage |-> "marked"] /\ running' = [job |-> j, stage |-> "applied"]
      /\ Valid(jobs[j]) /\ rows' = Effect(jobs[j].action, jobs[j].cmd)
      /\ applies' = [applies EXCEPT ![j] = @ + 1] /\ UNCHANGED <<jobs, authority>>
  BY DEF ExecuteApply
<1>2. JobType /\ running # None /\ running.job = j /\ running.stage = "marked"
  BY <1>1, JobNone, SMTT(60) DEF JobInv, JobType, Runs
<1>3. State(j) = "EXECUTING" /\ applies[j] = 0
  BY <1>2 DEF JobInv, RunSound
<1>4. PICK job \in JobRecords : jobs[j] = job /\ job # None /\ job.state = "EXECUTING"
  BY <1>2, <1>3 DEF State, JobType
<1>5. Targeted(job) /\ Pin = job.pin /\ Possible(job.action, job.cmd) /\ rows' = Effect(job.action, job.cmd)
  BY <1>1, <1>4 DEF JobInv, JobSound, Valid
<1>6. job.action \in Actions /\ job.cmd \in Cmds \cup {None}
  BY DEF JobRecords
<1>7. (job.action = "compact") <=> (job.cmd = None)
  BY <1>5 DEF Targeted
<1>8. /\ rows' \in Seq(Rows) /\ Len(rows') <= MaxWindows
      /\ \A k \in Jobs : /\ jobs[k] # None => HistoryFits(jobs[k])' /\ Targeted(jobs[k])'
                         /\ jobs[k] # None /\ Probe(jobs[k]) = "APPLIED" => Probe(jobs[k])' = "APPLIED"
  BY <1>1, <1>5, <1>6, <1>7, WindowMoves
<1>9. Probe(jobs[j])' = "APPLIED"
  <2>1. Probe(job)' = "APPLIED"
    BY <1>2, <1>5, EffectProbed
  <2> QED BY <1>1, <1>4, <2>1 DEF Probe, ProbeRow
<1>10. /\ applies \in [Jobs -> Nat] /\ applies' \in [Jobs -> Nat] /\ applies'[j] = 1
       /\ \A k \in Jobs : k # j => applies'[k] = applies[k]
  BY <1>1, <1>2, <1>3, SMTT(60) DEF JobType
<1>11. JobType'
  BY <1>1, <1>2, <1>8, <1>10 DEF JobType, Runs
<1>12. ASSUME NEW k \in Jobs PROVE JobSound(k)'
  <2>1. JobSound(k) /\ State(k)' = State(k) /\ jobs'[k] = jobs[k]
    BY <1>1 DEF JobInv, State
  <2>2. State(k) \in Unresolved \cup {"SUCCEEDED"} => jobs[k] # None
    BY DEF State, Unresolved
  <2>3. CASE k = j
    BY <1>3, <1>8, <1>9, <1>10, <2>1, <2>2, <2>3, SMTT(60) DEF JobSound, Unresolved
  <2>4. CASE k # j
    BY <1>8, <1>10, <2>1, <2>2, <2>4 DEF JobSound
  <2> QED BY <2>3, <2>4
<1>13. RunSound'
  BY <1>1, <1>3 DEF RunSound, State
<1> QED BY <1>11, <1>12, <1>13 DEF JobInv

-----------------------------------------------------------------------------
(* The owner loop over the jobs. *)

\* Every call of the owner, also the ones a control operation makes.
LEMMA OwnerCallSound ==
    ASSUME JobInv, NEW j \in Jobs, OwnerCall(j)
    PROVE  JobInv'
<1> SUFFICES ASSUME ~(UNCHANGED vars) PROVE JobInv'
  <2>1. UNCHANGED vars => authority' \in 0..MaxAuthority
    BY DEF vars, JobInv, JobType
  <2> QED BY <2>1, JobQuiet DEF vars
<1>1. \/ \E action \in Actions, cmd \in Cmds \cup {None} : Submit(j, action, cmd)
      \/ Cancel(j) \/ ReconcileApplied(j) \/ ReconcilePending(j)
  BY DEF OwnerCall, SubmitJob, SubmitUnder, CancelJob, ReconcileJob, Reconciled, ArmRetry, Schedule
<1> QED BY <1>1, SubmitSound, CancelSound, ReconcileSound

\* Every stage of a tick.
LEMMA TickSound ==
    ASSUME JobInv, Tick
    PROVE  JobInv'
<1>1. PICK j \in Jobs : TickStage(j) \/ TickApply(j) \/ TickEnd(j)
  BY DEF Tick
<1>2. CASE TickStage(j)
  BY <1>2, StepCheckSound, ExecuteBeginSound, ReconcileSound DEF TickStage
<1>3. CASE TickApply(j)
  BY <1>3, ExecuteApplySound DEF TickApply
<1>4. CASE TickEnd(j)
  BY <1>4, ExecuteEndSound DEF TickEnd
<1> QED BY <1>1, <1>2, <1>3, <1>4

\* Every step of the scheduled host keeps the invariant of the jobs.
LEMMA JobStep ==
    ASSUME JobInv, [SNext]_svars
    PROVE  JobInv'
<1>1. authority \in 0..MaxAuthority
  BY DEF JobInv, JobType
<1>2. CASE UNCHANGED svars
  <2>1. UNCHANGED <<jobs, rows, applies, authority, running>>
    BY <1>2 DEF svars, vars
  <2> QED BY <1>1, <2>1, JobQuiet
<1>3. CASE \E j \in Jobs : OwnerCall(j)
  BY <1>3, OwnerCallSound
<1>4. CASE Tick
  BY <1>4, TickSound
<1>5. CASE TickFails \/ Accept \/ Finish \/ HostCrash \/ HostStart
  <2>1. UNCHANGED <<jobs, rows, applies, authority>> /\ running' \in {running, None}
    BY <1>5 DEF TickFails, Accept, Finish, HostCrash, HostStart, Transfer, Reopen, vars
  <2> QED BY <1>1, <2>1, JobQuiet
<1>6. CASE Environment
  <2>1. CASE Reauthorize
    <3>1. UNCHANGED <<jobs, rows, applies, running>> /\ authority' \in 0..MaxAuthority
      BY <1>1, <2>1, JobBounds, SMTT(60) DEF Reauthorize
    <3> QED BY <3>1, JobQuiet
  <2>2. CASE \E action \in Actions, cmd \in Cmds \cup {None} : Direct(action, cmd)
    BY <2>2, DirectSound
  <2> QED BY <1>6, <2>1, <2>2 DEF Environment
<1> QED BY <1>2, <1>3, <1>4, <1>5, <1>6 DEF SNext

\* What the records say of the effects follows from the invariant.
LEMMA EffectsFollow == JobInv => EffectsTrue
<1> SUFFICES ASSUME JobInv PROVE EffectsTrue
  OBVIOUS
<1>1. JobType /\ \A n \in DOMAIN rows : rows[n] \in Rows
  BY SMTT(60) DEF JobInv, JobType
<1>2. ASSUME NEW j \in Jobs
      PROVE  /\ jobs[j] \in JobRecords \cup {None}
             /\ applies[j] <= 1
             /\ applies[j] > 0 => State(j) \in Unresolved \cup {"SUCCEEDED"}
             /\ State(j) \in Unresolved => jobs[j].events < MaxEvents
             /\ State(j) = "SUCCEEDED" => Probe(jobs[j]) = "APPLIED"
  <2>1. JobSound(j) /\ jobs[j] \in JobRecords \cup {None}
    BY <1>1 DEF JobInv, JobType
  <2>2. State(j) \in Unresolved => jobs[j].events < MaxEvents
    BY Late
  <2> QED BY <2>1, <2>2 DEF JobSound
<1> QED BY <1>1, <1>2 DEF EffectsTrue

\* For every set of jobs and commands and every bound of the histories: what a
\* job's record says of its effect is true, through crashes, failed journal
\* writes, reconcile and retry (the EXECUTING marker before apply, and the probe
\* before every recorded outcome).
THEOREM EffectsAlwaysTrue == SSpec => []EffectsTrue
<1>1. SInit => JobInv
  BY JobInitially DEF SInit
<1>2. JobInv /\ [SNext]_svars => JobInv'
  BY JobStep
<1>3. JobInv => EffectsTrue
  BY EffectsFollow
<1> QED BY <1>1, <1>2, <1>3, PTL DEF SSpec

-----------------------------------------------------------------------------
(* The selection.  ServingResolved alone is not inductive: the end of a     *)
(* tick resumes the listeners without a look at the other jobs, which is    *)
(* right because none of them is unresolved while a job is selected.        *)

OwnerInv ==
    /\ selected \in Jobs \cup {None}
    /\ running # None => selected = running.job
    /\ selected # None => UnresolvedJobs \subseteq {selected}
    /\ host = "down" => selected = None /\ running = None
    /\ ServingResolved

\* What a transition of one job does to the set of unresolved jobs.
LEMMA TransitionUnresolved ==
    ASSUME JobInv, NEW j \in Jobs, NEW state \in Cancellable \cup Unresolved \cup {"SUCCEEDED", "CANCELLED"},
           State(j) \in Cancellable \cup Unresolved, Transition(j, state)
    PROVE  /\ UnresolvedJobs' \subseteq UnresolvedJobs \cup {j}
           /\ (state \notin Unresolved \/ State(j) \in Unresolved) => UnresolvedJobs' \subseteq UnresolvedJobs
           /\ state \notin Unresolved /\ journal' = "open" => j \notin UnresolvedJobs'
<1>1. /\ jobs \in [Jobs -> JobRecords \cup {None}] /\ jobs[j] # None /\ jobs[j] \in JobRecords
      /\ jobs[j].events < MaxEvents
  <2>1. jobs \in [Jobs -> JobRecords \cup {None}]
    BY DEF JobInv, JobType
  <2>2. CASE State(j) \in Cancellable
    <3>1. jobs[j] \in JobRecords /\ jobs[j] # None /\ jobs[j].events <= 3
      BY <2>2, Early
    <3>2. jobs[j].events < MaxEvents
      BY <3>1, JobBounds, SMTT(60) DEF JobRecords
    <3> QED BY <2>1, <3>1, <3>2
  <2>3. CASE State(j) \in Unresolved
    BY <2>1, <2>3, Late
  <2> QED BY <2>2, <2>3
<1>2. ASSUME jobs' = Moved(j, state)
      PROVE  State(j)' = state /\ \A k \in Jobs : k # j => State(k)' = State(k)
  <2>1. jobs'[j] = [jobs[j] EXCEPT !.state = state, !.events = @ + 1]
    BY <1>1, <1>2 DEF Moved
  <2>2. jobs'[j].state = state /\ DOMAIN jobs'[j] = DOMAIN jobs[j] /\ "state" \in DOMAIN jobs[j]
    BY <1>1, <2>1 DEF JobRecords
  <2>3. \A k \in Jobs : k # j => jobs'[k] = jobs[k]
    BY <1>1, <1>2 DEF Moved
  <2>4. jobs'[j] # None
    <3>1. [jobs[j] EXCEPT !.state = state, !.events = @ + 1] \in JobRecords
      BY <1>1, MovedRecord
    <3> QED BY <2>1, <3>1, JobNone
  <2> QED BY <2>2, <2>3, <2>4 DEF State
<1>3. jobs' = jobs => \A k \in Jobs : State(k)' = State(k)
  BY DEF State
<1>4. (jobs' = Moved(j, state)) \/ (jobs' = jobs /\ journal' = "closed")
  BY DEF Transition, Written, WriteFails
<1>5. CASE jobs' = Moved(j, state)
  BY <1>2, <1>5 DEF UnresolvedJobs
<1>6. CASE jobs' = jobs /\ journal' = "closed"
  BY <1>3, <1>6 DEF UnresolvedJobs
<1> QED BY <1>4, <1>5, <1>6

\* The owner's state is left alone and no job becomes unresolved.
LEMMA OwnerKept ==
    ASSUME OwnerInv, UnresolvedJobs' \subseteq UnresolvedJobs, UNCHANGED <<owner, running>>
    PROVE  OwnerInv'
BY DEF OwnerInv, ServingResolved, Free, owner

\* The listeners are paused, the selection stays, and only its own job may have
\* become unresolved.
LEMMA OwnerPaused ==
    ASSUME OwnerInv, host = "up", accepting' = FALSE, UNCHANGED <<host, selected>>,
           running' # None => running'.job = selected,
           UnresolvedJobs' \subseteq UnresolvedJobs \cup {selected}
    PROVE  OwnerInv'
BY DEF OwnerInv, ServingResolved, Free

\* The selection is dropped; the listeners return only with nothing unresolved.
LEMMA OwnerReleased ==
    ASSUME host' = "up", selected' = None, running' = None, accepting' => UnresolvedJobs' = {}
    PROVE  OwnerInv'
BY DEF OwnerInv, ServingResolved, Free

\* jobs.submit adds a QUEUED job; jobs.cancel and jobs.reconcile resolve at most.
LEMMA CallsResolve ==
    ASSUME JobInv, NEW j \in Jobs,
           \/ \E action \in Actions, cmd \in Cmds \cup {None} : Submit(j, action, cmd)
           \/ Cancel(j) \/ StepCheck(j)
           \/ ReconcileApplied(j) \/ ReconcilePending(j) \/ RetryApplied(j)
           \/ UNCHANGED vars
    PROVE  UnresolvedJobs' \subseteq UnresolvedJobs /\ UNCHANGED running
<1>1. ASSUME NEW action \in Actions, NEW cmd \in Cmds \cup {None}, Submit(j, action, cmd)
      PROVE  UnresolvedJobs' \subseteq UnresolvedJobs /\ UNCHANGED running
  <2>1. /\ jobs \in [Jobs -> JobRecords \cup {None}] /\ UNCHANGED running
        /\ jobs' = [jobs EXCEPT ![j] = NewJob(action, cmd)] \/ UNCHANGED jobs
    BY <1>1 DEF Submit, JobInv, JobType
  <2>2. NewJob(action, cmd).state = "QUEUED"
    BY DEF NewJob
  <2>3. ASSUME NEW k \in Jobs, State(k)' \in Unresolved PROVE State(k) \in Unresolved
    BY <2>1, <2>2, <2>3 DEF State, Unresolved
  <2> QED BY <2>1, <2>3 DEF UnresolvedJobs
<1>2. CASE Cancel(j)
  <2>1. State(j) \in Cancellable /\ Transition(j, "CANCELLED") /\ UNCHANGED running
    BY <1>2 DEF Cancel, MayCancel
  <2> QED BY <2>1, TransitionUnresolved, SMTT(60) DEF Unresolved
<1>3. CASE StepCheck(j)
  <2> DEFINE next == IF State(j) = "QUEUED" THEN "VALIDATED" ELSE "PREPARED"
  <2>1. State(j) \in Cancellable /\ Transition(j, next) /\ UNCHANGED running
    BY <1>3 DEF StepCheck, Cancellable
  <2>2. next \in Cancellable /\ next \notin Unresolved
    BY DEF Cancellable, Unresolved
  <2> HIDE DEF next
  <2> QED BY <2>1, <2>2, TransitionUnresolved
<1>4. CASE ReconcileApplied(j) \/ RetryApplied(j)
  <2>1. State(j) \in Unresolved /\ Transition(j, "SUCCEEDED") /\ UNCHANGED running
    BY <1>4 DEF ReconcileApplied, RetryApplied, Unresolved
  <2> QED BY <2>1, TransitionUnresolved
<1>5. CASE ReconcilePending(j)
  <2>1. State(j) \in Unresolved /\ Transition(j, "RETRY_READY") /\ UNCHANGED running
    BY <1>5 DEF ReconcilePending, Unresolved
  <2> QED BY <2>1, TransitionUnresolved DEF Unresolved
<1>6. CASE UNCHANGED vars
  BY <1>6 DEF vars, UnresolvedJobs, State
<1> QED BY <1>1, <1>2, <1>3, <1>4, <1>5, <1>6

\* The calls of the owner leave the listeners open only with nothing unresolved.
LEMMA OwnerCallServes ==
    ASSUME JobInv, OwnerInv, NEW j \in Jobs, OwnerCall(j)
    PROVE  OwnerInv'
<1>0. host = "up" /\ running = None
  BY DEF OwnerCall, SubmitJob, SubmitUnder, CancelJob, ReconcileJob, ArmRetry, Schedule, Free
<1>1. CASE SubmitJob(j)
  BY <1>1, CallsResolve, OwnerKept DEF SubmitJob, SubmitUnder
<1>2. CASE CancelJob(j)
  <2>1. UnresolvedJobs' \subseteq UnresolvedJobs /\ UNCHANGED running
    BY <1>2, CallsResolve DEF CancelJob
  <2>2. CASE journal' # "open"
    BY <1>2, <2>1, <2>2, OwnerKept DEF CancelJob
  <2>3. CASE AfterCancel(j) /\ selected = j
    <3>1. /\ selected' = None /\ host' = "up"
          /\ (accepting' = TRUE /\ UnresolvedJobs' = {}) \/ accepting' = FALSE \/ (accepting' = accepting)
      BY <1>0, <2>3 DEF AfterCancel, Resume
    <3>2. accepting' => UnresolvedJobs' = {}
      BY <1>0, <2>1, <3>1 DEF OwnerInv, ServingResolved, Free
    <3> QED BY <1>0, <2>1, <3>1, <3>2, OwnerReleased
  <2>4. CASE AfterCancel(j) /\ selected # j
    <3>1. UNCHANGED <<host, selected>>
      BY <2>4 DEF AfterCancel
    <3>2. CASE selected = None /\ UnresolvedJobs' = {}
      BY <1>0, <2>1, <3>1, <3>2, OwnerReleased
    <3>3. CASE ~(selected = None /\ UnresolvedJobs' = {})
      <4>1. UNCHANGED accepting
        BY <2>4, <3>3 DEF AfterCancel
      <4> QED BY <1>0, <2>1, <3>1, <4>1 DEF OwnerInv, ServingResolved, Free
    <3> QED BY <3>2, <3>3
  <2> QED BY <1>2, <2>2, <2>3, <2>4 DEF CancelJob
<1>3. CASE ReconcileJob(j)
  <2>1. UnresolvedJobs' \subseteq UnresolvedJobs /\ UNCHANGED running
    BY <1>3, CallsResolve DEF ReconcileJob, Reconciled
  <2>2. ASSUME NEW code, Hold(code) PROVE OwnerInv'
    BY <1>0, <2>1, <2>2, OwnerPaused DEF Hold
  <2>3. CASE AfterReconcile(j, State(j)')
    <3>1. host' = "up" /\ running' = None
      BY <1>0, <2>1, <2>3 DEF AfterReconcile
    <3>2. CASE ResumesAfter(j, State(j)')
      <4>1. selected' = None /\ UnresolvedJobs' = {}
        BY <2>3, <3>2 DEF AfterReconcile, ResumesAfter
      <4> QED BY <3>1, <4>1, OwnerReleased
    <3>3. CASE ~ResumesAfter(j, State(j)')
      <4>1. accepting' = FALSE /\ selected' \in {selected, None}
        BY <2>3, <3>3 DEF AfterReconcile
      <4>2. CASE selected' = None
        BY <3>1, <4>1, <4>2, OwnerReleased
      <4>3. CASE selected' = selected
        BY <1>0, <2>1, <3>1, <4>1, <4>3, OwnerPaused
      <4> QED BY <4>1, <4>2, <4>3
    <3> QED BY <3>2, <3>3
  <2> QED BY <1>3, <2>2, <2>3 DEF ReconcileJob
<1>4. CASE ArmRetry(j) \/ \E again \in BOOLEAN : Schedule(j, again)
  <2>1. UnresolvedJobs' = UnresolvedJobs /\ UNCHANGED running /\ OthersResolved(j)
    BY <1>4 DEF ArmRetry, Schedule, Schedulable, vars, UnresolvedJobs, State
  <2>2. CASE \E again \in BOOLEAN : Select(j, again)
    <3>1. selected' = j /\ accepting' = FALSE /\ host' = host
      BY <2>2 DEF Select
    <3> QED BY <1>0, <2>1, <3>1, JobNone DEF OwnerInv, ServingResolved, OthersResolved
  <2>3. CASE ArmRetry(j) /\ selected' = None /\ UNCHANGED <<host, accepting>>
    <3>1. j \in UnresolvedJobs
      BY <2>3 DEF ArmRetry, UnresolvedJobs, Unresolved
    <3>2. ~accepting
      BY <1>0, <3>1 DEF OwnerInv, ServingResolved, Free
    <3> QED BY <1>0, <2>1, <2>3, <3>2, OwnerReleased
  <2> QED BY <1>4, <2>2, <2>3 DEF ArmRetry, Schedule
<1> QED BY <1>1, <1>2, <1>3, <1>4 DEF OwnerCall

\* _finish after the success of the selected job, or a held host.
LEMMA SucceededServes ==
    ASSUME OwnerInv, host = "up", Succeeded, running' = None, selected # None,
           UnresolvedJobs' \subseteq UnresolvedJobs, selected \notin UnresolvedJobs'
    PROVE  OwnerInv'
<1>1. UnresolvedJobs' = {}
  BY DEF OwnerInv
<1>2. CASE selected' = None /\ UNCHANGED host
  BY <1>1, <1>2, OwnerReleased
<1>3. CASE Hold("HELD")
  BY <1>1, <1>3, OwnerPaused DEF Hold
<1> QED BY <1>2, <1>3 DEF Succeeded

\* One stage of the selected job.
LEMMA TickServes ==
    ASSUME JobInv, OwnerInv, Tick
    PROVE  OwnerInv'
<1>1. PICK j \in Jobs : TickStage(j) \/ TickApply(j) \/ TickEnd(j)
  BY DEF Tick
<1>2. host = "up" /\ j # None
  BY <1>1, JobNone DEF TickStage, Driving, Free, TickApply, TickEnd
<1>3. ASSUME Hold("HELD"), running' = None, selected = j, UnresolvedJobs' \subseteq UnresolvedJobs \cup {j}
      PROVE  OwnerInv'
  BY <1>2, <1>3, OwnerPaused DEF Hold
<1>4. CASE TickStage(j)
  <2>1. selected = j /\ running = None
    BY <1>4 DEF TickStage, Driving, Free
  <2>2. CASE StepCheck(j) /\ IF journal' = "open" THEN UNCHANGED owner ELSE Hold("HELD")
    <3>1. UnresolvedJobs' \subseteq UnresolvedJobs /\ UNCHANGED running
      BY <2>2, CallsResolve
    <3> QED BY <1>3, <2>1, <2>2, <3>1, OwnerKept
  <2>3. CASE ~accepting /\ ExecuteBegin(j) /\ IF journal' = "open" THEN UNCHANGED owner ELSE Hold("HELD")
    <3>1. /\ State(j) \in {"PREPARED", "RETRY_READY"} /\ Transition(j, "EXECUTING")
          /\ (running' = [job |-> j, stage |-> "marked"] \/ running' = running)
      BY <2>3 DEF ExecuteBegin, MayExecute, Marked, Transition
    <3>2. UnresolvedJobs' \subseteq UnresolvedJobs \cup {j}
      BY <3>1, TransitionUnresolved DEF Unresolved, Cancellable
    <3>3. accepting' = FALSE /\ UNCHANGED <<host, selected>>
      BY <2>3, SMTT(60) DEF owner, Hold
    <3>4. running' # None => running'.job = selected
      BY <2>1, <3>1, SMTT(60)
    <3> QED BY <1>2, <2>1, <3>2, <3>3, <3>4, OwnerPaused
  <2>4. CASE RetryApplied(j) /\ IF journal' = "open" THEN Succeeded ELSE Hold("HELD")
    <3>1. /\ State(j) \in Unresolved /\ Transition(j, "SUCCEEDED") /\ UNCHANGED running
      BY <2>4 DEF RetryApplied, Unresolved
    <3>2. /\ UnresolvedJobs' \subseteq UnresolvedJobs
          /\ journal' = "open" => j \notin UnresolvedJobs'
      BY <3>1, TransitionUnresolved, SMTT(60) DEF Unresolved
    <3> QED BY <1>2, <1>3, <2>1, <2>4, <3>1, <3>2, SucceededServes
  <2> QED BY <1>4, <2>2, <2>3, <2>4 DEF TickStage
<1>5. CASE TickApply(j)
  <2>1. UNCHANGED <<jobs, owner>> /\ running # None /\ running.job = j /\ running'.job = j
    BY <1>5, JobNone, SMTT(60) DEF TickApply, ExecuteApply, Runs, JobInv, JobType
  <2>2. UnresolvedJobs' = UnresolvedJobs
    BY <2>1 DEF UnresolvedJobs, State
  <2>3. running' # None /\ selected = j
    BY <1>5, <2>1, JobNone, SMTT(60) DEF TickApply, ExecuteApply, Runs, OwnerInv
  <2> QED BY <1>2, <2>1, <2>2, <2>3 DEF OwnerInv, ServingResolved, Free, owner
<1>6. CASE TickEnd(j)
  <2>1. PICK state \in {"SUCCEEDED", "OUTCOME_UNKNOWN"} :
             /\ ExecuteEnd(j, state)
             /\ state = "SUCCEEDED" => IF journal' = "open" THEN Succeeded ELSE Hold("HELD")
             /\ state # "SUCCEEDED" => accepting' = FALSE /\ UNCHANGED <<host, selected>>
    BY <1>6 DEF TickEnd
  <2>2. State(j) = "EXECUTING" /\ selected = j /\ Transition(j, state) /\ running' = None
    BY <2>1 DEF ExecuteEnd, JobInv, RunSound, OwnerInv
  <2>3. /\ UnresolvedJobs' \subseteq UnresolvedJobs
        /\ state = "SUCCEEDED" /\ journal' = "open" => j \notin UnresolvedJobs'
    BY <2>2, TransitionUnresolved DEF Unresolved
  <2>4. CASE state = "SUCCEEDED"
    BY <1>2, <1>3, <2>1, <2>2, <2>3, <2>4, SucceededServes
  <2>5. CASE state # "SUCCEEDED"
    BY <1>2, <2>1, <2>2, <2>3, <2>5, OwnerPaused
  <2> QED BY <2>4, <2>5
<1> QED BY <1>1, <1>4, <1>5, <1>6

\* Every step of the scheduled host.
LEMMA OwnerStep ==
    ASSUME JobInv, OwnerInv, [SNext]_svars
    PROVE  OwnerInv'
<1>1. CASE \E j \in Jobs : OwnerCall(j)
  BY <1>1, OwnerCallServes
<1>2. CASE Tick
  BY <1>2, TickServes
<1>3. CASE (UNCHANGED svars) \/ Accept \/ Finish \/ Environment
  <2>1. UNCHANGED <<jobs, running, owner>>
    BY <1>3 DEF svars, vars, owner, Accept, Finish, Transfer, Environment, Reauthorize, Direct
  <2>2. UnresolvedJobs' = UnresolvedJobs
    BY <2>1 DEF UnresolvedJobs, State
  <2> QED BY <2>1, <2>2, OwnerKept
<1>4. CASE TickFails
  <2>1. /\ UNCHANGED <<jobs, running>> /\ running = None /\ host = "up"
        /\ accepting' = FALSE /\ UNCHANGED <<host, selected>>
    BY <1>4 DEF TickFails, Hold, vars, Free
  <2>2. UnresolvedJobs' = UnresolvedJobs
    BY <2>1 DEF UnresolvedJobs, State
  <2> QED BY <2>1, <2>2, OwnerPaused
<1>5. CASE HostCrash
  BY <1>5 DEF HostCrash, OwnerInv, ServingResolved, Free
<1>6. CASE HostStart
  <2>1. /\ UNCHANGED <<jobs, running, selected>> /\ host' = "up" /\ selected = None /\ running = None
        /\ (accepting' <=> UnresolvedJobs = {})
    BY <1>6 DEF HostStart, Reopen, StartsResolved, OwnerInv
  <2>2. UnresolvedJobs' = UnresolvedJobs
    BY <2>1 DEF UnresolvedJobs, State
  <2> QED BY <2>1, <2>2, OwnerReleased
<1> QED BY <1>1, <1>2, <1>3, <1>4, <1>5, <1>6 DEF SNext

\* Nothing is selected or unresolved on a fresh host.
LEMMA OwnerInitially == SInit => OwnerInv
BY DEF SInit, Init, OwnerInv, ServingResolved, UnresolvedJobs, State, Unresolved, Free

\* For every set of jobs: the listeners of the scheduled host accept clients only
\* while no job is selected and none is unresolved (the pauses and resumes of
\* owner_loop's schedule, tick, cancel, reconcile and arm_retry, and the start).
THEOREM ServingAlwaysResolved == SSpec => []ServingResolved
<1>1. SInit => JobInv /\ OwnerInv
  BY JobInitially, OwnerInitially DEF SInit
<1>2. JobInv /\ OwnerInv /\ [SNext]_svars => (JobInv /\ OwnerInv)'
  BY JobStep, OwnerStep
<1>3. OwnerInv => ServingResolved
  BY DEF OwnerInv
<1> QED BY <1>1, <1>2, <1>3, PTL DEF SSpec

-----------------------------------------------------------------------------
(* II. The control operations and the staged submissions.                    *)

(* The inductive invariant of the control journal. *)

ControlType ==
    /\ policy \in Policies /\ ops \in [Ops -> OpStates \cup {None}]
    /\ command \in Commands \cup {None} /\ dispatched \in [Ops -> Nat]

\* The operation inside execute is INFLIGHT, and was dispatched once it has an outcome.
CommandSound ==
    command # None =>
        /\ ops[command.intent.op] = "INFLIGHT"
        /\ command.outcome = None => dispatched[command.intent.op] = 0
        /\ command.outcome # None => dispatched[command.intent.op] = 1

ControlInv == ControlType /\ DispatchedOnce /\ CommandSound

-----------------------------------------------------------------------------
(* The inductive invariant of the stage store. *)

StageType ==
    /\ stages \in [Jobs -> StageRecords \cup {None}] /\ payload \in [Jobs -> 0..Chunks]
    /\ retired \in [Jobs -> RetireRecords \cup {None}] /\ call \in Calls \cup {None}

\* The record of a retirement, bound to its job, or to none but one the owner submitted.
RetiredSound(j) == AuditRecord(j) /\ (BoundJob(j, retired[j].fact) \/ j \in owned)

\* The record of a stage with its payload, and of a registered one with its job.
StageSound(j) ==
    /\ stages[j] = None => payload[j] = 0 /\ retired[j] = None
    /\ Stage(j) = "RECEIVING" => stages[j].received < Chunks
    /\ stages[j] # None /\ retired[j] = None => AuditStage(j)
    /\ stages[j] # None /\ retired[j] # None => RetiredSound(j)
    /\ Stage(j) = "REGISTERED" => Registered(j)

\* Between two writes of a call, the files are as its first write left them.
CallSound(j, at) ==
    /\ at = "chunk" => Stage(j) = "RECEIVING" /\ retired[j] = None /\ payload[j] = stages[j].received + 1
    /\ at \in {"inflight", "submitted"} => Stage(j) = "INFLIGHT" /\ retired[j] = None
    /\ at \in {"unlink", "unlinked"} => retired[j] # None /\ retired[j].phase = "INTENT"
    /\ at = "release" => retired[j] # None /\ retired[j].phase = "PAYLOAD_REMOVED"
    /\ at \in {"unlinked", "release"} => payload[j] = 0

StageInv ==
    /\ StageType
    /\ \A j \in Jobs : StageSound(j)
    /\ call # None => CallSound(call.job, call.at)

SubmissionInv == JobInv /\ OwnerInv /\ ControlInv /\ StageInv

-----------------------------------------------------------------------------
(* The control journal. *)

\* One operation changes its record, and nothing else of the journal.
LEMMA OperationRecorded ==
    ASSUME ControlInv, NEW o \in Ops, NEW state \in OpStates, ops' = Recorded(o, state)
    PROVE  /\ ops' \in [Ops -> OpStates \cup {None}] /\ ops'[o] = state
           /\ \A p \in Ops : p # o => ops'[p] = ops[p]
BY DEF ControlInv, ControlType, Recorded

\* execute up to the durable INFLIGHT, or a write that fails around it.
LEMMA ExecuteOnce ==
    ASSUME ControlInv, NEW i \in Intents, Execute(i)
    PROVE  ControlInv'
<1> USE ControlNone DEF ControlInv
<1>1. /\ command = None /\ ops[i.op] = None /\ UNCHANGED <<policy, dispatched>> /\ i.op \in Ops
      /\ (ops' = Recorded(i.op, "INFLIGHT") \/ ops' = ops)
      /\ \/ command' = [intent |-> i, outcome |-> None] /\ ops' = Recorded(i.op, "INFLIGHT")
         \/ command' = None
  BY DEF Execute, Unknown, Intents
<1>2. /\ ops' \in [Ops -> OpStates \cup {None}] /\ ops'[i.op] \in {"INFLIGHT", None}
      /\ ops' = Recorded(i.op, "INFLIGHT") => ops'[i.op] = "INFLIGHT"
      /\ \A p \in Ops : p # i.op => ops'[p] = ops[p]
  <2>1. CASE ops' = ops
    BY <1>1, <2>1 DEF ControlType, Recorded, OpStates
  <2>2. CASE ops' = Recorded(i.op, "INFLIGHT")
    BY <1>1, <2>2, OperationRecorded DEF OpStates
  <2> QED BY <1>1, <2>1, <2>2
<1>3. dispatched[i.op] = 0 /\ dispatched' = dispatched
  BY <1>1 DEF DispatchedOnce
<1>4. ControlType'
  BY <1>1, <1>2, SMTT(60) DEF ControlType, Commands
<1>5. DispatchedOnce'
  BY <1>2, <1>3, "INFLIGHT" # "ACCEPTED" DEF DispatchedOnce, OpStates
<1>6. CommandSound'
  BY <1>1, <1>2, <1>3, SMTT(60) DEF CommandSound
<1> QED BY <1>4, <1>5, <1>6

\* The dispatch: the operation had none before.
LEMMA DispatchOnce ==
    ASSUME ControlInv, Dispatch
    PROVE  ControlInv'
<1> USE ControlNone DEF ControlInv
<1>1. /\ command \in Commands /\ command # None /\ command.outcome = None /\ UNCHANGED <<policy, ops>>
      /\ dispatched' = [dispatched EXCEPT ![command.intent.op] = @ + 1]
      /\ \E outcome \in {"ACCEPTED", "OUTCOME_UNKNOWN"} : command' = [command EXCEPT !.outcome = outcome]
  BY DEF Dispatch, Awaiting, ControlType
<1>2. PICK o \in Ops : o = command.intent.op /\ command.intent \in Intents
  BY <1>1 DEF Commands, Intents
<1>3. /\ command' \in Commands /\ command'.intent.op = o /\ command'.outcome # None /\ ops[o] = "INFLIGHT"
      /\ dispatched[o] = 0
  BY <1>1, <1>2 DEF Commands, OpStates, CommandSound
<1>4. /\ dispatched' \in [Ops -> Nat] /\ dispatched'[o] = 1
      /\ \A p \in Ops : p # o => dispatched'[p] = dispatched[p]
  BY <1>1, <1>2, <1>3, SMTT(60) DEF ControlType
<1>5. ControlType'
  BY <1>1, <1>3, <1>4 DEF ControlType
<1>6. DispatchedOnce'
  BY <1>1, <1>3, <1>4, SMTT(60) DEF DispatchedOnce, OpStates
<1>7. CommandSound'
  BY <1>1, <1>3, <1>4 DEF CommandSound
<1> QED BY <1>5, <1>6, <1>7

\* finish, durable or not: it follows the dispatch.
LEMMA RecordOnce ==
    ASSUME ControlInv, Record
    PROVE  ControlInv'
<1> USE ControlNone DEF ControlInv
<1>1. /\ command \in Commands /\ command # None /\ command.outcome # None
      /\ UNCHANGED <<policy, dispatched>> /\ command' = None
      /\ (ops' = Recorded(command.intent.op, command.outcome) \/ ops' = ops)
  BY DEF Record, Awaiting, ControlType
<1>2. PICK o \in Ops : o = command.intent.op /\ command.outcome \in OpStates
  BY <1>1 DEF Commands, Intents
<1>3. dispatched[o] = 1
  BY <1>1, <1>2 DEF CommandSound
<1>4. CASE ops' = ops
  BY <1>1, <1>4 DEF ControlType, DispatchedOnce, CommandSound
<1>5. CASE ops' = Recorded(o, command.outcome)
  <2>1. /\ ops' \in [Ops -> OpStates \cup {None}] /\ ops'[o] = command.outcome
        /\ \A p \in Ops : p # o => ops'[p] = ops[p]
    BY <1>2, <1>5, OperationRecorded
  <2> QED BY <1>1, <1>2, <1>3, <2>1 DEF ControlType, DispatchedOnce, CommandSound
<1> QED BY <1>1, <1>2, <1>4, <1>5

\* Every step of the host with its control and submission endpoints.
LEMMA ControlStepSound ==
    ASSUME ControlInv, [ANext]_avars
    PROVE  ControlInv'
<1> USE DEF ControlInv
<1>1. CASE UNCHANGED cvars
  BY <1>1 DEF cvars, ControlType, DispatchedOnce, CommandSound
<1>2. CASE ControlStep
  <2>1. CASE Abandon
    BY <2>1, ControlNone DEF Abandon, ControlType, DispatchedOnce, CommandSound
  <2> QED BY <1>2, <2>1, ExecuteOnce, DispatchOnce, RecordOnce DEF ControlStep
<1>3. CASE Crashed
  BY <1>3, ControlNone DEF Crashed, CRestart, ControlType, DispatchedOnce, CommandSound
<1>4. ASSUME NEW owns \in BOOLEAN, Rotate([revision |-> policy.revision + 1, owner |-> owns])
      PROVE  ControlInv'
  <2>1. policy' \in Policies
    BY <1>4, ControlBounds, SMTT(60) DEF Rotate, Rotated, ControlType, Policies
  <2> QED BY <1>4, <2>1 DEF Rotate, ControlType, DispatchedOnce, CommandSound
<1>5. ASSUME NEW j \in Jobs, StageStep(j) PROVE UNCHANGED cvars
  BY <1>5 DEF StageStep, Begin, Chunk, ChunkRecord, SubmitFound, SubmitBegin, SubmitJobs, SubmitRegister,
              ReconcileStage, ReconcileRegistration
<1>6. ASSUME NEW j \in Jobs, RetireStep(j) PROVE UNCHANGED cvars
  BY <1>6 DEF RetireStep, RetireBegin, RetireResume, RetireUnlink, RetireRemoved, RetireRelease, Rebind
<1>7. CASE Interrupted \/ OwnerTurn \/ Started \/ UNCHANGED avars
  BY <1>1, <1>7 DEF Interrupted, OwnerTurn, Started, avars
<1>8. CASE Callback
  BY <1>1, <1>4, <1>8 DEF Callback
<1> QED BY <1>1, <1>2, <1>3, <1>5, <1>6, <1>7, <1>8 DEF ANext

\* No operation is known to a fresh journal.
LEMMA ControlInitially == CInit => ControlInv
BY ControlBounds, ControlNone, SMTT(60)
   DEF CInit, ControlInv, ControlType, DispatchedOnce, CommandSound, Policies, OpStates

\* For every set of operations: a control operation reaches the owner loop at
\* most once, and its record does not lie about it (journal.start before the
\* dispatch, journal.finish after it, lookup for a repeated intent).
THEOREM DispatchedAtMostOnce == ASpec => []DispatchedOnce
<1>1. AInit => ControlInv
  BY ControlInitially DEF AInit
<1>2. ControlInv /\ [ANext]_avars => ControlInv'
  BY ControlStepSound
<1>3. ControlInv => DispatchedOnce
  BY DEF ControlInv
<1> QED BY <1>1, <1>2, <1>3, PTL DEF ASpec

-----------------------------------------------------------------------------
(* Jobs and windows only move on, whichever endpoint is called. *)

\* What a job's file and the pins of it can rely on.
JobsOnward == JobPinHolds(jobs, jobs')
NoneAdded == \A k \in Jobs : jobs[k] = None => jobs'[k] = None

\* Job files that stay as they are.
LEMMA JobsStill == ASSUME JobInv, UNCHANGED jobs PROVE JobsOnward /\ NoneAdded
<1>1. \A k \in Jobs : jobs[k] # None => jobs[k].events \in Nat
  BY JobBounds, SMTT(60) DEF JobInv, JobType, JobRecords
<1> QED BY <1>1, SMTT(60) DEF JobsOnward, NoneAdded, JobPinHolds, SameSubmission

\* transition, durable or not.
LEMMA TransitionOnward ==
    ASSUME JobInv, NEW j \in Jobs, NEW state \in Cancellable \cup Unresolved \cup {"SUCCEEDED", "CANCELLED"},
           State(j) \in Cancellable \cup Unresolved, Transition(j, state)
    PROVE  JobsOnward /\ NoneAdded
<1>1. /\ jobs \in [Jobs -> JobRecords \cup {None}] /\ jobs[j] # None /\ jobs[j] \in JobRecords
      /\ jobs[j].events < MaxEvents /\ jobs[j].events \in Nat
  <2>1. jobs \in [Jobs -> JobRecords \cup {None}]
    BY DEF JobInv, JobType
  <2>2. CASE State(j) \in Cancellable
    <3>1. jobs[j] \in JobRecords /\ jobs[j] # None /\ jobs[j].events <= 3
      BY <2>2, Early
    <3>2. jobs[j].events < MaxEvents /\ jobs[j].events \in Nat
      BY <3>1, JobBounds, SMTT(60) DEF JobRecords
    <3> QED BY <2>1, <3>1, <3>2
  <2>3. CASE State(j) \in Unresolved
    BY <2>1, <2>3, Late
  <2> QED BY <2>2, <2>3
<1>2. CASE jobs' = jobs
  BY <1>2, JobsStill
<1>3. CASE jobs' = Moved(j, state)
  <2> DEFINE job == [jobs[j] EXCEPT !.state = state, !.events = @ + 1]
  <2>1. /\ job \in JobRecords /\ jobs' = [jobs EXCEPT ![j] = job] /\ job.events = jobs[j].events + 1
        /\ SameSubmission(jobs[j], job)
    BY <1>1, <1>3, MovedRecord
  <2>2. job # None /\ jobs'[j] = job /\ \A k \in Jobs : k # j => jobs'[k] = jobs[k]
    BY <1>1, <2>1, JobNone
  <2> HIDE DEF job
  <2>3. \A k \in Jobs : jobs[k] # None => jobs[k].events \in Nat
    BY JobBounds, SMTT(60) DEF JobInv, JobType, JobRecords
  <2>4. ASSUME NEW k \in Jobs, jobs[k] # None
        PROVE  /\ jobs'[k] # None /\ SameSubmission(jobs[k], jobs'[k])
               /\ jobs'[k].events >= jobs[k].events
               /\ jobs'[k].events = jobs[k].events => jobs'[k].state = jobs[k].state
    <3>1. CASE k = j
      BY <1>1, <2>1, <2>2, <3>1, SMTT(60)
    <3>2. CASE k # j
      BY <2>2, <2>3, <2>4, <3>2, SMTT(60) DEF SameSubmission
    <3> QED BY <3>1, <3>2
  <2> QED BY <1>1, <2>2, <2>4 DEF JobsOnward, JobPinHolds, NoneAdded
<1> QED BY <1>2, <1>3 DEF Transition, Written, WriteFails

\* jobs.submit adds at most its own job.
LEMMA SubmitOnward ==
    ASSUME JobInv, NEW j \in Jobs, NEW action, NEW cmd, Submit(j, action, cmd)
    PROVE  JobsOnward /\ \A k \in Jobs : k # j => jobs'[k] = jobs[k]
<1>1. /\ jobs \in [Jobs -> JobRecords \cup {None}] /\ jobs[j] = None
      /\ jobs' = [jobs EXCEPT ![j] = NewJob(action, cmd)] \/ jobs' = jobs
  BY DEF Submit, JobInv, JobType
<1>2. \A k \in Jobs : k # j => jobs'[k] = jobs[k]
  BY <1>1
<1>3. \A k \in Jobs : jobs[k] # None => jobs[k].events \in Nat /\ k # j
  BY <1>1, JobBounds, SMTT(60) DEF JobRecords
<1> QED BY <1>2, <1>3, SMTT(60) DEF JobsOnward, JobPinHolds, SameSubmission

\* The calls of the owner that submit nothing.
LEMMA CallsOnward ==
    ASSUME JobInv, NEW j \in Jobs,
           \/ CancelJob(j) \/ ReconcileJob(j) \/ ArmRetry(j)
           \/ \E again \in BOOLEAN : Schedule(j, again)
    PROVE  JobsOnward /\ NoneAdded /\ UNCHANGED rows
<1>1. \/ Cancel(j) \/ ReconcileApplied(j) \/ ReconcilePending(j)
      \/ UNCHANGED vars
  BY DEF CancelJob, ReconcileJob, Reconciled, ArmRetry, Schedule
<1>2. CASE Cancel(j)
  <2>1. State(j) \in Cancellable /\ Transition(j, "CANCELLED") /\ UNCHANGED rows
    BY <1>2 DEF Cancel, MayCancel
  <2> QED BY <2>1, TransitionOnward
<1>3. CASE ReconcileApplied(j)
  <2>1. State(j) \in Unresolved /\ Transition(j, "SUCCEEDED") /\ UNCHANGED rows
    BY <1>3 DEF ReconcileApplied
  <2> QED BY <2>1, TransitionOnward
<1>4. CASE ReconcilePending(j)
  <2>1. State(j) \in Unresolved /\ Transition(j, "RETRY_READY") /\ UNCHANGED rows
    BY <1>4 DEF ReconcilePending, Unresolved
  <2> QED BY <2>1, TransitionOnward DEF Unresolved
<1>5. CASE UNCHANGED vars
  BY <1>5, JobsStill DEF vars
<1> QED BY <1>1, <1>2, <1>3, <1>4, <1>5

\* A window that stays as it is.
LEMMA RowsStill == ASSUME JobInv, UNCHANGED rows PROVE RowsOnward
BY SMTT(60) DEF JobInv, JobType, RowsOnward

\* A tick: one transition of one job, or one effect.
LEMMA TickOnward ==
    ASSUME JobInv, Tick
    PROVE  JobsOnward /\ NoneAdded /\ RowsOnward
<1>1. PICK j \in Jobs : TickStage(j) \/ TickApply(j) \/ TickEnd(j)
  BY DEF Tick
<1>2. CASE StepCheck(j)
  <2> DEFINE next == IF State(j) = "QUEUED" THEN "VALIDATED" ELSE "PREPARED"
  <2>1. State(j) \in Cancellable /\ Transition(j, next) /\ UNCHANGED rows /\ next \in Cancellable
    BY <1>2 DEF StepCheck, Cancellable
  <2> HIDE DEF next
  <2> QED BY <2>1, TransitionOnward, RowsStill
<1>3. CASE ExecuteBegin(j)
  <2>1. State(j) \in Cancellable \cup Unresolved /\ Transition(j, "EXECUTING") /\ UNCHANGED rows
    BY <1>3 DEF ExecuteBegin, MayExecute, Marked, Transition, Cancellable, Unresolved
  <2> QED BY <2>1, TransitionOnward, RowsStill DEF Unresolved
<1>4. CASE RetryApplied(j)
  <2>1. State(j) \in Unresolved /\ Transition(j, "SUCCEEDED") /\ UNCHANGED rows
    BY <1>4 DEF RetryApplied, Unresolved
  <2> QED BY <2>1, TransitionOnward, RowsStill
<1>5. CASE \E state \in {"SUCCEEDED", "OUTCOME_UNKNOWN"} : ExecuteEnd(j, state)
  <2>1. PICK state \in {"SUCCEEDED", "OUTCOME_UNKNOWN"} : ExecuteEnd(j, state)
    BY <1>5
  <2>2. State(j) \in Unresolved /\ Transition(j, state) /\ UNCHANGED rows
    BY <2>1 DEF ExecuteEnd, JobInv, RunSound, Unresolved
  <2> QED BY <2>2, TransitionOnward, RowsStill DEF Unresolved
<1>6. CASE ExecuteApply(j)
  <2>1. /\ running # None /\ running.job = j /\ Valid(jobs[j]) /\ UNCHANGED jobs
        /\ rows' = Effect(jobs[j].action, jobs[j].cmd)
    BY <1>6, JobNone, SMTT(60) DEF ExecuteApply, JobInv, JobType, Runs
  <2>2. PICK job \in JobRecords : job = jobs[j] /\ Targeted(job)
    BY <2>1 DEF JobInv, RunSound, State, JobSound, JobType
  <2>3. /\ job.action \in Actions /\ job.cmd \in Cmds \cup {None}
        /\ Possible(job.action, job.cmd) /\ rows' = Effect(job.action, job.cmd)
    BY <2>1, <2>2 DEF JobRecords, Valid
  <2>4. (job.action = "compact") <=> (job.cmd = None)
    BY <2>2 DEF Targeted
  <2>5. RowsOnward
    BY <2>3, <2>4, EffectOnward DEF JobInv
  <2> QED BY <2>1, <2>5, JobsStill
<1> QED BY <1>1, <1>2, <1>3, <1>4, <1>5, <1>6 DEF TickStage, TickApply, TickEnd

-----------------------------------------------------------------------------
(* The scheduled host under these calls. *)

\* jobs.submit, of the owner or in the call that made a stage INFLIGHT; a failure
\* in the call holds the host.
Submission(j) ==
    /\ Free
    /\ \E action \in Actions, cmd \in Cmds \cup {None} : Submit(j, action, cmd)
    /\ UNCHANGED owner \/ Hold("HELD")

\* A new job is that of a stage which is not retired, or the owner submitted it.
AddedSound ==
    \A k \in Jobs : jobs[k] = None /\ jobs'[k] # None => retired[k] = None \/ k \in owned'

\* The records of the stages' jobs are signed inputs of the right shape.
LEMMA StagedInput ==
    ASSUME StageInv, NEW j \in Jobs, call = [job |-> j, at |-> "inflight"]
    PROVE  stages[j].job \in JobRecords /\ Stage(j) = "INFLIGHT" /\ retired[j] = None
<1>1. call # None /\ call.job = j /\ call.at = "inflight"
  BY StageNone, SMTT(60) DEF StageInv, StageType, Calls
<1>2. Stage(j) = "INFLIGHT" /\ retired[j] = None
  BY <1>1 DEF StageInv, CallSound
<1>3. stages[j] \in StageRecords
  BY <1>2 DEF Stage, StageInv, StageType
<1> QED BY <1>2, <1>3 DEF StageRecords

\* What any step is for the jobs: a step of the scheduled host, or a submission.
LEMMA HostView ==
    ASSUME JobInv, StageInv, [ANext]_avars
    PROVE  /\ [SNext]_svars \/ \E j \in Jobs : Submission(j)
           /\ JobsOnward /\ RowsOnward /\ AddedSound /\ owned \subseteq owned'
<1>0. owned \subseteq owned'
  BY DEF ANext, OwnerTurn, avars
<1>1. CASE UNCHANGED svars
  <2>1. UNCHANGED <<jobs, rows>>
    BY <1>1 DEF svars, vars
  <2> QED BY <1>0, <1>1, <2>1, JobsStill, RowsStill DEF NoneAdded, AddedSound
<1>2. CASE Free /\ Hold("HELD") /\ UNCHANGED vars
  <2>1. UNCHANGED <<jobs, rows>> /\ TickFails
    BY <1>2 DEF vars, TickFails
  <2> QED BY <1>0, <2>1, JobsStill, RowsStill DEF NoneAdded, AddedSound, SNext
<1>3. ASSUME NEW j \in Jobs, SubmitJobs(j)
      PROVE  Submission(j) /\ JobsOnward /\ RowsOnward /\ AddedSound
  <2>1. call = [job |-> j, at |-> "inflight"] /\ Free /\ Submit(j, stages[j].job.action, stages[j].job.cmd)
    BY <1>3 DEF SubmitJobs, At
  <2>2. retired[j] = None /\ stages[j].job.action \in Actions /\ stages[j].job.cmd \in Cmds \cup {None}
    BY <2>1, StagedInput DEF JobRecords
  <2>3. UNCHANGED owner \/ Hold("HELD")
    BY <1>3 DEF SubmitJobs
  <2>4. Submission(j)
    BY <2>1, <2>2, <2>3 DEF Submission
  <2>5. JobsOnward /\ \A k \in Jobs : k # j => jobs'[k] = jobs[k]
    BY <2>1, SubmitOnward
  <2>6. RowsOnward
    BY <2>1, RowsStill DEF Submit
  <2> QED BY <2>2, <2>4, <2>5, <2>6 DEF AddedSound
<1>4. ASSUME NEW j \in Jobs, StageStep(j) \/ RetireStep(j), ~SubmitJobs(j)
      PROVE  (UNCHANGED svars) \/ (Free /\ Hold("HELD") /\ UNCHANGED vars)
  <2>1. ASSUME NEW new, NEW next, Free, Persist(new, next)
        PROVE  (UNCHANGED svars) \/ (Free /\ Hold("HELD") /\ UNCHANGED vars)
    BY <2>1 DEF Persist
  <2>2. ASSUME NEW new, NEW next, Free, PersistRetirement(new, next)
        PROVE  (UNCHANGED svars) \/ (Free /\ Hold("HELD") /\ UNCHANGED vars)
    BY <2>2 DEF PersistRetirement
  <2>3. CASE StageStep(j)
    BY <1>4, <2>1, <2>3 DEF StageStep, Begin, Chunk, ChunkRecord, SubmitFound, SubmitBegin, SubmitRegister,
                            ReconcileStage, ReconcileRegistration, Idle, At
  <2>4. CASE RetireStep(j)
    BY <2>2, <2>4 DEF RetireStep, RetireBegin, RetireResume, RetireUnlink, RetireRemoved, RetireRelease,
                      Rebind, Idle, At
  <2> QED BY <1>4, <2>3, <2>4
<1>5. ASSUME NEW j \in Jobs, SubmitUnder(j), retired[j] = None \/ j \in owned'
      PROVE  Submission(j) /\ JobsOnward /\ RowsOnward /\ AddedSound
  <2>1. Submission(j)
    BY <1>5 DEF SubmitUnder, Submission
  <2>2. PICK action \in Actions, cmd \in Cmds \cup {None} : Submit(j, action, cmd)
    BY <1>5 DEF SubmitUnder
  <2>3. JobsOnward /\ \A k \in Jobs : k # j => jobs'[k] = jobs[k]
    BY <2>2, SubmitOnward
  <2>4. RowsOnward
    BY <2>2, RowsStill DEF Submit
  <2> QED BY <1>5, <2>1, <2>3, <2>4 DEF AddedSound
<1>6. ASSUME NEW j \in Jobs, \/ CancelJob(j) \/ ReconcileJob(j) \/ ArmRetry(j)
                             \/ \E again \in BOOLEAN : Schedule(j, again)
      PROVE  SNext /\ JobsOnward /\ RowsOnward /\ AddedSound
  <2>1. SNext
    BY <1>6 DEF SNext, OwnerCall
  <2>2. JobsOnward /\ NoneAdded /\ UNCHANGED rows
    BY <1>6, CallsOnward
  <2> QED BY <2>1, <2>2, RowsStill DEF NoneAdded, AddedSound
<1>7. CASE Tick
  BY <1>0, <1>7, TickOnward DEF NoneAdded, AddedSound, SNext
<1>8. CASE HostCrash \/ HostStart
  <2>1. UNCHANGED <<jobs, rows>>
    BY <1>8 DEF HostCrash, HostStart, Reopen
  <2> QED BY <1>0, <1>8, <2>1, JobsStill, RowsStill DEF NoneAdded, AddedSound, SNext
<1>9. CASE host = "up" /\ UNCHANGED owner /\ \E action \in Actions, cmd \in Cmds \cup {None} : Direct(action, cmd)
  <2>1. SNext
    BY <1>9 DEF SNext, Environment
  <2>2. PICK action \in Actions, cmd \in Cmds \cup {None} : Direct(action, cmd)
    BY <1>9
  <2>3. /\ Possible(action, cmd) /\ rows' = Effect(action, cmd)
        /\ ((action = "compact") <=> (cmd = None)) /\ UNCHANGED jobs
    BY <2>2 DEF Direct
  <2>4. RowsOnward
    BY <2>3, EffectOnward DEF JobInv
  <2> QED BY <1>0, <2>1, <2>3, <2>4, JobsStill DEF NoneAdded, AddedSound
<1>10. CASE OwnerTurn
  <2>1. CASE TickFails
    BY <1>2, <2>1 DEF TickFails
  <2>2. CASE \E j \in Jobs : SubmitUnder(j) /\ owned' = IF retired[j] = None THEN owned ELSE owned \cup {j}
    BY <1>0, <1>5, <2>2
  <2> QED BY <1>6, <1>7, <1>10, <2>1, <2>2 DEF OwnerTurn
<1>11. CASE ControlStep
  <2>1. CASE \E i \in Intents : Execute(i)
    BY <1>1, <1>2, <2>1 DEF Execute, Poisoned
  <2>2. CASE Record \/ Abandon
    BY <1>1, <1>2, <2>2 DEF Record, Abandon, Poisoned, Awaiting
  <2>3. CASE Dispatch
    <3>1. PICK j \in Jobs, action \in ControlActions : HostCall(action, j) \/ UNCHANGED svars
      BY <2>3 DEF Dispatch
    <3> QED BY <1>0, <1>1, <1>6, <3>1 DEF HostCall, ControlActions
  <2> QED BY <1>11, <2>1, <2>2, <2>3 DEF ControlStep
<1>12. CASE Callback
  BY <1>1, <1>9, <1>12 DEF Callback, Rotate
<1>13. CASE Interrupted \/ Crashed \/ Started \/ UNCHANGED avars
  BY <1>1, <1>8, <1>13 DEF Interrupted, Crashed, Started, avars
<1>14. CASE \E j \in Jobs : StageStep(j) \/ RetireStep(j)
  BY <1>0, <1>1, <1>2, <1>3, <1>4, <1>14
<1> QED BY <1>0, <1>10, <1>11, <1>12, <1>13, <1>14 DEF ANext

\* What part I shows of the jobs and of the owner loop stays true.
LEMMA HostKept ==
    ASSUME JobInv, OwnerInv, StageInv, [ANext]_avars
    PROVE  JobInv' /\ OwnerInv'
<1>1. CASE [SNext]_svars
  BY <1>1, JobStep, OwnerStep
<1>2. ASSUME NEW j \in Jobs, Submission(j)
      PROVE  JobInv' /\ OwnerInv'
  <2>1. \E action \in Actions, cmd \in Cmds \cup {None} : Submit(j, action, cmd)
    BY <1>2 DEF Submission
  <2>2. JobInv'
    BY <2>1, SubmitSound
  <2>3. UnresolvedJobs' \subseteq UnresolvedJobs /\ UNCHANGED running
    BY <2>1, CallsResolve
  <2>4. CASE UNCHANGED owner
    BY <2>2, <2>3, <2>4, OwnerKept
  <2>5. CASE Hold("HELD")
    BY <1>2, <2>2, <2>3, <2>5, OwnerPaused DEF Hold, Submission, Free
  <2> QED BY <1>2, <2>4, <2>5 DEF Submission
<1> QED BY <1>1, <1>2, HostView

-----------------------------------------------------------------------------
(* The stage store. *)

\* The files stay as they are: jobs move on, and none appears under a retired stage
\* that the owner did not submit.
LEMMA SoundKept ==
    ASSUME StageInv, UNCHANGED files, JobsOnward, AddedSound, owned \subseteq owned', NEW j \in Jobs
    PROVE  StageSound(j)'
<1>1. UNCHANGED <<stages, payload, retired>> /\ StageSound(j) /\ Stage(j)' = Stage(j)
  BY DEF files, StageInv, Stage
<1>2. Registered(j) => Registered(j)'
  BY <1>1 DEF Registered, JobsOnward, JobPinHolds, SameSubmission, SameInput, IntentOf
<1>3. retired[j] # None /\ jobs[j] = None => jobs'[j] = None \/ j \in owned'
  BY DEF AddedSound
<1>4. stages[j] # None /\ retired[j] = None => AuditStage(j)'
  BY <1>1 DEF StageSound, AuditStage
<1>5. stages[j] # None /\ retired[j] # None => RetiredSound(j)'
  BY <1>1, <1>2, <1>3 DEF StageSound, RetiredSound, AuditRecord, BoundJob
<1> QED BY <1>1, <1>2, <1>4, <1>5 DEF StageSound

\* The files stay as they are, and a call goes on or ends.
LEMMA FilesKept ==
    ASSUME StageInv, UNCHANGED files, call' \in {call, None}, JobsOnward, AddedSound,
           owned \subseteq owned'
    PROVE  StageInv'
<1>1. UNCHANGED <<stages, payload, retired>>
  BY DEF files
<1>2. StageType'
  BY <1>1 DEF StageInv, StageType
<1>3. \A j \in Jobs : StageSound(j)'
  BY SoundKept
<1>4. (call # None => CallSound(call.job, call.at))'
  BY <1>1, SMTT(60) DEF StageInv, CallSound, Stage
<1> QED BY <1>2, <1>3, <1>4 DEF StageInv

\* One stage is written, and the call goes on at a point its files allow.
LEMMA OneStage ==
    ASSUME StageInv, owned \subseteq owned', NEW j \in Jobs, UNCHANGED jobs, StageType',
           \A k \in Jobs : k # j => /\ stages'[k] = stages[k] /\ payload'[k] = payload[k]
                                    /\ retired'[k] = retired[k],
           StageSound(j)', (call # None => CallSound(call.job, call.at))'
    PROVE  StageInv'
<1>1. ASSUME NEW k \in Jobs, k # j PROVE StageSound(k)'
  <2>1. stages'[k] = stages[k] /\ payload'[k] = payload[k] /\ retired'[k] = retired[k] /\ StageSound(k)
    BY <1>1 DEF StageInv
  <2>2. Stage(k)' = Stage(k)
    BY <2>1 DEF Stage
  <2> QED BY <2>1, <2>2 DEF StageSound, AuditStage, RetiredSound, AuditRecord, BoundJob, Registered
<1> QED BY <1>1 DEF StageInv

\* _persist of a stage that is not retired.
LEMMA PersistSound ==
    ASSUME JobInv, StageInv, owned \subseteq owned', NEW j \in Jobs, NEW s \in StageRecords, NEW next,
           Persist([stages EXCEPT ![j] = s], next), UNCHANGED <<payload, retired>>, retired[j] = None,
           s.received <= payload[j], s.state = "RECEIVING" => s.received < Chunks,
           s.state # "RECEIVING" => s.received = Chunks /\ payload[j] = Chunks,
           s.state = "REGISTERED" => jobs[j] # None /\ SameInput(jobs[j], s.job),
           next = None \/ (next = [job |-> j, at |-> "inflight"] /\ s.state = "INFLIGHT")
    PROVE  StageInv'
<1>1. UNCHANGED jobs /\ call' \in {next, None}
  BY DEF Persist, svars, vars
<1>2. CASE stages' = stages /\ call' = None
  <2>1. UNCHANGED files /\ JobsOnward /\ AddedSound
    BY <1>1, <1>2, JobsStill DEF files, NoneAdded, AddedSound
  <2> QED BY <1>2, <2>1, FilesKept
<1>3. CASE stages' = [stages EXCEPT ![j] = s]
  <2>1. s # None /\ stages \in [Jobs -> StageRecords \cup {None}]
    BY StageNone DEF StageInv, StageType
  <2>2. stages'[j] = s /\ \A k \in Jobs : k # j => stages'[k] = stages[k]
    BY <1>3, <2>1
  <2>3. StageType'
    <3>1. call' \in Calls \cup {None}
      BY <1>1, SMTT(60) DEF Calls
    <3> QED BY <1>3, <2>1, <3>1 DEF StageInv, StageType
  <2>4. Stage(j)' = s.state
    BY <2>1, <2>2 DEF Stage
  <2>5. payload[j] \in 0..Chunks /\ s.received \in 0..Chunks /\ payload'[j] = payload[j] /\ retired'[j] = None
    BY DEF StageInv, StageType, StageRecords
  <2>6. AuditStage(j)'
    BY <2>2, <2>4, <2>5, StageBounds DEF AuditStage
  <2>7. StageSound(j)'
    BY <1>1, <2>1, <2>2, <2>4, <2>5, <2>6 DEF StageSound, Registered
  <2>8. (call # None => CallSound(call.job, call.at))'
    BY <1>1, <2>4, <2>5, SMTT(60) DEF CallSound
  <2> QED BY <1>1, <2>2, <2>3, <2>7, <2>8, OneStage
<1> QED BY <1>2, <1>3 DEF Persist

\* _persist_retirement, bound to the job that is there, or to none.
LEMMA RetirementSound ==
    ASSUME JobInv, StageInv, owned \subseteq owned', NEW j \in Jobs, NEW r \in RetireRecords, NEW next,
           PersistRetirement([retired EXCEPT ![j] = r], next), UNCHANGED <<stages, payload>>,
           stages[j] # None, Stage(j) # "INFLIGHT", r.fact = (Stage(j) = "REGISTERED"),
           payload[j] > 0 => r.phase = "INTENT", BoundJob(j, r.fact) \/ j \in owned,
           \/ next = None
           \/ next = [job |-> j, at |-> "unlink"] /\ r.phase = "INTENT"
           \/ next = [job |-> j, at |-> "release"] /\ r.phase = "PAYLOAD_REMOVED"
    PROVE  StageInv'
<1>1. UNCHANGED jobs /\ call' \in {next, None}
  BY DEF PersistRetirement, svars, vars
<1>2. CASE retired' = retired /\ call' = None
  <2>1. UNCHANGED files /\ JobsOnward /\ AddedSound
    BY <1>1, <1>2, JobsStill DEF files, NoneAdded, AddedSound
  <2> QED BY <1>2, <2>1, FilesKept
<1>3. CASE retired' = [retired EXCEPT ![j] = r]
  <2>1. r # None /\ retired \in [Jobs -> RetireRecords \cup {None}] /\ payload[j] \in 0..Chunks /\ StageSound(j)
    BY StageNone DEF StageInv, StageType
  <2>2. retired'[j] = r /\ \A k \in Jobs : k # j => retired'[k] = retired[k]
    BY <1>3, <2>1
  <2>3. StageType'
    <3>1. call' \in Calls \cup {None}
      BY <1>1, SMTT(60) DEF Calls
    <3> QED BY <1>3, <2>1, <3>1 DEF StageInv, StageType
  <2>4. Stage(j)' = Stage(j)
    BY DEF Stage
  <2>5. RetiredSound(j)'
    BY <1>1, <2>2, <2>4 DEF RetiredSound, AuditRecord, BoundJob, Registered
  <2>6. StageSound(j)'
    BY <1>1, <2>1, <2>2, <2>4, <2>5 DEF StageSound, Registered
  <2>7. r.phase = "PAYLOAD_REMOVED" => payload[j] = 0
    BY <2>1, StageBounds, SMTT(60)
  <2>8. (call # None => CallSound(call.job, call.at))'
    BY <1>1, <2>1, <2>2, <2>7, SMTT(60) DEF CallSound
  <2> QED BY <1>1, <2>2, <2>3, <2>6, <2>8, OneStage
<1> QED BY <1>2, <1>3 DEF PersistRetirement

\* A received stage moves on in its registration.
LEMMA StageToSound ==
    ASSUME JobInv, StageInv, owned \subseteq owned', NEW j \in Jobs,
           stages[j] # None, retired[j] = None, Stage(j) # "RECEIVING",
           NEW state \in {"INFLIGHT", "RETRY_READY", "REGISTERED"}, NEW next,
           Persist(StageTo(j, state), next), UNCHANGED <<payload, retired>>,
           state = "REGISTERED" => Registered(j),
           next = None \/ (next = [job |-> j, at |-> "inflight"] /\ state = "INFLIGHT")
    PROVE  StageInv'
<1> DEFINE s == [stages[j] EXCEPT !.state = state]
<1>1. stages \in [Jobs -> StageRecords \cup {None}] /\ stages[j] \in StageRecords
  BY DEF StageInv, StageType
<1>2. AuditStage(j) /\ stages[j].received = Chunks /\ payload[j] = Chunks
  BY DEF StageInv, StageSound, AuditStage
<1>3. s \in StageRecords /\ s.state = state /\ s.received = stages[j].received /\ s.job = stages[j].job
  BY <1>1 DEF StageRecords, StageStates
<1>4. StageTo(j, state) = [stages EXCEPT ![j] = s]
  BY <1>1 DEF StageTo
<1>5. s.state # "RECEIVING" /\ s.received = Chunks /\ s.received <= payload[j]
  BY <1>2, <1>3, StageBounds, SMTT(60)
<1>6. s.state = "REGISTERED" => jobs[j] # None /\ SameInput(jobs[j], s.job)
  BY <1>3 DEF Registered
<1>7. Persist([stages EXCEPT ![j] = s], next)
  BY <1>4
<1>8. next = None \/ (next = [job |-> j, at |-> "inflight"] /\ s.state = "INFLIGHT")
  BY <1>3
<1> HIDE DEF s
<1> QED BY <1>2, <1>3, <1>5, <1>6, <1>7, <1>8, PersistSound

\* The payload of one stage changes.
LEMMA PayloadSound ==
    ASSUME StageInv, owned \subseteq owned', NEW j \in Jobs, NEW p \in 0..Chunks,
           payload' = [payload EXCEPT ![j] = p],
           UNCHANGED <<stages, retired, jobs>>, call' \in Calls \cup {None},
           stages[j] # None,
           retired[j] = None => Stage(j) = "RECEIVING" /\ p >= stages[j].received,
           retired[j] # None => p = 0,
           (call # None => CallSound(call.job, call.at))'
    PROVE  StageInv'
<1>1. /\ payload \in [Jobs -> 0..Chunks] /\ payload'[j] = p /\ StageSound(j) /\ Stage(j)' = Stage(j)
      /\ \A k \in Jobs : k # j => payload'[k] = payload[k]
  BY DEF StageInv, StageType, Stage
<1>2. StageType'
  BY <1>1 DEF StageInv, StageType
<1>3. retired[j] = None => AuditStage(j)'
  BY <1>1 DEF AuditStage
<1>4. retired[j] # None => RetiredSound(j)'
  BY <1>1, StageBounds, SMTT(60) DEF StageSound, RetiredSound, AuditRecord, BoundJob, Registered
<1>5. StageSound(j)'
  BY <1>1, <1>3, <1>4 DEF StageSound, Registered
<1> QED BY <1>1, <1>2, <1>5, OneStage

\* begin: a new record over no payload.
LEMMA BeginSound ==
    ASSUME JobInv, ControlInv, StageInv, owned \subseteq owned', NEW j \in Jobs,
           NEW action \in Actions, NEW cmd \in Cmds \cup {None}, Begin(j, action, cmd)
    PROVE  StageInv'
<1> DEFINE s == Descriptor(action, cmd)
<1>1. NewJob(action, cmd) \in JobRecords
  BY JobBounds, PinShape, SMTT(60) DEF NewJob, JobRecords, JobInv, JobType, Cancellable
<1>2. s \in StageRecords /\ s.received = 0 /\ s.state = "RECEIVING"
  BY <1>1, StageBounds, SMTT(60) DEF Descriptor, StageRecords, StageStates, ControlInv, ControlType, Policies
<1>3. stages[j] = None /\ retired[j] = None /\ payload[j] = 0
  BY DEF Begin, Unstaged, StageInv, StageSound
<1>4. Persist([stages EXCEPT ![j] = s], None) /\ UNCHANGED <<payload, retired>>
  BY DEF Begin
<1>5. s.received <= payload[j] /\ s.received < Chunks /\ "RECEIVING" # "REGISTERED"
  BY <1>2, <1>3, StageBounds, SMTT(60)
<1> HIDE DEF s
<1> QED BY <1>2, <1>3, <1>4, <1>5, PersistSound

\* chunk: the payload grows before the record counts it.
LEMMA ChunkSound ==
    ASSUME JobInv, StageInv, owned \subseteq owned', NEW j \in Jobs, Chunk(j)
    PROVE  StageInv'
<1>1. /\ retired[j] = None /\ Stage(j) = "RECEIVING" /\ stages[j] # None /\ UNCHANGED <<stages, retired>>
      /\ UNCHANGED jobs
  BY DEF Chunk, Matching, svars, vars
<1>2. stages[j] \in StageRecords /\ stages[j].received \in Nat /\ stages[j].received < Chunks
  BY <1>1, StageBounds, SMTT(60) DEF StageInv, StageType, StageSound, StageRecords
<1>3. PICK more \in 0..1 : /\ payload' = [payload EXCEPT ![j] = stages[j].received + more]
                           /\ \/ call' = [job |-> j, at |-> "chunk"] /\ more = 1
                              \/ call' = None
  BY SMTT(60) DEF Chunk
<1> DEFINE p == stages[j].received + more
<1>4. p \in 0..Chunks /\ p >= stages[j].received /\ call' \in Calls \cup {None}
  BY <1>2, <1>3, StageBounds, SMTT(60) DEF Calls
<1>5. (call # None => CallSound(call.job, call.at))'
  <2>1. payload'[j] = p
    BY <1>3 DEF StageInv, StageType
  <2>2. Stage(j)' = "RECEIVING"
    BY <1>1 DEF Stage
  <2> QED BY <1>1, <1>3, <2>1, <2>2, SMTT(60) DEF CallSound
<1>6. payload' = [payload EXCEPT ![j] = p]
  BY <1>3
<1> HIDE DEF p
<1> QED BY <1>1, <1>4, <1>5, <1>6, PayloadSound

\* What the record says once the chunk is counted.
LEMMA CountedRecord ==
    ASSUME StageInv, NEW j \in Jobs, Stage(j) = "RECEIVING"
    PROVE  \E s \in StageRecords :
              /\ Counted(j) = [stages EXCEPT ![j] = s] /\ s.received = stages[j].received + 1
              /\ s.state = IF s.received = Chunks THEN "READY" ELSE "RECEIVING"
              /\ s.revision = stages[j].revision /\ s.job = stages[j].job
<1>1. /\ stages[j] \in StageRecords /\ stages[j].state = "RECEIVING"
      /\ stages[j].received \in Nat /\ stages[j].received < Chunks
      /\ stages \in [Jobs -> StageRecords \cup {None}]
  BY StageBounds, SMTT(60) DEF Stage, StageInv, StageType, StageSound, StageRecords
<1> DEFINE n == stages[j].received + 1
           s == [stages[j] EXCEPT !.received = @ + 1, !.state = IF n = Chunks THEN "READY" ELSE @]
<1>2. Counted(j) = [stages EXCEPT ![j] = s]
  BY <1>1 DEF Counted
<1>3. n \in 0..Chunks
  BY <1>1, StageBounds, SMTT(60)
<1>4. CASE n = Chunks
  <2>1. /\ s \in StageRecords /\ s.received = n /\ s.state = "READY"
        /\ s.revision = stages[j].revision /\ s.job = stages[j].job
    BY <1>1, <1>3, <1>4 DEF StageRecords, StageStates
  <2> QED BY <1>2, <1>4, <2>1
<1>5. CASE n # Chunks
  <2>1. /\ s \in StageRecords /\ s.received = n /\ s.state = "RECEIVING"
        /\ s.revision = stages[j].revision /\ s.job = stages[j].job
    BY <1>1, <1>3, <1>5 DEF StageRecords, StageStates
  <2> QED BY <1>2, <1>5, <2>1
<1> QED BY <1>4, <1>5

\* The record that counts the chunk.
LEMMA ChunkRecordSound ==
    ASSUME JobInv, StageInv, owned \subseteq owned', NEW j \in Jobs, ChunkRecord(j)
    PROVE  StageInv'
<1>1. /\ call # None /\ call.job = j /\ call.at = "chunk" /\ Persist(Counted(j), None)
      /\ UNCHANGED <<payload, retired>>
  BY StageNone, SMTT(60) DEF ChunkRecord, At, StageInv, StageType, Calls
<1>2. Stage(j) = "RECEIVING" /\ retired[j] = None /\ payload[j] = stages[j].received + 1
  BY <1>1 DEF StageInv, CallSound
<1>3. stages[j].received \in Nat /\ stages[j].received < Chunks
  BY <1>2, StageBounds, SMTT(60) DEF Stage, StageInv, StageType, StageSound, StageRecords
<1>4. PICK s \in StageRecords :
           /\ Counted(j) = [stages EXCEPT ![j] = s] /\ s.received = stages[j].received + 1
           /\ s.state = IF s.received = Chunks THEN "READY" ELSE "RECEIVING"
  BY <1>2, CountedRecord
<1>5. /\ s.received <= payload[j] /\ (s.state = "RECEIVING" => s.received < Chunks)
      /\ (s.state # "RECEIVING" => s.received = Chunks /\ payload[j] = Chunks) /\ s.state # "REGISTERED"
  BY <1>2, <1>3, <1>4, StageBounds, SMTT(60)
<1>6. Persist([stages EXCEPT ![j] = s], None)
  BY <1>1, <1>4
<1> QED BY <1>1, <1>2, <1>5, <1>6, PersistSound

\* submit, retry and reconcile, apart from jobs.submit itself.
LEMMA RegistrationSound ==
    ASSUME JobInv, StageInv, owned \subseteq owned', NEW j \in Jobs,
           \/ SubmitFound(j) \/ SubmitBegin(j) \/ SubmitRegister(j)
           \/ ReconcileStage(j) \/ ReconcileRegistration(j)
    PROVE  StageInv'
<1>1. ASSUME At(j, "submitted") PROVE Stage(j) = "INFLIGHT" /\ retired[j] = None
  <2>1. call # None /\ call.job = j /\ call.at = "submitted"
    BY <1>1, StageNone, SMTT(60) DEF At, StageInv, StageType, Calls
  <2> QED BY <2>1 DEF StageInv, CallSound
<1>2. /\ Stage(j) \in {"READY", "RETRY_READY", "INFLIGHT"} /\ retired[j] = None
      /\ UNCHANGED <<payload, retired>>
  BY <1>1 DEF SubmitFound, SubmitBegin, SubmitRegister, ReconcileStage, ReconcileRegistration,
              Submittable, Reconcilable, Matching
<1>3. stages[j] # None /\ Stage(j) # "RECEIVING"
  BY <1>2 DEF Stage
<1>4. CASE SubmitBegin(j)
  BY <1>2, <1>3, <1>4, StageToSound DEF SubmitBegin
<1>5. CASE Registered(j) /\ Persist(StageTo(j, "REGISTERED"), None)
  BY <1>2, <1>3, <1>5, StageToSound
<1>6. CASE Persist(StageTo(j, "RETRY_READY"), None)
  BY <1>2, <1>3, <1>6, StageToSound
<1> QED BY <1>4, <1>5, <1>6 DEF SubmitFound, SubmitRegister, ReconcileStage, ReconcileRegistration

\* The record of a retirement under one of its later writes.
LEMMA Retired ==
    ASSUME StageInv, NEW j \in Jobs, retired[j] # None
    PROVE  /\ retired \in [Jobs -> RetireRecords \cup {None}] /\ retired[j] \in RetireRecords
           /\ stages[j] # None /\ RetiredSound(j)
BY DEF StageInv, StageType, StageSound

\* retire: the intent, and each of its later phases.
LEMMA RetireRecordSound ==
    ASSUME JobInv, ControlInv, StageInv, owned \subseteq owned', NEW j \in Jobs,
           RetireBegin(j) \/ RetireRemoved(j) \/ RetireRelease(j) \/ Rebind(j)
    PROVE  StageInv'
<1>1. UNCHANGED <<stages, payload>> /\ policy.revision \in 1..MaxRevision /\ payload[j] \in 0..Chunks
  BY DEF RetireBegin, RetireRemoved, RetireRelease, Rebind, ControlInv, ControlType, Policies, StageInv, StageType
<1>2. CASE RetireBegin(j)
  <2> DEFINE r == [phase |-> "INTENT", revision |-> policy.revision, fact |-> Stage(j) = "REGISTERED"]
  <2>1. /\ r \in RetireRecords /\ r.phase = "INTENT" /\ r.fact = (Stage(j) = "REGISTERED")
    BY <1>1 DEF RetireRecords
  <2>2. /\ PersistRetirement([retired EXCEPT ![j] = r], [job |-> j, at |-> "unlink"])
        /\ stages[j] # None /\ Stage(j) # "INFLIGHT" /\ BoundJob(j, r.fact)
    BY <1>2, <2>1 DEF RetireBegin, Retirable
  <2> HIDE DEF r
  <2> QED BY <1>1, <2>1, <2>2, RetirementSound
<1>3. ASSUME retired[j] # None, NEW r \in RetireRecords, r.fact = retired[j].fact, NEW next,
             PersistRetirement([retired EXCEPT ![j] = r], next),
             payload[j] > 0 => r.phase = "INTENT",
             next = None \/ (next = [job |-> j, at |-> "release"] /\ r.phase = "PAYLOAD_REMOVED")
      PROVE  StageInv'
  <2>1. stages[j] # None /\ RetiredSound(j)
    BY <1>3, Retired
  <2> QED BY <1>1, <1>3, <2>1, RetirementSound DEF RetiredSound, AuditRecord
<1>4. ASSUME NEW phase \in {"PAYLOAD_REMOVED", "TOMBSTONED"}, NEW next, retired[j] # None, payload[j] = 0,
             PersistRetirement(RetireTo(j, phase), next),
             next = None \/ (next = [job |-> j, at |-> "release"] /\ phase = "PAYLOAD_REMOVED")
      PROVE  StageInv'
  <2> DEFINE r == [retired[j] EXCEPT !.phase = phase]
  <2>1. /\ r \in RetireRecords /\ r.fact = retired[j].fact /\ r.phase = phase
        /\ RetireTo(j, phase) = [retired EXCEPT ![j] = r]
    BY <1>4, Retired DEF RetireRecords, RetireTo
  <2>2. PersistRetirement([retired EXCEPT ![j] = r], next) /\ ~(payload[j] > 0)
    BY <1>4, <2>1, SMTT(60)
  <2> HIDE DEF r
  <2> QED BY <1>3, <1>4, <2>1, <2>2
<1>5. ASSUME NEW at \in {"unlinked", "release"}, At(j, at)
      PROVE  retired[j] # None /\ payload[j] = 0
  <2>1. call # None /\ call.job = j /\ call.at = at
    BY <1>5, StageNone, SMTT(60) DEF At, StageInv, StageType, Calls
  <2> QED BY <2>1 DEF StageInv, CallSound
<1>6. CASE RetireRemoved(j)
  BY <1>4, <1>5, <1>6 DEF RetireRemoved
<1>7. CASE RetireRelease(j)
  BY <1>4, <1>5, <1>7 DEF RetireRelease
<1>8. CASE Rebind(j)
  <2> DEFINE r == [retired[j] EXCEPT !.revision = policy.revision]
  <2>1. retired[j] # None
    BY <1>8 DEF Rebind
  <2>2. /\ r \in RetireRecords /\ r.fact = retired[j].fact /\ r.phase = retired[j].phase
        /\ [retired EXCEPT ![j].revision = policy.revision] = [retired EXCEPT ![j] = r]
    BY <1>1, <2>1, Retired DEF RetireRecords
  <2>3. PersistRetirement([retired EXCEPT ![j] = r], None) /\ (payload[j] > 0 => r.phase = "INTENT")
    BY <1>8, <2>1, <2>2, Retired DEF Rebind, RetiredSound, AuditRecord
  <2> HIDE DEF r
  <2> QED BY <1>3, <2>1, <2>2, <2>3
<1> QED BY <1>2, <1>6, <1>7, <1>8

\* The unlink of the payload, and the resumption of a retirement.
LEMMA RetireUnlinkSound ==
    ASSUME JobInv, StageInv, owned \subseteq owned', NEW j \in Jobs, RetireUnlink(j) \/ RetireResume(j)
    PROVE  StageInv'
<1>1. CASE RetireResume(j)
  <2>1. /\ UNCHANGED <<stages, payload, retired, jobs>> /\ retired[j] # None
        /\ retired[j].phase # "TOMBSTONED"
        /\ call' = [job |-> j, at |-> IF retired[j].phase = "INTENT" THEN "unlink" ELSE "release"]
    BY <1>1 DEF RetireResume, svars, vars, files
  <2>2. /\ stages[j] # None /\ retired[j] \in RetireRecords /\ RetiredSound(j) /\ payload[j] \in 0..Chunks
        /\ StageSound(j)
    BY <2>1, Retired DEF StageInv, StageType
  <2>3. payload[j] > 0 => retired[j].phase = "INTENT"
    BY <2>2 DEF RetiredSound, AuditRecord
  <2>4. StageType'
    BY <2>1 DEF StageInv, StageType, Calls
  <2>5. StageSound(j)'
    BY <2>1, <2>2 DEF StageSound, Stage, RetiredSound, AuditRecord, BoundJob, Registered, AuditStage
  <2>6. (call # None => CallSound(call.job, call.at))'
    BY <2>1, <2>2, <2>3, StageBounds, SMTT(60) DEF CallSound, RetireRecords
  <2> QED BY <2>1, <2>4, <2>5, <2>6, OneStage
<1>2. CASE RetireUnlink(j)
  <2>1. /\ call # None /\ call.job = j /\ call.at = "unlink" /\ UNCHANGED <<stages, retired, jobs>>
    BY <1>2, StageNone, SMTT(60) DEF RetireUnlink, At, StageInv, StageType, Calls, svars, vars
  <2>2. retired[j] # None /\ retired[j].phase = "INTENT" /\ stages[j] # None
    BY <2>1, Retired DEF StageInv, CallSound
  <2>3. CASE payload' = payload /\ call' = None
    <3>1. UNCHANGED files /\ JobsOnward /\ AddedSound
      BY <2>1, <2>3, JobsStill DEF files, NoneAdded, AddedSound
    <3> QED BY <2>3, <3>1, FilesKept
  <2>4. CASE payload' = [payload EXCEPT ![j] = 0] /\ call' \in {None, [job |-> j, at |-> "unlinked"]}
    <3>1. payload'[j] = 0 /\ call' \in Calls \cup {None} /\ 0 \in 0..Chunks
      BY <2>4, StageBounds, SMTT(60) DEF StageInv, StageType, Calls
    <3>2. (call # None => CallSound(call.job, call.at))'
      BY <2>1, <2>2, <2>4, <3>1, SMTT(60) DEF CallSound
    <3> QED BY <2>1, <2>2, <2>4, <3>1, <3>2, PayloadSound
  <2> QED BY <1>2, <2>3, <2>4 DEF RetireUnlink
<1> QED BY <1>1, <1>2

\* Every step keeps the stage store.
LEMMA StageKept ==
    ASSUME JobInv, ControlInv, StageInv, [ANext]_avars
    PROVE  StageInv'
<1>1. JobsOnward /\ AddedSound /\ owned \subseteq owned'
  BY HostView
<1>2. CASE UNCHANGED files /\ call' \in {call, None}
  BY <1>1, <1>2, FilesKept
<1>3. ASSUME NEW j \in Jobs, StageStep(j), ~SubmitJobs(j) PROVE StageInv'
  BY <1>1, <1>3, BeginSound, ChunkSound, ChunkRecordSound, RegistrationSound DEF StageStep
<1>4. ASSUME NEW j \in Jobs, RetireStep(j) PROVE StageInv'
  BY <1>1, <1>4, RetireRecordSound, RetireUnlinkSound DEF RetireStep
<1>5. ASSUME NEW j \in Jobs, SubmitJobs(j) PROVE StageInv'
  <2>1. UNCHANGED <<stages, payload, retired, files>> /\ call = [job |-> j, at |-> "inflight"]
    BY <1>5 DEF SubmitJobs, At, files
  <2>2. Stage(j) = "INFLIGHT" /\ retired[j] = None
    BY <2>1, StagedInput
  <2>3. CASE call' = None
    BY <1>2, <2>1, <2>3
  <2>4. CASE call' = [job |-> j, at |-> "submitted"]
    <3>1. \A k \in Jobs : StageSound(k)'
      BY <1>1, <2>1, SoundKept
    <3>2. StageType'
      BY <2>1, <2>4 DEF StageInv, StageType, Calls
    <3>3. (call # None => CallSound(call.job, call.at))'
      BY <2>1, <2>2, <2>4 DEF CallSound, Stage
    <3> QED BY <3>1, <3>2, <3>3 DEF StageInv
  <2> QED BY <1>5, <2>3, <2>4 DEF SubmitJobs
<1>6. CASE Interrupted \/ OwnerTurn \/ Crashed \/ Started \/ Callback \/ UNCHANGED avars
           \/ (ControlStep /\ UNCHANGED zvars)
  BY <1>2, <1>6 DEF Interrupted, OwnerTurn, Crashed, Started, Callback, avars, zvars, files
<1> QED BY <1>3, <1>4, <1>5, <1>6 DEF ANext

\* Nothing is staged in a fresh store.
LEMMA StageInitially == AInit => StageInv
BY StageBounds, StageNone, SMTT(60) DEF AInit, StageInv, StageType, StageSound, Stage

\* The invariant of the whole host.
LEMMA SubmissionsInvariant == ASpec => []SubmissionInv
<1>1. AInit => SubmissionInv
  BY JobInitially, OwnerInitially, ControlInitially, StageInitially DEF AInit, SInit, SubmissionInv
<1>2. SubmissionInv /\ [ANext]_avars => SubmissionInv'
  BY HostKept, ControlStepSound, StageKept DEF SubmissionInv
<1> QED BY <1>1, <1>2, PTL DEF ASpec

\* For every payload length and every set of jobs: the audit of the stage store
\* succeeds on the files of any moment, unless the owner submitted a job under the id
\* of a stage retired unregistered, and a REGISTERED stage has its job
\* (staging.audit, and the order of the writes of begin, chunk, submit, reconcile,
\* retire and rebind; ScheduledHost.submit, which does not look at the stages).
THEOREM StagesAlwaysReopen == ASpec => []StagesReopen
<1>1. SubmissionInv => StagesReopen
  BY DEF SubmissionInv, StageInv, StageSound, RetiredSound, StagesReopen, Registered
<1> QED BY <1>1, SubmissionsInvariant, PTL

\* The jobs of a host with control and submission endpoints are those of the
\* scheduled host: their records stay true of their effects, and clients are
\* accepted only while none is selected or unresolved.
THEOREM EndpointsKeepJobs == ASpec => [](EffectsTrue /\ ServingResolved)
<1>1. SubmissionInv => EffectsTrue /\ ServingResolved
  BY EffectsFollow DEF SubmissionInv, OwnerInv
<1> QED BY <1>1, SubmissionsInvariant, PTL

-----------------------------------------------------------------------------
(* The pins. *)

\* The pin of the window store.
LEMMA WindowPinKept ==
    ASSUME JobInv, RowsOnward, rows' \in Seq(Rows)
    PROVE  WindowPinHolds(Pin, rows')
<1>1. rows \in Seq(Rows) /\ Len(rows) \in Nat /\ Pin.sequence = Len(rows) /\ Len(rows) <= Len(rows')
  BY PinShape, SMTT(60) DEF JobInv, JobType, RowsOnward
<1>2. CASE rows = <<>>
  BY <1>1, <1>2, SMTT(60) DEF WindowPinHolds
<1>3. CASE rows # <<>>
  <2> DEFINE n == Len(rows)
  <2>1. n \in 1..Len(rows) /\ rows[n] \in Rows /\ Pin.window = rows[n].open /\ Pin.close = rows[n].close
    BY <1>1, <1>3, SMTT(60) DEF Pin
  <2>2. rows'[n].open = rows[n].open /\ (rows[n].phase # "OPEN" => rows'[n].close = rows[n].close)
    BY <2>1 DEF RowsOnward
  <2>3. rows[n].close # None => rows[n].phase # "OPEN"
    BY <2>1 DEF Rows
  <2> QED BY <1>1, <2>1, <2>2, <2>3 DEF WindowPinHolds
<1> QED BY <1>2, <1>3

\* The pin of the control journal: policies and outcomes.
ControlOnward ==
    ControlPinHolds([policy |-> policy, ops |-> ops], [policy |-> policy', ops |-> ops'])

\* The policy moves on to a later revision, an operation on to its outcome.
LEMMA ControlPinKept ==
    ASSUME ControlInv, [ANext]_avars
    PROVE  ControlOnward
<1>1. policy \in Policies /\ policy.revision \in Nat /\ ops \in [Ops -> OpStates \cup {None}]
  BY ControlBounds, SMTT(60) DEF ControlInv, ControlType, Policies
<1>2. ASSUME policy' = policy, NEW o \in Ops, NEW state \in OpStates, ops[o] \in {None, "INFLIGHT"},
             ops' = Recorded(o, state) \/ ops' = ops
      PROVE  ControlOnward
  <2>1. \A p \in Ops : (ops[p] # None => ops'[p] # None) /\ (ops[p] \notin {None, "INFLIGHT"} => ops'[p] = ops[p])
    BY <1>1, <1>2, ControlNone DEF Recorded
  <2> QED BY <1>1, <1>2, <2>1, SMTT(60) DEF ControlOnward, ControlPinHolds
<1>3. CASE UNCHANGED <<policy, ops>>
  BY <1>1, <1>3, SMTT(60) DEF ControlOnward, ControlPinHolds
<1>4. ASSUME NEW owns \in BOOLEAN, Rotate([revision |-> policy.revision + 1, owner |-> owns])
      PROVE  ControlOnward
  BY <1>1, <1>4, SMTT(60) DEF Rotate, ControlOnward, ControlPinHolds
<1>5. ASSUME NEW i \in Intents, Execute(i) PROVE ControlOnward
  <2>1. /\ policy' = policy /\ i.op \in Ops /\ ops[i.op] = None
        /\ (ops' = Recorded(i.op, "INFLIGHT") \/ ops' = ops)
    BY <1>5 DEF Execute, Unknown, Intents
  <2> QED BY <1>2, <2>1 DEF OpStates
<1>6. CASE Record
  <2>1. /\ policy' = policy /\ command \in Commands /\ command # None /\ command.outcome # None
        /\ (ops' = Recorded(command.intent.op, command.outcome) \/ ops' = ops)
    BY <1>6 DEF Record, Awaiting, ControlInv, ControlType
  <2>2. command.intent.op \in Ops /\ command.outcome \in OpStates /\ ops[command.intent.op] = "INFLIGHT"
    BY <2>1 DEF Commands, Intents, ControlInv, CommandSound
  <2> QED BY <1>2, <2>1, <2>2
<1>7. CASE ControlStep
  BY <1>3, <1>5, <1>6, <1>7 DEF ControlStep, Dispatch, Abandon
<1>8. ASSUME NEW j \in Jobs, StageStep(j) \/ RetireStep(j) PROVE UNCHANGED <<policy, ops>>
  BY <1>8 DEF StageStep, Begin, Chunk, ChunkRecord, SubmitFound, SubmitBegin, SubmitJobs, SubmitRegister,
              ReconcileStage, ReconcileRegistration,
              RetireStep, RetireBegin, RetireResume, RetireUnlink, RetireRemoved, RetireRelease, Rebind, cvars
<1>9. CASE Interrupted \/ OwnerTurn \/ Crashed \/ Started \/ UNCHANGED avars
  BY <1>3, <1>9 DEF Interrupted, OwnerTurn, Crashed, CRestart, Started, avars, cvars
<1>10. CASE Callback
  BY <1>3, <1>4, <1>10 DEF Callback, cvars
<1> QED BY <1>3, <1>7, <1>8, <1>9, <1>10 DEF ANext

\* The pin of the stage store.
StagesOnward ==
    StagePinHolds([stages |-> stages, retired |-> retired], [stages |-> stages', retired |-> retired'])

\* A stage is as signed, and its retirement where it was or later.
LEMMA StageOnward ==
    ASSUME StageInv, NEW j \in Jobs, \A k \in Jobs : k # j => stages'[k] = stages[k] /\ retired'[k] = retired[k],
           stages[j] # None => /\ stages'[j] # None /\ stages'[j].revision = stages[j].revision
                               /\ stages'[j].job = stages[j].job,
           retired[j] # None => /\ retired'[j] # None /\ PhaseIndex(retired'[j]) >= PhaseIndex(retired[j])
                                /\ retired'[j].revision >= retired[j].revision
    PROVE  StagesOnward
<1>1. \A r : PhaseIndex(r) \in 0..3 /\ (r = None => PhaseIndex(r) = 0)
  BY SMTT(60) DEF PhaseIndex
<1>2. \A k \in Jobs : retired[k] # None => retired[k].revision \in Nat
  BY ControlBounds, SMTT(60) DEF StageInv, StageType, RetireRecords
<1>3. ASSUME NEW k \in Jobs, stages[k] # None
      PROVE  /\ stages'[k] # None /\ stages'[k].revision = stages[k].revision
             /\ SameInput(stages'[k].job, stages[k].job)
             /\ PhaseIndex(retired'[k]) >= PhaseIndex(retired[k])
             /\ retired[k] # None => retired'[k].revision >= retired[k].revision
  <2>1. CASE k = j
    <3>1. PhaseIndex(retired'[j]) >= PhaseIndex(retired[j])
      BY <1>1, SMTT(60)
    <3> QED BY <1>3, <2>1, <3>1 DEF SameInput
  <2>2. CASE k # j
    <3>1. stages'[k] = stages[k] /\ retired'[k] = retired[k]
      BY <2>2
    <3>2. PhaseIndex(retired'[k]) >= PhaseIndex(retired[k])
      BY <1>1, <3>1, SMTT(60)
    <3> QED BY <1>2, <1>3, <3>1, <3>2, SMTT(60) DEF SameInput
  <2> QED BY <2>1, <2>2
<1> QED BY <1>3 DEF StagesOnward, StagePinHolds

\* A stage that is written keeps what was signed.
LEMMA StageWrites ==
    ASSUME StageInv, NEW j \in Jobs, StageStep(j)
    PROVE  StagesOnward
<1>1. stages \in [Jobs -> StageRecords \cup {None}] /\ retired \in [Jobs -> RetireRecords \cup {None}]
  BY DEF StageInv, StageType
<1>2. /\ retired' = retired
      /\ retired[j] # None => retired[j].revision \in Nat /\ PhaseIndex(retired[j]) \in Nat
  <2>1. retired' = retired
    BY DEF StageStep, Begin, Chunk, ChunkRecord, SubmitFound, SubmitBegin, SubmitJobs, SubmitRegister,
           ReconcileStage, ReconcileRegistration, files
  <2>2. retired[j] # None => retired[j].revision \in Nat /\ PhaseIndex(retired[j]) \in Nat
    BY <1>1, ControlBounds, SMTT(60) DEF RetireRecords, PhaseIndex
  <2> QED BY <2>1, <2>2
<1>3. ASSUME NEW s, stages' = [stages EXCEPT ![j] = s], s # None,
             stages[j] # None => s.revision = stages[j].revision /\ s.job = stages[j].job
      PROVE  StagesOnward
  BY <1>1, <1>2, <1>3, StageOnward, SMTT(60)
<1>4. CASE stages' = stages
  BY <1>1, <1>2, <1>4, StageOnward, SMTT(60)
<1>5. ASSUME NEW state \in StageStates, stages[j] # None, stages' = StageTo(j, state) PROVE StagesOnward
  <2> DEFINE s == [stages[j] EXCEPT !.state = state]
  <2>1. /\ s \in StageRecords /\ s.revision = stages[j].revision /\ s.job = stages[j].job
        /\ stages' = [stages EXCEPT ![j] = s]
    BY <1>1, <1>5 DEF StageTo, StageRecords
  <2> HIDE DEF s
  <2> QED BY <1>3, <2>1, StageNone
<1>6. CASE \E action \in Actions, cmd \in Cmds \cup {None} : Begin(j, action, cmd)
  <2>1. PICK action \in Actions, cmd \in Cmds \cup {None} : Begin(j, action, cmd)
    BY <1>6
  <2>2. /\ stages[j] = None
        /\ (stages' = [stages EXCEPT ![j] = Descriptor(action, cmd)] \/ stages' = stages)
    BY <2>1 DEF Begin, Unstaged, Persist
  <2>3. \A k \in Jobs : k # j => stages'[k] = stages[k]
    BY <1>1, <2>2
  <2>4. retired[j] = None
    BY <2>1 DEF Begin, Unstaged
  <2> QED BY <1>2, <2>2, <2>3, <2>4, StageOnward
<1>7. CASE ChunkRecord(j)
  <2>1. call # None /\ call.job = j /\ call.at = "chunk" /\ (stages' = Counted(j) \/ stages' = stages)
    BY <1>7, StageNone, SMTT(60) DEF ChunkRecord, At, StageInv, StageType, Calls, Persist
  <2>2. Stage(j) = "RECEIVING"
    BY <2>1 DEF StageInv, CallSound
  <2>3. PICK s \in StageRecords : /\ Counted(j) = [stages EXCEPT ![j] = s]
                                  /\ s.revision = stages[j].revision /\ s.job = stages[j].job
    BY <2>2, CountedRecord
  <2> QED BY <1>3, <1>4, <2>1, <2>3, StageNone
<1>8. CASE Chunk(j) \/ SubmitJobs(j)
  BY <1>4, <1>8 DEF Chunk, SubmitJobs, files
<1>9. CASE SubmitFound(j) \/ SubmitBegin(j) \/ SubmitRegister(j) \/ ReconcileStage(j) \/ ReconcileRegistration(j)
  <2>1. PICK state \in StageStates : stages' = StageTo(j, state) \/ stages' = stages
    BY <1>9 DEF SubmitFound, SubmitBegin, SubmitRegister, ReconcileStage, ReconcileRegistration, Persist,
                StageStates
  <2>2. ASSUME At(j, "submitted") PROVE stages[j] # None
    <3>1. call # None /\ call.job = j /\ call.at = "submitted"
      BY <2>2, StageNone, SMTT(60) DEF At, StageInv, StageType, Calls
    <3> QED BY <3>1 DEF StageInv, CallSound, Stage
  <2>3. stages[j] # None
    BY <1>9, <2>2 DEF SubmitFound, SubmitBegin, SubmitRegister, ReconcileStage, ReconcileRegistration,
                      Submittable, Reconcilable, Matching, Stage
  <2> QED BY <1>4, <1>5, <2>1, <2>3
<1> QED BY <1>6, <1>7, <1>8, <1>9 DEF StageStep

\* A retirement that is written moves on in its phases or its approval.
LEMMA RetireWrites ==
    ASSUME ControlInv, StageInv, NEW j \in Jobs, RetireStep(j)
    PROVE  StagesOnward
<1>1. /\ stages' = stages /\ retired \in [Jobs -> RetireRecords \cup {None}]
      /\ policy.revision \in 1..MaxRevision
  BY DEF RetireStep, RetireBegin, RetireResume, RetireUnlink, RetireRemoved, RetireRelease, Rebind, files,
         StageInv, StageType, ControlInv, ControlType, Policies
<1>2. retired[j] # None => /\ retired[j] \in RetireRecords /\ retired[j].revision \in Nat
                           /\ PhaseIndex(retired[j]) \in Nat
  BY <1>1, ControlBounds, SMTT(60) DEF RetireRecords, PhaseIndex
<1>3. CASE retired' = retired
  BY <1>1, <1>2, <1>3, StageOnward, SMTT(60)
<1>4. ASSUME NEW phase \in {"PAYLOAD_REMOVED", "TOMBSTONED"}, retired[j] # None, retired' = RetireTo(j, phase),
             retired[j].phase = (IF phase = "TOMBSTONED" THEN "PAYLOAD_REMOVED" ELSE "INTENT")
      PROVE  StagesOnward
  <2> DEFINE r == [retired[j] EXCEPT !.phase = phase]
  <2>1. /\ r \in RetireRecords /\ r.revision = retired[j].revision /\ r.phase = phase
        /\ retired'[j] = r /\ \A k \in Jobs : k # j => retired'[k] = retired[k]
    BY <1>1, <1>2, <1>4 DEF RetireRecords, RetireTo
  <2>2. r # None
    BY <2>1, StageNone
  <2> HIDE DEF r
  <2>3. PhaseIndex(r) >= PhaseIndex(retired[j])
    BY <1>4, <2>1, <2>2, SMTT(60) DEF PhaseIndex
  <2> QED BY <1>1, <1>2, <1>4, <2>1, <2>2, <2>3, StageOnward, SMTT(60)
<1>5. ASSUME NEW at \in {"unlinked", "release"}, At(j, at)
      PROVE  retired[j] # None /\ retired[j].phase = (IF at = "release" THEN "PAYLOAD_REMOVED" ELSE "INTENT")
  <2>1. call # None /\ call.job = j /\ call.at = at
    BY <1>5, StageNone, SMTT(60) DEF At, StageInv, StageType, Calls
  <2> QED BY <2>1 DEF StageInv, CallSound
<1>6. CASE RetireBegin(j)
  <2>1. retired[j] = None /\ \A k \in Jobs : k # j => retired'[k] = retired[k]
    BY <1>1, <1>6 DEF RetireBegin, Unretired, PersistRetirement
  <2> QED BY <1>1, <2>1, StageOnward
<1>7. CASE RetireResume(j) \/ RetireUnlink(j)
  BY <1>3, <1>7 DEF RetireResume, RetireUnlink, files
<1>8. CASE RetireRemoved(j)
  BY <1>3, <1>4, <1>5, <1>8 DEF RetireRemoved, PersistRetirement
<1>9. CASE RetireRelease(j)
  BY <1>3, <1>4, <1>5, <1>9 DEF RetireRelease, PersistRetirement
<1>10. CASE Rebind(j)
  <2>1. /\ retired[j] # None /\ retired[j].revision < policy.revision
        /\ (retired' = [retired EXCEPT ![j].revision = policy.revision] \/ retired' = retired)
    BY <1>10 DEF Rebind, PersistRetirement
  <2> DEFINE r == [retired[j] EXCEPT !.revision = policy.revision]
  <2>2. r \in RetireRecords /\ r.revision = policy.revision /\ r.phase = retired[j].phase /\ r # None
    BY <1>1, <1>2, <2>1, StageNone DEF RetireRecords
  <2>3. CASE retired' = [retired EXCEPT ![j].revision = policy.revision]
    <3>1. retired'[j] = r /\ \A k \in Jobs : k # j => retired'[k] = retired[k]
      BY <1>1, <2>3
    <3> HIDE DEF r
    <3>2. PhaseIndex(r) = PhaseIndex(retired[j]) /\ r.revision >= retired[j].revision
      BY <1>1, <1>2, <2>1, <2>2, ControlBounds, SMTT(60) DEF PhaseIndex
    <3> QED BY <1>1, <1>2, <2>1, <2>2, <3>1, <3>2, StageOnward, SMTT(60)
  <2> QED BY <1>3, <2>1, <2>3
<1> QED BY <1>6, <1>7, <1>8, <1>9, <1>10 DEF RetireStep

\* The pin of the stage store, through every step.
LEMMA StagePinKept ==
    ASSUME ControlInv, StageInv, [ANext]_avars
    PROVE  StagesOnward
<1>1. CASE \E j \in Jobs : StageStep(j) \/ RetireStep(j)
  BY <1>1, StageWrites, RetireWrites
<1>2. CASE Interrupted \/ OwnerTurn \/ Crashed \/ Started \/ Callback \/ UNCHANGED avars
           \/ (ControlStep /\ UNCHANGED zvars)
  <2>1. UNCHANGED <<stages, retired>>
    BY <1>2 DEF Interrupted, OwnerTurn, Crashed, Started, Callback, avars, zvars, files
  <2>2. \A k \in Jobs : retired[k] # None => retired[k].revision \in Nat
    BY ControlBounds, SMTT(60) DEF StageInv, StageType, RetireRecords
  <2>3. \A r : PhaseIndex(r) \in Nat
    BY DEF PhaseIndex
  <2> QED BY <2>1, <2>2, <2>3, SMTT(60) DEF StagesOnward, StagePinHolds, SameInput
<1> QED BY <1>1, <1>2 DEF ANext

\* For every set of jobs, operations and payload lengths: no step takes back what
\* a pin of the window, job, control or stage store recorded (the verify_pin of
\* the replay spool, ManagementJobs, Journal and RetiringSubmissions).
THEOREM PinsAlwaysAccepted == ASpec => PinsAccepted
<1> DEFINE A == /\ rows' # rows => WindowPinHolds(Pin, rows')
                /\ jobs' # jobs => JobPinHolds(jobs, jobs')
                /\ <<policy, ops>>' # <<policy, ops>> =>
                      ControlPinHolds([policy |-> policy, ops |-> ops], [policy |-> policy', ops |-> ops'])
                /\ files' # files =>
                      StagePinHolds([stages |-> stages, retired |-> retired],
                                    [stages |-> stages', retired |-> retired'])
<1>1. SubmissionInv /\ SubmissionInv' /\ [ANext]_avars => [A]_avars
  <2> SUFFICES ASSUME SubmissionInv, SubmissionInv', [ANext]_avars
               PROVE  A
    OBVIOUS
  <2>1. WindowPinHolds(Pin, rows')
    BY HostView, WindowPinKept DEF SubmissionInv, JobInv, JobType
  <2>2. JobPinHolds(jobs, jobs')
    BY HostView DEF SubmissionInv, JobsOnward
  <2>3. ControlPinHolds([policy |-> policy, ops |-> ops], [policy |-> policy', ops |-> ops'])
    BY ControlPinKept DEF SubmissionInv, ControlOnward
  <2>4. StagePinHolds([stages |-> stages, retired |-> retired], [stages |-> stages', retired |-> retired'])
    BY StagePinKept DEF SubmissionInv, StagesOnward
  <2> QED BY <2>1, <2>2, <2>3, <2>4
<1> QED BY <1>1, SubmissionsInvariant, PTL DEF ASpec, PinsAccepted
=============================================================================

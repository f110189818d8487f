---------------------------- MODULE JobScheduler ----------------------------
(***************************************************************************)
(* The cooperative owner loop over the data endpoints and the management   *)
(* jobs (experiments/host-job-scheduler): a job is selected explicitly,    *)
(* both listeners stop accepting, transfers drain, and one stage of the    *)
(* job runs per tick; an interrupted job keeps the listeners paused until  *)
(* it is reconciled.                                                       *)
(*                                                                         *)
(* The job stages are the actions of ManagementJobs; _execute takes place  *)
(* inside one tick, so nothing but a crash interrupts it.  The two         *)
(* endpoints are paused and resumed together and appear as one.            *)
(***************************************************************************)
EXTENDS ManagementJobs

VARIABLES host,      \* "up" or "down"
          accepting, \* the listeners are registered
          selected,  \* the job being driven, or None
          retry,     \* explicit_retry
          fault      \* None, "RECONCILE_REQUIRED" or "HELD" (any other code)

owner == <<host, accepting, selected, retry, fault>>
svars == <<vars, owner>>

UnresolvedJobs == {j \in Jobs : State(j) \in Unresolved}

SInit == Init /\ host = "up" /\ accepting = TRUE /\ selected = None /\ retry = FALSE /\ fault = None

Free == host = "up" /\ running = None

\* _hold
Hold(code) ==
    /\ fault' = code /\ accepting' = FALSE
    /\ UNCHANGED <<host, selected, retry>>

\* _resume: listeners return, or the fresh observation fails and they stay paused.
Resume(cleared) ==
    \/ accepting' = TRUE /\ fault' = cleared
    \/ accepting' = FALSE /\ fault' = "HELD"

-----------------------------------------------------------------------------
(* Calls of the owner *)

\* submit, under an identifier the submitter draws.
SubmitUnder(j) ==
    /\ Free /\ jobs[j] = None
    /\ \E action \in Actions, cmd \in Cmds \cup {None} : Submit(j, action, cmd)
    /\ UNCHANGED owner

\* Of the unused identifiers, which nothing else here tells apart, any one stands
\* for all.
Unused == CHOOSE k \in Jobs : jobs[k] = None
SubmitJob(j) == SubmitUnder(j) /\ j = Unused

\* Every other job is resolved.
OthersResolved(j) == UnresolvedJobs \subseteq {j}

\* The checks of schedule, apart from those on selected and fault.
Schedulable(j, again) ==
    /\ journal = "open" /\ OthersResolved(j)
    /\ State(j) \in Cancellable \cup {"RETRY_READY"}
    /\ again = (State(j) = "RETRY_READY")

\* _pause, the selection and a fresh drain deadline.
Select(j, again) ==
    /\ selected' = j /\ retry' = again /\ fault' = None /\ accepting' = FALSE
    /\ UNCHANGED host

Schedule(j, again) ==
    /\ Free /\ selected = None /\ fault \in {None, "RECONCILE_REQUIRED"}
    /\ Schedulable(j, again) /\ Select(j, again)
    /\ UNCHANGED vars

\* arm_retry: the selection is dropped before the schedule, whose fresh
\* observation may still refuse.
ArmRetry(j) ==
    /\ Free /\ selected \in {None, j} /\ State(j) = "RETRY_READY" /\ Schedulable(j, TRUE)
    /\ \/ Select(j, TRUE)
       \/ /\ selected' = None /\ fault' = "RECONCILE_REQUIRED"
          /\ UNCHANGED <<host, accepting, retry>>
    /\ UNCHANGED vars

\* After a successful jobs.cancel: the selection goes with its job; with nothing
\* selected and nothing unresolved the listeners resume.
AfterCancel(j) ==
    LET mine == selected = j
    IN /\ selected' = IF mine THEN None ELSE selected
       /\ retry' = (retry /\ ~mine)
       /\ IF (mine \/ selected = None) /\ UnresolvedJobs' = {}
          THEN Resume(IF mine THEN None ELSE fault)
          ELSE fault' = (IF mine THEN None ELSE fault) /\ UNCHANGED accepting
       /\ UNCHANGED host

CancelJob(j) ==
    /\ Free
    /\ Cancel(j) \/ (journal = "open" /\ State(j) = "CANCELLED" /\ UNCHANGED vars)
    /\ IF journal' = "open" THEN AfterCancel(j) ELSE UNCHANGED owner

\* reconcile: paused throughout; resumes only when nothing is left unresolved.
ResumesAfter(j, now) == (selected = None \/ (selected = j /\ now = "SUCCEEDED")) /\ UnresolvedJobs' = {}

AfterReconcile(j, now) ==
    /\ selected' = IF now = "SUCCEEDED" /\ selected = j THEN None ELSE selected
    /\ IF ResumesAfter(j, now) THEN Resume(None)
       ELSE fault' = "RECONCILE_REQUIRED" /\ accepting' = FALSE
    /\ UNCHANGED <<host, retry>>

\* jobs.reconcile, or a repeated one that changes nothing.
Reconciled(j) ==
    \/ ReconcileApplied(j) \/ ReconcilePending(j)
    \/ /\ journal = "open" /\ UNCHANGED vars
       /\ State(j) = "SUCCEEDED" \/ (State(j) = "RETRY_READY" /\ NothingApplied(j))

ReconcileJob(j) ==
    /\ Free
    /\ \/ Reconciled(j) /\ IF journal' = "open" THEN AfterReconcile(j, State(j)') ELSE Hold("HELD")
       \/ journal = "open" /\ State(j) \in Unresolved /\ UNCHANGED vars /\ Hold("HELD")

-----------------------------------------------------------------------------
(* tick *)

Driving(j) == Free /\ selected = j /\ fault = None /\ journal = "open"

\* An effect waits until no connection and no reader pin is left.
Drained(j) == State(j) \in {"PREPARED", "RETRY_READY"} => ~active

\* The stage reached SUCCEEDED: _finish, unless the observation after the step fails.
Succeeded ==
    \/ /\ selected' = None /\ retry' = FALSE /\ Resume(None)
       /\ UNCHANGED host
    \/ Hold("HELD")

\* step or retry.  A checked stage stays selected; a retry may find its effect
\* done; a write that fails holds the host.
TickStage(j) ==
    /\ Driving(j) /\ Drained(j)
    /\ \/ ~retry /\ StepCheck(j) /\ IF journal' = "open" THEN UNCHANGED owner ELSE Hold("HELD")
       \/ retry = (State(j) = "RETRY_READY") /\ ~accepting /\ ExecuteBegin(j)
          /\ IF journal' = "open" THEN UNCHANGED owner ELSE Hold("HELD")
       \/ retry /\ RetryApplied(j) /\ IF journal' = "open" THEN Succeeded ELSE Hold("HELD")

TickApply(j) == host = "up" /\ ExecuteApply(j) /\ UNCHANGED owner

TickEnd(j) ==
    /\ host = "up"
    /\ \/ ExecuteEnd(j, "SUCCEEDED") /\ IF journal' = "open" THEN Succeeded ELSE Hold("HELD")
       \/ /\ ExecuteEnd(j, "OUTCOME_UNKNOWN")
          /\ accepting' = FALSE /\ UNCHANGED <<host, selected>>
          /\ fault' = IF journal' = "open" THEN "RECONCILE_REQUIRED" ELSE "HELD"
          /\ retry' = (retry /\ journal' # "open")

\* The drain deadline passes, or polling, observing or validating fails.
TickFailsUnseen ==
    /\ Free /\ UNCHANGED svars
TickFails ==
    /\ Free /\ Hold("HELD") /\ UNCHANGED vars

-----------------------------------------------------------------------------
(* Clients, crash and restart *)

Accept ==
    /\ Free /\ accepting /\ ~active /\ Transfer
    /\ UNCHANGED owner

Finish ==
    /\ Free /\ active /\ Transfer
    /\ UNCHANGED owner

HostCrash ==
    /\ host = "up"
    /\ host' = "down" /\ accepting' = FALSE /\ selected' = None /\ retry' = FALSE /\ fault' = None
    /\ journal' = "closed" /\ running' = None /\ active' = FALSE
    /\ UNCHANGED <<jobs, rows, authority, applies>>

\* ScheduledHost.__init__: an unresolved job pauses the listeners at once.
StartsServing == TRUE
StartsResolved == UnresolvedJobs = {}

HostStart ==
    /\ host = "down" /\ Reopen
    /\ host' = "up" /\ accepting' = StartsResolved
    /\ fault' = IF StartsResolved THEN None ELSE "RECONCILE_REQUIRED"
    /\ UNCHANGED <<selected, retry>>

OwnerCall(j) ==
    \/ SubmitJob(j) \/ CancelJob(j) \/ ReconcileJob(j) \/ ArmRetry(j)
    \/ \E again \in BOOLEAN : Schedule(j, again)

\* The owner's own changes, also from a callback inside a tick.
Environment ==
    /\ host = "up"
    /\ \/ Reauthorize
       \/ \E action \in Actions, cmd \in Cmds \cup {None} : Direct(action, cmd)
    /\ UNCHANGED owner

Tick == \E j \in Jobs : TickStage(j) \/ TickApply(j) \/ TickEnd(j)

SNext ==
    \/ \E j \in Jobs : OwnerCall(j)
    \/ Tick \/ TickFails
    \/ Accept \/ Finish \/ HostCrash \/ HostStart
    \/ Environment

SSpec == SInit /\ [][SNext]_svars

\* The owner keeps calling tick, and transfers end (the servers' deadlines).
FairSSpec == SSpec /\ WF_svars(Tick \/ TickFails) /\ WF_svars(Finish)

-----------------------------------------------------------------------------
\* The endpoints accept clients only while no job is selected and none is
\* unresolved: through selection, crash, restart, reconcile and cancel.
ServingResolved == Free /\ accepting => selected = None /\ UnresolvedJobs = {}

\* A selected job does not stay undecided: it ends, or the host is held for review.
SelectedSettles == \A j \in Jobs : (selected = j /\ fault = None) ~> (selected # j \/ fault # None)
=============================================================================

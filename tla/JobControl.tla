----------------------------- MODULE JobControl -----------------------------
(***************************************************************************)
(* The control endpoint of the scheduled host (experiments/host-job-       *)
(* control): an authenticated controller selects, cancels, reconciles or   *)
(* retries a registered job.  Every operation has a durable record,        *)
(* INFLIGHT before it is dispatched to the owner loop and ACCEPTED or      *)
(* OUTCOME_UNKNOWN after it; a recorded operation is answered from its     *)
(* record and never dispatched again.                                      *)
(*                                                                         *)
(* The controllers form a durable history of revisions, and an intent is   *)
(* signed for one of them.  Framing, signatures and the host snapshot in   *)
(* the answer are left out; status changes nothing.                        *)
(***************************************************************************)
EXTENDS JobScheduler

CONSTANTS Ops,          \* operation identifiers
          MaxRevision   \* bound on controller revisions

VARIABLES policy,     \* the last entry of POLICY.cbor: [revision, owner], owner FALSE once revoked
          ops,        \* the operation files: None or the recorded state
          control,    \* the control journal: "open" or "poisoned"
          command,    \* the operation inside execute: None or [intent, outcome]
          dispatched  \* how often each operation reached the owner loop

cvars == <<policy, ops, control, command, dispatched>>

CInit ==
    /\ policy = [revision |-> 1, owner |-> TRUE]
    /\ ops = [o \in Ops |-> None] /\ control = "open" /\ command = None
    /\ dispatched = [o \in Ops |-> 0]

-----------------------------------------------------------------------------
(* Requests *)

ControlActions == {"select", "cancel", "reconcile", "retry"}

\* What a controller signs, for its own revision.
Intents == [op : Ops, action : ControlActions, job : Jobs, revision : 1..MaxRevision]

Policies == [revision : 1..MaxRevision, owner : BOOLEAN]
OpStates == {"INFLIGHT", "ACCEPTED", "OUTCOME_UNKNOWN"}
Commands == [intent : Intents, outcome : OpStates \cup {None}]

ASSUME ControlBounds == MaxRevision \in Nat \ {0}
ASSUME ControlNone == None \notin OpStates /\ None \notin Commands

\* The current controller, as the policy file says.
Current(revision) == control = "open" /\ policy.owner /\ policy.revision = revision

\* check_intent: signed for the controller of now.
CheckIntent(i) == Current(i.revision)

\* The job states in which each action is admitted; poll shows EXECUTING as
\* OUTCOME_UNKNOWN.
Admitted(action) ==
    CASE action = "select" -> Cancellable
      [] action = "cancel" -> Cancellable \cup {"CANCELLED"}
      [] action = "reconcile" -> Unresolved \cup {"SUCCEEDED"}
      [] OTHER -> {"RETRY_READY"}

\* The journal has no record under this identifier.
UnknownUnlessInflight(o) == ops[o] \in {None, "INFLIGHT"}
Unknown(o) == ops[o] = None

Recorded(o, state) == [ops EXCEPT ![o] = state]

\* A control journal whose write failed refuses everything until it is
\* reopened, and the server holds the host.
Poisoned == control' = "poisoned" /\ Hold("HELD") /\ UNCHANGED vars

\* execute up to the durable INFLIGHT.
Execute(i) ==
    /\ Free /\ command = None /\ CheckIntent(i)
    /\ Unknown(i.op) /\ journal = "open" /\ State(i.job) \in Admitted(i.action)
    /\ \/ /\ ops' = Recorded(i.op, "INFLIGHT")
          /\ command' = [intent |-> i, outcome |-> None]
          /\ UNCHANGED <<svars, control>>
       \/ /\ ops' = Recorded(i.op, "INFLIGHT") \/ UNCHANGED ops
          /\ Poisoned /\ UNCHANGED command
    /\ UNCHANGED <<policy, dispatched>>

\* The call of the owner loop an action stands for.
HostCall(action, j) ==
    CASE action = "select" -> Schedule(j, FALSE)
      [] action = "cancel" -> CancelJob(j)
      [] action = "reconcile" -> ReconcileJob(j)
      [] OTHER -> ArmRetry(j)

\* The call returned rather than raised: a cancel that tried to resume the
\* listeners succeeded in it.
Returned(action, j) ==
    /\ journal' = "open"
    /\ CASE action \in {"select", "retry"} -> selected' = j
         [] action = "reconcile" -> fault' # "HELD"
         [] OTHER -> accepting' \/ selected \notin {j, None} \/ UnresolvedJobs' # {}

Awaiting(outcome) == Free /\ command # None /\ (command.outcome = None) = ~outcome

\* The dispatch, under the controller that signed the intent.  Whatever is
\* raised, before or after a change, makes the outcome OUTCOME_UNKNOWN.
Dispatch ==
    /\ Awaiting(FALSE) /\ CheckIntent(command.intent)
    /\ dispatched' = [dispatched EXCEPT ![command.intent.op] = @ + 1]
    /\ \E j \in Jobs, action \in ControlActions :
          /\ j = command.intent.job /\ action = command.intent.action
          /\ HostCall(action, j) \/ UNCHANGED svars
          /\ \E outcome \in {"ACCEPTED", "OUTCOME_UNKNOWN"} :
                /\ outcome = "ACCEPTED" => Returned(action, j)
                /\ command' = [command EXCEPT !.outcome = outcome]
    /\ UNCHANGED <<policy, ops, control>>

\* finish: the outcome becomes durable, or the journal is poisoned on the way.
Record ==
    /\ Awaiting(TRUE) /\ control = "open"
    /\ command' = None
    /\ \/ /\ ops' = Recorded(command.intent.op, command.outcome)
          /\ UNCHANGED <<svars, control>>
       \/ /\ ops' = Recorded(command.intent.op, command.outcome) \/ UNCHANGED ops
          /\ Poisoned
    /\ UNCHANGED <<policy, dispatched>>

\* The controller changed, or a callback raised, before the dispatch:
\* CONTROL_OUTCOME_UNKNOWN, and the record stays INFLIGHT.
Abandon ==
    /\ Awaiting(FALSE)
    /\ command' = None
    /\ UNCHANGED <<svars, policy, ops, control, dispatched>>

\* rotate, from the owner or from a callback inside execute.
Rotated(entry) == policy.revision < MaxRevision /\ entry.revision = policy.revision + 1

Rotate(entry) ==
    /\ Free /\ control = "open" /\ Rotated(entry)
    /\ policy' = entry
    /\ UNCHANGED <<svars, ops, control, command, dispatched>>

\* The control journal of a host that crashed and was started again.
CRestart ==
    /\ control' = "open" /\ command' = None
    /\ UNCHANGED <<policy, ops, dispatched>>

\* Journal.verify_pin: the policy history starts with the pinned one, every pinned
\* operation is still recorded, and its outcome, once there is one, is the same.
ControlPinHolds(pin, now) ==
    /\ now.policy.revision >= pin.policy.revision
    /\ now.policy.revision = pin.policy.revision => now.policy = pin.policy
    /\ \A o \in Ops : pin.ops[o] # None =>
          now.ops[o] # None /\ (pin.ops[o] # "INFLIGHT" => now.ops[o] = pin.ops[o])

-----------------------------------------------------------------------------
\* A control operation reaches the owner loop at most once, however often its
\* intent is presented again after an unknown outcome, a crash or a restart;
\* one recorded ACCEPTED reached it, and one never recorded did not.
DispatchedOnce ==
    \A o \in Ops : /\ dispatched[o] <= 1
                   /\ ops[o] = "ACCEPTED" => dispatched[o] = 1
                   /\ ops[o] = None => dispatched[o] = 0
=============================================================================

-------------------------- MODULE OwnedApplication --------------------------
(***************************************************************************)
(* The application of changes as one process owns it: DocumentApplier       *)
(* (module Application) under the durable intents of module Intent, both    *)
(* driven through FetchApplicationController (product/runtime_read/fetch.py)*)
(* and the private channel of ApplicationOwner (product/wp09/               *)
(* par_application_owner).  The ledger that Intent reads is the applier's   *)
(* event table, and its receipts are that table's rows.                     *)
(*                                                                         *)
(* All calls are synchronous: while one runs, nothing else of the process   *)
(* does, and only a kill can come between its steps.  A request of the      *)
(* channel runs as a task of its own before anything it reads can change,   *)
(* or is cancelled without effect, so request and task are one action.      *)
(* Deadlines are a choice.  The embedding also calls the controller's own   *)
(* apply() and inquire(), under operation identities of its own.            *)
(***************************************************************************)
EXTENDS Application

CONSTANTS
    OwnOps,       \* operations of the journal's intents
    DirectOps,    \* operations the embedding gives to the controller
    MaxJournal,   \* MAX_EVENTS of the intent journal
    MaxIntents    \* MAX_INTENTS

ASSUME OpsAssumption == OwnOps \cup DirectOps \subseteq Ops

VARIABLES
    log, torn, pin, pending, handle, call, reply,   \* as in Intent
    targets,      \* the controller's _targets
    last,         \* its _last: the local view of the last observation, or None
    unresolved,   \* its _unresolved_intent
    direct,       \* the request of its apply() in progress, or None
    asked         \* its _operation: the last one, whose state is the reply

files == <<log, torn, pin, pending, handle, call>>
journal == <<files, reply>>
controller == <<targets, last, unresolved, direct, asked>>
ovars == <<vars, journal, controller>>

\* source_guard: what the controller's local revision is a digest of.
View == [owner |-> owner, pool |-> pool]

I == INSTANCE Intent WITH
        Ops <- OwnOps, OtherOps <- DirectOps, Revisions <- 0 .. MaxEvents,
        TargetSets <- Targets, MaxEvents <- MaxJournal,
        Views <- [owner : 0 .. MaxOwner, pool : SUBSET Changes],
        ledger <- [r \in DOMAIN events |-> events[r].request], certain <- ~uncertain

OInit ==
    /\ Init
    /\ log = <<>> /\ torn = FALSE /\ pin = 0 /\ pending = FALSE
    /\ handle = "open" /\ call = None /\ reply = None
    /\ targets \in Targets
    /\ last = None /\ unresolved = None /\ direct = None /\ asked = None

Running == handle = "open"
Quiet == call = None /\ direct = None
\* A step that is not the intents': what they replied last is no longer kept.
Elsewhere == reply' = None /\ UNCHANGED files
Dropped == last' = None /\ unresolved' = None /\ direct' = None /\ asked' = None
\* No call is running any more that could hold a prepared value.
Returned == prepared' = {} /\ UNCHANGED <<pool, owner, tables, uncertain>>

-----------------------------------------------------------------------------
(* The process and its surroundings.  Neither an authority nor a set of     *)
(* inputs comes back, so that an observation of another view is like none.  *)

Environment ==
    /\ Running /\ Quiet
    /\ (\E c \in Changes : Ingest(c)) \/ OwnerChanges
    /\ last' = None
    /\ Elsewhere
    /\ UNCHANGED <<targets, unresolved, direct, asked>>

\* Every object is made again, for these or other targets.
Start ==
    /\ Reopen
    /\ I!Open
    /\ targets' \in Targets
    /\ UNCHANGED <<last, unresolved, direct, asked>>

StartFails ==
    /\ UNCHANGED <<vars, controller>>
    /\ I!OpenFails

\* close(), or a kill at any step.
Stop ==
    /\ Returned
    /\ I!Close
    /\ Dropped
    /\ UNCHANGED targets

-----------------------------------------------------------------------------
(* FetchApplicationController                                               *)

\* observe() leaves the view that the next command must still find.
Observe ==
    /\ Running /\ Quiet
    /\ last # View \/ reply # None
    /\ last' = View
    /\ Elsewhere
    /\ Returned
    /\ UNCHANGED <<targets, unresolved, direct, asked>>

\* _command: the caller saw the last observation, and it is still the local view.
\* (It has also read the last reply, which nothing else depends on.)
Command == Running /\ Quiet /\ last = View /\ reply = None

Asks(op) == [op |-> op, targets |-> targets, expected |-> Revision]
Rows(op) == {r \in DOMAIN events : events[r].request.op = op}

\* Mutant: a failure of the applier is a refusal.
FailedRefused(key) == I!Says("REJECTED", key) /\ unresolved' = None
\* An exception after the applier was called may follow its commit.
Failed(key) == I!Says("OUTCOME_UNKNOWN", key) /\ unresolved' = key

\* apply: refused before the applier is called, answered by an earlier row, or
\* prepared; the call ends with a fresh observation.
DirectApply(key) ==
    /\ Command
    /\ unresolved = None                                          \* INQUIRY_REQUIRED
    /\ asked # None /\ asked.op = key.op => asked.expected = key.expected
    /\ asked' = key
    /\ \/ Returned /\ UNCHANGED <<unresolved, direct>> /\ I!Says("REJECTED", key)
       \/ /\ \E r \in Rows(key.op) : events[r].request = key
          /\ ~uncertain
          /\ Returned /\ UNCHANGED <<unresolved, direct>>
          /\ I!Says("OBSERVED", key)
       \/ /\ Returned \/ PrepareUnknown(key.op, targets)
          /\ Failed(key)
          /\ UNCHANGED direct
       \/ /\ key.expected = Revision
          /\ Prepare(key.op, targets)
          /\ direct' = key /\ reply' = None
          /\ UNCHANGED unresolved
    /\ UNCHANGED <<files, targets, last>>

DirectCommit ==
    /\ Running
    /\ direct # None
    /\ \E p \in prepared :
          /\ p.request = direct /\ p.nonce = Len(nonces)
          /\ \/ Commit(p) /\ I!Says("OBSERVED", direct) /\ UNCHANGED unresolved
             \/ CommitUnknown(p) /\ Failed(direct)
             \/ UNCHANGED vars /\ Failed(direct)
    /\ direct' = None
    /\ UNCHANGED <<files, targets, last, asked>>

\* inquire: only a row settles an operation whose outcome is unknown.
DirectInquire(key) ==
    /\ Command
    /\ unresolved \in {None, key}                                 \* ORIGINAL_OPERATION_REQUIRED
    /\ asked' = key
    /\ \/ I!Says("INQUIRY_FAILED", key) /\ UNCHANGED unresolved
       \/ ~uncertain /\ Rows(key.op) = {} /\ I!Says("NOT_OBSERVED", key) /\ UNCHANGED unresolved
       \/ /\ ~uncertain
          /\ \E r \in Rows(key.op) : events[r].request = key
          /\ I!Says("OBSERVED", key) /\ unresolved' = None
    /\ Returned
    /\ UNCHANGED <<files, targets, last, direct>>

-----------------------------------------------------------------------------
(* ApplicationOwner                                                         *)

\* The channel is detached, and another attached that may read or may do all;
\* what was observed for the first does not serve the second.
Attach ==
    /\ Running /\ Quiet
    /\ last' = None
    /\ Elsewhere
    /\ Returned
    /\ UNCHANGED <<targets, unresolved, direct, asked>>

\* request and _run: the operation is one of the channel's, and names the last
\* observation.
Granted == Command /\ Returned

\* The snapshot that ends a request is a new observation; without one, or past
\* the deadline, the last one is forgotten.  A journal that failed is closed, and
\* the process with it.
Answered ==
    /\ handle' # "poisoned"
    /\ IF handle' = "open"
       THEN last' \in {View, None} /\ UNCHANGED <<unresolved, direct, asked>>
       ELSE Dropped
    /\ UNCHANGED targets

PrepareIntent(i) ==
    /\ Granted
    /\ i.targets = targets /\ i.view = View
    /\ I!Prepare(i)
    /\ Answered

\* execute, to the dispatch: the intent's authority, inputs and targets are those
\* of now.
DispatchIntent(i) ==
    /\ Granted
    /\ i.targets = targets
    /\ \/ I!ExecuteRefused(i)
       \/ i.view = View /\ I!ExecuteDispatch(i)
    /\ Answered

\* apply inside execute: inquire, prepare, commit.
ExecutePrepare(i) ==
    /\ I!InCall(i, "apply")
    /\ Rows(i.op) = {}
    /\ Revision = i.expected
    /\ ~\E p \in prepared : p.request = I!Key(i)
    /\ Prepare(i.op, i.targets)
    /\ UNCHANGED <<journal, controller>>

\* (An earlier row of the operation would answer; VerdictsTrue says there is none.)
ExecuteCommit(i) ==
    /\ \E p \in prepared : p.request = I!Key(i) /\ Commit(p)
    /\ I!ExecuteApply(i)
    /\ UNCHANGED <<controller>>

ExecuteFails(i) ==
    /\ I!InCall(i, "apply")
    /\ \/ UNCHANGED vars
       \/ ~(\E p \in prepared : p.request = I!Key(i)) /\ PrepareUnknown(i.op, i.targets)
       \/ \E p \in prepared : p.request = I!Key(i) /\ CommitUnknown(p)
    /\ I!ExecuteApplyFails(i)
    /\ Answered

ExecuteEnds(i) ==
    /\ UNCHANGED vars
    /\ I!ExecuteStops(i) \/ I!ExecuteObserve(i) \/ I!ExecuteReturns(i)
    /\ Answered

InquireIntent(i) ==
    /\ Granted
    /\ i.targets = targets
    /\ I!InquireNothing(i) \/ I!Inquire(i) \/ I!InquireFails(i)
    /\ Answered

SettleIntent(i) ==
    /\ Granted
    /\ i.targets = targets
    /\ I!Retire(i) \/ I!Abandon(i)
    /\ Answered

\* Only the journal's intent, or a new one made of the current view, can be named.
Named == {I!Journal.intent} \cap I!Intents
New == {[op |-> op, expected |-> Revision, targets |-> targets, view |-> View] : op \in OwnOps}

ONext ==
    \/ Environment \/ Start \/ StartFails \/ Stop \/ Observe \/ Attach
    \/ \E op \in DirectOps :
          LET old == IF asked # None /\ asked.op = op THEN {asked} ELSE {}
          IN \E key \in {Asks(op)} \cup old : DirectApply(key) \/ DirectInquire(key)
    \/ DirectCommit
    \/ \E i \in New : PrepareIntent(i)
    \/ \E i \in Named :
          \/ DispatchIntent(i) \/ ExecutePrepare(i) \/ ExecuteCommit(i) \/ ExecuteFails(i)
          \/ ExecuteEnds(i) \/ InquireIntent(i) \/ SettleIntent(i)

OSpec == OInit /\ [][ONext]_ovars

-----------------------------------------------------------------------------
(* ApplicationObserver (product/runtime_read/application.py)                *)

\* _replay_request: the traversal is rebuilt from the record's own targets and
\* its predecessor's inputs, and must visit exactly the record's inputs.
Replays(r) ==
    LET roots == events[r].request.targets \cup (IF r = 1 THEN {} ELSE events[r - 1].inputs)
    IN roots \subseteq events[r].inputs /\ Selected(roots) = events[r].inputs

\* observe(): the audit passes and the last record can be replayed.
Observable == AuditValid /\ (events # <<>> => Replays(Len(events)))

\* Whatever was applied, by the channel or by the embedding, through crashes and
\* unknown outcomes, an observer can always show the document: the stored inputs
\* alone rebuild the request that each record was materialised from.
ObserverServes == Observable

\* The intent journal is fenced and true: the pin is a prefix of it, at most one
\* event behind, so that a restart finds what it fenced; an operation of an
\* intent is in the applier's tables only after its dispatch was durable; an
\* abandoned one never is, an observed or retired one is, at the revision of its
\* receipt.
JournalTrue == I!PrefixFenced /\ I!DispatchedBeforeApplied /\ I!VerdictsTrue

\* What a caller is told of an operation is so when it is told: abandoned or not
\* observed means not applied, observed or retired means applied, and an intent is
\* refused only while its operation is not applied.  The controller refuses without
\* asking whether an earlier call, even of an earlier process, applied the operation;
\* its refusal means that this call reached no applier and wrote nothing.  All else
\* is unknown.
AnswersTrue ==
    [][reply' \notin {reply, None} =>
          LET op == reply'.intent.op
          IN /\ reply'.kind \in {"NOT_OBSERVED", "ABANDONED"} => op \notin I!Applied'
             /\ reply'.kind = "REJECTED" =>
                   IF op \in OwnOps THEN op \notin I!Applied' ELSE direct = None /\ UNCHANGED tables
             /\ reply'.kind \in {"OBSERVED", "RETIRED"} => op \in I!Applied']_ovars
=============================================================================

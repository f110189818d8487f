# Verification of Peer Application Runtime

TLA+ models of the stateful components of Peer Application Runtime (PAR), TLC
configurations that check them on small instances, and TLAPS proofs that the
safety properties of eight of the twelve compositions hold for every value of
the constants. Paths below are relative to `src/`.

1. [The system](#1-the-system)
2. [Modules and code](#2-modules-and-code)
3. [Runs, bounds and what they show](#3-runs-bounds-and-what-they-show)
4. [Fairness](#4-fairness)
5. [Proofs](#5-proofs)
6. [Disagreements and dead ends](#6-disagreements-and-dead-ends)
7. [What is not modelled](#7-what-is-not-modelled)

## 1. The system

PAR keeps documents that are edited by several actors, on machines that crash,
over connections that fail. It is a set of cooperating packages, most of them
single processes that own durable state and are driven by callers.

| Part | Code | State it owns | Modules |
|---|---|---|---|
| Local store | `experiments/g0-store` | SQLite rows (spaces, fence, intents, nonces, commits, actor states, catalog, outbox) and block files | `Store`, `Ledger` |
| Authority | `experiments/space-auth`, `auth-store` | the signed control history, epoch keys, bound commits | `AuthorityChain`, `AuthorityStore` |
| Blobs, files | `experiments/blob-store`, `blob-manifest` | roots, references, staged artifacts | `BlobStore` |
| Readers, snapshots | `product/runtime_read/observer.py`, `g0-store/par_store/recovery.py` | none | `StoreReaders` |
| Document applier | `product/wp04/application.py` | inputs, application events, frontier, nonces | `Application`, `CausalDocument` |
| Application intents | `product/wp09/par_application_intent` | event files, a pin outside them | `Intent` |
| Controller and owner channel | `product/runtime_read`, `product/wp09/par_application_owner` | targets, last view, unresolved intent | `OwnedApplication` |
| Inbox, exchange, fetch | `product/wp04`, `product/wp09/par_secure_fetch`, `par_fetch_owner` | received records, catalogues, plans, one job | `Inbox`, `Exchange`, `FetchOwner` |
| Connector | `product/wp09/par_connectivity`, `par_secure_transport` | operations, sockets, network generation | `Connectivity` |
| Event journal | `product/wp10/events.py` | events, nonces, consumer rows; tokens and cursors held by clients | `EventJournal` |
| Event commands | `product/wp10/commands.py`, `transport.py`, `src/client.ts` | mailbox, connections, the client's retained operation | `EventCommands` |
| Event host | `product/wp10/host.py`, `sdk.py` | mailbox, waiters, channels | `EventHost` |
| Connection pool | `product/wp13/par_matrix/pool.py` | queues, workers, connections | `Pool` |
| Store migration | `product/wp14/par_migration` | generations, ACTIVE.json, plan and journal files | `Migration` |
| Management jobs, scheduler | `experiments/host-management-jobs`, `host-job-scheduler` | job files, selected job, listeners, fault | `ManagementJobs`, `JobScheduler` |
| Control, submission, retirement | `experiments/host-job-control`, `host-job-submit`, `job-submission-retire*` | policy, operation files, stage, payload and retirement files | `JobControl`, `Submissions` |
| Keeper | `experiments/keeper-retention`, `keeper-gc`, `keeper-repair`, `keeper-service` | leases, receipts, object files, pins, repair staging | `Keeper`, `KeeperService` |
| Uploads | `experiments/keeper-upload*`, `upload-replay-window`, `upload-window-host` | spool files, retirement journals, windows, archives | `Spool`, `UploadWindow` |

How they interact: a caller prepares a change, the store commits it under a
fence, an epoch and a single-use nonce, and the outbox offers it to peers. The
authority history decides which epoch and which members; a write is bound to
the history it was prepared under. Changes that arrive from peers reach the
document applier through the inbox; the applier commits a causally closed set
of them. Intents put a durable "may have been dispatched" in front of the
applier, so that an owner that crashed knows what to inquire about. The event
journal and its host tell local consumers what happened, and a command client
publishes into it. The pool and the fetch layer own network connections. The
keeper host stores other people's blocks; its window and its jobs are changed
by management commands, one job at a time, while its listeners are paused.
Migration replaces the store's generation underneath all of it.

What makes it hard is the same almost everywhere:

- two durable domains with no common transaction (database and block files;
  journal and pin; job file and window; stage record and job journal;
  generation directory, pointer and migration journal), with a SIGKILL possible
  between any two writes;
- a commit that may have happened although it raised, so an answer is
  "receipt", "refused" or "unknown", and a retry must find what was done;
- state read in one step and used in a later one: fence, epoch, authority row,
  frontier, source content, window row, network generation, catalogue;
- tokens, cursors and pins that outlive the process that issued them;
- callers answered before the resource they used is released (pool, host,
  connector).

`PROJECT.json` lists the hazards one by one, at their lines, with the
properties that would catch each.

## 2. Modules and code

Each module names its variables after the columns, fields or files they stand
for, and its actions after the methods. One action is the code between two
points at which something else can happen: two awaits on an event loop, two
durable writes where the process may be killed, or the whole call where it runs
in one transaction. Identifiers, digests, ciphertexts and signatures are model
values; a hash or a MAC is taken as injective. The `map` of `PROJECT.json`
gives the source lines of every definition; a helper is listed there when its
lines are not already inside those of another definition.

### Store, Ledger

`Store` is `par_store/store.py` with `BlockPort` of `par_store/fs.py`. The
variable `log` is the committed rows in order, `actors`, `catalog`, `outbox`,
`reserved`, `intents`, `epoch` and `fence` are the other tables, `files` and
`parts` the block directory, `call` the commit that is between two steps.
A commit is `CommitStart`, then for each block `PublishExisting`, or
`PublishPart` followed by `PublishRename`, then one of `CommitDone`,
`CommitUnknown` (COMMIT raised, the rows may be there), `CommitCrash`,
`CommitAborted`. `CommitAgain` answers an operation that already has a row,
`CommitRefused` the checks of `_check_state`. `Crash` may happen anywhere;
`CollectOrphans` and `CollectCrash` remove block files that no row names.

`Ledger` is what a caller of `commit` and `lookup_operation` relies on: an
operation takes effect at most once, as one envelope, and an acknowledgement
names that envelope. `Store!ImplementsLedger` is the refinement: the ledger is
read off `log`, the acknowledgements off the receipts given.

### AuthorityChain, AuthorityStore, BlobStore, StoreReaders

`AuthorityChain` is `AuthorityState` as a value, with its operations (observe,
provide a membership, activate a key package, authorize, replay) as functions
of it. `AuthorityStore` puts that history into the database of `Store`: nothing
of it stays in memory between calls, each call replays the row's events, and a
commit carries a ticket that is compared with the row again inside the
transaction. An authority write that did not finish latches `_failed`; only the
same history may then be written. `BlobStore` adds commits with attachments and
the staging of a file: intent, chunks, manifest, each sealed in a file of its
own, while the source may be edited. `StoreReaders` holds what only reads: the
observer, the pending queue, attachments, snapshots and the store that restoring
one would open. Readers run between two operations, so they are operators
evaluated in every state.

### Application, CausalDocument, Intent, OwnedApplication

`Application` is `DocumentApplier` of `product/wp04/application.py`. `prepared`
keeps every preparation a caller may still hold, so a commit may come after the
frontier, the authority or the inputs have changed, or after a reopen.
`CausalDocument` is the promise: a set of changes that contains what its
members depend on, only grows, and is moved at most once by each operation.
Materialisation itself (the CRDT core) is external: it is a function of the
closure.

`Intent` is `par_application_intent`: the event files (`log`, `torn`), the pin
and its `pending.json`, the journal handle (a failed append poisons it) and the
coordinator's `execute` in progress. An append is a write and a pin advance
with a failure possible between them; opening repairs what `open_anchored`
repairs and refuses what it refuses.

`OwnedApplication` composes the two as one process owns them: the ledger that
`Intent` reads is the applier's event table, and both are driven by
`FetchApplicationController` and by the private channel of `ApplicationOwner`.
Calls are synchronous; a kill may come between their steps.

### Inbox, Exchange, FetchOwner

`Inbox` receives a record by staging, sync, rename and directory sync, and
evaluates a candidate against what inbox and store hold; a kill loses the
process, a power loss also the names that were not synced. `Exchange` is the
peer's side: a catalogue named by a token, and answers that are dropped when
the catalogue changes under them. `FetchOwner` is the one job of the owner,
over the dependency planner and the fetch client: between two awaits the
channel may be detached, the job cancelled, the catalogue changed, or a record
committed by the local writer.

### Connectivity

`par_connectivity/controller.py` and the streams of `par_secure_transport`. An
operation resolves, dials and authenticates under one network generation; after
each await the generation, the cancellation and the deadline are looked at
again. A port that was abandoned may still return a socket (`late`), which has
to be closed and counts against `max_connections` until it is. A change of
network brings its own policy and budgets; `SocketsBounded` is about the largest,
since sockets of the last network may still be closing when the limit is lowered.

### EventJournal, EventCommands, EventHost

`EventJournal` is `product/wp10/events.py`: publication in two transactions
(nonce, then event), pull delivery, tokens, cursors, the remembered audit
(`known`) and the authority stamp compared again before each commit. A COMMIT
that raised may have had its effect or not; a crash may interrupt a call with or
without its effect.

`EventCommands` is the way from a TypeScript client to that journal: the client
that retains one operation and has to inquire after an exchange it did not
finish, the private connection, the owner's mailbox and its synchronous turns.
Frame layout, ordinals, payload rendering, attachments that may only inquire
and cleanup deadlines are left out. Every error of an exchange becomes
"outcome unknown" at the client; `not-found-local` is the owner's answer of one
moment, not a proof that nothing will be written.

`EventHost` is `product/wp10/host.py`: its handlers are operators on the record
`host`, applied within one turn; a cancelled future's done callback runs later,
which is when the slot comes back. The journal is reduced there to a version
and whether it can be read.

### Pool

`FairConnectionPool`: per-peer queues, the round-robin `_pump`, and a worker
that awaits a factory, the caller's operation and `close()`. `Provider` covers
every outcome of each await, including one that never comes. `Expire` is the
passing of a deadline, `Tick` the timer that answers the caller.

### ManagementJobs, JobScheduler, JobControl, Submissions

`ManagementJobs` has the job files, the window rows they act on, and the job
inside `_execute` (`marked`, then `applied`). A journal write that fails leaves
the old or the new file and closes the journal. `Direct` is a window change
made by something other than a job. `JobScheduler` extends it with the owner
loop, its listeners and its fault. `JobControl` adds the control endpoint: a
durable operation record that is INFLIGHT before the owner loop is called, under
the controller of the current policy revision. `Submissions` adds the staged
registration of jobs and the retirement of their payloads. The four stores have
no common transaction; every step between two durable writes is an action.

The external pins an operator may keep of the window, job, control and stage
stores are the action property `PinsAccepted`: what `verify_pin` compares, except
the revision counter of a stage record, which the model does not carry.

### Migration

`par_migration`: the program counter of a run over backup, shadow, publication,
pointer and journal, each step re-deriving from the files what has already been
done; `Stop` between any two file operations; `SourceWrites` between runs. A
plan is named by the content of its source, so the work directories and target
generations are functions of content.

### Keeper, KeeperService, Spool, UploadWindow

`Keeper` is the retention store with collection and repair. `db` is written by
whole transactions; object files and repair staging are separate, so an
operation that touches them takes several steps. `KeeperService` is the read
service: a get pins its lease until its connection ends. `Spool` is the upload
journal and the retirement of unfinished uploads, one file operation per step;
`UploadWindow` puts the replay windows and their host around it.

## 3. Runs, bounds and what they show

`PROJECT.json` gives the properties of each run and, for every property, a
mutated definition (a dropped guard, a swapped order, a missing reset) under
which the property is violated in the same instance. The mutants stand beside
the definitions they replace.

| Run | Instance | Shows |
|---|---|---|
| `store` | one space, a file of two chunks with two versions of its source, a later change of the same epoch, under the next head, that attaches a chunk again, a change of the second epoch with and without that chunk, competing control entries | all three audits hold in every state (`StoreReopens`); a committed file is whole (`FilesWhole`); readers report what is so (`ReadersTrue`); the external pin stays acceptable (`PinsHold`); writes commit only under the history they were bound to (`WritesUnderHead`); refines `Ledger` (`ImplementsLedger`) |
| `pool` | three requests for two peers, one or two slots, two connections | open connections have exactly one owner; no peer is served twice in a row while another waits; every accepted request is answered |
| `application` | two changes, one on top of the other, two operations of intents and one of the embedding, five journal events | observers can replay (`ObserverServes`); the intent journal is fenced and true (`JournalTrue`); answers are true (`AnswersTrue`); refines `CausalDocument` (`ImplementsDocument`) |
| `event_journal` | two operations with two inputs, a consumer or a client with two connections | audit and cursors (`CursorsSound`); what a client is told is so (`ToldTrue`); a client publishes again only what no earlier attempt can still write (`NoneInFlight`) |
| `event_host` | two channels, mailbox of one, one request per turn | slots and counters agree; nothing is forgotten; no wake-up is lost |
| `jobs` | two jobs, one window, one command, eight history events, one authority change | what a job record says of its effect is true (`EffectsTrue`); endpoints accept only with nothing selected and nothing unresolved (`ServingResolved`); a selected job ends or the host is held (`SelectedSettles`) |
| `submissions` | one job, one control operation, one rotation of the controller, four history events; a job the owner submitted past an unregistered stage is followed to its first step (`Followed`) | the stage store always opens, unless the owner submitted a job under the id of a stage retired unregistered, and REGISTERED is true (`StagesReopen`); one dispatch per operation (`DispatchedOnce`); pins given out stay acceptable (`PinsAccepted`) |
| `migration` | two contents, two plans of each, two interruptions | readers find a sound generation (`ActiveSound`); no write is dropped and the journal is never ahead (`NothingLost`); a resumed plan is activated (`Converges`) |
| `keeper` | a lease of two objects and one that fits only once it is collected, two repairs, two authorities, one reboot, one fault | the audit of `__init__` (`Reopens`); what a receipt or a reader stands for is kept (`ServedKept`); receipts are in order; no pin outlives its connection (`PinsOwned`) |
| `upload` | two uploads that do not fit together, two windows, two authorities | every record is accepted again, and reservations and payloads stay within the limit but for records made to retire what never began (`RecordsReopen`); every answer stays true (`AcknowledgedKept`) |
| `fetch` | five records, one of which equivocates, a catalogue that grows, shrinks or comes to conflict | what is reported stored is durable; a proposal fits one view and one catalogue; no stream outlives its job, but those of a planner interrupted twice |
| `connect` | two operations, three sockets, a limit of two, one change to a metered network with room for one | `ActiveCurrent`, `SocketsBounded`, `Drains` |

Why the bounds are enough for the cases that matter:

- The store's prepared records are chosen for their conflicts: one change sealed
  twice under two nonces, the same operation with an edited source, a change of
  the same epoch that shares a block, and one of the next epoch that may not,
  because the block was sealed for the first. The source of a file may change
  between the two readings and between two chunks of the second, so a directory
  can hold chunks of two versions. The control entries compete for one
  position, and one key package holds a wrong secret. A history that spends the
  second nonce on another seal of the file or on the second change is not
  followed past a new epoch (`OneUse` in `MCStore`): the change of the second
  epoch needs that nonce.
- Two operations for two places let the intent journal meet its limit of intents,
  and an operation of the embedding makes an expected revision stale. Once the
  embedding has called the controller, the journal is bounded to the three events
  of one intent (`OneIntent` in `MCOwnedApplication`).
- Two channels on a mailbox of one make admission, refusal and wake-up compete.
- Eight history events are what one job needs for two interrupted attempts. Four,
  in `submissions`, take a job as far as PREPARED or CANCELLED, past which staging
  sees no difference; its effect, and changes of the authority, are in `jobs`.
- Two interruptions let a resumed migration be interrupted again.
- The keeper's second lease fits only after a collection, and its second repair,
  cancellation and collection are signed under the later authority, so that every
  stale request meets a later state.
- In `fetch` the plan needs two pages of questions, and the restored device of
  the owner writes in a slot it had used before. `MaxLive` leaves room for one
  stream that a planner lost and one of the present job.
- The instance of `event_journal` leaves the subscriber out once a client is
  connected (`OnePort` in `MCEventCommands`): they meet only through the rows.
  The proofs of section 5 cover both at once.

Symmetry is used only in runs without temporal properties, over sets whose
elements no definition distinguishes. Deadlock is not checked: in every instance
the bounds, a closed process or a finished task end the behaviour.

## 4. Fairness

- `Pool!TimerSpec`: deadlines pass and timers fire. The deadline is armed with
  `call_at` in `submit` and the loop runs its timers. Nothing is assumed of
  factories, operations or `close()`; `Answered` holds although they may never
  return.
- `JobScheduler!FairSSpec`: the owner keeps ticking, and a transfer in progress
  ends. Every connection has a fixed total I/O deadline
  (`experiments/keeper-service/par_keeper_service/server.py:3`). Reconciliation
  and retry are operator actions and carry no fairness; `SelectedSettles`
  therefore says that the job ends or the host is held for review.
- `Migration!FairSpec`: an uninterrupted run proceeds and callers that hold a
  plan resume it. Start is strongly fair because the lease is taken and
  released by others in between. Interruptions are bounded by `MaxStops`;
  `Converges` leaves out the torn files of section 6.
- `Connectivity!FairSpec`: a task of the loop that can run is run, and ports
  cooperate with cancellation, which every stage and every close enforces with a
  timeout. Callers and the network need not do anything.

## 5. Proofs

Each proof module extends the component's own module, so what is proved is what
the runs check, for every value of the constants. The assumptions are those
named by `ASSUME` in the modules: `None` (and `Torn`) is no value of a record or
column, bounds are naturals, sets that are counted are finite; TLC evaluates
them on every run. Each inductive invariant was checked by TLC on the run's
instance before it was proved.

| Module | Specification | Inductive invariant | Results a run also checks |
|---|---|---|---|
| `StoreProofs` | `Store!Spec` | `IndInv` of `Store` | `Refinement` (`ImplementsLedger`) |
| `ApplicationProofs` | `Application!Spec`, `OwnedApplication!OSpec` | `IndInv` of `Application`, `OwnedInv` | `Refinement`, `OwnedRefinement` (`ImplementsDocument`), `ObserverAlwaysServes` |
| `EventProofs` | `EventCommands!CSpec` | `CommandInv` | `CursorsAlwaysSound`, `ToldAlwaysTrue`, `NoneEverInFlight` |
| `SubmissionsProofs`, part I | `JobScheduler!SSpec` | `JobInv`, `OwnerInv` | `EffectsAlwaysTrue`, `ServingAlwaysResolved` |
| `SubmissionsProofs`, part II | `Submissions!ASpec` | `SubmissionInv` | `DispatchedAtMostOnce`, `StagesAlwaysReopen`, `PinsAlwaysAccepted` |
| `MigrationProofs` | `Migration!Spec` | `MigrationInv` | `ActiveAlwaysSound`, `NothingEverLost` |
| `ConnectivityProofs` | `Connectivity!Spec` | `ConnInv` | `ActiveAlwaysCurrent`, `SocketsAlwaysBounded` |
| `KeeperProofs` | `KeeperService!SSpec` | `KeeperInv` | `PinsAlwaysOwned`, `ServedAlwaysKept`, `ReceiptsAlwaysOrdered` |
| `FetchProofs` | `FetchOwner!Spec` | `FetchInv` | `SessionsAlwaysReaped`, `AcknowledgedAlwaysDurable`, `ProposalsAlwaysSound` |

**StoreProofs.** `AuditValid` is not inductive. The audit compares the live rows
with the log, so it needs to know how they came about; `IndInv` adds:

- `ReservationsBound`: a reservation carries its operation's input, so the
  nonce a commit consumes binds the digest the audit looks for;
- `EpochsReached`: no row is of an epoch its space has not reached, so an
  advance empties the live chains and drops the actors together;
- `CommitsDistinct`: rows differ in operation, envelope and nonce;
- `ChainsLinked`: a row names its predecessor in the same chain and epoch;
- `CallSound`: the blocks a running commit has passed are in place and its
  operation has no row, so the insert makes the audit's block check true;
- `ReceiptsHold`: a receipt names a row, which the refinement needs;
- `PartsBounded`: a staging file outlives its call only if the process died, so
  there is at most one per process that is gone (reported, not needed by the rest).

`StepKinds` sorts every step into an insert, a change of one group of tables,
or a step that leaves them alone; each conjunct then has one lemma over those
kinds. Further theorems: `TypeCorrect`, `AuditAlwaysValid`,
`OutboxAlwaysCurrent`, `RepliesAlwaysTruthful`, `ChainsAlwaysLinked`,
`OneOutcomeAlways`. They are about the store by itself; the `store` run checks
the same refinement with authority, blobs and file staging on top.

**ApplicationProofs.** `IndInv` adds to the audit and the closure what a
preparation guarantees for as long as a caller may hold it (`PreparedSound`): if
frontier and inputs are still those it saw, its closure is closed and strictly
larger. `LastHoldsAll` says the last event contains every input and
`NoncesInRange` that events use issued nonces. Theorems: `AuditAlwaysValid`,
`AppliedAlwaysClosed`, `Refinement`. The argument holds for any dependency
relation; acyclicity is not needed. A second part is about the applier in the
process that owns it (`OwnedApplication`), where calls of the intent coordinator,
of the command channel and of the embedding drive it and a kill may come between
any two of their steps. Every such step is a step of the applier or leaves its
tables alone, so `IndInv` and the refinement carry over (`OwnedRefinement`). To
that, `OwnedInv` adds `Rebuilt`: the observer, which rebuilds a record from the
record's own targets and the inputs of the one before it, finds exactly what was
stored, and the same will hold of the record that a preparation still in date
would make (`ObserverAlwaysServes`). The one new assumption, `OpsAssumption`, is that the
operations of the intents and of the embedding are operations of the applier.

**EventProofs.** `JournalInv` is about the file and what was issued from it. The
file passes its audit and only grows (`Later`), so everything that was true of
an older file and is closed under growth stays true: tokens, cursors, receipts
and the remembered audit are all behind the file (`BehindInv`). A call works on
the file as it was when it began (`CallInv`), because calls of one process do
not overlap and a second process needs a crash of the first. `PortInv` adds the
connections: the one command that runs is the journal's call, an answer that
was given is so, and the binding of the client carries only the active
exchange. `NoneInFlight` rests on `StaleInv`: a publish that the owner may still
take up is of an operation already committed, or is the active exchange, or is
the retained operation of a client that has to inquire. A client that may
publish afresh is in the first case for every older attempt: once an exchange is
abandoned, the duty to inquire stays with the operation until an inquiry has
found it committed. The run's instance never has a subscriber beside a connected
client; the proof does.

**SubmissionsProofs, part I.** An effect is provable from the window rows (`Probe`), and rows
only move on (`RowsOnward`), so what was provable stays so. `JobInv` adds that
the job inside `_execute` is EXECUTING and unapplied until its apply, that an
effect happens at most once, and `HistoryFits`: the transitions still ahead of a
job fit into its history, so a success that was applied can always be recorded.
`ServingResolved` alone is not inductive: the end of a tick resumes the listeners
without a look at the other jobs. `OwnerInv` supplies the reason that this is
right: while a job is selected no other is unresolved.

**SubmissionsProofs, part II.** The endpoints call the owner loop's operations,
so the lemmas of part I are used again and `EndpointsKeepJobs` says that what was
proved there holds under control and submission too. `CommandSound` ties the
operation inside `execute` to its INFLIGHT record and to the number of its
dispatches. `CallSound` says what the files look like between two writes of one
call: a callback, a rotation or a crash in between finds the audit true.
`StageSound` is the audit itself and the truth of REGISTERED, which holds for
ever because the job journal never drops or rewrites a job's input. `PinsAccepted`
is an action property: each kind of step is shown to take nothing back that a
pin recorded (`RowsOnward`, `JobsOnward`, `ControlOnward`, `StagesOnward`).

**MigrationProofs.** `FilesSound` says that whatever is complete is right; `Claims`
what a journal at some stage says of the files; `Knows` what a run has
established when it reaches a point. `Knows` stays true because only the holder
of the lease writes, and an interrupted run leaves `FilesSound` and `Claims` to
the next. `BuildFaithful` is the converter: it keeps every object with its bytes
and claims nothing for what it cannot interpret.

**ConnectivityProofs.** `OwnInv`: a socket in use belongs to exactly one
operation. `GrantInv`: what an operation of the current generation dials is
granted by the policy in force, so that the last fence before the handover is
enough. `SocketsBounded` needs two counts: `Slots`, the operations that own or
may yet own a socket together with the sockets nobody waits for, and `Claimants`,
the operations running together with the sockets that are active or late. An
operation that waits for its socket to close has given its slot to it, and takes
one again only when nothing is closing; each of the two counts is bounded by
the largest `max_connections`, and neither alone would be inductive; `PolicyInv`
says that the policy in force is one of those given.

**KeeperProofs.** `KeeperInv` relates the database, the object files, the pins and
the operation under way. `Kept` is the part of `ServedKept` that every step needs:
an object on record for a lease that is not released, or that a connection has
pinned, is readable unless the disk damaged it. A collection removes files in
several steps, so `OpInv` says that the lease it works on stays released and
unpinned until it is done; a pin is taken only on a lease that is served.
`ReceiptInv` orders the answers on record against the last receipt of their
lease: number, boot and, within a boot, expiry. Across boots only the numbers are
ordered, because expiry counts from the boot's own clock. Assumptions: `Absent`,
`Unconnected` (`None` is no row, receipt, stamp or connection) and
`FirstAuthority` (authority sequences are naturals and there is a first one).

**FetchProofs.** `FetchInv` has four parts. `StreamInv`: a job that awaits holds
exactly one session, whose stream is open once it left `"opening"`; no job, no
stream but those in `stray`. `StoredInv`: no step takes a durable name away and every durable name is
visible, so what the client counted stays synced; a client that is reopened counts
only what `_reconcile` has just synced again. `PlanInv`: the files of the selected
plan are synced unless a resume is asked for. `ProposalInv` is the planner's loop
invariant: what the targets miss in the view the scan began with is among what is
still to be asked for and what was found, and what was found lies in one catalogue
without a conflict. It is stated for the scan's own view (`InnerIn`, `PrevIn` take
the held set as a parameter), because inbox and store may change and change back
while the planner awaits. That a page is part of what it is a page of needs a
subset of each size of a finite set, which is taken from a bijection with an
interval (`SubsetOfSize`). Assumptions: records are finitely many, the page size is
a natural, `None` is no job and no plan.

Only model-checked:

- liveness (`Answered`, `SelectedSettles`, `Converges`, `Drains`): outside what
  TLAPS proves here;
- `Pool`, whose pump is a recursive operator, and `EventHost`, whose turns are
  folds over queues: what they compute for every input needs induction over data;
- `JournalTrue` and `AnswersTrue`: the intent journal is what a fold over its event
  files gives, which is again induction over data;
- `Reopens` of the Keeper: the audit adds up the sizes of sets of objects, and the
  library has no theorem on such sums that the provers could instantiate;
- `Spool` and `UploadWindow`, and what `AuthorityStore`, `BlobStore` and
  `StoreReaders` add to `Store`: not attempted; the theorems about `Store` are the
  base the latter would extend.

## 6. Disagreements and dead ends

Three places where the code does something else than a text beside it says:

- **The event host's queue can outgrow its bound.** A cancel finishes the
  channel's ordinary request and frees its slot, but the finished request stays
  in `_queue` until a turn pops it, and turns pop cleanups first
  (`product/wp10/host.py:284`). The class describes itself as a bounded mailbox
  (`product/wp10/host.py:86`). `SlotsAccounted` is about slots, which are bounded.
- **A held host accepts again.** `cancel` resumes the listeners when nothing is
  selected or unresolved, without looking at `fault`
  (`experiments/host-job-scheduler/par_job_scheduler/owner_loop.py:83`), while
  the package's `README.ja.md:20` says that admission does not resume by itself.
  `ServingResolved` does not mention the fault.
- **A retirement that is prepared without room.**
  `_prepare_unstarted_retirement` writes the record of a binding whose upload
  never began without the capacity check
  (`experiments/upload-replay-window/par_upload_window/store.py:287`). The run
  `upload` meets it: y is bound and the host killed, z begins, and the retirement
  of y reserves three bytes of two; a kill before its tombstone leaves a store
  whose recovery answers STAGING_CORRUPT
  (`experiments/keeper-upload-retire/par_keeper_upload_retire/spool.py:202`) and
  that never opens again, so `Opens` is not an invariant. A second retirement
  under an operation id already used, which is refused only once the record is
  there, leaves it open for chunks too. `RecordsReopen` therefore leaves the
  records so made (`Unasked`) out of the two sums, and nothing else; the record
  limit is not exceeded, because bindings are counted.

- **A session that arrives for a planner interrupted twice.** The planner's
  `_open` waits for its factory with a `gather` that is in no `finally`
  (`product/wp09/par_secure_fetch/dependencies.py:112`; the client's is,
  `client.py:165`). After the cancel event, or the first of the two deadlines of a
  proposal, a second interruption there raises CancelledError once the factory has
  finished, and a session it returned stays open after the job ended. `SessionLost`
  is that step; `SessionsReaped` says that nothing else leaves a stream open
  (`stray` counts those so lost). Every other close ends in `_finish_close` or, when
  it is cancelled, in `abort`.

Behaviour met while modelling that no property calls wrong:

- a stream of cleanup requests in the event host can keep ordinary requests
  waiting, so `NoneForgotten` says that a turn is scheduled, not that each
  request is answered;
- a job whose retries have used up its history, or whose target was changed by
  another command, has no further transition;
- a stop inside the creation of a migration's PLAN.json or JOURNAL.json leaves
  a file that every later run refuses, and planning again at another time or
  with other free space gives a plan that does not match the stored one;
- a torn plan file of the fetch owner blocks that plan's digest;
- a file whose source is edited during the second pass of `stage()` leaves a
  sealed chunk that no retry accepts;
- an inquiry of the controller that answers NOT_OBSERVED never clears the
  unresolved latch;
- a local conflict in the inbox makes the fetch's guard fail as QUARANTINED;
- `submit()` of the owner loop does not look at the stages: a job submitted
  under the id of a stage that was retired unregistered makes `_bound_job`
  refuse (RETIRE_JOB_MISMATCH), so every later operation of the stage store and
  every later start of the host fails at its audit. `OwnerTurn` has that
  submission, `Idle` and `Started` have the audit, and `StagesReopen` says that
  nothing else leads there (`owned` remembers the jobs so submitted).

## 7. What is not modelled

`PROJECT.json` lists every component with its status. Left out for good: byte
formats, cryptographic primitives, socket framing, presentation code
(`product/wp11`), measurement and evidence tooling (`product/wp13/par_soak`,
`product/wp16`, `harness`, `tools`), the read-only record lifecycle and verified
host snapshot, and the native provider, which is not built here.

Left out of the modelled components: quotas and reservations in bytes (except
the spool's and the keeper's, which decide what fits), payload schemas,
permissions and path checks; schema migrations of the databases, which are
single transactions; the incoming queue, the admission of a received change and
the export of a file to a path in the blob store; the client-side checkpoint
files of the fetch client, which the owner does not use; the offline
administration shell of the upload windows; the copying of a snapshot, which
goes into a directory nobody reads before it is published.

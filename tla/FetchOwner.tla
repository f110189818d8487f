----------------------------- MODULE FetchOwner -----------------------------
(***************************************************************************)
(* The owner of explicit fetch commands (product/wp09/par_fetch_owner), with *)
(* what its one worker runs: the dependency planner and the fetch client of  *)
(* product/wp09/par_secure_fetch, and the observations of the controller     *)
(* product/runtime_read/fetch.py.  One channel at a time may be attached and *)
(* one job runs at a time; a job is a coroutine, so between two of its awaits *)
(* the channel may be detached, the job cancelled, the inbox or the store     *)
(* changed, the peer's catalogue changed, or the process killed.  A refusal   *)
(* (deadline, stale revision, schema, budget) is possible wherever the code   *)
(* checks for one.  Digests are left out: a plan is its snapshot and records. *)
(***************************************************************************)
EXTENDS Exchange

CONSTANTS
    Target,       \* the envelopes the owner was created for
    PageSize,     \* page_size of the planner
    MaxEntries    \* 128: files in the plan directory

\* A job that awaits, and a plan: neither is the absent value.
Jobs == [op : {"propose", "fetch"}, cancel : BOOLEAN]
PlanShapes == [snap : SUBSET Record, recs : SUBSET Record]
ASSUME NothingAssumption == None \notin Jobs \cup PlanShapes
ASSUME PagesAssumption == IsFiniteSet(Record) /\ PageSize \in Nat

VARIABLES
    chan,         \* None, "read", "fetch", "shut" or "gone" (the owner closed)
    job,          \* a job that awaits: None or [op, cancel]
    scan,         \* the planner's locals during a proposal, or None
    last,         \* the local view of the last observation, or None
    proposal,     \* None or [local, plan]
    selected,     \* the accepted plan, or None
    client,       \* its FetchClient, or None: [stored, review]
    resume,       \* _resume_required
    files         \* the plan directory: [plan, kind, state]

ownerVars == <<chan, job, scan, last, proposal, selected, client, resume, files>>
vars == <<boxVars, peerVars, ownerVars>>

LocalView == <<visible, committed>>
Authorized == box = "open" /\ authority                \* the client's _guard
Guarded == Authorized /\ ~Conflict(Held)                            \* source_guard

Changing == {"accept", "resume", "fetch"}
Reading == {"observe", "inquire", "close"}
Operations == Reading \cup Changing \cup {"propose"}

Init ==
    /\ BoxInit(Target) /\ PeerInit
    /\ chan = None /\ job = None /\ scan = None /\ last = None /\ proposal = None
    /\ selected = None /\ client = None /\ resume = FALSE /\ files = {}

-----------------------------------------------------------------------------
(* Channels and requests.                                                    *)

Attach(mode) ==
    /\ chan = None /\ job = None /\ Guarded                         \* OWNER_CHANNEL_LIMIT
    /\ chan' = mode
    /\ UNCHANGED <<boxVars, peerVars, job, scan, last, proposal, selected, client, resume, files>>

\* detach(), and close() of the owner, which drains the job it cancels.
Detach(to) ==
    /\ chan \in {"read", "fetch", "shut"} \/ (chan = None /\ to = "gone")
    /\ chan' = to
    /\ proposal' = None /\ last' = None
    /\ job' = IF job = None THEN None ELSE [job EXCEPT !.cancel = TRUE]
    /\ UNCHANGED <<boxVars, peerVars, scan, selected, client, resume, files>>

\* request() and the check with which the worker starts.  What may happen between the
\* two only makes the start fail, so that they are one step here.
Starting(op) ==
    /\ chan = "fetch" \/ (chan = "read" /\ op \in Reading)          \* OWNER_OPERATION_DENIED
    /\ job = None /\ Guarded                                        \* OWNER_BUSY
Expected == last # None /\ last = LocalView

\* The caller's future is cancelled.
Cancel ==
    /\ job # None /\ ~job.cancel
    /\ job' = [job EXCEPT !.cancel = TRUE]
    /\ UNCHANGED <<boxVars, peerVars, chan, scan, last, proposal, selected, client, resume, files>>

-----------------------------------------------------------------------------
(* _run: the two ways a job ends.                                            *)

\* An exception anywhere: nothing observed before it may be acted on.
Fails(op) ==
    /\ job' = None /\ scan' = None /\ last' = None /\ proposal' = None
    /\ resume' = (resume \/ op \in Changing)

\* _snapshot(): a fresh observation; a proposal for another view is dropped.
Succeeds(p) ==
    /\ job' = None /\ scan' = None
    /\ last' = LocalView'
    /\ proposal' \in {None} \cup (IF p # None /\ p.local = LocalView' THEN {p} ELSE {})

\* The deadline may pass while a synchronous operation runs to its end.
Settles(op, p) ==
    \/ Succeeds(p) /\ resume' = (resume /\ op \notin Changing)
    \/ Fails(op)

StartFails(op) ==
    /\ Starting(op)
    /\ Fails(op)
    /\ UNCHANGED <<boxVars, peerVars, chan, selected, client, files>>

\* inquire and validate use up the observation they were asked at; both end in
\* another one, and "inquire" stands for both.
Observe(op) ==
    /\ Starting(op) /\ op \in {"observe", "inquire"}
    /\ op = "inquire" => Expected
    /\ UNCHANGED boxVars
    /\ Settles(op, proposal)
    /\ UNCHANGED <<peerVars, chan, selected, client, files>>

CloseChannel ==
    /\ Starting("close")
    /\ chan' = "shut"
    /\ proposal' = None /\ last' = None
    /\ UNCHANGED <<boxVars, peerVars, job, scan, selected, client, resume, files>>

-----------------------------------------------------------------------------
(* The plan directory: two files, each created, written, synced.             *)

File(p, kind, state) == [plan |-> p, kind |-> kind, state |-> state]
Rest(p) == {f \in files : f.plan # p}
Whole(p, kind) == \E s \in {"written", "synced"} : File(p, kind, s) \in files
Absent(p, kind) == \A f \in files : f.plan # p \/ f.kind # kind

\* _persist succeeds: both files whole and synced, within the bound.
Persistable(p) ==
    /\ \A k \in {"plan", "receipt"} : Whole(p, k) \/ Absent(p, k)   \* PIN_MISMATCH
    /\ Cardinality(Rest(p)) + 2 <= MaxEntries                       \* OWNER_PLAN_BUDGET
Persisted(p) == Rest(p) \cup {File(p, k, "synced") : k \in {"plan", "receipt"}}

\* save_new is interrupted: the plan, or after it the receipt, is incomplete.
Interrupted(p) ==
    (IF Absent(p, "plan") THEN {Rest(p) \cup {File(p, "plan", s)} : s \in {"torn", "written"}} ELSE {})
    \cup (IF Absent(p, "receipt")
          THEN {Rest(p) \cup {File(p, "plan", "synced"), File(p, "receipt", s)} : s \in {"torn", "written"}}
          ELSE {})

-----------------------------------------------------------------------------
(* propose: DependencyPlanner.build                                          *)

MissingInner == UNION {Missing(t) : t \in Target}
MissingPrev == UNION {MissingPrevious(t) : t \in Target}
Plannable == \A t \in Target : View(t) \in {"WAITING_DEPENDENCIES", "READY_FOR_CORE"}

\* Pages are taken in a fixed order.
Page(S) == CHOOSE P \in SUBSET S :
    Cardinality(P) = (IF Cardinality(S) < PageSize THEN Cardinality(S) ELSE PageSize)

\* The planner's next question.
Question(s) ==
    CASE s.phase = "need" -> Need(Page(s.need))
      [] s.phase = "have" -> Have({}, s.snap)
      [] s.phase = "final" -> Have({}, s.snap)

ProposeNothing ==
    /\ UNCHANGED boxVars
    /\ Starting("propose") /\ Expected /\ Plannable
    /\ MissingInner \cup MissingPrev = {}
    /\ Settles("propose", [local |-> LocalView, plan |-> None])
    /\ UNCHANGED <<peerVars, chan, selected, client, files>>

ProposeStarts ==
    /\ Starting("propose") /\ Expected /\ Plannable
    /\ MissingInner \cup MissingPrev # {}
    /\ job' = [op |-> "propose", cancel |-> FALSE]
    /\ scan' = [local |-> LocalView, need |-> MissingInner, prev |-> MissingPrev, seen |-> {},
                snap |-> None, recs |-> {}, phase |-> IF MissingInner = {} THEN "have" ELSE "need"]
    /\ SessionStarts(Question(scan'))
    /\ last' = None /\ proposal' = None
    /\ UNCHANGED <<boxVars, offer, link, live, stray, chan, selected, client, resume, files>>

\* What one answer adds to the plan, and the phase that follows.
Absorbed(s, token) ==
    LET page == IF s.phase = "need" THEN Page(s.need) ELSE Page(token \ s.seen)
        recs == IF s.phase = "need" THEN s.recs \cup page ELSE s.recs \cup (page \cap s.prev)
        need == IF s.phase = "need" THEN s.need \ page ELSE {}
        seen == IF s.phase = "have" THEN s.seen \cup page ELSE s.seen
        phase == IF need # {} THEN "need"
                 ELSE IF s.phase = "need" /\ ~(s.prev \subseteq recs) THEN "have"
                 ELSE IF s.phase = "have" /\ seen # token THEN "have" ELSE "final"
    IN [s EXCEPT !.snap = token, !.need = need, !.recs = recs, !.seen = seen, !.phase = phase]

\* Mutant: answers of different catalogues are put together.
AbsorbableMixed(s, token) ==
    /\ s.phase = "need" => Page(s.need) \subseteq token
    /\ s.phase = "have" /\ Absorbed(s, token).phase = "final" => s.prev \subseteq Absorbed(s, token).recs
Absorbable(s, token) ==
    /\ s.snap \in {None, token}                                     \* REMOTE_VIEW_CHANGED
    /\ s.phase = "need" => Page(s.need) \subseteq token             \* DEPENDENCY_NOT_OFFERED
    /\ s.phase = "have" /\ Absorbed(s, token).phase = "final"
          => s.prev \subseteq Absorbed(s, token).recs               \* PREDECESSOR_NOT_OFFERED

-----------------------------------------------------------------------------
(* The session of a job: what follows when it opened, and when it closed.    *)

\* _open(): a session that arrives after a cancellation is reaped, not used.
MayAsk ==
    /\ ~job.cancel
    /\ IF job.op = "propose" THEN Guarded /\ LocalView = scan.local
       ELSE Authorized /\ ~client.review

SessionOpens ==
    /\ sess # None /\ sess.at = "opening" /\ live < MaxLive
    /\ live' = live + 1
    /\ sess' = [sess EXCEPT !.at = IF MayAsk THEN "asked" ELSE "closing"]
    /\ UNCHANGED <<boxVars, offer, link, stray, ownerVars>>

\* The factory fails, or gives in to the cancellation before it has a session.
OpenFails ==
    /\ sess # None /\ sess.at = "opening"
    /\ sess' = None
    /\ Fails(job.op)
    /\ UNCHANGED <<boxVars, offer, link, live, stray, chan, selected, client, files>>

\* The planner's _open waits for its factory outside of any finally: interrupted there
\* once more, by a deadline after the cancellation or by the second of the two
\* deadlines, it leaves a session that still arrives to no one.
SessionLost ==
    /\ sess # None /\ sess.at = "opening" /\ job.op = "propose" /\ stray + 1 < MaxLive
    /\ sess' = None /\ live' = live + 1 /\ stray' = stray + 1
    /\ Fails("propose")
    /\ UNCHANGED <<boxVars, offer, link, chan, selected, client, files>>

\* Mutant: a job that was cancelled does not wait for its stream to close.
JobFailsEarly ==
    /\ sess # None /\ (sess.at = "closing" \/ job.cancel)
    /\ sess' = None
    /\ live' = IF sess.at = "closing" THEN live - 1 ELSE live
    /\ Fails(job.op)
    /\ UNCHANGED <<boxVars, offer, link, stray, chan, selected, client, files>>
\* The stream is closed and the job ends with an error.
JobFails ==
    /\ sess # None /\ sess.at = "closing"
    /\ sess' = None /\ live' = live - 1
    /\ Fails(job.op)
    /\ UNCHANGED <<boxVars, offer, link, stray, chan, selected, client, files>>

Answered(op) ==
    /\ sess # None /\ sess.at = "closing" /\ sess.token # None
    /\ job.op = op /\ ~job.cancel

\* The planner goes on with the next question, or has its proposal.
ProposeContinues ==
    /\ Answered("propose") /\ Guarded
    /\ LocalView = scan.local                                       \* LOCAL_VIEW_CHANGED
    /\ Absorbable(scan, sess.token)
    /\ live' = live - 1 /\ UNCHANGED boxVars
    /\ IF scan.phase = "final"
       THEN /\ sess' = None
            /\ Settles("propose", [local |-> scan.local, plan |-> [snap |-> scan.snap, recs |-> scan.recs]])
       ELSE /\ scan' = Absorbed(scan, sess.token)
            /\ SessionStarts(Question(scan'))
            /\ UNCHANGED <<job, last, proposal, resume>>
    /\ UNCHANGED <<offer, link, stray, chan, selected, client, files>>

-----------------------------------------------------------------------------
(* accept, resume and fetch: FetchClient                                     *)

\* _reconcile(): the plan's records the inbox has are received, that is synced, again.
Reconciled(p) ==
    /\ IF p.recs \cap visible = {} THEN UNCHANGED <<visible, durable>>
       ELSE \E r \in p.recs \cap visible : Published(r)
    /\ UNCHANGED <<orphans, committed, box, authority>>
NewClient(p) == [stored |-> p.recs \cap visible, review |-> FALSE]

\* A new client of the plan, reconciled with the inbox before it is used.
Reopened(p) == client' = NewClient(p) /\ Reconciled(p)

Acceptable ==
    /\ Starting("accept") /\ Expected
    /\ proposal # None /\ proposal.local = LocalView                \* PROPOSAL_UNAVAILABLE, LOCAL_VIEW_CHANGED

Accept ==
    /\ Acceptable
    /\ selected' = proposal.plan
    /\ IF proposal.plan = None
       THEN client' = None /\ UNCHANGED <<boxVars, files>>
       ELSE /\ Persistable(proposal.plan)
            /\ files' = Persisted(proposal.plan)
            /\ Reopened(proposal.plan)
    /\ Settles("accept", None)
    /\ UNCHANGED <<peerVars, chan>>

AcceptFails ==
    /\ Acceptable /\ proposal.plan # None
    /\ files' \in {files} \cup (IF Persistable(proposal.plan) THEN Interrupted(proposal.plan) ELSE {})
    /\ selected' = None /\ client' = None
    /\ Fails("accept")
    /\ UNCHANGED <<boxVars, peerVars, chan>>

\* reconcile() fails once the plan is selected: both stay, to be resumed.
AcceptUnreconciled ==
    /\ Acceptable /\ proposal.plan # None /\ Persistable(proposal.plan)
    /\ files' = Persisted(proposal.plan)
    /\ selected' = proposal.plan /\ client' = [stored |-> {}, review |-> FALSE]
    /\ Fails("accept")
    /\ UNCHANGED <<boxVars, peerVars, chan>>

Resume(p) ==
    /\ Starting("resume") /\ Expected
    /\ Whole(p, "plan") /\ Whole(p, "receipt")
    /\ Persistable(p)
    /\ files' = Persisted(p)
    /\ selected' = p /\ Reopened(p)
    /\ Settles("resume", None)
    /\ UNCHANGED <<peerVars, chan>>

Remaining(c) == selected.recs \ c.stored
NextRecord(c) == CHOOSE r \in Remaining(c) : TRUE

Fetchable == ~resume /\ selected # None                               \* RESUME_REQUIRED, PLAN_SELECTION

\* execute() reconciles before the first request.
FetchStarts ==
    /\ Starting("fetch") /\ Expected
    /\ Fetchable
    /\ Reconciled(selected)
    /\ client' = NewClient(selected)
    /\ IF Remaining(client') = {}
       THEN sess' = sess /\ Settles("fetch", None)
       ELSE /\ SessionStarts(Get(NextRecord(client'), selected.snap))
            /\ job' = [op |-> "fetch", cancel |-> FALSE]
            /\ last' = None
            /\ UNCHANGED <<scan, proposal, resume>>
    /\ UNCHANGED <<offer, link, live, stray, chan, selected, files>>

\* _fetch() has its reply: receive, look at the candidate, go on or finish.
FetchStores ==
    /\ Answered("fetch") /\ Authorized
    /\ \E r \in sess.ask.want :
          /\ Receives(r)
          /\ client' = [stored |-> client.stored \cup {r},
                        review |-> client.review \/ Conflict(visible' \cup committed)]
    /\ live' = live - 1
    /\ IF Remaining(client') = {}
       THEN /\ sess' = None
            /\ IF Conflict(visible' \cup committed) THEN Fails("fetch") ELSE Settles("fetch", None)
       ELSE /\ SessionStarts(Get(NextRecord(client'), selected.snap))
            /\ UNCHANGED <<job, scan, last, proposal, resume>>
    /\ UNCHANGED <<offer, link, stray, chan, selected, files>>

FetchUnknown ==
    /\ Answered("fetch") /\ Authorized
    /\ \E r \in sess.ask.want : ReceiveUnknown(r)
    /\ sess' = None /\ live' = live - 1
    /\ Fails("fetch")
    /\ UNCHANGED <<offer, link, stray, chan, selected, client, files>>

-----------------------------------------------------------------------------
(* Kills, power loss, restart.                                               *)

Reset ==
    /\ chan' = None /\ job' = None /\ scan' = None /\ last' = None /\ proposal' = None
    /\ selected' = None /\ client' = None /\ resume' = FALSE
    /\ link' = None /\ sess' = None /\ live' = 0 /\ stray' = 0
    /\ UNCHANGED offer

Receiving ==
    (IF link # None /\ link.guard \in Catalog THEN {link.want} ELSE {})
    \cup (IF job # None /\ Answered("fetch") THEN sess.ask.want ELSE {})

Kill ==
    /\ box # "closed"
    /\ Reset
    /\ \/ CloseBox /\ UNCHANGED files
       \/ \E r \in Receiving : KilledReceiving(r) /\ UNCHANGED files
       \/ /\ Acceptable /\ proposal.plan # None /\ Persistable(proposal.plan)
          /\ files' \in Interrupted(proposal.plan)
          /\ CloseBox

\* What was not synced may be gone; what is left then stays.
Survivors(f) ==
    CASE f.state = "synced" -> {{f}}
      [] f.state = "torn" -> {{}, {f}}
      [] f.state = "written" -> {{}, {[f EXCEPT !.state = "torn"]}, {[f EXCEPT !.state = "synced"]}}

PowerFails ==
    /\ box = "closed"
    /\ PowerLoss
    /\ \E kept \in [files -> SUBSET {File(f.plan, f.kind, s) : f \in files, s \in {"torn", "synced"}}] :
          /\ \A f \in files : kept[f] \in Survivors(f)
          /\ files' = UNION {kept[f] : f \in files}
    /\ UNCHANGED <<peerVars, chan, job, scan, last, proposal, selected, client, resume>>

Restart == OpenBox /\ UNCHANGED <<peerVars, ownerVars>>

-----------------------------------------------------------------------------
Plans == {f.plan : f \in files}

Elsewhere ==
    /\ \/ \E r \in Own : Write(r) /\ UNCHANGED peerVars
       \/ AuthorityChanges /\ UNCHANGED peerVars
       \/ (PeerChanges \/ Server_write \/ Server_drop) /\ UNCHANGED boxVars
       \/ \E r \in Transfers : Server_read(r) /\ UNCHANGED boxVars
       \/ TransferOne
       \/ (SessionServed \/ SessionAnswered \/ SessionAborts) /\ UNCHANGED boxVars
    /\ UNCHANGED ownerVars

Next ==
    \/ \E mode \in {"read", "fetch"} : Attach(mode)
    \/ \E to \in {None, "gone"} : Detach(to)
    \/ \E op \in Operations : StartFails(op) \/ Observe(op)
    \/ \E p \in Plans : Resume(p)
    \/ Cancel \/ CloseChannel
    \/ ProposeNothing \/ ProposeStarts \/ ProposeContinues
    \/ Accept \/ AcceptFails \/ AcceptUnreconciled \/ FetchStarts \/ FetchStores \/ FetchUnknown
    \/ SessionOpens \/ OpenFails \/ SessionLost \/ JobFails
    \/ Kill \/ PowerFails \/ Restart \/ Elsewhere

Spec == Init /\ [][Next]_vars

-----------------------------------------------------------------------------
\* A record the client reports as stored is in the inbox with its name synced, and
\* an accepted plan that needs no resume is on disk with its receipt: what the
\* owner's progress says survives a power loss (client.py _reconcile, owner.py
\* _persist), whatever was interrupted before.
AcknowledgedDurable ==
    /\ client # None => client.stored \subseteq durable
    /\ selected # None /\ ~resume =>
          \A k \in {"plan", "receipt"} : File(selected, k, "synced") \in files

\* A proposal that may still be accepted names exactly the records its targets miss
\* in the local view it was made for, all of them offered together in one
\* catalogue of the peer that was not in conflict (dependencies.py build, accept),
\* although it was put together from several connections.
ProposalSound ==
    proposal # None /\ Guarded /\ proposal.local = LocalView =>
        IF proposal.plan = None THEN MissingInner \cup MissingPrev = {}
        ELSE /\ MissingInner \cup MissingPrev \subseteq proposal.plan.recs
             /\ proposal.plan.recs \subseteq MissingInner \cup MissingPrev
             /\ proposal.plan.recs \subseteq proposal.plan.snap
             /\ ~Conflict(proposal.plan.snap)

\* No stream outlives the job that opened it: when a new channel can be attached or a
\* new job started, every session was closed, the ones that arrived after a
\* cancellation included (_open of client.py and dependencies.py), except those that
\* arrived for a planner that was interrupted twice.  And a job has one at a time.
SessionsReaped ==
    /\ job = None => live = stray
    /\ live <= stray + 1
=============================================================================

---------------------------- MODULE FetchProofs ----------------------------
(***************************************************************************)
(* Proofs about the owner of fetch commands: for any records, catalogues and *)
(* page size, a job leaves no stream it could close, what the owner reports   *)
(* as stored is durable, and a proposal is exact for the view it was made     *)
(* for.  The inductive invariant FetchInv has one part for each.              *)
(***************************************************************************)
EXTENDS FetchOwner, TLAPS, FiniteSetTheorems

USE ZenonT(60)

-----------------------------------------------------------------------------
(* The inductive invariant.                                                  *)

\* A job that awaits holds one session, whose stream is open once it was opened;
\* no job, no session and no stream but those a twice interrupted planner lost.
Phases == {"opening", "asked", "served", "closing"}
Tokens == {None} \cup SUBSET Record
IsSession(s) == s \in [at : Phases, ask : {s.ask}, token : Tokens]
Streaming(s) ==
    /\ IsSession(s)
    /\ live = (IF s.at = "opening" THEN stray ELSE stray + 1)
    /\ s.token # None => ~Conflict(s.token)
StreamInv ==
    /\ stray \in Nat
    /\ job = None \/ job \in Jobs
    /\ job = None => sess = None /\ live = stray
    /\ job # None => Streaming(sess)

\* What the client counts as stored is durable, while a job uses it too, and the
\* files of a selected plan are synced unless a resume is asked for.
Fetching == job # None /\ job.op = "fetch"
Kept(p, fs) == \A k \in {"plan", "receipt"} : File(p, k, "synced") \in fs
StoredInv ==
    /\ durable \subseteq visible
    /\ client # None \/ Fetching => client.stored \subseteq durable
PlanInv ==
    /\ resume \in BOOLEAN
    /\ selected # None /\ ~resume => Kept(selected, files)
    /\ Fetching => ~resume

\* What a walk from the targets misses when H is held, whatever is held now.
WalkIn(H, r) ==
    {e \in Record : \A S \in SUBSET Record :
        Deps[r] \subseteq S /\ (\A d \in S \cap H : Deps[d] \subseteq S) => e \in S}
InnerIn(H) == UNION {WalkIn(H, u) \ H : u \in Target}
PrevIn(H) == UNION {IF Prev[u] = None THEN {} ELSE {Prev[u]} \ (WalkIn(H, u) \cup H) : u \in Target}
HeldIn(view) == view[1] \cup view[2]

\* The planner has every record its targets miss among those it still asks for and
\* those it has; what it has was offered together, without a conflict.
ScanPhases == {"need", "have", "final"}
IsScan(s) ==
    s \in [local : {s.local}, need : SUBSET Record, prev : {s.prev}, seen : SUBSET Record,
           snap : Tokens, recs : SUBSET Record, phase : ScanPhases]
ScanSound(s) ==
    /\ IsScan(s)
    /\ s.need \subseteq InnerIn(HeldIn(s.local))
    /\ InnerIn(HeldIn(s.local)) \subseteq s.need \cup s.recs
    /\ s.prev = PrevIn(HeldIn(s.local))
    /\ s.recs \subseteq InnerIn(HeldIn(s.local)) \cup s.prev
    /\ s.snap = None => s.recs = {} /\ s.phase # "final"
    /\ s.snap # None => ~Conflict(s.snap) /\ s.recs \subseteq s.snap
    /\ s.phase # "need" => s.need = {}
    /\ s.phase = "final" => s.prev \subseteq s.recs

\* A proposal is exact for the view it names.
Exact(p) ==
    LET missing == InnerIn(HeldIn(p.local)) \cup PrevIn(HeldIn(p.local)) IN
    \/ p.plan = None /\ missing = {}
    \/ /\ p.plan \in PlanShapes
       /\ p.plan.recs = missing
       /\ p.plan.recs \subseteq p.plan.snap
       /\ ~Conflict(p.plan.snap)
ProposalInv ==
    /\ job # None /\ job.op = "propose" => ScanSound(scan)
    /\ proposal # None => Exact(proposal)

FetchInv == StreamInv /\ StoredInv /\ PlanInv /\ ProposalInv

-----------------------------------------------------------------------------
(* Streams.                                                                  *)

\* The end of a job, by either way out of _run.
LEMMA JobEnds ==
    ASSUME NEW op, NEW p, Settles(op, p) \/ Fails(op)
    PROVE  job' = None /\ scan' = None
BY DEF Settles, Succeeds, Fails

\* A cancelled job is the same job.
LEMMA CancelledJob ==
    ASSUME NEW j \in Jobs
    PROVE  /\ [j EXCEPT !.cancel = TRUE] \in Jobs
           /\ [j EXCEPT !.cancel = TRUE].op = j.op
BY DEF Jobs

\* A step that leaves the job's stream alone.
LEMMA StreamStays ==
    ASSUME StreamInv, UNCHANGED <<job, sess, live, stray>>
    PROVE  StreamInv'
BY DEF StreamInv, Streaming

\* A step after which no job, no session and no stream to close is left.
LEMMA StreamGone ==
    ASSUME job' = None, sess' = None, live' = stray', stray' \in Nat
    PROVE  StreamInv'
BY DEF StreamInv

\* What a step of a session changes in its record.
LEMMA SessionMoves ==
    ASSUME NEW s, NEW at \in Phases, IsSession(s)
    PROVE  /\ IsSession([s EXCEPT !.at = at])
           /\ [s EXCEPT !.at = at].at = at
           /\ [s EXCEPT !.at = at].token = s.token
BY DEF IsSession
LEMMA SessionTokens ==
    ASSUME NEW s, NEW at \in Phases, NEW token \in Tokens, IsSession(s)
    PROVE  /\ IsSession([s EXCEPT !.at = at, !.token = token])
           /\ [s EXCEPT !.at = at, !.token = token].at = at
           /\ [s EXCEPT !.at = at, !.token = token].token = token
BY DEF IsSession

\* A session that is open and stays open.
LEMMA StreamMoves ==
    ASSUME StreamInv, sess # None, sess.at # "opening",
           job' = job, live' = live, stray' = stray, IsSession(sess'), sess'.at # "opening",
           sess'.token # None => ~Conflict(sess'.token)
    PROVE  StreamInv'
<1>1. job # None
    BY DEF StreamInv
<1>2. live = stray + 1
    BY <1>1 DEF StreamInv, Streaming
<1> QED
    BY <1>1, <1>2 DEF StreamInv, Streaming

\* A session that starts for a job: it is not open yet.
LEMMA StreamStarts ==
    ASSUME NEW ask, job' \in Jobs, SessionStarts(ask), live' = stray', stray' \in Nat
    PROVE  StreamInv'
<1>1. job' # None
    BY NothingAssumption
<1>2. sess' = [at |-> "opening", ask |-> ask, token |-> None]
    BY DEF SessionStarts
<1>3. IsSession(sess') /\ sess'.at = "opening" /\ sess'.token = None
    BY <1>2 DEF IsSession, Phases, Tokens
<1> QED
    BY <1>1, <1>3 DEF StreamInv, Streaming

\* The steps of a session that is asked, answered or aborted: ReadSession keeps its
\* stream until the job closes it.
LEMMA SessionStep ==
    ASSUME StreamInv, SessionServed \/ SessionAnswered \/ SessionAborts, job' = job
    PROVE  StreamInv'
<1>1. sess # None /\ sess.at # "opening" /\ live' = live /\ stray' = stray
    BY DEF SessionServed, SessionAnswered, SessionAborts
<1>2. job # None
    BY <1>1 DEF StreamInv
<1>3. IsSession(sess) /\ (sess.token # None => ~Conflict(sess.token))
    BY <1>2 DEF StreamInv, Streaming
<1>4. CASE SessionServed
    <2>1. PICK token \in Catalog : sess' = [sess EXCEPT !.at = "served", !.token = token]
        BY <1>4 DEF SessionServed
    <2>2. token \in SUBSET Record /\ ~Conflict(token)
        BY <2>1 DEF Catalog
    <2>3. IsSession(sess') /\ sess'.at = "served" /\ sess'.token = token
        BY <1>3, <2>1, <2>2, SessionTokens DEF Phases, Tokens
    <2> QED
        BY <1>1, <2>2, <2>3, StreamMoves
<1>5. CASE SessionAnswered
    <2>1. sess' = [sess EXCEPT !.at = "closing"]
        BY <1>5 DEF SessionAnswered
    <2>2. IsSession(sess') /\ sess'.at = "closing" /\ sess'.token = sess.token
        BY <1>3, <2>1, SessionMoves DEF Phases
    <2> QED
        BY <1>1, <1>3, <2>2, StreamMoves
<1>6. CASE SessionAborts
    <2>1. sess' = [sess EXCEPT !.at = "closing", !.token = None]
        BY <1>6 DEF SessionAborts
    <2>2. IsSession(sess') /\ sess'.at = "closing" /\ sess'.token = None
        BY <1>3, <2>1, SessionTokens DEF Phases, Tokens
    <2> QED
        BY <1>1, <2>2, StreamMoves
<1> QED
    BY <1>4, <1>5, <1>6

\* Opening a session, whether it is used or reaped (_open).
LEMMA OpenStep ==
    ASSUME StreamInv, SessionOpens
    PROVE  StreamInv'
<1>1. PICK at \in {"asked", "closing"} : sess' = [sess EXCEPT !.at = at]
    <2>1. CASE MayAsk
        BY <2>1 DEF SessionOpens
    <2>2. CASE ~MayAsk
        BY <2>2 DEF SessionOpens
    <2> QED
        BY <2>1, <2>2
<1>2. sess # None /\ sess.at = "opening" /\ live' = live + 1 /\ stray' = stray /\ job' = job
    BY DEF SessionOpens, ownerVars
<1>3. job # None
    BY <1>2 DEF StreamInv
<1>4. job \in Jobs /\ Streaming(sess)
    BY <1>3 DEF StreamInv
<1>5. IsSession(sess') /\ sess'.at = at /\ sess'.token = sess.token
    <2>1. at \in Phases /\ IsSession(sess)
        BY <1>4 DEF Phases, Streaming
    <2> QED
        BY <1>1, <2>1, SessionMoves
<1>6. live' = stray' + 1 /\ stray' \in Nat
    BY <1>2, <1>4 DEF StreamInv, Streaming
<1>7. at # "opening"
    OBVIOUS
<1> QED
    BY <1>2, <1>3, <1>4, <1>5, <1>6, <1>7 DEF StreamInv, Streaming

\* A job whose session is closing: its stream is the only one left to close.
LEMMA Closing ==
    ASSUME StreamInv, sess # None, sess.at = "closing"
    PROVE  job # None /\ job \in Jobs /\ live - 1 = stray /\ stray \in Nat /\ (sess.token # None => ~Conflict(sess.token))
<1>1. job # None
    BY DEF StreamInv
<1>2. live = stray + 1 /\ stray \in Nat
    BY <1>1 DEF StreamInv, Streaming
<1>3. live - 1 = stray
    BY <1>2, SMTT(60)
<1> QED
    BY <1>1, <1>2, <1>3 DEF StreamInv, Streaming

\* Every step keeps the streams with their jobs.
LEMMA StreamStep ==
    ASSUME StreamInv, [Next]_vars
    PROVE  StreamInv'
<1>1. ASSUME NEW mode \in {"read", "fetch"}, Attach(mode) PROVE StreamInv'
    BY <1>1, StreamStays DEF Attach, peerVars
<1>2. ASSUME NEW to \in {None, "gone"}, Detach(to) PROVE StreamInv'
    <2>1. UNCHANGED <<sess, live, stray>>
        BY <1>2 DEF Detach, peerVars
    <2>2. CASE job = None
        <3>1. job' = None
            BY <1>2, <2>2 DEF Detach
        <3> QED
            BY <2>1, <2>2, <3>1, StreamStays
    <2>3. CASE job # None
        <3>1. job' = [job EXCEPT !.cancel = TRUE] /\ job \in Jobs
            BY <1>2, <2>3 DEF Detach, StreamInv
        <3>2. job' \in Jobs
            BY <3>1, CancelledJob
        <3> QED
            BY <2>1, <2>3, <3>2, NothingAssumption DEF StreamInv, Streaming
    <2> QED
        BY <2>2, <2>3
<1>3. ASSUME NEW op \in Operations, StartFails(op) \/ Observe(op) PROVE StreamInv'
    <2>1. job = None /\ UNCHANGED <<sess, live, stray>>
        BY <1>3 DEF StartFails, Observe, Starting, peerVars
    <2>2. job' = None
        BY <1>3, JobEnds DEF StartFails, Observe
    <2> QED
        BY <2>1, <2>2, StreamStays
<1>4. ASSUME NEW p \in Plans, Resume(p) PROVE StreamInv'
    <2>1. job = None /\ UNCHANGED <<sess, live, stray>>
        BY <1>4 DEF Resume, Starting, peerVars
    <2>2. job' = None
        BY <1>4, JobEnds DEF Resume
    <2> QED
        BY <2>1, <2>2, StreamStays
<1>5. CASE Cancel
    <2>1. job' = [job EXCEPT !.cancel = TRUE] /\ job # None /\ job \in Jobs
        BY <1>5 DEF Cancel, StreamInv
    <2>2. job' \in Jobs
        BY <2>1, CancelledJob
    <2>3. UNCHANGED <<sess, live, stray>>
        BY <1>5 DEF Cancel, peerVars
    <2> QED
        BY <2>1, <2>2, <2>3, NothingAssumption DEF StreamInv, Streaming
<1>6. CASE CloseChannel
    BY <1>6, StreamStays DEF CloseChannel, peerVars
<1>7. CASE ProposeNothing \/ Accept \/ AcceptFails \/ AcceptUnreconciled
    <2>1. job = None /\ UNCHANGED <<sess, live, stray>>
        BY <1>7 DEF ProposeNothing, Accept, AcceptFails, AcceptUnreconciled, Acceptable, Starting, peerVars
    <2>2. job' = None
        BY <1>7, JobEnds DEF ProposeNothing, Accept, AcceptFails, AcceptUnreconciled
    <2> QED
        BY <2>1, <2>2, StreamStays
<1>8. CASE ProposeStarts
    <2>1. job = None /\ SessionStarts(Question(scan')) /\ live' = live /\ stray' = stray
        BY <1>8 DEF ProposeStarts, Starting
    <2>2. job' \in Jobs
        <3>1. job' = [op |-> "propose", cancel |-> FALSE]
            BY <1>8 DEF ProposeStarts
        <3> QED
            BY <3>1, Zenon DEF Jobs
    <2>3. live' = stray' /\ stray' \in Nat
        BY <2>1 DEF StreamInv
    <2> QED
        BY <2>1, <2>2, <2>3, StreamStarts
<1>9. CASE ProposeContinues
    <2>1. sess # None /\ sess.at = "closing" /\ live' = live - 1 /\ stray' = stray
        BY <1>9 DEF ProposeContinues, Answered
    <2>2. job # None /\ job \in Jobs /\ live' = stray' /\ stray' \in Nat
        BY <2>1, Closing
    <2>3. CASE scan.phase = "final"
        <3>1. sess' = None /\ job' = None
            BY <1>9, <2>3, JobEnds DEF ProposeContinues
        <3> QED
            BY <2>2, <3>1, StreamGone
    <2>4. CASE scan.phase # "final"
        <3>1. SessionStarts(Question(scan')) /\ job' = job
            BY <1>9, <2>4 DEF ProposeContinues
        <3> QED
            BY <2>2, <3>1, StreamStarts
    <2> QED
        BY <2>3, <2>4
<1>10. CASE FetchStarts
    <2>1. job = None /\ live' = live /\ stray' = stray
        BY <1>10 DEF FetchStarts, Starting
    <2>2. sess = None /\ live' = stray' /\ stray' \in Nat
        BY <2>1 DEF StreamInv
    <2>3. CASE Remaining(client') = {}
        <3>1. sess' = sess /\ job' = None
            BY <1>10, <2>3, JobEnds DEF FetchStarts
        <3> QED
            BY <2>2, <3>1, StreamGone
    <2>4. CASE Remaining(client') # {}
        <3>1. /\ SessionStarts(Get(NextRecord(client'), selected.snap))
              /\ job' = [op |-> "fetch", cancel |-> FALSE]
            BY <1>10, <2>4 DEF FetchStarts
        <3>2. job' \in Jobs
            BY <3>1, Zenon DEF Jobs
        <3> QED
            BY <2>2, <3>1, <3>2, StreamStarts
    <2> QED
        BY <2>3, <2>4
<1>11. CASE FetchStores
    <2>1. sess # None /\ sess.at = "closing" /\ live' = live - 1 /\ stray' = stray
        BY <1>11 DEF FetchStores, Answered
    <2>2. job # None /\ job \in Jobs /\ live' = stray' /\ stray' \in Nat
        BY <2>1, Closing
    <2>3. CASE Remaining(client') = {}
        <3>1. sess' = None
            BY <1>11, <2>3 DEF FetchStores
        <3>2. Settles("fetch", None) \/ Fails("fetch")
            BY <1>11, <2>3 DEF FetchStores
        <3> QED
            BY <2>2, <3>1, <3>2, JobEnds, StreamGone
    <2>4. CASE Remaining(client') # {}
        <3>1. SessionStarts(Get(NextRecord(client'), selected.snap)) /\ job' = job
            BY <1>11, <2>4 DEF FetchStores
        <3> QED
            BY <2>2, <3>1, StreamStarts
    <2> QED
        BY <2>3, <2>4
<1>12. CASE FetchUnknown \/ JobFails
    <2>1. sess # None /\ sess.at = "closing" /\ live' = live - 1 /\ stray' = stray /\ sess' = None
        BY <1>12 DEF FetchUnknown, JobFails, Answered
    <2>2. live' = stray' /\ stray' \in Nat
        BY <2>1, Closing
    <2>3. job' = None
        BY <1>12 DEF FetchUnknown, JobFails, Fails
    <2> QED
        BY <2>1, <2>2, <2>3, StreamGone
<1>13. CASE SessionOpens
    BY <1>13, OpenStep
<1>14. CASE OpenFails
    <2>1. sess # None /\ sess.at = "opening" /\ sess' = None /\ live' = live /\ stray' = stray /\ job' = None
        BY <1>14 DEF OpenFails, Fails
    <2>2. live = stray /\ stray \in Nat
        BY <2>1 DEF StreamInv, Streaming
    <2> QED
        BY <2>1, <2>2, StreamGone
<1>15. CASE Kill
    BY <1>15, StreamGone, SMTT(60) DEF Kill, Reset
<1>16. CASE PowerFails \/ Restart
    <2>1. UNCHANGED <<job, sess, live, stray>>
        <3>1. CASE PowerFails
            BY <3>1 DEF PowerFails, peerVars
        <3>2. CASE Restart
            BY <3>2 DEF Restart, peerVars, ownerVars
        <3> QED
            BY <1>16, <3>1, <3>2
    <2> QED
        BY <2>1, StreamStays
<1>17. CASE Elsewhere
    <2>1. job' = job
        BY <1>17 DEF Elsewhere, ownerVars
    <2>2. UNCHANGED <<sess, live, stray>> \/ SessionServed \/ SessionAnswered \/ SessionAborts
        BY <1>17 DEF Elsewhere, peerVars, PeerChanges, Server_write, Server_drop, Server_read, TransferOne
    <2> QED
        BY <2>1, <2>2, StreamStays, SessionStep
<1>18. CASE SessionLost
    <2>1. sess # None /\ sess.at = "opening" /\ sess' = None /\ job' = None
        BY <1>18 DEF SessionLost, Fails
    <2>2. live' = live + 1 /\ stray' = stray + 1
        BY <1>18 DEF SessionLost
    <2>3. live = stray /\ stray \in Nat
        BY <2>1 DEF StreamInv, Streaming
    <2>4. live' = stray' /\ stray' \in Nat
        BY <2>2, <2>3, SMTT(60)
    <2> QED
        BY <2>1, <2>4, StreamGone
<1>19. CASE UNCHANGED vars
    BY <1>19, StreamStays DEF vars, peerVars, ownerVars
<1> QED
    BY <1>1, <1>2, <1>3, <1>4, <1>5, <1>6, <1>7, <1>8, <1>9, <1>10, <1>11, <1>12,
       <1>13, <1>14, <1>15, <1>16, <1>17, <1>18, <1>19 DEF Next

-----------------------------------------------------------------------------
(* What is stored.                                                           *)

\* No step of the inbox or of the store takes a durable name away, and a durable name
\* is visible.
LEMMA DurableGrows ==
    ASSUME durable \subseteq visible,
           \/ \E r : Published(r) \/ Receives(r) \/ ReceiveUnknown(r) \/ KilledReceiving(r) \/ Write(r)
           \/ CloseBox \/ PowerLoss \/ OpenBox \/ AuthorityChanges \/ UNCHANGED <<visible, durable>>
    PROVE  durable \subseteq durable' /\ durable' \subseteq visible'
<1>1. ASSUME NEW r, Published(r) PROVE durable \subseteq durable' /\ durable' \subseteq visible'
    BY <1>1 DEF Published
<1>2. ASSUME NEW r, Receives(r) PROVE durable \subseteq durable' /\ durable' \subseteq visible'
    BY <1>1, <1>2 DEF Receives
<1>3. ASSUME NEW r, ReceiveUnknown(r) PROVE durable \subseteq durable' /\ durable' \subseteq visible'
    BY <1>3 DEF ReceiveUnknown
<1>4. ASSUME NEW r, KilledReceiving(r) PROVE durable \subseteq durable' /\ durable' \subseteq visible'
    BY <1>4 DEF KilledReceiving
<1>5. ASSUME NEW r, Write(r) PROVE durable \subseteq durable' /\ durable' \subseteq visible'
    BY <1>5 DEF Write
<1>6. CASE PowerLoss
    BY <1>6 DEF PowerLoss
<1>7. CASE CloseBox \/ OpenBox \/ AuthorityChanges \/ UNCHANGED <<visible, durable>>
    BY <1>7 DEF CloseBox, OpenBox, AuthorityChanges
<1> QED
    BY <1>1, <1>2, <1>3, <1>4, <1>5, <1>6, <1>7

\* A step that leaves the client alone and starts no fetch.
LEMMA StoredStays ==
    ASSUME StoredInv, client' = client, Fetching' => Fetching,
           durable \subseteq durable', durable' \subseteq visible'
    PROVE  StoredInv'
BY DEF StoredInv

\* A job that ends, or is another job, or is cancelled, starts no fetch.
LEMMA NoFetchStarts ==
    ASSUME StreamInv,
           \/ job' = job \/ job' = None \/ job' = [op |-> "propose", cancel |-> FALSE]
           \/ job # None /\ job' = [job EXCEPT !.cancel = TRUE]
    PROVE  Fetching' => Fetching
<1>1. CASE job' = job \/ job' = None
    BY <1>1 DEF Fetching
<1>2. CASE job' = [op |-> "propose", cancel |-> FALSE]
    <2>1. job'.op = "propose"
        BY <1>2
    <2> QED
        BY <2>1 DEF Fetching
<1>3. CASE job # None /\ job' = [job EXCEPT !.cancel = TRUE]
    <2>1. job \in Jobs
        BY <1>3 DEF StreamInv
    <2>2. job'.op = job.op
        BY <1>3, <2>1, CancelledJob
    <2> QED
        BY <1>3, <2>2 DEF Fetching
<1> QED
    BY <1>1, <1>2, <1>3

\* A client that was just reconciled: the records it counts were synced again.
LEMMA ReconciledStored ==
    ASSUME NEW p, durable \subseteq visible, Reconciled(p), client' = NewClient(p)
    PROVE  StoredInv'
<1>1. client'.stored = p.recs \cap visible
    BY DEF NewClient
<1>2. CASE p.recs \cap visible = {}
    BY <1>1, <1>2 DEF Reconciled, StoredInv
<1>3. CASE p.recs \cap visible # {}
    <2>1. PICK r \in p.recs \cap visible : Published(r)
        BY <1>3 DEF Reconciled
    <2>2. visible \subseteq visible' /\ durable' = visible'
        BY <2>1 DEF Published
    <2> QED
        BY <1>1, <2>2 DEF StoredInv
<1> QED
    BY <1>2, <1>3

\* Every step keeps what the client reports durable.
LEMMA StoredStep ==
    ASSUME StreamInv, StoredInv, [Next]_vars
    PROVE  StoredInv'
<1> DEFINE Quiet == UNCHANGED <<visible, durable, client>>
<1>0. durable \subseteq visible
    BY DEF StoredInv
<1>q. ASSUME Quiet,
             \/ job' = job \/ job' = None \/ job' = [op |-> "propose", cancel |-> FALSE]
             \/ job # None /\ job' = [job EXCEPT !.cancel = TRUE]
      PROVE  StoredInv'
    BY <1>0, <1>q, NoFetchStarts, StoredStays
<1>1. ASSUME NEW mode \in {"read", "fetch"}, Attach(mode) PROVE StoredInv'
    BY <1>1, <1>q DEF Attach, boxVars
<1>2. ASSUME NEW to \in {None, "gone"}, Detach(to) PROVE StoredInv'
    <2>1. Quiet /\ (job' = job \/ (job # None /\ job' = [job EXCEPT !.cancel = TRUE]))
        BY <1>2 DEF Detach, boxVars
    <2> QED
        BY <2>1, <1>q
<1>3. ASSUME NEW op \in Operations, StartFails(op) \/ Observe(op) PROVE StoredInv'
    <2>1. Quiet
        BY <1>3 DEF StartFails, Observe, boxVars
    <2>2. job' = None
        BY <1>3, JobEnds DEF StartFails, Observe
    <2> QED
        BY <2>1, <2>2, <1>q
<1>4. ASSUME NEW p \in Plans, Resume(p) PROVE StoredInv'
    BY <1>0, <1>4, ReconciledStored DEF Resume, Reopened
<1>5. CASE Cancel
    BY <1>5, <1>q DEF Cancel, boxVars
<1>6. CASE CloseChannel
    BY <1>6, <1>q DEF CloseChannel, boxVars
<1>7. CASE ProposeNothing
    <2>1. Quiet
        BY <1>7 DEF ProposeNothing, boxVars
    <2>2. job' = None
        BY <1>7, JobEnds DEF ProposeNothing
    <2> QED
        BY <2>1, <2>2, <1>q
<1>8. CASE ProposeStarts
    BY <1>8, <1>q DEF ProposeStarts, boxVars
<1>9. CASE ProposeContinues
    <2>1. Quiet
        BY <1>9 DEF ProposeContinues, boxVars
    <2>2. job' = None \/ job' = job
        BY <1>9, JobEnds DEF ProposeContinues
    <2> QED
        BY <2>1, <2>2, <1>q
<1>10. CASE FetchStarts
    BY <1>0, <1>10, ReconciledStored DEF FetchStarts
<1>11. CASE FetchStores
    <2>1. Fetching
        <3>1. job # None
            BY <1>11, Closing DEF FetchStores, Answered
        <3> QED
            BY <1>11, <3>1 DEF FetchStores, Answered, Fetching
    <2>2. client.stored \subseteq durable
        BY <2>1 DEF StoredInv
    <2>3. PICK r : /\ Receives(r)
                   /\ client' = [stored |-> client.stored \cup {r},
                                 review |-> client.review \/ Conflict(visible' \cup committed)]
        BY <1>11 DEF FetchStores
    <2>4. client'.stored = client.stored \cup {r}
        BY <2>3
    <2>5. r \in durable' /\ durable \subseteq durable' /\ durable' \subseteq visible'
        BY <1>0, <2>3 DEF Receives, Published
    <2> QED
        BY <2>2, <2>4, <2>5 DEF StoredInv
<1>12. CASE FetchUnknown
    <2>1. client' = client /\ job' = None
        BY <1>12 DEF FetchUnknown, Fails
    <2>2. PICK r : ReceiveUnknown(r)
        BY <1>12 DEF FetchUnknown
    <2> QED
        BY <1>0, <2>1, <2>2, DurableGrows, NoFetchStarts, StoredStays
<1>13. CASE SessionOpens
    BY <1>13, <1>q DEF SessionOpens, boxVars, ownerVars
<1>14. CASE OpenFails \/ SessionLost \/ JobFails
    <2>1. Quiet
        BY <1>14 DEF OpenFails, SessionLost, JobFails, boxVars
    <2>2. job' = None
        BY <1>14 DEF OpenFails, SessionLost, JobFails, Fails
    <2> QED
        BY <2>1, <2>2, <1>q
<1>15. CASE Accept
    <2>1. CASE proposal.plan = None
        <3>1. client' = None /\ UNCHANGED <<visible, durable>>
            BY <1>15, <2>1 DEF Accept, boxVars
        <3>2. job' = None
            BY <1>15, JobEnds DEF Accept
        <3> QED
            BY <1>0, <3>1, <3>2 DEF StoredInv, Fetching
    <2>2. CASE proposal.plan # None
        BY <1>0, <1>15, <2>2, ReconciledStored DEF Accept, Reopened
    <2> QED
        BY <2>1, <2>2
<1>16. CASE AcceptFails
    <2>1. client' = None /\ job' = None /\ UNCHANGED <<visible, durable>>
        BY <1>16 DEF AcceptFails, Fails, boxVars
    <2> QED
        BY <1>0, <2>1 DEF StoredInv, Fetching
<1>17. CASE Kill
    <2>1. client' = None /\ job' = None
        BY <1>17 DEF Kill, Reset
    <2>2. CloseBox \/ \E r : KilledReceiving(r)
        BY <1>17 DEF Kill
    <2>3. durable' \subseteq visible'
        BY <1>0, <2>2, DurableGrows
    <2> QED
        BY <2>1, <2>3 DEF StoredInv, Fetching
<1>18. CASE PowerFails
    <2>1. PowerLoss /\ client' = client /\ job' = job
        BY <1>18, SMTT(60) DEF PowerFails
    <2> QED
        BY <1>0, <2>1, DurableGrows, NoFetchStarts, StoredStays
<1>19. CASE Restart
    <2>1. OpenBox /\ client' = client /\ job' = job
        BY <1>19 DEF Restart, ownerVars
    <2> QED
        BY <1>0, <2>1, DurableGrows, NoFetchStarts, StoredStays
<1>20. CASE Elsewhere
    <2>1. client' = client /\ job' = job
        BY <1>20 DEF Elsewhere, ownerVars
    <2>2. \/ \E r : Write(r) \/ Receives(r)
          \/ AuthorityChanges \/ UNCHANGED <<visible, durable>>
        BY <1>20 DEF Elsewhere, TransferOne, boxVars
    <2> QED
        BY <1>0, <2>1, <2>2, DurableGrows, NoFetchStarts, StoredStays
<1>21. CASE AcceptUnreconciled
    <2>1. client'.stored = {} /\ job' = None /\ UNCHANGED <<visible, durable>>
        BY <1>21 DEF AcceptUnreconciled, Fails, boxVars
    <2> QED
        BY <1>0, <2>1 DEF StoredInv, Fetching
<1>22. CASE UNCHANGED vars
    BY <1>22, <1>q DEF vars, boxVars, ownerVars
<1> QED
    BY <1>1, <1>2, <1>3, <1>4, <1>5, <1>6, <1>7, <1>8, <1>9, <1>10, <1>11, <1>12, <1>13,
       <1>14, <1>15, <1>16, <1>17, <1>18, <1>19, <1>20, <1>21, <1>22 DEF Next

-----------------------------------------------------------------------------
(* The selected plan.                                                        *)

\* A step that selects nothing, or keeps the selection and its files and does not
\* give up asking for a resume.
LEMMA PlanStays ==
    ASSUME PlanInv, selected' = selected, files' = files,
           resume' \in BOOLEAN,
           selected # None /\ ~resume' => ~resume, Fetching' => ~resume'
    PROVE  PlanInv'
BY DEF PlanInv

\* What a job's end means for the resume flag.
LEMMA ResumeEnds ==
    ASSUME NEW op, NEW p, Settles(op, p) \/ Fails(op), PlanInv
    PROVE  /\ Fetching' => ~resume'
           /\ op \notin Changing /\ ~resume' => ~resume
           /\ Fails(op) /\ ~resume' => ~resume
BY DEF Settles, Succeeds, Fails, Fetching, PlanInv

\* A synced file survives a power loss.
LEMMA SyncedSurvives ==
    ASSUME NEW p, Kept(p, files), PowerFails
    PROVE  Kept(p, files')
<1> SUFFICES ASSUME NEW k \in {"plan", "receipt"} PROVE File(p, k, "synced") \in files'
    BY DEF Kept
<1> DEFINE f == File(p, k, "synced")
<1>1. f \in files
    BY DEF Kept
<1>2. PICK kept : kept[f] \in Survivors(f) /\ kept[f] \subseteq files'
    <2>1. PICK kept :
              /\ \A g \in files : kept[g] \in Survivors(g)
              /\ files' = UNION {kept[g] : g \in files}
        BY SMTT(60) DEF PowerFails
    <2> QED
        BY <1>1, <2>1
<1>3. f.state = "synced"
    BY DEF File
<1>4. Survivors(f) = {{f}}
    <2> HIDE DEF f
    <2> QED
        BY <1>3, SMTT(60) DEF Survivors
<1> QED
    BY <1>2, <1>4

\* A plan that _persist wrote.
LEMMA PersistedKept ==
    ASSUME NEW p
    PROVE  Kept(p, Persisted(p))
BY DEF Kept, Persisted

\* Every step keeps the files of a plan that needs no resume.
LEMMA PlanStep ==
    ASSUME StreamInv, PlanInv, [Next]_vars
    PROVE  PlanInv'
<1> DEFINE Quiet == UNCHANGED <<selected, resume, files>>
<1>q. ASSUME Quiet,
             \/ job' = job \/ job' = None \/ job' = [op |-> "propose", cancel |-> FALSE]
             \/ job # None /\ job' = [job EXCEPT !.cancel = TRUE]
      PROVE  PlanInv'
    <2>1. Fetching' => Fetching
        BY <1>q, NoFetchStarts
    <2>2. Fetching' => ~resume'
        BY <1>q, <2>1 DEF PlanInv
    <2> QED
        BY <1>q, <2>2, PlanStays DEF PlanInv
<1>e. ASSUME NEW op, UNCHANGED <<selected, files>>,
             \/ (\E p : Settles(op, p)) /\ (selected # None => op \notin Changing \/ ~resume)
             \/ Fails(op)
      PROVE  PlanInv'
    <2>1. PICK p : Settles(op, p) \/ Fails(op)
        BY <1>e
    <2>2. selected # None /\ ~resume' => ~resume
        BY <1>e, ResumeEnds
    <2>3. Fetching' => ~resume'
        BY <2>1, ResumeEnds
    <2>4. resume' \in BOOLEAN
        BY <2>1 DEF Settles, Fails, PlanInv
    <2> QED
        BY <1>e, <2>2, <2>3, <2>4, PlanStays
<1>p. ASSUME NEW op, NEW p, files' = Persisted(p), selected' = p, Settles(op, None)
      PROVE  PlanInv'
    <2>1. Fetching' => ~resume'
        BY <1>p, ResumeEnds
    <2>2. resume' \in BOOLEAN
        BY <1>p DEF Settles, Fails, PlanInv
    <2>3. Kept(selected', files')
        BY <1>p, PersistedKept
    <2> QED
        BY <2>1, <2>2, <2>3 DEF PlanInv
<1>n. ASSUME selected' = None, job' = None, resume' \in BOOLEAN
      PROVE  PlanInv'
    BY <1>n DEF PlanInv, Fetching
<1>1. ASSUME NEW mode \in {"read", "fetch"}, Attach(mode) PROVE PlanInv'
    BY <1>1, <1>q DEF Attach
<1>2. ASSUME NEW to \in {None, "gone"}, Detach(to) PROVE PlanInv'
    <2>1. Quiet /\ (job' = job \/ (job # None /\ job' = [job EXCEPT !.cancel = TRUE]))
        BY <1>2 DEF Detach
    <2> QED
        BY <2>1, <1>q
<1>3. ASSUME NEW op \in Operations, StartFails(op) \/ Observe(op) PROVE PlanInv'
    <2>1. CASE StartFails(op)
        BY <1>e, <2>1 DEF StartFails
    <2>2. CASE Observe(op)
        <3>1. op \notin Changing
            BY <2>2 DEF Observe, Changing
        <3> QED
            BY <1>e, <2>2, <3>1 DEF Observe
    <2> QED
        BY <1>3, <2>1, <2>2
<1>4. ASSUME NEW p \in Plans, Resume(p) PROVE PlanInv'
    BY <1>4, <1>p DEF Resume
<1>5. CASE Cancel
    BY <1>5, <1>q DEF Cancel
<1>6. CASE CloseChannel
    BY <1>6, <1>q DEF CloseChannel
<1>7. CASE ProposeNothing
    <2>1. "propose" \notin Changing
        BY DEF Changing
    <2> QED
        BY <1>7, <1>e, <2>1 DEF ProposeNothing
<1>8. CASE ProposeStarts
    BY <1>8, <1>q DEF ProposeStarts
<1>9. CASE ProposeContinues
    <2>1. "propose" \notin Changing
        BY DEF Changing
    <2>2. UNCHANGED <<selected, files>>
        BY <1>9 DEF ProposeContinues
    <2>3. (\E p : Settles("propose", p)) \/ (resume' = resume /\ job' = job)
        BY <1>9 DEF ProposeContinues
    <2> QED
        BY <1>e, <1>q, <2>1, <2>2, <2>3
<1>10. CASE FetchStarts
    <2>1. UNCHANGED <<selected, files>> /\ ~resume
        BY <1>10 DEF FetchStarts, Fetchable
    <2>2. Settles("fetch", None) \/ resume' = resume
        BY <1>10 DEF FetchStarts
    <2>3. CASE resume' = resume
        BY <2>1, <2>3, PlanStays DEF PlanInv
    <2>4. CASE Settles("fetch", None)
        BY <1>e, <2>1, <2>4
    <2> QED
        BY <2>2, <2>3, <2>4
<1>11. CASE FetchStores
    <2>1. ~resume
        <3>1. job # None
            BY <1>11, Closing DEF FetchStores, Answered
        <3> QED
            BY <1>11, <3>1 DEF FetchStores, Answered, Fetching, PlanInv
    <2>2. UNCHANGED <<selected, files>>
        BY <1>11 DEF FetchStores
    <2>3. Fails("fetch") \/ Settles("fetch", None) \/ (resume' = resume /\ job' = job)
        BY <1>11 DEF FetchStores
    <2> QED
        BY <1>e, <1>q, <2>1, <2>2, <2>3
<1>12. CASE FetchUnknown
    BY <1>12, <1>e DEF FetchUnknown
<1>13. CASE SessionOpens
    BY <1>13, <1>q DEF SessionOpens, ownerVars
<1>14. CASE OpenFails \/ SessionLost \/ JobFails
    BY <1>14, <1>e DEF OpenFails, SessionLost, JobFails
<1>15. CASE Accept
    <2>1. CASE proposal.plan = None
        <3>1. selected' = None
            BY <1>15, <2>1 DEF Accept
        <3>2. job' = None /\ resume' \in BOOLEAN
            BY <1>15 DEF Accept, Settles, Succeeds, Fails, PlanInv
        <3> QED
            BY <3>1, <3>2, <1>n
    <2>2. CASE proposal.plan # None
        BY <1>15, <2>2, <1>p DEF Accept
    <2> QED
        BY <2>1, <2>2
<1>16. CASE AcceptFails
    <2>1. selected' = None /\ job' = None /\ resume' \in BOOLEAN
        BY <1>16 DEF AcceptFails, Fails, PlanInv
    <2> QED
        BY <2>1, <1>n
<1>17. CASE Kill
    BY <1>17, <1>n DEF Kill, Reset
<1>18. CASE PowerFails
    <2>1. UNCHANGED <<job, selected, resume>>
        BY <1>18, SMTT(60) DEF PowerFails
    <2>2. Kept(selected, files) => Kept(selected, files')
        BY <1>18, SyncedSurvives
    <2> QED
        BY <2>1, <2>2 DEF PlanInv, Fetching
<1>19. CASE Restart
    BY <1>19, <1>q DEF Restart, ownerVars
<1>20. CASE Elsewhere
    BY <1>20, <1>q DEF Elsewhere, ownerVars
<1>21. CASE AcceptUnreconciled
    BY <1>21, <1>p DEF AcceptUnreconciled, Settles
<1>22. CASE UNCHANGED vars
    BY <1>22, <1>q DEF vars, ownerVars
<1> QED
    BY <1>1, <1>2, <1>3, <1>4, <1>5, <1>6, <1>7, <1>8, <1>9, <1>10, <1>11, <1>12, <1>13,
       <1>14, <1>15, <1>16, <1>17, <1>18, <1>19, <1>20, <1>21, <1>22 DEF Next

-----------------------------------------------------------------------------
(* Proposals.                                                                *)

\* What the targets miss is a matter of what is held.
LEMMA MissingHeld ==
    /\ MissingInner = InnerIn(HeldIn(LocalView))
    /\ MissingPrev = PrevIn(HeldIn(LocalView))
<1>1. HeldIn(LocalView) = Held
    BY DEF HeldIn, LocalView, Held
<1>2. ASSUME NEW r PROVE Walk(r) = WalkIn(Held, r)
    BY DEF Walk, WalkClosed, WalkIn
<1>3. MissingInner = InnerIn(Held)
    BY <1>2 DEF MissingInner, Missing, InnerIn
<1>4. MissingPrev = PrevIn(Held)
    BY <1>2 DEF MissingPrev, MissingPrevious, PrevIn
<1> QED
    BY <1>1, <1>3, <1>4

LEMMA InnerRecords ==
    ASSUME NEW H
    PROVE  InnerIn(H) \subseteq Record
BY DEF InnerIn, WalkIn

\* A finite set has a subset of every smaller size.
LEMMA SubsetOfSize ==
    ASSUME NEW S, IsFiniteSet(S), NEW n \in Nat, n <= Cardinality(S)
    PROVE  \E P \in SUBSET S : Cardinality(P) = n
<1>1. Cardinality(S) \in Nat /\ ExistsBijection(1 .. Cardinality(S), S)
    BY FS_CardinalityType
<1>2. PICK f : f \in Bijection(1 .. Cardinality(S), S)
    BY <1>1 DEF ExistsBijection
<1>3. /\ f \in [1 .. Cardinality(S) -> S]
      /\ \A i, j \in 1 .. Cardinality(S) : f[i] = f[j] => i = j
    BY <1>2, SMTT(60) DEF Bijection, Injection, IsInjective
<1>4. \A i \in 1 .. n : i \in 1 .. Cardinality(S)
    BY <1>1, SMTT(60)
<1> DEFINE P == {f[i] : i \in 1 .. n}
           g == [i \in 1 .. n |-> f[i]]
<1>5. P \in SUBSET S
    BY <1>3, <1>4
<1>6. g \in Bijection(1 .. n, P)
    <2>1. g \in [1 .. n -> P]
        OBVIOUS
    <2>2. \A i, j \in 1 .. n : g[i] = g[j] => i = j
        BY <1>3, <1>4
    <2>3. \A y \in P : \E i \in 1 .. n : g[i] = y
        OBVIOUS
    <2> HIDE DEF g, P
    <2> QED
        BY <2>1, <2>2, <2>3, SMTT(60) DEF Bijection, Injection, IsInjective, Surjection
<1>7. ExistsBijection(1 .. n, P)
    BY <1>6 DEF ExistsBijection
<1>8. Cardinality(P) = n
    <2> HIDE DEF P
    <2> QED
        BY <1>7, FS_CountingElements
<1> QED
    BY <1>5, <1>8

\* A page is a part of what it is a page of.
LEMMA PageWithin ==
    ASSUME NEW S, S \subseteq Record
    PROVE  Page(S) \subseteq S
<1> DEFINE n == IF Cardinality(S) < PageSize THEN Cardinality(S) ELSE PageSize
<1>1. IsFiniteSet(S)
    BY PagesAssumption, FS_Subset
<1>2. Cardinality(S) \in Nat
    BY <1>1, FS_CardinalityType
<1>3. n \in Nat /\ n <= Cardinality(S)
    BY <1>2, PagesAssumption, SMTT(60)
<1> HIDE DEF n
<1>4. \E P \in SUBSET S : Cardinality(P) = n
    BY <1>1, <1>3, SubsetOfSize
<1> QED
    BY <1>4 DEF Page, n

\* What an answer changes in the planner's locals.
ScanMoves(s, r, snap, need, recs, seen, phase) ==
    /\ IsScan(s) /\ snap \in Tokens /\ phase \in ScanPhases
    /\ need \in SUBSET Record /\ recs \in SUBSET Record /\ seen \in SUBSET Record
    /\ r = [s EXCEPT !.snap = snap, !.need = need, !.recs = recs, !.seen = seen, !.phase = phase]
LEMMA ScanMoved ==
    ASSUME NEW s, NEW r, NEW snap, NEW need, NEW recs, NEW seen, NEW phase,
           ScanMoves(s, r, snap, need, recs, seen, phase)
    PROVE  /\ IsScan(r)
           /\ r.local = s.local /\ r.prev = s.prev
           /\ r.snap = snap /\ r.need = need /\ r.recs = recs /\ r.seen = seen /\ r.phase = phase
<1>1. r \in [local : {s.local}, need : SUBSET Record, prev : {s.prev}, seen : SUBSET Record,
             snap : Tokens, recs : SUBSET Record, phase : ScanPhases]
    BY DEF IsScan, ScanMoves
<1>2. r.local = s.local /\ r.prev = s.prev
    BY <1>1
<1>3. r.snap = snap /\ r.need = need /\ r.recs = recs
    BY DEF IsScan, ScanMoves
<1>4. r.seen = seen /\ r.phase = phase
    BY DEF IsScan, ScanMoves
<1> QED
    BY <1>1, <1>2, <1>3, <1>4 DEF IsScan

\* An answer that the planner takes leaves it with what its targets miss, all of it
\* from the one catalogue.
LEMMA AbsorbedSound ==
    ASSUME NEW s, NEW token, ScanSound(s), s.phase # "final",
           token \in SUBSET Record, token # None, ~Conflict(token), Absorbable(s, token)
    PROVE  ScanSound(Absorbed(s, token))
<1> DEFINE page == IF s.phase = "need" THEN Page(s.need) ELSE Page(token \ s.seen)
           recs == IF s.phase = "need" THEN s.recs \cup page ELSE s.recs \cup (page \cap s.prev)
           need == IF s.phase = "need" THEN s.need \ page ELSE {}
           seen == IF s.phase = "have" THEN s.seen \cup page ELSE s.seen
           phase == IF need # {} THEN "need"
                    ELSE IF s.phase = "need" /\ ~(s.prev \subseteq recs) THEN "have"
                    ELSE IF s.phase = "have" /\ seen # token THEN "have" ELSE "final"
           r == Absorbed(s, token)
<1>1. r = [s EXCEPT !.snap = token, !.need = need, !.recs = recs, !.seen = seen, !.phase = phase]
    BY DEF Absorbed
<1> HIDE DEF page, recs, need, seen, phase, r
<1>2. /\ IsScan(s)
      /\ s.need \subseteq InnerIn(HeldIn(s.local))
      /\ InnerIn(HeldIn(s.local)) \subseteq s.need \cup s.recs
      /\ s.prev = PrevIn(HeldIn(s.local))
      /\ s.recs \subseteq InnerIn(HeldIn(s.local)) \cup s.prev
    BY DEF ScanSound
<1>3. s.phase \in {"need", "have"} /\ s.need \subseteq Record /\ s.seen \subseteq Record /\ s.recs \subseteq Record
    BY <1>2 DEF IsScan, ScanPhases
<1>4. s.recs \subseteq token
    BY DEF ScanSound, Absorbable
<1>5. /\ s.phase = "need" => page \subseteq s.need /\ page \subseteq token
      /\ s.phase = "have" => page \subseteq token
    <2>1. CASE s.phase = "need"
        <3>1. page = Page(s.need)
            BY <2>1 DEF page
        <3>2. page \subseteq token
            BY <2>1, <3>1 DEF Absorbable
        <3>3. page \subseteq s.need
            BY <1>3, <3>1, PageWithin
        <3> QED
            BY <2>1, <3>2, <3>3
    <2>2. CASE s.phase = "have"
        <3>1. page = Page(token \ s.seen)
            BY <2>2 DEF page
        <3>2. token \ s.seen \subseteq Record
            OBVIOUS
        <3>3. page \subseteq token \ s.seen
            BY <3>1, <3>2, PageWithin
        <3> QED
            BY <2>2, <3>3
    <2> QED
        BY <1>3, <2>1, <2>2
<1>6. /\ recs \subseteq token
      /\ recs \subseteq InnerIn(HeldIn(s.local)) \cup s.prev
      /\ need \subseteq InnerIn(HeldIn(s.local))
      /\ InnerIn(HeldIn(s.local)) \subseteq need \cup recs
      /\ need \subseteq Record /\ seen \subseteq Record
    <2>1. CASE s.phase = "need"
        <3>1. recs = s.recs \cup page /\ need = s.need \ page /\ seen = s.seen
            BY <2>1 DEF recs, need, seen
        <3> QED
            BY <1>2, <1>3, <1>4, <1>5, <2>1, <3>1
    <2>2. CASE s.phase = "have"
        <3>1. recs = s.recs \cup (page \cap s.prev) /\ need = {} /\ seen = s.seen \cup page /\ s.need = {}
            BY <2>2 DEF ScanSound, recs, need, seen
        <3> QED
            BY <1>2, <1>3, <1>4, <1>5, <2>2, <3>1
    <2> QED
        BY <1>3, <2>1, <2>2
<1>7. /\ phase \in ScanPhases
      /\ phase # "need" => need = {}
      /\ s.phase = "need" /\ phase = "final" => s.prev \subseteq recs
    BY DEF ScanPhases, phase
<1>8. /\ IsScan(r) /\ r.local = s.local /\ r.prev = s.prev
      /\ r.snap = token /\ r.need = need /\ r.recs = recs /\ r.phase = phase
    <2>1. token \in Tokens /\ recs \in SUBSET Record /\ need \in SUBSET Record /\ seen \in SUBSET Record
        BY <1>6 DEF Tokens
    <2>2. IsScan(s) /\ phase \in ScanPhases
        BY <1>2, <1>7
    <2>3. ScanMoves(s, r, token, need, recs, seen, phase)
        BY <1>1, <2>1, <2>2 DEF ScanMoves
    <2> QED
        BY <2>3, ScanMoved, SMTT(60)
<1>9. phase = "final" => s.prev \subseteq recs
    <2>1. CASE s.phase = "need"
        BY <1>7, <2>1
    <2>2. CASE s.phase = "have"
        <3>1. Absorbed(s, token).phase = phase /\ Absorbed(s, token).recs = recs
            BY <1>8 DEF r
        <3> QED
            BY <2>2, <3>1 DEF Absorbable
    <2> QED
        BY <1>3, <2>1, <2>2
<1>10. ScanSound(r)
    BY <1>2, <1>6, <1>7, <1>8, <1>9 DEF ScanSound
<1> QED
    BY <1>10 DEF r

\* A job that ends leaves no proposal, or one that is exact.
LEMMA ProposalEnds ==
    ASSUME NEW op, NEW p, Settles(op, p) \/ Fails(op), p # None => Exact(p)
    PROVE  ProposalInv'
<1>1. job' = None /\ (proposal' = None \/ (p # None /\ proposal' = p))
    BY DEF Settles, Succeeds, Fails
<1>2. CASE proposal' = None
    BY <1>1, <1>2 DEF ProposalInv
<1>3. CASE p # None /\ proposal' = p
    <2>1. Exact(proposal')
        BY <1>3
    <2> QED
        BY <1>1, <2>1 DEF ProposalInv, Exact
<1> QED
    BY <1>1, <1>2, <1>3

\* A step that leaves the planner alone.
LEMMA ProposalStays ==
    ASSUME StreamInv, ProposalInv, scan' = scan, proposal' = proposal \/ proposal' = None,
           \/ job' = job \/ job' = None
           \/ job' = [op |-> "fetch", cancel |-> FALSE]
           \/ job # None /\ job' = [job EXCEPT !.cancel = TRUE]
    PROVE  ProposalInv'
<1>1. job' # None /\ job'.op = "propose" => job # None /\ job.op = "propose"
    <2>1. CASE job' = job \/ job' = None
        BY <2>1
    <2>2. CASE job' = [op |-> "fetch", cancel |-> FALSE]
        <3>1. job'.op = "fetch"
            BY <2>2
        <3> QED
            BY <3>1
    <2>3. CASE job # None /\ job' = [job EXCEPT !.cancel = TRUE]
        <3>1. job \in Jobs
            BY <2>3 DEF StreamInv
        <3> QED
            BY <2>3, <3>1, CancelledJob
    <2> QED
        BY <2>1, <2>2, <2>3
<1>2. job' # None /\ job'.op = "propose" => ScanSound(scan')
    BY <1>1 DEF ProposalInv
<1>3. proposal' # None => Exact(proposal')
    BY DEF ProposalInv
<1> QED
    BY <1>2, <1>3 DEF ProposalInv, Exact, ScanSound, IsScan

\* The planner starts with everything its targets miss still to be asked for.
LEMMA ScanStarts ==
    ASSUME ProposeStarts
    PROVE  ScanSound(scan')
<1> DEFINE inner == InnerIn(HeldIn(LocalView))
           prev == PrevIn(HeldIn(LocalView))
           phase == IF inner = {} THEN "have" ELSE "need"
<1>1. scan' = [local |-> LocalView, need |-> inner, prev |-> prev, seen |-> {},
               snap |-> None, recs |-> {}, phase |-> phase]
    BY MissingHeld DEF ProposeStarts
<1>2. inner \subseteq Record
    BY InnerRecords
<1>3. phase \in {"have", "need"} /\ (phase = "have" => inner = {})
    OBVIOUS
<1>4. /\ scan'.local = LocalView /\ scan'.need = inner /\ scan'.prev = prev /\ scan'.seen = {}
      /\ scan'.snap = None /\ scan'.recs = {} /\ scan'.phase = phase
    BY <1>1
<1> HIDE DEF phase
<1>5. IsScan(scan')
    <2>1. inner \in SUBSET Record /\ {} \in SUBSET Record /\ None \in Tokens /\ phase \in ScanPhases
        BY <1>2, <1>3 DEF Tokens, ScanPhases
    <2>2. scan'.local = LocalView /\ scan'.prev = prev
        BY <1>4
    <2> HIDE DEF inner, prev
    <2>3. scan' \in [local : {LocalView}, need : SUBSET Record, prev : {prev}, seen : SUBSET Record,
                     snap : Tokens, recs : SUBSET Record, phase : ScanPhases]
        BY <1>1, <2>1
    <2> QED
        BY <2>2, <2>3 DEF IsScan
<1>6. /\ scan'.need \subseteq InnerIn(HeldIn(scan'.local))
      /\ InnerIn(HeldIn(scan'.local)) \subseteq scan'.need \cup scan'.recs
      /\ scan'.prev = PrevIn(HeldIn(scan'.local))
    BY <1>4
<1>7. scan'.phase # "final" /\ (scan'.phase # "need" => scan'.need = {})
    BY <1>3, <1>4
<1> QED
    BY <1>4, <1>5, <1>6, <1>7 DEF ScanSound

\* What the planner has when it is done is exact.
LEMMA FinalExact ==
    ASSUME NEW s, ScanSound(s), s.phase = "final", NEW p,
           p = [local |-> s.local, plan |-> [snap |-> s.snap, recs |-> s.recs]]
    PROVE  Exact(p)
<1>1. /\ s.need = {} /\ s.prev \subseteq s.recs /\ s.snap # None
      /\ InnerIn(HeldIn(s.local)) \subseteq s.need \cup s.recs
      /\ s.recs \subseteq InnerIn(HeldIn(s.local)) \cup s.prev
      /\ s.prev = PrevIn(HeldIn(s.local))
      /\ ~Conflict(s.snap) /\ s.recs \subseteq s.snap
    BY DEF ScanSound
<1>2. s.snap \in SUBSET Record /\ s.recs \in SUBSET Record
    BY <1>1 DEF ScanSound, IsScan, Tokens
<1>3. p.local = s.local /\ p.plan = [snap |-> s.snap, recs |-> s.recs]
    OBVIOUS
<1>4. p.plan \in PlanShapes /\ p.plan.snap = s.snap /\ p.plan.recs = s.recs
    BY <1>2, <1>3 DEF PlanShapes
<1>5. s.recs = InnerIn(HeldIn(s.local)) \cup PrevIn(HeldIn(s.local))
    BY <1>1
<1> QED
    BY <1>1, <1>3, <1>4, <1>5 DEF Exact

\* Every step keeps the planner and its proposal sound.
LEMMA ProposalStep ==
    ASSUME StreamInv, ProposalInv, [Next]_vars
    PROVE  ProposalInv'
<1>1. ASSUME NEW mode \in {"read", "fetch"}, Attach(mode) PROVE ProposalInv'
    BY <1>1, ProposalStays DEF Attach
<1>2. ASSUME NEW to \in {None, "gone"}, Detach(to) PROVE ProposalInv'
    <2>1. /\ scan' = scan /\ proposal' = None
          /\ job' = job \/ (job # None /\ job' = [job EXCEPT !.cancel = TRUE])
        BY <1>2 DEF Detach
    <2> QED
        BY <2>1, ProposalStays
<1>3. ASSUME NEW op \in Operations, StartFails(op) \/ Observe(op) PROVE ProposalInv'
    <2>1. Fails(op) \/ Settles(op, proposal)
        BY <1>3 DEF StartFails, Observe
    <2>2. proposal # None => Exact(proposal)
        BY DEF ProposalInv
    <2> QED
        BY <2>1, <2>2, ProposalEnds
<1>4. ASSUME NEW p \in Plans, Resume(p) PROVE ProposalInv'
    BY <1>4, ProposalEnds DEF Resume
<1>5. CASE Cancel
    BY <1>5, ProposalStays DEF Cancel
<1>6. CASE CloseChannel
    BY <1>6, ProposalStays DEF CloseChannel
<1>7. CASE ProposeNothing
    <2>1. PICK p : p = [local |-> LocalView, plan |-> None]
        OBVIOUS
    <2>2. Settles("propose", p)
        BY <1>7, <2>1 DEF ProposeNothing
    <2>3. InnerIn(HeldIn(LocalView)) \cup PrevIn(HeldIn(LocalView)) = {}
        BY <1>7, MissingHeld DEF ProposeNothing
    <2>4. p.local = LocalView /\ p.plan = None
        BY <2>1
    <2>5. Exact(p)
        BY <2>3, <2>4 DEF Exact
    <2> QED
        BY <2>2, <2>5, ProposalEnds
<1>8. CASE ProposeStarts
    <2>1. ScanSound(scan') /\ proposal' = None
        BY <1>8, ScanStarts DEF ProposeStarts
    <2> QED
        BY <2>1 DEF ProposalInv, ScanSound, IsScan
<1>9. CASE ProposeContinues
    <2>1. job # None /\ job.op = "propose" /\ sess.token # None /\ ~Conflict(sess.token)
        BY <1>9, Closing DEF ProposeContinues, Answered
    <2>2. ScanSound(scan)
        BY <2>1 DEF ProposalInv
    <2>3. CASE scan.phase = "final"
        <3>1. PICK p : p = [local |-> scan.local, plan |-> [snap |-> scan.snap, recs |-> scan.recs]]
            OBVIOUS
        <3>2. Settles("propose", p)
            BY <1>9, <2>3, <3>1 DEF ProposeContinues
        <3>3. Exact(p)
            BY <2>2, <2>3, <3>1, FinalExact
        <3> QED
            BY <3>2, <3>3, ProposalEnds
    <2>4. CASE scan.phase # "final"
        <3>1. scan' = Absorbed(scan, sess.token) /\ UNCHANGED <<job, proposal>>
            BY <1>9, <2>4 DEF ProposeContinues
        <3>2. sess.token \in SUBSET Record
            BY <2>1 DEF StreamInv, Streaming, IsSession, Tokens
        <3>3. Absorbable(scan, sess.token)
            BY <1>9 DEF ProposeContinues
        <3>4. ScanSound(scan')
            BY <2>1, <2>2, <2>4, <3>1, <3>2, <3>3, AbsorbedSound
        <3>5. proposal' # None => Exact(proposal')
            BY <3>1 DEF ProposalInv
        <3> QED
            BY <3>4, <3>5 DEF ProposalInv, ScanSound, IsScan, Exact
    <2> QED
        BY <2>3, <2>4
<1>10. CASE FetchStarts
    <2>1. CASE Settles("fetch", None)
        BY <2>1, ProposalEnds
    <2>2. CASE ~Settles("fetch", None)
        <3>1. job' = [op |-> "fetch", cancel |-> FALSE] /\ UNCHANGED <<scan, proposal>>
            BY <1>10, <2>2 DEF FetchStarts
        <3> QED
            BY <3>1, ProposalStays
    <2> QED
        BY <2>1, <2>2
<1>11. CASE FetchStores
    <2>1. Settles("fetch", None) \/ Fails("fetch") \/ UNCHANGED <<job, scan, proposal>>
        BY <1>11 DEF FetchStores
    <2> QED
        BY <2>1, ProposalEnds, ProposalStays
<1>12. CASE FetchUnknown
    BY <1>12, ProposalEnds DEF FetchUnknown
<1>13. CASE SessionOpens
    BY <1>13, ProposalStays DEF SessionOpens, ownerVars
<1>14. CASE OpenFails \/ SessionLost \/ JobFails
    BY <1>14, ProposalEnds DEF OpenFails, SessionLost, JobFails
<1>15. CASE Accept \/ AcceptFails \/ AcceptUnreconciled
    BY <1>15, ProposalEnds DEF Accept, AcceptFails, AcceptUnreconciled
<1>16. CASE Kill
    <2>1. job' = None /\ proposal' = None
        BY <1>16 DEF Kill, Reset
    <2> QED
        BY <2>1 DEF ProposalInv
<1>17. CASE PowerFails
    <2>1. UNCHANGED <<job, scan, proposal>>
        BY <1>17, SMTT(60) DEF PowerFails
    <2> QED
        BY <2>1, ProposalStays
<1>18. CASE Restart
    BY <1>18, ProposalStays DEF Restart, ownerVars
<1>19. CASE Elsewhere
    BY <1>19, ProposalStays DEF Elsewhere, ownerVars
<1>20. CASE UNCHANGED vars
    BY <1>20, ProposalStays DEF vars, ownerVars
<1> QED
    BY <1>1, <1>2, <1>3, <1>4, <1>5, <1>6, <1>7, <1>8, <1>9, <1>10, <1>11, <1>12, <1>13,
       <1>14, <1>15, <1>16, <1>17, <1>18, <1>19, <1>20 DEF Next

-----------------------------------------------------------------------------
(* The results.                                                              *)

\* The owner, the inbox, the peer and the planner start and stay within the
\* invariant, whatever is interrupted, cancelled, changed or lost in between.
THEOREM FetchInvariance == Spec => []FetchInv
<1>0. 0 \in Nat
    BY SMTT(60)
<1>1. Init => FetchInv
    BY <1>0 DEF Init, BoxInit, PeerInit, FetchInv, StreamInv, StoredInv, PlanInv, ProposalInv, Fetching
<1>2. FetchInv /\ [Next]_vars => FetchInv'
    BY StreamStep, StoredStep, PlanStep, ProposalStep DEF FetchInv
<1> QED
    BY <1>1, <1>2, PTL DEF Spec

\* A job leaves no stream behind that it could close, for any number of questions and
\* wherever it is cancelled: the sessions of _open are reaped one by one, and what is
\* open without a job arrived for a planner that was interrupted twice.
THEOREM SessionsAlwaysReaped == Spec => []SessionsReaped
<1>1. FetchInv => SessionsReaped
    <2> SUFFICES ASSUME FetchInv PROVE SessionsReaped
        OBVIOUS
    <2>1. job = None => live = stray
        BY DEF FetchInv, StreamInv
    <2>2. stray \in Nat /\ (live = stray \/ live = stray + 1)
        BY DEF FetchInv, StreamInv, Streaming
    <2>3. live <= stray + 1
        BY <2>2, SMTT(60)
    <2> QED
        BY <2>1, <2>3 DEF SessionsReaped
<1> QED
    BY <1>1, FetchInvariance, PTL

\* What the client reports as stored is synced, and a selected plan that needs no
\* resume is on disk with its receipt, over any kills and power losses (_reconcile,
\* _persist).
THEOREM AcknowledgedAlwaysDurable == Spec => []AcknowledgedDurable
<1>1. FetchInv => AcknowledgedDurable
    BY DEF FetchInv, StoredInv, PlanInv, Kept, AcknowledgedDurable
<1> QED
    BY <1>1, FetchInvariance, PTL

\* A proposal for the present view names exactly what the targets miss, all of it from
\* one catalogue without a conflict, for any dependency graph, any page size and any
\* change of the catalogue between two pages (build of dependencies.py).
THEOREM ProposalsAlwaysSound == Spec => []ProposalSound
<1>1. FetchInv => ProposalSound
    <2> SUFFICES ASSUME FetchInv, proposal # None, proposal.local = LocalView
                 PROVE  ProposalSound
        BY DEF ProposalSound
    <2>1. Exact(proposal)
        BY DEF FetchInv, ProposalInv
    <2> DEFINE missing == MissingInner \cup MissingPrev
    <2>2. missing = InnerIn(HeldIn(proposal.local)) \cup PrevIn(HeldIn(proposal.local))
        BY MissingHeld
    <2> HIDE DEF missing
    <2>3. CASE proposal.plan = None
        <3>1. proposal.plan \notin PlanShapes
            BY <2>3, NothingAssumption
        <3>2. missing = {}
            BY <2>1, <2>2, <3>1 DEF Exact
        <3> QED
            BY <2>3, <3>2 DEF ProposalSound, missing
    <2>4. CASE proposal.plan # None
        <3>1. /\ proposal.plan.recs = missing
              /\ proposal.plan.recs \subseteq proposal.plan.snap /\ ~Conflict(proposal.plan.snap)
            BY <2>1, <2>2, <2>4 DEF Exact
        <3>2. /\ missing \subseteq proposal.plan.recs /\ proposal.plan.recs \subseteq missing
            BY <3>1
        <3> QED
            BY <2>4, <3>1, <3>2 DEF ProposalSound, missing
    <2> QED
        BY <2>3, <2>4
<1> QED
    BY <1>1, FetchInvariance, PTL
=============================================================================

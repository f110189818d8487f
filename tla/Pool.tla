-------------------------------- MODULE Pool --------------------------------
(***************************************************************************)
(* FairConnectionPool (product/wp13/par_matrix/pool.py): requests queue per *)
(* peer, a round-robin pump starts at most one worker per peer and at most  *)
(* maxActive in all, and a worker opens a connection, runs the caller's     *)
(* operation and closes the connection.  One event loop runs everything, so *)
(* an action is the code between two awaits.  The caller's outcome and the  *)
(* ownership of the connection are independent: a deadline or a             *)
(* cancellation answers the caller at once and only notifies the worker.    *)
(***************************************************************************)
EXTENDS Naturals, Sequences, FiniteSets, SequencesExt, FiniteSetsExt

CONSTANTS
    Peers,                          \* the peers, a sequence without repetition
    Jobs, PeerOf,                   \* request identities and their peers
    Conns,                          \* connection objects the factories return
    Limits, MaxQueued, PerPeer,     \* values of max_active; max_queued, per_peer
    None

N == Len(Peers)
PeerSet == {Peers[i] : i \in DOMAIN Peers}

VARIABLES
    queue,      \* _queues: a sequence of jobs for each peer
    cursor,     \* _cursor, counted from 0
    state,      \* _Job.state; "NEW" before submit, "FACTORY" while it is awaited
    late,       \* jobs whose deadline has passed
    cancelled,  \* jobs whose cancel_event is set
    answer,     \* _Job.result: the code it was settled with, or None
    result,     \* the worker's own outcome, used if nothing was settled before
    conn,       \* _Job.connection, while the job is its owner
    open,       \* connections some factory returned and no close() has closed
    closed, failed,   \* _closed, _failed
    passed,     \* history: the peer started last, and whether that passed over a waiting one
    report,     \* what close() returned last, or None
    maxActive   \* max_active, given to the constructor

vars == <<queue, cursor, state, late, cancelled, answer, result, conn, open,
          closed, failed, passed, report, maxActive>>

Working == {"OPENING", "FACTORY", "RUNNING", "CLOSING"}
Workers(st) == {j \in Jobs : st[j] \in Working}
Retained(st) == {j \in Jobs : st[j] = "CLEANUP_FAILED"}
Active(st) == Workers(st) \cup Retained(st)
Busy(st) == {PeerOf[j] : j \in Active(st)}
Owned == {conn[j] : j \in Jobs} \ {None}
Queued(q) == FoldSet(LAMBDA p, n : n + Len(q[p]), 0, PeerSet)

Init ==
    /\ queue = [p \in PeerSet |-> <<>>]
    /\ cursor = 0
    /\ state = [j \in Jobs |-> "NEW"]
    /\ late = {} /\ cancelled = {}
    /\ answer = [j \in Jobs |-> None]
    /\ result = [j \in Jobs |-> None]
    /\ conn = [j \in Jobs |-> None]
    /\ open = {}
    /\ closed = FALSE /\ failed = FALSE
    /\ passed = [last |-> None, twice |-> FALSE]
    /\ report = None
    /\ maxActive \in Limits

-----------------------------------------------------------------------------
(* The pump, on the part of the state it reads and writes.                  *)

Eligible(s, p) == s.queue[p] # <<>> /\ p \notin Busy(s.state)
Scan(s, k) == (s.cursor + k) % N            \* the k-th index the scan visits

\* Mutant: the scan always starts at the first peer.
CursorStays(s, i) == s.cursor
CursorAfter(s, i) == (i + 1) % N

Slots(s) == Cardinality(Active(s.state))

\* One turn of the loop: start the first eligible peer's oldest job.
StartOne(s) ==
    LET steps == {k \in 0 .. (N - 1) : Eligible(s, Peers[Scan(s, k) + 1])}
    IN  IF Slots(s) >= maxActive \/ steps = {} THEN s
        ELSE LET i == Scan(s, Min(steps))
                 p == Peers[i + 1]
             IN  [queue  |-> [s.queue EXCEPT ![p] = Tail(@)],
                  cursor |-> CursorAfter(s, i),
                  state  |-> [s.state EXCEPT ![Head(s.queue[p])] = "OPENING"],
                  passed |-> [last |-> p,
                             twice |-> s.passed.last = p /\ \E q \in PeerSet \ {p} : Eligible(s, q)]]

\* _pump: at most maxActive turns, since each adds a worker.
Pump(s, stop) ==
    LET turn[n \in 0 .. maxActive] == IF n = 0 THEN s ELSE StartOne(turn[n - 1])
    IN  IF stop THEN s ELSE turn[maxActive]

\* The scheduling part of a step: the new queues and states, then the pump.
Schedule(q, st, stop) ==
    LET s == Pump([queue |-> q, cursor |-> cursor, state |-> st, passed |-> passed], stop)
    IN  /\ queue' = s.queue
        /\ cursor' = s.cursor
        /\ state' = s.state
        /\ passed' = s.passed

-----------------------------------------------------------------------------
Submit(j) ==
    /\ ~closed /\ ~failed
    /\ state[j] = "NEW"
    /\ Queued(queue) < MaxQueued
    /\ Len(queue[PeerOf[j]]) < PerPeer
    /\ Schedule([queue EXCEPT ![PeerOf[j]] = Append(@, j)],
                [state EXCEPT ![j] = "QUEUED"], FALSE)
    /\ UNCHANGED <<late, cancelled, answer, result, conn, open, closed, failed, report, maxActive>>

\* _settle: the first outcome stays.
Settle(ans, j, code) == IF ans[j] = None THEN [ans EXCEPT ![j] = code] ELSE ans

\* _stop (cancel, or the timer's _expire): a queued job leaves its queue and is
\* done; a started one is answered now and its worker only notified.
Stop(j) ==
    /\ state[j] # "NEW"
    /\ answer[j] = None
    /\ cancelled' = cancelled \cup {j}
    /\ IF state[j] = "QUEUED"
       THEN /\ answer' = Settle(answer, j, "BEFORE_START")
            /\ Schedule([queue EXCEPT ![PeerOf[j]] = SelectSeq(@, LAMBDA i : i # j)],
                        [state EXCEPT ![j] = "DONE"], closed \/ failed)
       ELSE /\ answer' = Settle(answer, j, "AFTER_START")
            /\ UNCHANGED <<queue, cursor, state, passed>>
    /\ UNCHANGED <<late, result, conn, open, closed, failed, report, maxActive>>

Cancel(j) == Stop(j)

\* Mutant: a started worker is left to find out by itself.
ExpireQueued(j) == j \in late /\ state[j] = "QUEUED" /\ Stop(j)
Expire(j) == j \in late /\ Stop(j)

\* The deadline passes; the timer callback, or the next check of a worker, is
\* what acts on it.
Tick(j) ==
    /\ state[j] # "NEW"
    /\ answer[j] = None
    /\ j \notin late
    /\ late' = late \cup {j}
    /\ UNCHANGED <<queue, cursor, state, cancelled, answer, result, conn, open,
                   closed, failed, passed, report, maxActive>>

\* A worker's own look at the clock: _expire if late, then is_set().
StopsHere(j) == j \in cancelled \cup late
NoteLate(j) ==
    /\ cancelled' = cancelled \cup ({j} \cap late)
    /\ answer' = IF j \in late THEN Settle(answer, j, "AFTER_START") ELSE answer

Poisoned == {j \in Jobs : state[j] = "QUEUED"}

\* The finally block once nothing is left to await.  kept: the connection that
\* could not be closed, or None; poison: _poison() was called in this step.
Finish(j, code, kept, poison) ==
    LET drop == IF poison THEN Poisoned ELSE {}
    IN  /\ answer' = [i \in Jobs |->
                        IF i = j THEN Settle(answer, j, IF j \in late THEN "AFTER_START" ELSE code)[j]
                        ELSE IF i \in drop THEN Settle(answer, i, "POOL_FAILED")[i]
                        ELSE answer[i]]
        /\ cancelled' = cancelled \cup drop \cup ({j} \cap late)
        /\ failed' = (failed \/ poison)
        /\ conn' = [conn EXCEPT ![j] = kept]
        /\ Schedule([p \in PeerSet |-> SelectSeq(queue[p], LAMBDA i : i \notin drop)],
                    [i \in Jobs |-> IF i = j
                                    THEN (IF kept = None THEN "DONE" ELSE "CLEANUP_FAILED")
                                    ELSE IF i \in drop THEN "DONE" ELSE state[i]],
                    closed \/ failed')

-----------------------------------------------------------------------------
(* _run. *)

\* The task's first step: skip the factory of a stopped job.
RunStart(j) ==
    /\ state[j] = "OPENING"
    /\ IF StopsHere(j)
       THEN Finish(j, "ERROR", None, FALSE)
       ELSE /\ state' = [state EXCEPT ![j] = "FACTORY"]
            /\ UNCHANGED <<queue, cursor, passed, cancelled, answer, conn, failed>>
    /\ UNCHANGED <<late, result, open, closed, report, maxActive>>

\* The factory raised, or was cancelled.
FactoryFails(j) ==
    /\ state[j] = "FACTORY"
    /\ Finish(j, "ERROR", None, FALSE)
    /\ UNCHANGED <<late, result, open, closed, report, maxActive>>

\* It returned a connection another job owns.
FactoryDuplicate(j) ==
    /\ state[j] = "FACTORY"
    /\ Owned # {}
    /\ Finish(j, "ERROR", None, TRUE)
    /\ UNCHANGED <<late, result, open, closed, report, maxActive>>

\* It returned an object without close(): nothing can be done but keep it.
FactoryInvalid(j, c) ==
    /\ state[j] = "FACTORY"
    /\ c \notin open
    /\ open' = open \cup {c}
    /\ Finish(j, "ERROR", c, TRUE)
    /\ UNCHANGED <<late, result, closed, report, maxActive>>

\* It returned a connection: run the operation, or go straight to close() when
\* the peer is wrong or the job was stopped meanwhile.
FactoryReturns(j, c, right) ==
    /\ state[j] = "FACTORY"
    /\ c \notin open
    /\ open' = open \cup {c}
    /\ conn' = [conn EXCEPT ![j] = c]
    /\ result' = [result EXCEPT ![j] = "ERROR"]
    /\ IF right THEN NoteLate(j) ELSE UNCHANGED <<cancelled, answer>>
    /\ state' = [state EXCEPT ![j] = IF right /\ ~StopsHere(j) THEN "RUNNING" ELSE "CLOSING"]
    /\ UNCHANGED <<queue, cursor, late, closed, failed, passed, report, maxActive>>

\* The operation returned, raised or was cancelled.
OperationEnds(j, code) ==
    /\ state[j] = "RUNNING"
    /\ state' = [state EXCEPT ![j] = "CLOSING"]
    /\ result' = [result EXCEPT ![j] = code]
    /\ UNCHANGED <<queue, cursor, late, cancelled, answer, conn, open, closed,
                   failed, passed, report, maxActive>>

CloseReturns(j) ==
    /\ state[j] = "CLOSING"
    /\ open' = open \ {conn[j]}
    /\ Finish(j, result[j], None, FALSE)
    /\ UNCHANGED <<late, result, closed, report, maxActive>>

\* Mutant: a failed close gives the slot back.
ForgetFailed(j) == None
KeepFailed(j) == conn[j]

CloseRaises(j) ==
    /\ state[j] = "CLOSING"
    /\ Finish(j, "CLEANUP_FAILED", KeepFailed(j), TRUE)
    /\ UNCHANGED <<late, result, open, closed, report, maxActive>>

-----------------------------------------------------------------------------
(* close(): stop every job at once, then wait for the workers for a while.  *)

ClosePool ==
    /\ ~closed
    /\ closed' = TRUE
    /\ LET stopped == {j \in Jobs : state[j] # "NEW" /\ answer[j] = None}
       IN  /\ cancelled' = cancelled \cup stopped
           /\ answer' = [j \in Jobs |->
                           IF j \notin stopped THEN answer[j]
                           ELSE IF state[j] = "QUEUED" THEN "BEFORE_START" ELSE "AFTER_START"]
           /\ state' = [j \in Jobs |-> IF state[j] = "QUEUED" THEN "DONE" ELSE state[j]]
           /\ queue' = [p \in PeerSet |-> SelectSeq(queue[p], LAMBDA j : j \notin stopped)]
    /\ UNCHANGED <<cursor, late, result, conn, open, failed, passed, report, maxActive>>

CleanupComplete == Active(state) = {}

\* The wait ends, with every worker done or with its timeout.
CloseAnswers ==
    /\ closed
    /\ report' = CleanupComplete
    /\ UNCHANGED <<queue, cursor, state, late, cancelled, answer, result, conn, open,
                   closed, failed, passed, maxActive>>

Provider(j) ==
    \/ FactoryFails(j)
    \/ FactoryDuplicate(j)
    \/ \E c \in Conns : FactoryInvalid(j, c)
    \/ \E c \in Conns, right \in BOOLEAN : FactoryReturns(j, c, right)
    \/ \E code \in {"OK", "ERROR"} : OperationEnds(j, code)
    \/ CloseReturns(j)
    \/ CloseRaises(j)

Next ==
    \/ \E j \in Jobs : Submit(j) \/ Cancel(j) \/ Expire(j) \/ Tick(j) \/ RunStart(j) \/ Provider(j)
    \/ ClosePool
    \/ CloseAnswers

Spec == Init /\ [][Next]_vars

\* The event loop runs its timers; nothing is assumed of the factories, the
\* operations or the connections.
TimerSpec == Spec /\ \A j \in Jobs : WF_vars(Tick(j)) /\ WF_vars(Expire(j))

-----------------------------------------------------------------------------
\* A connection that is open has exactly one owner, a worker past its factory or
\* a retained job, whose slot and peer stay taken: nothing leaks when the caller
\* has been answered early, when close() fails or when a factory repeats itself,
\* and there are never more workers or queued jobs than the limits admit.
ConnectionsOwned ==
    /\ open = Owned
    /\ \A i, j \in Jobs : conn[i] # None /\ conn[i] = conn[j] => i = j
    /\ \A j \in Jobs : conn[j] # None => state[j] \in {"RUNNING", "CLOSING", "CLEANUP_FAILED"}
    /\ Cardinality(Active(state)) <= maxActive /\ Queued(queue) <= MaxQueued

\* Round robin: _pump never starts a peer twice in a row while another peer that
\* has no worker waits.
NoOvertaking == ~passed.twice

\* Every accepted request is answered, whether it was queued or went straight to
\* a free worker, even if no provider ever returns.
Answered == \A j \in Jobs : state[j] # "NEW" ~> answer[j] # None
=============================================================================

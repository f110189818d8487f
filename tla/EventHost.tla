----------------------------- MODULE EventHost ------------------------------
(***************************************************************************)
(* The cooperative owner loop of the event stream (product/wp10/host.py):  *)
(* one ordinary and one cleanup request per channel, a bounded mailbox     *)
(* drained a few requests per turn, waiters woken by notification,         *)
(* heartbeat or deadline, and the ticket of an empty poll that keeps a     *)
(* publication between poll and wait from being missed.                    *)
(*                                                                         *)
(* The state of the host is the record `host'; its handlers are operators  *)
(* from host to host, applied within one turn of the loop.  The journal is *)
(* what _observe makes of it: a version (tail, chain and authority) that   *)
(* changes, also behind the host's back, or that can no longer be read.    *)
(***************************************************************************)
EXTENDS Naturals, Sequences, FiniteSets, SequencesExt

CONSTANTS Channels, None,
          MaxRequests,  \* max_requests
          Budget,       \* turn_budget
          Ids,          \* names for the _Request objects alive at once
          MaxVersion    \* bound on journal changes

VARIABLES journal,   \* [version, ok]
          host,      \* the EventHost object
          req,       \* the _Request objects, each with the state of its future
          callbacks, \* done callbacks of cancelled futures not yet run
          seen       \* the journal version read by each channel's last empty poll

vars == <<journal, host, req, callbacks, seen>>

\* No object: a request is collected once it is released and answered and
\* neither a queue nor a callback refers to it.
Free == [channel |-> None, op |-> None, ticket |-> None, released |-> TRUE, answer |-> "result"]

\* A channel without a connection.
Unused(port) == [port |-> port, ordinary |-> None, cleanup |-> None, ticket |-> None]

Init ==
    /\ journal = [version |-> 0, ok |-> TRUE]
    /\ host = [state |-> "OPEN", revision |-> 0, stamp |-> 0,
               channels |-> [c \in Channels |-> Unused("unattached")],
               queue |-> <<>>, cleanups |-> <<>>, waiters |-> {}, requests |-> 0,
               scheduled |-> FALSE, heartbeat |-> FALSE, draining |-> FALSE, left |-> 0]
    /\ req = [i \in Ids |-> Free] /\ callbacks = {}
    /\ seen = [c \in Channels |-> None]

-----------------------------------------------------------------------------
(* Handlers work on a pair [h, r] of host and requests. *)

Now == [h |-> host, r |-> req]
Collectable(s, i) ==
    s.r[i].released /\ s.r[i].answer # None /\ i \notin ToSet(s.h.queue) \cup ToSet(s.h.cleanups)
Become(s, pending) ==
    /\ host' = s.h /\ callbacks' = pending
    /\ req' = [i \in Ids |-> IF Collectable(s, i) /\ i \notin pending THEN Free ELSE s.r[i]]
Attached(s, c) == s.h.channels[c].port \notin {"unattached", "detached"}

\* _schedule
Schedule(s) == [s EXCEPT !.h.scheduled = @ \/ (s.h.state # "CLOSED" /\ ~s.h.draining)]

\* A heartbeat timer outlives a release only while some request waits.
HeartbeatAfter(s, waiting) == s.h.heartbeat /\ waiting # {}

\* The slot a released request held in its channel.
FreedKept(slot, live) == slot
Freed(slot, live) == IF slot \in live THEN None ELSE slot

\* _release of the requests ids: slots, counters and timers are returned once.
Release(s, ids) ==
    LET live == {i \in ids : ~s.r[i].released}
        waiting == s.h.waiters \ live
    IN IF live = {} THEN s
       ELSE [h |-> [s.h EXCEPT
                     !.waiters = waiting,
                     !.requests = @ - Cardinality({i \in live : s.r[i].op # "cancel"}),
                     !.heartbeat = HeartbeatAfter(s, waiting),
                     !.channels = [c \in Channels |->
                        IF Attached(s, c)
                        THEN [@[c] EXCEPT !.ordinary = Freed(@, live), !.cleanup = Freed(@, live)]
                        ELSE @[c]]],
             r |-> [i \in Ids |-> IF i \in live THEN [s.r[i] EXCEPT !.released = TRUE]
                                         ELSE s.r[i]]]

\* _finish
Finish(s, ids, answer) ==
    LET t == Release(s, ids)
    IN [t EXCEPT !.r = [i \in Ids |->
          IF i \in ids /\ t.r[i].answer = None THEN [t.r[i] EXCEPT !.answer = answer] ELSE t.r[i]]]

\* _refresh: a changed observation wakes every waiter, a failed one fails the host.
Refresh(s, j) ==
    IF ~j.ok THEN Finish([s EXCEPT !.h.state = "FAILED"], s.h.waiters, "error")
    ELSE IF j.version = s.h.stamp THEN s
    ELSE Finish([s EXCEPT !.h.revision = @ + 1, !.h.stamp = j.version], s.h.waiters, "wake")

\* _arm_heartbeat
ArmHeartbeat(s) ==
    [s EXCEPT !.h.heartbeat = @ \/ (s.h.waiters # {} /\ s.h.state = "OPEN")]

-----------------------------------------------------------------------------
(* _dispatch.  j is the journal when the turn starts, k after the storage  *)
(* call, which may run callbacks of the owner.                             *)

\* EventOwnerPort: open() once, and poll, ack (which stands for cursor too) and
\* wait while its subscription is live.
PortServes(port, op) == port = IF op = "open" THEN "new" ELSE "open"

DispatchCancel(s, i) ==
    LET c == s.r[i].channel
        t == [s EXCEPT !.h.channels[c].port = "closed", !.h.channels[c].ticket = None]
    IN IF s.h.channels[c].port = "new" THEN Finish(s, {i}, "error")
       ELSE Finish(Finish(t, {s.h.channels[c].ordinary} \ {None}, "error"), {i}, "result")

\* wait: only with the ticket of the last empty poll; installed, then observed again.
DispatchWait(s, i, k) ==
    LET c == s.r[i].channel
        ticket == s.r[i].ticket
        t == [s EXCEPT !.h.channels[c].ticket = None]
        u == Refresh([t EXCEPT !.h.waiters = @ \cup {i}], k)
    IN IF ~PortServes(s.h.channels[c].port, "wait") \/ ticket = None \/ ticket # s.h.channels[c].ticket
       THEN Finish(s, {i}, "error")
       ELSE IF ticket < s.h.revision THEN Finish(t, {i}, "wake")
       ELSE ArmHeartbeat(u)

\* The ticket of an empty poll is the one taken before the poll.
TicketAfter(before, after) == after.h.revision
TicketBefore(before, after) == before.h.revision

\* open, poll, ack and cursor; `empty' is whether a poll found nothing.
DispatchStorage(s, i, k, empty) ==
    LET c == s.r[i].channel
        op == s.r[i].op
        t == IF op = "open" THEN [s EXCEPT !.h.channels[c].port = "open"] ELSE s
        u == Refresh(t, k)
        v == IF op = "poll"
             THEN [u EXCEPT !.h.channels[c].ticket = IF empty THEN TicketBefore(t, u) ELSE None]
             ELSE u
    IN IF ~PortServes(s.h.channels[c].port, op) THEN Finish(s, {i}, "error")
       ELSE IF u.h.state = "FAILED" THEN Finish(u, {i}, "error")
       ELSE Finish(v, {i}, "result")

Dispatch(s, i, j, k, empty) ==
    LET t == Refresh(s, j)
    IN IF s.r[i].op = "cancel" THEN DispatchCancel(s, i)
       ELSE IF s.h.state = "FAILED" \/ t.h.state = "FAILED" THEN Finish(t, {i}, "error")
       ELSE IF s.r[i].op = "wait" THEN DispatchWait(t, i, k)
       ELSE DispatchStorage(t, i, k, empty)

-----------------------------------------------------------------------------
(* The loop.  A drain turn is not interrupted. *)

Idle == ~host.draining

DrainStart ==
    /\ Idle /\ host.scheduled
    /\ host' = [host EXCEPT !.scheduled = FALSE, !.draining = TRUE, !.left = Budget]
    /\ UNCHANGED <<journal, req, callbacks, seen>>

Queued == Len(host.queue) + Len(host.cleanups) > 0
First == IF host.cleanups # <<>> THEN Head(host.cleanups) ELSE Head(host.queue)
Popped ==
    LET h == [host EXCEPT !.left = @ - 1]
    IN [h |-> IF h.cleanups # <<>> THEN [h EXCEPT !.cleanups = Tail(@)] ELSE [h EXCEPT !.queue = Tail(@)],
        r |-> req]
Stale(i) == req[i].answer = "cancelled" \/ req[i].released

\* A popped request whose future was cancelled, or that was finished while queued.
DrainStale ==
    /\ host.draining /\ host.left > 0 /\ Queued /\ Stale(First)
    /\ Become(Release(Popped, {First}), callbacks)
    /\ UNCHANGED <<journal, seen>>

DrainDispatch(k, empty) ==
    /\ host.draining /\ host.left > 0 /\ Queued /\ ~Stale(First)
    /\ k.version \in {journal.version, journal.version + 1} /\ k.version <= MaxVersion
    /\ k.ok => journal.ok
    /\ req[First].op = "cancel" => k = journal
    /\ LET s == Dispatch(Popped, First, journal, k, empty)
           c == req[First].channel
       IN /\ Become(s, callbacks)
          /\ seen' = IF req[First].op = "poll" /\ empty /\ s.r[First].answer = "result"
                     THEN [seen EXCEPT ![c] = journal.version] ELSE seen
    /\ journal' = k

\* A drain turn reschedules itself while requests are queued.
ReschedulesNever == FALSE
Reschedules == Queued

DrainEnd ==
    /\ host.draining /\ (host.left = 0 \/ ~Queued)
    /\ host' = [host EXCEPT !.draining = FALSE, !.left = 0,
                            !.scheduled = @ \/ (Reschedules /\ host.state # "CLOSED")]
    /\ UNCHANGED <<journal, req, callbacks, seen>>

\* _beat
Beat ==
    /\ Idle /\ host.heartbeat
    /\ LET s == [Now EXCEPT !.h.heartbeat = FALSE]
       IN Become(IF host.state = "OPEN" /\ host.waiters # {}
                 THEN ArmHeartbeat(Refresh(s, journal)) ELSE s, callbacks)
    /\ UNCHANGED <<journal, seen>>

\* _wait_deadline: a waiter's timer lives exactly as long as the waiter.
Deadline(i) ==
    /\ Idle /\ i \in host.waiters
    /\ LET s == Refresh(Now, journal)
       IN Become(IF s.h.state = "FAILED" THEN s ELSE Finish(s, {i}, "wake"), callbacks)
    /\ UNCHANGED <<journal, seen>>

\* _cancelled, run by the loop some time after the future was cancelled.
Cancelled(i) ==
    /\ Idle /\ i \in callbacks
    /\ LET s == Release(Now, {i})
           t == IF req[i].op = "cancel" THEN [s EXCEPT !.h.cleanups = SelectSeq(@, LAMBDA x : x # i)]
                ELSE [s EXCEPT !.h.queue = SelectSeq(@, LAMBDA x : x # i)]
       IN Become(IF req[i].released THEN Now ELSE t, callbacks \ {i})
    /\ UNCHANGED <<journal, seen>>

-----------------------------------------------------------------------------
(* The owner and the clients *)

Attach(c) ==
    /\ Idle /\ host.state = "OPEN" /\ host.channels[c].port = "unattached"
    /\ host' = [host EXCEPT !.channels[c].port = "new"]
    /\ UNCHANGED <<journal, req, callbacks, seen>>

\* HOST_QUEUE_FULL: the admitted ordinary requests, waiters included.
Room == host.requests < MaxRequests

Request(i, c, op, ticket) ==
    LET s == [h |-> IF op = "cancel"
                    THEN [host EXCEPT !.channels[c].cleanup = i, !.cleanups = Append(@, i)]
                    ELSE [host EXCEPT !.channels[c].ordinary = i, !.queue = Append(@, i),
                                      !.requests = @ + 1],
              r |-> [req EXCEPT ![i] = [channel |-> c, op |-> op, ticket |-> ticket,
                                      released |-> FALSE, answer |-> None]]]
    IN /\ Idle /\ req[i] = Free /\ host.state # "CLOSED" /\ Attached(Now, c)
       /\ op # "cancel" => host.state = "OPEN" /\ host.channels[c].ordinary = None /\ Room
       /\ op = "cancel" => host.channels[c].cleanup = None
       /\ Become(Schedule(s), callbacks)
       /\ UNCHANGED <<journal, seen>>

\* The caller cancels the future it was given.
FutureCancel(i) ==
    /\ Idle /\ req[i].answer = None
    /\ req' = [req EXCEPT ![i].answer = "cancelled"]
    /\ callbacks' = callbacks \cup {i}
    /\ UNCHANGED <<journal, host, seen>>

\* The journal or the authority changes without the host being told.
Change ==
    /\ Idle /\ journal.version < MaxVersion
    /\ journal' = [journal EXCEPT !.version = @ + 1]
    /\ UNCHANGED <<host, req, callbacks, seen>>

Unreadable ==
    /\ Idle /\ journal.ok
    /\ journal' = [journal EXCEPT !.ok = FALSE]
    /\ UNCHANGED <<host, req, callbacks, seen>>

\* notify, and publish after its journal call.
Notify ==
    /\ Idle /\ host.state = "OPEN"
    /\ Become(Refresh(Now, journal), callbacks)
    /\ UNCHANGED <<journal, seen>>

\* detach of one channel, as an operator: its requests are failed and unqueued.
Detached(s, c) ==
    LET held == {s.h.channels[c].ordinary, s.h.channels[c].cleanup} \ {None}
        t == Finish(s, held, "error")
        Others(q) == SelectSeq(q, LAMBDA i : s.r[i].channel # c)
    IN [t EXCEPT !.h.queue = Others(@), !.h.cleanups = Others(@), !.h.channels[c] = Unused("detached")]

Detach(c) ==
    /\ Idle /\ Attached(Now, c)
    /\ Become(Detached(Now, c), callbacks)
    /\ UNCHANGED <<journal, seen>>

Close ==
    /\ Idle /\ host.state # "CLOSED"
    /\ LET s == FoldLeft(Detached, Now, SetToSeq({c \in Channels : Attached(Now, c)}))
       IN Become([s EXCEPT !.h.state = "CLOSED", !.h.scheduled = FALSE, !.h.heartbeat = FALSE], callbacks)
    /\ UNCHANGED <<journal, seen>>

Versions == {[version |-> v, ok |-> b] : v \in {journal.version, journal.version + 1}, b \in BOOLEAN}

Drain ==
    \/ DrainStart \/ DrainStale \/ DrainEnd
    \/ \E k \in Versions, empty \in BOOLEAN : DrainDispatch(k, empty)

Next ==
    \/ Drain \/ Beat
    \/ \E i \in Ids : Deadline(i) \/ Cancelled(i) \/ FutureCancel(i)
    \/ \E c \in Channels : Attach(c) \/ Detach(c)
    \/ \E i \in Ids, c \in Channels : \E op \in {"open", "poll", "ack", "cancel"} : Request(i, c, op, None)
    \/ \E i \in Ids, c \in Channels : \E ticket \in 0..host.revision : Request(i, c, "wait", ticket)
    \/ Change \/ Unreadable \/ Notify \/ Close

Spec == Init /\ [][Next]_vars

-----------------------------------------------------------------------------
Pending(i) == ~req[i].released

\* _requests counts exactly the ordinary requests not yet released, each of
\* which holds the one ordinary slot of its channel, and every occupied slot
\* belongs to such a request: no slot leaks and none is returned twice, whatever
\* order cancellation, wake, deadline, detach and close come in; and no more
\* than max_requests are ever admitted.
SlotsAccounted ==
    LET ordinary == {i \in Ids : Pending(i) /\ req[i].op # "cancel"}
    IN /\ host.requests = Cardinality(ordinary) /\ host.requests <= MaxRequests
       /\ \A i \in ordinary : Attached(Now, req[i].channel) /\ host.channels[req[i].channel].ordinary = i
       /\ \A i \in Ids : Pending(i) /\ req[i].op = "cancel" =>
              Attached(Now, req[i].channel) /\ host.channels[req[i].channel].cleanup = i
       /\ \A c \in Channels : \A i \in {host.channels[c].ordinary, host.channels[c].cleanup} \ {None} : Pending(i)

\* Between turns every request not yet released is queued or waiting, a queue
\* that is not empty has a drain scheduled, the heartbeat is armed exactly while
\* someone waits on an open host, and a released request has its answer.
NoneForgotten ==
    /\ \A i \in Ids :
          IF Pending(i) THEN i \in host.waiters \/ i \in ToSet(host.queue) \cup ToSet(host.cleanups)
          ELSE req[i].answer # None
    /\ (Idle /\ Queued /\ host.state # "CLOSED") => host.scheduled
    /\ Idle => (host.heartbeat <=> host.waiters # {} /\ host.state = "OPEN")

\* No lost wake-up: a request waits only while the journal the host knows is
\* the one that channel's empty poll read; a publication after that poll is
\* answered with a wake, whenever it was observed.
NoLostWake == \A i \in host.waiters : seen[req[i].channel] = host.stamp
=============================================================================

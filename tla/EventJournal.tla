---------------------------- MODULE EventJournal ----------------------------
(***************************************************************************)
(* The local durable event stream (product/wp10/events.py): publication in *)
(* two transactions (nonce reservation, then event and frontier), pull     *)
(* delivery with explicit acknowledgement, signed cursors that survive a   *)
(* restart, and the authority stamp that is compared again before every    *)
(* commit.                                                                 *)
(*                                                                         *)
(* Encryption, signatures and the MAC chains are abstracted: an event row  *)
(* is its operation, its input, its parents and the reservation of its     *)
(* nonce; a token is the record its MAC seals, so only a token that was    *)
(* issued can be presented.                                                *)
(***************************************************************************)
EXTENDS Naturals, Sequences, FiniteSets

CONSTANTS Ops, Inputs, Consumers, None,
          MaxEvents,     \* max_events
          MaxNonces,     \* the fixed 4096 reservations
          MaxConsumers,  \* max_consumers
          Window,        \* the largest poll limit used
          MaxStamp,      \* bound on authority changes and restarts
          MaxSessions    \* bound on subscriptions opened

VARIABLES events, nonces, consumers,  \* the SQLite file
          auth,                       \* the AuthorityStore: stamp and permit
          journal, known, subs, call, \* the process: state, last audit, subscriptions, call
          sessions,                   \* session identifiers drawn
          tokens, cursors,            \* delivery tokens and cursors ever issued
          receipts, delivered         \* LOCAL_EVENT_COMMITTED receipts; what polls returned

disk == <<events, nonces, consumers>>
issued == <<sessions, tokens, cursors, receipts, delivered>>
vars == <<disk, auth, journal, known, subs, call, issued>>

Permits == {"write", "read", "none"}
Events == [op : Ops, input : Inputs, parents : SUBSET Ops, nonce : 1..MaxNonces]
Rows == [position : Nat, revision : Nat]
PublishCalls == [kind : {"nonce", "event"}, op : Ops, input : Inputs,
                 parents : SUBSET Ops, tail : Nat, stamp : Nat]

ASSUME JournalBounds == {MaxEvents, MaxNonces, MaxConsumers} \subseteq Nat /\ IsFiniteSet(Consumers)
ASSUME NoRow == None \notin Rows /\ None \notin PublishCalls

Init ==
    /\ events = <<>> /\ nonces = <<>> /\ consumers = [c \in Consumers |-> None]
    /\ auth = [stamp |-> 0, permit |-> "write"]
    /\ journal = "open" /\ known = [tail |-> 0, rows |-> consumers]
    /\ subs = [c \in Consumers |-> None] /\ call = None
    /\ sessions = 0 /\ tokens = {} /\ cursors = {} /\ receipts = {}
    /\ delivered = [c \in Consumers |-> {}]

-----------------------------------------------------------------------------
(* Guards and the audit. *)

Committed == {events[n].op : n \in DOMAIN events}
Sequence(op) == CHOOSE n \in DOMAIN events : events[n].op = op
Observed == [tail |-> Len(events), rows |-> consumers]

\* _guard: the authority authorises the certificate for reading or writing.
Authorized(write) == auth.permit = "write" \/ (~write /\ auth.permit = "read")

\* _recheck: the same stamp, still authorised.
Recheck(stamp, write) == Authorized(write) /\ auth.stamp = stamp

\* _operation up to its yield: not closed, not uncertain, not reentrant, authorised.
Enter(write) == journal = "open" /\ call = None /\ Authorized(write)

\* What _audit demands of the file, given what this process saw last.
AuditEvents ==
    \A n \in DOMAIN events :
        /\ events[n] \in Events
        /\ events[n].nonce \in DOMAIN nonces /\ nonces[events[n].nonce] = events[n].op
        /\ \A p \in events[n].parents : \E m \in 1..(n - 1) : events[m].op = p
AuditRow(c) ==
    /\ consumers[c] # None => consumers[c].position \in 0..Len(events)
    /\ known.rows[c] # None => /\ consumers[c] # None
                               /\ consumers[c].position >= known.rows[c].position
                               /\ consumers[c].revision >= known.rows[c].revision
Audit ==
    /\ Len(events) <= MaxEvents /\ Len(nonces) <= MaxNonces
    /\ AuditEvents
    /\ Len(events) >= known.tail
    /\ Cardinality({c \in Consumers : consumers[c] # None}) <= MaxConsumers
    /\ \A c \in Consumers : AuditRow(c)

-----------------------------------------------------------------------------
(* The transaction around every write: the authority is compared before    *)
(* COMMIT; a failure once COMMIT was attempted leaves the outcome unknown. *)

Receive(receipt) == receipts' = receipts \cup {receipt}

\* COMMIT and the audit after it succeed.
Commits == Recheck(call.stamp, call.kind \in {"nonce", "event"})

\* A fault or AUTHORITY_CHANGED before COMMIT, and the cancel probe answering between
\* the two transactions of publish: nothing of this transaction stays.
RollBack ==
    /\ call # None /\ journal = "open"
    /\ call' = None
    /\ UNCHANGED <<disk, auth, journal, known, subs, issued>>

\* A fault at COMMIT or after it: durable or not, the journal is uncertain.
Doubt(effect) ==
    /\ call # None /\ Commits
    /\ effect \/ UNCHANGED disk
    /\ journal' = "uncertain" /\ call' = None
    /\ UNCHANGED <<auth, known, subs, issued>>

-----------------------------------------------------------------------------
(* publish *)

\* An operation already committed answers for its own input only.
Replays(op, input) == op \in Committed /\ events[Sequence(op)].input = input

\* The parents are committed events.
Present(parents) == parents \subseteq Committed

\* Both tables have room; a nonce reserved by a failed attempt is not returned.
Room == Len(events) < MaxEvents /\ Len(nonces) < MaxNonces

\* publish of a known operation.
PublishAgain(op, input) ==
    /\ Enter(TRUE) /\ Replays(op, input)
    /\ Receive([op |-> op, input |-> input, sequence |-> Sequence(op)])
    /\ UNCHANGED <<disk, auth, journal, known, subs, call, sessions, tokens, cursors, delivered>>

\* publish up to the nonce transaction (cancel() before it leaves no trace).
PublishBegin(op, input, parents) ==
    /\ Enter(TRUE) /\ op \notin Committed /\ Present(parents) /\ Room
    /\ call' = [kind |-> "nonce", op |-> op, input |-> input, parents |-> parents,
                tail |-> Len(events), stamp |-> auth.stamp]
    /\ UNCHANGED <<disk, auth, journal, known, subs, issued>>

\* reserve()
ReserveEffect ==
    /\ call.kind = "nonce"
    /\ nonces' = Append(nonces, call.op) /\ UNCHANGED <<events, consumers>>

Reserve ==
    /\ call # None /\ ReserveEffect /\ Commits
    /\ call' = [call EXCEPT !.kind = "event"]
    /\ UNCHANGED <<auth, journal, known, subs, issued>>

\* commit(): the frontier is the one read at the start, then the row and the metadata.
CommitEffect ==
    /\ call.kind = "event" /\ Len(events) = call.tail
    /\ events' = Append(events, [op |-> call.op, input |-> call.input,
                                 parents |-> call.parents, nonce |-> Len(nonces)])
    /\ UNCHANGED <<nonces, consumers>>

Commit ==
    /\ call # None /\ CommitEffect /\ Commits
    /\ call' = None
    /\ known' = Observed'
    /\ Receive([op |-> call.op, input |-> call.input, sequence |-> call.tail + 1])
    /\ UNCHANGED <<auth, journal, subs, sessions, tokens, cursors, delivered>>

\* The cancel probe raises after the commit: outcome unknown, no receipt.
ProbeFails ==
    /\ call # None /\ CommitEffect /\ Commits
    /\ call' = None /\ known' = Observed' /\ journal' = "uncertain"
    /\ UNCHANGED <<auth, subs, issued>>

-----------------------------------------------------------------------------
(* subscribe, poll, ack, cursor, cancel *)

NewSub == [session |-> sessions + 1, pending |-> None]
Open(c) ==
    /\ sessions < MaxSessions
    /\ sessions' = sessions + 1 /\ subs' = [subs EXCEPT ![c] = NewSub]

\* A cursor is accepted when the stored row is at least as far along.
Accepts(cursor) ==
    /\ consumers[cursor.consumer] # None
    /\ consumers[cursor.consumer].position >= cursor.position
    /\ consumers[cursor.consumer].revision >= cursor.revision

\* A consumer the file does not know yet.
Unregistered(c) == consumers[c] = None

\* subscribe of a registered consumer, with or without a cursor of its own.
Resume(c) ==
    /\ Enter(FALSE) /\ subs[c] = None /\ consumers[c] # None
    /\ Open(c)
    /\ UNCHANGED <<disk, auth, journal, known, call, tokens, cursors, receipts, delivered>>

SubscribeBegin(c) ==
    /\ Enter(FALSE) /\ subs[c] = None /\ Unregistered(c) /\ sessions < MaxSessions
    /\ Cardinality({d \in Consumers : consumers[d] # None}) < MaxConsumers
    /\ call' = [kind |-> "subscribe", consumer |-> c, stamp |-> auth.stamp]
    /\ UNCHANGED <<disk, auth, journal, known, subs, issued>>

SubscribeEffect ==
    /\ call.kind = "subscribe"
    /\ consumers' = [consumers EXCEPT ![call.consumer] = [position |-> 0, revision |-> 0]]
    /\ UNCHANGED <<events, nonces>>

Subscribe ==
    /\ call # None /\ SubscribeEffect /\ Commits
    /\ Open(call.consumer)
    /\ call' = None /\ known' = Observed'
    /\ UNCHANGED <<auth, journal, tokens, cursors, receipts, delivered>>

\* poll with no batch outstanding: up to limit events after the stored position.
Poll(c, limit) ==
    /\ Enter(FALSE) /\ subs[c] # None /\ subs[c].pending = None
    /\ LET row == consumers[c]
           upto == IF row.position + limit > Len(events) THEN Len(events)
                   ELSE row.position + limit
           token == [consumer |-> c, session |-> subs[c].session, position |-> row.position,
                     revision |-> row.revision, upto |-> upto, stamp |-> auth.stamp]
       IN /\ upto > row.position
          /\ subs' = [subs EXCEPT ![c].pending = token]
          /\ tokens' = tokens \cup {token}
          /\ delivered' = [delivered EXCEPT ![c] = @ \cup (row.position + 1)..upto]
    /\ UNCHANGED <<disk, auth, journal, known, call, sessions, cursors, receipts>>

\* The token is of this subscription and is the outstanding batch.
AckAdmits(c, token) ==
    /\ token.consumer = c /\ token.session = subs[c].session
    /\ token = subs[c].pending
    /\ consumers[c].position = token.position /\ consumers[c].revision = token.revision

AckBegin(c, token) ==
    /\ Enter(FALSE) /\ subs[c] # None /\ AckAdmits(c, token)
    /\ Recheck(token.stamp, FALSE)
    /\ call' = [kind |-> "ack", token |-> token, stamp |-> auth.stamp]
    /\ UNCHANGED <<disk, auth, journal, known, subs, issued>>

\* The last event of the acknowledged batch.
UptoTail(token) == Len(events)
Upto(token) == token.upto

AckedRow == [position |-> Upto(call.token), revision |-> consumers[call.token.consumer].revision + 1]

AckEffect ==
    /\ call.kind = "ack"
    /\ consumers' = [consumers EXCEPT ![call.token.consumer] = AckedRow]
    /\ UNCHANGED <<events, nonces>>

\* The batch is no longer outstanding.  Presenting its token again returns the
\* same cursor (_last) and changes nothing.
Settled(c) == [subs EXCEPT ![c].pending = None]

\* The cursor token returned for a stored row.
CursorOf(c, row) == [consumer |-> c, position |-> row.position, revision |-> row.revision]

Ack ==
    /\ call # None /\ AckEffect /\ Commits
    /\ cursors' = cursors \cup {CursorOf(call.token.consumer, AckedRow)}
    /\ subs' = Settled(call.token.consumer)
    /\ call' = None /\ known' = Observed'
    /\ UNCHANGED <<auth, journal, sessions, tokens, receipts, delivered>>

Cursor(c) ==
    /\ Enter(FALSE) /\ subs[c] # None
    /\ cursors' = cursors \cup {CursorOf(c, consumers[c])}
    /\ UNCHANGED <<disk, auth, journal, known, subs, call, sessions, tokens, receipts, delivered>>

\* Subscription.cancel: also when the journal is uncertain, never inside a call.
Cancel(c) ==
    /\ journal # "closed" /\ call = None /\ subs[c] # None
    /\ subs' = [subs EXCEPT ![c] = None]
    /\ UNCHANGED <<disk, auth, journal, known, call, issued>>

-----------------------------------------------------------------------------
(* The owner *)

Drop ==
    /\ journal # "closed"
    /\ journal' = "closed" /\ subs' = [c \in Consumers |-> None]

Close ==
    /\ call = None /\ Drop
    /\ UNCHANGED <<disk, auth, known, call, issued>>

\* The process dies, at worst between COMMIT and the reply.
Crash(effect) ==
    /\ auth.stamp < MaxStamp
    /\ Drop /\ call' = None
    /\ effect \/ UNCHANGED disk
    /\ auth' = [auth EXCEPT !.stamp = @ + 1]  \* reopening the store raises the fencing token
    /\ UNCHANGED <<known, issued>>

\* EventJournal.open: nothing remembered; audit, then the read guard.
Reopen ==
    /\ journal = "closed" /\ Authorized(FALSE)
    /\ journal' = "open" /\ known' = Observed
    /\ UNCHANGED <<disk, auth, subs, call, issued>>

\* A callback of the embedding owner changes the authority, also inside a call.
ChangeAuthority(permit) ==
    /\ auth.stamp < MaxStamp
    /\ auth' = [stamp |-> auth.stamp + 1, permit |-> permit]
    /\ UNCHANGED <<disk, journal, known, subs, call, issued>>

Effect == call # None /\ Commits /\ (ReserveEffect \/ CommitEffect \/ SubscribeEffect \/ AckEffect)

Calls ==
    \/ \E op \in Ops, input \in Inputs : PublishAgain(op, input)
    \/ \E op \in Ops, input \in Inputs : \E parents \in SUBSET (Ops \ {op}) : PublishBegin(op, input, parents)
    \/ Reserve \/ Commit \/ ProbeFails \/ Subscribe \/ Ack
    \/ RollBack
    \/ Doubt(Effect)
    \/ \E c \in Consumers : Resume(c) \/ SubscribeBegin(c) \/ Cursor(c) \/ Cancel(c)
    \/ \E c \in Consumers : \E limit \in 1..Window : Poll(c, limit)
    \/ \E c \in Consumers : \E token \in tokens : AckBegin(c, token)

ChangesAuthority == \E permit \in Permits : ChangeAuthority(permit)

-----------------------------------------------------------------------------
\* _audit never raises JOURNAL_CORRUPT on a file this code wrote, in the process
\* that wrote it or after a crash; every cursor ever returned is still accepted
\* by subscribe; and an acknowledged position covers only events that a poll has
\* returned to that consumer: late, repeated and restarted acknowledgements
\* neither strand a consumer nor skip.
CursorsSound ==
    /\ Audit
    /\ \A k \in cursors : Accepts(k)
    /\ \A c \in Consumers : consumers[c] # None => 1..consumers[c].position \subseteq delivered[c]

\* A LOCAL_EVENT_COMMITTED receipt names the event that is durably stored at
\* that sequence for that operation and input, for ever, and no operation has
\* two events although publish is retried after EVENT_OUTCOME_UNKNOWN.
ReceiptsTrue ==
    /\ \A r \in receipts : /\ r.sequence \in DOMAIN events
                           /\ events[r.sequence].op = r.op /\ events[r.sequence].input = r.input
    /\ \A m, n \in DOMAIN events : events[m].op = events[n].op => m = n
=============================================================================

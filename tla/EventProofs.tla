---------------------------- MODULE EventProofs -----------------------------
(***************************************************************************)
(* Proofs about the event journal and the local commands, for any number   *)
(* of operations, consumers, connections and restarts: the file always     *)
(* passes its audit and no acknowledgement skips (CursorsSound), what a    *)
(* client is told is so (ToldTrue), and it publishes again only what can   *)
(* no longer be written by an earlier attempt (NoneInFlight).              *)
(***************************************************************************)
EXTENDS EventCommands, FiniteSetTheorems, TLAPS

USE ZenonT(60)

(* The invariant of the journal *)

Tokens == [consumer : Consumers, session : Nat, position : Nat, revision : Nat, upto : Nat, stamp : Nat]
Cursors == [consumer : Consumers, position : Nat, revision : Nat]
Receipts == [op : Ops, input : Inputs, sequence : Nat]
Registered == {c \in Consumers : consumers[c] # None}

JournalType ==
    /\ events \in Seq(Events) /\ nonces \in Seq(Ops)
    /\ consumers \in [Consumers -> Rows \cup {None}]
    /\ auth \in [stamp : Nat, permit : Permits] /\ sessions \in Nat
    /\ known \in [tail : Nat, rows : [Consumers -> Rows \cup {None}]]
    /\ tokens \subseteq Tokens /\ cursors \subseteq Cursors /\ receipts \subseteq Receipts
    /\ delivered \in [Consumers -> SUBSET Nat]
    /\ subs \in [Consumers -> [session : Nat, pending : Tokens \cup {None}] \cup {None}]

\* The file passes its audit, and every position is covered by what polls returned.
FileInv ==
    /\ Len(events) <= MaxEvents /\ Len(nonces) <= MaxNonces /\ AuditEvents
    /\ Cardinality(Registered) <= MaxConsumers
    /\ \A m, n \in DOMAIN events : events[m].op = events[n].op => m = n
    /\ \A c \in Consumers : consumers[c] # None => /\ consumers[c].position <= Len(events)
                                                   /\ 1..consumers[c].position \subseteq delivered[c]

\* What the process remembers and what it has issued is behind the file.
BehindInv ==
    /\ Len(events) >= known.tail
    /\ \A c \in Consumers : AuditRow(c)
    /\ \A k \in cursors : Accepts(k)
    /\ \A t \in tokens : t.position <= t.upto /\ t.upto <= Len(events) /\ (t.position + 1)..t.upto \subseteq delivered[t.consumer]
    /\ \A r \in receipts : /\ r.sequence \in DOMAIN events
                           /\ events[r.sequence].op = r.op /\ events[r.sequence].input = r.input
    /\ \A c \in Consumers : subs[c] # None => consumers[c] # None

\* A call works on the file as it was when the call began.
PublishInv ==
    /\ call \in PublishCalls
    /\ call.op \notin Committed /\ call.parents \subseteq Committed
    /\ call.tail = Len(events) /\ Len(events) < MaxEvents
    /\ call.kind = "nonce" => Len(nonces) < MaxNonces
    /\ call.kind = "event" => Len(nonces) \in 1..MaxNonces /\ nonces[Len(nonces)] = call.op
SubscribeInv ==
    /\ call \in [kind : {"subscribe"}, consumer : Consumers, stamp : Nat]
    /\ consumers[call.consumer] = None /\ Cardinality(Registered) < MaxConsumers
AckInv ==
    /\ call \in [kind : {"ack"}, token : tokens, stamp : Nat] /\ subs[call.token.consumer] # None
    /\ LET row == consumers[call.token.consumer]
       IN row # None /\ row.position = call.token.position /\ row.revision = call.token.revision

CallInv == call # None => PublishInv \/ SubscribeInv \/ AckInv

JournalInv == JournalType /\ FileInv /\ BehindInv /\ CallInv

-----------------------------------------------------------------------------
(* The invariant of the commands *)

Connections == [link : {"new", "ready", "ended", "gone"}, req : Requests \cup {None}]
Clients == [bound : Conns \cup {None}, active : {None, "publish", "inquire"},
            retained : Retainable \cup {None}, requires : BOOLEAN, known : Nat \cup {None}]

PortType == conns \in [Conns -> Connections] /\ client \in Clients

\* A request that the owner may still take up or is working on.
InFlight(conn) == conn.req # None /\ conn.req.stage \in {"sent", "queued", "running"}
Running(conn) == conn.req # None /\ conn.req.stage = "running"

\* What has been answered is so; what has not carries no answer.
AnswerInv(req) ==
    /\ req.answer = "local-committed" =>
          /\ req.sequence \in DOMAIN events /\ events[req.sequence].op = req.op
          /\ req.kind = "publish" => events[req.sequence].input = req.input
    /\ req.answer = "rejected" => ~req.wrote
    /\ req.stage # "answered" => req.answer = None
    /\ req.fresh => req.kind = "publish" /\ req.stage \in {"running", "answered"}

ConnOk(conn) ==
    /\ conn.req # None => AnswerInv(conn.req)
    /\ conn.link = "new" => conn.req = None
ConnInv == \A c \in Conns : ConnOk(conns[c])

\* The one command that runs is the journal's call.
Works(req) == call # None /\ PublishInv /\ req.fresh /\ call.op = req.op /\ call.input = req.input
RunningInv ==
    /\ \A c \in Conns : Running(conns[c]) => Works(conns[c].req)
    /\ \A c, d \in Conns : Running(conns[c]) /\ Running(conns[d]) => c = d

\* The binding carries the active exchange and nothing else.
Exchange(req) ==
    /\ client.active = req.kind /\ req.op = client.retained.op /\ req.input = client.retained.input
    /\ req.answer = "not-found-local" => client.known = None
ClientInv ==
    /\ client.active # None => client.bound # None /\ client.retained # None
    /\ client.active = "publish" => ~client.requires
    /\ client.bound # None => /\ conns[client.bound].link # "new"
                              /\ conns[client.bound].req # None => Exchange(conns[client.bound].req)
    /\ client.known # None => /\ client.retained # None /\ client.known \in DOMAIN events
                              /\ events[client.known].op = client.retained.op

\* A publish in flight has been committed already, is the active exchange, or is the
\* retained operation of a client that has to inquire.
StaleInv ==
    \A c \in Conns : InFlight(conns[c]) /\ conns[c].req.kind = "publish" =>
        \/ conns[c].req.op \in Committed
        \/ client.active = "publish" /\ c = client.bound
        \/ client.requires /\ client.retained # None /\ conns[c].req.op = client.retained.op

PortInv == PortType /\ RunningInv /\ ConnInv /\ ClientInv /\ StaleInv
CommandInv == JournalInv /\ PortInv /\ ToldTrue

-----------------------------------------------------------------------------
(* The journal *)

\* The file only grows: events stay where they are, and rows go forward.
Later ==
    /\ Len(events) <= Len(events') /\ \A n \in DOMAIN events : n \in DOMAIN events' /\ events'[n] = events[n]
    /\ \A c \in Consumers : consumers[c] # None => /\ consumers'[c] # None
                                                   /\ consumers'[c].position >= consumers[c].position
                                                   /\ consumers'[c].revision >= consumers[c].revision

\* A file that is left alone is no earlier than itself.
LEMMA Untouched == ASSUME JournalType, UNCHANGED disk PROVE Later
BY SMTT(60) DEF JournalType, disk, Later, Rows

\* What was committed stays committed.
LEMMA LaterCommitted == ASSUME Later PROVE Committed \subseteq Committed'
BY DEF Later, Committed

\* What is issued and remembered stays true of a file that has only grown.
LEMMA LaterBehind ==
    ASSUME JournalType, JournalType', BehindInv, FileInv', Later,
           \A t \in tokens' \ tokens : /\ t.position <= t.upto /\ t.upto <= Len(events')
                                       /\ (t.position + 1)..t.upto \subseteq delivered'[t.consumer],
           \A r \in receipts' \ receipts : /\ r.sequence \in DOMAIN events'
                                           /\ events'[r.sequence].op = r.op /\ events'[r.sequence].input = r.input,
           \A c \in Consumers : delivered[c] \subseteq delivered'[c],
           known' = known \/ known' = Observed',
           \A k \in cursors' \ cursors : Accepts(k)',
           \A c \in Consumers : subs'[c] # None => (subs[c] # None \/ consumers'[c] # None)
    PROVE  BehindInv'
<1>0. /\ Len(events) \in Nat /\ Len(events') \in Nat
      /\ DOMAIN events = 1..Len(events) /\ DOMAIN events' = 1..Len(events')
  BY SMTT(60) DEF JournalType
<1>1. Len(events') >= known'.tail
  BY <1>0, SMTT(60) DEF JournalType, BehindInv, Later, Observed
<1>2. ASSUME NEW c \in Consumers PROVE AuditRow(c)'
  <2>1. consumers'[c] # None => consumers'[c].position \in 0..Len(events')
    BY <1>0, SMTT(60) DEF FileInv, JournalType, Rows
  <2>2. CASE known' = Observed'
    BY <2>1, <2>2, SMTT(60) DEF AuditRow, Observed, JournalType, Rows
  <2>3. CASE known' = known
    <3>1. known.rows[c] # None => /\ known.rows[c] \in Rows /\ consumers[c] \in Rows /\ consumers'[c] \in Rows
                                  /\ consumers[c] # None /\ consumers'[c] # None
                                  /\ consumers[c].position >= known.rows[c].position
                                  /\ consumers[c].revision >= known.rows[c].revision
                                  /\ consumers'[c].position >= consumers[c].position
                                  /\ consumers'[c].revision >= consumers[c].revision
      BY DEF BehindInv, AuditRow, Later, JournalType
    <3> QED BY <2>1, <2>3, <3>1, SMTT(60) DEF AuditRow, Rows
  <2> QED BY <2>2, <2>3
<1>3. ASSUME NEW k \in cursors' PROVE Accepts(k)'
  <2>1. CASE k \in cursors
    <3>1. k \in Cursors /\ Accepts(k) /\ k.consumer \in Consumers
      BY <2>1 DEF BehindInv, JournalType, Cursors
    <3>2. /\ consumers[k.consumer] \in Rows /\ consumers'[k.consumer] # None /\ consumers'[k.consumer] \in Rows
          /\ consumers'[k.consumer].position >= consumers[k.consumer].position
          /\ consumers'[k.consumer].revision >= consumers[k.consumer].revision
      BY <3>1, SMTT(60) DEF Accepts, Later, JournalType
    <3> QED BY <3>1, <3>2, SMTT(60) DEF Accepts, Rows, Cursors
  <2> QED BY <2>1
<1>4. ASSUME NEW t \in tokens'
      PROVE  /\ t.position <= t.upto /\ t.upto <= Len(events')
             /\ (t.position + 1)..t.upto \subseteq delivered'[t.consumer]
  <2>1. CASE t \in tokens
    <3>1. /\ t.position <= t.upto /\ t.upto <= Len(events) /\ (t.position + 1)..t.upto \subseteq delivered[t.consumer]
          /\ t.consumer \in Consumers /\ t.upto \in Nat
      BY <2>1 DEF BehindInv, JournalType, Tokens
    <3> QED BY <1>0, <3>1, SMTT(60) DEF Later
  <2> QED BY <2>1
<1>5. \A r \in receipts' : /\ r.sequence \in DOMAIN events'
                           /\ events'[r.sequence].op = r.op /\ events'[r.sequence].input = r.input
  BY DEF BehindInv, Later
<1>6. \A c \in Consumers : subs'[c] # None => consumers'[c] # None
  BY DEF BehindInv, Later
<1> QED BY <1>1, <1>2, <1>3, <1>4, <1>5, <1>6 DEF BehindInv

\* reserve() appends a nonce.
LEMMA ReserveKeeps ==
    ASSUME JournalType, FileInv, PublishInv, ReserveEffect, UNCHANGED delivered
    PROVE  /\ FileInv' /\ Later /\ events' = events /\ consumers' = consumers /\ nonces' \in Seq(Ops)
           /\ Len(nonces') \in 1..MaxNonces /\ nonces'[Len(nonces')] = call.op
<1>1. nonces \in Seq(Ops) /\ call.op \in Ops /\ call.kind = "nonce" /\ Len(nonces) < MaxNonces /\ MaxNonces \in Nat
  BY JournalBounds DEF JournalType, PublishInv, PublishCalls, ReserveEffect
<1>2. nonces' = Append(nonces, call.op) /\ events' = events /\ consumers' = consumers
  BY DEF ReserveEffect
<1>3. /\ nonces' \in Seq(Ops) /\ Len(nonces') = Len(nonces) + 1 /\ nonces'[Len(nonces')] = call.op
      /\ \A n \in DOMAIN nonces : n \in DOMAIN nonces' /\ nonces'[n] = nonces[n]
  BY <1>1, <1>2, SMTT(60)
<1>4. Len(nonces') \in 1..MaxNonces
  BY <1>1, <1>3, SMTT(60)
<1>5. AuditEvents'
  BY <1>2, <1>3, SMTT(60) DEF AuditEvents, FileInv
<1>6. FileInv'
  BY <1>2, <1>4, <1>5, SMTT(60) DEF FileInv, Registered
<1>7. Later
  BY <1>2, SMTT(60) DEF Later, JournalType, Rows
<1> QED BY <1>2, <1>3, <1>4, <1>6, <1>7

\* commit() appends the event that carries the nonce just reserved.
LEMMA CommitKeeps ==
    ASSUME JournalType, FileInv, PublishInv, CommitEffect, UNCHANGED delivered
    PROVE  /\ FileInv' /\ Later /\ events' \in Seq(Events) /\ nonces' = nonces /\ consumers' = consumers
           /\ call.tail + 1 \in DOMAIN events' /\ Len(events') = call.tail + 1
           /\ events'[call.tail + 1].op = call.op /\ events'[call.tail + 1].input = call.input
<1> DEFINE e == [op |-> call.op, input |-> call.input, parents |-> call.parents, nonce |-> Len(nonces)]
<1>1. /\ call \in PublishCalls /\ call.kind = "event" /\ Len(events) = call.tail /\ Len(events) < MaxEvents
      /\ Len(nonces) \in 1..MaxNonces /\ nonces[Len(nonces)] = call.op
      /\ call.op \notin Committed /\ call.parents \subseteq Committed
  BY DEF PublishInv, CommitEffect
<1>2. events' = Append(events, e) /\ nonces' = nonces /\ consumers' = consumers
  BY DEF CommitEffect
<1>3. e \in Events /\ e.op = call.op /\ e.input = call.input /\ e.parents = call.parents /\ e.nonce = Len(nonces)
  BY <1>1 DEF Events, PublishCalls
<1> HIDE DEF e
<1>4. events \in Seq(Events) /\ nonces \in Seq(Ops) /\ MaxEvents \in Nat /\ Len(events) \in Nat
  BY JournalBounds, SMTT(60) DEF JournalType
<1>5. /\ events' \in Seq(Events) /\ Len(events') = Len(events) + 1 /\ events'[Len(events) + 1] = e
      /\ DOMAIN events' = 1..(Len(events) + 1) /\ DOMAIN events = 1..Len(events)
      /\ \A n \in 1..Len(events) : events'[n] = events[n]
  BY <1>2, <1>3, <1>4, SMTT(60)
<1>6. Later
  BY <1>2, <1>4, <1>5, SMTT(60) DEF Later, JournalType, Rows
<1>7. AuditEvents'
  <2>1. ASSUME NEW n \in DOMAIN events
        PROVE  /\ events'[n] \in Events
               /\ events'[n].nonce \in DOMAIN nonces' /\ nonces'[events'[n].nonce] = events'[n].op
               /\ \A p \in events'[n].parents : \E m \in 1..(n - 1) : events'[m].op = p
    <3>1. n \in 1..Len(events) /\ \A m \in 1..(n - 1) : m \in 1..Len(events) /\ events'[m] = events[m]
      BY <1>4, <1>5, SMTT(60)
    <3> QED BY <1>2, <1>5, <3>1, SMTT(60) DEF FileInv, AuditEvents
  <2>2. /\ e \in Events /\ e.nonce \in DOMAIN nonces' /\ nonces'[e.nonce] = e.op
        /\ \A p \in e.parents : \E m \in 1..Len(events) : events'[m].op = p
    BY <1>1, <1>2, <1>3, <1>4, <1>5, SMTT(60) DEF Committed
  <2>3. (Len(events) + 1) - 1 = Len(events) /\ \A n \in DOMAIN events' : n \in DOMAIN events \/ n = Len(events) + 1
    BY <1>4, <1>5, SMTT(60)
  <2> QED BY <1>5, <2>1, <2>2, <2>3, SMTT(60) DEF AuditEvents
<1>8. \A m, n \in DOMAIN events' : events'[m].op = events'[n].op => m = n
  <2>1. \A n \in DOMAIN events : events'[n].op # call.op /\ events'[n] = events[n]
    BY <1>1, <1>5 DEF Committed
  <2>2. \A n \in DOMAIN events' : n \in DOMAIN events \/ n = Len(events) + 1
    BY <1>4, <1>5, SMTT(60)
  <2> QED BY <1>3, <1>5, <2>1, <2>2 DEF FileInv
<1>9. FileInv'
  <2>1. Len(events') <= MaxEvents
    BY <1>1, <1>4, <1>5, SMTT(60)
  <2>2. \A c \in Consumers : consumers'[c] # None => /\ consumers'[c].position <= Len(events')
                                                     /\ 1..consumers'[c].position \subseteq delivered'[c]
    BY <1>2, <1>4, <1>5, SMTT(60) DEF FileInv, JournalType, Rows
  <2> QED BY <1>2, <1>7, <1>8, <2>1, <2>2 DEF FileInv, Registered
<1> QED BY <1>1, <1>2, <1>3, <1>4, <1>5, <1>6, <1>9, SMTT(60)

\* subscribe stores the row of a new consumer.
LEMMA SubscribeKeeps ==
    ASSUME JournalType, FileInv, SubscribeInv, SubscribeEffect, UNCHANGED delivered
    PROVE  /\ FileInv' /\ Later /\ events' = events /\ nonces' = nonces
           /\ consumers' \in [Consumers -> Rows \cup {None}] /\ consumers'[call.consumer] # None
<1> DEFINE row == [position |-> 0, revision |-> 0]
<1>1. row \in Rows /\ row # None /\ row.position = 0
  BY NoRow, SMTT(60) DEF Rows
<1>2. PICK c \in Consumers : c = call.consumer
  BY DEF SubscribeInv
<1>3. consumers' = [consumers EXCEPT ![c] = row] /\ events' = events /\ nonces' = nonces
  BY <1>2 DEF SubscribeEffect
<1> HIDE DEF row
<1>4. /\ consumers' \in [Consumers -> Rows \cup {None}] /\ consumers'[c] = row
      /\ \A d \in Consumers \ {c} : consumers'[d] = consumers[d]
  BY <1>1, <1>3 DEF JournalType
<1>5. Later
  BY <1>2, <1>3, <1>4, SMTT(60) DEF Later, SubscribeInv, JournalType, Rows
<1>6. Cardinality(Registered') <= MaxConsumers
  <2>1. Registered' = Registered \cup {c}
    BY <1>1, <1>4 DEF Registered
  <2>2. Registered \in SUBSET Consumers /\ IsFiniteSet(Consumers) /\ MaxConsumers \in Nat
    BY JournalBounds DEF Registered
  <2>3. IsFiniteSet(Registered) /\ Cardinality(Registered) \in Nat
    BY <2>2, FS_Subset, FS_CardinalityType
  <2>4. Cardinality(Registered \cup {c}) <= Cardinality(Registered) + 1 /\ Cardinality(Registered \cup {c}) \in Nat
    BY <2>3, FS_AddElement, SMTT(60)
  <2> QED BY <2>1, <2>2, <2>3, <2>4, SMTT(60) DEF SubscribeInv
<1>7. \A d \in Consumers : consumers'[d] # None => /\ consumers'[d].position <= Len(events')
                                                   /\ 1..consumers'[d].position \subseteq delivered'[d]
  BY <1>1, <1>3, <1>4, SMTT(60) DEF FileInv, JournalType
<1>8. FileInv'
  BY <1>3, <1>6, <1>7, SMTT(60) DEF FileInv, AuditEvents
<1> QED BY <1>1, <1>2, <1>3, <1>4, <1>5, <1>8

\* ack moves the row to the end of the batch its token names, which was delivered.
LEMMA AckKeeps ==
    ASSUME JournalType, FileInv, BehindInv, AckInv, AckEffect, UNCHANGED delivered
    PROVE  /\ FileInv' /\ Later /\ events' = events /\ nonces' = nonces
           /\ consumers' \in [Consumers -> Rows \cup {None}]
           /\ call.token.consumer \in Consumers /\ AckedRow \in Rows
           /\ consumers'[call.token.consumer] = AckedRow
<1>1. PICK t \in tokens : t = call.token
  BY DEF AckInv
<1>2. PICK c \in Consumers : c = t.consumer
  BY <1>1 DEF JournalType, Tokens
<1>3. /\ consumers[c] \in Rows /\ consumers[c].position = t.position /\ t.position \in Nat /\ t.upto \in Nat
      /\ t.position <= t.upto /\ t.upto <= Len(events) /\ (t.position + 1)..t.upto \subseteq delivered[c]
      /\ 1..t.position \subseteq delivered[c]
  BY <1>1, <1>2, SMTT(60) DEF AckInv, JournalType, Tokens, BehindInv, FileInv
<1>4. PICK row : row = AckedRow
  OBVIOUS
<1>5. row \in Rows /\ row # None /\ row.position = t.upto /\ row.revision = consumers[c].revision + 1
  BY <1>1, <1>2, <1>3, <1>4, NoRow, SMTT(60) DEF AckedRow, Upto, Rows
<1>6. consumers' = [consumers EXCEPT ![c] = row] /\ events' = events /\ nonces' = nonces
  BY <1>1, <1>2, <1>4 DEF AckEffect
<1>7. /\ consumers' \in [Consumers -> Rows \cup {None}] /\ consumers'[c] = row
      /\ \A d \in Consumers \ {c} : consumers'[d] = consumers[d]
  BY <1>5, <1>6 DEF JournalType
<1>8. Later
  <2>1. row.position >= consumers[c].position /\ row.revision >= consumers[c].revision
    BY <1>3, <1>5, SMTT(60) DEF Rows
  <2> QED BY <1>5, <1>6, <1>7, <2>1, SMTT(60) DEF Later, JournalType, Rows
<1>9. Registered' = Registered
  BY <1>3, <1>5, <1>7, NoRow DEF Registered
<1>10. \A d \in Consumers : consumers'[d] # None => /\ consumers'[d].position <= Len(events')
                                                    /\ 1..consumers'[d].position \subseteq delivered'[d]
  <2>1. row.position <= Len(events) /\ 1..row.position \subseteq delivered[c]
    BY <1>3, <1>5, SMTT(60)
  <2> QED BY <1>6, <1>7, <2>1 DEF FileInv
<1>11. FileInv'
  BY <1>6, <1>9, <1>10, SMTT(60) DEF FileInv, AuditEvents
<1> QED BY <1>1, <1>2, <1>4, <1>5, <1>6, <1>7, <1>8, <1>11

\* Which call an effect belongs to.
LEMMA CallKinds ==
    ASSUME JournalInv, call # None
    PROVE  /\ call.kind \in {"nonce", "event"} => PublishInv
           /\ call.kind = "subscribe" => SubscribeInv
           /\ call.kind = "ack" => AckInv
BY DEF JournalInv, CallInv, PublishInv, PublishCalls, SubscribeInv, AckInv

\* The types of the file after a step.
DiskType == events \in Seq(Events) /\ nonces \in Seq(Ops) /\ consumers \in [Consumers -> Rows \cup {None}]

\* Whatever a call writes, or nothing.
LEMMA EffectKeeps ==
    ASSUME JournalInv, call # None, Effect \/ UNCHANGED disk, UNCHANGED delivered
    PROVE  FileInv' /\ Later /\ DiskType'
<1>0. JournalType /\ FileInv /\ BehindInv
  BY DEF JournalInv
<1>1. CASE UNCHANGED disk
  BY <1>0, <1>1, Untouched, SMTT(60) DEF disk, FileInv, AuditEvents, Registered, JournalType, DiskType
<1>2. CASE ReserveEffect
  BY <1>0, <1>2, CallKinds, ReserveKeeps DEF ReserveEffect, JournalType, DiskType
<1>3. CASE CommitEffect
  BY <1>0, <1>3, CallKinds, CommitKeeps DEF CommitEffect, JournalType, DiskType
<1>4. CASE SubscribeEffect
  BY <1>0, <1>4, CallKinds, SubscribeKeeps DEF SubscribeEffect, JournalType, DiskType
<1>5. CASE AckEffect
  BY <1>0, <1>5, CallKinds, AckKeeps DEF AckEffect, JournalType, DiskType
<1> QED BY <1>1, <1>2, <1>3, <1>4, <1>5 DEF Effect

\* A call that ends without a receipt, and whatever else leaves no call behind.
LEMMA Settles ==
    ASSUME JournalInv, FileInv', Later, DiskType', call' = None,
           UNCHANGED <<tokens, receipts, delivered>>, sessions' \in Nat,
           auth' \in [stamp : Nat, permit : Permits],
           known' = known \/ known' = Observed',
           cursors' \subseteq Cursors, \A k \in cursors' \ cursors : Accepts(k)',
           subs' \in [Consumers -> [session : Nat, pending : Tokens \cup {None}] \cup {None}],
           \A c \in Consumers : subs'[c] # None => (subs[c] # None \/ consumers'[c] # None)
    PROVE  JournalInv'
<1>0. JournalType /\ BehindInv
  BY DEF JournalInv
<1>1. JournalType'
  BY <1>0, SMTT(60) DEF JournalType, DiskType, Observed
<1>2. BehindInv'
  <2>1. \A c \in Consumers : delivered[c] \subseteq delivered'[c]
    OBVIOUS
  <2> QED BY <1>0, <1>1, <2>1, LaterBehind
<1> QED BY <1>1, <1>2 DEF JournalInv, CallInv

\* The ways a call ends with the file perhaps written and no receipt: rolled back, in
\* doubt, its probe failed, or the process died.
LEMMA EndsSound ==
    ASSUME JournalInv, RollBack \/ Doubt(Effect) \/ ProbeFails \/ Crash(Effect)
    PROVE  JournalInv' /\ Later
<1>0. JournalType /\ UNCHANGED <<issued>> /\ call' = None
  BY DEF JournalInv, RollBack, Doubt, ProbeFails, Crash
<1>1. FileInv' /\ Later /\ DiskType'
  <2>1. CASE call # None /\ (Effect \/ UNCHANGED disk)
    BY <1>0, <2>1, EffectKeeps DEF issued
  <2>2. CASE ~Effect /\ call = None
    <3>1. UNCHANGED disk
      BY <2>2 DEF RollBack, Doubt, ProbeFails, Crash
    <3> QED BY <1>0, <3>1, Untouched, SMTT(60) DEF JournalInv, disk, FileInv, AuditEvents, Registered, JournalType, DiskType, issued
  <2>3. CASE Effect
    BY <2>1, <2>3 DEF Effect
  <2> QED BY <2>1, <2>2, <2>3 DEF RollBack, Doubt, ProbeFails, Crash, Effect
<1>2. known' = known \/ known' = Observed'
  BY DEF RollBack, Doubt, ProbeFails, Crash
<1>3. auth' \in [stamp : Nat, permit : Permits]
  BY <1>0, SMTT(60) DEF JournalType, RollBack, Doubt, ProbeFails, Crash
<1>4. /\ subs' \in [Consumers -> [session : Nat, pending : Tokens \cup {None}] \cup {None}]
      /\ \A c \in Consumers : subs'[c] # None => subs[c] # None
  BY <1>0 DEF JournalType, RollBack, Doubt, ProbeFails, Crash, Drop
<1>5. cursors' = cursors /\ sessions' = sessions /\ UNCHANGED <<tokens, receipts, delivered>>
  BY <1>0 DEF issued
<1> QED BY <1>0, <1>1, <1>2, <1>3, <1>4, <1>5, Settles DEF JournalType

\* subscribe and ack return.
LEMMA SubscribeSound == ASSUME JournalInv, Subscribe PROVE JournalInv' /\ Later
<1>0. JournalType /\ FileInv /\ call # None /\ SubscribeEffect /\ UNCHANGED delivered
  BY DEF JournalInv, Subscribe
<1>1. SubscribeInv
  BY <1>0, CallKinds DEF SubscribeEffect
<1>2. FileInv' /\ Later /\ DiskType' /\ consumers'[call.consumer] # None
  BY <1>0, <1>1, SubscribeKeeps DEF JournalType, DiskType
<1>3. PICK c \in Consumers : c = call.consumer
  BY <1>1 DEF SubscribeInv
<1>4. sessions' = sessions + 1 /\ subs' = [subs EXCEPT ![c] = NewSub]
  BY <1>3 DEF Subscribe, Open
<1>5. NewSub \in [session : Nat, pending : Tokens \cup {None}]
  BY <1>0, SMTT(60) DEF NewSub, JournalType
<1>6. /\ subs' \in [Consumers -> [session : Nat, pending : Tokens \cup {None}] \cup {None}]
      /\ \A d \in Consumers : subs'[d] # None => (subs[d] # None \/ consumers'[d] # None)
      /\ sessions' \in Nat
  BY <1>0, <1>2, <1>3, <1>4, <1>5, SMTT(60) DEF JournalType
<1>7. /\ known' = Observed' /\ call' = None /\ UNCHANGED <<tokens, cursors, receipts, delivered, auth>>
  BY DEF Subscribe
<1> QED BY <1>0, <1>2, <1>6, <1>7, Settles DEF JournalType

\* ack moves the stored position past its batch and returns the cursor for it.
LEMMA AckSound == ASSUME JournalInv, Ack PROVE JournalInv' /\ Later
<1>0. JournalType /\ FileInv /\ BehindInv /\ call # None /\ AckEffect /\ UNCHANGED delivered
  BY DEF JournalInv, Ack
<1>1. AckInv
  BY <1>0, CallKinds DEF AckEffect
<1>2. FileInv' /\ Later /\ DiskType' /\ consumers'[call.token.consumer] = AckedRow /\ AckedRow \in Rows
  BY <1>0, <1>1, AckKeeps DEF JournalType, DiskType
<1>3. PICK c \in Consumers : c = call.token.consumer
  BY <1>0, <1>1, AckKeeps
<1>4. PICK row \in Rows : row = AckedRow
  BY <1>2
<1> DEFINE k == [consumer |-> c, position |-> row.position, revision |-> row.revision]
<1>5. k \in Cursors /\ cursors' = cursors \cup {k}
  BY <1>3, <1>4 DEF Cursors, Rows, Ack, CursorOf
<1>6. Accepts(k)'
  BY <1>2, <1>3, <1>4, NoRow, SMTT(60) DEF Accepts, Rows
<1> HIDE DEF k
<1>7. subs' = [subs EXCEPT ![c].pending = None] /\ subs \in [Consumers -> [session : Nat, pending : Tokens \cup {None}] \cup {None}]
  BY <1>0, <1>3 DEF Ack, Settled, JournalType
<1>8. /\ subs' \in [Consumers -> [session : Nat, pending : Tokens \cup {None}] \cup {None}]
      /\ \A d \in Consumers : subs'[d] # None => (subs[d] # None \/ consumers'[d] # None)
  <2>1. subs[c] \in [session : Nat, pending : Tokens \cup {None}] /\ subs[c] # None
    BY <1>1, <1>3, <1>7 DEF AckInv
  <2>2. [subs[c] EXCEPT !.pending = None] \in [session : Nat, pending : Tokens \cup {None}]
    BY <2>1
  <2> QED BY <1>7, <2>1, <2>2
<1>9. /\ known' = Observed' /\ call' = None /\ UNCHANGED <<tokens, receipts, delivered, auth, sessions>>
  BY DEF Ack
<1> QED BY <1>0, <1>2, <1>5, <1>6, <1>8, <1>9, Settles DEF JournalType

\* publish reserves its nonce and goes on to the event.
LEMMA ReserveSound ==
    ASSUME JournalInv, Reserve
    PROVE  /\ JournalInv' /\ Later
           /\ call'.op = call.op /\ call'.input = call.input /\ call'.kind = "event" /\ PublishInv'
<1>0. JournalType /\ FileInv /\ BehindInv /\ call # None /\ ReserveEffect /\ UNCHANGED <<auth, known, subs, issued>>
  BY DEF JournalInv, Reserve
<1>1. PublishInv
  BY <1>0, CallKinds DEF ReserveEffect
<1>2. /\ FileInv' /\ Later /\ events' = events /\ consumers' = consumers /\ nonces' \in Seq(Ops)
      /\ Len(nonces') \in 1..MaxNonces /\ nonces'[Len(nonces')] = call.op
  BY <1>0, <1>1, ReserveKeeps DEF issued
<1>3. /\ call' \in PublishCalls /\ call'.op = call.op /\ call'.input = call.input /\ call'.kind = "event"
      /\ call'.parents = call.parents /\ call'.tail = call.tail
  BY <1>1 DEF PublishInv, PublishCalls, Reserve
<1>4. Committed' = Committed
  BY <1>2 DEF Committed
<1>5. PublishInv'
  BY <1>1, <1>2, <1>3, <1>4 DEF PublishInv
<1>6. JournalType'
  BY <1>0, <1>2 DEF JournalType, issued
<1>7. BehindInv'
  <2>1. \A c \in Consumers : delivered[c] \subseteq delivered'[c]
    BY <1>0 DEF issued
  <2> QED BY <1>0, <1>2, <1>6, <2>1, LaterBehind DEF issued
<1> QED BY <1>2, <1>3, <1>5, <1>6, <1>7 DEF JournalInv, CallInv

\* publish returns its receipt: for the event it committed, or for the one that was
\* there already.
LEMMA CommitSound ==
    ASSUME JournalInv, Commit
    PROVE  /\ JournalInv' /\ Later /\ call' = None
           /\ call.tail + 1 \in DOMAIN events'
           /\ events'[call.tail + 1].op = call.op /\ events'[call.tail + 1].input = call.input
<1>0. JournalType /\ FileInv /\ BehindInv /\ call # None /\ CommitEffect /\ UNCHANGED delivered
  BY DEF JournalInv, Commit
<1>1. PublishInv
  BY <1>0, CallKinds DEF CommitEffect
<1>2. /\ FileInv' /\ Later /\ events' \in Seq(Events) /\ nonces' = nonces /\ consumers' = consumers
      /\ call.tail + 1 \in DOMAIN events' /\ Len(events') = call.tail + 1
      /\ events'[call.tail + 1].op = call.op /\ events'[call.tail + 1].input = call.input
  BY <1>0, <1>1, CommitKeeps
<1> DEFINE r == [op |-> call.op, input |-> call.input, sequence |-> call.tail + 1]
<1>3. r \in Receipts /\ r.sequence = call.tail + 1 /\ r.op = call.op /\ r.input = call.input
  BY <1>1, SMTT(60) DEF PublishInv, PublishCalls, Receipts
<1>4. /\ receipts' = receipts \cup {r} /\ known' = Observed' /\ call' = None
      /\ UNCHANGED <<auth, subs, sessions, tokens, cursors, delivered>>
  BY DEF Commit, Receive
<1> HIDE DEF r
<1>5. JournalType'
  BY <1>0, <1>2, <1>3, <1>4, SMTT(60) DEF JournalType, Observed
<1>6. BehindInv'
  BY <1>0, <1>2, <1>3, <1>4, <1>5, LaterBehind
<1> QED BY <1>2, <1>4, <1>5, <1>6 DEF JournalInv, CallInv

\* The event of a committed operation.
LEMMA SequenceOf ==
    ASSUME NEW op \in Committed
    PROVE  Sequence(op) \in DOMAIN events /\ events[Sequence(op)].op = op
BY DEF Committed, Sequence

\* publish of an operation that is already committed returns its receipt again.
LEMMA AgainSound ==
    ASSUME JournalInv, NEW op \in Ops, NEW input \in Inputs, PublishAgain(op, input)
    PROVE  /\ JournalInv' /\ Later /\ UNCHANGED <<events, call>>
           /\ Sequence(op) \in DOMAIN events /\ events[Sequence(op)].op = op /\ events[Sequence(op)].input = input
<1>0. JournalType /\ FileInv /\ BehindInv /\ UNCHANGED <<disk, auth, known, subs, call, sessions, tokens, cursors, delivered>>
  BY DEF JournalInv, PublishAgain
<1>1. op \in Committed /\ events[Sequence(op)].input = input
  BY DEF PublishAgain, Replays
<1>2. PICK n : n = Sequence(op)
  OBVIOUS
<1>3. n \in DOMAIN events /\ events[n].op = op /\ events[n].input = input /\ n \in Nat
  BY <1>0, <1>1, <1>2, SequenceOf, SMTT(60) DEF JournalType
<1> DEFINE r == [op |-> op, input |-> input, sequence |-> n]
<1>4. r \in Receipts /\ r.sequence = n /\ r.op = op /\ r.input = input /\ receipts' = receipts \cup {r}
  BY <1>2, <1>3 DEF Receipts, PublishAgain, Receive
<1> HIDE DEF r
<1>5. Later /\ events' = events /\ nonces' = nonces /\ consumers' = consumers
  BY <1>0, Untouched DEF disk
<1>6. JournalType' /\ FileInv'
  BY <1>0, <1>4, <1>5, SMTT(60) DEF JournalType, FileInv, AuditEvents, Registered
<1>7. BehindInv'
  BY <1>0, <1>3, <1>4, <1>5, <1>6, LaterBehind
<1>8. CallInv'
  <2>1. Committed' = Committed /\ Registered' = Registered
    BY <1>5 DEF Committed, Registered
  <2> QED BY <1>0, <1>5, <2>1 DEF JournalInv, CallInv, PublishInv, SubscribeInv, AckInv
<1> QED BY <1>0, <1>2, <1>3, <1>5, <1>6, <1>7, <1>8 DEF JournalInv

\* While the file and what is remembered of it stay, so does all but the call.
LEMMA Rests ==
    ASSUME JournalType, FileInv, BehindInv, UNCHANGED <<disk, auth, known, subs, issued>>
    PROVE  /\ JournalType' /\ FileInv' /\ BehindInv' /\ Later
           /\ events' = events /\ nonces' = nonces /\ consumers' = consumers
           /\ Committed' = Committed /\ Registered' = Registered
<1>1. /\ events' = events /\ nonces' = nonces /\ consumers' = consumers /\ auth' = auth /\ known' = known
      /\ subs' = subs /\ sessions' = sessions /\ tokens' = tokens /\ cursors' = cursors
      /\ receipts' = receipts /\ delivered' = delivered
  BY DEF disk, issued
<1>2. Committed' = Committed /\ Registered' = Registered
  BY <1>1 DEF Committed, Registered
<1>3. Later
  BY Untouched
<1>4. JournalType'
  BY <1>1 DEF JournalType
<1>5. FileInv'
  BY <1>1, <1>2, SMTT(60) DEF FileInv, AuditEvents
<1>6. BehindInv'
  BY <1>1 DEF BehindInv, AuditRow, Accepts
<1> QED BY <1>1, <1>2, <1>3, <1>4, <1>5, <1>6

\* A call begins: publish, subscribe or ack has read the file.
LEMMA PublishBegins ==
    ASSUME JournalInv, NEW op \in Ops, NEW input \in Inputs, NEW parents \in SUBSET Ops,
           PublishBegin(op, input, parents)
    PROVE  /\ JournalInv' /\ Later /\ PublishInv' /\ events' = events
           /\ call'.op = op /\ call'.input = input
<1>0. /\ JournalType /\ FileInv /\ BehindInv /\ UNCHANGED <<disk, auth, known, subs, issued>>
      /\ op \notin Committed /\ parents \subseteq Committed /\ Len(events) < MaxEvents /\ Len(nonces) < MaxNonces
  BY DEF JournalInv, PublishBegin, Present, Room
<1>1. Later /\ events' = events /\ nonces' = nonces /\ consumers' = consumers /\ Committed' = Committed
  BY <1>0, Rests
<1>2. JournalType' /\ FileInv' /\ BehindInv'
  BY <1>0, Rests
<1>3. /\ call' \in PublishCalls /\ call'.kind = "nonce" /\ call'.op = op /\ call'.input = input
      /\ call'.parents = parents /\ call'.tail = Len(events)
  <2>1. Len(events) \in Nat /\ auth.stamp \in Nat
    BY <1>0, SMTT(60) DEF JournalType
  <2>2. call' = [kind |-> "nonce", op |-> op, input |-> input, parents |-> parents,
                 tail |-> Len(events), stamp |-> auth.stamp]
    BY DEF PublishBegin
  <2> QED BY <2>1, <2>2 DEF PublishCalls
<1>4. PublishInv'
  BY <1>0, <1>1, <1>3 DEF PublishInv
<1> QED BY <1>1, <1>2, <1>3, <1>4 DEF JournalInv, CallInv

\* subscribe finds no row for the consumer, and room for one.
LEMMA SubscribeBegins == ASSUME JournalInv, NEW c \in Consumers, SubscribeBegin(c) PROVE JournalInv' /\ Later
<1>0. /\ JournalType /\ FileInv /\ BehindInv /\ UNCHANGED <<disk, auth, known, subs, issued>>
      /\ consumers[c] = None /\ Cardinality(Registered) < MaxConsumers
  BY DEF JournalInv, SubscribeBegin, Unregistered, Registered
<1>1. Later /\ events' = events /\ nonces' = nonces /\ consumers' = consumers /\ Registered' = Registered
  BY <1>0, Rests
<1>2. JournalType' /\ FileInv' /\ BehindInv'
  BY <1>0, Rests
<1>3. call' \in [kind : {"subscribe"}, consumer : Consumers, stamp : Nat] /\ call'.consumer = c
  BY <1>0 DEF SubscribeBegin, JournalType
<1>4. SubscribeInv'
  BY <1>0, <1>1, <1>3 DEF SubscribeInv
<1> QED BY <1>1, <1>2, <1>4 DEF JournalInv, CallInv

\* ack is admitted for the batch outstanding, and remembers the row it read.
LEMMA AckBegins ==
    ASSUME JournalInv, NEW c \in Consumers, NEW token \in tokens, AckBegin(c, token)
    PROVE  JournalInv' /\ Later
<1>0. /\ JournalType /\ FileInv /\ BehindInv /\ UNCHANGED <<disk, auth, known, subs, issued>>
      /\ subs[c] # None /\ token.consumer = c
      /\ consumers[c].position = token.position /\ consumers[c].revision = token.revision
  BY DEF JournalInv, AckBegin, AckAdmits
<1>1. Later /\ events' = events /\ nonces' = nonces /\ consumers' = consumers
  BY <1>0, Rests
<1>2. JournalType' /\ FileInv' /\ BehindInv'
  BY <1>0, Rests
<1>3. call' \in [kind : {"ack"}, token : tokens', stamp : Nat] /\ call'.token = token
  BY <1>0 DEF AckBegin, JournalType, issued
<1>4. AckInv'
  BY <1>0, <1>1, <1>3 DEF AckInv, BehindInv
<1> QED BY <1>1, <1>2, <1>4 DEF JournalInv, CallInv

\* poll hands out the events after the stored position, with a token for them.
LEMMA PollSound ==
    ASSUME JournalInv, NEW c \in Consumers, NEW limit \in 1..Window, Poll(c, limit)
    PROVE  JournalInv' /\ Later
<1>0. /\ JournalType /\ FileInv /\ BehindInv /\ UNCHANGED <<disk, auth, known, call, sessions, cursors, receipts>>
      /\ subs[c] # None /\ call = None
  BY DEF JournalInv, Poll, Enter
<1>1. consumers[c] \in Rows /\ consumers[c].position <= Len(events) /\ Len(events) \in Nat
  BY <1>0, SMTT(60) DEF JournalType, FileInv, BehindInv
<1>2. PICK upto : upto = IF consumers[c].position + limit > Len(events) THEN Len(events)
                         ELSE consumers[c].position + limit
  OBVIOUS
<1>3. upto \in Nat /\ upto <= Len(events) /\ upto > consumers[c].position
  BY <1>1, <1>2, SMTT(60) DEF Rows, Poll
<1>4. PICK token \in Tokens :
         token = [consumer |-> c, session |-> subs[c].session, position |-> consumers[c].position,
                  revision |-> consumers[c].revision, upto |-> upto, stamp |-> auth.stamp]
  BY <1>0, <1>1, <1>3 DEF Tokens, JournalType, Rows
<1>5. token.position = consumers[c].position /\ token.upto = upto /\ token.consumer = c
  BY <1>4
<1>6. /\ subs' = [subs EXCEPT ![c].pending = token] /\ tokens' = tokens \cup {token}
      /\ delivered' = [delivered EXCEPT ![c] = @ \cup (consumers[c].position + 1)..upto]
  BY <1>2, <1>4 DEF Poll
<1>7. subs' \in [Consumers -> [session : Nat, pending : Tokens \cup {None}] \cup {None}]
      /\ \A d \in Consumers : subs'[d] # None => subs[d] # None
  <2>1. [subs[c] EXCEPT !.pending = token] \in [session : Nat, pending : Tokens \cup {None}]
    BY <1>0 DEF JournalType
  <2> QED BY <1>0, <1>6, <2>1 DEF JournalType
<1>8. /\ delivered' \in [Consumers -> SUBSET Nat]
      /\ \A d \in Consumers : delivered[d] \subseteq delivered'[d]
      /\ (consumers[c].position + 1)..upto \subseteq delivered'[c]
  <2>1. (consumers[c].position + 1)..upto \in SUBSET Nat
    BY <1>1, <1>3, SMTT(60) DEF Rows
  <2> QED BY <1>0, <1>6, <2>1 DEF JournalType
<1>9. Later /\ events' = events /\ nonces' = nonces /\ consumers' = consumers
  BY <1>0, Untouched DEF disk
<1>10. JournalType'
  BY <1>0, <1>6, <1>7, <1>8, <1>9 DEF JournalType
<1>11. FileInv'
  BY <1>0, <1>8, <1>9, SMTT(60) DEF FileInv, AuditEvents, Registered
<1>12. BehindInv'
  <2>1. \A t \in tokens' \ tokens : /\ t.position <= t.upto /\ t.upto <= Len(events')
                                    /\ (t.position + 1)..t.upto \subseteq delivered'[t.consumer]
    BY <1>1, <1>3, <1>5, <1>6, <1>8, <1>9, SMTT(60) DEF Rows
  <2> QED BY <1>0, <1>7, <1>8, <1>9, <1>10, <1>11, <2>1, LaterBehind
<1> QED BY <1>0, <1>9, <1>10, <1>11, <1>12 DEF JournalInv, CallInv

\* A step that leaves the file and the call alone, and remembers what is so.
LEMMA Observes ==
    ASSUME JournalInv, UNCHANGED <<disk, call, tokens, receipts, delivered>>,
           call # None => subs' = subs, sessions' \in Nat, auth' \in [stamp : Nat, permit : Permits],
           known' = known \/ known' = Observed,
           cursors' \subseteq Cursors, \A k \in cursors' \ cursors : Accepts(k),
           subs' \in [Consumers -> [session : Nat, pending : Tokens \cup {None}] \cup {None}],
           \A c \in Consumers : subs'[c] # None => (subs[c] # None \/ consumers[c] # None)
    PROVE  JournalInv' /\ Later
<1>0. JournalType /\ FileInv /\ BehindInv /\ CallInv
  BY DEF JournalInv
<1>1. /\ events' = events /\ nonces' = nonces /\ consumers' = consumers /\ call' = call
      /\ tokens' = tokens /\ receipts' = receipts /\ delivered' = delivered
  BY DEF disk
<1>2. Later
  BY <1>0, Untouched
<1>3. Committed' = Committed /\ Registered' = Registered /\ Observed' = Observed
      /\ \A k \in cursors' : Accepts(k)' <=> Accepts(k)
  BY <1>1 DEF Committed, Registered, Observed, Accepts
<1>4. Observed \in [tail : Nat, rows : [Consumers -> Rows \cup {None}]]
  BY <1>0, SMTT(60) DEF JournalType, Observed
<1>5. JournalType'
  BY <1>0, <1>1, <1>4 DEF JournalType
<1>6. FileInv'
  BY <1>0, <1>1, <1>3, SMTT(60) DEF FileInv, AuditEvents
<1>7. BehindInv'
  BY <1>0, <1>1, <1>2, <1>3, <1>5, <1>6, LaterBehind
<1>8. CallInv'
  BY <1>0, <1>1, <1>3 DEF CallInv, PublishInv, SubscribeInv, AckInv
<1> QED BY <1>5, <1>6, <1>7, <1>8, <1>2 DEF JournalInv

\* subscribe of a known consumer, cursor, cancel, close, open and a change of authority.
LEMMA ObserversSound ==
    ASSUME JournalInv,
           \/ \E c \in Consumers : Resume(c) \/ Cursor(c) \/ Cancel(c)
           \/ Close \/ Reopen \/ ChangesAuthority
    PROVE  JournalInv' /\ Later
<1>0. /\ JournalType /\ BehindInv /\ sessions \in Nat /\ auth \in [stamp : Nat, permit : Permits] /\ cursors \subseteq Cursors
      /\ subs \in [Consumers -> [session : Nat, pending : Tokens \cup {None}] \cup {None}]
  BY DEF JournalInv, JournalType
<1>1. ASSUME NEW c \in Consumers, Resume(c) PROVE JournalInv' /\ Later
  <2>1. /\ UNCHANGED <<disk, call, tokens, receipts, delivered>> /\ call = None /\ consumers[c] # None
        /\ sessions' = sessions + 1 /\ auth' = auth /\ known' = known /\ cursors' = cursors
        /\ subs' = [subs EXCEPT ![c] = [session |-> sessions + 1, pending |-> None]]
    BY <1>1 DEF Resume, Enter, Open, NewSub
  <2>2. [session |-> sessions + 1, pending |-> None] \in [session : Nat, pending : Tokens \cup {None}]
    BY <1>0, SMTT(60)
  <2>3. /\ subs' \in [Consumers -> [session : Nat, pending : Tokens \cup {None}] \cup {None}]
        /\ \A d \in Consumers : subs'[d] # None => (subs[d] # None \/ consumers[d] # None)
    BY <1>0, <2>1, <2>2
  <2>4. sessions' \in Nat
    BY <1>0, <2>1, SMTT(60)
  <2> QED BY <1>0, <2>1, <2>3, <2>4, Observes
<1>2. ASSUME NEW c \in Consumers, Cursor(c) PROVE JournalInv' /\ Later
  <2>1. /\ UNCHANGED <<disk, call, tokens, receipts, delivered>> /\ subs[c] # None
        /\ sessions' = sessions /\ auth' = auth /\ known' = known /\ subs' = subs
        /\ cursors' = cursors \cup {CursorOf(c, consumers[c])}
    BY <1>2 DEF Cursor
  <2>2. consumers[c] # None /\ consumers[c] \in Rows
    BY <1>0, <2>1 DEF BehindInv, JournalType
  <2>3. CursorOf(c, consumers[c]) \in Cursors /\ Accepts(CursorOf(c, consumers[c]))
    BY <2>2, SMTT(60) DEF CursorOf, Cursors, Accepts, Rows
  <2> QED BY <1>0, <2>1, <2>3, Observes
<1>3. ASSUME NEW c \in Consumers, Cancel(c) PROVE JournalInv' /\ Later
  <2>1. /\ UNCHANGED <<disk, call, tokens, receipts, delivered>> /\ call = None
        /\ sessions' = sessions /\ auth' = auth /\ known' = known /\ cursors' = cursors
        /\ subs' = [subs EXCEPT ![c] = None]
    BY <1>3 DEF Cancel, issued
  <2>2. /\ subs' \in [Consumers -> [session : Nat, pending : Tokens \cup {None}] \cup {None}]
        /\ \A d \in Consumers : subs'[d] # None => subs[d] # None
    BY <1>0, <2>1
  <2> QED BY <1>0, <2>1, <2>2, Observes
<1>4. ASSUME Close PROVE JournalInv' /\ Later
  <2>1. /\ UNCHANGED <<disk, call, tokens, receipts, delivered>> /\ call = None
        /\ sessions' = sessions /\ auth' = auth /\ known' = known /\ cursors' = cursors
        /\ subs' = [c \in Consumers |-> None]
    BY <1>4 DEF Close, Drop, issued
  <2> QED BY <1>0, <2>1, Observes
<1>5. ASSUME Reopen PROVE JournalInv' /\ Later
  <2>1. /\ UNCHANGED <<disk, call, tokens, receipts, delivered>>
        /\ sessions' = sessions /\ auth' = auth /\ known' = Observed /\ cursors' = cursors /\ subs' = subs
    BY <1>5 DEF Reopen, issued
  <2> QED BY <1>0, <2>1, Observes
<1>6. ASSUME ChangesAuthority PROVE JournalInv' /\ Later
  <2>1. /\ UNCHANGED <<disk, call, tokens, receipts, delivered>>
        /\ sessions' = sessions /\ known' = known /\ cursors' = cursors /\ subs' = subs
    BY <1>6 DEF ChangesAuthority, ChangeAuthority, issued
  <2>2. auth' \in [stamp : Nat, permit : Permits]
    BY <1>0, <1>6, SMTT(60) DEF ChangesAuthority, ChangeAuthority
  <2> QED BY <1>0, <2>1, <2>2, Observes
<1> QED BY <1>1, <1>2, <1>3, <1>4, <1>5, <1>6

\* Every call of the owner keeps the invariant of the journal.
LEMMA CallsSound == ASSUME JournalInv, Calls PROVE JournalInv' /\ Later
<1>1. ASSUME NEW op \in Ops, NEW input \in Inputs, PublishAgain(op, input) PROVE JournalInv' /\ Later
  BY <1>1, AgainSound
<1>2. ASSUME NEW op \in Ops, NEW input \in Inputs, NEW parents \in SUBSET (Ops \ {op}), PublishBegin(op, input, parents)
      PROVE  JournalInv' /\ Later
  <2>1. parents \in SUBSET Ops
    OBVIOUS
  <2> QED BY <1>2, <2>1, PublishBegins
<1>3. CASE Reserve
  BY <1>3, ReserveSound
<1>4. CASE Commit
  BY <1>4, CommitSound
<1>5. CASE ProbeFails \/ RollBack \/ Doubt(Effect)
  BY <1>5, EndsSound
<1>6. CASE Subscribe
  BY <1>6, SubscribeSound
<1>7. CASE Ack
  BY <1>7, AckSound
<1>8. ASSUME NEW c \in Consumers, Resume(c) \/ Cursor(c) \/ Cancel(c) PROVE JournalInv' /\ Later
  BY <1>8, ObserversSound
<1>9. ASSUME NEW c \in Consumers, SubscribeBegin(c) PROVE JournalInv' /\ Later
  BY <1>9, SubscribeBegins
<1>10. ASSUME NEW c \in Consumers, NEW limit \in 1..Window, Poll(c, limit) PROVE JournalInv' /\ Later
  BY <1>10, PollSound
<1>11. ASSUME NEW c \in Consumers, NEW token \in tokens, AckBegin(c, token) PROVE JournalInv' /\ Later
  BY <1>11, AckBegins
<1> QED BY <1>1, <1>2, <1>3, <1>4, <1>5, <1>6, <1>7, <1>8, <1>9, <1>10, <1>11 DEF Calls

-----------------------------------------------------------------------------
(* The commands *)

\* Serving is the set of connections whose request runs.
LEMMA ServingRuns ==
    /\ Serving = {c \in Conns : Running(conns[c])}
    /\ Serving' = {c \in Conns : Running(conns'[c])}
BY DEF Serving, Stage, Running, Conns

\* Nothing runs while the journal has no call.
LEMMA IdleServes == ASSUME PortInv, call = None PROVE Serving = {}
BY ServingRuns DEF PortInv, RunningInv, Works

\* An answer stays true of a file that has only grown.
LEMMA AnswerLater == ASSUME Later, NEW req, AnswerInv(req) PROVE AnswerInv(req)'
BY DEF Later, AnswerInv

\* A connection that is in order stays so, also without its request.
LEMMA ConnLater ==
    ASSUME Later, NEW d \in Conns, ConnOk(conns[d]), conns'[d].req \in {None, conns[d].req},
           conns'[d].link = "new" => conns[d].link = "new"
    PROVE  ConnOk(conns[d])'
<1>1. conns'[d].req # None => AnswerInv(conns[d].req)'
  <2>1. PICK req : req = conns[d].req
    OBVIOUS
  <2>2. conns[d].req # None => AnswerInv(req)'
    BY <2>1, AnswerLater DEF ConnOk
  <2> QED BY <2>1, <2>2 DEF AnswerInv
<1> QED BY <1>1 DEF ConnOk

\* The owner works on one connection: a request is read, taken up, answered or
\* dropped, and the client notices nothing yet.
LEMMA OneConnection ==
    ASSUME JournalInv, PortInv, JournalInv', Later, NEW c \in Conns, NEW conn \in Connections,
           conns' = [conns EXCEPT ![c] = conn], client' = client, Serving \subseteq {c},
           ConnOk(conn)', conn.link # "new",
           conn.req # None => /\ conns[c].req # None
                              /\ conn.req.kind = conns[c].req.kind /\ conn.req.op = conns[c].req.op
                              /\ conn.req.input = conns[c].req.input
                              /\ (InFlight(conn) => InFlight(conns[c]))
                              /\ (conn.req.answer = "not-found-local" =>
                                     conn.req = conns[c].req \/ conn.req.op \notin Committed),
           Running(conn) => Works(conn.req)'
    PROVE  PortInv'
<1>0. PortType /\ RunningInv /\ ConnInv /\ ClientInv /\ StaleInv
  BY DEF PortInv
<1>1. conns'[c] = conn /\ \A d \in Conns \ {c} : conns'[d] = conns[d]
  BY <1>0 DEF PortType
<1>2. PortType'
  BY <1>0 DEF PortType
<1>3. \A d \in Conns : Running(conns[d])' => d = c
  BY <1>1, ServingRuns DEF Running
<1>4. RunningInv'
  <2>1. \A d \in Conns : Running(conns[d])' => Works(conns[d].req)'
    BY <1>1, <1>3 DEF Works, Running
  <2> QED BY <1>3, <2>1 DEF RunningInv, Works
<1>5. ConnInv'
  <2>1. ASSUME NEW d \in Conns \ {c} PROVE ConnOk(conns[d])'
    <3>1. ConnOk(conns[d]) /\ conns'[d] = conns[d]
      BY <1>0, <1>1 DEF ConnInv
    <3> QED BY <3>1, ConnLater
  <2>2. ConnOk(conns[c])'
    BY <1>1 DEF ConnOk, AnswerInv, Running
  <2> QED BY <2>1, <2>2 DEF ConnInv
<1>6. ClientInv'
  <2>1. client.bound # None => /\ conns'[client.bound].link # "new"
                               /\ conns'[client.bound].req # None => Exchange(conns[client.bound].req)'
    <3>1. CASE client.bound = c
      <4>1. conn.req # None => Exchange(conns[c].req)
        <5>1. client.bound # None
          BY <3>1, NoCommand, SMTT(60) DEF Conns
        <5> QED BY <1>0, <3>1, <5>1 DEF ClientInv
      <4>2. conn.req # None /\ conn.req.answer = "not-found-local" => client.known = None
        BY <1>0, <4>1 DEF Exchange, ClientInv, Committed
      <4> QED BY <1>1, <3>1, <4>1, <4>2 DEF Exchange
    <3>2. CASE client.bound # c /\ client.bound # None
      <4>1. client.bound \in Conns \ {c}
        BY <1>0, <3>2 DEF PortType, Clients
      <4> QED BY <1>0, <1>1, <3>2, <4>1 DEF ClientInv, Exchange
    <3> QED BY <3>1, <3>2
  <2>2. client.known # None => /\ client.retained # None /\ client.known \in DOMAIN events'
                               /\ events'[client.known].op = client.retained.op
    BY <1>0 DEF ClientInv, Later
  <2> QED BY <1>0, <2>1, <2>2 DEF ClientInv
<1>7. StaleInv'
  <2>1. Committed \subseteq Committed'
    BY LaterCommitted
  <2>2. ASSUME NEW d \in Conns, InFlight(conns[d])', conns'[d].req.kind = "publish"
        PROVE  /\ InFlight(conns[d]) /\ conns[d].req.kind = "publish" /\ conns[d].req.op = conns'[d].req.op
    BY <1>1, <2>2 DEF InFlight
  <2> QED BY <1>0, <2>1, <2>2 DEF StaleInv
<1> QED BY <1>2, <1>4, <1>5, <1>6, <1>7 DEF PortInv

\* The journal moves and the ports do not.
LEMMA PortsRest ==
    ASSUME JournalInv, PortInv, JournalInv', Later, UNCHANGED <<conns, client>>,
           \/ Serving = {}
           \/ call' # None /\ PublishInv' /\ call'.op = call.op /\ call'.input = call.input
    PROVE  PortInv'
<1>0. PortType /\ RunningInv /\ ConnInv /\ ClientInv /\ StaleInv /\ conns' = conns /\ client' = client
  BY DEF PortInv
<1>1. PortType'
  BY <1>0 DEF PortType
<1>2. RunningInv'
  BY <1>0, ServingRuns DEF RunningInv, Works
<1>3. ConnInv'
  <2>1. ASSUME NEW d \in Conns PROVE ConnOk(conns[d])'
    <3>1. ConnOk(conns[d]) /\ conns'[d] = conns[d]
      BY <1>0 DEF ConnInv
    <3> QED BY <3>1, ConnLater
  <2> QED BY <2>1 DEF ConnInv
<1>4. ClientInv'
  BY <1>0 DEF ClientInv, Exchange, Later
<1>5. StaleInv'
  BY <1>0, LaterCommitted DEF StaleInv
<1> QED BY <1>1, <1>2, <1>3, <1>4, <1>5 DEF PortInv

\* An answer to the request of one connection; an answer nobody can read is dropped.
LEMMA Replies ==
    ASSUME JournalInv, PortInv, JournalInv', Later, NEW c \in Conns, conns[c].req # None, Serving \subseteq {c},
           NEW answer \in {"error", "rejected", "local-committed", "not-found-local", "outcome-unknown"},
           NEW sequence \in Nat \cup {None}, Reply(c, answer, sequence),
           answer = "rejected" => ~conns[c].req.fresh \/ conns[c].req.op \notin Committed',
           answer = "not-found-local" => conns[c].req.op \notin Committed,
           answer = "local-committed" =>
              /\ sequence \in DOMAIN events' /\ events'[sequence].op = conns[c].req.op
              /\ conns[c].req.kind = "publish" => events'[sequence].input = conns[c].req.input
    PROVE  PortInv' /\ told' = None
<1>0. PortType /\ ConnInv
  BY DEF PortInv
<1>1. PICK old \in Requests : old = conns[c].req
  BY <1>0 DEF PortType, Connections
<1>2. PICK wrote \in BOOLEAN : wrote = (old.fresh /\ \E n \in DOMAIN events' : events'[n].op = old.op)
  OBVIOUS
<1>3. PICK req : req = [old EXCEPT !.stage = "answered", !.answer = answer, !.sequence = sequence, !.wrote = wrote]
  OBVIOUS
<1>4. /\ req \in Requests /\ req.kind = old.kind /\ req.op = old.op /\ req.input = old.input
      /\ req.stage = "answered" /\ req.answer = answer /\ req.sequence = sequence /\ req.wrote = wrote
      /\ req.fresh = old.fresh
  <2>1. old = [kind |-> old.kind, op |-> old.op, input |-> old.input, parents |-> old.parents, stage |-> old.stage,
               fresh |-> old.fresh, answer |-> old.answer, sequence |-> old.sequence, wrote |-> old.wrote]
    BY <1>1, SMTT(60) DEF Requests
  <2>2. req = [kind |-> old.kind, op |-> old.op, input |-> old.input, parents |-> old.parents, stage |-> "answered",
               fresh |-> old.fresh, answer |-> answer, sequence |-> sequence, wrote |-> wrote]
    BY <1>3, <2>1
  <2>3. old.kind \in {"publish", "inquire"} /\ old.op \in Ops /\ old.input \in Inputs
        /\ old.parents \in SUBSET Ops /\ old.fresh \in BOOLEAN
    BY <1>1 DEF Requests
  <2>4. req \in Requests
    BY <1>2, <2>2, <2>3, SMTT(60) DEF Requests
  <2> QED BY <2>2, <2>4
<1>5. PICK link \in {"new", "ready", "ended", "gone"} : link = conns[c].link
  BY <1>0 DEF PortType, Connections
<1>6. PICK next \in {None, req} : next = Kept(link, req)
  BY DEF Kept
<1>7. conns' = [conns EXCEPT ![c].req = next] /\ told' = None /\ client' = client
  BY <1>1, <1>2, <1>3, <1>5, <1>6 DEF Reply
<1> DEFINE conn == [link |-> link, req |-> next]
<1>8. conns' = [conns EXCEPT ![c] = conn] /\ conn \in Connections /\ conn.link = link /\ conn.req = next
  <2>1. conn \in Connections /\ conn.link = link /\ conn.req = next
    BY <1>4, <1>6 DEF Connections
  <2>2. conns[c] \in Connections
    BY <1>0 DEF PortType
  <2>3. [conns[c] EXCEPT !.req = next] = conn
    BY <1>5, <2>2, SMTT(60) DEF Connections
  <2>4. conns' = [conns EXCEPT ![c] = [conns[c] EXCEPT !.req = next]]
    BY <1>7
  <2> QED BY <2>1, <2>3, <2>4
<1> HIDE DEF conn
<1>9. AnswerInv(old) /\ link # "new"
  BY <1>0, <1>1, <1>5 DEF ConnInv, ConnOk
<1>10. AnswerInv(req)'
  <2>1. answer = "rejected" => ~req.wrote
    BY <1>1, <1>2, <1>4 DEF Committed
  <2> QED BY <1>1, <1>4, <1>9, <2>1 DEF AnswerInv
<1>11. ConnOk(conn)' /\ ~Running(conn) /\ ~InFlight(conn)
  BY <1>4, <1>6, <1>8, <1>9, <1>10 DEF ConnOk, Running, InFlight, AnswerInv
<1>12. conn.req # None => /\ conn.req.kind = conns[c].req.kind /\ conn.req.op = conns[c].req.op
                          /\ conn.req.input = conns[c].req.input
                          /\ (conn.req.answer = "not-found-local" => conn.req.op \notin Committed)
  BY <1>1, <1>4, <1>6, <1>8
<1> QED BY <1>7, <1>8, <1>9, <1>11, <1>12, OneConnection

\* The journal keeps its invariant while nothing of it changes.
LEMMA VarsRest == ASSUME JournalInv, UNCHANGED vars PROVE JournalInv' /\ Later /\ Committed' = Committed /\ events' = events
<1>1. /\ UNCHANGED <<disk, call, tokens, receipts, delivered>> /\ subs' = subs /\ sessions' = sessions
      /\ auth' = auth /\ known' = known /\ cursors' = cursors
  BY DEF vars, issued
<1>2. /\ sessions \in Nat /\ auth \in [stamp : Nat, permit : Permits] /\ cursors \subseteq Cursors
      /\ subs \in [Consumers -> [session : Nat, pending : Tokens \cup {None}] \cup {None}]
  BY DEF JournalInv, JournalType
<1>3. JournalInv' /\ Later
  BY <1>1, <1>2, Observes
<1> QED BY <1>1, <1>3 DEF Committed, disk

\* A client that is told nothing is told nothing wrong.
LEMMA Silent == ASSUME JournalInv', told' = None PROVE ToldTrue'
BY DEF JournalInv, BehindInv, FileInv, ToldTrue, ReceiptsTrue

\* A change to the request of one connection is one to the connection.
LEMMA RequestSet ==
    ASSUME PortType, NEW c \in Conns, NEW req \in Requests \cup {None}, conns' = [conns EXCEPT ![c].req = req]
    PROVE  \E conn \in Connections : /\ conns' = [conns EXCEPT ![c] = conn]
                                     /\ conn.link = conns[c].link /\ conn.req = req
<1>1. conns[c] \in Connections
  BY DEF PortType
<1>2. PICK conn : conn = [conns[c] EXCEPT !.req = req]
  OBVIOUS
<1>3. conn \in Connections /\ conn.link = conns[c].link /\ conn.req = req
  BY <1>1, <1>2 DEF Connections
<1>4. conns' = [conns EXCEPT ![c] = conn]
  BY <1>2
<1> QED BY <1>3, <1>4

\* The owner reads what a connection sent, and queues or refuses it.
LEMMA ServeReadSound == ASSUME CommandInv, NEW c \in Conns, ServeRead(c) PROVE CommandInv'
<1>0. /\ JournalInv /\ PortInv /\ PortType /\ ConnInv /\ UNCHANGED vars /\ client' = client /\ told' = None
      /\ call = None /\ conns[c].link \in {"ready", "ended"}
  BY DEF CommandInv, PortInv, ServeRead
<1>1. JournalInv' /\ Later /\ ToldTrue'
  BY <1>0, VarsRest, Silent
<1>2. Serving = {}
  BY <1>0, IdleServes
<1>3. PICK old \in Requests : old = conns[c].req /\ old.stage = "sent"
  BY <1>0 DEF PortType, Connections, ServeRead, Stage
<1>4. conns[c].req # None /\ AnswerInv(old) /\ InFlight(conns[c])
  BY <1>0, <1>3, NoCommand DEF ConnInv, ConnOk, InFlight
<1> DEFINE queued == [old EXCEPT !.stage = "queued"]
           refused == [old EXCEPT !.stage = "answered", !.answer = "error"]
<1>5. /\ queued \in Requests /\ queued.stage = "queued" /\ queued.kind = old.kind /\ queued.op = old.op
      /\ queued.input = old.input /\ queued.answer = old.answer /\ queued.fresh = old.fresh
  BY DEF Requests
<1>6. /\ refused \in Requests /\ refused.stage = "answered" /\ refused.kind = old.kind /\ refused.op = old.op
      /\ refused.input = old.input /\ refused.answer = "error" /\ refused.fresh = old.fresh
  BY DEF Requests
<1>7. PICK req \in {None, queued, refused} : conns' = [conns EXCEPT ![c].req = req]
  <2>1. CASE Admits
    <3>1. conns' = [conns EXCEPT ![c].req = queued]
      BY <1>3, <2>1 DEF ServeRead
    <3> QED BY <3>1
  <2>2. CASE ~Admits
    <3>1. conns' = [conns EXCEPT ![c].req = Kept(conns[c].link, refused)]
      BY <1>3, <2>2 DEF ServeRead
    <3> QED BY <3>1 DEF Kept
  <2> QED BY <2>1, <2>2
<1> HIDE DEF queued, refused
<1>8. PICK conn \in Connections : /\ conns' = [conns EXCEPT ![c] = conn]
                                  /\ conn.link = conns[c].link /\ conn.req = req
  <2>1. req \in Requests \cup {None}
    BY <1>5, <1>6
  <2> QED BY <1>0, <1>7, <2>1, RequestSet
<1>9. req # None => /\ req.kind = old.kind /\ req.op = old.op /\ req.input = old.input
                    /\ req.answer # "not-found-local" /\ req.stage # "running" /\ AnswerInv(req)'
  BY <1>3, <1>4, <1>5, <1>6, <1>7, NoCommand DEF AnswerInv
<1>10. ConnOk(conn)' /\ ~Running(conn)
  BY <1>0, <1>8, <1>9 DEF ConnOk, Running, AnswerInv
<1>11. PortInv'
  BY <1>0, <1>1, <1>2, <1>3, <1>4, <1>8, <1>9, <1>10, OneConnection
<1> QED BY <1>1, <1>11 DEF CommandInv

\* A queued request is cancelled, a cancelled one dropped, and a connection detached.
LEMMA ServeDropsSound ==
    ASSUME CommandInv, NEW c \in Conns, ServeCancel(c) \/ ServeEnds(c) \/ ReleaseCancelled(c)
    PROVE  CommandInv'
<1>0. /\ JournalInv /\ PortInv /\ PortType /\ ConnInv /\ UNCHANGED vars /\ client' = client /\ told' = None
      /\ call = None
  BY DEF CommandInv, PortInv, ServeCancel, ServeEnds, ReleaseCancelled
<1>1. JournalInv' /\ Later /\ ToldTrue'
  BY <1>0, VarsRest, Silent
<1>2. Serving = {}
  BY <1>0, IdleServes
<1>3. ConnOk(conns[c]) /\ conns[c] \in Connections /\ (conns[c].req # None => conns[c].req \in Requests)
  BY <1>0 DEF ConnInv, PortType, Connections
<1>4. CASE ServeCancel(c)
  <2>1. PICK old \in Requests : old = conns[c].req /\ old.stage = "queued" /\ conns[c].req # None
    BY <1>3, <1>4 DEF ServeCancel, Stage
  <2> DEFINE req == [old EXCEPT !.stage = "cancelled"]
  <2>2. /\ req \in Requests /\ req.stage = "cancelled" /\ req.kind = old.kind /\ req.op = old.op
        /\ req.input = old.input /\ req.answer = old.answer /\ req.fresh = old.fresh
    BY DEF Requests
  <2>3. conns' = [conns EXCEPT ![c].req = req] /\ conns[c].link = "ended"
    BY <1>4, <2>1 DEF ServeCancel
  <2> HIDE DEF req
  <2>4. PICK conn \in Connections : /\ conns' = [conns EXCEPT ![c] = conn]
                                    /\ conn.link = conns[c].link /\ conn.req = req
    <3>1. req \in Requests \cup {None}
      BY <2>2
    <3> QED BY <1>0, <2>3, <3>1, RequestSet
  <2>5. AnswerInv(req)' /\ req.answer = None
    BY <1>3, <2>1, <2>2, NoCommand DEF ConnOk, AnswerInv
  <2>6. ConnOk(conn)' /\ ~Running(conn) /\ ~InFlight(conn)
    BY <2>2, <2>3, <2>4, <2>5 DEF ConnOk, Running, InFlight, AnswerInv
  <2>7. PortInv'
    BY <1>0, <1>1, <1>2, <2>1, <2>2, <2>3, <2>4, <2>5, <2>6, NoCommand, OneConnection
  <2> QED BY <1>1, <2>7 DEF CommandInv
<1>5. CASE ServeEnds(c)
  <2>1. PICK req \in {None, conns[c].req} :
           (req # None => req.stage = "answered") /\ conns' = [conns EXCEPT ![c] = [link |-> "gone", req |-> req]]
    BY <1>5 DEF ServeEnds, Detached
  <2> DEFINE conn == [link |-> "gone", req |-> req]
  <2>2. conn \in Connections /\ conn.link = "gone" /\ conn.req = req /\ conns' = [conns EXCEPT ![c] = conn]
    BY <1>3, <2>1 DEF Connections
  <2> HIDE DEF conn
  <2>3. ~Running(conn) /\ ~InFlight(conn) /\ (req # None => AnswerInv(req)')
    BY <1>1, <1>3, <2>1, <2>2, AnswerLater DEF Running, InFlight, ConnOk
  <2>4. ConnOk(conn)'
    BY <2>2, <2>3 DEF ConnOk, Running, AnswerInv
  <2>5. PortInv'
    BY <1>0, <1>1, <1>2, <2>1, <2>2, <2>3, <2>4, OneConnection
  <2> QED BY <1>1, <2>5 DEF CommandInv
<1>6. CASE ReleaseCancelled(c)
  <2>1. conns' = [conns EXCEPT ![c].req = None] /\ conns[c].req # None
    BY <1>6, NoCommand DEF ReleaseCancelled, Stage
  <2>2. PICK conn \in Connections : /\ conns' = [conns EXCEPT ![c] = conn]
                                    /\ conn.link = conns[c].link /\ conn.req = None
    BY <1>0, <2>1, RequestSet
  <2>3. ConnOk(conn)' /\ ~Running(conn) /\ conn.link # "new"
    BY <1>3, <2>1, <2>2 DEF ConnOk, Running
  <2>4. PortInv'
    BY <1>0, <1>1, <1>2, <2>2, <2>3, OneConnection
  <2> QED BY <1>1, <2>4 DEF CommandInv
<1> QED BY <1>4, <1>5, <1>6

\* A command that is popped from the mailbox and answered without a journal call, or
\* with a receipt the journal already has.
LEMMA ExecuteSound ==
    ASSUME CommandInv, NEW c \in Conns, NEW ok \in BOOLEAN,
           ExecuteFailed(c) \/ ExecuteInquire(c) \/ ExecuteAgain(c, ok) \/ ExecuteRefused(c, ok)
    PROVE  CommandInv'
<1>0. JournalInv /\ PortInv /\ PortType /\ ConnInv /\ call = None /\ Stage(c) = "queued"
  BY DEF CommandInv, PortInv, ExecuteFailed, ExecuteInquire, ExecuteAgain, ExecuteRefused, Popped
<1>1. Serving \subseteq {c}
  BY <1>0, IdleServes
<1>2. PICK old \in Requests : old = conns[c].req /\ conns[c].req # None /\ old.stage = "queued"
  BY <1>0 DEF PortType, Connections, Stage
<1>3. ~old.fresh
  BY <1>0, <1>2 DEF ConnInv, ConnOk, AnswerInv
<1>4. CASE ExecuteFailed(c)
  <2>1. UNCHANGED vars /\ Reply(c, "error", None)
    BY <1>4 DEF ExecuteFailed
  <2>2. JournalInv' /\ Later
    BY <1>0, <2>1, VarsRest
  <2>3. PortInv' /\ told' = None
    BY <1>0, <1>1, <1>2, <2>1, <2>2, Replies
  <2> QED BY <2>2, <2>3, Silent DEF CommandInv
<1>5. CASE ExecuteInquire(c)
  <2>1. UNCHANGED vars /\ old.kind = "inquire" /\ Reply(c, Inspected(old.op)[1], Inspected(old.op)[2])
    BY <1>2, <1>5 DEF ExecuteInquire
  <2>2. JournalInv' /\ Later /\ Committed' = Committed /\ events' = events
    BY <1>0, <2>1, VarsRest
  <2>3. PICK answer \in {"rejected", "local-committed", "not-found-local"}, sequence \in Nat \cup {None} :
           /\ Reply(c, answer, sequence)
           /\ answer = "local-committed" => sequence \in DOMAIN events /\ events[sequence].op = old.op
           /\ answer = "not-found-local" => old.op \notin Committed
    <3>1. CASE ~Enter(FALSE)
      BY <2>1, <3>1 DEF Inspected
    <3>2. CASE Enter(FALSE) /\ old.op \in Committed
      <4>1. Sequence(old.op) \in DOMAIN events /\ events[Sequence(old.op)].op = old.op /\ Sequence(old.op) \in Nat
        BY <1>0, <3>2, SequenceOf, SMTT(60) DEF JournalInv, JournalType
      <4>2. Reply(c, "local-committed", Sequence(old.op))
        BY <2>1, <3>2 DEF Inspected
      <4> QED BY <4>1, <4>2
    <3>3. CASE Enter(FALSE) /\ old.op \notin Committed
      BY <2>1, <3>3 DEF Inspected
    <3> QED BY <3>1, <3>2, <3>3
  <2>4. PortInv' /\ told' = None
    BY <1>0, <1>1, <1>2, <1>3, <2>1, <2>2, <2>3, Replies
  <2> QED BY <2>2, <2>4, Silent DEF CommandInv
<1>6. CASE ExecuteAgain(c, ok)
  <2>1. /\ PublishAgain(old.op, old.input)
        /\ Reply(c, ReceiptAs(ok), IF ok THEN Sequence(old.op) ELSE None)
    BY <1>2, <1>6 DEF ExecuteAgain
  <2>2. old.op \in Ops /\ old.input \in Inputs
    BY DEF Requests
  <2>3. /\ JournalInv' /\ Later /\ UNCHANGED <<events, call>> /\ Sequence(old.op) \in DOMAIN events
        /\ events[Sequence(old.op)].op = old.op /\ events[Sequence(old.op)].input = old.input
    BY <1>0, <2>1, <2>2, AgainSound
  <2>4. PICK answer \in {"local-committed", "outcome-unknown"}, sequence \in Nat \cup {None} :
           /\ Reply(c, answer, sequence)
           /\ answer = "local-committed" => /\ sequence \in DOMAIN events /\ events[sequence].op = old.op
                                            /\ events[sequence].input = old.input
    <3>1. Sequence(old.op) \in Nat
      BY <1>0, <2>3, SMTT(60) DEF JournalInv, JournalType
    <3>2. CASE ok
      BY <2>1, <2>3, <3>1, <3>2 DEF ReceiptAs
    <3>3. CASE ~ok
      BY <2>1, <3>3 DEF ReceiptAs
    <3> QED BY <3>2, <3>3
  <2>5. PortInv' /\ told' = None
    BY <1>0, <1>1, <1>2, <2>3, <2>4, Replies
  <2> QED BY <2>3, <2>5, Silent DEF CommandInv
<1>7. CASE ExecuteRefused(c, ok)
  <2>1. UNCHANGED vars /\ Reply(c, "rejected", None)
    BY <1>7 DEF ExecuteRefused
  <2>2. JournalInv' /\ Later
    BY <1>0, <2>1, VarsRest
  <2>3. PortInv' /\ told' = None
    BY <1>0, <1>1, <1>2, <1>3, <2>1, <2>2, Replies
  <2> QED BY <2>2, <2>3, Silent DEF CommandInv
<1> QED BY <1>4, <1>5, <1>6, <1>7

\* A publish that is popped becomes the journal's call.
LEMMA ExecutePublishSound == ASSUME CommandInv, NEW c \in Conns, ExecutePublish(c) PROVE CommandInv'
<1>0. /\ JournalInv /\ PortInv /\ PortType /\ ConnInv /\ call = None /\ Stage(c) = "queued"
      /\ client' = client /\ told' = None
  BY DEF CommandInv, PortInv, ExecutePublish, Popped
<1>1. Serving = {}
  BY <1>0, IdleServes
<1>2. PICK old \in Requests : /\ old = conns[c].req /\ conns[c].req # None
                              /\ old.stage = "queued" /\ old.kind = "publish"
  BY <1>0 DEF PortType, Connections, Stage, ExecutePublish
<1>3. old.op \in Ops /\ old.input \in Inputs /\ old.parents \in SUBSET Ops
  BY DEF Requests
<1>4. /\ JournalInv' /\ Later /\ PublishInv' /\ call'.op = old.op /\ call'.input = old.input
  <2>1. PublishBegin(old.op, old.input, old.parents)
    BY <1>2 DEF ExecutePublish
  <2> QED BY <1>0, <1>3, <2>1, PublishBegins
<1>5. call' # None
  BY <1>4, NoRow DEF PublishInv
<1> DEFINE req == [old EXCEPT !.stage = "running", !.fresh = TRUE]
<1>6. /\ req \in Requests /\ req.stage = "running" /\ req.fresh /\ req.kind = "publish" /\ req.op = old.op
      /\ req.input = old.input /\ req.answer = old.answer
  BY <1>2 DEF Requests
<1>7. conns' = [conns EXCEPT ![c].req = req]
  BY <1>2 DEF ExecutePublish
<1> HIDE DEF req
<1>8. PICK conn \in Connections : /\ conns' = [conns EXCEPT ![c] = conn]
                                  /\ conn.link = conns[c].link /\ conn.req = req
  <2>1. req \in Requests \cup {None}
    BY <1>6
  <2> QED BY <1>0, <1>7, <2>1, RequestSet
<1>9. ConnOk(conns[c]) /\ AnswerInv(old) /\ old.answer = None /\ conns[c].link # "new"
  BY <1>0, <1>2 DEF ConnInv, ConnOk, AnswerInv
<1>10. AnswerInv(req)' /\ Works(req)' /\ InFlight(conns[c])
  BY <1>2, <1>4, <1>5, <1>6, <1>9, NoCommand DEF AnswerInv, Works, InFlight
<1>11. ConnOk(conn)' /\ Works(conn.req)'
  BY <1>8, <1>9, <1>10 DEF ConnOk, AnswerInv, Works
<1>12. PortInv'
  BY <1>0, <1>1, <1>2, <1>4, <1>6, <1>8, <1>9, <1>10, <1>11, NoCommand, OneConnection
<1> QED BY <1>0, <1>4, <1>12, Silent DEF CommandInv

\* The ends of the publish a command started.
LEMMA PublishEndsSound ==
    ASSUME CommandInv, NEW c \in Conns, NEW ok \in BOOLEAN,
           PublishCommitted(c, ok) \/ PublishRolledBack(c, ok) \/ PublishDoubtful(c)
    PROVE  CommandInv'
<1>0. JournalInv /\ PortInv /\ PortType /\ RunningInv /\ ConnInv /\ c \in Serving
  BY DEF CommandInv, PortInv, PublishCommitted, PublishRolledBack, PublishDoubtful
<1>1. Serving \subseteq {c} /\ Running(conns[c]) /\ Works(conns[c].req)
  BY <1>0, ServingRuns DEF RunningInv
<1>2. PICK old \in Requests : /\ old = conns[c].req /\ conns[c].req # None
                              /\ call # None /\ PublishInv /\ call.op = old.op /\ call.input = old.input
  BY <1>0, <1>1 DEF PortType, Connections, Running, Works
<1>3. CASE PublishCommitted(c, ok)
  <2>1. Commit /\ Reply(c, ReceiptAs(ok), IF ok THEN call.tail + 1 ELSE None)
    BY <1>3 DEF PublishCommitted
  <2>2. /\ JournalInv' /\ Later /\ call.tail + 1 \in DOMAIN events'
        /\ events'[call.tail + 1].op = old.op /\ events'[call.tail + 1].input = old.input
    BY <1>0, <1>2, <2>1, CommitSound
  <2>3. PICK answer \in {"local-committed", "outcome-unknown"}, sequence \in Nat \cup {None} :
           /\ Reply(c, answer, sequence)
           /\ answer = "local-committed" => /\ sequence \in DOMAIN events' /\ events'[sequence].op = old.op
                                            /\ events'[sequence].input = old.input
    <3>1. call.tail + 1 \in Nat
      BY <1>2, SMTT(60) DEF PublishInv, PublishCalls
    <3>2. CASE ok
      BY <2>1, <2>2, <3>1, <3>2 DEF ReceiptAs
    <3>3. CASE ~ok
      BY <2>1, <3>3 DEF ReceiptAs
    <3> QED BY <3>2, <3>3
  <2>4. PortInv' /\ told' = None
    BY <1>0, <1>1, <1>2, <2>2, <2>3, Replies
  <2> QED BY <2>2, <2>4, Silent DEF CommandInv
<1>4. CASE PublishRolledBack(c, ok)
  <2>1. RollBack /\ Reply(c, "rejected", None)
    BY <1>4 DEF PublishRolledBack
  <2>2. JournalInv' /\ Later
    BY <1>0, <2>1, EndsSound
  <2>3. old.op \notin Committed'
    BY <1>2, <2>1 DEF RollBack, disk, Committed, PublishInv
  <2>4. PortInv' /\ told' = None
    BY <1>0, <1>1, <1>2, <2>1, <2>2, <2>3, Replies
  <2> QED BY <2>2, <2>4, Silent DEF CommandInv
<1>5. CASE PublishDoubtful(c)
  <2>1. Doubt(Effect) /\ Reply(c, "outcome-unknown", None)
    BY <1>5 DEF PublishDoubtful, DoubtAs
  <2>2. JournalInv' /\ Later
    BY <1>0, <2>1, EndsSound
  <2>3. PortInv' /\ told' = None
    BY <1>0, <1>1, <1>2, <2>1, <2>2, Replies
  <2> QED BY <2>2, <2>3, Silent DEF CommandInv
<1> QED BY <1>3, <1>4, <1>5

\* The embedding owner calls the journal itself, only while no command runs; the
\* authority changes at any time.
LEMMA OwnerCallsSound == ASSUME CommandInv, OwnerCalls \/ OwnerOpens PROVE CommandInv'
<1>0. JournalInv /\ PortInv /\ UNCHANGED <<conns, client>> /\ told' = None
  BY DEF CommandInv, OwnerCalls, OwnerOpens, Quiet
<1>1. CASE Serving = {} /\ Calls
  <2>1. JournalInv' /\ Later
    BY <1>0, <1>1, CallsSound
  <2>2. PortInv'
    BY <1>0, <1>1, <2>1, PortsRest
  <2> QED BY <1>0, <2>1, <2>2, Silent DEF CommandInv
<1>2. CASE Reserve
  <2>1. /\ JournalInv' /\ Later /\ PublishInv' /\ call'.op = call.op /\ call'.input = call.input
    BY <1>0, <1>2, ReserveSound
  <2>2. call' # None
    BY <2>1, NoRow DEF PublishInv
  <2>3. PortInv'
    BY <1>0, <2>1, <2>2, PortsRest
  <2> QED BY <1>0, <2>1, <2>3, Silent DEF CommandInv
<1>3. CASE ChangesAuthority \/ Reopen
  <2>1. JournalInv' /\ Later
    BY <1>0, <1>3, ObserversSound
  <2>2. call' = call /\ UNCHANGED disk
    BY <1>3 DEF ChangesAuthority, ChangeAuthority, Reopen
  <2>3. Serving = {} \/ (call # None /\ PublishInv)
    <3>1. \A c \in Serving : Works(conns[c].req)
      BY <1>0, ServingRuns DEF PortInv, RunningInv
    <3> QED BY <3>1 DEF Works
  <2>4. PublishInv => PublishInv'
    BY <2>2 DEF PublishInv, disk, Committed
  <2>5. PortInv'
    BY <1>0, <2>1, <2>2, <2>3, <2>4, PortsRest
  <2> QED BY <1>0, <2>1, <2>5, Silent DEF CommandInv
<1> QED BY <1>1, <1>2, <1>3 DEF OwnerCalls, OwnerOpens

\* Connections that lose requests, or keep them, stay in order.
LEMMA Shrinks ==
    ASSUME JournalInv, PortInv, Later, conns' \in [Conns -> Connections],
           \A d \in Conns : conns'[d].req \in {None, conns[d].req},
           \A d \in Conns : conns'[d].link = "new" => conns[d].link = "new",
           (\A d \in Conns : ~Running(conns[d])') \/ UNCHANGED vars
    PROVE  ConnInv' /\ RunningInv'
<1>0. ConnInv /\ RunningInv
  BY DEF PortInv
<1>1. ConnInv'
  <2>1. ASSUME NEW d \in Conns PROVE ConnOk(conns[d])'
    <3>1. ConnOk(conns[d])
      BY <1>0 DEF ConnInv
    <3> QED BY <3>1, ConnLater
  <2> QED BY <2>1 DEF ConnInv
<1>2. RunningInv'
  <2>1. CASE \A d \in Conns : ~Running(conns[d])'
    BY <2>1 DEF RunningInv
  <2>2. CASE UNCHANGED vars
    <3>1. PublishInv => PublishInv'
      BY <2>2 DEF vars, disk, PublishInv, Committed
    <3>2. \A d \in Conns : Running(conns[d])' => Running(conns[d]) /\ conns'[d].req = conns[d].req
      BY DEF Running
    <3>3. \A d \in Conns : Works(conns[d].req) /\ conns'[d].req = conns[d].req => Works(conns[d].req)'
      BY <2>2, <3>1 DEF Works, vars
    <3> QED BY <1>0, <3>2, <3>3 DEF RunningInv
  <2> QED BY <2>1, <2>2
<1> QED BY <1>1, <1>2

\* The client hangs up the connection it was bound to.
LEMMA Hangs ==
    ASSUME PortInv
    PROVE  /\ Hung(client.bound) \in [Conns -> Connections]
           /\ \A d \in Conns : Hung(client.bound)[d].req \in {None, conns[d].req}
           /\ \A d \in Conns : d # client.bound => Hung(client.bound)[d] = conns[d]
           /\ \A d \in Conns : Hung(client.bound)[d].link = "new" => (d # client.bound /\ conns[d].link = "new")
<1>0. /\ conns \in [Conns -> Connections] /\ client.bound \in Conns \cup {None}
      /\ client.bound # None => conns[client.bound].link # "new"
  BY DEF PortInv, PortType, Clients, ClientInv
<1>1. PICK b \in Conns \cup {None} : b = client.bound
  BY <1>0
<1>2. CASE b = None
  <2>1. Hung(b) = conns /\ \A d \in Conns : d # b
    BY <1>2, NoCommand, SMTT(60) DEF Hung, Conns
  <2> QED BY <1>0, <1>1, <2>1
<1>3. CASE b # None
  <2>1. b \in Conns /\ conns[b] \in Connections /\ conns[b].link # "new"
    BY <1>0, <1>1, <1>3
  <2>2. PICK conn \in Connections : /\ Hung(b) = [conns EXCEPT ![b] = conn]
                                    /\ conn.link # "new" /\ conn.req \in {None, conns[b].req}
    <3>1. CASE conns[b].link = "gone"
      <4>1. PICK conn : conn = [conns[b] EXCEPT !.req = None]
        OBVIOUS
      <4>2. conn \in Connections /\ conn.link = "gone" /\ conn.req = None
        BY <2>1, <3>1, <4>1 DEF Connections
      <4>3. Hung(b) = [conns EXCEPT ![b] = conn]
        BY <1>3, <3>1, <4>1 DEF Hung
      <4> QED BY <4>2, <4>3
    <3>2. CASE conns[b].link # "gone"
      <4>1. PICK conn : conn = [link |-> "ended", req |-> Kept("ended", conns[b].req)]
        OBVIOUS
      <4>2. conn \in Connections /\ conn.link = "ended" /\ conn.req \in {None, conns[b].req}
        BY <2>1, <4>1 DEF Connections, Kept
      <4>3. Hung(b) = [conns EXCEPT ![b] = conn]
        BY <1>3, <3>2, <4>1 DEF Hung
      <4> QED BY <4>2, <4>3
    <3> QED BY <3>1, <3>2
  <2>3. Hung(b)[b] = conn /\ \A d \in Conns : d # b => Hung(b)[d] = conns[d]
    BY <1>0, <2>1, <2>2
  <2>4. Hung(b) \in [Conns -> Connections]
    BY <1>0, <2>1, <2>2
  <2> QED BY <1>1, <2>2, <2>3, <2>4
<1> QED BY <1>2, <1>3

\* The owner closes or dies: its connections end, and it answers nothing more.
LEMMA OwnerEndsSound == ASSUME CommandInv, OwnerEnds PROVE CommandInv'
<1>0. /\ JournalInv /\ PortInv /\ PortType /\ ConnInv /\ ClientInv /\ conns' = Ended /\ client' = client /\ told' = None
  BY DEF CommandInv, PortInv, OwnerEnds
<1>1. JournalInv' /\ Later
  <2>1. CASE Close
    BY <1>0, <2>1, ObserversSound
  <2>2. CASE Crash(Effect)
    BY <1>0, <2>2, EndsSound
  <2> QED BY <2>1, <2>2 DEF OwnerEnds
<1>2. ASSUME NEW d \in Conns
      PROVE  /\ conns'[d] \in Connections /\ conns'[d].req \in {None, conns[d].req}
             /\ conns'[d].link = "new" => conns[d].link = "new"
             /\ ~InFlight(conns[d])' /\ ~Running(conns[d])'
  <2>0. conns[d] \in Connections
    BY <1>0 DEF PortType
  <2>1. CASE conns[d].link = "new"
    <3>1. conns'[d] = conns[d] /\ conns[d].req = None
      BY <1>0, <2>1 DEF Ended, ConnInv, ConnOk
    <3> QED BY <2>0, <3>1 DEF InFlight, Running
  <2>2. CASE conns[d].link # "new"
    <3>1. PICK req \in {None, conns[d].req} : req = IF Stage(d) = "answered" THEN conns[d].req ELSE None
      OBVIOUS
    <3>2. conns'[d] = [link |-> "gone", req |-> req]
      BY <1>0, <2>2, <3>1 DEF Ended, Detached
    <3>3. req # None => req.stage = "answered"
      BY <3>1 DEF Stage
    <3> QED BY <2>0, <3>1, <3>2, <3>3, SMTT(60) DEF InFlight, Running, Connections
  <2> QED BY <2>1, <2>2
<1>3. conns' \in [Conns -> Connections]
  BY <1>0, <1>2 DEF Ended
<1>4. ConnInv' /\ RunningInv'
  BY <1>0, <1>1, <1>2, <1>3, Shrinks
<1>5. PortType'
  BY <1>0, <1>3 DEF PortType
<1>6. ClientInv'
  <2>1. client.bound # None => /\ client.bound \in Conns /\ conns[client.bound].link # "new"
                               /\ conns[client.bound].req # None => Exchange(conns[client.bound].req)
    BY <1>0 DEF ClientInv, PortType, Clients
  <2>2. client.bound # None => /\ conns'[client.bound].link # "new"
                               /\ conns'[client.bound].req # None => Exchange(conns[client.bound].req)'
    BY <1>0, <1>2, <2>1 DEF Exchange
  <2>3. client.known # None => /\ client.retained # None /\ client.known \in DOMAIN events'
                               /\ events'[client.known].op = client.retained.op
    BY <1>0, <1>1 DEF ClientInv, Later
  <2> QED BY <1>0, <2>2, <2>3 DEF ClientInv
<1>7. StaleInv'
  BY <1>2 DEF StaleInv
<1> QED BY <1>0, <1>1, <1>4, <1>5, <1>6, <1>7, Silent DEF CommandInv, PortInv

\* An idle binding has no request on it.
LEMMA IdleBinding ==
    ASSUME PortInv, client.active = None, client.bound # None
    PROVE  client.bound \in Conns /\ conns[client.bound].req = None /\ conns[client.bound].link # "new"
<1>1. /\ client.bound \in Conns /\ conns[client.bound].link # "new"
      /\ conns[client.bound].req # None => client.active = conns[client.bound].req.kind
  BY DEF PortInv, PortType, Clients, ClientInv, Exchange
<1>2. conns[client.bound].req # None => conns[client.bound].req.kind \in {"publish", "inquire"}
  BY <1>1 DEF PortInv, PortType, Connections, Requests
<1> QED BY <1>1, <1>2, NoCommand

\* The client is bound to a fresh connection.
LEMMA RebindSound == ASSUME CommandInv, NEW c \in Conns, Rebind(c) PROVE CommandInv'
<1>0. /\ JournalInv /\ PortInv /\ PortType /\ ConnInv /\ ClientInv /\ StaleInv /\ UNCHANGED vars /\ told' = None
      /\ conns[c].link = "new" /\ client.active = None /\ client \in Clients /\ conns \in [Conns -> Connections]
  BY DEF CommandInv, PortInv, PortType, Rebind
<1>1. JournalInv' /\ Later /\ Committed' = Committed /\ events' = events
  BY <1>0, VarsRest
<1>2. /\ client' \in Clients /\ client'.bound = c /\ client'.active = None /\ client'.retained = client.retained
      /\ client'.requires = client.requires /\ client'.known = client.known
  <2>1. Requires(client) = client.requires
    BY <1>0 DEF Requires, Clients
  <2>2. client' = [client EXCEPT !.bound = c, !.active = None, !.requires = client.requires]
    BY <1>0, <2>1 DEF Rebind, Retired, Clients
  <2> QED BY <1>0, <2>2 DEF Clients
<1>3. PICK hung : hung = Hung(client.bound)
  OBVIOUS
<1>4. /\ hung \in [Conns -> Connections] /\ hung[c] = conns[c]
      /\ \A d \in Conns : hung[d].req \in {None, conns[d].req}
      /\ \A d \in Conns : hung[d].link = "new" => conns[d].link = "new"
  <2>1. c # client.bound
    BY <1>0, NoCommand, SMTT(60) DEF ClientInv, Conns
  <2> QED BY <1>0, <1>3, <2>1, Hangs
<1>5. PICK conn : conn = [conns[c] EXCEPT !.link = "ready"]
  OBVIOUS
<1>6. conn \in Connections /\ conn.link = "ready" /\ conn.req = conns[c].req /\ conns[c].req = None
  BY <1>0, <1>5 DEF Connections, ConnInv, ConnOk
<1>7. conns' = [hung EXCEPT ![c] = conn]
  BY <1>3, <1>4, <1>5 DEF Rebind, Attached
<1>8. /\ conns' \in [Conns -> Connections] /\ conns'[c].link # "new" /\ conns'[c].req = None
      /\ \A d \in Conns : conns'[d].req \in {None, conns[d].req}
      /\ \A d \in Conns : conns'[d].link = "new" => conns[d].link = "new"
  BY <1>4, <1>6, <1>7
<1>9. ConnInv' /\ RunningInv'
  BY <1>0, <1>1, <1>8, Shrinks
<1>10. ClientInv'
  BY <1>0, <1>1, <1>2, <1>8, NoCommand DEF ClientInv
<1>11. StaleInv'
  <2>1. \A d \in Conns : InFlight(conns[d])' => InFlight(conns[d]) /\ conns'[d].req = conns[d].req
    BY <1>8 DEF InFlight
  <2> QED BY <1>0, <1>1, <1>2, <2>1, NoCommand DEF StaleInv
<1> QED BY <1>0, <1>1, <1>2, <1>8, <1>9, <1>10, <1>11, Silent DEF CommandInv, PortInv, PortType

\* The client sends a request on its idle binding.
LEMMA Sends ==
    ASSUME JournalInv, PortInv, UNCHANGED vars, client.active = None, client.bound # None,
           NEW kind \in {"publish", "inquire"}, NEW retained \in Retainable, Send(client.bound, kind, retained)
    PROVE  /\ conns' \in [Conns -> Connections] /\ ConnInv' /\ RunningInv'
           /\ \A d \in Conns : d # client.bound => conns'[d] = conns[d]
           /\ conns'[client.bound].link # "new" /\ conns'[client.bound].req # None
           /\ LET req == conns'[client.bound].req
              IN req.kind = kind /\ req.op = retained.op /\ req.input = retained.input /\ req.answer = None
<1>0. PortType /\ ConnInv /\ RunningInv /\ conns \in [Conns -> Connections]
  BY DEF PortInv, PortType
<1>1. PICK b \in Conns : b = client.bound /\ conns[b].req = None /\ conns[b].link # "new"
  BY IdleBinding
<1>2. Later
  BY VarsRest
<1>3. PICK req : req = [kind |-> kind, op |-> retained.op, input |-> retained.input, parents |-> retained.parents,
                        stage |-> "sent", fresh |-> FALSE, answer |-> None, sequence |-> None, wrote |-> FALSE]
  OBVIOUS
<1>4. /\ req \in Requests /\ req # None /\ req.kind = kind /\ req.op = retained.op /\ req.input = retained.input
      /\ req.answer = None /\ req.stage = "sent" /\ req.fresh = FALSE
  <2>1. retained.op \in Ops /\ retained.input \in Inputs /\ retained.parents \in SUBSET Ops
    BY DEF Retainable
  <2>2. req \in Requests
    BY <1>3, <2>1 DEF Requests
  <2> QED BY <1>3, <2>2, NoCommand
<1>5. conns' = [conns EXCEPT ![b].req = req]
  BY <1>1, <1>3 DEF Send
<1>6. PICK conn \in Connections : /\ conns' = [conns EXCEPT ![b] = conn]
                                  /\ conn.link = conns[b].link /\ conn.req = req
  <2>1. req \in Requests \cup {None}
    BY <1>4
  <2> QED BY <1>0, <1>5, <2>1, RequestSet
<1>7. conns' \in [Conns -> Connections] /\ conns'[b] = conn /\ \A d \in Conns : d # b => conns'[d] = conns[d]
  BY <1>0, <1>6
<1>8. ConnInv'
  <2>1. ASSUME NEW d \in Conns, d # b PROVE ConnOk(conns[d])'
    <3>1. ConnOk(conns[d]) /\ conns'[d] = conns[d]
      BY <1>0, <1>7, <2>1 DEF ConnInv
    <3> QED BY <1>2, <3>1, ConnLater
  <2>2. ConnOk(conns[b])'
    BY <1>1, <1>4, <1>6, <1>7, NoCommand DEF ConnOk, AnswerInv
  <2> QED BY <2>1, <2>2 DEF ConnInv
<1>9. RunningInv'
  <2>1. PublishInv => PublishInv'
    BY DEF vars, disk, PublishInv, Committed
  <2>2. \A d \in Conns : Running(conns[d])' => Running(conns[d]) /\ conns'[d].req = conns[d].req
    BY <1>4, <1>6, <1>7 DEF Running
  <2>3. \A d \in Conns : Works(conns[d].req) /\ conns'[d].req = conns[d].req => Works(conns[d].req)'
    BY <2>1 DEF Works, vars
  <2> QED BY <1>0, <2>2, <2>3 DEF RunningInv
<1> QED BY <1>1, <1>4, <1>6, <1>7, <1>8, <1>9

\* A publish goes out only when every earlier one in flight has been committed.
LEMMA ClientPublishSound ==
    ASSUME CommandInv, NEW retained \in Retainable, ClientPublish(retained)
    PROVE  CommandInv'
<1>0. /\ JournalInv /\ PortInv /\ PortType /\ ClientInv /\ StaleInv /\ UNCHANGED vars /\ told' = None
      /\ client \in Clients /\ client.active = None /\ client.bound # None /\ ~client.requires
      /\ Send(client.bound, "publish", retained)
  BY DEF CommandInv, PortInv, PortType, ClientPublish
<1>1. JournalInv' /\ Later /\ Committed' = Committed /\ events' = events
  BY <1>0, VarsRest
<1>2. PICK held \in Nat \cup {None} :
         held = IF client.retained # None /\ client.retained.op = retained.op THEN client.known ELSE None
  BY <1>0 DEF Clients
<1>3. /\ client' \in Clients /\ client'.bound = client.bound /\ client'.active = "publish"
      /\ client'.retained = retained /\ client'.requires = FALSE /\ client'.known = held
  <2>1. client' = [client EXCEPT !.active = "publish", !.retained = retained, !.known = held]
    BY <1>2 DEF ClientPublish
  <2> QED BY <1>0, <2>1 DEF Clients
<1>4. PICK b \in Conns : b = client.bound
  BY <1>0, IdleBinding
<1>5. /\ conns' \in [Conns -> Connections] /\ ConnInv' /\ RunningInv'
      /\ \A d \in Conns : d # b => conns'[d] = conns[d]
      /\ conns'[b].link # "new" /\ conns'[b].req # None
      /\ conns'[b].req.kind = "publish" /\ conns'[b].req.op = retained.op
      /\ conns'[b].req.input = retained.input /\ conns'[b].req.answer = None
  BY <1>0, <1>4, Sends
<1>6. ClientInv'
  <2>1. Exchange(conns[b].req)'
    BY <1>3, <1>5, NoCommand DEF Exchange
  <2>2. held # None => held \in DOMAIN events' /\ events'[held].op = retained.op
    BY <1>0, <1>1, <1>2 DEF ClientInv
  <2>3. retained # None
    BY NoCommand
  <2>4. b = client'.bound
    BY <1>3, <1>4
  <2> QED BY <1>0, <1>3, <1>5, <2>1, <2>2, <2>3, <2>4 DEF ClientInv
<1>7. StaleInv'
  <2>1. ASSUME NEW d \in Conns, d # b, InFlight(conns[d])', conns'[d].req.kind = "publish"
        PROVE  conns'[d].req.op \in Committed'
    <3>1. conns'[d] = conns[d] /\ InFlight(conns[d])
      BY <1>5, <2>1 DEF InFlight
    <3> QED BY <1>0, <1>1, <2>1, <3>1, NoCommand DEF StaleInv
  <2> QED BY <1>3, <1>4, <2>1 DEF StaleInv
<1> QED BY <1>0, <1>1, <1>3, <1>5, <1>6, <1>7, Silent DEF CommandInv, PortInv, PortType

\* An inquiry about the retained operation goes out.
LEMMA ClientInquireSound == ASSUME CommandInv, ClientInquire PROVE CommandInv'
<1>0. /\ JournalInv /\ PortInv /\ PortType /\ ClientInv /\ StaleInv /\ UNCHANGED vars /\ told' = None
      /\ client \in Clients /\ client.active = None /\ client.bound # None /\ client.retained # None
      /\ Send(client.bound, "inquire", client.retained)
  BY DEF CommandInv, PortInv, PortType, ClientInquire
<1>1. JournalInv' /\ Later /\ Committed' = Committed /\ events' = events
  BY <1>0, VarsRest
<1>2. /\ client' \in Clients /\ client'.bound = client.bound /\ client'.active = "inquire"
      /\ client'.retained = client.retained /\ client'.requires = client.requires /\ client'.known = client.known
  BY <1>0 DEF ClientInquire, Clients
<1>3. PICK b \in Conns : b = client.bound
  BY <1>0, IdleBinding
<1>4. /\ conns' \in [Conns -> Connections] /\ ConnInv' /\ RunningInv'
      /\ \A d \in Conns : d # b => conns'[d] = conns[d]
      /\ conns'[b].link # "new" /\ conns'[b].req # None
      /\ conns'[b].req.kind = "inquire" /\ conns'[b].req.op = client.retained.op
      /\ conns'[b].req.input = client.retained.input /\ conns'[b].req.answer = None
  <2>1. client.retained \in Retainable
    BY <1>0 DEF Clients
  <2> QED BY <1>0, <1>3, <2>1, Sends
<1>5. ClientInv'
  <2>1. Exchange(conns[b].req)'
    BY <1>2, <1>4, NoCommand DEF Exchange
  <2>2. b = client'.bound
    BY <1>2, <1>3
  <2> QED BY <1>0, <1>1, <1>2, <1>4, <2>1, <2>2 DEF ClientInv
<1>6. StaleInv'
  <2>1. ASSUME NEW d \in Conns, InFlight(conns[d])', conns'[d].req.kind = "publish"
        PROVE  d # b /\ conns'[d] = conns[d] /\ InFlight(conns[d])
    BY <1>4, <2>1 DEF InFlight
  <2> QED BY <1>0, <1>1, <1>2, <2>1, NoCommand DEF StaleInv
<1> QED BY <1>0, <1>1, <1>2, <1>4, <1>5, <1>6, Silent DEF CommandInv, PortInv, PortType

\* The answer on the client's binding agrees with the receipt it holds.
LEMMA Consistent ==
    ASSUME JournalInv, PortInv, client.active # None, conns[client.bound].req # None
    PROVE  ~Contradicts(conns[client.bound].req)
<1>0. /\ client.bound # None /\ client.bound \in Conns /\ ClientInv /\ ConnInv
      /\ Exchange(conns[client.bound].req) /\ AnswerInv(conns[client.bound].req)
  BY DEF PortInv, PortType, Clients, ClientInv, ConnInv, ConnOk
<1>1. PICK req : req = conns[client.bound].req
  OBVIOUS
<1>2. /\ req.op = client.retained.op /\ (req.answer = "not-found-local" => client.known = None)
      /\ req.answer = "local-committed" => req.sequence \in DOMAIN events /\ events[req.sequence].op = req.op
  BY <1>0, <1>1 DEF Exchange, AnswerInv
<1>3. client.known # None => client.known \in DOMAIN events /\ events[client.known].op = client.retained.op
  BY <1>0 DEF ClientInv
<1>4. client.known # None /\ req.answer = "local-committed" => req.sequence = client.known
  BY <1>2, <1>3 DEF JournalInv, FileInv
<1> QED BY <1>1, <1>2, <1>4 DEF Contradicts

\* Every receipt stays true.
LEMMA ReceiptsHold == ASSUME JournalInv' PROVE ReceiptsTrue'
BY DEF JournalInv, BehindInv, FileInv, ReceiptsTrue

\* The client takes the answer on its binding, or gives the binding up over it.
LEMMA ClientReceiveSound == ASSUME CommandInv, ClientReceive PROVE CommandInv'
<1>0. /\ JournalInv /\ PortInv /\ PortType /\ ConnInv /\ ClientInv /\ StaleInv /\ UNCHANGED vars
      /\ client \in Clients /\ client.active # None /\ conns \in [Conns -> Connections]
      /\ Stage(client.bound) = "answered"
  BY DEF CommandInv, PortInv, PortType, ClientReceive
<1>1. JournalInv' /\ Later /\ Committed' = Committed /\ events' = events /\ ReceiptsTrue'
  BY <1>0, VarsRest, ReceiptsHold
<1>2. PICK b \in Conns : b = client.bound
  BY <1>0 DEF ClientInv, Clients
<1>3. PICK req \in Requests : req = conns[b].req /\ conns[b].req # None
  BY <1>0, <1>2 DEF Stage, Connections
<1>4. /\ AnswerInv(req) /\ client.active = req.kind /\ req.op = client.retained.op
      /\ req.input = client.retained.input /\ client.retained # None /\ conns[b].link # "new"
      /\ req.sequence \in Nat \cup {None}
  BY <1>0, <1>2, <1>3 DEF ConnInv, ConnOk, ClientInv, Exchange, Requests
<1>5. ~Contradicts(req)
  BY <1>0, <1>2, <1>3, Consistent
<1>6. req.answer = "local-committed" => /\ req.sequence \in DOMAIN events /\ events[req.sequence].op = req.op
                                        /\ req.kind = "publish" => events[req.sequence].input = req.input
  BY <1>4 DEF AnswerInv
<1>7. ASSUME conns' \in [Conns -> Connections],
             \A d \in Conns : conns'[d].req \in {None, conns[d].req},
             \A d \in Conns : conns'[d].link = "new" => conns[d].link = "new",
             conns'[b].req = None, client' \in Clients, client'.active = None,
             client'.retained = client.retained, client'.bound \in {b, None},
             client'.known = client.known \/ (client'.known \in DOMAIN events /\ events[client'.known].op = req.op),
             client.requires => client'.requires \/ req.op \in Committed, ToldTrue'
      PROVE  CommandInv'
  <2>1. ConnInv' /\ RunningInv'
    BY <1>0, <1>1, <1>7, Shrinks
  <2>2. ClientInv'
    <3>1. client'.known # None => client'.known \in DOMAIN events' /\ events'[client'.known].op = client'.retained.op
      BY <1>0, <1>1, <1>4, <1>7 DEF ClientInv
    <3>2. client'.bound # None => conns'[client'.bound].link # "new" /\ conns'[client'.bound].req = None
      BY <1>4, <1>7
    <3> QED BY <1>4, <1>7, <3>1, <3>2, NoCommand DEF ClientInv
  <2>3. StaleInv'
    <3>1. \A d \in Conns : InFlight(conns[d])' => InFlight(conns[d]) /\ conns'[d].req = conns[d].req /\ d # b
      BY <1>7 DEF InFlight
    <3>2. ASSUME NEW d \in Conns, InFlight(conns[d])', conns'[d].req.kind = "publish"
          PROVE  \/ conns'[d].req.op \in Committed'
                 \/ client'.requires /\ client'.retained # None /\ conns'[d].req.op = client'.retained.op
      <4>1. \/ conns[d].req.op \in Committed
            \/ client.requires /\ conns[d].req.op = client.retained.op
        BY <1>0, <1>2, <3>1, <3>2 DEF StaleInv
      <4> QED BY <1>1, <1>4, <1>7, <3>1, <3>2, <4>1
    <3> QED BY <3>2 DEF StaleInv
  <2> QED BY <1>1, <1>7, <2>1, <2>2, <2>3 DEF CommandInv, PortInv, PortType
<1>8. CASE /\ req.answer # "error" /\ req.answer # "outcome-unknown"
           /\ client' = [[client EXCEPT !.active = None]
                            EXCEPT !.requires = StillRequires(req),
                                   !.known = IF req.answer = "local-committed" THEN req.sequence ELSE @]
           /\ conns' = [conns EXCEPT ![b].req = None]
           /\ Tell(req.answer, req)
  <2>1. PICK conn \in Connections : /\ conns' = [conns EXCEPT ![b] = conn]
                                    /\ conn.link = conns[b].link /\ conn.req = None
    BY <1>0, <1>8, RequestSet
  <2>2. /\ conns' \in [Conns -> Connections] /\ conns'[b].req = None
        /\ \A d \in Conns : conns'[d].req \in {None, conns[d].req}
        /\ \A d \in Conns : conns'[d].link = "new" => conns[d].link = "new"
    BY <1>0, <2>1
  <2>3. PICK held \in Nat \cup {None} : held = IF req.answer = "local-committed" THEN req.sequence ELSE client.known
    BY <1>0, <1>4 DEF Clients
  <2>4. PICK still \in BOOLEAN : still = StillRequires(req)
    BY DEF StillRequires
  <2>5. client' = [client EXCEPT !.active = None, !.requires = still, !.known = held]
    BY <1>0, <1>8, <2>3, <2>4 DEF Clients
  <2>6. /\ client' \in Clients /\ client'.active = None /\ client'.retained = client.retained
        /\ client'.bound = b /\ client'.requires = still /\ client'.known = held
    BY <1>0, <1>2, <2>5 DEF Clients
  <2>7. held = client.known \/ (held \in DOMAIN events /\ events[held].op = req.op)
    BY <1>6, <2>3
  <2>8. client.requires => still \/ req.op \in Committed
    <3>1. CASE req.answer = "local-committed"
      BY <1>6, <3>1 DEF Committed
    <3>2. CASE req.answer # "local-committed" /\ client.requires
      <4>1. req.kind = "inquire"
        BY <1>0, <1>4, <3>2 DEF ClientInv, Requests
      <4> QED BY <2>4, <3>2, <4>1 DEF StillRequires
    <3> QED BY <3>1, <3>2
  <2>9. ToldTrue'
    <3>1. /\ told'.kind = req.answer /\ told'.op = req.op /\ told'.sequence = req.sequence /\ told'.wrote = req.wrote
          /\ told'.input = IF req.kind = "publish" THEN req.input ELSE None
      BY <1>8 DEF Tell
    <3>2. req.answer # "conflict" /\ (req.answer = "rejected" => ~req.wrote)
      BY <1>4, NoCommand DEF Requests, AnswerInv
    <3> QED BY <1>1, <1>6, <3>1, <3>2 DEF ToldTrue
  <2> QED BY <1>7, <2>2, <2>6, <2>7, <2>8, <2>9
<1>9. CASE /\ req.answer \in {"error", "outcome-unknown"}
           /\ client' = [Retired(client) EXCEPT !.requires = TRUE]
           /\ conns' = [Hung(b) EXCEPT ![b].req = None]
           /\ Tell(IF req.answer = "error" THEN UnknownAs(req.kind)
                   ELSE IF Contradicts(req) THEN "conflict" ELSE req.answer, req)
  <2>1. PICK hung : hung = Hung(b)
    OBVIOUS
  <2>2. /\ hung \in [Conns -> Connections]
        /\ \A d \in Conns : hung[d].req \in {None, conns[d].req}
        /\ \A d \in Conns : hung[d].link = "new" => conns[d].link = "new"
    BY <1>0, <1>2, <2>1, Hangs
  <2>3. PICK conn : conn = [hung[b] EXCEPT !.req = None]
    OBVIOUS
  <2>4. conn \in Connections /\ conn.link = hung[b].link /\ conn.req = None
    BY <2>2, <2>3 DEF Connections
  <2>5. conns' = [hung EXCEPT ![b] = conn]
    BY <1>9, <2>1, <2>3
  <2>6. /\ conns' \in [Conns -> Connections] /\ conns'[b].req = None
        /\ \A d \in Conns : conns'[d].req \in {None, conns[d].req}
        /\ \A d \in Conns : conns'[d].link = "new" => conns[d].link = "new"
    BY <2>2, <2>4, <2>5
  <2>7. client' = [client EXCEPT !.bound = None, !.active = None, !.requires = TRUE]
    BY <1>0, <1>9 DEF Retired, Clients
  <2>8. /\ client' \in Clients /\ client'.active = None /\ client'.retained = client.retained
        /\ client'.bound = None /\ client'.requires = TRUE /\ client'.known = client.known
    BY <1>0, <2>7 DEF Clients
  <2>9. ToldTrue'
    <3>1. told'.kind \in {"outcome-unknown", "inquiry-unavailable"}
      BY <1>5, <1>9 DEF Tell, UnknownAs
    <3> QED BY <1>1, <3>1 DEF ToldTrue
  <2> QED BY <1>7, <2>6, <2>8, <2>9
<1> QED BY <1>2, <1>3, <1>5, <1>8, <1>9 DEF ClientReceive

\* The client gives up its exchange, or is replaced by one that kept the input.
LEMMA ClientLeavesSound == ASSUME CommandInv, ClientAbandon \/ RestoreUnknown PROVE CommandInv'
<1>0. /\ JournalInv /\ PortInv /\ PortType /\ ClientInv /\ StaleInv /\ UNCHANGED vars
      /\ client \in Clients /\ client.retained # None /\ conns' = Hung(client.bound)
  BY DEF CommandInv, PortInv, PortType, ClientAbandon, RestoreUnknown, ClientInv
<1>1. JournalInv' /\ Later /\ Committed' = Committed /\ events' = events /\ ReceiptsTrue'
  BY <1>0, VarsRest, ReceiptsHold
<1>2. /\ client' \in Clients /\ client'.active = None /\ client'.retained = client.retained
      /\ client'.bound = None /\ client'.requires = TRUE /\ client'.known \in {client.known, None}
  <2>1. CASE ClientAbandon
    <3>1. Requires(client) = TRUE
      BY <1>0, <2>1 DEF ClientAbandon, Requires, Clients
    <3>2. client' = [client EXCEPT !.bound = None, !.active = None, !.requires = TRUE]
      BY <2>1, <3>1 DEF ClientAbandon, Retired
    <3> QED BY <1>0, <3>2 DEF Clients
  <2>2. CASE RestoreUnknown
    <3>1. client' = [bound |-> None, active |-> None, retained |-> client.retained, requires |-> TRUE, known |-> None]
      BY <2>2 DEF RestoreUnknown, Unbound
    <3> QED BY <1>0, <3>1 DEF Clients
  <2> QED BY <2>1, <2>2
<1>3. /\ conns' \in [Conns -> Connections]
      /\ \A d \in Conns : conns'[d].req \in {None, conns[d].req}
      /\ \A d \in Conns : conns'[d].link = "new" => conns[d].link = "new"
  BY <1>0, Hangs
<1>4. ConnInv' /\ RunningInv'
  BY <1>0, <1>1, <1>3, Shrinks
<1>5. ClientInv'
  BY <1>0, <1>1, <1>2, NoCommand DEF ClientInv
<1>6. StaleInv'
  <2>1. ASSUME NEW d \in Conns, InFlight(conns[d])', conns'[d].req.kind = "publish"
        PROVE  conns'[d].req.op \in Committed' \/ conns'[d].req.op = client.retained.op
    <3>1. conns'[d].req = conns[d].req /\ InFlight(conns[d]) /\ conns[d].req # None
      BY <1>3, <2>1 DEF InFlight
    <3>2. \/ conns[d].req.op \in Committed
          \/ d = client.bound
          \/ conns[d].req.op = client.retained.op
      BY <1>0, <2>1, <3>1 DEF StaleInv
    <3>3. CASE d = client.bound
      <4>1. client.bound # None
        BY <3>3, NoCommand, SMTT(60) DEF Conns
      <4> QED BY <1>0, <3>1, <3>3, <4>1 DEF ClientInv, Exchange
    <3> QED BY <1>1, <3>1, <3>2, <3>3
  <2> QED BY <1>0, <1>2, <2>1 DEF StaleInv
<1>7. ToldTrue'
  <2>1. CASE ClientAbandon
    <3>1. told'.kind \in {"outcome-unknown", "inquiry-unavailable"}
      BY <2>1 DEF ClientAbandon, Tell, UnknownAs
    <3> QED BY <1>1, <3>1 DEF ToldTrue
  <2>2. CASE RestoreUnknown
    BY <1>1, <2>2, Silent DEF RestoreUnknown
  <2> QED BY <2>1, <2>2
<1> QED BY <1>1, <1>2, <1>3, <1>4, <1>5, <1>6, <1>7 DEF CommandInv, PortInv, PortType

-----------------------------------------------------------------------------
(* The theorems *)

\* An empty journal and a client that was never bound are in order.
LEMMA InitSound == CInit => CommandInv
<1> SUFFICES ASSUME CInit PROVE CommandInv
  OBVIOUS
<1>0. /\ events = <<>> /\ nonces = <<>> /\ consumers = [c \in Consumers |-> None] /\ call = None
      /\ auth = [stamp |-> 0, permit |-> "write"] /\ known = [tail |-> 0, rows |-> consumers]
      /\ subs = [c \in Consumers |-> None] /\ sessions = 0 /\ tokens = {} /\ cursors = {} /\ receipts = {}
      /\ delivered = [c \in Consumers |-> {}]
      /\ conns = [c \in Conns |-> Fresh] /\ client = Unbound /\ told = None
  BY DEF CInit, Init
<1>1. JournalType
  BY <1>0, SMTT(60) DEF JournalType, Permits
<1>2. FileInv
  <2>1. Registered = {}
    BY <1>0 DEF Registered
  <2>2. Cardinality(Registered) = 0
    BY <2>1, FS_EmptySet
  <2> QED BY <1>0, <2>2, JournalBounds, SMTT(60) DEF FileInv, AuditEvents
<1>3. BehindInv /\ CallInv
  BY <1>0, SMTT(60) DEF BehindInv, CallInv, AuditRow
<1>4. PortType
  BY <1>0 DEF PortType, Fresh, Unbound, Connections, Clients
<1>5. RunningInv /\ ConnInv /\ StaleInv
  BY <1>0 DEF RunningInv, ConnInv, ConnOk, StaleInv, Running, InFlight, Fresh
<1>6. ClientInv
  BY <1>0, NoCommand DEF ClientInv, Unbound
<1>7. ToldTrue
  BY <1>0, SMTT(60) DEF ToldTrue, ReceiptsTrue
<1> QED BY <1>1, <1>2, <1>3, <1>4, <1>5, <1>6, <1>7 DEF CommandInv, JournalInv, PortInv

\* Nothing that the invariant speaks of changes in a stuttering step, but what was told
\* may stay.
LEMMA StutterSound == ASSUME CommandInv, UNCHANGED cvars PROVE CommandInv'
<1>0. JournalInv /\ PortInv /\ ToldTrue /\ UNCHANGED vars /\ UNCHANGED <<conns, client>> /\ told' = told
  BY DEF CommandInv, cvars, ports
<1>1. JournalInv' /\ Later /\ events' = events /\ ReceiptsTrue'
  BY <1>0, VarsRest, ReceiptsHold
<1>2. PortInv'
  <2>1. Serving = {} \/ (call # None /\ PublishInv)
    <3>1. \A c \in Serving : Works(conns[c].req)
      BY <1>0, ServingRuns DEF PortInv, RunningInv
    <3> QED BY <3>1 DEF Works
  <2>2. call' = call /\ (PublishInv => PublishInv')
    BY <1>0 DEF vars, disk, PublishInv, Committed
  <2> QED BY <1>0, <1>1, <2>1, <2>2, PortsRest
<1>3. ToldTrue'
  BY <1>0, <1>1 DEF ToldTrue
<1> QED BY <1>1, <1>2, <1>3 DEF CommandInv

\* Every step of the client, the connections, the mailbox and the journal keeps the
\* invariant.
LEMMA NextSound == ASSUME CommandInv, [CNext]_cvars PROVE CommandInv'
<1>1. CASE OwnerCalls \/ OwnerOpens
  BY <1>1, OwnerCallsSound
<1>2. CASE OwnerEnds
  BY <1>2, OwnerEndsSound
<1>3. ASSUME NEW retained \in Retainable, ClientPublish(retained) PROVE CommandInv'
  BY <1>3, ClientPublishSound
<1>4. CASE ClientInquire
  BY <1>4, ClientInquireSound
<1>5. CASE ClientReceive
  BY <1>5, ClientReceiveSound
<1>6. CASE ClientAbandon \/ RestoreUnknown
  BY <1>6, ClientLeavesSound
<1>7. ASSUME NEW c \in Conns, Rebind(c) PROVE CommandInv'
  BY <1>7, RebindSound
<1>8. ASSUME NEW c \in Conns, ServeRead(c) PROVE CommandInv'
  BY <1>8, ServeReadSound
<1>9. ASSUME NEW c \in Conns, ServeCancel(c) \/ ServeEnds(c) \/ ReleaseCancelled(c) PROVE CommandInv'
  BY <1>9, ServeDropsSound
<1>10. ASSUME NEW c \in Conns, NEW ok \in BOOLEAN,
              ExecuteFailed(c) \/ ExecuteInquire(c) \/ ExecuteAgain(c, ok) \/ ExecuteRefused(c, ok)
       PROVE  CommandInv'
  BY <1>10, ExecuteSound
<1>11. ASSUME NEW c \in Conns, ExecutePublish(c) PROVE CommandInv'
  BY <1>11, ExecutePublishSound
<1>12. ASSUME NEW c \in Conns, NEW ok \in BOOLEAN,
              PublishCommitted(c, ok) \/ PublishRolledBack(c, ok) \/ PublishDoubtful(c)
       PROVE  CommandInv'
  BY <1>12, PublishEndsSound
<1>13. CASE UNCHANGED cvars
  BY <1>13, StutterSound
<1>14. TRUE \in BOOLEAN
  OBVIOUS
<1> QED
  BY <1>1, <1>2, <1>3, <1>4, <1>5, <1>6, <1>7, <1>8, <1>9, <1>10, <1>11, <1>12, <1>13, <1>14 DEF CNext

\* Every reachable state of the client, its connections, the command mailbox and the
\* journal satisfies the inductive invariant.
THEOREM CommandInvariance == CSpec => []CommandInv
<1>1. CommandInv /\ [CNext]_cvars => CommandInv'
  BY NextSound
<1> QED BY InitSound, <1>1, PTL DEF CSpec

\* The event file passes its audit in every state, every cursor that was ever returned
\* is accepted, and a stored position covers only what polls returned to that consumer
\* (_audit, and the transactions of publish, subscribe and ack).
THEOREM CursorsAlwaysSound == CSpec => []CursorsSound
<1>1. CommandInv => CursorsSound
  BY DEF CommandInv, JournalInv, FileInv, BehindInv, CursorsSound, Audit, Registered
<1> QED BY <1>1, CommandInvariance, PTL

\* Receipts stay true, and the client is told nothing that is not so (#perform on what
\* _execute answered, for any journal error and any lost connection).
THEOREM ToldAlwaysTrue == CSpec => []ToldTrue
<1>1. CommandInv => ToldTrue
  BY DEF CommandInv
<1> QED BY <1>1, CommandInvariance, PTL

\* A client that may publish again has no earlier publish left that could still write
\* (requiresInquiry, from #retire and restoreUnknown to an answered inquiry).
THEOREM NoneEverInFlight == CSpec => []NoneInFlight
<1>1. ASSUME CommandInv PROVE NoneInFlight
  <2>1. StaleInv /\ PortType
    BY <1>1 DEF CommandInv, PortInv
  <2>2. SUFFICES ASSUME client.active = None, ~client.requires, client.retained # None,
                        NEW c \in Conns, Stage(c) \in {"sent", "queued", "running"},
                        conns[c].req.kind # "inquire"
                 PROVE  conns[c].req.op \in Committed
    BY DEF NoneInFlight
  <2>3. InFlight(conns[c])
    BY <2>2 DEF Stage, InFlight
  <2>4. conns[c].req.kind = "publish"
    BY <2>1, <2>2, <2>3 DEF InFlight, PortType, Connections, Requests
  <2> QED BY <2>1, <2>2, <2>3, <2>4, NoCommand DEF StaleInv
<1> QED BY <1>1, CommandInvariance, PTL
=============================================================================

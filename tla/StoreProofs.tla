---------------------------- MODULE StoreProofs ----------------------------
(* Proofs about Store for every value of its constants. *)
EXTENDS Store, TLAPS

USE ZenonT(60)

\* The inserts of one transaction keep the columns of every table they touch.
LEMMA InsertTypes ==
    ASSUME TypeOK, NEW p \in Prepared, Insert(p), reserved[p.rid] # None
    PROVE  /\ log' \in Seq(Prepared)
           /\ actors' \in [Chains -> ActorState \cup {None}]
           /\ catalog' \in [Spaces \X Objects -> Caches \cup {None}]
           /\ outbox' \in [Envelopes -> OutboxStates]
           /\ reserved' \in [Nonces -> Reservation \cup {None}]
<1> USE PreparedAssumption
<1>1. log' \in Seq(Prepared)
  BY SMTT(60) DEF TypeOK, Insert
<1>2. actors' \in [Chains -> ActorState \cup {None}]
  BY DEF TypeOK, Insert, Chain, Chains, ActorState
<1>3. catalog' \in [Spaces \X Objects -> Caches \cup {None}]
  BY DEF TypeOK, Insert, Document
<1>4. outbox' \in [Envelopes -> OutboxStates]
  BY DEF TypeOK, Insert, OutboxStates
<1>5. reserved' \in [Nonces -> Reservation \cup {None}]
  <2>1. p.rid \in Nonces /\ p.eid \in Envelopes
    OBVIOUS
  <2>2. /\ reserved \in [Nonces -> Reservation \cup {None}]
        /\ reserved' = [reserved EXCEPT ![p.rid].consumedBy = p.eid]
    BY DEF TypeOK, Insert
  <2>3. reserved[p.rid] \in Reservation
    BY <2>1, <2>2
  <2>4. [reserved[p.rid] EXCEPT !.consumedBy = p.eid] \in Reservation
    BY <2>1, <2>3 DEF Reservation
  <2> QED BY <2>1, <2>2, <2>4
<1> QED BY <1>1, <1>2, <1>3, <1>4, <1>5

(* A step either inserts a commit, or changes one group of rows, or leaves  *)
(* all rows but the fence alone.                                            *)
Inserting ==
    /\ Ready /\ Insert(call.p)
    /\ call' = None
    /\ UNCHANGED <<fence, epoch, intents, disk>>

Quiet == UNCHANGED <<epoch, intents, reserved, log, actors, catalog, outbox>>

\* Every step inserts a commit, leaves the tables alone, or is one of five
\* methods that each change a single group of rows.
LEMMA StepKinds ==
    ASSUME [Next]_vars
    PROVE  \/ Inserting
           \/ Quiet
           \/ \E s \in Spaces, e \in Nat : ConfigureSpace(s, e)
           \/ \E s \in Spaces : AdvanceEpoch(s)
           \/ \E o \in Ops, d \in Digests, n \in Nonces : ReserveNonce(o, d, n)
           \/ \E e \in Envelopes : MarkInflight(e)
           \/ RecoverOutbox
<1> USE BoundAssumption
<1>1. CASE CommitDone \/ CommitUnknown \/ CommitCrash
  BY <1>1 DEF CommitDone, CommitUnknown, CommitCrash, Inserting, Quiet, Answer
<1>2. CASE \E s \in Spaces, e \in 0 .. MaxEpoch : ConfigureSpace(s, e)
  BY <1>2, SMTT(60)
<1>3. CASE \/ Open \/ Close \/ Crash \/ RotateFence
           \/ CollectOrphans \/ CollectCrash
           \/ PublishExisting \/ PublishPart \/ PublishRename \/ CommitAborted
           \/ UNCHANGED vars
  BY <1>3 DEF Open, Close, Crash, RotateFence, CollectOrphans, CollectCrash,
     PublishExisting, PublishPart, PublishRename, CommitAborted, vars, db, Quiet
<1>4. CASE \E p \in Prepared :
          \/ LookupOperation(p)
          \/ CommitAgain(p)
          \/ \E token \in 1 .. fence : CommitRefused(p, token) \/ CommitStart(p, token)
  BY <1>4 DEF LookupOperation, CommitAgain, CommitRefused, CommitStart, db, Quiet
<1> QED BY <1>1, <1>2, <1>3, <1>4 DEF Next

\* An index within the length of a sequence names one of its elements.
LEMMA ElementType ==
    ASSUME NEW S, NEW q \in Seq(S), NEW i \in Nat \ {0}, i <= Len(q)
    PROVE  q[i] \in S /\ i \in DOMAIN q
BY SMTT(60)

\* A running commit has the fields of a call, also after its next block.
LEMMA CallTypes ==
    ASSUME TypeOK, call # None
    PROVE  /\ call.at \in Nat \ {0} /\ call.p \in Prepared /\ call.part \in BOOLEAN
           /\ At(call.at, TRUE) \in Call /\ At(call.at + 1, FALSE) \in Call
BY SMTT(60) DEF TypeOK, Call, At

\* Every step keeps the types of the tables, the files and the call.
LEMMA TypeStep ==
    ASSUME TypeOK, [Next]_vars
    PROVE  TypeOK'
<1> USE PreparedAssumption, BoundAssumption DEF TypeOK
<1>1. CASE Open
  BY <1>1, SMTT(60) DEF Open, disk, told
<1>2. CASE Close
  BY <1>2 DEF Close, db, disk, told
<1>3. CASE Crash
  <2>1. parts' \in Nat /\ reply' \in Reply \cup {None}
    BY <1>3, SMTT(60) DEF Crash
  <2> QED BY <1>3, <2>1 DEF Crash, db
<1>4. CASE RotateFence
  BY <1>4, SMTT(60) DEF RotateFence, disk, told
<1>5. ASSUME NEW s \in Spaces, NEW e \in 0 .. MaxEpoch, ConfigureSpace(s, e)
      PROVE  TypeOK'
  BY <1>5, SMTT(60) DEF ConfigureSpace, disk, told
<1>6. ASSUME NEW s \in Spaces, AdvanceEpoch(s)
      PROVE  TypeOK'
  BY <1>6, SMTT(60) DEF AdvanceEpoch, ActorsDropped, disk, told, OutboxStates
<1>7. ASSUME NEW o \in Ops, NEW d \in Digests, NEW n \in Nonces, ReserveNonce(o, d, n)
      PROVE  TypeOK'
  BY <1>7, SMTT(60) DEF ReserveNonce, disk, told, Reservation
<1>8. ASSUME NEW e \in Envelopes, MarkInflight(e)
      PROVE  TypeOK'
  BY <1>8 DEF MarkInflight, disk, told, OutboxStates
<1>9. CASE RecoverOutbox
  BY <1>9 DEF RecoverOutbox, Recovered, disk, told, OutboxStates
<1>10. ASSUME NEW p \in Prepared, LookupOperation(p)
       PROVE  TypeOK'
  BY <1>10, SMTT(60) DEF LookupOperation, db, disk
<1>11. ASSUME NEW p \in Prepared, CommitAgain(p)
       PROVE  TypeOK'
  BY <1>11, SMTT(60) DEF CommitAgain, Answer, Reply, db, disk
<1>12. ASSUME NEW p \in Prepared, NEW t \in 1 .. fence, CommitRefused(p, t)
       PROVE  TypeOK'
  BY <1>12, SMTT(60) DEF CommitRefused, Answer, Reply, db, disk
<1>13. ASSUME NEW p \in Prepared, NEW t \in 1 .. fence, CommitStart(p, t)
       PROVE  TypeOK'
  BY <1>13, SMTT(60) DEF CommitStart, Call, db, disk, told
<1>14. CASE PublishExisting
  <2>1. call' \in Call
    BY <1>14, CallTypes DEF PublishExisting, Publishing
  <2> QED BY <1>14, <2>1 DEF PublishExisting, db, disk, told
<1>15. CASE PublishPart
  <2>1. call' \in Call
    BY <1>15, CallTypes DEF PublishPart, Publishing
  <2> QED BY <1>15, <2>1 DEF PublishPart, db, disk, told
<1>16. CASE PublishRename
  <2>1. call' \in Call
    BY <1>16, CallTypes DEF PublishRename, Publishing
  <2>2. call.p.blocks[call.at] \in Blocks
    <3>1. call.p.blocks \in Seq(Blocks)
      BY <1>16, CallTypes DEF PublishRename, Publishing
    <3>2. call.at \in Nat \ {0} /\ call.at <= Len(call.p.blocks)
      BY <1>16, CallTypes DEF PublishRename, Publishing
    <3> QED BY <3>1, <3>2, ElementType
  <2> QED BY <1>16, <2>1, <2>2 DEF PublishRename, db, told
<1>17. CASE CommitDone \/ CommitUnknown \/ CommitCrash
  <2>1. call.p \in Prepared /\ call # None
    BY <1>17 DEF CommitDone, CommitUnknown, CommitCrash, Ready, Call
  <2>2. reserved[call.p.rid] # None
    BY <1>17 DEF CommitDone, CommitUnknown, CommitCrash, Ready, CheckState
  <2>3. /\ log' \in Seq(Prepared)
        /\ actors' \in [Chains -> ActorState \cup {None}]
        /\ catalog' \in [Spaces \X Objects -> Caches \cup {None}]
        /\ outbox' \in [Envelopes -> OutboxStates]
        /\ reserved' \in [Nonces -> Reservation \cup {None}]
    <3>1. CASE Insert(call.p)
      BY <2>1, <2>2, <3>1, InsertTypes
    <3>2. CASE UNCHANGED <<log, actors, catalog, outbox, reserved>>
      BY <3>2
    <3> QED BY <1>17, <3>1, <3>2 DEF CommitDone, CommitUnknown, CommitCrash
  <2>4. reply' \in Reply \cup {None} /\ call' = None
    BY <1>17, <2>1, SMTT(60) DEF CommitDone, CommitUnknown, CommitCrash, Answer, Reply
  <2>5. receipts' \in SUBSET (Ops \X Envelopes)
    BY <1>17, <2>1, SMTT(60) DEF CommitDone, CommitUnknown, CommitCrash, Answer, GivesReceipt
  <2>6. up' \in BOOLEAN /\ UNCHANGED <<fence, epoch, intents, files, parts>>
    BY <1>17 DEF CommitDone, CommitUnknown, CommitCrash, disk
  <2> QED BY <2>3, <2>4, <2>5, <2>6
<1>18. CASE CommitAborted
  BY <1>18, SMTT(60) DEF CommitAborted, Answer, Reply, Call, db, disk
<1>19. CASE CollectOrphans
  BY <1>19 DEF CollectOrphans, db, told
<1>20. CASE CollectCrash
  <2>1. files' \in SUBSET Blocks /\ parts' \in Nat
    BY <1>20, SMTT(60) DEF CollectCrash
  <2> QED BY <1>20, <2>1 DEF CollectCrash, db, told
<1>21. CASE UNCHANGED vars
  BY <1>21 DEF vars, db, disk, told
<1> QED
  BY <1>1, <1>2, <1>3, <1>4, <1>5, <1>6, <1>7, <1>8, <1>9, <1>10, <1>11, <1>12,
     <1>13, <1>14, <1>15, <1>16, <1>17, <1>18, <1>19, <1>20, <1>21 DEF Next

-----------------------------------------------------------------------------
(* What an insertion does to the log and to the reservations. *)

\* The committed rows are numbered from 1 and are prepared records.
LEMMA LogTypes ==
    ASSUME TypeOK
    PROVE  /\ Len(log) \in Nat /\ DOMAIN log = 1 .. Len(log)
           /\ \A i \in DOMAIN log : log[i] \in Prepared
           /\ Committed \subseteq Prepared
BY SMTT(60) DEF TypeOK, Committed

\* An insertion adds one row at the end of local_commits and changes no other.
LEMMA InsertLog ==
    ASSUME TypeOK, NEW p \in Prepared, Insert(p)
    PROVE  /\ DOMAIN log' = DOMAIN log \cup {Len(log) + 1}
           /\ \A i \in DOMAIN log : log'[i] = log[i] /\ i < Len(log) + 1
           /\ log'[Len(log) + 1] = p
           /\ Committed' = Committed \cup {p}
<1>1. log \in Seq(Prepared) /\ log' = Append(log, p)
  BY DEF TypeOK, Insert
<1>2. /\ DOMAIN log' = DOMAIN log \cup {Len(log) + 1}
      /\ \A i \in DOMAIN log : log'[i] = log[i] /\ i < Len(log) + 1
      /\ log'[Len(log) + 1] = p
  BY <1>1, SMTT(60)
<1>3. Committed' = Committed \cup {p}
  BY <1>2, SMTT(60) DEF Committed
<1> QED BY <1>2, <1>3

\* An insertion consumes its own reservation and changes no other.
LEMMA InsertReserved ==
    ASSUME TypeOK, NEW p \in Prepared, Insert(p), reserved[p.rid] # None
    PROVE  /\ \A n \in Nonces : n # p.rid => reserved'[n] = reserved[n]
           /\ reserved'[p.rid] = [op |-> reserved[p.rid].op,
                                  digest |-> reserved[p.rid].digest,
                                  consumedBy |-> p.eid]
<1>1. p.rid \in Nonces
  BY PreparedAssumption
<1>2. reserved[p.rid] \in Reservation
  BY <1>1 DEF TypeOK
<1>3. reserved' = [reserved EXCEPT ![p.rid].consumedBy = p.eid]
  BY DEF Insert
<1>4. reserved'[p.rid] = [reserved[p.rid] EXCEPT !.consumedBy = p.eid]
  BY <1>1, <1>3 DEF TypeOK
<1>5. reserved'[p.rid] = [op |-> reserved[p.rid].op,
                          digest |-> reserved[p.rid].digest,
                          consumedBy |-> p.eid]
  BY <1>2, <1>4 DEF Reservation
<1> QED BY <1>1, <1>3, <1>5 DEF TypeOK

\* What _check_state and the UNIQUE constraints have established when the rows
\* of a commit are inserted.
LEMMA InsertingFacts ==
    ASSUME TypeOK, Inserting
    PROVE  /\ call # None /\ call.p \in Prepared
           /\ Insert(call.p)
           /\ CheckState(call.p, call.token) /\ InsertsAdmitted(call.p)
           /\ reserved[call.p.rid] # None
           /\ call.at > Len(call.p.blocks)
           /\ UNCHANGED <<fence, epoch, intents, files, parts>>
BY CallTypes DEF Inserting, Ready, CheckState, disk

-----------------------------------------------------------------------------
(* The invariants of the rows, one lemma each; StepKinds gives the cases. *)

\* reserve_nonce binds a reservation to its operation's one input, and a commit
\* consumes a reservation without touching that binding.
LEMMA ReservationsStep ==
    ASSUME IndInv, [Next]_vars
    PROVE  ReservationsBound'
<1> USE DEF IndInv, ReservationsBound
<1>1. CASE Inserting
  <2>1. call.p \in Prepared /\ Insert(call.p) /\ reserved[call.p.rid] # None
        /\ UNCHANGED intents
    BY <1>1, InsertingFacts
  <2>2. /\ \A n \in Nonces : n # call.p.rid => reserved'[n] = reserved[n]
        /\ reserved'[call.p.rid] = [op |-> reserved[call.p.rid].op,
                               digest |-> reserved[call.p.rid].digest,
                               consumedBy |-> call.p.eid]
    BY <2>1, InsertReserved
  <2>3. call.p.rid \in Nonces
    BY <2>1, PreparedAssumption
  <2> QED BY <2>1, <2>2, <2>3, SMTT(60)
<1>2. ASSUME NEW o \in Ops, NEW d \in Digests, NEW n \in Nonces, ReserveNonce(o, d, n)
      PROVE  ReservationsBound'
  <2>1. \A m \in Nonces : m # n => reserved'[m] = reserved[m]
    BY <1>2 DEF ReserveNonce, TypeOK
  <2>2. reserved'[n] = [op |-> o, digest |-> d, consumedBy |-> None] /\ intents'[o] = d
    BY <1>2 DEF ReserveNonce, TypeOK
  <2>3. \A q \in Ops : intents[q] # None => intents'[q] = intents[q]
    BY <1>2 DEF ReserveNonce, TypeOK
  <2>4. \A m \in Nonces : reserved[m] # None =>
            /\ reserved[m].op \in Ops /\ reserved[m].digest \in Digests
    BY DEF TypeOK, Reservation
  <2>5. None \notin Digests
    BY NoneAssumption
  <2> QED BY <2>1, <2>2, <2>3, <2>4, <2>5, SMTT(60)
<1>3. CASE UNCHANGED <<intents, reserved>>
  BY <1>3
<1> QED BY <1>1, <1>2, <1>3, StepKinds
     DEF Quiet, ConfigureSpace, AdvanceEpoch, MarkInflight, RecoverOutbox

\* advance_epoch only moves forward and commit accepts the current epoch only,
\* so no row is ahead of its space.
LEMMA EpochsStep ==
    ASSUME IndInv, [Next]_vars
    PROVE  EpochsReached'
<1> USE DEF IndInv, EpochsReached
<1>0. Committed \subseteq Prepared
  BY LogTypes
<1>1. CASE Inserting
  <2>1. /\ Committed' = Committed \cup {call.p}
        /\ epoch[call.p.space] = call.p.epoch
        /\ call.p.epoch \in Nat
        /\ UNCHANGED epoch
    BY <1>1, InsertingFacts, InsertLog, PreparedAssumption DEF CheckState
  <2> QED BY <2>1, NoneAssumption, SMTT(60)
<1>2. ASSUME NEW s \in Spaces, NEW e \in Nat, ConfigureSpace(s, e)
      PROVE  EpochsReached'
  <2>1. /\ UNCHANGED Committed
        /\ \A t \in Spaces : t # s => epoch'[t] = epoch[t]
        /\ epoch[s] = None
    BY <1>2, SMTT(60) DEF ConfigureSpace, TypeOK, Committed
  <2> QED BY <1>0, <2>1, PreparedAssumption
<1>3. ASSUME NEW s \in Spaces, AdvanceEpoch(s)
      PROVE  EpochsReached'
  <2>1. /\ UNCHANGED Committed
        /\ \A t \in Spaces : t # s => epoch'[t] = epoch[t]
        /\ epoch[s] \in Nat /\ epoch'[s] = epoch[s] + 1
    <3>1. /\ log' = log /\ epoch' = [epoch EXCEPT ![s] = @ + 1]
          /\ epoch \in [Spaces -> Nat \cup {None}] /\ epoch[s] # None
      BY <1>3 DEF AdvanceEpoch, TypeOK
    <3>2. UNCHANGED Committed
      BY <3>1 DEF Committed
    <3> QED BY <3>1, <3>2
  <2>2. \A p \in Committed : p.epoch \in Nat /\ p.space \in Spaces
    BY <1>0, PreparedAssumption
  <2> QED BY <2>1, <2>2, NoneAssumption, SMTT(60)
<1>4. CASE UNCHANGED <<epoch, log>>
  BY <1>4 DEF Committed
<1> QED BY <1>1, <1>2, <1>3, <1>4, StepKinds
     DEF Quiet, ReserveNonce, MarkInflight, RecoverOutbox

\* A commit consumes exactly the reservation made for its operation and input,
\* and nothing releases it afterwards.
LEMMA NonceBindingStep ==
    ASSUME IndInv, [Next]_vars
    PROVE  NonceBinding'
<1> USE DEF IndInv, Audit, NonceBinding
<1>0. Committed \subseteq Prepared
  BY LogTypes
<1>1. CASE Inserting
  <2>1. /\ Committed' = Committed \cup {call.p}
        /\ call.p \in Prepared
        /\ UNCHANGED intents
        /\ \A q \in Committed : q.rid # call.p.rid
        /\ reserved[call.p.rid].op = call.p.op
        /\ intents[call.p.op] = call.p.digest
    BY <1>1, InsertingFacts, InsertLog DEF CheckState, InsertsAdmitted
  <2>2. /\ \A n \in Nonces : n # call.p.rid => reserved'[n] = reserved[n]
        /\ reserved'[call.p.rid] = [op |-> reserved[call.p.rid].op,
                               digest |-> reserved[call.p.rid].digest,
                               consumedBy |-> call.p.eid]
    BY <1>1, InsertingFacts, InsertReserved
  <2>3. \A q \in Prepared : q.rid \in Nonces
    BY PreparedAssumption
  <2>4. reserved[call.p.rid].digest = call.p.digest
    BY <1>1, <2>1, <2>3, InsertingFacts DEF ReservationsBound
  <2>5. reserved'[call.p.rid] # None
    <3>1. reserved[call.p.rid] \in Reservation /\ call.p.eid \in Envelopes
      BY <1>1, <2>1, <2>3, InsertingFacts, PreparedAssumption DEF TypeOK
    <3>2. reserved'[call.p.rid] \in Reservation
      <4>1. PICK v \in Reservation : v = reserved[call.p.rid]
        BY <3>1
      <4>2. \A e \in Envelopes :
               [op |-> v.op, digest |-> v.digest, consumedBy |-> e] \in Reservation
        BY DEF Reservation
      <4> QED BY <2>2, <3>1, <4>1, <4>2
    <3> QED BY <3>2, NoneAssumption DEF Reservation
  <2>6. ASSUME NEW q \in Committed, q # call.p
        PROVE  reserved'[q.rid] = reserved[q.rid]
    BY <1>0, <2>1, <2>2, <2>3, <2>6
  <2>7. /\ reserved'[call.p.rid].op = call.p.op
        /\ reserved'[call.p.rid].digest = call.p.digest
        /\ reserved'[call.p.rid].consumedBy = call.p.eid
    <3>1. PICK row : row = reserved'[call.p.rid]
      OBVIOUS
    <3>2. row = [op |-> reserved[call.p.rid].op,
                 digest |-> reserved[call.p.rid].digest,
                 consumedBy |-> call.p.eid]
      BY <2>2, <3>1
    <3>3. /\ row.op = reserved[call.p.rid].op
          /\ row.digest = reserved[call.p.rid].digest
          /\ row.consumedBy = call.p.eid
      BY <3>2
    <3> QED BY <2>1, <2>4, <3>1, <3>3
  <2>8. ASSUME NEW q \in Committed' PROVE q = call.p \/ q \in Committed
    BY <2>1
  <2> QED BY <2>1, <2>5, <2>6, <2>7, <2>8, SMTT(60)
<1>2. ASSUME NEW o \in Ops, NEW d \in Digests, NEW n \in Nonces, ReserveNonce(o, d, n)
      PROVE  NonceBinding'
  <2>1. /\ UNCHANGED Committed
        /\ \A m \in Nonces : m # n => reserved'[m] = reserved[m]
        /\ \A q \in Ops : q # o => intents'[q] = intents[q]
        /\ reserved[n] = None
        /\ \A p \in Committed : p.op # o
    BY <1>2, SMTT(60) DEF ReserveNonce, TypeOK, Committed
  <2>2. \A p \in Committed : p.op \in Ops /\ p.rid \in Nonces
    BY <1>0, PreparedAssumption
  <2> QED BY <2>1, <2>2, SMTT(60)
<1>3. CASE UNCHANGED <<intents, reserved, log>>
  BY <1>3 DEF Committed
<1> QED BY <1>1, <1>2, <1>3, StepKinds
     DEF Quiet, ConfigureSpace, AdvanceEpoch, MarkInflight, RecoverOutbox

\* An insertion brings its outbox row with it, and no later step removes one.
LEMMA AtomicSetStep ==
    ASSUME IndInv, [Next]_vars
    PROVE  AtomicSet'
<1> USE DEF IndInv, Audit, AtomicSet
<1>1. CASE Inserting
  <2>1. Committed' = Committed \cup {call.p} /\ call.p.eid \in Envelopes
    BY <1>1, InsertingFacts, InsertLog, PreparedAssumption
  <2>2. outbox' = [outbox EXCEPT ![call.p.eid] = "pending"]
    BY <1>1 DEF Inserting, Insert
  <2> QED BY <2>1, <2>2 DEF TypeOK
<1>2. ASSUME NEW s \in Spaces, AdvanceEpoch(s)
      PROVE  AtomicSet'
  BY <1>2, SMTT(60) DEF AdvanceEpoch, ActorsDropped, Committed
<1>3. ASSUME NEW e \in Envelopes, MarkInflight(e)
      PROVE  AtomicSet'
  BY <1>3, SMTT(60) DEF MarkInflight, Committed, TypeOK
<1>4. CASE RecoverOutbox
  BY <1>4, SMTT(60) DEF RecoverOutbox, Recovered, Committed
<1>5. CASE UNCHANGED <<outbox, log>>
  BY <1>5 DEF Committed
<1> QED BY <1>1, <1>2, <1>3, <1>4, <1>5, StepKinds DEF Quiet, ConfigureSpace, ReserveNonce

\* advance_epoch sets the undelivered envelopes of its space aside; neither a
\* commit nor recover_outbox brings one of an earlier epoch back.
LEMMA OutboxStep ==
    ASSUME IndInv, [Next]_vars
    PROVE  OutboxCurrent'
<1> USE DEF IndInv, OutboxCurrent
<1>0. Committed \subseteq Prepared /\ \A p \in Prepared : p.eid \in Envelopes /\ p.space \in Spaces
  BY LogTypes, PreparedAssumption
<1>1. CASE Inserting
  <2>1. /\ Committed' = Committed \cup {call.p} /\ call.p \in Prepared
        /\ UNCHANGED epoch
        /\ epoch[call.p.space] = call.p.epoch
        /\ \A q \in Committed : q.eid # call.p.eid
    BY <1>1, InsertingFacts, InsertLog DEF CheckState, InsertsAdmitted
  <2>2. \A e \in Envelopes : e # call.p.eid => outbox'[e] = outbox[e]
    BY <1>1 DEF Inserting, Insert, TypeOK
  <2> QED BY <1>0, <2>1, <2>2
<1>2. ASSUME NEW s \in Spaces, NEW e \in Nat, ConfigureSpace(s, e)
      PROVE  OutboxCurrent'
  <2>1. /\ UNCHANGED <<Committed, outbox>>
        /\ \A t \in Spaces : t # s => epoch'[t] = epoch[t]
        /\ epoch[s] = None
    BY <1>2 DEF ConfigureSpace, TypeOK, Committed
  <2> QED BY <1>0, <2>1 DEF EpochsReached
<1>3. ASSUME NEW s \in Spaces, AdvanceEpoch(s)
      PROVE  OutboxCurrent'
  <2>1. /\ UNCHANGED Committed
        /\ \A t \in Spaces : t # s => epoch'[t] = epoch[t]
        /\ \A e \in Envelopes : outbox'[e] =
                    IF /\ outbox[e] \in {"pending", "in-flight"}
                       /\ \E p \in Committed : p.eid = e /\ p.space = s
                    THEN "rebase-required" ELSE outbox[e]
    BY <1>3 DEF AdvanceEpoch, ActorsDropped, TypeOK, Committed
  <2> QED BY <1>0, <2>1
<1>4. ASSUME NEW e \in Envelopes, MarkInflight(e)
      PROVE  OutboxCurrent'
  BY <1>0, <1>4 DEF MarkInflight, Committed, TypeOK
<1>5. CASE RecoverOutbox
  BY <1>0, <1>5 DEF RecoverOutbox, Recovered, Committed
<1>6. CASE UNCHANGED <<outbox, log, epoch>>
  BY <1>6 DEF Committed
<1> QED BY <1>1, <1>2, <1>3, <1>4, <1>5, <1>6, StepKinds DEF Quiet, ReserveNonce

\* The lookup by operation and the UNIQUE columns keep two rows from sharing an
\* operation, a reservation or an envelope.
LEMMA DistinctStep ==
    ASSUME IndInv, [Next]_vars
    PROVE  CommitsDistinct'
<1> USE DEF IndInv, CommitsDistinct
<1>1. CASE Inserting
  <2>1. /\ DOMAIN log' = DOMAIN log \cup {Len(log) + 1}
        /\ \A i \in DOMAIN log : log'[i] = log[i] /\ log[i] \in Committed
        /\ log'[Len(log) + 1] = call.p
    BY <1>1, InsertingFacts, InsertLog DEF Committed
  <2>2. \A q \in Committed : q.op # call.p.op /\ q.rid # call.p.rid /\ q.eid # call.p.eid
    BY <1>1, InsertingFacts DEF InsertsAdmitted
  <2> QED BY <2>1, <2>2
<1>2. CASE UNCHANGED log
  BY <1>2
<1> QED BY <1>1, <1>2, StepKinds
     DEF Quiet, ConfigureSpace, AdvanceEpoch, ReserveNonce, MarkInflight, RecoverOutbox

\* actor_states is the last row of each chain in the current epoch: an insertion
\* moves both, and advance_epoch empties both.
LEMMA ActorStatesStep ==
    ASSUME IndInv, [Next]_vars
    PROVE  ActorStates'
<1> USE DEF IndInv, Audit
<1>0. /\ \A i \in DOMAIN log : log[i] \in Prepared /\ log[i] \in Committed
      /\ \A p \in Prepared : Chain(p) \in Chains /\ Chain(p)[1] = p.space
                             /\ p.space \in Spaces /\ p.epoch \in Nat
      /\ \A k \in Chains : k[1] \in Spaces
      /\ DOMAIN log = 1 .. Len(log) /\ Len(log) \in Nat
  BY LogTypes, PreparedAssumption DEF Committed, Chain, Chains
<1>1. CASE Inserting
  <2>p. PICK p \in Prepared : p = call.p
    BY <1>1, InsertingFacts
  <2>n. PICK n \in Nat : n = Len(log) + 1
    BY LogTypes, SMTT(60)
  <2>1. /\ DOMAIN log' = DOMAIN log \cup {n}
        /\ \A i \in DOMAIN log : log'[i] = log[i] /\ i < n
        /\ log'[n] = p
        /\ epoch' = epoch /\ epoch[p.space] = p.epoch
    BY <1>1, <2>p, <2>n, InsertingFacts, InsertLog DEF CheckState
  <2>2. actors' = [actors EXCEPT ![Chain(p)] =
                     [gen |-> p.gen, last |-> p.seq, prev |-> p.eid]]
    BY <1>1, <2>p DEF Inserting, Insert
  <2>3. ASSUME NEW k \in Chains, k # Chain(p)
        PROVE  Live(k)' = Live(k) /\ actors'[k] = actors[k]
    BY <1>0, <2>1, <2>2, <2>3 DEF Live, TypeOK
  <2>4. Live(Chain(p))' = Live(Chain(p)) \cup {n}
    BY <1>0, <2>1 DEF Live
  <2>5. /\ n \in Live(Chain(p))'
        /\ \A j \in Live(Chain(p))' : j <= n
        /\ actors'[Chain(p)] = [gen |-> p.gen, last |-> p.seq, prev |-> p.eid]
    <3>1. n \in Live(Chain(p))'
      BY <2>4
    <3>2. n <= n /\ \A j \in Live(Chain(p)) : j <= n
      <4>1. \A j \in DOMAIN log : j \in Nat /\ j < n
        BY <1>0, <2>1, SMTT(60)
      <4> QED BY <4>1, SMTT(60) DEF Live
    <3>3. \A j \in Live(Chain(p))' : j <= n
      BY <2>4, <3>2
    <3>4. Chain(p) \in Chains /\ actors \in [Chains -> ActorState \cup {None}]
      BY PreparedAssumption DEF Chain, Chains, TypeOK
    <3>5. actors'[Chain(p)] = [gen |-> p.gen, last |-> p.seq, prev |-> p.eid]
      BY <2>2, <3>4
    <3> QED BY <3>1, <3>3, <3>5
  <2>6. ASSUME NEW k \in Chains
        PROVE  IF Live(k)' = {} THEN actors'[k] = None
               ELSE \E i \in Live(k)' :
                      /\ \A j \in Live(k)' : j <= i
                      /\ actors'[k] = [gen |-> log'[i].gen, last |-> log'[i].seq,
                                       prev |-> log'[i].eid]
    <3>1. CASE k = Chain(p)
      BY <2>1, <2>5, <3>1
    <3>2. CASE k # Chain(p)
      <4>1. \A i \in Live(k) : log'[i] = log[i]
        BY <2>1 DEF Live
      <4>2. Live(k)' = Live(k) /\ actors'[k] = actors[k]
        BY <2>3, <3>2
      <4>3. CASE Live(k) = {}
        BY <4>2, <4>3 DEF ActorStates
      <4>4. CASE Live(k) # {}
        <5>1. PICK i \in Live(k) : /\ \A j \in Live(k) : j <= i
                                   /\ actors[k] = [gen |-> log[i].gen, last |-> log[i].seq,
                                                    prev |-> log[i].eid]
          BY <4>4 DEF ActorStates
        <5> QED BY <4>1, <4>2, <4>4, <5>1
      <4> QED BY <4>3, <4>4
    <3> QED BY <3>1, <3>2
  <2> QED BY <2>6 DEF ActorStates
<1>2. ASSUME NEW s \in Spaces, NEW e \in Nat, ConfigureSpace(s, e)
      PROVE  ActorStates'
  <2>1. UNCHANGED <<log, actors>> /\ \A t \in Spaces : t # s => epoch'[t] = epoch[t]
    BY <1>2 DEF ConfigureSpace, TypeOK
  <2>2. \A k \in Chains : Live(k)' = Live(k)
    <3>1. \A i \in DOMAIN log : log[i].space # s
      BY <1>0, <1>2 DEF EpochsReached, ConfigureSpace
    <3> QED BY <1>0, <2>1, <3>1, SMTT(60) DEF Live
  <2> QED BY <2>1, <2>2 DEF ActorStates
<1>3. ASSUME NEW s \in Spaces, AdvanceEpoch(s)
      PROVE  ActorStates'
  <2>1. /\ UNCHANGED log
        /\ \A t \in Spaces : t # s => epoch'[t] = epoch[t]
        /\ epoch[s] \in Nat /\ epoch'[s] = epoch[s] + 1
        /\ \A k \in Chains : actors'[k] = IF k[1] = s THEN None ELSE actors[k]
    BY <1>3 DEF AdvanceEpoch, ActorsDropped, TypeOK
  <2>2. \A k \in Chains : k[1] # s => Live(k)' = Live(k)
    BY <1>0, <2>1, SMTT(60) DEF Live
  <2>3. \A k \in Chains : k[1] = s => Live(k)' = {}
    <3>1. \A i \in DOMAIN log : log[i].space = s => log[i].epoch # epoch'[s]
      BY <1>0, <2>1, SMTT(60) DEF EpochsReached
    <3> QED BY <1>0, <2>1, <3>1, SMTT(60) DEF Live
  <2> QED BY <2>1, <2>2, <2>3, SMTT(60) DEF ActorStates
<1>4. CASE UNCHANGED <<log, epoch, actors>>
  BY <1>4 DEF ActorStates, Live
<1> QED BY <1>1, <1>2, <1>3, <1>4, StepKinds
     DEF Quiet, ReserveNonce, MarkInflight, RecoverOutbox

\* The catalog holds the cache of the last committed row of each document.
LEMMA CacheReferenceStep ==
    ASSUME IndInv, [Next]_vars
    PROVE  CacheReference'
<1> USE DEF IndInv, Audit
<1>1. CASE Inserting
  <2>p. PICK p \in Prepared : p = call.p
    BY <1>1, InsertingFacts
  <2>n. PICK n \in Nat : n = Len(log) + 1
    BY LogTypes, SMTT(60)
  <2>1. /\ DOMAIN log' = DOMAIN log \cup {n}
        /\ \A i \in DOMAIN log : log'[i] = log[i] /\ i < n /\ i \in Nat
        /\ log'[n] = p
    <3>1. /\ DOMAIN log' = DOMAIN log \cup {n} /\ log'[n] = p
          /\ \A i \in DOMAIN log : log'[i] = log[i] /\ i < n
      BY <1>1, <2>p, <2>n, InsertingFacts, InsertLog
    <3>2. \A i \in DOMAIN log : i \in Nat
      BY LogTypes, SMTT(60)
    <3> QED BY <3>1, <3>2
  <2>0. Document(p) \in Spaces \X Objects
    BY <2>p, PreparedAssumption DEF Document
  <2>2. catalog' = [catalog EXCEPT ![Document(p)] = p.cache]
    BY <1>1, <2>p DEF Inserting, Insert
  <2>3. ASSUME NEW d \in Spaces \X Objects
        PROVE  IF Versions(d)' = {} THEN catalog'[d] = None
               ELSE \E i \in Versions(d)' :
                      /\ \A j \in Versions(d)' : j <= i
                      /\ catalog'[d] = log'[i].cache
    <3>1. CASE d = Document(p)
      <4>1. n \in Versions(d)' /\ \A j \in Versions(d)' : j <= n
        BY <2>1, <3>1, SMTT(60) DEF Versions
      <4>2. catalog'[d] = log'[n].cache
        BY <2>0, <2>1, <2>2, <3>1 DEF TypeOK
      <4> QED BY <4>1, <4>2
    <3>2. CASE d # Document(p)
      <4>1. Versions(d)' = Versions(d) /\ \A i \in Versions(d) : log'[i] = log[i]
        BY <2>1, <3>2 DEF Versions
      <4>2. catalog'[d] = catalog[d]
        BY <2>0, <2>1, <2>2, <3>2 DEF TypeOK
      <4> QED BY <4>1, <4>2, SMTT(60) DEF CacheReference
    <3> QED BY <3>1, <3>2
  <2> QED BY <2>3 DEF CacheReference
<1>2. CASE UNCHANGED <<log, catalog>>
  BY <1>2 DEF CacheReference, Versions
<1> QED BY <1>1, <1>2, StepKinds
     DEF Quiet, ConfigureSpace, AdvanceEpoch, ReserveNonce, MarkInflight, RecoverOutbox

\* An insertion continues the chain that actor_states summarises: the row names
\* the last commit of the chain in the current epoch (ActorStates).
LEMMA ChainsStep ==
    ASSUME IndInv, [Next]_vars
    PROVE  ChainsLinked'
<1> USE DEF IndInv, Audit
<1>1. CASE Inserting
  <2>p. PICK p \in Prepared : p = call.p
    BY <1>1, InsertingFacts
  <2>n. PICK n \in Nat : n = Len(log) + 1
    BY LogTypes, SMTT(60)
  <2>1. /\ DOMAIN log' = DOMAIN log \cup {n} /\ DOMAIN log = 1 .. (n - 1)
        /\ \A i \in DOMAIN log : log'[i] = log[i] /\ i < n
        /\ log'[n] = p
        /\ \A i \in DOMAIN log : log[i] \in Prepared /\ log[i] \in Committed
    <3>1. /\ DOMAIN log' = DOMAIN log \cup {n} /\ log'[n] = p
          /\ \A i \in DOMAIN log : log'[i] = log[i] /\ i < n
      BY <1>1, <2>p, <2>n, InsertingFacts, InsertLog
    <3>2. DOMAIN log = 1 .. (n - 1)
      BY <2>n, LogTypes, SMTT(60)
    <3>3. \A i \in DOMAIN log : log[i] \in Prepared /\ log[i] \in Committed
      BY LogTypes DEF Committed
    <3> QED BY <3>1, <3>2, <3>3
  <2>2. CheckState(p, call.token) /\ InsertsAdmitted(p)
    BY <1>1, <2>p, InsertingFacts
  <2>3. Chain(p) \in Chains /\ Chain(p)[1] = p.space
    BY PreparedAssumption DEF Chain, Chains
  <2>4. IF p.seq = 1 THEN p.prev = None
        ELSE \E j \in 1 .. (n - 1) :
               /\ Chain(log[j]) = Chain(p)
               /\ log[j].epoch = p.epoch
               /\ log[j].gen = p.gen
               /\ log[j].seq + 1 = p.seq
               /\ log[j].eid = p.prev
    <3>1. CASE actors[Chain(p)] = None
      BY <2>2, <3>1 DEF CheckState, ContinuesChain
    <3>2. CASE actors[Chain(p)] # None
      <4>1. PICK i \in Live(Chain(p)) :
               actors[Chain(p)] = [gen |-> log[i].gen, last |-> log[i].seq,
                                   prev |-> log[i].eid]
        BY <2>3, <3>2 DEF ActorStates
      <4>2. /\ i \in DOMAIN log /\ Chain(log[i]) = Chain(p)
            /\ log[i].epoch = p.epoch
        BY <2>2, <2>3, <4>1 DEF Live, CheckState
      <4>3. /\ log[i].gen = p.gen /\ log[i].seq + 1 = p.seq /\ log[i].eid = p.prev
        <5>1. ContinuesChain(p)
          BY <2>2 DEF CheckState
        <5>2. /\ actors[Chain(p)].gen = p.gen /\ actors[Chain(p)].last + 1 = p.seq
              /\ actors[Chain(p)].prev = p.prev
          BY <3>2, <5>1 DEF ContinuesChain
        <5>3. /\ actors[Chain(p)].gen = log[i].gen
              /\ actors[Chain(p)].last = log[i].seq
              /\ actors[Chain(p)].prev = log[i].eid
          <6>1. PICK row : row = actors[Chain(p)]
            OBVIOUS
          <6>2. row = [gen |-> log[i].gen, last |-> log[i].seq, prev |-> log[i].eid]
            BY <4>1, <6>1
          <6>3. row.gen = log[i].gen /\ row.last = log[i].seq /\ row.prev = log[i].eid
            BY <6>2
          <6> QED BY <6>1, <6>3
        <5> QED BY <5>2, <5>3
      <4>4. log[i].seq \in Nat \ {0}
        BY <2>1, <4>2, PreparedAssumption
      <4> QED BY <2>1, <4>2, <4>3, <4>4, SMTT(60)
    <3> QED BY <3>1, <3>2
  <2>5. \A i \in DOMAIN log : ~(/\ Chain(log[i]) = Chain(p)
                                /\ log[i].epoch = p.epoch /\ log[i].seq = p.seq)
    BY <2>1, <2>2 DEF InsertsAdmitted
  <2>6. ASSUME NEW i \in DOMAIN log'
        PROVE  /\ IF log'[i].seq = 1 THEN log'[i].prev = None
                  ELSE \E j \in 1 .. (i - 1) :
                          /\ Chain(log'[j]) = Chain(log'[i])
                          /\ log'[j].epoch = log'[i].epoch
                          /\ log'[j].gen = log'[i].gen
                          /\ log'[j].seq + 1 = log'[i].seq
                          /\ log'[j].eid = log'[i].prev
               /\ \A j \in DOMAIN log' :
                     /\ Chain(log'[j]) = Chain(log'[i])
                     /\ log'[j].epoch = log'[i].epoch
                     /\ log'[j].seq = log'[i].seq
                     => j = i
    <3>1. CASE i = n
      BY <2>1, <2>4, <2>5, <3>1, SMTT(60)
    <3>2. CASE i # n
      <4>1. i \in DOMAIN log /\ log'[i] = log[i] /\ i < n /\ i \in 1 .. (n - 1)
        BY <2>1, <3>2
      <4>2. \A j \in 1 .. (i - 1) : log'[j] = log[j] /\ j \in DOMAIN log
        BY <2>1, <4>1, SMTT(60)
      <4>3. IF log[i].seq = 1 THEN log[i].prev = None
            ELSE \E j \in 1 .. (i - 1) :
                    /\ Chain(log[j]) = Chain(log[i])
                    /\ log[j].epoch = log[i].epoch
                    /\ log[j].gen = log[i].gen
                    /\ log[j].seq + 1 = log[i].seq
                    /\ log[j].eid = log[i].prev
        BY <4>1 DEF ChainsLinked
      <4>4. ASSUME NEW j \in DOMAIN log',
                   /\ Chain(log'[j]) = Chain(log'[i])
                   /\ log'[j].epoch = log'[i].epoch
                   /\ log'[j].seq = log'[i].seq
            PROVE  j = i
        <5>1. j # n
          BY <2>1, <2>5, <4>1, <4>4
        <5>2. j \in DOMAIN log /\ log'[j] = log[j]
          BY <2>1, <5>1
        <5> QED BY <4>1, <4>4, <5>2 DEF ChainsLinked
      <4> QED BY <4>1, <4>2, <4>3, <4>4
    <3> QED BY <3>1, <3>2
  <2> QED BY <2>6 DEF ChainsLinked, Chain
<1>2. CASE UNCHANGED log
  BY <1>2 DEF ChainsLinked, Chain
<1> QED BY <1>1, <1>2, StepKinds
     DEF Quiet, ConfigureSpace, AdvanceEpoch, ReserveNonce, MarkInflight, RecoverOutbox

-----------------------------------------------------------------------------
(* The invariants about files, calls and answers, by action. *)

\* Every action that is not one of the three that may insert.
LEMMA LogKept ==
    ASSUME [Next]_vars, ~CommitDone, ~CommitUnknown, ~CommitCrash
    PROVE  UNCHANGED <<log, Committed, BlockRows>>
<1>1. UNCHANGED log
  BY DEF Next, Open, Close, Crash, RotateFence, ConfigureSpace, AdvanceEpoch,
     ReserveNonce, MarkInflight, RecoverOutbox, LookupOperation, CommitAgain,
     CommitRefused, CommitStart, PublishExisting, PublishPart, PublishRename,
     CommitAborted, CollectOrphans, CollectCrash, vars, db
<1> QED BY <1>1 DEF Committed, BlockRows

\* The three ends of a commit past its blocks either insert its rows or leave
\* the log as it was with the outcome unknown.
LEMMA CommitSteps ==
    ASSUME TypeOK, CommitDone \/ CommitUnknown \/ CommitCrash
    PROVE  /\ call # None /\ call.p \in Prepared
           /\ call' = None
           /\ UNCHANGED <<fence, files, parts>>
           /\ \/ Inserting /\ Committed' = Committed \cup {call.p}
              \/ CommitUnknown /\ UNCHANGED <<log, Committed, BlockRows>>
<1>1. /\ call # None /\ call.p \in Prepared
      /\ call' = None
      /\ UNCHANGED <<fence, files, parts>>
  BY CallTypes DEF CommitDone, CommitUnknown, CommitCrash, Ready, Answer, disk
<1>2. Inserting \/ (CommitUnknown /\ UNCHANGED log)
  BY <1>1 DEF CommitDone, CommitUnknown, CommitCrash, Inserting, Answer, disk
<1>3. Inserting => Committed' = Committed \cup {call.p}
  BY InsertingFacts, InsertLog
<1>4. UNCHANGED log => UNCHANGED <<log, Committed, BlockRows>>
  BY DEF Committed, BlockRows
<1> QED BY <1>1, <1>2, <1>3, <1>4

\* Block files only disappear in orphan collection, which runs outside a commit
\* and spares the blocks that rows name.
LEMMA FilesStep ==
    ASSUME [Next]_vars
    PROVE  \/ files \subseteq files'
           \/ call = None /\ files \cap BlockRows \subseteq files' /\ UNCHANGED call
<1>1. CASE CollectOrphans \/ CollectCrash
  BY <1>1 DEF CollectOrphans, CollectCrash, Writable
<1>2. CASE ~CollectOrphans /\ ~CollectCrash
  BY <1>2 DEF Next, Open, Close, Crash, RotateFence, ConfigureSpace, AdvanceEpoch,
     ReserveNonce, MarkInflight, RecoverOutbox, LookupOperation, CommitAgain,
     CommitRefused, CommitStart, PublishExisting, PublishPart, PublishRename,
     CommitAborted, CommitDone, CommitUnknown, CommitCrash, vars, disk
<1> QED BY <1>1, <1>2

\* Every block a row names is on disk: its commit published it before the
\* insertion and collection spares it.
LEMMA BlocksReadableStep ==
    ASSUME IndInv, [Next]_vars
    PROVE  BlocksReadable'
<1> USE DEF IndInv, Audit, BlocksReadable
<1>1. CASE CommitDone \/ CommitUnknown \/ CommitCrash
  <2>1. CASE Inserting /\ Committed' = Committed \cup {call.p}
    <3>1. \A j \in DOMAIN call.p.blocks : call.p.blocks[j] \in files
      <4>1. call # None /\ call.at \in Nat /\ call.at > Len(call.p.blocks)
        BY <2>1, InsertingFacts, CallTypes
      <4>2. DOMAIN call.p.blocks = 1 .. Len(call.p.blocks) /\ Len(call.p.blocks) \in Nat
        <5>1. call.p.blocks \in Seq(Blocks)
          BY <2>1, InsertingFacts, PreparedAssumption
        <5> QED BY <5>1, SMTT(60)
      <4> QED BY <4>1, <4>2, SMTT(60) DEF CallSound
    <3>2. files' = files
      BY <2>1, InsertingFacts
    <3>3. BlockRows' = BlockRows \cup {call.p.blocks[j] : j \in DOMAIN call.p.blocks}
      BY <2>1, SMTT(60) DEF BlockRows
    <3> QED BY <3>1, <3>2, <3>3
  <2>2. CASE UNCHANGED BlockRows
    BY <1>1, <2>2, CommitSteps
  <2> QED BY <1>1, <2>1, <2>2, CommitSteps
<1>2. CASE ~CommitDone /\ ~CommitUnknown /\ ~CommitCrash
  BY <1>2, LogKept, FilesStep
<1> QED BY <1>1, <1>2

\* A call that goes on, or starts, in a step.
LEMMA CallStep ==
    ASSUME IndInv, [Next]_vars
    PROVE  CallSound'
<1> USE DEF IndInv
<1>1. CASE call' = None
  BY <1>1 DEF CallSound
<1>2. ASSUME NEW p \in Prepared, NEW t \in 1 .. fence, CommitStart(p, t)
      PROVE  CallSound'
  <2>1. /\ call' = [p |-> p, token |-> t, at |-> 1, part |-> FALSE]
        /\ up /\ UNCHANGED <<up, log, files>>
        /\ \A q \in Committed : q.op # p.op
    BY <1>2 DEF CommitStart, Writable, db, disk
  <2>2. DOMAIN p.blocks = 1 .. Len(p.blocks)
    <3>1. p.blocks \in Seq(Blocks)
      BY PreparedAssumption
    <3> QED BY <3>1, SMTT(60)
  <2>3. Committed' = Committed
    BY <2>1 DEF Committed
  <2>4. call'.p = p /\ call'.at = 1 /\ call'.part = FALSE
    BY <2>1
  <2>5. \A j \in DOMAIN p.blocks : ~(j < 1)
    BY <2>2, SMTT(60)
  <2> QED BY <2>1, <2>3, <2>4, <2>5 DEF CallSound
<1>3. CASE PublishExisting \/ PublishPart \/ PublishRename
  <2>1. /\ call # None /\ call.at \in Nat \ {0} /\ call.p.blocks \in Seq(Blocks)
        /\ call.at <= Len(call.p.blocks)
    BY <1>3, CallTypes, PreparedAssumption
       DEF PublishExisting, PublishPart, PublishRename, Publishing
  <2>2. /\ UNCHANGED <<up, log, Committed>> /\ files \subseteq files'
        /\ \/ call' = At(call.at, TRUE)
           \/ call' = At(call.at + 1, FALSE) /\ call.p.blocks[call.at] \in files'
    BY <1>3 DEF PublishExisting, PublishPart, PublishRename, db, disk, Committed
  <2>3. /\ call'.p = call.p
        /\ call'.at \in Nat
        /\ \A j \in DOMAIN call.p.blocks : j < call'.at => call.p.blocks[j] \in files'
        /\ call'.part => call'.at <= Len(call.p.blocks)
    <3>1. CASE call' = At(call.at, TRUE)
      BY <2>1, <2>2, <3>1 DEF At, CallSound
    <3>2. CASE call' = At(call.at + 1, FALSE) /\ call.p.blocks[call.at] \in files'
      <4>1. call'.p = call.p /\ call'.at = call.at + 1 /\ ~call'.part
        BY <3>2 DEF At
      <4>2. \A j \in DOMAIN call.p.blocks : j < call.at + 1 => j < call.at \/ j = call.at
        BY <2>1, SMTT(60)
      <4>3. \A j \in DOMAIN call.p.blocks : j < call.at => call.p.blocks[j] \in files'
        BY <2>1, <2>2 DEF CallSound
      <4>4. \A j \in DOMAIN call.p.blocks : j < call'.at => call.p.blocks[j] \in files'
        BY <3>2, <4>1, <4>2, <4>3
      <4>5. call'.at \in Nat
        BY <2>1, <4>1, SMTT(60)
      <4> QED BY <4>1, <4>4, <4>5
    <3> QED BY <2>2, <3>1, <3>2
  <2>4. up /\ \A q \in Committed : q.op # call.p.op
    BY <2>1 DEF CallSound
  <2> QED BY <2>2, <2>3, <2>4 DEF CallSound
<1>4. CASE UNCHANGED vars
  BY <1>4 DEF CallSound, vars, db, disk, Committed
<1> QED BY <1>1, <1>2, <1>3, <1>4 DEF Next, Open, Close, Crash, RotateFence, ConfigureSpace,
     AdvanceEpoch, ReserveNonce, MarkInflight, RecoverOutbox, LookupOperation, CommitAgain,
     CommitRefused, CommitAborted, CommitDone, CommitUnknown, CommitCrash,
     CollectOrphans, CollectCrash, Answer, Writable, CallSound

\* A staging file is left behind only by a process that died.
LEMMA PartsStep ==
    ASSUME IndInv, [Next]_vars
    PROVE  PartsBounded'
<1> USE DEF IndInv, TypeOK, PartsBounded
<1>1. CASE Open
  BY <1>1, SMTT(60) DEF Open, disk
<1>2. CASE Close
  BY <1>2, SMTT(60) DEF Close, db, disk
<1>3. CASE Crash
  <2>1. parts < fence
    BY <1>3 DEF Crash
  <2>2. parts' \in {parts, parts + 1} /\ ~up' /\ UNCHANGED fence
    BY <1>3 DEF Crash, db
  <2> QED BY <2>1, <2>2, SMTT(60)
<1>4. CASE RotateFence
  BY <1>4, SMTT(60) DEF RotateFence, disk
<1>5. CASE CollectOrphans
  BY <1>5, SMTT(60) DEF CollectOrphans, db
<1>6. CASE CollectCrash
  <2>1. parts' \in 0 .. parts /\ ~up' /\ UNCHANGED fence
    BY <1>6, SMTT(60) DEF CollectCrash, db
  <2> QED BY <2>1, SMTT(60)
<1>7. CASE CommitCrash
  BY <1>7, SMTT(60) DEF CommitCrash, disk
<1>8. CASE UNCHANGED <<up, fence, parts>>
  BY <1>8
<1> QED BY <1>1, <1>2, <1>3, <1>4, <1>5, <1>6, <1>7, <1>8
     DEF Next, ConfigureSpace, AdvanceEpoch, ReserveNonce, MarkInflight, RecoverOutbox,
     LookupOperation, CommitAgain, CommitRefused, CommitStart, PublishExisting,
     PublishPart, PublishRename, CommitAborted, CommitDone, CommitUnknown, vars, db, disk

\* A definite answer is given only when the rows already agree with it.
LEMMA RepliesStep ==
    ASSUME IndInv, [Next]_vars
    PROVE  RepliesTruthful'
<1> USE DEF IndInv, RepliesTruthful
<1>1. CASE CommitDone \/ CommitUnknown \/ CommitCrash
  <2>1. CASE CommitDone
    <3>1. reply' = [kind |-> "receipt", p |-> call.p] /\ call.p \in Committed'
      BY <2>1, CommitSteps DEF CommitDone, CommitUnknown, Answer, GivesReceipt
    <3> QED BY <3>1
  <2>2. CASE CommitUnknown
    <3>1. reply' = [kind |-> "unknown", p |-> call.p]
      BY <2>2 DEF CommitUnknown, Answer
    <3> QED BY <3>1
  <2>3. CASE CommitCrash
    BY <2>3 DEF CommitCrash
  <2> QED BY <1>1, <2>1, <2>2, <2>3
<1>2. CASE ~CommitDone /\ ~CommitUnknown /\ ~CommitCrash
  <2>1. UNCHANGED Committed
    BY <1>2, LogKept
  <2>2. ASSUME NEW p \in Prepared, CommitAgain(p)
        PROVE  RepliesTruthful'
    <3>1. reply' = [kind |-> IF p \in Committed THEN "receipt" ELSE "refused", p |-> p]
      BY <2>2 DEF CommitAgain, Answer
    <3> QED BY <2>1, <3>1
  <2>3. ASSUME NEW p \in Prepared, NEW t \in 1 .. fence, CommitRefused(p, t)
        PROVE  RepliesTruthful'
    <3>1. reply' = [kind |-> "refused", p |-> p] /\ p \notin Committed
      BY <2>3 DEF CommitRefused, Answer
    <3> QED BY <2>1, <3>1
  <2>4. CASE CommitAborted
    <3>1. reply' = [kind |-> "refused", p |-> call.p] /\ call # None
      BY <2>4 DEF CommitAborted, Answer
    <3>2. call.p \notin Committed
      BY <3>1 DEF CallSound
    <3> QED BY <2>1, <3>1, <3>2
  <2>5. CASE reply' \in {reply, None}
    BY <2>1, <2>5
  <2> QED BY <1>2, <2>2, <2>3, <2>4, <2>5
       DEF Next, Open, Close, Crash, RotateFence, ConfigureSpace, AdvanceEpoch,
       ReserveNonce, MarkInflight, RecoverOutbox, LookupOperation, CommitStart,
       PublishExisting, PublishPart, PublishRename, CollectOrphans, CollectCrash,
       vars, told
<1> QED BY <1>1, <1>2

\* A receipt names a committed row, and rows are never removed.
LEMMA ReceiptsStep ==
    ASSUME IndInv, [Next]_vars
    PROVE  ReceiptsHold'
<1> USE DEF IndInv, ReceiptsHold
<1>1. CASE CommitDone \/ CommitUnknown \/ CommitCrash
  <2>1. Committed \subseteq Committed'
    BY <1>1, CommitSteps
  <2>2. CASE CommitDone
    <3>1. receipts' = receipts \cup {<<call.p.op, call.p.eid>>} /\ call.p \in Committed'
      BY <2>2, CommitSteps DEF CommitDone, CommitUnknown, Answer, GivesReceipt
    <3> QED BY <2>1, <3>1
  <2>3. CASE CommitUnknown \/ CommitCrash
    <3>1. receipts' = receipts
      BY <2>3 DEF CommitUnknown, CommitCrash, Answer, GivesReceipt
    <3> QED BY <2>1, <3>1
  <2> QED BY <1>1, <2>2, <2>3
<1>2. CASE ~CommitDone /\ ~CommitUnknown /\ ~CommitCrash
  <2>1. UNCHANGED Committed
    BY <1>2, LogKept
  <2>2. \/ receipts' = receipts
        \/ \E p \in Committed : receipts' = receipts \cup {<<p.op, p.eid>>}
    BY <1>2 DEF Next, Open, Close, Crash, RotateFence, ConfigureSpace, AdvanceEpoch,
       ReserveNonce, MarkInflight, RecoverOutbox, LookupOperation, CommitAgain,
       CommitRefused, CommitStart, PublishExisting, PublishPart, PublishRename,
       CommitAborted, CollectOrphans, CollectCrash, Answer, GivesReceipt, vars, told
  <2> QED BY <2>1, <2>2
<1> QED BY <1>1, <1>2

-----------------------------------------------------------------------------
(* The invariant, and the theorems it gives. *)

\* An empty store satisfies the invariant.
LEMMA InitInv ==
    Init => IndInv
<1> SUFFICES ASSUME Init PROVE IndInv
  OBVIOUS
<1> USE DEF Init
<1>1. TypeOK
  <2>0. up \in BOOLEAN
    OBVIOUS
  <2>1. log \in Seq(Prepared) /\ fence \in Nat /\ parts \in Nat
    BY SMTT(60)
  <2>2. outbox \in [Envelopes -> OutboxStates]
    BY DEF OutboxStates
  <2>3. /\ epoch \in [Spaces -> Nat \cup {None}]
        /\ intents \in [Ops -> Digests \cup {None}]
        /\ reserved \in [Nonces -> Reservation \cup {None}]
        /\ actors \in [Chains -> ActorState \cup {None}]
        /\ catalog \in [Spaces \X Objects -> Caches \cup {None}]
    OBVIOUS
  <2>4. /\ files \in SUBSET Blocks
        /\ call \in Call \cup {None}
        /\ reply \in Reply \cup {None}
        /\ receipts \in SUBSET (Ops \X Envelopes)
    OBVIOUS
  <2> QED BY <2>0, <2>1, <2>2, <2>3, <2>4 DEF TypeOK
<1>2. Committed = {} /\ DOMAIN log = {} /\ BlockRows = {}
  <2>1. DOMAIN log = {}
    BY SMTT(60)
  <2>2. Committed = {}
    BY <2>1 DEF Committed
  <2>3. BlockRows = {}
    BY <2>2 DEF BlockRows
  <2> QED BY <2>1, <2>2, <2>3
<1>3. Audit
  BY <1>2 DEF Audit, NonceBinding, AtomicSet, BlocksReadable, ActorStates,
     CacheReference, Live, Versions
<1>4. /\ ChainsLinked /\ OutboxCurrent /\ RepliesTruthful /\ CommitsDistinct
      /\ PartsBounded /\ ReservationsBound /\ EpochsReached /\ CallSound /\ ReceiptsHold
  BY <1>2, SMTT(60) DEF ChainsLinked, OutboxCurrent, RepliesTruthful, CommitsDistinct,
     PartsBounded, ReservationsBound, EpochsReached, CallSound, ReceiptsHold
<1> QED BY <1>1, <1>3, <1>4 DEF IndInv

\* Every step of the store keeps the invariant.
LEMMA NextInv ==
    IndInv /\ [Next]_vars => IndInv'
<1> SUFFICES ASSUME IndInv, [Next]_vars PROVE IndInv'
  OBVIOUS
<1>1. TypeOK'
  BY TypeStep DEF IndInv
<1>2. Audit'
  BY NonceBindingStep, AtomicSetStep, BlocksReadableStep, ActorStatesStep,
     CacheReferenceStep DEF Audit
<1> QED
  BY <1>1, <1>2, ChainsStep, OutboxStep, RepliesStep, DistinctStep, PartsStep,
     ReservationsStep, EpochsStep, CallStep, ReceiptsStep DEF IndInv

\* The strengthened invariant of the store holds in every reachable state,
\* whatever the sets of spaces, operations, nonces, blocks and prepared records.
THEOREM Invariance == Spec => []IndInv
BY InitInv, NextInv, PTL DEF Spec

\* Every variable keeps its type.
THEOREM TypeCorrect == Spec => []TypeOK
<1>1. IndInv => TypeOK
  BY DEF IndInv
<1> QED BY <1>1, Invariance, PTL

\* The audit of recovery.py succeeds in every reachable state: no crash between
\* a block's publication and the transaction, no epoch change and no collection
\* of orphans makes the live rows or the block files disagree with the commits.
THEOREM AuditAlwaysValid == Spec => []AuditValid
<1>1. IndInv => AuditValid
  BY DEF IndInv, AuditValid
<1> QED BY <1>1, Invariance, PTL

\* Each actor's commits of one epoch form one linked, unforked chain.
THEOREM ChainsAlwaysLinked == Spec => []ChainsLinked
<1>1. IndInv => ChainsLinked
  BY DEF IndInv
<1> QED BY <1>1, Invariance, PTL

\* The outbox never offers an envelope of an epoch its space has left.
THEOREM OutboxAlwaysCurrent == Spec => []OutboxCurrent
<1>1. IndInv => OutboxCurrent
  BY DEF IndInv
<1> QED BY <1>1, Invariance, PTL

\* A definite answer of commit agrees with the rows.
THEOREM RepliesAlwaysTruthful == Spec => []RepliesTruthful
<1>1. IndInv => RepliesTruthful
  BY DEF IndInv
<1> QED BY <1>1, Invariance, PTL

-----------------------------------------------------------------------------
(* The store implements the abstract ledger. *)

\* An operation has at most one committed row.
LEMMA CommittedUnique ==
    ASSUME CommitsDistinct, NEW p \in Committed, NEW q \in Committed, p.op = q.op
    PROVE  p = q
BY DEF CommitsDistinct, Committed

ViewSound ==
    /\ \A p \in Committed : p.op \in Ops /\ LedgerView[p.op] = p.eid
    /\ \A o \in Ops : (\A p \in Committed : p.op # o) => LedgerView[o] = None

\* The ledger read off the rows maps an operation to its row's envelope.
LEMMA ViewOfCommitted ==
    CommitsDistinct /\ TypeOK => ViewSound
<1> SUFFICES ASSUME CommitsDistinct, TypeOK
             PROVE  ViewSound
  OBVIOUS
<1>1. \A p \in Committed : p.op \in Ops
  BY LogTypes, PreparedAssumption
<1>2. ASSUME NEW p \in Committed
      PROVE  LedgerView[p.op] = p.eid
  <2>1. LedgerView[p.op] = (CHOOSE q \in Committed : q.op = p.op).eid
    BY <1>1 DEF LedgerView
  <2>2. /\ (CHOOSE q \in Committed : q.op = p.op) \in Committed
        /\ (CHOOSE q \in Committed : q.op = p.op).op = p.op
    OBVIOUS
  <2> QED BY <2>1, <2>2, CommittedUnique
<1>3. \A o \in Ops : (\A p \in Committed : p.op # o) => LedgerView[o] = None
  BY DEF LedgerView
<1> QED BY <1>1, <1>2, <1>3 DEF ViewSound

\* A step inserts a row and may acknowledge it, or leaves the ledger alone and
\* may acknowledge a row that is there.
LEMMA ReceiptKinds ==
    ASSUME IndInv, [Next]_vars
    PROVE  \/ /\ Inserting
              /\ Committed' = Committed \cup {call.p}
              /\ receipts' \in {receipts, receipts \cup {<<call.p.op, call.p.eid>>}}
           \/ /\ UNCHANGED <<Committed, LedgerView>>
              /\ \/ receipts' = receipts
                 \/ \E p \in Committed : receipts' = receipts \cup {<<p.op, p.eid>>}
<1>1. CASE CommitDone \/ CommitUnknown \/ CommitCrash
  <2>1. CASE Inserting /\ Committed' = Committed \cup {call.p}
    BY <1>1, <2>1 DEF CommitDone, CommitUnknown, CommitCrash, Answer, GivesReceipt
  <2>2. CASE CommitUnknown /\ UNCHANGED Committed
    BY <2>2 DEF CommitUnknown, Answer, GivesReceipt, LedgerView
  <2> QED BY <1>1, <2>1, <2>2, CommitSteps DEF IndInv
<1>2. CASE ~CommitDone /\ ~CommitUnknown /\ ~CommitCrash
  <2>1. UNCHANGED Committed
    BY <1>2, LogKept
  <2>2. \/ receipts' = receipts
        \/ \E p \in Committed : receipts' = receipts \cup {<<p.op, p.eid>>}
    BY <1>2 DEF Next, Open, Close, Crash, RotateFence, ConfigureSpace, AdvanceEpoch,
       ReserveNonce, MarkInflight, RecoverOutbox, LookupOperation, CommitAgain,
       CommitRefused, CommitStart, PublishExisting, PublishPart, PublishRename,
       CommitAborted, CollectOrphans, CollectCrash, Answer, GivesReceipt, vars, told
  <2> QED BY <2>1, <2>2 DEF LedgerView
<1> QED BY <1>1, <1>2

\* Every step of the store is a step of the ledger or leaves it unchanged.
LEMMA LedgerStep ==
    ASSUME IndInv, IndInv', [Next]_vars
    PROVE  [L!Next]_(L!vars)
<1>0. /\ CommitsDistinct /\ TypeOK
      /\ \A p \in Committed : p.op \in Ops /\ LedgerView[p.op] = p.eid
      /\ \A o \in Ops : (\A p \in Committed : p.op # o) => LedgerView[o] = None
  BY ViewOfCommitted DEF IndInv, ViewSound
<1>1. CASE /\ Inserting
           /\ Committed' = Committed \cup {call.p}
           /\ receipts' \in {receipts, receipts \cup {<<call.p.op, call.p.eid>>}}
  <2>1. PICK p \in Prepared : p = call.p
    BY <1>0, <1>1, InsertingFacts
  <2>2. /\ \A q \in Committed : q.op # p.op /\ q.eid # p.eid
        /\ p.op \in Ops /\ p.eid \in Envelopes
    BY <1>0, <1>1, <2>1, InsertingFacts, PreparedAssumption DEF InsertsAdmitted
  <2>3. LedgerView[p.op] = None
    BY <1>0, <2>2
  <2>4. \A q \in Ops : LedgerView[q] # p.eid
    BY <1>0, <2>2, NoneAssumption
  <2>5. LedgerView' = [LedgerView EXCEPT ![p.op] = p.eid]
    <3>1. /\ \A q \in Committed' : LedgerView'[q.op] = q.eid
          /\ \A o \in Ops : (\A q \in Committed' : q.op # o) => LedgerView'[o] = None
      <4>1. CommitsDistinct' /\ TypeOK'
        BY DEF IndInv
      <4>2. ViewSound'
        BY <4>1, ViewOfCommitted, PTL
      <4> QED BY <4>2 DEF ViewSound
    <3>2. LedgerView'[p.op] = p.eid
      BY <1>1, <2>1, <3>1
    <3>3. \A o \in Ops : o # p.op => LedgerView'[o] = LedgerView[o]
      BY <1>0, <1>1, <2>1, <3>1, SMTT(60)
    <3>4. /\ LedgerView' = [o \in Ops |-> LedgerView'[o]]
          /\ LedgerView = [o \in Ops |-> LedgerView[o]]
      BY DEF LedgerView
    <3> QED BY <2>2, <3>2, <3>3, <3>4
  <2>6. L!TakeEffect(p.op, p.eid)
    BY <1>1, <2>1, <2>3, <2>4, <2>5 DEF L!TakeEffect
  <2> QED BY <2>2, <2>6 DEF L!Next
<1>2. CASE /\ UNCHANGED <<Committed, LedgerView>>
           /\ \E p \in Committed : receipts' = receipts \cup {<<p.op, p.eid>>}
  <2>1. PICK p \in Committed : receipts' = receipts \cup {<<p.op, p.eid>>}
    BY <1>2
  <2>2. p.op \in Ops /\ LedgerView[p.op] = p.eid /\ p.eid \in Envelopes
    BY <1>0, LogTypes, PreparedAssumption
  <2>3. L!Acknowledge(p.op)
    BY <1>2, <2>1, <2>2, NoneAssumption DEF L!Acknowledge
  <2> QED BY <2>2, <2>3 DEF L!Next
<1>3. CASE UNCHANGED <<LedgerView, receipts>>
  BY <1>3 DEF L!vars
<1> QED BY <1>1, <1>2, <1>3, ReceiptKinds

\* The store implements Ledger: an operation takes effect at most once and
\* for ever, and a receipt names exactly what took effect.
THEOREM Refinement == Spec => ImplementsLedger
<1>1. Init => L!Init
  BY SMTT(60) DEF Init, L!Init, LedgerView, Committed
<1>2. IndInv /\ IndInv' /\ [Next]_vars => [L!Next]_(L!vars)
  BY LedgerStep
<1> QED BY <1>1, <1>2, Invariance, PTL DEF Spec, ImplementsLedger, L!Spec

\* No two receipts for one operation name different envelopes.
THEOREM OneOutcomeAlways == Spec => []OneOutcome
<1>1. IndInv => OneOutcome
  <2> SUFFICES ASSUME IndInv PROVE OneOutcome
    OBVIOUS
  <2>1. \A r \in receipts : \E p \in Committed : r = <<p.op, p.eid>>
    BY DEF IndInv, ReceiptsHold
  <2>2. ASSUME NEW a \in receipts, NEW b \in receipts, a[1] = b[1]
        PROVE  a[2] = b[2]
    <3>1. PICK p \in Committed : a = <<p.op, p.eid>>
      BY <2>1
    <3>2. PICK q \in Committed : b = <<q.op, q.eid>>
      BY <2>1
    <3>3. CommitsDistinct /\ p.op = q.op
      BY <2>2, <3>1, <3>2 DEF IndInv
    <3>4. p = q
      BY <3>3, CommittedUnique
    <3> QED BY <3>1, <3>2, <3>4
  <2> QED BY <2>2 DEF OneOutcome, L!OneOutcome
<1> QED BY <1>1, Invariance, PTL

=============================================================================

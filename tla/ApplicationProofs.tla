------------------------- MODULE ApplicationProofs -------------------------
(***************************************************************************)
(* The document's audit holds in every reachable state, the applied set is  *)
(* causally closed, and the applier implements the abstract document, for   *)
(* every dependency relation, every set of operations and every bound: the  *)
(* applier by itself, and under the intents, the controller and the channel *)
(* of the process that owns it.                                             *)
(***************************************************************************)
EXTENDS OwnedApplication, TLAPS

USE ZenonT(60)

\* The elements of a sequence have its type.
LEMMA ElementType ==
    ASSUME NEW S, NEW s \in Seq(S), NEW i \in DOMAIN s
    PROVE  s[i] \in S
  BY SMTT(60)

\* What visit() selects is closed and holds what it started from, provided the
\* dependencies are among the changes.
LEMMA SelectedClosed ==
    ASSUME NEW T \in SUBSET Changes
    PROVE  /\ Selected(T) \in SUBSET Changes
           /\ T \subseteq Selected(T)
           /\ IsClosed(Selected(T))
  <1>1. Selected(T) \in SUBSET Changes /\ T \subseteq Selected(T)
    BY DEF Selected, Closed
  <1>2. IsClosed(Selected(T))
    BY DepsAssumption DEF Selected, Closed, IsClosed
  <1> QED BY <1>1, <1>2

\* The frontier row and the number of events agree.
LEMMA RevisionIsLen == TypeOK /\ AuditValid => Revision = Len(events) /\ Len(events) \in Nat
  <1> SUFFICES ASSUME TypeOK, AuditValid PROVE Revision = Len(events) /\ Len(events) \in Nat
    OBVIOUS
  <1>1. events \in Seq(EventRows) /\ frontier \in [revision : Nat, op : Ops] \cup {None}
    BY DEF TypeOK
  <1>2. frontier = IF events = <<>> THEN None
                   ELSE [revision |-> Len(events), op |-> events[Len(events)].request.op]
    BY DEF AuditValid
  <1>3. CASE events = <<>>
    BY <1>2, <1>3 DEF Revision
  <1>4. CASE events # <<>>
    <2>1. frontier # None
      <3>1. Len(events) \in DOMAIN events
        BY <1>1, <1>4, SMTT(60)
      <3>2. events[Len(events)].request.op \in Ops
        <4>1. events[Len(events)] \in EventRows
          BY <1>1, <3>1, ElementType
        <4> QED BY <4>1 DEF EventRows, Requests
      <3>3. [revision |-> Len(events), op |-> events[Len(events)].request.op] \in [revision : Nat, op : Ops]
        BY <1>1, <3>2, SMTT(60)
      <3> QED BY <3>3, <1>2, <1>4, NoneAssumption
    <2> QED BY <2>1, <1>1, <1>2, <1>4 DEF Revision
  <1> QED BY <1>3, <1>4

\* An empty application database satisfies the invariant.
LEMMA InitInv == Init => IndInv
  <1> SUFFICES ASSUME Init PROVE IndInv
    OBVIOUS
  <1>1. Old = {}
    BY DEF Init, Old
  <1>2. TypeOK
    <2>1. events \in Seq(EventRows) /\ nonces \in Seq(NonceRows) /\ Len(nonces) <= MaxNonces
      BY BoundAssumption, SMTT(60) DEF Init
    <2>2. owner \in 0 .. MaxOwner /\ inputs \in [Changes -> Ops \cup {None}]
      BY BoundAssumption, SMTT(60) DEF Init
    <2>3. frontier \in [revision : Nat, op : Ops] \cup {None} /\ uncertain \in BOOLEAN
      BY DEF Init
    <2>4. pool \in SUBSET Changes /\ prepared \in SUBSET Prepared
      BY DEF Init
    <2> QED BY <2>1, <2>2, <2>3, <2>4 DEF TypeOK
  <1>3. AuditValid /\ AppliedClosed /\ PreparedSound /\ LastHoldsAll /\ NoncesInRange
    BY <1>1, SMTT(60) DEF Init, AuditValid, AppliedClosed, IsClosed, PreparedSound, LastHoldsAll, NoncesInRange
  <1> QED BY <1>2, <1>3 DEF IndInv

\* Steps that leave the tables alone.
LEMMA SameTables ==
    ASSUME IndInv, UNCHANGED tables, prepared' \subseteq prepared, TypeOK'
    PROVE  IndInv'
  <1> USE DEF tables
  <1>1. Old' = Old
    BY DEF Old
  <1>2. \A r \in DOMAIN events : EventSound(r) => EventSound(r)'
    BY <1>1 DEF EventSound
  <1>4. AuditValid' /\ AppliedClosed' /\ LastHoldsAll' /\ NoncesInRange'
    BY <1>1, <1>2 DEF IndInv, AuditValid, AppliedClosed, IsClosed, LastHoldsAll, NoncesInRange
  <1>3. PreparedSound'
    BY <1>1 DEF IndInv, PreparedSound, IsClosed
  <1> QED BY <1>3, <1>4 DEF IndInv

\* A reservation adds a row nobody refers to yet.
LEMMA ReserveKeeps ==
    ASSUME NEW op \in Ops, NEW wanted \in Targets, IndInv, Preparable(op, wanted),
           Reserve(op, wanted), UNCHANGED <<inputs, events, frontier>>
    PROVE  /\ AuditValid' /\ AppliedClosed' /\ LastHoldsAll' /\ NoncesInRange'
           /\ nonces' \in Seq(NonceRows)
           /\ Len(nonces') = Len(nonces) + 1 /\ Len(nonces') <= MaxNonces
           /\ \A n \in DOMAIN nonces : n \in DOMAIN nonces' /\ nonces'[n] = nonces[n]
           /\ nonces'[Len(nonces) + 1].request = Request(op, wanted)
           /\ Request(op, wanted) \in Requests
  <1> USE DEF IndInv
  <1>1. Revision = Len(events) /\ Len(events) \in Nat
    BY RevisionIsLen
  <1>2. Len(events) < MaxEvents /\ Len(nonces) < MaxNonces
    BY DEF Preparable, NonceRoom
  <1>3. Request(op, wanted) \in Requests
    BY <1>1, <1>2, BoundAssumption, SMTT(60) DEF Request, Requests
  <1> DEFINE row == [request |-> Request(op, wanted), usedBy |-> None]
  <1>4. row \in NonceRows /\ nonces' = Append(nonces, row)
    BY <1>3 DEF Reserve, NonceRows
  <1>5. nonces \in Seq(NonceRows)
    BY DEF TypeOK
  <1> HIDE DEF row
  <1>6. /\ nonces' \in Seq(NonceRows)
        /\ Len(nonces') = Len(nonces) + 1
        /\ \A n \in DOMAIN nonces : n \in DOMAIN nonces' /\ nonces'[n] = nonces[n]
        /\ nonces'[Len(nonces) + 1] = row
        /\ DOMAIN nonces' = DOMAIN nonces \cup {Len(nonces) + 1}
    BY <1>4, <1>5, SMTT(60)
  <1>7. Old' = Old
    BY DEF Old
  <1>8. AppliedClosed' /\ LastHoldsAll' /\ NoncesInRange'
    BY <1>6, <1>7 DEF AppliedClosed, IsClosed, LastHoldsAll, NoncesInRange
  <1>9. AuditValid'
    <2>1. \A r \in DOMAIN events : nonces'[events[r].nonce] = nonces[events[r].nonce]
      BY <1>6 DEF NoncesInRange
    <2>2. \A n \in DOMAIN nonces' :
             nonces'[n].usedBy # None => \E r \in DOMAIN events : events[r].nonce = n
      BY <1>6, SMTT(60) DEF AuditValid, row
    <2>3. ASSUME NEW r \in DOMAIN events PROVE EventSound(r)'
      <3>1. EventSound(r)
        BY DEF AuditValid
      <3>2. /\ events' = events /\ inputs' = inputs /\ Old' = Old
            /\ nonces'[events[r].nonce] = nonces[events[r].nonce]
        BY <2>1, <1>7
      <3> QED BY <3>1, <3>2 DEF EventSound
    <2> QED BY <1>7, <2>2, <2>3 DEF AuditValid
  <1>10. nonces'[Len(nonces) + 1].request = Request(op, wanted)
    BY <1>6, SMTT(60) DEF row
  <1>11. Len(nonces') <= MaxNonces
    BY <1>2, <1>5, <1>6, BoundAssumption, SMTT(60)
  <1> QED BY <1>3, <1>6, <1>8, <1>9, <1>10, <1>11

\* prepare() reserves a nonce and hands out a closed, strictly larger set.
LEMMA PrepareKeeps ==
    ASSUME NEW op \in Ops, NEW wanted \in Targets, IndInv, Prepare(op, wanted)
    PROVE  IndInv'
  <1> USE DEF IndInv, Prepare
  <1>1. /\ AuditValid' /\ AppliedClosed' /\ LastHoldsAll' /\ NoncesInRange'
        /\ nonces' \in Seq(NonceRows)
        /\ Len(nonces') = Len(nonces) + 1 /\ Len(nonces') <= MaxNonces
        /\ \A n \in DOMAIN nonces : n \in DOMAIN nonces' /\ nonces'[n] = nonces[n]
        /\ nonces'[Len(nonces) + 1].request = Request(op, wanted)
        /\ Request(op, wanted) \in Requests
    BY ReserveKeeps
  <1> DEFINE T == wanted \cup Old
             p == [request |-> Request(op, wanted), inputs |-> Select(T), owner |-> owner,
                   source |-> pool, nonce |-> Len(nonces) + 1]
  <1>2. T \in SUBSET Changes
    BY TargetsAssumption DEF Old
  <1>3. Select(T) \in SUBSET Changes /\ T \subseteq Select(T) /\ IsClosed(Select(T))
    BY <1>2, SelectedClosed DEF Select
  <1>4. p \in Prepared
    <2>1. Len(nonces) + 1 \in Nat /\ owner \in 0 .. MaxOwner /\ pool \in SUBSET Changes
      BY SMTT(60) DEF TypeOK
    <2> QED BY <2>1, <1>1, <1>3 DEF Prepared
  <1>5. prepared' = prepared \cup {p}
    OBVIOUS
  <1>6. TypeOK'
    BY <1>1, <1>4, <1>5 DEF TypeOK
  <1>7. Old' = Old
    BY DEF Old
  <1>8. Revision = Len(events) /\ Len(events) \in Nat
    BY RevisionIsLen
  <1>9. p.request.expected = Len(events)
    BY <1>8 DEF Request
  <1>10. Old \subseteq p.inputs /\ Old # p.inputs
    BY <1>3 DEF Preparable
  <1>11. Len(nonces) + 1 \in DOMAIN nonces'
    BY <1>1, SMTT(60) DEF TypeOK
  <1> HIDE DEF T
  <1>12. PreparedSound'
    <2> SUFFICES ASSUME NEW q \in prepared'
                 PROVE  /\ IsClosed(q.inputs)
                        /\ q.request.expected <= Len(events)
                        /\ q.nonce \in DOMAIN nonces' /\ nonces'[q.nonce].request = q.request
                        /\ q.request.expected = Len(events) => Old \subseteq q.inputs /\ Old # q.inputs
      BY <1>7 DEF PreparedSound, IsClosed
    <2>1. CASE q \in prepared
      BY <2>1, <1>1 DEF PreparedSound
    <2>2. CASE q = p
      <3>1. IsClosed(q.inputs) /\ q.request.expected <= Len(events)
        BY <2>2, <1>3, <1>8, <1>9, SMTT(60)
      <3>2. q.nonce \in DOMAIN nonces' /\ nonces'[q.nonce].request = q.request
        BY <2>2, <1>1, <1>11
      <3> QED BY <3>1, <3>2, <2>2, <1>10
    <2> QED BY <2>1, <2>2, <1>5
  <1> QED BY <1>1, <1>6, <1>12

\* A prepare() whose transaction raised leaves at most an unused reservation.
LEMMA PrepareUnknownKeeps ==
    ASSUME NEW op \in Ops, NEW wanted \in Targets, IndInv, PrepareUnknown(op, wanted)
    PROVE  IndInv'
  <1> USE DEF IndInv, PrepareUnknown
  <1>1. CASE Reserve(op, wanted)
    <2>1. /\ AuditValid' /\ AppliedClosed' /\ LastHoldsAll' /\ NoncesInRange'
          /\ nonces' \in Seq(NonceRows)
          /\ Len(nonces') <= MaxNonces
          /\ \A n \in DOMAIN nonces : n \in DOMAIN nonces' /\ nonces'[n] = nonces[n]
      BY <1>1, ReserveKeeps
    <2>2. TypeOK'
      BY <2>1 DEF TypeOK
    <2>3. Old' = Old
      BY DEF Old
    <2>4. PreparedSound'
      BY <2>1, <2>3 DEF PreparedSound, IsClosed
    <2> QED BY <2>1, <2>2, <2>4
  <1>2. CASE UNCHANGED nonces
    BY <1>2, SameTables DEF tables, TypeOK
  <1> QED BY <1>1, <1>2

\* The transaction of a commit whose guards hold.
LEMMA RecordKeeps ==
    ASSUME NEW p \in prepared, IndInv, Commits(p), Record(p),
           UNCHANGED <<pool, owner, prepared>>, uncertain' \in BOOLEAN
    PROVE  /\ IndInv'
           /\ Old' = p.inputs /\ Old \subseteq p.inputs /\ Old # p.inputs
           /\ events' = Append(events, [request |-> p.request, inputs |-> p.inputs, nonce |-> p.nonce])
  <1> USE DEF IndInv
  <1> DEFINE L == Len(events)
             e == [request |-> p.request, inputs |-> p.inputs, nonce |-> p.nonce]
             n0 == p.nonce
  <1>1. Revision = L /\ L \in Nat
    BY RevisionIsLen
  <1>2. p \in Prepared /\ p.request \in Requests /\ p.inputs \in SUBSET Changes /\ p.nonce \in Nat
        /\ p.request.op \in Ops
    BY DEF TypeOK, Prepared, Requests
  <1>3. p.request.expected = L
    BY <1>1 DEF Commits, Guard
  <1>4. /\ IsClosed(p.inputs) /\ Old \subseteq p.inputs /\ Old # p.inputs
        /\ n0 \in DOMAIN nonces /\ nonces[n0].request = p.request /\ nonces[n0].usedBy = None
    BY <1>3 DEF PreparedSound, Commits
  <1>5. e \in EventRows
    BY <1>2 DEF EventRows
  <1>6. events' = Append(events, e)
    BY DEF Record
  <1> HIDE DEF e
  <1>7. /\ events' \in Seq(EventRows)
        /\ Len(events') = L + 1
        /\ \A r \in DOMAIN events : r \in DOMAIN events' /\ events'[r] = events[r]
        /\ events'[L + 1] = e /\ L + 1 \in DOMAIN events'
        /\ \A r \in DOMAIN events' : r \in DOMAIN events \/ r = L + 1
        /\ DOMAIN events = 1 .. L /\ events' # <<>>
    <2>1. events \in Seq(EventRows)
      BY DEF TypeOK
    <2>2. events' \in Seq(EventRows) /\ Len(events') = L + 1 /\ DOMAIN events = 1 .. L /\ DOMAIN events' = 1 .. (L + 1)
      BY <2>1, <1>5, <1>6, SMTT(60)
    <2>3. \A r \in 1 .. L : events'[r] = events[r]
      BY <2>1, <1>5, <1>6, SMTT(60)
    <2>4. events'[L + 1] = e
      BY <2>1, <1>5, <1>6, SMTT(60)
    <2> QED BY <2>2, <2>3, <2>4, <1>1, SMTT(60)
  <1>8. /\ inputs' \in [Changes -> Ops \cup {None}]
        /\ \A c \in Old : inputs'[c] = inputs[c]
        /\ \A c \in p.inputs \ Old : inputs'[c] = p.request.op
    BY <1>2 DEF Record, Insert, TypeOK, Old
  <1>9. Old' = p.inputs
    <2>1. \A c \in Changes : inputs'[c] # None <=> c \in p.inputs
      BY <1>2, <1>4, NoneAssumption DEF Record, Insert, Old
    <2> QED BY <2>1, <1>2 DEF Old
  <1>10. frontier' = [revision |-> L + 1, op |-> p.request.op]
    BY <1>3 DEF Record
  <1> DEFINE row == [request |-> p.request, usedBy |-> p.request.op]
  <1>11. /\ nonces' \in Seq(NonceRows)
         /\ Len(nonces') = Len(nonces) /\ DOMAIN nonces' = DOMAIN nonces
         /\ nonces'[n0] = row
         /\ \A n \in DOMAIN nonces : n # n0 => nonces'[n] = nonces[n]
         /\ \A n \in DOMAIN nonces : nonces'[n].request = nonces[n].request
    <2>1. nonces' = [nonces EXCEPT ![n0].usedBy = p.request.op]
      BY DEF Record
    <2>2. nonces \in Seq(NonceRows)
      BY DEF TypeOK
    <2>3. nonces[n0] \in NonceRows
      BY <2>2, <1>4, ElementType
    <2>4. [nonces[n0] EXCEPT !.usedBy = p.request.op] = row
      BY <2>3, <1>4, SMTT(60) DEF NonceRows
    <2>5. nonces' = [nonces EXCEPT ![n0] = row]
      BY <2>1, <2>4
    <2>6. row \in NonceRows
      BY <1>2 DEF NonceRows
    <2> HIDE DEF row
    <2>7. /\ nonces' \in Seq(NonceRows)
          /\ Len(nonces') = Len(nonces) /\ DOMAIN nonces' = DOMAIN nonces
          /\ nonces'[n0] = row
          /\ \A n \in DOMAIN nonces : n # n0 => nonces'[n] = nonces[n]
      BY <2>2, <2>5, <2>6, <1>4, SMTT(60)
    <2>8. row.request = nonces[n0].request
      BY <1>4 DEF row
    <2> QED BY <2>7, <2>8
  <1> HIDE DEF row
  <1>12. TypeOK'
    BY <1>2, <1>7, <1>8, <1>10, <1>11, <1>1, SMTT(60) DEF TypeOK
  <1>13. AppliedClosed' /\ LastHoldsAll'
    <2>1. events'[Len(events')].inputs = p.inputs
      BY <1>7, <1>1, SMTT(60) DEF e
    <2> QED BY <2>1, <1>4, <1>7, <1>9 DEF AppliedClosed, IsClosed, LastHoldsAll
  <1>14. NoncesInRange'
    <2>1. e.nonce \in DOMAIN nonces
      BY <1>4 DEF e
    <2> QED BY <2>1, <1>7, <1>11 DEF NoncesInRange
  <1>15. PreparedSound'
    <2> SUFFICES ASSUME NEW q \in prepared
                 PROVE  /\ IsClosed(q.inputs)
                        /\ q.request.expected <= L + 1
                        /\ q.nonce \in DOMAIN nonces' /\ nonces'[q.nonce].request = q.request
                        /\ q.request.expected # L + 1
      BY <1>7 DEF PreparedSound, IsClosed
    <2>1. q.request.expected \in Nat
      BY SMTT(60) DEF TypeOK, Prepared, Requests
    <2> QED BY <2>1, <1>1, <1>11, SMTT(60) DEF PreparedSound
  <1>16. AuditValid'
    <2>1. \A r \in DOMAIN events' : events'[r].request.expected = r - 1
      <3>1. e.request.expected = (L + 1) - 1
        BY <1>1, <1>3, SMTT(60) DEF e
      <3>2. \A r \in DOMAIN events : events[r].request.expected = r - 1
        BY DEF AuditValid
      <3> QED BY <3>1, <3>2, <1>7
    <2>2. frontier' = [revision |-> Len(events'), op |-> events'[Len(events')].request.op]
      BY <1>1, <1>7, <1>10, SMTT(60) DEF e
    <2>3. ASSUME NEW r \in DOMAIN events' PROVE EventSound(r)'
      <3>1. CASE r \in DOMAIN events
        <4>1. r > 1 => r - 1 \in DOMAIN events
          BY <3>1, <1>1, <1>7, SMTT(60)
        <4>2. nonces[events[r].nonce] = [request |-> events[r].request, usedBy |-> events[r].request.op]
          BY <3>1 DEF AuditValid, EventSound
        <4>3. nonces[events[r].nonce].usedBy # None
          <5>1. events[r] \in EventRows
            <6>1. events \in Seq(EventRows)
              BY DEF TypeOK
            <6> QED BY <6>1, <3>1, ElementType
          <5>2. events[r].request.op \in Ops
            BY <5>1 DEF EventRows, Requests
          <5> QED BY <4>2, <5>2, NoneAssumption, SMTT(60)
        <4>4. events[r].nonce # n0 /\ events[r].nonce \in DOMAIN nonces
          BY <3>1, <4>3, <1>4 DEF NoncesInRange
        <4>5. events[r].inputs \subseteq Old
          BY <3>1 DEF AuditValid, EventSound
        <4>6. /\ r > 1 => /\ events[r - 1].inputs \subseteq events[r].inputs
                          /\ events[r - 1].inputs # events[r].inputs
              /\ \A c \in events[r].inputs :
                       (r = 1 \/ c \notin events[r - 1].inputs) => inputs[c] = events[r].request.op
          BY <3>1 DEF AuditValid, EventSound
        <4>7. events'[r] = events[r] /\ (r > 1 => events'[r - 1] = events[r - 1])
          BY <3>1, <4>1, <1>7
        <4>8. r # 1 => r > 1
          BY <3>1, <1>1, <1>7, SMTT(60)
        <4> QED BY <4>2, <4>4, <4>5, <4>6, <4>7, <4>8, <1>4, <1>8, <1>9, <1>11, SMTT(60) DEF EventSound
      <3>2. CASE r = L + 1
        <4>1. events'[r].inputs = p.inputs /\ events'[r].request = p.request /\ events'[r].nonce = n0
          BY <3>2, <1>7, SMTT(60) DEF e
        <4>2. r > 1 => events'[r - 1].inputs = Old
          BY <3>2, <1>1, <1>7, SMTT(60) DEF LastHoldsAll
        <4>3. r = 1 => Old = {}
          BY <3>2, <1>1, <1>7, SMTT(60) DEF LastHoldsAll, TypeOK
        <4>4. r = 1 \/ r > 1
          BY <3>2, <1>1, SMTT(60)
        <4>5. \A c \in p.inputs : (r = 1 \/ c \notin events'[r - 1].inputs) => inputs'[c] = p.request.op
          BY <4>2, <4>3, <4>4, <1>8
        <4> QED BY <4>1, <4>2, <4>5, <1>4, <1>9, <1>11 DEF row, EventSound
      <3> QED BY <3>1, <3>2, <1>7
    <2>4. \A c \in Old' : \E r \in DOMAIN events' : c \in events'[r].inputs
      BY <1>7, <1>9, SMTT(60) DEF e
    <2>5. \A n \in DOMAIN nonces' :
             nonces'[n].usedBy # None => \E r \in DOMAIN events' : events'[r].nonce = n
      <3> SUFFICES ASSUME NEW n \in DOMAIN nonces', nonces'[n].usedBy # None
                   PROVE  \E r \in DOMAIN events' : events'[r].nonce = n
        OBVIOUS
      <3>1. CASE n = n0
        BY <3>1, <1>7, SMTT(60) DEF e
      <3>2. CASE n # n0
        <4>1. \E r \in DOMAIN events : events[r].nonce = n
          BY <3>2, <1>11 DEF AuditValid
        <4> QED BY <4>1, <1>7
      <3> QED BY <3>1, <3>2
    <2> QED BY <2>1, <2>2, <2>3, <2>4, <2>5, <1>7 DEF AuditValid
  <1> QED BY <1>4, <1>6, <1>9, <1>12, <1>13, <1>14, <1>15, <1>16 DEF e

\* Every step of the applier keeps the invariant.
LEMMA StepInv == IndInv /\ [Next]_vars => IndInv'
  <1> SUFFICES ASSUME IndInv, [Next]_vars PROVE IndInv'
    OBVIOUS
  <1>1. ASSUME NEW c \in Changes, Ingest(c) PROVE IndInv'
    BY <1>1, SameTables DEF Ingest, tables, IndInv, TypeOK
  <1>2. CASE OwnerChanges
    BY <1>2, SameTables, BoundAssumption, SMTT(60) DEF OwnerChanges, tables, IndInv, TypeOK
  <1>3. CASE Reopen
    BY <1>3, SameTables DEF Reopen, tables, IndInv, TypeOK
  <1>4. ASSUME NEW op \in Ops, NEW wanted \in Targets, Prepare(op, wanted) PROVE IndInv'
    BY <1>4, PrepareKeeps
  <1>5. ASSUME NEW op \in Ops, NEW wanted \in Targets, PrepareUnknown(op, wanted) PROVE IndInv'
    BY <1>5, PrepareUnknownKeeps
  <1>6. ASSUME NEW p \in prepared, Commit(p) PROVE IndInv'
    <2>1. uncertain' \in BOOLEAN
      BY <1>6 DEF Commit, IndInv, TypeOK
    <2> QED BY <1>6, <2>1, RecordKeeps DEF Commit
  <1>7. ASSUME NEW p \in prepared, CommitUnknown(p) PROVE IndInv'
    <2>1. CASE Record(p)
      BY <1>7, <2>1, RecordKeeps DEF CommitUnknown
    <2>2. CASE UNCHANGED tables
      BY <1>7, <2>2, SameTables DEF CommitUnknown, tables, IndInv, TypeOK
    <2> QED BY <1>7, <2>1, <2>2 DEF CommitUnknown
  <1>8. CASE UNCHANGED vars
    BY <1>8, SameTables DEF vars, tables, IndInv, TypeOK
  <1> QED BY <1>1, <1>2, <1>3, <1>4, <1>5, <1>6, <1>7, <1>8 DEF Next

\* The invariant holds in every reachable state of the applier.
THEOREM Invariance == Spec => []IndInv
  BY InitInv, StepInv, PTL DEF Spec

\* audit_records finds nothing wrong in any state that prepare, commit, their
\* unknown outcomes and reopening can reach.
THEOREM AuditAlwaysValid == Spec => []AuditValid
  <1>1. IndInv => AuditValid
    BY DEF IndInv
  <1> QED BY <1>1, Invariance, PTL

\* What commit() has applied always contains the dependencies of its changes.
THEOREM AppliedAlwaysClosed == Spec => []AppliedClosed
  <1>1. IndInv => AppliedClosed
    BY DEF IndInv
  <1> QED BY <1>1, Invariance, PTL

\* A committed transaction is a step of the abstract document.
LEMMA RecordApplies ==
    ASSUME NEW p \in prepared, IndInv, Commits(p), Record(p),
           UNCHANGED <<pool, owner, prepared>>, uncertain' \in BOOLEAN
    PROVE  Document!Next
  <1>1. /\ IndInv' /\ Old' = p.inputs /\ Old \subseteq p.inputs /\ Old # p.inputs
        /\ events' = Append(events, [request |-> p.request, inputs |-> p.inputs, nonce |-> p.nonce])
    BY RecordKeeps
  <1>2. p.request.op \in Ops /\ p.request \in Requests /\ p.inputs \in SUBSET Changes /\ p.nonce \in Nat
    BY DEF IndInv, TypeOK, Prepared, Requests
  <1> DEFINE e == [request |-> p.request, inputs |-> p.inputs, nonce |-> p.nonce]
  <1>3. e \in EventRows /\ e.request.op = p.request.op
    BY <1>2 DEF EventRows
  <1> HIDE DEF e
  <1>4. events \in Seq(EventRows) /\ events' = Append(events, e)
    BY <1>1 DEF IndInv, TypeOK, e
  <1>5. /\ \A r \in DOMAIN events' : r \in DOMAIN events \/ events'[r] = e
        /\ \A r \in DOMAIN events : r \in DOMAIN events' /\ events'[r] = events[r]
        /\ Len(events) + 1 \in DOMAIN events' /\ events'[Len(events) + 1] = e
    BY <1>3, <1>4, SMTT(60)
  <1>6. Done' = Done \cup {p.request.op}
    BY <1>3, <1>5 DEF Done
  <1>7. p.request.op \notin Done
    BY DEF Commits, Committed, Done
  <1>8. Old' \in SUBSET Changes /\ \A c \in Old' : Deps[c] \subseteq Old'
    BY <1>1, <1>2 DEF IndInv, AppliedClosed, IsClosed
  <1>9. Document!Apply(p.request.op)
    BY <1>1, <1>6, <1>7, <1>8 DEF Document!Apply, Document!CausallyClosed
  <1> QED BY <1>2, <1>9 DEF Document!Next

\* Every step of the applier moves the document by one operation or leaves it.
LEMMA StepApplies == IndInv /\ [Next]_vars => [Document!Next]_(Document!vars)
  <1> SUFFICES ASSUME IndInv, [Next]_vars PROVE [Document!Next]_(Document!vars)
    OBVIOUS
  <1>1. ASSUME UNCHANGED <<inputs, events>> PROVE UNCHANGED Document!vars
    BY <1>1 DEF Document!vars, Old, Done
  <1>2. ASSUME NEW p \in prepared, Commit(p) PROVE Document!Next
    <2>1. uncertain' \in BOOLEAN
      BY <1>2 DEF Commit, IndInv, TypeOK
    <2> QED BY <1>2, <2>1, RecordApplies DEF Commit
  <1>3. ASSUME NEW p \in prepared, CommitUnknown(p) PROVE [Document!Next]_(Document!vars)
    <2>1. CASE Record(p)
      BY <1>3, <2>1, RecordApplies DEF CommitUnknown
    <2>2. CASE UNCHANGED tables
      BY <1>1, <2>2 DEF tables
    <2> QED BY <1>3, <2>1, <2>2 DEF CommitUnknown
  <1>4. ASSUME NEW op \in Ops, NEW wanted \in Targets, Prepare(op, wanted) \/ PrepareUnknown(op, wanted)
        PROVE UNCHANGED Document!vars
    BY <1>1, <1>4 DEF Prepare, PrepareUnknown
  <1>5. ASSUME (\E c \in Changes : Ingest(c)) \/ OwnerChanges \/ Reopen \/ UNCHANGED vars
        PROVE UNCHANGED Document!vars
    BY <1>1, <1>5 DEF Ingest, OwnerChanges, Reopen, vars, tables
  <1> QED BY <1>2, <1>3, <1>4, <1>5 DEF Next

\* The applier implements the abstract causal document: each operation moves it at
\* most once, by something new, to a causally closed set.
THEOREM Refinement == Spec => ImplementsDocument
  <1>1. Init => Document!Init
    BY SMTT(60) DEF Init, Document!Init, Old, Done
  <1> QED BY <1>1, StepApplies, Invariance, PTL DEF Spec, ImplementsDocument, Document!Spec

-----------------------------------------------------------------------------
(* The applier in the process that owns it *)

\* Every record can be rebuilt from its own targets and its predecessor's inputs, and so
\* can the record that a current preparation would make.
Rebuilt ==
    /\ \A r \in DOMAIN events : Replays(r)
    /\ \A p \in prepared : p.request.expected = Len(events) => p.inputs = Selected(p.request.targets \cup Old)

OwnedInv == IndInv /\ Rebuilt /\ targets \in Targets

\* A record depends on the events up to its own only.
LEMMA SameReplays ==
    ASSUME events' = events
    PROVE  \A r \in DOMAIN events : Replays(r) => Replays(r)'
BY DEF Replays, Selected, Closed, IsClosed

\* Steps that leave the tables alone and prepare nothing.
LEMMA RebuiltStays ==
    ASSUME Rebuilt, UNCHANGED <<inputs, events>>, prepared' \subseteq prepared
    PROVE  Rebuilt'
<1>1. Old' = Old
  BY DEF Old
<1>2. \A r \in DOMAIN events' : Replays(r)'
  BY SameReplays DEF Rebuilt
<1>3. \A p \in prepared' : p.request.expected = Len(events') => p.inputs = Selected(p.request.targets \cup Old')
  BY <1>1 DEF Rebuilt
<1> QED BY <1>2, <1>3 DEF Rebuilt, Selected, Closed, IsClosed

\* prepare() selects from the request's targets and what was applied before.
LEMMA PrepareRebuilt ==
    ASSUME Rebuilt, NEW op \in Ops, NEW t \in Targets, Prepare(op, t)
    PROVE  Rebuilt'
<1>1. events' = events /\ inputs' = inputs
  BY DEF Prepare
<1>2. Old' = Old
  BY <1>1 DEF Old
<1>3. PICK q : q = [request |-> Request(op, t), inputs |-> Select(t \cup Old), owner |-> owner,
                    source |-> pool, nonce |-> Len(nonces) + 1]
  OBVIOUS
<1>4. prepared' = prepared \cup {q}
  BY <1>3 DEF Prepare
<1>5. q.inputs = Selected(q.request.targets \cup Old)
  BY <1>3 DEF Request, Select
<1>6. \A p \in prepared' : p.request.expected = Len(events') => p.inputs = Selected(p.request.targets \cup Old')
  BY <1>1, <1>2, <1>4, <1>5 DEF Rebuilt
<1>7. \A r \in DOMAIN events' : Replays(r)'
  BY <1>1, SameReplays DEF Rebuilt
<1> QED BY <1>6, <1>7 DEF Rebuilt, Selected, Closed, IsClosed

\* A commit records the inputs it was prepared with, on top of the last record's.
LEMMA RecordRebuilt ==
    ASSUME IndInv, Rebuilt, NEW p \in prepared, Commits(p), Record(p), UNCHANGED <<pool, owner, prepared>>,
           uncertain' \in BOOLEAN
    PROVE  Rebuilt'
<1>1. PICK L : L = Len(events)
  OBVIOUS
<1>2. Revision = L /\ L \in Nat
  BY <1>1, RevisionIsLen DEF IndInv
<1>3. p.request.expected = L
  BY <1>2 DEF Commits, Guard
<1>4. p.inputs = Selected(p.request.targets \cup Old) /\ p.request.targets \in SUBSET Changes
  BY <1>1, <1>3, TargetsAssumption DEF Rebuilt, IndInv, TypeOK, Prepared, Requests
<1>5. PICK e : e = [request |-> p.request, inputs |-> p.inputs, nonce |-> p.nonce]
  OBVIOUS
<1>6. e.request = p.request /\ e.inputs = p.inputs /\ events' = Append(events, e)
  BY <1>5 DEF Record
<1>7. events \in Seq(EventRows)
  BY DEF IndInv, TypeOK
<1>8. /\ Len(events') = L + 1 /\ DOMAIN events = 1 .. L /\ DOMAIN events' = 1 .. (L + 1)
      /\ \A r \in 1 .. L : events'[r] = events[r]
      /\ events'[L + 1] = e
  BY <1>1, <1>2, <1>6, <1>7, SMTT(60)
<1>9. \A r \in 1 .. (L + 1) : Replays(r)'
  <2>1. ASSUME NEW r \in 1 .. L PROVE Replays(r)'
    <3>1. Replays(r)
      BY <1>8 DEF Rebuilt
    <3>2. r # 1 => r - 1 \in 1 .. L
      BY <1>2, SMTT(60)
    <3>3. events'[r] = events[r] /\ (r # 1 => events'[r - 1] = events[r - 1])
      BY <1>8, <3>2
    <3> QED BY <3>1, <3>3 DEF Replays, Selected, Closed, IsClosed
  <2>2. Replays(L + 1)'
    <3>1. Old = IF L + 1 = 1 THEN {} ELSE events'[(L + 1) - 1].inputs
      <4>1. CASE L = 0
        <5>1. events # <<>> => Len(events) \in DOMAIN events
          BY <1>7, SMTT(60)
        <5>2. events = <<>>
          BY <1>1, <1>8, <4>1, <5>1, SMTT(60)
        <5>3. Old = {}
          BY <5>2 DEF IndInv, LastHoldsAll
        <5> QED BY <4>1, <5>3, SMTT(60)
      <4>2. CASE L # 0
        <5>1. L \in 1 .. L /\ (L + 1) - 1 = L /\ L + 1 # 1
          BY <1>2, <4>2, SMTT(60)
        <5>2. events # <<>>
          BY <1>1, <4>2, SMTT(60)
        <5>3. Old = events[L].inputs
          BY <1>1, <5>2 DEF IndInv, LastHoldsAll
        <5> QED BY <1>8, <5>1, <5>3
      <4> QED BY <4>1, <4>2
    <3>2. p.request.targets \cup Old \in SUBSET Changes
      BY <1>4 DEF Old
    <3>3. p.request.targets \cup Old \subseteq p.inputs
      BY <1>4, <3>2, SelectedClosed
    <3>4. /\ events'[L + 1].inputs = p.inputs
          /\ events'[L + 1].request.targets \cup (IF L + 1 = 1 THEN {} ELSE events'[(L + 1) - 1].inputs)
               = p.request.targets \cup Old
      BY <1>6, <1>8, <3>1
    <3> QED BY <1>4, <3>3, <3>4 DEF Replays, Selected, Closed, IsClosed
  <2>3. \A r \in 1 .. (L + 1) : r \in 1 .. L \/ r = L + 1
    BY <1>2, SMTT(60)
  <2> QED BY <2>1, <2>2, <2>3
<1>10. \A q \in prepared : q.request.expected # L + 1
  <2> SUFFICES ASSUME NEW q \in prepared PROVE q.request.expected # L + 1
    OBVIOUS
  <2>1. q.request.expected <= L
    BY <1>1 DEF IndInv, PreparedSound
  <2> QED BY <1>2, <2>1, SMTT(60)
<1> QED BY <1>8, <1>9, <1>10 DEF Rebuilt

\* Every step of the applier keeps its records replayable.
LEMMA StepRebuilt == ASSUME IndInv, Rebuilt, [Next]_vars PROVE Rebuilt'
<1>1. ASSUME (\E c \in Changes : Ingest(c)) \/ OwnerChanges \/ Reopen \/ UNCHANGED vars PROVE Rebuilt'
  <2>1. UNCHANGED <<inputs, events>> /\ prepared' \subseteq prepared
    BY <1>1 DEF Ingest, OwnerChanges, Reopen, vars, tables
  <2> QED BY <2>1, RebuiltStays
<1>2. ASSUME NEW op \in Ops, NEW t \in Targets, Prepare(op, t) \/ PrepareUnknown(op, t) PROVE Rebuilt'
  <2>1. CASE Prepare(op, t)
    BY <2>1, PrepareRebuilt
  <2>2. CASE PrepareUnknown(op, t)
    BY <2>2, RebuiltStays DEF PrepareUnknown
  <2> QED BY <1>2, <2>1, <2>2
<1>3. ASSUME NEW p \in prepared, Commit(p) PROVE Rebuilt'
  <2>1. uncertain' \in BOOLEAN
    BY <1>3 DEF Commit, IndInv, TypeOK
  <2> QED BY <1>3, <2>1, RecordRebuilt DEF Commit
<1>4. ASSUME NEW p \in prepared, CommitUnknown(p) PROVE Rebuilt'
  <2>1. CASE Record(p)
    BY <1>4, <2>1, RecordRebuilt DEF CommitUnknown
  <2>2. CASE UNCHANGED tables
    BY <1>4, <2>2, RebuiltStays DEF CommitUnknown, tables
  <2> QED BY <1>4, <2>1, <2>2 DEF CommitUnknown
<1> QED BY <1>1, <1>2, <1>3, <1>4 DEF Next

\* What the intents, the controller and the channel do to the applier is a step of its
\* own, or the end of the call that held its prepared values.
LEMMA OwnedStep ==
    ASSUME targets \in Targets, [ONext]_ovars
    PROVE  ([Next]_vars \/ Returned) /\ targets' \in Targets
<1> USE OpsAssumption
<1>1. CASE UNCHANGED ovars
  BY <1>1 DEF ovars, controller
<1>2. CASE Environment \/ Start \/ StartFails \/ Stop \/ Observe \/ Attach
  BY <1>2 DEF Environment, Start, StartFails, Stop, Observe, Attach, Next, controller
<1>3. ASSUME NEW key, key.op \in DirectOps, DirectApply(key) \/ DirectInquire(key)
      PROVE  ([Next]_vars \/ Returned) /\ targets' \in Targets
  BY <1>3 DEF DirectApply, DirectInquire, Next
<1>4. ASSUME NEW op \in DirectOps,
             LET old == IF asked # None /\ asked.op = op THEN {asked} ELSE {}
             IN \E key \in {Asks(op)} \cup old : DirectApply(key) \/ DirectInquire(key)
      PROVE  ([Next]_vars \/ Returned) /\ targets' \in Targets
  <2>1. PICK key \in {Asks(op)} \cup (IF asked # None /\ asked.op = op THEN {asked} ELSE {}) :
               DirectApply(key) \/ DirectInquire(key)
    BY <1>4
  <2>2. Asks(op).op = op
    BY DEF Asks
  <2>3. key.op = op
    BY <2>1, <2>2
  <2> QED BY <1>3, <2>1, <2>3
<1>5. CASE DirectCommit
  BY <1>5 DEF DirectCommit, Next
<1>6. ASSUME NEW i \in New, PrepareIntent(i) PROVE ([Next]_vars \/ Returned) /\ targets' \in Targets
  BY <1>6 DEF PrepareIntent, Granted, Answered
<1>7. ASSUME NEW i \in Named, DispatchIntent(i) \/ ExecuteEnds(i) \/ InquireIntent(i) \/ SettleIntent(i)
      PROVE  ([Next]_vars \/ Returned) /\ targets' \in Targets
  BY <1>7 DEF DispatchIntent, ExecuteEnds, InquireIntent, SettleIntent, Granted, Answered
<1>8. ASSUME NEW i \in Named, ExecutePrepare(i) \/ ExecuteCommit(i) \/ ExecuteFails(i)
      PROVE  ([Next]_vars \/ Returned) /\ targets' \in Targets
  <2>1. i.op \in Ops /\ i.targets \in Targets
    BY DEF Named, I!Intents
  <2> QED BY <1>8, <2>1 DEF ExecutePrepare, ExecuteCommit, ExecuteFails, Next, Answered, controller
<1> QED BY <1>1, <1>2, <1>4, <1>5, <1>6, <1>7, <1>8 DEF ONext

\* Every step of the owning process keeps the applier's invariant.
LEMMA OwnedStepInv == ASSUME OwnedInv, [ONext]_ovars PROVE OwnedInv'
<1>1. IndInv /\ Rebuilt /\ targets \in Targets
  BY DEF OwnedInv
<1>2. ([Next]_vars \/ Returned) /\ targets' \in Targets
  BY <1>1, OwnedStep
<1>3. CASE [Next]_vars
  BY <1>1, <1>2, <1>3, StepInv, StepRebuilt DEF OwnedInv
<1>4. CASE Returned
  <2>1. UNCHANGED tables /\ prepared' \subseteq prepared /\ TypeOK'
    BY <1>1, <1>4 DEF Returned, IndInv, TypeOK, tables
  <2> QED BY <1>1, <1>2, <2>1, SameTables, RebuiltStays DEF OwnedInv, tables
<1> QED BY <1>2, <1>3, <1>4

\* The applier's invariant holds however its owner drives it.
THEOREM OwnedInvariance == OSpec => []OwnedInv
<1>1. ASSUME OInit PROVE OwnedInv
  <2>1. Init /\ targets \in Targets
    BY <1>1 DEF OInit
  <2>2. Rebuilt
    BY <2>1, SMTT(60) DEF Init, Rebuilt
  <2> QED BY <2>1, <2>2, InitInv DEF OwnedInv
<1> QED BY <1>1, OwnedStepInv, PTL DEF OSpec

\* Through the channel, the controller and every crash, an observer can show the
\* document: the audit passes and the last record replays from the stored inputs.
THEOREM ObserverAlwaysServes == OSpec => []ObserverServes
<1>1. ASSUME OwnedInv PROVE ObserverServes
  <2>1. AuditValid /\ events \in Seq(EventRows) /\ \A r \in DOMAIN events : Replays(r)
    BY <1>1 DEF OwnedInv, IndInv, Rebuilt, TypeOK
  <2>2. events # <<>> => Len(events) \in DOMAIN events
    BY <2>1, SMTT(60)
  <2> QED BY <2>1, <2>2 DEF ObserverServes, Observable
<1> QED BY <1>1, OwnedInvariance, PTL

\* The process that owns the applier implements the abstract causal document too: no
\* intent, retry or restart applies an operation twice or leaves a gap in the causes.
THEOREM OwnedRefinement == OSpec => ImplementsDocument
<1>1. OInit => Document!Init
  BY SMTT(60) DEF OInit, Init, Document!Init, Old, Done
<1>2. ASSUME OwnedInv, [ONext]_ovars PROVE [Document!Next]_(Document!vars)
  <2>1. IndInv /\ ([Next]_vars \/ Returned)
    BY <1>2, OwnedStep DEF OwnedInv
  <2>2. CASE [Next]_vars
    BY <2>1, <2>2, StepApplies
  <2>3. CASE Returned
    BY <2>3 DEF Returned, tables, Document!vars, Old, Done
  <2> QED BY <2>1, <2>2, <2>3
<1> QED BY <1>1, <1>2, OwnedInvariance, PTL DEF OSpec, ImplementsDocument, Document!Spec
=============================================================================

------------------------- MODULE ConnectivityProofs -------------------------
(***************************************************************************)
(* Proofs about the connector, for every number of operations, sockets,    *)
(* addresses and network changes: an active connection belongs to the      *)
(* current network (ActiveCurrent), and the sockets stay within the        *)
(* largest max_connections of the policies (SocketsBounded).               *)
(***************************************************************************)
EXTENDS Connectivity, FiniteSetTheorems, TLAPS

USE ZenonT(60)

(* The inductive invariant. *)

ConnType ==
    /\ generation \in Nat /\ closed \in BOOLEAN /\ lingering \in Nat
    /\ op \in [Op -> OpRecords \cup {None}]
    /\ conn \in [Conn -> ConnStates] /\ addr \in [Conn -> Address \cup {None}]

\* The stages in which an operation has a socket, and the states of such a socket.
Owning == {"dialing", "dialed", "authenticating", "proved"}
Owned == {"dialing", "handshake", "held"}
Owns(o, c) == op[o] # None /\ op[o].at \in Owning /\ op[o].conn = c

\* A socket in use belongs to exactly one operation.
OwnInv ==
    /\ \A o \in Op : op[o] # None => /\ op[o].gen <= generation
                                     /\ op[o].at \in Owning => op[o].conn \in Conn
    /\ \A o, p \in Op, c \in Conn : Owns(o, c) /\ Owns(p, c) => o = p
    /\ \A c \in Conn : conn[c] \in Owned <=> \E o \in Op : Owns(o, c)

\* What an operation of the current generation dials is granted by the policy.
Granted(o) == op[o] # None /\ op[o].gen = generation /\ ~closed
GrantInv ==
    \A o \in Op : Granted(o) => /\ \A a \in op[o].targets : AddressAllowed(a, policy)
                                /\ \A c \in Conn : Owns(o, c) => AddressAllowed(addr[c], policy)

\* The slots of the connection budget.  An operation that waits for its socket to close
\* has given its slot to that socket, and takes one again only when nothing is closing.
Holders == {o \in Running : op[o].at \in Owning \cup {"resolving"}}
Slots == Holders \cup In({"late", "active", "closing", "failed"})
Claimants == Running \cup In({"late", "active"})
SlotInv == Cardinality(Slots) <= MaxConnections /\ Cardinality(Claimants) <= MaxConnections

\* The policy in force is one that change_network was given.
PolicyInv == PolicyShape(policy)

ConnInv == ConnType /\ OwnInv /\ GrantInv /\ ActiveCurrent /\ SlotInv

-----------------------------------------------------------------------------
(* Counting *)

\* Slots are sets of operations and sockets, so there are finitely many.
LEMMA SlotsFinite ==
    /\ \A S \in SUBSET Conn : IsFiniteSet(S) /\ Cardinality(S) \in Nat
    /\ \A S \in SUBSET Op : IsFiniteSet(S) /\ Cardinality(S) \in Nat
    /\ \A S \in SUBSET (Op \cup Conn) : IsFiniteSet(S) /\ Cardinality(S) \in Nat
<1>1. IsFiniteSet(Op) /\ IsFiniteSet(Conn) /\ IsFiniteSet(Op \cup Conn)
  BY Resources, FS_Union
<1> QED BY <1>1, FS_Subset, FS_CardinalityType

\* One slot may be exchanged for another.
LEMMA Exchanged ==
    ASSUME NEW S \in SUBSET (Op \cup Conn), NEW x \in S, NEW y \in Op \cup Conn,
           NEW T, T \subseteq (S \ {x}) \cup {y}
    PROVE  Cardinality(T) <= Cardinality(S)
<1>1. IsFiniteSet(S) /\ Cardinality(S) \in Nat
  BY SlotsFinite
<1> DEFINE U == (S \ {x}) \cup {y}
<1>2. IsFiniteSet(S \ {x}) /\ Cardinality(S \ {x}) = Cardinality(S) - 1
  BY <1>1, FS_RemoveElement
<1>3. IsFiniteSet(U) /\ Cardinality(U) <= Cardinality(S)
  BY <1>1, <1>2, FS_AddElement, SMTT(60)
<1>4. Cardinality(T) <= Cardinality(U) /\ IsFiniteSet(T)
  BY <1>3, FS_Subset
<1> HIDE DEF U
<1> QED BY <1>1, <1>3, <1>4, FS_CardinalityType, SMTT(60)

\* Fewer operations and connections take no more slots.
LEMMA Fewer ==
    ASSUME NEW S \in SUBSET (Op \cup Conn), NEW T \in SUBSET S
    PROVE  Cardinality(T) <= Cardinality(S)
BY SlotsFinite, FS_Subset

\* With one slot to spare, one more may be taken.
LEMMA OneMore ==
    ASSUME NEW S \in SUBSET (Op \cup Conn), NEW y \in Op \cup Conn, NEW n \in Nat,
           Cardinality(S) < n, NEW T, T \subseteq S \cup {y}
    PROVE  Cardinality(T) <= n
<1>1. IsFiniteSet(S) /\ Cardinality(S) \in Nat
  BY SlotsFinite
<1> DEFINE U == S \cup {y}
<1>2. IsFiniteSet(U) /\ Cardinality(U) <= n
  BY <1>1, FS_AddElement, SMTT(60)
<1>3. Cardinality(T) <= Cardinality(U) /\ IsFiniteSet(T)
  BY <1>2, FS_Subset
<1> HIDE DEF U
<1> QED BY <1>2, <1>3, FS_CardinalityType, SMTT(60)

\* The budget is a number.
LEMMA Budget == MaxConnections \in Nat
  BY Policies

\* An operation takes a slot for itself.
LEMMA TakenSlot ==
    ASSUME NEW o \in Op, Slots' \subseteq Slots \cup {o}, Claimants' \subseteq Claimants \cup {o},
           Cardinality(Slots \cup {o}) <= MaxConnections, Cardinality(Claimants \cup {o}) <= MaxConnections
    PROVE  SlotInv'
<1>1. /\ Slots \cup {o} \in SUBSET (Op \cup Conn) /\ Claimants \cup {o} \in SUBSET (Op \cup Conn)
      /\ Slots' \in SUBSET (Op \cup Conn) /\ Claimants' \in SUBSET (Op \cup Conn)
  BY DEF Slots, Claimants, Holders, Running, In
<1>2. Cardinality(Slots') <= Cardinality(Slots \cup {o}) /\ Cardinality(Claimants') <= Cardinality(Claimants \cup {o})
  BY <1>1, Fewer
<1>3. /\ Cardinality(Slots') \in Nat /\ Cardinality(Slots \cup {o}) \in Nat
      /\ Cardinality(Claimants') \in Nat /\ Cardinality(Claimants \cup {o}) \in Nat
  BY <1>1, SlotsFinite
<1> QED BY <1>2, <1>3, Budget, SMTT(60) DEF SlotInv

\* The budgets of a step that takes no new slot.
LEMMA BudgetKept ==
    ASSUME SlotInv, ConnType, ConnType',
           \/ Slots' \subseteq Slots
           \/ \E x \in Slots, y \in Op \cup Conn : Slots' \subseteq (Slots \ {x}) \cup {y},
           \/ Claimants' \subseteq Claimants
           \/ \E x \in Claimants, y \in Op \cup Conn : Claimants' \subseteq (Claimants \ {x}) \cup {y}
    PROVE  SlotInv'
<1>1. MaxConnections \in Nat
  BY Budget
<1>2. /\ Slots \in SUBSET (Op \cup Conn) /\ Claimants \in SUBSET (Op \cup Conn)
      /\ Slots' \in SUBSET (Op \cup Conn) /\ Claimants' \in SUBSET (Op \cup Conn)
  BY DEF Slots, Claimants, Holders, Running, In
<1>3. Cardinality(Slots') <= Cardinality(Slots)
  BY <1>2, Exchanged, Fewer
<1>4. Cardinality(Claimants') <= Cardinality(Claimants)
  BY <1>2, Exchanged, Fewer
<1>5. /\ Cardinality(Slots') \in Nat /\ Cardinality(Slots) \in Nat
      /\ Cardinality(Claimants') \in Nat /\ Cardinality(Claimants) \in Nat
  BY <1>2, SlotsFinite
<1> QED BY <1>1, <1>3, <1>4, <1>5, SMTT(60) DEF SlotInv

-----------------------------------------------------------------------------
(* The steps, by what they do to an operation and its socket *)

\* An operation that keeps its socket: the dial, the handshake and the authentication
\* make progress.
LEMMA Progresses ==
    ASSUME ConnInv, NEW o \in Op, op[o] # None, op[o].at \in Owning,
           op' = op \/ \E at \in Owning : Goes(o, at),
           conn' = conn \/ \E s \in Owned : conn' = [conn EXCEPT ![op[o].conn] = s],
           UNCHANGED <<generation, closed, policy, addr, lingering>>
    PROVE  ConnInv'
<1>0. ConnType /\ OwnInv /\ GrantInv /\ ActiveCurrent /\ SlotInv
  BY DEF ConnInv
<1>1. PICK c \in Conn : c = op[o].conn /\ Owns(o, c) /\ conn[c] \in Owned
  BY <1>0 DEF OwnInv, Owns
<1>2. /\ op' \in [Op -> OpRecords \cup {None}]
      /\ \A p \in Op : /\ op'[p] # None <=> op[p] # None
                       /\ op[p] # None => /\ op'[p].gen = op[p].gen /\ op'[p].targets = op[p].targets
                                          /\ op'[p].conn = op[p].conn
                                          /\ op'[p] = op[p] \/ {op'[p].at, op[p].at} \subseteq Owning
  <2>1. CASE op' = op
    BY <1>0, <2>1 DEF ConnType
  <2>2. ASSUME NEW at \in Owning, Goes(o, at)
        PROVE  /\ op' \in [Op -> OpRecords \cup {None}]
               /\ \A p \in Op : /\ op'[p] # None <=> op[p] # None
                                /\ op[p] # None => /\ op'[p].gen = op[p].gen /\ op'[p].targets = op[p].targets
                                                   /\ op'[p].conn = op[p].conn
                                                   /\ op'[p] = op[p] \/ {op'[p].at, op[p].at} \subseteq Owning
    <3> DEFINE r == [op[o] EXCEPT !.at = at]
    <3>1. op[o] \in OpRecords /\ op \in [Op -> OpRecords \cup {None}]
      BY <1>0 DEF ConnType
    <3>2. /\ r \in OpRecords /\ r.gen = op[o].gen /\ r.targets = op[o].targets
          /\ r.conn = op[o].conn /\ r.at = at
      BY <3>1 DEF OpRecords, Stages, Owning
    <3>3. op' = [op EXCEPT ![o] = r]
      BY <2>2, <3>1 DEF Goes
    <3> HIDE DEF r
    <3> QED BY <3>1, <3>2, <3>3, NoOperation
  <2> QED BY <2>1, <2>2
<1>3. /\ conn' \in [Conn -> ConnStates]
      /\ \A d \in Conn : conn'[d] = conn[d] \/ {conn'[d], conn[d]} \subseteq Owned
  BY <1>0, <1>1, SMTT(60) DEF ConnType, Owned, ConnStates
<1>4. \A p \in Op : \A d : Owns(p, d)' <=> Owns(p, d)
  BY <1>2 DEF Owns
<1>5. ConnType'
  BY <1>0, <1>2, <1>3 DEF ConnType
<1>6. OwnInv'
  BY <1>0, <1>2, <1>3, <1>4 DEF OwnInv
<1>7. GrantInv'
  BY <1>0, <1>2, <1>4 DEF GrantInv, Granted, AddressAllowed
<1>8. ActiveCurrent'
  BY <1>0, <1>3 DEF ActiveCurrent, In, AddressAllowed, Owned
<1>9. Slots' = Slots /\ Claimants' = Claimants
  <2>1. Running' = Running /\ Holders' = Holders
    BY <1>2 DEF Running, Holders
  <2>2. \A S \in {{"late", "active", "closing", "failed"}, {"late", "active"}} : In(S)' = In(S)
    BY <1>3 DEF In, Owned
  <2> QED BY <2>1, <2>2 DEF Slots, Claimants
<1> QED BY <1>0, <1>5, <1>6, <1>7, <1>8, <1>9, BudgetKept DEF ConnInv

\* An operation gives its socket up: to the caller as an active connection, to a close,
\* or to the task of an abandoned dial.  Only the first needs the fence.
LEMMA Releases ==
    ASSUME ConnInv, NEW o \in Op, op[o] # None, op[o].at \in Owning,
           NEW r \in OpRecords \cup {None}, op' = [op EXCEPT ![o] = r],
           r # None => /\ r.gen = op[o].gen /\ r.targets = op[o].targets
                       /\ r.at \in {"retired", "ending"},
           NEW s \in {"free", "late", "active", "closing"},
           conn' = [conn EXCEPT ![op[o].conn] = s],
           s \in {"late", "active"} => r = None,
           IF s = "active" THEN Fence(o) /\ addr' = addr
           ELSE addr' = [addr EXCEPT ![op[o].conn] = None],
           UNCHANGED <<generation, closed, policy>>, lingering' \in Nat
    PROVE  ConnInv'
<1>0. ConnType /\ OwnInv /\ GrantInv /\ ActiveCurrent /\ SlotInv
  BY DEF ConnInv
<1>1. PICK c \in Conn : c = op[o].conn /\ Owns(o, c) /\ conn[c] \in Owned
  BY <1>0 DEF OwnInv, Owns
<1>2. op' \in [Op -> OpRecords \cup {None}] /\ op'[o] = r /\ \A p \in Op \ {o} : op'[p] = op[p]
  BY <1>0 DEF ConnType
<1>3. conn' \in [Conn -> ConnStates] /\ conn'[c] = s /\ \A d \in Conn \ {c} : conn'[d] = conn[d]
  BY <1>0, <1>1 DEF ConnType, ConnStates
<1>4. /\ addr' \in [Conn -> Address \cup {None}] /\ \A d \in Conn \ {c} : addr'[d] = addr[d]
      /\ s = "active" => addr'[c] = addr[c]
  BY <1>0, <1>1 DEF ConnType
<1>5. /\ \A p \in Op \ {o} : \A d : Owns(p, d)' <=> Owns(p, d)
      /\ \A d : ~Owns(o, d)'
  BY <1>2 DEF Owns, Owning
<1>6. ConnType'
  BY <1>0, <1>2, <1>3, <1>4 DEF ConnType
<1>7. OwnInv'
  <2>1. \A p \in Op : op'[p] # None => op'[p].gen <= generation' /\ (op'[p].at \in Owning => op'[p].conn \in Conn)
    BY <1>0, <1>2 DEF OwnInv, Owning
  <2>2. \A p, q \in Op, d \in Conn : Owns(p, d)' /\ Owns(q, d)' => p = q
    BY <1>0, <1>5 DEF OwnInv
  <2>3. \A d \in Conn \ {c} : conn'[d] \in Owned <=> \E p \in Op : Owns(p, d)'
    <3>1. \A d \in Conn \ {c} : ~Owns(o, d)
      BY <1>1 DEF Owns
    <3>2. \A d \in Conn \ {c}, p \in Op : Owns(p, d)' <=> Owns(p, d)
      BY <1>5, <3>1
    <3> QED BY <1>0, <1>3, <3>2 DEF OwnInv
  <2>4. conn'[c] \notin Owned /\ ~ \E p \in Op : Owns(p, c)'
    BY <1>0, <1>1, <1>3, <1>5, SMTT(60) DEF OwnInv, Owned
  <2> QED BY <2>1, <2>2, <2>3, <2>4, SMTT(60) DEF OwnInv
<1>8. GrantInv'
  <2>1. \A p \in Op \ {o}, d \in Conn : Owns(p, d) => d # c
    BY <1>0, <1>1, SMTT(60) DEF OwnInv
  <2> QED BY <1>0, <1>2, <1>4, <1>5, <2>1, SMTT(60) DEF GrantInv, Granted, AddressAllowed
<1>9. ActiveCurrent'
  <2>1. s = "active" => AddressAllowed(addr[c], policy) /\ ~closed
    BY <1>0, <1>1 DEF GrantInv, Granted, Fence, Owns
  <2>2. \A d \in Conn : conn'[d] = "active" => AddressAllowed(addr'[d], policy') /\ ~closed'
    BY <1>0, <1>3, <1>4, <2>1, SMTT(60) DEF ActiveCurrent, In, AddressAllowed
  <2> QED BY <2>2 DEF ActiveCurrent, In, AddressAllowed
<1>10. o \in Slots /\ Slots' \subseteq (Slots \ {o}) \cup {c}
  <2>1. Holders' \subseteq Holders \ {o} /\ o \in Holders
    BY <1>1, <1>2 DEF Holders, Running, Owning
  <2>2. In({"late", "active", "closing", "failed"})' \subseteq In({"late", "active", "closing", "failed"}) \cup {c}
    BY <1>3 DEF In
  <2>3. In({"late", "active", "closing", "failed"}) \subseteq Conn
    BY DEF In
  <2> QED BY <2>1, <2>2, <2>3, Resources DEF Slots
<1>11. \/ Claimants' \subseteq Claimants
       \/ o \in Claimants /\ Claimants' \subseteq (Claimants \ {o}) \cup {c}
  <2>1. Running' \subseteq Running /\ o \in Running /\ (r = None => o \notin Running')
    BY <1>2 DEF Running
  <2>2. In({"late", "active"})' \subseteq In({"late", "active"}) \cup {c} /\ In({"late", "active"}) \subseteq Conn
    BY <1>3 DEF In
  <2>3. s \notin {"late", "active"} => In({"late", "active"})' \subseteq In({"late", "active"})
    BY <1>3 DEF In
  <2> QED BY <2>1, <2>2, <2>3, Resources DEF Claimants
<1> QED BY <1>0, <1>6, <1>7, <1>8, <1>9, <1>10, <1>11, BudgetKept DEF ConnInv

\* A socket is dialled by an operation that has none: the fence holds, the address is
\* granted, and the operation has a slot, or one is free.
LEMMA DialsSound ==
    ASSUME ConnInv, NEW o \in Op, op[o] # None => op[o].at \notin Owning,
           NEW rec, NEW a \in Address, Dials(o, rec, a),
           rec \in [gen : Nat, at : Stages \cup {"route"}, conn : Conn \cup {None},
                    targets : SUBSET Address, dials : Nat],
           rec.gen = generation /\ ~closed, AddressAllowed(a, policy),
           \A b \in rec.targets : AddressAllowed(b, policy),
           UNCHANGED <<generation, closed, policy, lingering>>,
           Cardinality(Slots \cup {o}) <= MaxConnections,
           Cardinality(Claimants \cup {o}) <= MaxConnections
    PROVE  ConnInv'
<1>0. ConnType /\ OwnInv /\ GrantInv /\ ActiveCurrent /\ SlotInv
  BY DEF ConnInv
<1>1. PICK c \in Conn : conn[c] = "free" /\ c = CHOOSE d \in Conn : conn[d] = "free"
  BY DEF Dials, In
<1> DEFINE n == rec.dials + 1
           rest == rec.targets \ {a}
           r == [rec EXCEPT !.at = "dialing", !.conn = c, !.dials = n, !.targets = rest]
<1>2. /\ op' = [op EXCEPT ![o] = r] /\ conn' = [conn EXCEPT ![c] = "dialing"]
      /\ addr' = [addr EXCEPT ![c] = a]
  BY <1>1 DEF Dials
<1>3. /\ r \in OpRecords /\ r.gen = generation /\ r.at = "dialing" /\ r.conn = c
      /\ r.targets = rec.targets \ {a}
  <2>1. rest \in SUBSET Address /\ n \in Nat
    BY SMTT(60)
  <2>2. rest = rec.targets \ {a}
    OBVIOUS
  <2> HIDE DEF n, rest
  <2> QED BY <2>1, <2>2 DEF OpRecords, Stages
<1> HIDE DEF r
<1>4. op' \in [Op -> OpRecords \cup {None}] /\ op'[o] = r /\ r # None /\ \A p \in Op \ {o} : op'[p] = op[p]
  BY <1>0, <1>2, <1>3, NoOperation DEF ConnType
<1>5. conn' \in [Conn -> ConnStates] /\ conn'[c] = "dialing" /\ \A d \in Conn \ {c} : conn'[d] = conn[d]
  BY <1>0, <1>2 DEF ConnType, ConnStates
<1>6. addr' \in [Conn -> Address \cup {None}] /\ addr'[c] = a /\ \A d \in Conn \ {c} : addr'[d] = addr[d]
  BY <1>0, <1>2 DEF ConnType
<1>7. /\ \A p \in Op \ {o} : \A d : Owns(p, d)' <=> Owns(p, d)
      /\ \A d : Owns(o, d)' <=> d = c
      /\ \A d : ~Owns(o, d)
  BY <1>3, <1>4 DEF Owns, Owning
<1>8. \A p \in Op : ~Owns(p, c)
  BY <1>0, <1>1 DEF OwnInv, Owned
<1>9. ConnType'
  BY <1>0, <1>4, <1>5, <1>6 DEF ConnType
<1>10. OwnInv'
  <2>1. \A p \in Op : op'[p] # None => op'[p].gen <= generation' /\ (op'[p].at \in Owning => op'[p].conn \in Conn)
    <3>1. r.gen <= generation /\ r.conn \in Conn
      BY <1>0, <1>3, SMTT(60) DEF ConnType
    <3> QED BY <1>0, <1>4, <3>1 DEF OwnInv
  <2>2. \A p, q \in Op, d \in Conn : Owns(p, d)' /\ Owns(q, d)' => p = q
    BY <1>0, <1>7, <1>8 DEF OwnInv
  <2>3. \A d \in Conn \ {c} : conn'[d] \in Owned <=> \E p \in Op : Owns(p, d)'
    <3>1. \A d \in Conn \ {c}, p \in Op : Owns(p, d)' <=> Owns(p, d)
      BY <1>7
    <3> QED BY <1>0, <1>5, <3>1 DEF OwnInv
  <2>4. conn'[c] \in Owned /\ Owns(o, c)'
    BY <1>5, <1>7 DEF Owned
  <2> QED BY <2>1, <2>2, <2>3, <2>4, SMTT(60) DEF OwnInv
<1>11. GrantInv'
  <2>1. /\ \A b \in r.targets : AddressAllowed(b, policy)'
        /\ AddressAllowed(addr'[c], policy')
    BY <1>3, <1>6 DEF AddressAllowed
  <2>2. ASSUME NEW p \in Op \ {o}, Granted(p)'
        PROVE  /\ \A b \in op'[p].targets : AddressAllowed(b, policy')
               /\ \A d \in Conn : Owns(p, d)' => AddressAllowed(addr'[d], policy')
    <3>1. Granted(p)
      BY <1>4, <2>2 DEF Granted
    <3> QED BY <1>0, <1>4, <1>6, <1>7, <1>8, <3>1 DEF GrantInv, AddressAllowed
  <2> QED BY <1>4, <1>7, <2>1, <2>2 DEF GrantInv, AddressAllowed
<1>12. ActiveCurrent'
  BY <1>0, <1>5, <1>6 DEF ActiveCurrent, In, AddressAllowed
<1>13. Slots' \subseteq Slots \cup {o} /\ Claimants' \subseteq Claimants \cup {o}
  <2>1. Holders' \subseteq Holders \cup {o} /\ Running' \subseteq Running \cup {o}
    BY <1>4 DEF Holders, Running
  <2>2. \A S \in {{"late", "active", "closing", "failed"}, {"late", "active"}} : In(S)' \subseteq In(S)
    BY <1>5 DEF In
  <2> QED BY <2>1, <2>2 DEF Slots, Claimants
<1>14. SlotInv'
  BY <1>13, TakenSlot
<1> QED BY <1>9, <1>10, <1>11, <1>12, <1>14 DEF ConnInv

\* An operation starts to resolve, the fence having been looked at.
LEMMA ResolvesSound ==
    ASSUME ConnInv, NEW o \in Op, op[o] # None => op[o].at \notin Owning,
           NEW rec, op' = [op EXCEPT ![o] = [rec EXCEPT !.at = "resolving"]],
           rec \in [gen : Nat, at : Stages \cup {"route"}, conn : Conn \cup {None},
                    targets : SUBSET Address, dials : Nat],
           rec.gen = generation, rec.targets = {},
           UNCHANGED <<generation, closed, policy, conn, addr, lingering>>,
           Cardinality(Slots \cup {o}) <= MaxConnections,
           Cardinality(Claimants \cup {o}) <= MaxConnections
    PROVE  ConnInv'
<1>0. ConnType /\ OwnInv /\ GrantInv /\ ActiveCurrent /\ SlotInv
  BY DEF ConnInv
<1> DEFINE r == [rec EXCEPT !.at = "resolving"]
<1>1. r \in OpRecords /\ r.gen = generation /\ r.at = "resolving" /\ r.targets = {} /\ op' = [op EXCEPT ![o] = r]
  BY DEF OpRecords, Stages
<1> HIDE DEF r
<1>2. op' \in [Op -> OpRecords \cup {None}] /\ op'[o] = r /\ r # None /\ \A p \in Op \ {o} : op'[p] = op[p]
  BY <1>0, <1>1, NoOperation DEF ConnType
<1>3. \A p \in Op : \A d : Owns(p, d)' <=> Owns(p, d)
  BY <1>1, <1>2 DEF Owns, Owning
<1>4. ConnType'
  BY <1>0, <1>2 DEF ConnType
<1>5. OwnInv'
  <2>1. r.gen <= generation /\ r.at \notin Owning
    BY <1>0, <1>1, SMTT(60) DEF ConnType, Owning
  <2>2. \A p \in Op : op'[p] # None => op'[p].gen <= generation' /\ (op'[p].at \in Owning => op'[p].conn \in Conn)
    BY <1>0, <1>2, <2>1 DEF OwnInv
  <2> QED BY <1>0, <1>3, <2>2 DEF OwnInv
<1>6. GrantInv'
  <2>1. \A d : ~Owns(o, d)
    BY DEF Owns
  <2>2. \A p \in Op \ {o} : Granted(p)' <=> Granted(p)
    BY <1>2 DEF Granted
  <2> QED BY <1>0, <1>1, <1>2, <1>3, <2>1, <2>2, SMTT(60) DEF GrantInv, AddressAllowed
<1>7. ActiveCurrent'
  BY <1>0 DEF ActiveCurrent, In, AddressAllowed
<1>8. Slots' \subseteq Slots \cup {o} /\ Claimants' \subseteq Claimants \cup {o}
  BY <1>2 DEF Slots, Claimants, Holders, Running, In
<1>9. SlotInv'
  BY <1>8, TakenSlot
<1> QED BY <1>4, <1>5, <1>6, <1>7, <1>9 DEF ConnInv

\* An operation without a socket ends.
LEMMA StopsSound ==
    ASSUME ConnInv, NEW o \in Op, op[o] # None, op[o].at \notin Owning, Ends(o),
           UNCHANGED <<generation, closed, policy, conn, addr>>, lingering' \in Nat
    PROVE  ConnInv'
<1>0. ConnType /\ OwnInv /\ GrantInv /\ ActiveCurrent /\ SlotInv
  BY DEF ConnInv
<1>1. op' \in [Op -> OpRecords \cup {None}] /\ op'[o] = None /\ \A p \in Op \ {o} : op'[p] = op[p]
  BY <1>0 DEF ConnType, Ends
<1>2. \A p \in Op : \A d : Owns(p, d)' <=> Owns(p, d)
  BY <1>1 DEF Owns
<1>3. ConnType'
  BY <1>0, <1>1 DEF ConnType
<1>4. OwnInv'
  <2>1. \A p \in Op : op'[p] # None => op'[p].gen <= generation' /\ (op'[p].at \in Owning => op'[p].conn \in Conn)
    BY <1>0, <1>1 DEF OwnInv
  <2> QED BY <1>0, <1>2, <2>1 DEF OwnInv
<1>5. GrantInv'
  BY <1>0, <1>1, <1>2 DEF GrantInv, Granted, AddressAllowed
<1>6. ActiveCurrent'
  BY <1>0 DEF ActiveCurrent, In, AddressAllowed
<1>7. Slots' \subseteq Slots /\ Claimants' \subseteq Claimants
  BY <1>1 DEF Slots, Claimants, Holders, Running, In
<1> QED BY <1>0, <1>3, <1>4, <1>5, <1>6, <1>7, BudgetKept DEF ConnInv

\* A socket nobody owns is closed, freed or found to have failed; nothing becomes active.
LEMMA SocketsSound ==
    ASSUME ConnInv, conn' \in [Conn -> ConnStates], addr' \in [Conn -> Address \cup {None}],
           \A c \in Conn : \/ conn'[c] = conn[c] /\ addr'[c] = addr[c]
                           \/ /\ conn[c] \in {"late", "active", "closing"}
                              /\ conn'[c] \in {"free", "closing", "failed"},
           UNCHANGED <<generation, closed, policy, op, lingering>>
    PROVE  ConnInv'
<1>0. ConnType /\ OwnInv /\ GrantInv /\ ActiveCurrent /\ SlotInv
  BY DEF ConnInv
<1>1. \A p \in Op : \A d : Owns(p, d)' <=> Owns(p, d)
  BY DEF Owns
<1>2. ConnType'
  BY <1>0 DEF ConnType
<1>3. OwnInv'
  <2>1. \A d \in Conn : conn'[d] \in Owned <=> conn[d] \in Owned
    BY DEF Owned
  <2> QED BY <1>0, <1>1, <2>1 DEF OwnInv
<1>4. GrantInv'
  <2>1. \A p \in Op, d \in Conn : Owns(p, d) => addr'[d] = addr[d]
    BY <1>0 DEF OwnInv, Owned
  <2> QED BY <1>0, <1>1, <2>1, SMTT(60) DEF GrantInv, Granted, AddressAllowed
<1>5. ActiveCurrent'
  BY <1>0 DEF ActiveCurrent, In, AddressAllowed
<1>6. Slots' \subseteq Slots /\ Claimants' \subseteq Claimants
  BY DEF Slots, Claimants, Holders, Running, In
<1> QED BY <1>0, <1>2, <1>3, <1>4, <1>5, <1>6, BudgetKept DEF ConnInv

\* The network changes or the connector closes: no operation of an earlier generation
\* passes the fence again, and what was active is closing.
LEMMA DrainSound ==
    ASSUME ConnInv, DrainActive, generation' = generation + 1, closed' \in BOOLEAN,
           UNCHANGED <<op, lingering>>
    PROVE  ConnInv'
<1>0. ConnType /\ OwnInv /\ GrantInv /\ ActiveCurrent /\ SlotInv
  BY DEF ConnInv
<1>1. /\ conn' \in [Conn -> ConnStates] /\ addr' \in [Conn -> Address \cup {None}]
      /\ \A c \in Conn : conn'[c] = IF conn[c] = "active" THEN "closing" ELSE conn[c]
  BY <1>0 DEF ConnType, DrainActive, ConnStates
<1>2. \A p \in Op : \A d : Owns(p, d)' <=> Owns(p, d)
  BY DEF Owns
<1>3. ConnType'
  BY <1>0, <1>1, SMTT(60) DEF ConnType
<1>4. \A p \in Op : op[p] # None => op[p].gen < generation' /\ op[p].gen <= generation'
  <2>1. \A p \in Op : op[p] # None => op[p].gen \in Nat /\ op[p].gen <= generation
    BY <1>0 DEF ConnType, OwnInv, OpRecords
  <2> QED BY <1>0, <2>1, SMTT(60) DEF ConnType
<1>5. OwnInv'
  <2>1. \A d \in Conn : conn'[d] \in Owned <=> conn[d] \in Owned
    BY <1>1 DEF Owned
  <2> QED BY <1>0, <1>2, <1>4, <2>1 DEF OwnInv
<1>6. GrantInv'
  <2>1. \A p \in Op : op[p] # None => op[p].gen # generation'
    <3>1. \A p \in Op : op[p] # None => op[p].gen \in Nat
      BY <1>0 DEF ConnType, OpRecords
    <3> QED BY <1>3, <1>4, <3>1, SMTT(60) DEF ConnType
  <2> QED BY <2>1 DEF GrantInv, Granted
<1>7. ActiveCurrent'
  BY <1>1 DEF ActiveCurrent, In
<1>8. Slots' \subseteq Slots /\ Claimants' \subseteq Claimants
  BY <1>1 DEF Slots, Claimants, Holders, Running, In
<1> QED BY <1>0, <1>3, <1>5, <1>6, <1>7, <1>8, BudgetKept DEF ConnInv

\* A step of the streams or of an abandoned task that touches no socket.
LEMMA Unmoved ==
    ASSUME ConnInv, UNCHANGED <<generation, closed, policy, op, conn, addr>>, lingering' \in Nat
    PROVE  ConnInv'
<1>1. \A p \in Op : \A d : Owns(p, d)' <=> Owns(p, d)
  BY DEF Owns
<1>2. ConnType' /\ OwnInv' /\ GrantInv' /\ ActiveCurrent'
  BY <1>1 DEF ConnInv, ConnType, OwnInv, GrantInv, Granted, ActiveCurrent, In, AddressAllowed
<1>3. Slots' = Slots /\ Claimants' = Claimants
  BY DEF Slots, Claimants, Holders, Running, In
<1> QED BY <1>2, <1>3 DEF ConnInv, SlotInv

-----------------------------------------------------------------------------
(* The actions *)

\* connect() is admitted: a slot is free, and nobody claims it.
LEMMA AdmittedSlot ==
    ASSUME ConnInv, PolicyInv, Admitted, NEW o \in Op
    PROVE  Cardinality(Slots \cup {o}) <= MaxConnections /\ Cardinality(Claimants \cup {o}) <= MaxConnections
<1> DEFINE Late == In({"late"})
           Busy == In({"active", "closing"})
           Taken == Running \cup Late \cup Busy
<1>1. lingering \in Nat
  BY DEF ConnInv, ConnType
<1>2. /\ Late \in SUBSET Conn /\ Busy \in SUBSET Conn /\ Running \in SUBSET Op
      /\ Late \cap Busy = {} /\ Running \cap (Late \cup Busy) = {}
  BY Resources DEF In, Running
<1>3. /\ IsFiniteSet(Late) /\ IsFiniteSet(Busy) /\ IsFiniteSet(Running)
      /\ Cardinality(Late) \in Nat /\ Cardinality(Busy) \in Nat /\ Cardinality(Running) \in Nat
  BY <1>2, SlotsFinite
<1>4. Cardinality(Busy) + Cardinality(Running) + (lingering + Cardinality(Late)) < MaxConnections
  <2>1. Cardinality(Busy) + Cardinality(Running) + (lingering + Cardinality(Late)) < policy.max_connections
    BY DEF Admitted, Lingering
  <2>2. PICK m \in 1 .. MaxConnections : m = policy.max_connections
    BY DEF PolicyInv, PolicyShape
  <2> HIDE DEF Late, Busy
  <2> QED BY <1>1, <1>3, <2>1, <2>2, Budget, SMTT(60)
<1>5. Cardinality(Taken) < MaxConnections /\ Taken \in SUBSET (Op \cup Conn)
  <2> HIDE DEF Late, Busy
  <2>1. IsFiniteSet(Late \cup Busy) /\ Cardinality(Late \cup Busy) = Cardinality(Late) + Cardinality(Busy)
    <3>1. /\ IsFiniteSet(Late \cup Busy)
          /\ Cardinality(Late \cup Busy)
                = Cardinality(Late) + Cardinality(Busy) - Cardinality(Late \cap Busy)
      BY <1>3, FS_Union
    <3>2. Cardinality(Late \cap Busy) = 0
      BY <1>2, FS_EmptySet
    <3> QED BY <1>3, <3>1, <3>2, SMTT(60)
  <2> DEFINE Socks == Late \cup Busy
  <2>2. Taken = Running \cup Socks /\ Running \cap Socks = {}
    BY <1>2
  <2> HIDE DEF Socks, Taken
  <2>3. IsFiniteSet(Socks) /\ Cardinality(Socks) = Cardinality(Late) + Cardinality(Busy)
    BY <2>1 DEF Socks
  <2>4. Cardinality(Running \cup Socks) = Cardinality(Running) + Cardinality(Socks)
    <3>1. Cardinality(Running \cup Socks) = Cardinality(Running) + Cardinality(Socks) - Cardinality({})
      BY <1>3, <2>2, <2>3, FS_Union, SMTT(60)
    <3> QED BY <1>3, <2>3, <3>1, FS_EmptySet, SMTT(60)
  <2>5. Cardinality(Taken) < MaxConnections
    BY <1>1, <1>3, <1>4, <2>2, <2>3, <2>4, Budget, SMTT(60)
  <2>6. Taken \in SUBSET (Op \cup Conn)
    BY <1>2 DEF Taken, Socks
  <2> QED BY <2>5, <2>6
<1>6. Slots \subseteq Taken /\ Claimants \subseteq Taken
  BY DEF Admitted, CleanupFailed, Slots, Claimants, Holders, In
<1> HIDE DEF Taken
<1>7. Slots \cup {o} \subseteq Taken \cup {o} /\ Claimants \cup {o} \subseteq Taken \cup {o}
  BY <1>6
<1> QED BY <1>5, <1>7, OneMore, Budget

\* An operation whose socket was closed may take another: nothing is closing or failed,
\* so that every slot belongs to somebody who is counted.
LEMMA RetrySlot ==
    ASSUME ConnInv, MayRetry, NEW o \in Running
    PROVE  Cardinality(Slots \cup {o}) <= MaxConnections /\ Cardinality(Claimants \cup {o}) <= MaxConnections
<1>1. Slots \cup {o} \subseteq Claimants /\ Claimants \cup {o} = Claimants
  BY DEF MayRetry, CleanupFailed, Slots, Claimants, Holders, In
<1>2. Claimants \in SUBSET (Op \cup Conn)
  BY DEF Claimants, Running, In
<1>3. Cardinality(Slots \cup {o}) <= Cardinality(Claimants)
  BY <1>1, <1>2, Fewer
<1>4. Cardinality(Slots \cup {o}) \in Nat /\ Cardinality(Claimants) \in Nat
  BY <1>1, <1>2, SlotsFinite
<1> QED BY <1>1, <1>3, <1>4, Budget, SMTT(60) DEF ConnInv, SlotInv

\* An operation that resolves has its slot already.
LEMMA ResolvingSlot ==
    ASSUME ConnInv, NEW o \in Op, op[o] # None, op[o].at = "resolving"
    PROVE  Cardinality(Slots \cup {o}) <= MaxConnections /\ Cardinality(Claimants \cup {o}) <= MaxConnections
<1>1. Slots \cup {o} = Slots /\ Claimants \cup {o} = Claimants
  BY DEF Slots, Claimants, Holders, Running
<1> QED BY <1>1 DEF ConnInv, SlotInv

\* The next target or the next route of an operation with a slot.
LEMMA RouteSound ==
    ASSUME ConnInv, NEW o \in Op, op[o] # None => op[o].at \notin Owning,
           NEW rec,
           rec \in [gen : Nat, at : Stages \cup {"route"}, conn : Conn \cup {None},
                    targets : SUBSET Address, dials : Nat],
           rec.gen = generation /\ ~closed,
           \A b \in rec.targets : AddressAllowed(b, policy),
           NextTarget(o, rec) \/ NextRoute(o, rec),
           UNCHANGED <<generation, closed, policy, lingering>>,
           Cardinality(Slots \cup {o}) <= MaxConnections,
           Cardinality(Claimants \cup {o}) <= MaxConnections
    PROVE  ConnInv'
<1>1. CASE NextTarget(o, rec)
  <2>1. PICK a \in rec.targets : Dials(o, rec, a)
    BY <1>1 DEF NextTarget
  <2>2. a \in Address /\ AddressAllowed(a, policy)
    BY <2>1
  <2> QED BY <2>1, <2>2, DialsSound
<1>2. CASE NextRoute(o, rec)
  <2>1. CASE \E a \in Address : AddressAllowed(a, policy) /\ Dials(o, rec, a)
    BY <2>1, DialsSound
  <2>2. CASE op' = [op EXCEPT ![o] = [rec EXCEPT !.at = "resolving"]] /\ UNCHANGED <<conn, addr>>
    <3>1. rec.targets = {}
      BY <1>2 DEF NextRoute
    <3> QED BY <2>2, <3>1, ResolvesSound
  <2> QED BY <1>2, <2>1, <2>2 DEF NextRoute
<1> QED BY <1>1, <1>2

\* connect() takes a slot for a new operation, within the policy's limits.
LEMMA ConnectSound == ASSUME ConnInv, PolicyInv, NEW o \in Op, Connect(o) PROVE ConnInv'
<1> DEFINE rec == [gen |-> generation, at |-> "route", conn |-> None, targets |-> {}, dials |-> 0]
<1>1. /\ op[o] = None /\ Admitted /\ NextRoute(o, rec) /\ ~closed
      /\ UNCHANGED <<generation, closed, policy, lingering>>
  BY DEF Connect, Admitted
<1>2. /\ rec \in [gen : Nat, at : Stages \cup {"route"}, conn : Conn \cup {None},
                  targets : SUBSET Address, dials : Nat]
      /\ rec.gen = generation /\ rec.targets = {}
  BY DEF ConnInv, ConnType
<1> HIDE DEF rec
<1> QED BY <1>1, <1>2, AdmittedSlot, RouteSound

\* The resolver answers, or the operation that awaited it has gone.
LEMMA ResolveSound == ASSUME ConnInv, NEW o \in Op, ResolveReturns(o) \/ ResolveAbandoned(o) PROVE ConnInv'
<1>0. op[o] # None /\ op[o].at = "resolving" /\ op[o].at \notin Owning /\ op[o] \in OpRecords /\ lingering \in Nat
  BY DEF ResolveReturns, ResolveAbandoned, Owning, ConnInv, ConnType
<1>1. CASE ResolveAbandoned(o)
  <2>1. /\ Ends(o) /\ UNCHANGED <<generation, closed, policy, conn, addr>> /\ lingering' \in Nat
    BY <1>0, <1>1, SMTT(60) DEF ResolveAbandoned
  <2> QED BY <1>0, <2>1, StopsSound
<1>2. CASE ResolveReturns(o)
  <2>1. PICK answer \in SUBSET Address :
            LET rec == [op[o] EXCEPT !.targets = Authorized(answer)]
            IN NextTarget(o, rec) \/ NextRoute(o, rec) \/ Stops(o)
    BY <1>2 DEF ResolveReturns
  <2> DEFINE rec == [op[o] EXCEPT !.targets = Authorized(answer)]
  <2>2. UNCHANGED <<generation, closed, policy, lingering>> /\ op[o].gen = generation /\ ~closed
    BY <1>2 DEF ResolveReturns, Fence
  <2>3. Authorized(answer) \in SUBSET Address /\ \A b \in Authorized(answer) : AddressAllowed(b, policy)
    BY DEF Authorized
  <2>4. /\ rec \in [gen : Nat, at : Stages \cup {"route"}, conn : Conn \cup {None},
                    targets : SUBSET Address, dials : Nat]
        /\ rec.gen = generation /\ rec.targets = Authorized(answer)
    BY <1>0, <2>2, <2>3 DEF OpRecords
  <2>5. NextTarget(o, rec) \/ NextRoute(o, rec) \/ Stops(o)
    BY <2>1
  <2> HIDE DEF rec
  <2>6. CASE NextTarget(o, rec) \/ NextRoute(o, rec)
    BY <1>0, <2>2, <2>3, <2>4, <2>6, ResolvingSlot, RouteSound
  <2>7. CASE Stops(o)
    BY <1>0, <2>2, <2>7, StopsSound DEF Stops
  <2> QED BY <2>5, <2>6, <2>7
<1> QED BY <1>1, <1>2

\* The dials, the handshakes and the authentication of an operation that owns a socket.
LEMMA ProgressSound ==
    ASSUME ConnInv, NEW o \in Op,
           Handshake(o) \/ DialReturns(o) \/ TcpDialReturns(o) \/ Authenticate(o) \/ AuthReturns(o)
    PROVE  ConnInv'
<1>1. op[o] # None /\ op[o].at \in Owning /\ UNCHANGED <<generation, closed, policy, addr, lingering>>
  BY DEF Handshake, DialReturns, TcpDialReturns, Authenticate, AuthReturns, Owning
<1>2. op' = op \/ \E at \in Owning : Goes(o, at)
  BY DEF Handshake, DialReturns, TcpDialReturns, Authenticate, AuthReturns, Owning
<1>3. conn' = conn \/ \E s \in Owned : conn' = [conn EXCEPT ![op[o].conn] = s]
  BY DEF Handshake, DialReturns, TcpDialReturns, Authenticate, AuthReturns, Owned
<1> QED BY <1>1, <1>2, <1>3, Progresses

\* A failed or abandoned dial, a connection that is retired.
LEMMA GiveUpSound ==
    ASSUME ConnInv, NEW o \in Op, DialFails(o) \/ DialAbandoned(o) \/ Refused(o) \/ Interrupted(o)
    PROVE  ConnInv'
<1>0. op[o] # None /\ op[o].at \in Owning /\ op[o] \in OpRecords /\ lingering \in Nat /\ op \in [Op -> OpRecords \cup {None}]
  BY DEF DialFails, DialAbandoned, Refused, Interrupted, Owning, ConnInv, ConnType
<1>1. /\ UNCHANGED <<generation, closed, policy>> /\ lingering' \in Nat
      /\ addr' = [addr EXCEPT ![op[o].conn] = None]
  BY <1>0, SMTT(60) DEF DialFails, DialAbandoned, Refused, Interrupted, Retire
<1>2. \A at \in {"retired", "ending"} :
          LET r == [op[o] EXCEPT !.at = at, !.conn = None]
          IN /\ r \in OpRecords /\ r.gen = op[o].gen /\ r.targets = op[o].targets /\ r.at = at
             /\ [op EXCEPT ![o].at = at, ![o].conn = None] = [op EXCEPT ![o] = r]
  BY <1>0 DEF OpRecords, Stages
<1>3. CASE DialFails(o)
  <2>1. conn' = [conn EXCEPT ![op[o].conn] = "free"] /\ op' = [op EXCEPT ![o].at = "retired", ![o].conn = None]
    BY <1>3 DEF DialFails
  <2> QED BY <1>0, <1>1, <1>2, <2>1, Releases
<1>4. CASE DialAbandoned(o)
  <2>1. PICK s \in {"late", "closing"} : conn' = [conn EXCEPT ![op[o].conn] = s]
    BY <1>4 DEF DialAbandoned
  <2>2. op' = [op EXCEPT ![o] = None]
    BY <1>4 DEF DialAbandoned, Ends
  <2> QED BY <1>0, <1>1, <2>1, <2>2, Releases
<1>5. CASE Refused(o) \/ Interrupted(o)
  <2>1. PICK at \in {"retired", "ending"} : op' = [op EXCEPT ![o].at = at, ![o].conn = None]
    BY <1>5 DEF Refused, Interrupted, Retire
  <2>2. conn' = [conn EXCEPT ![op[o].conn] = "closing"]
    BY <1>5 DEF Refused, Interrupted, Retire
  <2> QED BY <1>0, <1>1, <1>2, <2>1, <2>2, Releases
<1> QED BY <1>3, <1>4, <1>5

\* An authenticated connection becomes active, for the generation of now only.
LEMMA ActivateSound == ASSUME ConnInv, NEW o \in Op, Activate(o) PROVE ConnInv'
<1>1. /\ op[o] # None /\ op[o].at \in Owning /\ Fence(o) /\ op' = [op EXCEPT ![o] = None]
      /\ conn' = [conn EXCEPT ![op[o].conn] = "active"] /\ addr' = addr
      /\ UNCHANGED <<generation, closed, policy>> /\ lingering' \in Nat
  BY DEF Activate, Owning, Ends, ConnInv, ConnType
<1> QED BY <1>1, Releases

\* The wait for a close is over: the next target is dialled, or the operation ends.
LEMMA RetiredSound == ASSUME ConnInv, NEW o \in Op, Retired(o) PROVE ConnInv'
<1>0. /\ op[o] # None /\ op[o].at \notin Owning /\ op[o] \in OpRecords /\ o \in Running
      /\ UNCHANGED <<generation, closed, policy, lingering>> /\ lingering' \in Nat
  BY DEF Retired, Owning, ConnInv, ConnType, Running
<1>1. CASE MayRetry /\ Fence(o) /\ (NextTarget(o, op[o]) \/ NextRoute(o, op[o]))
  <2>1. op[o].gen = generation /\ ~closed /\ \A b \in op[o].targets : AddressAllowed(b, policy)
    BY <1>0, <1>1 DEF Fence, ConnInv, GrantInv, Granted
  <2>2. op[o] \in [gen : Nat, at : Stages \cup {"route"}, conn : Conn \cup {None},
                   targets : SUBSET Address, dials : Nat]
    BY <1>0 DEF OpRecords
  <2>3. Cardinality(Slots \cup {o}) <= MaxConnections /\ Cardinality(Claimants \cup {o}) <= MaxConnections
    BY <1>0, <1>1, RetrySlot
  <2> QED BY <1>0, <1>1, <2>1, <2>2, <2>3, RouteSound
<1>2. CASE Stops(o)
  BY <1>0, <1>2, StopsSound DEF Stops
<1> QED BY <1>1, <1>2 DEF Retired

\* The sockets nobody owns, and the streams.
LEMMA PortSound == ASSUME ConnInv, NEW c \in Conn, PortStep(c) \/ Disconnect(c) PROVE ConnInv'
<1>0. conn \in [Conn -> ConnStates] /\ addr \in [Conn -> Address \cup {None}] /\ lingering \in Nat
  BY DEF ConnInv, ConnType
<1>1. CASE LateEnds(c) \/ Disconnect(c) \/ \E ok \in BOOLEAN : CloseEnds(c, ok)
  <2>1. UNCHANGED <<generation, closed, policy, op, lingering>>
    BY <1>1 DEF LateEnds, Disconnect, CloseEnds
  <2>2. PICK s \in {"free", "closing", "failed"} :
            conn[c] \in {"late", "active", "closing"} /\ conn' = [conn EXCEPT ![c] = s]
    BY <1>1 DEF LateEnds, Disconnect, CloseEnds
  <2>3. addr' = addr \/ addr' = [addr EXCEPT ![c] = None]
    BY <1>1 DEF LateEnds, Disconnect, CloseEnds
  <2>4. /\ conn' \in [Conn -> ConnStates] /\ addr' \in [Conn -> Address \cup {None}]
        /\ \A d \in Conn : \/ conn'[d] = conn[d] /\ addr'[d] = addr[d]
                           \/ /\ conn[d] \in {"late", "active", "closing"}
                              /\ conn'[d] \in {"free", "closing", "failed"}
    BY <1>0, <2>2, <2>3 DEF ConnStates
  <2> QED BY <2>1, <2>4, SocketsSound
<1>2. CASE \E kind \in Kind : EndIO(c, kind) \/ IOFails(c, kind)
  BY <1>0, <1>2, Unmoved DEF EndIO, IOFails
<1> QED BY <1>1, <1>2 DEF PortStep

-----------------------------------------------------------------------------
(* The theorems *)

\* Nothing is connected at first.
LEMMA InitSound == Init => ConnInv
<1> SUFFICES ASSUME Init PROVE ConnInv
  OBVIOUS
<1>1. ConnType
  BY DEF Init, ConnType, ConnStates
<1>2. \A o \in Op : op[o] = None
  BY DEF Init
<1>3. \A c \in Conn : conn[c] = "free"
  BY DEF Init
<1>4. OwnInv /\ GrantInv /\ ActiveCurrent
  BY <1>2, <1>3 DEF OwnInv, Owns, Owned, GrantInv, Granted, ActiveCurrent, In
<1>5. Slots = {} /\ Claimants = {}
  BY <1>2, <1>3 DEF Slots, Claimants, Holders, Running, In
<1> QED BY <1>1, <1>4, <1>5, FS_EmptySet, Budget, SMTT(60) DEF ConnInv, SlotInv

\* Every step of the connection owner keeps the invariant.
LEMMA NextSound == ConnInv /\ PolicyInv /\ [Next]_vars => ConnInv'
<1> SUFFICES ASSUME ConnInv, PolicyInv, [Next]_vars PROVE ConnInv'
  OBVIOUS
<1>0. lingering \in Nat
  BY DEF ConnInv, ConnType
<1>1. ASSUME NEW o \in Op, Connect(o) \/ OpStep(o) PROVE ConnInv'
  BY <1>1, ConnectSound, ResolveSound, ProgressSound, GiveUpSound, ActivateSound, RetiredSound DEF OpStep
<1>2. ASSUME NEW c \in Conn, PortStep(c) \/ Disconnect(c) PROVE ConnInv'
  BY <1>2, PortSound
<1>3. ASSUME NEW c \in Conn, NEW kind \in Kind, StartIO(c, kind) PROVE ConnInv'
  BY <1>0, <1>3, Unmoved DEF StartIO
<1>4. CASE LingeringEnds
  <2>1. lingering' \in Nat
    BY <1>0, <1>4, SMTT(60) DEF LingeringEnds
  <2> QED BY <1>4, <2>1, Unmoved DEF LingeringEnds
<1>5. CASE ChangeNetwork \/ Close
  <2>1. closed' \in BOOLEAN
    BY <1>5 DEF ChangeNetwork, Close, ConnInv, ConnType
  <2> QED BY <1>5, <2>1, DrainSound DEF ChangeNetwork, Close
<1>6. CASE UNCHANGED vars
  BY <1>0, <1>6, Unmoved DEF vars
<1> QED BY <1>1, <1>2, <1>3, <1>4, <1>5, <1>6 DEF Next

\* Only change_network replaces the policy.
LEMMA PolicyKept ==
    /\ Init => PolicyInv
    /\ ConnInv /\ PolicyInv /\ [Next]_vars => PolicyInv'
<1>1. Init => PolicyInv
  <2>1. 0 \in DOMAIN Policy
    BY Policies, SMTT(60)
  <2> QED BY <2>1, Policies DEF Init, PolicyInv
<1>2. ASSUME ConnInv, PolicyInv, [Next]_vars PROVE PolicyInv'
  <2>1. CASE ChangeNetwork
    <3>1. generation \in Nat /\ generation < MaxGeneration
      BY <2>1, <1>2 DEF ChangeNetwork, ConnInv, ConnType
    <3>2. generation + 1 \in DOMAIN Policy
      BY <3>1, Policies, SMTT(60)
    <3> QED BY <2>1, <3>2, Policies DEF ChangeNetwork, PolicyInv
  <2>2. CASE policy' = policy
    BY <1>2, <2>2 DEF PolicyInv, PolicyShape
  <2>3. ChangeNetwork \/ policy' = policy
    <3>1. ASSUME NEW o \in Op, OpStep(o) PROVE policy' = policy
      BY <3>1 DEF OpStep, ResolveReturns, ResolveAbandoned, Handshake, DialReturns, TcpDialReturns,
                  DialFails, DialAbandoned, Authenticate, Refused, AuthReturns, Interrupted, Retire,
                  Activate, Retired
    <3>2. ASSUME NEW c \in Conn, PortStep(c) PROVE policy' = policy
      BY <3>2 DEF PortStep, LateEnds, EndIO, IOFails, CloseEnds
    <3> QED BY <1>2, <3>1, <3>2 DEF Next, vars, Connect, Disconnect, StartIO, LingeringEnds, Close
  <2> QED BY <2>1, <2>2, <2>3
<1> QED BY <1>1, <1>2

\* Every step of every operation, port and network change keeps the invariant.
THEOREM ConnectivityInvariance == Spec => []ConnInv
<1>1. Init => ConnInv /\ PolicyInv
  BY InitSound, PolicyKept
<1>2. (ConnInv /\ PolicyInv) /\ [Next]_vars => (ConnInv /\ PolicyInv)'
  BY NextSound, PolicyKept
<1> QED BY <1>1, <1>2, PTL DEF Spec

\* An active connection was made under the network of now, however the change of network
\* falls between the stages of an operation (_connect, _fence, change_network).
THEOREM ActiveAlwaysCurrent == Spec => []ActiveCurrent
<1>1. ConnInv => ActiveCurrent
  BY DEF ConnInv
<1> QED BY <1>1, ConnectivityInvariance, PTL

\* Each socket in existence has a slot of its own, so that they stay within
\* the largest max_connections (connect, _connect, _retire, _abandon).
THEOREM SocketsAlwaysBounded == Spec => []SocketsBounded
<1>1. ASSUME ConnInv PROVE SocketsBounded
  <2> DEFINE S == Conn \ In({"free"})
             Slot(c) == IF conn[c] \in Owned THEN CHOOSE o \in Op : Owns(o, c) ELSE c
             f == [c \in S |-> Slot(c)]
  <2>0. ConnType /\ OwnInv
    BY <1>1 DEF ConnInv
  <2>1. \A c \in S : conn[c] \in Owned => Slot(c) \in Op /\ Owns(Slot(c), c)
    BY <2>0 DEF OwnInv
  <2>2. \A c \in S : conn[c] \notin Owned => Slot(c) = c /\ c \in In({"late", "active", "closing", "failed"})
    BY <2>0 DEF ConnType, ConnStates, Owned, In
  <2> HIDE DEF Slot
  <2>3. \A c \in S : Slot(c) \in Slots
    BY <2>1, <2>2 DEF Slots, Holders, Running, Owns
  <2>4. \A c, d \in S : Slot(c) = Slot(d) => c = d
    <3>1. \A c, d \in S : (conn[c] \in Owned /\ conn[d] \in Owned /\ Slot(c) = Slot(d)) => c = d
      BY <2>1 DEF Owns
    <3>2. \A c \in S : conn[c] \notin Owned => Slot(c) \in Conn
      BY <2>2
    <3> QED BY <2>1, <2>2, <3>1, <3>2, Resources
  <2> HIDE DEF S
  <2>5. f \in Injection(S, Slots)
    BY <2>3, <2>4 DEF Injection, IsInjective
  <2>6. Slots \in SUBSET (Op \cup Conn) /\ S \in SUBSET Conn
    BY DEF S, Slots, Holders, Running, In
  <2>7. IsFiniteSet(Slots) /\ Cardinality(Slots) \in Nat /\ Cardinality(S) \in Nat
    BY <2>6, SlotsFinite
  <2> HIDE DEF f
  <2>8. Cardinality(S) <= Cardinality(Slots)
    BY <2>5, <2>7, FS_Injection
  <2> QED BY <1>1, <2>7, <2>8, Budget, SMTT(60) DEF ConnInv, SlotInv, SocketsBounded, S
<1>2. ConnInv => SocketsBounded
  BY <1>1
<1> QED BY <1>2, ConnectivityInvariance, PTL
=============================================================================

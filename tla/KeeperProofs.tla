---------------------------- MODULE KeeperProofs ----------------------------
(***************************************************************************)
(* Proofs about the retention store and its read service, for any leases,  *)
(* signed calls, connections, crashes and clock readings: every pin has a  *)
(* connection that is still sending (PinsOwned), no object that a receipt  *)
(* or a reader stands for is lost (ServedKept), and the receipts of a      *)
(* lease are in order (ReceiptsOrdered).                                   *)
(***************************************************************************)
EXTENDS KeeperService, TLAPS

USE ZenonT(60)

(* The invariant *)

Reservations == [action : {"reserve"}, lease : Leases, nonce : Leases, secs : {1}, auth : Authorities]
Recorded == [call : Calls \cup Reservations, answer : Receipts \cup {None}]
DbType(d) ==
    d \in [auth : Authorities, clock : [boot : Nat, ns : Nat], leases : [Leases -> Rows \cup {None}],
           stored : [Leases -> SUBSET Objects], ops : SUBSET Recorded,
           gc : [Leases -> GcJobs \cup {None}], repair : [Repairs -> RepairJobs \cup {None}]]

FileStates == {None, "valid", "linked", "corrupt"}
FileType(f) == f = [l \in Leases |-> f[l]] /\ \A l \in Leases : f[l] \in [Index[l] -> FileStates]

\* A lease was reserved once, and only then has objects.
RowsSound(d) ==
    \A l \in Leases : /\ d.stored[l] \subseteq Index[l]
                      /\ d.leases[l] = None => d.stored[l] = {}
                      /\ d.leases[l] # None => \E o \in d.ops : o.call.nonce = l

\* What ServedKept says, for every lease that is still served too.
Kept(d, f, dam, pn) ==
    \A l \in Leases : d.leases[l] # None =>
        /\ d.leases[l].state = "sealed" => d.stored[l] = Index[l]
        /\ d.leases[l].state # "released" \/ (\E p \in pn : p[2] = l) =>
              \A o \in d.stored[l] : <<l, o>> \in dam \/ f[l][o] \in Readable

\* The last receipt of a lease is the latest in number, boot and, within the boot, end.
Answers(d) == {o \in d.ops : o.call.action \in {"seal", "renew"}}
Numbered(d) ==
    \A o \in Answers(d) :
        /\ d.leases[o.call.lease] # None /\ d.leases[o.call.lease].receipt # None /\ o.answer # None
        /\ o.answer.gen <= d.leases[o.call.lease].gen
        /\ o.answer.boot <= d.leases[o.call.lease].receipt.boot
        /\ o.answer.boot = d.leases[o.call.lease].receipt.boot =>
              Expiry(o.answer) <= Expiry(d.leases[o.call.lease].receipt)
Ordered(d) ==
    \A s, t \in Answers(d) : s.call.lease = t.call.lease =>
        /\ s.answer.gen = t.answer.gen => s = t
        /\ s.answer.gen < t.answer.gen /\ s.answer.boot = t.answer.boot => Expiry(s.answer) <= Expiry(t.answer)
Booted(d, b) == \A l \in Leases : d.leases[l] # None /\ d.leases[l].receipt # None => d.leases[l].receipt.boot <= b
ReceiptInv(d, b) == Numbered(d) /\ Ordered(d) /\ Booted(d, b)

\* The operation under way: a collection is of a released lease nobody reads.
PutOps == [kind : {"put"}, pc : {"link", "unlink", "record"}, lease : Leases, oid : Objects]
CollectOps == [kind : {"collect"}, pc : {"sweep", "finish"}, lease : Leases, call : Collects]
RepairOps == [kind : {"repair"}, pc : {"object", "finish"}, lease : Leases, call : Repairs, todo : SUBSET Objects]
ReplaceOps == [kind : {"repair"}, pc : {"sync", "replace"}, lease : Leases, call : Repairs, todo : SUBSET Objects,
               oid : Objects, before : FileStates]
CancelOps == [kind : {"cancel"}, pc : {"clean", "finish"}, lease : Leases, call : Cancels]
OpInv(x, d, pn) ==
    \/ x = None
    \/ x \in PutOps /\ x.oid \in Index[x.lease] /\ d.leases[x.lease] # None
    \/ /\ x \in CollectOps /\ d.leases[x.lease] # None /\ d.leases[x.lease].state = "released"
       /\ d.gc[x.lease] # None /\ \A p \in pn : p[2] # x.lease
    \/ /\ x \in RepairOps \/ (x \in ReplaceOps /\ x.oid \in Index[x.lease])
       /\ x.lease = x.call.lease /\ d.leases[x.lease] # None /\ d.repair[x.call] # None
       /\ x.todo \subseteq Index[x.lease]
    \/ x \in CancelOps /\ d.repair[x.call.repair] # None

ConnInv ==
    /\ conns \in [Conns -> Connections \cup {None}]
    /\ \A c \in Conns : conns[c] # None /\ conns[c].phase # "response" => conns[c].guard = None

StoreOk(d, f, dam, pn, x, b) ==
    /\ DbType(d) /\ FileType(f) /\ RowsSound(d) /\ b \in Nat
    /\ Kept(d, f, dam, pn) /\ ReceiptInv(d, b) /\ OpInv(x, d, pn)
StoreInv == StoreOk(db, files, damaged, pins, op, boot)
KeeperInv == StoreInv /\ ConnInv /\ PinsOwned

-----------------------------------------------------------------------------
(* What the transactions write *)

\* The database after a write of each kind.
Receipted(d, e, l, row, t, c, answer) == e = Record([d EXCEPT !.leases[l] = row, !.clock = t], c, answer)
StoredSet(d, e, l, objs) == e = [d EXCEPT !.stored[l] = objs]
JobSet(d, e, l, job) == e = [d EXCEPT !.gc[l] = job]
RepairSet(d, e, r, job) == e = [d EXCEPT !.repair[r] = job]

\* A new row of a lease and the call it answers.
LEMMA RowWritten ==
    ASSUME NEW d, DbType(d), NEW l \in Leases, NEW row \in Rows, NEW c, NEW answer,
           [call |-> c, answer |-> answer] \in Recorded,
           NEW e, e = Record([d EXCEPT !.leases[l] = row], c, answer)
    PROVE  /\ DbType(e) /\ e.leases = [d.leases EXCEPT ![l] = row]
           /\ e.ops = d.ops \cup {[call |-> c, answer |-> answer]}
           /\ e.stored = d.stored /\ e.gc = d.gc /\ e.repair = d.repair
<1>1. e = [[d EXCEPT !.leases[l] = row] EXCEPT !.ops = @ \cup {[call |-> c, answer |-> answer]}]
  BY DEF Record
<1>2. d.leases \in [Leases -> Rows \cup {None}] /\ d.ops \in SUBSET Recorded
  BY DEF DbType
<1>3. [d.leases EXCEPT ![l] = row] \in [Leases -> Rows \cup {None}]
  BY <1>2
<1>4. d.ops \cup {[call |-> c, answer |-> answer]} \in SUBSET Recorded
  BY <1>2
<1> QED BY <1>1, <1>2, <1>3, <1>4 DEF DbType

\* The same with the clock of a receipt.
LEMMA ReceiptWritten ==
    ASSUME NEW d, DbType(d), NEW l \in Leases, NEW row \in Rows, NEW c, NEW answer,
           NEW t \in [boot : Nat, ns : Nat], [call |-> c, answer |-> answer] \in Recorded,
           NEW e, Receipted(d, e, l, row, t, c, answer)
    PROVE  /\ DbType(e) /\ e.leases = [d.leases EXCEPT ![l] = row]
           /\ e.ops = d.ops \cup {[call |-> c, answer |-> answer]}
           /\ e.stored = d.stored /\ e.gc = d.gc /\ e.repair = d.repair
<1>1. e = [[d EXCEPT !.leases[l] = row, !.clock = t] EXCEPT !.ops = @ \cup {[call |-> c, answer |-> answer]}]
  BY DEF Record, Receipted
<1>2. d.leases \in [Leases -> Rows \cup {None}] /\ d.ops \in SUBSET Recorded
  BY DEF DbType
<1>3. [d.leases EXCEPT ![l] = row] \in [Leases -> Rows \cup {None}]
  BY <1>2
<1>4. d.ops \cup {[call |-> c, answer |-> answer]} \in SUBSET Recorded
  BY <1>2
<1> QED BY <1>1, <1>2, <1>3, <1>4 DEF DbType

\* The objects on record for a lease.
LEMMA StoredWritten ==
    ASSUME NEW d, DbType(d), NEW l \in Leases, NEW objs, objs \subseteq Objects,
           NEW e, StoredSet(d, e, l, objs)
    PROVE  /\ DbType(e) /\ e.stored[l] = objs /\ \A m \in Leases : m # l => e.stored[m] = d.stored[m]
           /\ e.leases = d.leases /\ e.ops = d.ops /\ e.gc = d.gc /\ e.repair = d.repair
<1>1. [d.stored EXCEPT ![l] = objs] \in [Leases -> SUBSET Objects]
  BY DEF DbType
<1>2. DbType(e) /\ e.leases = d.leases /\ e.ops = d.ops /\ e.gc = d.gc /\ e.repair = d.repair
  BY <1>1 DEF DbType, StoredSet
<1>3. e.stored = [d.stored EXCEPT ![l] = objs]
  BY DEF DbType, StoredSet
<1>4. d.stored \in [Leases -> SUBSET Objects]
  BY DEF DbType
<1> QED BY <1>2, <1>3, <1>4

\* A gc job.
LEMMA JobWritten ==
    ASSUME NEW d, DbType(d), NEW l \in Leases, NEW job \in GcJobs, NEW e, JobSet(d, e, l, job)
    PROVE  DbType(e) /\ e.leases = d.leases /\ e.ops = d.ops /\ e.stored = d.stored
<1>1. [d.gc EXCEPT ![l] = job] \in [Leases -> GcJobs \cup {None}]
  BY DEF DbType
<1> QED BY <1>1 DEF DbType, JobSet

\* A repair job.
LEMMA RepairWritten ==
    ASSUME NEW d, DbType(d), NEW r \in Repairs, NEW job \in RepairJobs, NEW e, RepairSet(d, e, r, job)
    PROVE  DbType(e) /\ e.leases = d.leases /\ e.ops = d.ops /\ e.stored = d.stored
<1>1. [d.repair EXCEPT ![r] = job] \in [Repairs -> RepairJobs \cup {None}]
  BY DEF DbType
<1> QED BY <1>1 DEF DbType, RepairSet

\* A write that leaves the answered seals and renewals alone leaves the receipts in order.
LEMMA SameReceipts ==
    ASSUME NEW d, NEW e, NEW b, DbType(d), DbType(e), ReceiptInv(d, b), Answers(e) = Answers(d),
           \A l \in Leases : d.leases[l] # None =>
              e.leases[l] # None /\ e.leases[l].gen = d.leases[l].gen /\ e.leases[l].receipt = d.leases[l].receipt,
           \A l \in Leases : d.leases[l] = None /\ e.leases[l] # None => e.leases[l].receipt = None
    PROVE  ReceiptInv(e, b)
<1>1. \A o \in Answers(d) : o.call.lease \in Leases
  <2>1. \A o \in Answers(d) : o \in Recorded
    BY DEF Answers, DbType
  <2> QED BY <2>1, Shapes DEF Recorded, Reservations, CallShape
<1>2. Numbered(e)
  BY <1>1 DEF ReceiptInv, Numbered
<1>3. Ordered(e)
  BY DEF ReceiptInv, Ordered
<1>4. Booted(e, b)
  BY DEF ReceiptInv, Booted
<1> QED BY <1>2, <1>3, <1>4 DEF ReceiptInv

\* Keeper._transaction: whichever outcome, the database is the old or the new one.
LEMMA Transacted ==
    ASSUME NEW d, Transaction(d), StoreOk(db, files', damaged', pins', op', boot'),
           StoreOk(d, files', damaged', pins', op', boot')
    PROVE  StoreInv'
<1>1. db' = db \/ db' = d
  BY DEF Transaction, Committed, Uncertain
<1>2. CASE db' = db
  BY <1>2 DEF StoreInv
<1>3. CASE db' = d
  BY <1>3 DEF StoreInv
<1> QED BY <1>1, <1>2, <1>3

\* A step that does not write the database.
LEMMA OutsideDatabase ==
    ASSUME StoreInv, db' = db, pins' = pins, boot' = boot, FileType(files'),
           Kept(db, files', damaged', pins), OpInv(op', db, pins)
    PROVE  StoreInv'
BY DEF StoreInv, StoreOk

\* One file changes to s: it was made whole, or something outside took it, or it is of a
\* released lease nobody reads.
FileSet(f, g, l, o, s) == g = [f EXCEPT ![l][o] = s]
Allowed(d, l, o, s, dam, dam2, pn) ==
    /\ dam \ {<<l, o>>} \subseteq dam2
    /\ \/ s \in Readable \/ <<l, o>> \in dam2
       \/ d.leases[l] # None /\ d.leases[l].state = "released" /\ \A p \in pn : p[2] # l

\* Such a change loses nothing that is served.
LEMMA FileKept ==
    ASSUME NEW d, DbType(d), RowsSound(d), NEW f, FileType(f), NEW dam, NEW pn, Kept(d, f, dam, pn),
           NEW l \in Leases, NEW o \in Index[l], NEW s \in FileStates, NEW g, FileSet(f, g, l, o, s),
           NEW dam2, Allowed(d, l, o, s, dam, dam2, pn)
    PROVE  FileType(g) /\ Kept(d, g, dam2, pn)
<1>1. /\ FileType(g) /\ g[l][o] = s
      /\ \A m \in Leases : \A p \in Index[m] : m # l \/ p # o => g[m][p] = f[m][p]
  <2>1. f = [m \in Leases |-> f[m]] /\ f[l] \in [Index[l] -> FileStates]
    BY DEF FileType
  <2>2. g = [f EXCEPT ![l] = [f[l] EXCEPT ![o] = s]]
    BY DEF FileSet
  <2>3. g = [m \in Leases |-> g[m]] /\ g[l] = [f[l] EXCEPT ![o] = s] /\ \A m \in Leases : m # l => g[m] = f[m]
    BY <2>1, <2>2
  <2>4. g[l] \in [Index[l] -> FileStates] /\ g[l][o] = s /\ \A p \in Index[l] : p # o => g[l][p] = f[l][p]
    BY <2>1, <2>3
  <2>5. FileType(g)
    BY <2>3, <2>4 DEF FileType
  <2> QED BY <2>3, <2>4, <2>5
<1>2. ASSUME NEW m \in Leases, d.leases[m] # None
      PROVE  /\ d.leases[m].state = "sealed" => d.stored[m] = Index[m]
             /\ d.leases[m].state # "released" \/ (\E p \in pn : p[2] = m) =>
                   \A p \in d.stored[m] : <<m, p>> \in dam2 \/ g[m][p] \in Readable
  <2>1. d.leases[m].state = "sealed" => d.stored[m] = Index[m]
    BY <1>2 DEF Kept
  <2>2. ASSUME d.leases[m].state # "released" \/ (\E p \in pn : p[2] = m), NEW p \in d.stored[m]
        PROVE  <<m, p>> \in dam2 \/ g[m][p] \in Readable
    <3>1. p \in Index[m] /\ (<<m, p>> \in dam \/ f[m][p] \in Readable)
      BY <1>2, <2>2 DEF Kept, RowsSound
    <3>2. CASE m = l /\ p = o
      <4>1. ~(d.leases[l] # None /\ d.leases[l].state = "released" /\ \A q \in pn : q[2] # l)
        BY <2>2, <3>2
      <4>2. s \in Readable \/ <<l, o>> \in dam2
        BY <4>1 DEF Allowed
      <4> QED BY <1>1, <3>2, <4>2
    <3>3. CASE m # l \/ p # o
      <4>1. g[m][p] = f[m][p]
        BY <1>1, <3>1, <3>3
      <4>2. <<m, p>> \in dam => <<m, p>> \in dam2
        BY <3>3 DEF Allowed
      <4> QED BY <3>1, <4>1, <4>2
    <3> QED BY <3>2, <3>3
  <2> QED BY <2>1, <2>2
<1>3. Kept(d, g, dam2, pn)
  BY <1>2 DEF Kept
<1> QED BY <1>1, <1>3

\* The temporary name of a file goes away.
LEMMA LinkDropped ==
    ASSUME DbType(db), RowsSound(db), FileType(files), Kept(db, files, damaged, pins), NEW l \in Leases, NEW o \in Index[l],
           NEW g, g = [files EXCEPT ![l][o] = IF @ = "linked" THEN "valid" ELSE @]
    PROVE  FileType(g) /\ Kept(db, g, damaged, pins)
<1>1. files = [m \in Leases |-> files[m]] /\ files[l] \in [Index[l] -> FileStates]
  BY DEF FileType
<1>2. CASE files[l][o] = "linked"
  <2>1. FileSet(files, g, l, o, "valid")
    BY <1>2 DEF FileSet
  <2>2. "valid" \in FileStates /\ Allowed(db, l, o, "valid", damaged, damaged, pins)
    BY DEF FileStates, Readable, Allowed
  <2> QED BY <2>1, <2>2, FileKept
<1>3. CASE files[l][o] # "linked"
  <2>1. g = [files EXCEPT ![l] = [files[l] EXCEPT ![o] = files[l][o]]]
    BY <1>3
  <2>2. [files[l] EXCEPT ![o] = files[l][o]] = files[l]
    BY <1>1
  <2>3. g = files
    BY <1>1, <2>1, <2>2
  <2> QED BY <2>3
<1> QED BY <1>2, <1>3

\* Objects whose files are whole, or known to be taken, are recorded for a lease.
LEMMA ObjectsRecorded ==
    ASSUME DbType(db), RowsSound(db), NEW f, FileType(f), NEW dam, NEW pn, Kept(db, f, dam, pn), NEW b \in Nat,
           ReceiptInv(db, b), NEW l \in Leases, db.leases[l] # None, NEW objs \in SUBSET Index[l],
           \A o \in objs : <<l, o>> \in dam \/ f[l][o] \in Readable,
           NEW d, DbType(d), d.stored[l] = db.stored[l] \cup objs, d.leases = db.leases, d.ops = db.ops,
           \A m \in Leases : m # l => d.stored[m] = db.stored[m]
    PROVE  StoreOk(d, f, dam, pn, None, b)
<1>1. RowsSound(d)
  BY SMTT(60) DEF RowsSound
<1>2. Kept(d, f, dam, pn)
  <2> SUFFICES ASSUME NEW m \in Leases, d.leases[m] # None
               PROVE  /\ d.leases[m].state = "sealed" => d.stored[m] = Index[m]
                      /\ d.leases[m].state # "released" \/ (\E p \in pn : p[2] = m) =>
                            \A o \in d.stored[m] : <<m, o>> \in dam \/ f[m][o] \in Readable
    BY DEF Kept
  <2>1. CASE m = l
    BY <2>1 DEF Kept
  <2>2. CASE m # l
    BY <2>2 DEF Kept
  <2> QED BY <2>1, <2>2
<1>3. ReceiptInv(d, b)
  <2>1. Answers(d) = Answers(db)
    BY DEF Answers
  <2> QED BY <2>1, SameReceipts
<1>4. OpInv(None, d, pn)
  BY DEF OpInv
<1> QED BY <1>1, <1>2, <1>3, <1>4 DEF StoreOk

-----------------------------------------------------------------------------
(* keeper-retention *)

\* A lease is reserved once: its nonce is on record after it.
LEMMA ReserveSound == ASSUME StoreInv, NEW l \in Leases, Reserve(l) PROVE StoreInv'
<1> DEFINE c == [action |-> "reserve", lease |-> l, nonce |-> l, auth |-> db.auth, secs |-> 1]
           row == [state |-> "reserved", gen |-> 0, receipt |-> None]
<1>0. DbType(db) /\ RowsSound(db) /\ Kept(db, files, damaged, pins) /\ ReceiptInv(db, boot)
  BY DEF StoreInv, StoreOk
<1>1. /\ New(c) /\ Transaction(Record([db EXCEPT !.leases[l] = row], c, None)) /\ op = None
      /\ files' = files /\ damaged' = damaged /\ pins' = pins /\ op' = op /\ boot' = boot
  BY DEF Reserve, Enter, disk, env
<1>2. db.leases[l] = None
  BY <1>0, <1>1 DEF New, RowsSound
<1>3. row \in Rows /\ [call |-> c, answer |-> None] \in Recorded
  <2>1. db.auth \in Authorities
    BY <1>0 DEF DbType
  <2>2. c \in Reservations
    BY <2>1 DEF Reservations
  <2>3. row \in Rows
    BY DEF Rows
  <2> QED BY <2>2, <2>3 DEF Recorded
<1> DEFINE x == [call |-> c, answer |-> None]
<1>4. PICK d : d = Record([db EXCEPT !.leases[l] = row], c, None)
  OBVIOUS
<1>5. /\ DbType(d) /\ d.leases = [db.leases EXCEPT ![l] = row] /\ d.ops = db.ops \cup {x}
      /\ d.stored = db.stored /\ d.gc = db.gc /\ d.repair = db.repair
  <2> HIDE DEF c, row
  <2> QED BY <1>0, <1>3, <1>4, RowWritten, SMTT(60)
<1>6. /\ d.leases[l] = row /\ \A m \in Leases : m # l => d.leases[m] = db.leases[m]
      /\ row.receipt = None /\ row.state = "reserved" /\ row # None /\ x.call.nonce = l /\ x.call.action = "reserve"
  <2>1. db.leases \in [Leases -> Rows \cup {None}]
    BY <1>0 DEF DbType
  <2>2. row # None
    BY <1>3, Absent
  <2> QED BY <1>5, <2>1, <2>2
<1> HIDE DEF c, row, x
<1>7. RowsSound(d)
  BY <1>0, <1>2, <1>5, <1>6, SMTT(60) DEF RowsSound
<1>8. Kept(d, files, damaged, pins)
  <2>1. d.stored[l] = {}
    BY <1>0, <1>2, <1>5 DEF RowsSound
  <2> QED BY <1>0, <1>5, <1>6, <2>1, SMTT(60) DEF Kept
<1>9. ReceiptInv(d, boot)
  <2>1. Answers(d) = Answers(db)
    BY <1>5, <1>6 DEF Answers
  <2> QED BY <1>0, <1>2, <1>5, <1>6, <2>1, SameReceipts
<1>10. OpInv(op', d, pins) /\ OpInv(op', db, pins)
  BY <1>1 DEF OpInv
<1>11. StoreOk(db, files', damaged', pins', op', boot')
  BY <1>1 DEF StoreInv
<1>12. StoreOk(d, files', damaged', pins', op', boot')
  BY <1>1, <1>5, <1>7, <1>8, <1>9, <1>10 DEF StoreInv, StoreOk
<1>13. Transaction(d)
  BY <1>1, <1>4 DEF c, row
<1> QED BY <1>11, <1>12, <1>13, Transacted

\* The steps of put: the file is linked before it is recorded, and recorded only when
\* it can be read.
LEMMA PutSound ==
    ASSUME StoreInv, PutLink \/ PutUnlink \/ PutRecord \/ \E l \in Leases : \E o \in Index[l] : Put(l, o)
    PROVE  StoreInv'
<1>0. /\ DbType(db) /\ RowsSound(db) /\ FileType(files) /\ Kept(db, files, damaged, pins)
      /\ ReceiptInv(db, boot) /\ OpInv(op, db, pins) /\ boot \in Nat
  BY DEF StoreInv, StoreOk
<1>1. ASSUME NEW l \in Leases, NEW o \in Index[l], Put(l, o) PROVE StoreInv'
  <2>1. /\ db' = db /\ files' = files /\ damaged' = damaged /\ pins' = pins /\ boot' = boot
        /\ \E pc \in {"link", "record"} : op' = [kind |-> "put", pc |-> pc, lease |-> l, oid |-> o]
        /\ db.leases[l] # None
    <3>1. files[l][o] = None \/ files[l][o] \in Readable
      BY <1>0, <1>1 DEF Put, FileType, FileStates, Readable
    <3> QED BY <1>1, <3>1, Absent DEF Put, mem, env, Serving, Lease, Readable
  <2>2. OpInv(op', db, pins)
    <3>1. PICK pc \in {"link", "record"} : op' = [kind |-> "put", pc |-> pc, lease |-> l, oid |-> o]
      BY <2>1
    <3>2. o \in Objects
      BY DEF Objects
    <3>3. op' \in PutOps /\ op'.lease = l /\ op'.oid = o
      BY <3>1, <3>2 DEF PutOps
    <3> QED BY <2>1, <3>3 DEF OpInv
  <2> QED BY <1>0, <2>1, <2>2, OutsideDatabase
<1>2. ASSUME At("put", "link") \/ At("put", "unlink") \/ At("put", "record")
      PROVE  op \in PutOps /\ op.lease \in Leases /\ op.oid \in Index[op.lease] /\ db.leases[op.lease] # None
  <2>1. op # None /\ op.kind = "put"
    BY <1>2 DEF At
  <2> QED BY <1>0, <2>1 DEF OpInv, PutOps, CollectOps, RepairOps, ReplaceOps, CancelOps
<1>3. ASSUME NEW pc \in {"link", "unlink", "record"}, op \in PutOps, op.oid \in Index[op.lease], db.leases[op.lease] # None
      PROVE  OpInv([op EXCEPT !.pc = pc], db, pins)
  <2>1. [op EXCEPT !.pc = pc] \in PutOps /\ [op EXCEPT !.pc = pc].lease = op.lease /\ [op EXCEPT !.pc = pc].oid = op.oid
    BY <1>3 DEF PutOps
  <2> QED BY <1>3, <2>1 DEF OpInv
<1>4. CASE PutLink
  <2>0. At("put", "link")
    BY <1>4 DEF PutLink
  <2>1. /\ db' = db /\ pins' = pins /\ boot' = boot /\ files' = [files EXCEPT ![op.lease][op.oid] = "linked"]
        /\ damaged' = damaged \ {<<op.lease, op.oid>>} /\ op' = [op EXCEPT !.pc = "unlink"]
    BY <1>4 DEF PutLink, mem
  <2>l. PICK l \in Leases : l = op.lease
    BY <1>2, <2>0
  <2>2. PICK o \in Index[l] : l = op.lease /\ o = op.oid
    BY <1>2, <2>0, <2>l
  <2>3. FileType(files') /\ Kept(db, files', damaged', pins)
    <3>1. "linked" \in FileStates /\ Allowed(db, l, o, "linked", damaged, damaged', pins)
      BY <2>1, <2>2 DEF FileStates, Readable, Allowed
    <3>2. FileSet(files, files', l, o, "linked")
      BY <2>1, <2>2 DEF FileSet
    <3> QED BY <1>0, <3>1, <3>2, FileKept
  <2>4. OpInv(op', db, pins)
    BY <1>2, <1>3, <2>0, <2>1
  <2> QED BY <2>1, <2>3, <2>4, OutsideDatabase
<1>5. CASE PutUnlink
  <2>0. At("put", "unlink")
    BY <1>5 DEF PutUnlink
  <2>1. /\ db' = db /\ pins' = pins /\ boot' = boot
        /\ files' = [files EXCEPT ![op.lease][op.oid] = IF @ = "linked" THEN "valid" ELSE @]
        /\ damaged' = damaged /\ op' = [op EXCEPT !.pc = "record"]
    BY <1>5 DEF PutUnlink, mem, env
  <2>l. PICK l \in Leases : l = op.lease
    BY <1>2, <2>0
  <2>2. PICK o \in Index[l] : l = op.lease /\ o = op.oid
    BY <1>2, <2>0, <2>l
  <2>3. FileType(files') /\ Kept(db, files', damaged', pins)
    BY <1>0, <2>1, <2>2, LinkDropped
  <2>4. OpInv(op', db, pins)
    BY <1>2, <1>3, <2>0, <2>1
  <2> QED BY <2>1, <2>3, <2>4, OutsideDatabase
<1>6. CASE PutRecord
  <2>0. At("put", "record")
    BY <1>6 DEF PutRecord
  <2>1. /\ pins' = pins /\ boot' = boot /\ files' = files /\ damaged' = damaged /\ op' = None
        /\ \/ db' = db
           \/ /\ files[op.lease][op.oid] \in Readable
              /\ Transaction([db EXCEPT !.stored[op.lease] = @ \cup {op.oid}])
    BY <1>6 DEF PutRecord, disk, env
  <2>l. PICK l \in Leases : l = op.lease /\ db.leases[l] # None
    BY <1>2, <2>0
  <2>2. PICK o \in Index[l] : l = op.lease /\ o = op.oid /\ db.leases[l] # None
    BY <1>2, <2>0, <2>l
  <2>3. StoreOk(db, files', damaged', pins', op', boot')
    BY <1>0, <2>1 DEF StoreOk, OpInv
  <2>4. CASE db' = db
    BY <2>3, <2>4 DEF StoreInv
  <2>5. ASSUME files[l][o] \in Readable, Transaction([db EXCEPT !.stored[l] = @ \cup {o}]) PROVE StoreInv'
    <3>a. db.stored[l] \subseteq Objects /\ Index[l] \subseteq Objects
      BY <1>0 DEF DbType, Objects
    <3>0. PICK all : all = db.stored[l] \cup {o} /\ all \subseteq Objects
      BY <3>a
    <3>1. PICK d : StoredSet(db, d, l, all)
      BY DEF StoredSet
    <3>d. Transaction(d)
      BY <2>5, <3>0, <3>1 DEF StoredSet
    <3>2. StoreOk(d, files', damaged', pins', op', boot')
      <4>0. DbType(db) /\ all \subseteq Objects
        BY <1>0, <3>0
      <4>1. {o} \in SUBSET Index[l] /\ \A q \in {o} : <<l, q>> \in damaged \/ files[l][q] \in Readable
        BY <2>5
      <4>2. /\ DbType(d) /\ d.stored[l] = all /\ \A m \in Leases : m # l => d.stored[m] = db.stored[m]
            /\ d.leases = db.leases /\ d.ops = db.ops
        BY <3>1, <4>0, StoredWritten, SMTT(60)
      <4>3. PICK objs \in SUBSET Index[l] : objs = {o}
        BY <4>1
      <4>4. /\ d.stored[l] = db.stored[l] \cup objs
            /\ \A q \in objs : <<l, q>> \in damaged \/ files[l][q] \in Readable
        BY <3>0, <4>1, <4>2, <4>3
      <4>5. StoreOk(d, files, damaged, pins, None, boot)
        BY <1>0, <2>2, <4>2, <4>4, ObjectsRecorded
      <4> QED BY <2>1, <4>5
    <3> QED BY <2>3, <3>d, <3>2, Transacted
  <2> QED BY <2>1, <2>2, <2>4, <2>5
<1> QED BY <1>1, <1>4, <1>5, <1>6

\* A receipt of the next number, of the running boot and not ending earlier, is in order.
LEMMA ReceiptIssued ==
    ASSUME NEW d, NEW e, DbType(d), DbType(e), ReceiptInv(d, boot), boot \in Nat, NEW l \in Leases, NEW r \in Receipts,
           NEW row \in Rows, NEW o \in Recorded, NEW action \in {"seal", "renew"},
           o.call.action = action, o.call.lease = l, o.answer = r,
           d.leases[l] # None, r.gen = d.leases[l].gen + 1, r.boot = boot,
           d.leases[l].receipt # None /\ d.leases[l].receipt.boot = boot => Expiry(d.leases[l].receipt) <= Expiry(r),
           row.gen = r.gen, row.receipt = r,
           e.leases = [d.leases EXCEPT ![l] = row], e.ops = d.ops \cup {o}
    PROVE  ReceiptInv(e, boot)
<1>1. d.leases \in [Leases -> Rows \cup {None}] /\ d.ops \subseteq Recorded
  BY DEF DbType
<1>2. e.leases[l] = row /\ \A m \in Leases : m # l => e.leases[m] = d.leases[m]
  BY <1>1
<1>3. row # None /\ r # None
  BY Absent
<1>4. Answers(e) = Answers(d) \cup {o}
  BY DEF Answers
<1>5. ASSUME NEW s \in Answers(d)
      PROVE  s.call.lease \in Leases /\ d.leases[s.call.lease] \in Rows /\ s.answer \in Receipts
  <2>1. s \in Recorded
    BY <1>1 DEF Answers
  <2>2. s.call.lease \in Leases
    BY <2>1, Shapes DEF Recorded, Reservations, CallShape
  <2>3. d.leases[s.call.lease] # None /\ s.answer # None
    BY DEF ReceiptInv, Numbered
  <2> QED BY <1>1, <2>1, <2>2, <2>3 DEF Recorded
<1>6. \A x \in Receipts : x.gen \in Nat /\ x.boot \in Nat /\ Expiry(x) \in Nat
  BY SMTT(60) DEF Receipts, Expiry
<1>7. d.leases[l] \in Rows /\ d.leases[l].gen \in Nat /\ (d.leases[l].receipt # None => d.leases[l].receipt \in Receipts)
  BY <1>1 DEF Rows
<1>8. ASSUME NEW s \in Answers(d), s.call.lease = l
      PROVE  /\ s.answer.gen < r.gen /\ s.answer.boot <= r.boot
             /\ s.answer.boot = r.boot => Expiry(s.answer) <= Expiry(r)
  <2>1. /\ d.leases[l].receipt # None /\ s.answer.gen <= d.leases[l].gen
        /\ s.answer.boot <= d.leases[l].receipt.boot
        /\ s.answer.boot = d.leases[l].receipt.boot => Expiry(s.answer) <= Expiry(d.leases[l].receipt)
    BY <1>8 DEF ReceiptInv, Numbered
  <2>2. d.leases[l].receipt.boot <= boot
    BY <2>1 DEF ReceiptInv, Booted
  <2>3. s.answer \in Receipts
    BY <1>5
  <2>4. s.answer.gen < r.gen
    BY <1>6, <1>7, <2>1, <2>3, SMTT(60)
  <2>5. PICK last1 \in Receipts : last1 = d.leases[l].receipt
    BY <1>7, <2>1
  <2>6. PICK old \in Receipts : old = s.answer
    BY <2>3
  <2>7. /\ old.boot \in Nat /\ last1.boot \in Nat /\ Expiry(old) \in Nat /\ Expiry(last1) \in Nat
        /\ r.boot \in Nat /\ Expiry(r) \in Nat
    BY <1>6
  <2>8. old.boot <= last1.boot /\ last1.boot <= r.boot
    BY <2>1, <2>2, <2>5, <2>6
  <2>9. old.boot = last1.boot => Expiry(old) <= Expiry(last1)
    BY <2>1, <2>5, <2>6
  <2>10. last1.boot = r.boot => Expiry(last1) <= Expiry(r)
    BY <2>1, <2>5
  <2>11. old.boot <= r.boot /\ (old.boot = r.boot => Expiry(old) <= Expiry(r))
    BY <2>7, <2>8, <2>9, <2>10, SMTT(60)
  <2> QED BY <2>4, <2>6, <2>11
<1>9. Numbered(e)
  <2> SUFFICES ASSUME NEW s \in Answers(e)
               PROVE  /\ e.leases[s.call.lease] # None /\ e.leases[s.call.lease].receipt # None /\ s.answer # None
                      /\ s.answer.gen <= e.leases[s.call.lease].gen
                      /\ s.answer.boot <= e.leases[s.call.lease].receipt.boot
                      /\ s.answer.boot = e.leases[s.call.lease].receipt.boot =>
                            Expiry(s.answer) <= Expiry(e.leases[s.call.lease].receipt)
    BY DEF Numbered
  <2>1. CASE s = o
    BY <1>2, <1>3, <1>6, <2>1, SMTT(60)
  <2>2. CASE s \in Answers(d) /\ s.call.lease = l
    <3>1. s.answer \in Receipts
      BY <1>5, <2>2
    <3>2. s.answer.gen <= r.gen
      BY <1>6, <1>8, <2>2, <3>1, SMTT(60)
    <3> QED BY <1>2, <1>3, <1>8, <2>2, <3>1, <3>2, Absent
  <2>3. CASE s \in Answers(d) /\ s.call.lease # l
    <3>1. e.leases[s.call.lease] = d.leases[s.call.lease]
      BY <1>2, <1>5, <2>3
    <3> QED BY <2>3, <3>1 DEF ReceiptInv, Numbered
  <2> QED BY <1>4, <2>1, <2>2, <2>3
<1>10. Ordered(e)
  <2> SUFFICES ASSUME NEW s \in Answers(e), NEW t \in Answers(e), s.call.lease = t.call.lease
               PROVE  /\ s.answer.gen = t.answer.gen => s = t
                      /\ s.answer.gen < t.answer.gen /\ s.answer.boot = t.answer.boot =>
                            Expiry(s.answer) <= Expiry(t.answer)
    BY DEF Ordered
  <2>1. CASE s \in Answers(d) /\ t \in Answers(d)
    BY <2>1 DEF ReceiptInv, Ordered
  <2>2. CASE s \in Answers(d) /\ t = o
    <3>1. s.answer.gen < r.gen /\ (s.answer.boot = r.boot => Expiry(s.answer) <= Expiry(r))
      BY <1>8, <2>2
    <3>2. s.answer.gen \in Nat /\ r.gen \in Nat
      BY <1>5, <1>6, <2>2
    <3>3. s.answer.gen # r.gen
      BY <3>1, <3>2, SMTT(60)
    <3> QED BY <2>2, <3>1, <3>3
  <2>3. CASE s = o /\ t \in Answers(d)
    <3>1. t.answer.gen < r.gen
      BY <1>8, <2>3
    <3>2. t.answer.gen \in Nat /\ r.gen \in Nat
      BY <1>5, <1>6, <2>3
    <3>3. r.gen # t.answer.gen /\ ~(r.gen < t.answer.gen)
      BY <3>1, <3>2, SMTT(60)
    <3> QED BY <2>3, <3>3
  <2>4. CASE s = o /\ t = o
    BY <1>6, <2>4, SMTT(60)
  <2> QED BY <1>4, <2>1, <2>2, <2>3, <2>4
<1>11. Booted(e, boot)
  <2> SUFFICES ASSUME NEW m \in Leases, e.leases[m] # None, e.leases[m].receipt # None
               PROVE  e.leases[m].receipt.boot <= boot
    BY DEF Booted
  <2>1. CASE m = l
    BY <1>2, <2>1, SMTT(60)
  <2>2. CASE m # l
    BY <1>2, <2>2 DEF ReceiptInv, Booted
  <2> QED BY <2>1, <2>2
<1> QED BY <1>9, <1>10, <1>11 DEF ReceiptInv

\* seal and renew: all bytes are there when the receipt is issued.
LEMMA CompleteSound == ASSUME StoreInv, NEW c \in Calls, c.action # "release", Complete(c) PROVE StoreInv'
<1>0. /\ DbType(db) /\ RowsSound(db) /\ FileType(files) /\ Kept(db, files, damaged, pins)
      /\ ReceiptInv(db, boot) /\ boot \in Nat
  BY DEF StoreInv, StoreOk
<1>1. PICK l \in Leases : l = c.lease /\ c.action \in {"seal", "renew"} /\ c.secs \in Nat /\ c.auth \in Authorities
  BY Shapes DEF CallShape
<1>2. /\ op = None /\ op' = None /\ db.leases[l] # None /\ BytesComplete(l)
      /\ files' = files /\ damaged' = damaged /\ pins' = pins /\ boot' = boot
  BY <1>1 DEF Complete, Enter, Authorized, Lease, disk, env
<1>3. PICK t \in Ticks : Issues(c, t)
  BY DEF Complete
<1>4. t \in [boot : Nat, ns : Nat] /\ t.boot = boot
  BY <1>0, SMTT(60) DEF Ticks
<1>5. PICK r : r = Receipt(c, t)
  OBVIOUS
<1>6. PICK row : row = [state |-> "sealed", gen |-> r.gen, receipt |-> r]
  OBVIOUS
<1>7. PICK d : d = Record([db EXCEPT !.leases[l] = row, !.clock = t], c, r)
  OBVIOUS
<1>8. ~Shortens(l, r) /\ Transaction(d)
  BY <1>1, <1>3, <1>5, <1>6, <1>7 DEF Issues
<1>9. db.leases \in [Leases -> Rows \cup {None}] /\ db.leases[l] \in Rows /\ db.leases[l].gen \in Nat
  BY <1>0, <1>2 DEF DbType, Rows
<1>10. r \in Receipts /\ r.gen = db.leases[l].gen + 1 /\ r.boot = boot
  BY <1>1, <1>4, <1>5, <1>9, SMTT(60) DEF Receipt, Receipts, Lease
<1>11. row \in Rows /\ row.gen = r.gen /\ row.receipt = r /\ row.state = "sealed" /\ row # None
  <2>1. r.gen \in Nat
    BY <1>10 DEF Receipts
  <2>2. row \in Rows
    BY <1>6, <1>10, <2>1 DEF Rows
  <2> QED BY <1>6, <2>2, Absent
<1>12. PICK x \in Recorded : x = [call |-> c, answer |-> r]
  BY <1>10 DEF Recorded
<1>13. /\ DbType(d) /\ d.leases = [db.leases EXCEPT ![l] = row] /\ d.ops = db.ops \cup {x}
       /\ d.stored = db.stored /\ d.gc = db.gc /\ d.repair = db.repair
  <2>1. [call |-> c, answer |-> r] \in Recorded
    BY <1>12
  <2>2. /\ DbType(d) /\ d.leases = [db.leases EXCEPT ![l] = row] /\ d.ops = db.ops \cup {[call |-> c, answer |-> r]}
        /\ d.stored = db.stored /\ d.gc = db.gc /\ d.repair = db.repair
    <3>1. Receipted(db, d, l, row, t, c, r)
      BY <1>7 DEF Receipted
    <3> QED BY <1>0, <1>4, <1>11, <2>1, <3>1, ReceiptWritten, SMTT(60)
  <2> QED BY <1>12, <2>2
<1>14. d.leases[l] = row /\ \A m \in Leases : m # l => d.leases[m] = db.leases[m]
  BY <1>9, <1>13
<1>15. RowsSound(d)
  BY <1>0, <1>2, <1>11, <1>13, <1>14, SMTT(60) DEF RowsSound
<1>16. Kept(d, files, damaged, pins)
  <2>1. db.stored[l] = Index[l] /\ \A o \in db.stored[l] : files[l][o] \in Readable
    BY <1>2 DEF BytesComplete
  <2> SUFFICES ASSUME NEW m \in Leases, d.leases[m] # None
               PROVE  /\ d.leases[m].state = "sealed" => d.stored[m] = Index[m]
                      /\ d.leases[m].state # "released" \/ (\E p \in pins : p[2] = m) =>
                            \A o \in d.stored[m] : <<m, o>> \in damaged \/ files[m][o] \in Readable
    BY DEF Kept
  <2>2. CASE m = l
    BY <1>13, <2>1, <2>2
  <2>3. CASE m # l
    BY <1>0, <1>13, <1>14, <2>3 DEF Kept
  <2> QED BY <2>2, <2>3
<1>17. ReceiptInv(d, boot)
  <2>1. db.leases[l].receipt # None /\ db.leases[l].receipt.boot = boot => Expiry(db.leases[l].receipt) <= Expiry(r)
    <3>1. db.leases[l].receipt # None => db.leases[l].receipt \in Receipts
      BY <1>9 DEF Rows
    <3>2. \A y \in Receipts : Expiry(y) \in Nat
      BY SMTT(60) DEF Receipts, Expiry
    <3>3. db.leases[l].receipt # None /\ db.leases[l].receipt.boot = boot => ~(Expiry(r) < Expiry(db.leases[l].receipt))
      BY <1>8, <1>10 DEF Shortens, Lease
    <3> QED BY <1>10, <3>1, <3>2, <3>3, SMTT(60)
  <2>2. x.call.action \in {"seal", "renew"} /\ x.call.lease = l /\ x.answer = r
    BY <1>1, <1>12
  <2> QED BY <1>0, <1>2, <1>10, <1>11, <1>13, <2>1, <2>2, ReceiptIssued, SMTT(60)
<1>18. StoreOk(db, files', damaged', pins', op', boot')
  BY <1>2 DEF StoreInv
<1>19. StoreOk(d, files', damaged', pins', op', boot')
  BY <1>0, <1>2, <1>13, <1>15, <1>16, <1>17 DEF StoreOk, OpInv
<1> QED BY <1>8, <1>18, <1>19, Transacted

\* release, which leaves receipts and objects.
LEMMA ReleaseSound == ASSUME StoreInv, NEW c \in Calls, c.action = "release", Release(c) PROVE StoreInv'
<1>0. /\ DbType(db) /\ RowsSound(db) /\ FileType(files) /\ Kept(db, files, damaged, pins)
      /\ ReceiptInv(db, boot) /\ boot \in Nat
  BY DEF StoreInv, StoreOk
<1>1. PICK l \in Leases : l = c.lease
  BY Shapes DEF CallShape
<1>2. /\ op = None /\ op' = None /\ db.leases[l] # None
      /\ files' = files /\ damaged' = damaged /\ pins' = pins /\ boot' = boot
      /\ Transaction(Record([db EXCEPT !.leases[l].state = "released"], c, None))
  BY <1>1 DEF Release, Enter, Authorized, Lease, disk, env
<1>3. db.leases \in [Leases -> Rows \cup {None}] /\ db.leases[l] \in Rows
  BY <1>0, <1>2 DEF DbType
<1>4. PICK row : row = [db.leases[l] EXCEPT !.state = "released"]
  OBVIOUS
<1>5. /\ row \in Rows /\ row.gen = db.leases[l].gen /\ row.receipt = db.leases[l].receipt /\ row.state = "released"
      /\ row # None
  BY <1>3, <1>4, Absent DEF Rows
<1>6. PICK d : d = Record([db EXCEPT !.leases[l] = row], c, None)
  OBVIOUS
<1>7. Transaction(d)
  BY <1>2, <1>4, <1>6
<1>8. PICK x \in Recorded : x = [call |-> c, answer |-> None]
  BY DEF Recorded
<1>9. /\ DbType(d) /\ d.leases = [db.leases EXCEPT ![l] = row] /\ d.ops = db.ops \cup {x}
      /\ d.stored = db.stored /\ d.gc = db.gc /\ d.repair = db.repair
  BY <1>0, <1>5, <1>6, <1>8, RowWritten, SMTT(60)
<1>10. d.leases[l] = row /\ \A m \in Leases : m # l => d.leases[m] = db.leases[m]
  BY <1>3, <1>9
<1>11. RowsSound(d)
  BY <1>0, <1>2, <1>5, <1>9, <1>10, SMTT(60) DEF RowsSound
<1>12. Kept(d, files, damaged, pins)
  <2> SUFFICES ASSUME NEW m \in Leases, d.leases[m] # None
               PROVE  /\ d.leases[m].state = "sealed" => d.stored[m] = Index[m]
                      /\ d.leases[m].state # "released" \/ (\E p \in pins : p[2] = m) =>
                            \A o \in d.stored[m] : <<m, o>> \in damaged \/ files[m][o] \in Readable
    BY DEF Kept
  <2>1. CASE m = l
    BY <1>0, <1>2, <1>5, <1>9, <1>10, <2>1 DEF Kept
  <2>2. CASE m # l
    BY <1>0, <1>9, <1>10, <2>2 DEF Kept
  <2> QED BY <2>1, <2>2
<1>13. ReceiptInv(d, boot)
  <2>1. x.call.action = "release"
    BY <1>8
  <2>2. Answers(d) = Answers(db)
    BY <1>9, <2>1 DEF Answers
  <2> QED BY <1>0, <1>2, <1>5, <1>9, <1>10, <2>2, SameReceipts
<1>14. StoreOk(db, files', damaged', pins', op', boot')
  BY <1>2 DEF StoreInv
<1>15. StoreOk(d, files', damaged', pins', op', boot')
  BY <1>0, <1>2, <1>9, <1>11, <1>12, <1>13 DEF StoreOk, OpInv
<1> QED BY <1>7, <1>14, <1>15, Transacted

\* A new authority, and observations of the clock, touch neither leases nor files.
LEMMA SurroundingsSound ==
    ASSUME StoreInv, (\E a \in Authorities : UpdateAuthority(a)) \/ (\E l \in Leases : Observe(l))
    PROVE  StoreInv'
<1>0. /\ DbType(db) /\ RowsSound(db) /\ FileType(files) /\ Kept(db, files, damaged, pins)
      /\ ReceiptInv(db, boot) /\ OpInv(op, db, pins) /\ boot \in Nat
  BY DEF StoreInv, StoreOk
<1>1. ASSUME NEW a \in Authorities, UpdateAuthority(a) PROVE StoreInv'
  <2>1. /\ op = None /\ op' = None /\ files' = files /\ damaged' = damaged /\ pins' = pins /\ boot' = boot
        /\ db' \in {db, [db EXCEPT !.auth = a]}
    BY <1>1 DEF UpdateAuthority, Enter, disk, env
  <2>2. PICK d : d = [db EXCEPT !.auth = a]
    OBVIOUS
  <2>3. /\ DbType(d) /\ d.leases = db.leases /\ d.stored = db.stored /\ d.ops = db.ops /\ d.gc = db.gc
        /\ d.repair = db.repair
    BY <1>0, <2>2 DEF DbType
  <2>4. RowsSound(d) /\ Kept(d, files, damaged, pins)
    BY <1>0, <2>3, SMTT(60) DEF RowsSound, Kept
  <2>5. Answers(d) = Answers(db)
    BY <2>3 DEF Answers
  <2>6. ReceiptInv(d, boot)
    BY <1>0, <2>3, <2>5, SameReceipts
  <2>7. StoreOk(d, files', damaged', pins', op', boot')
    BY <1>0, <2>1, <2>3, <2>4, <2>6 DEF StoreOk, OpInv
  <2>8. StoreOk(db, files', damaged', pins', op', boot')
    BY <2>1 DEF StoreInv
  <2>9. CASE db' = db
    BY <2>8, <2>9 DEF StoreInv
  <2>10. CASE db' = d
    BY <2>7, <2>10 DEF StoreInv
  <2> QED BY <2>1, <2>2, <2>9, <2>10
<1>2. ASSUME NEW l \in Leases, Observe(l) PROVE StoreInv'
  <2>1. /\ op' = op /\ db' = db /\ files' = files /\ damaged' = damaged /\ pins' = pins /\ boot' = boot
    BY <1>2 DEF Observe, disk, env
  <2> QED BY <1>0, <2>1, OutsideDatabase
<1> QED BY <1>1, <1>2

-----------------------------------------------------------------------------
(* keeper-gc *)

\* A write to the job tables alone, when no operation is under way after it.
LEMMA JobsOnly ==
    ASSUME StoreInv, NEW d, DbType(d), d.leases = db.leases, d.ops = db.ops, d.stored = db.stored, op' = None,
           files' = files, damaged' = damaged, pins' = pins, boot' = boot, Transaction(d)
    PROVE  StoreInv'
<1>0. /\ DbType(db) /\ RowsSound(db) /\ FileType(files) /\ Kept(db, files, damaged, pins)
      /\ ReceiptInv(db, boot) /\ boot \in Nat
  BY DEF StoreInv, StoreOk
<1>1. RowsSound(d) /\ Kept(d, files, damaged, pins)
  BY <1>0, SMTT(60) DEF RowsSound, Kept
<1>2. Answers(d) = Answers(db)
  BY DEF Answers
<1>3. ReceiptInv(d, boot)
  BY <1>0, <1>2, SameReceipts
<1>4. OpInv(op', d, pins) /\ OpInv(op', db, pins)
  BY DEF OpInv
<1>5. StoreOk(d, files', damaged', pins', op', boot') /\ StoreOk(db, files', damaged', pins', op', boot')
  BY <1>0, <1>1, <1>3, <1>4 DEF StoreOk
<1> QED BY <1>5, Transacted

\* The mark of a collection is a job on record; collect starts on a released lease
\* without readers, and only there files go.
LEMMA CollectSound ==
    ASSUME StoreInv, Sweep \/ SweepDirectory \/ CollectFinish \/ \E q \in Collects : Mark(q) \/ Collect(q)
    PROVE  StoreInv'
<1>0. /\ DbType(db) /\ RowsSound(db) /\ FileType(files) /\ Kept(db, files, damaged, pins)
      /\ ReceiptInv(db, boot) /\ OpInv(op, db, pins) /\ boot \in Nat
  BY DEF StoreInv, StoreOk
<1>1. ASSUME NEW q \in Collects, Mark(q) PROVE StoreInv'
  <2>1. PICK l \in Leases : l = q.lease
    BY Shapes DEF CollectShape
  <2>2. PICK job : job = [request |-> q, phase |-> "marked", present |-> Present(l), credit |-> 0]
    OBVIOUS
  <2>3. job \in GcJobs
    <3>1. Present(l) \in SUBSET Objects
      BY DEF Present, Objects
    <3> QED BY <2>2, <3>1 DEF GcJobs
  <2>4. PICK d : d = [db EXCEPT !.gc[l] = job]
    OBVIOUS
  <2>5. /\ op' = None /\ files' = files /\ damaged' = damaged /\ pins' = pins /\ boot' = boot /\ Transaction(d)
    BY <1>1, <2>1, <2>2, <2>4 DEF Mark, Enter, disk, env
  <2>6. DbType(d) /\ d.leases = db.leases /\ d.ops = db.ops /\ d.stored = db.stored
    <3>1. JobSet(db, d, l, job)
      BY <2>4 DEF JobSet
    <3> QED BY <1>0, <2>3, <3>1, JobWritten
  <2> QED BY <2>5, <2>6, JobsOnly
<1>2. ASSUME NEW q \in Collects, Collect(q) PROVE StoreInv'
  <2>1. PICK l \in Leases : l = q.lease
    BY Shapes DEF CollectShape
  <2>2. /\ db' = db /\ files' = files /\ damaged' = damaged /\ pins' = pins /\ boot' = boot
        /\ op' = [kind |-> "collect", pc |-> IF l \in dirs THEN "sweep" ELSE "finish", lease |-> l, call |-> q]
        /\ db.leases[l] # None /\ db.leases[l].state = "released" /\ db.gc[l] # None /\ \A p \in pins : p[2] # l
    BY <1>2, <2>1 DEF Collect, Scope, Authorized, Lease, Unpinned, disk, mem, env
  <2>3. op' \in CollectOps /\ op'.lease = l
    BY <2>2 DEF CollectOps
  <2>4. OpInv(op', db, pins)
    BY <2>2, <2>3 DEF OpInv
  <2> QED BY <1>0, <2>2, <2>4, OutsideDatabase
<1>3. ASSUME At("collect", "sweep") \/ At("collect", "finish")
      PROVE  /\ op \in CollectOps /\ op.lease \in Leases /\ db.leases[op.lease] # None
             /\ db.leases[op.lease].state = "released" /\ db.gc[op.lease] # None /\ \A p \in pins : p[2] # op.lease
  <2>1. op # None /\ op.kind = "collect"
    BY <1>3 DEF At
  <2> QED BY <1>0, <2>1 DEF OpInv, PutOps, CollectOps, RepairOps, ReplaceOps, CancelOps
<1>4. CASE Sweep
  <2>1. PICK l \in Leases : /\ l = op.lease /\ db.leases[l] # None /\ db.leases[l].state = "released"
                            /\ \A p \in pins : p[2] # l
    BY <1>3, <1>4 DEF Sweep
  <2>2. PICK o \in Index[l] : files' = [files EXCEPT ![l][o] = None]
    BY <1>4, <2>1 DEF Sweep, Present
  <2>3. db' = db /\ damaged' = damaged /\ pins' = pins /\ boot' = boot /\ op' = op
    BY <1>4 DEF Sweep, mem, env
  <2>4. None \in FileStates /\ FileSet(files, files', l, o, None) /\ Allowed(db, l, o, None, damaged, damaged', pins)
    BY <2>1, <2>2, <2>3 DEF FileStates, FileSet, Allowed
  <2>5. FileType(files') /\ Kept(db, files', damaged', pins)
    BY <1>0, <2>4, FileKept
  <2> QED BY <1>0, <2>3, <2>5, OutsideDatabase
<1>5. CASE SweepDirectory
  <2>1. /\ db' = db /\ files' = files /\ damaged' = damaged /\ pins' = pins /\ boot' = boot
        /\ op' = [op EXCEPT !.pc = "finish"] /\ At("collect", "sweep")
    BY <1>5 DEF SweepDirectory, mem, env
  <2>2. op' \in CollectOps /\ op'.lease = op.lease
    BY <1>3, <2>1 DEF CollectOps
  <2>3. OpInv(op', db, pins)
    BY <1>3, <2>1, <2>2 DEF OpInv
  <2> QED BY <1>0, <2>1, <2>3, OutsideDatabase
<1>6. CASE CollectFinish
  <2>1. PICK l \in Leases : /\ l = op.lease /\ db.leases[l] # None /\ db.leases[l].state = "released"
                            /\ db.gc[l] # None /\ \A p \in pins : p[2] # l
    BY <1>3, <1>6 DEF CollectFinish
  <2>2. PICK job : job = [db.gc[l] EXCEPT !.phase = "done", !.credit = Cardinality(Index[l])]
    OBVIOUS
  <2>3. db.gc[l] \in GcJobs
    BY <1>0, <2>1 DEF DbType
  <2>4. job \in GcJobs
    BY <2>2, <2>3 DEF GcJobs
  <2>5. PICK e : StoredSet(db, e, l, {})
    BY DEF StoredSet
  <2>6. PICK d : JobSet(e, d, l, job)
    BY DEF JobSet
  <2>7. /\ op' = None /\ files' = files /\ damaged' = damaged /\ pins' = pins /\ boot' = boot
        /\ Transaction([db EXCEPT !.stored[l] = {},
                             !.gc[l] = [@ EXCEPT !.phase = "done", !.credit = Cardinality(Index[l])]])
    BY <1>6, <2>1 DEF CollectFinish, disk, env
  <2>8. /\ DbType(e) /\ e.stored[l] = {} /\ \A m \in Leases : m # l => e.stored[m] = db.stored[m]
        /\ e.leases = db.leases /\ e.ops = db.ops /\ e.gc = db.gc
    BY <1>0, <2>5, StoredWritten, SMTT(60)
  <2>9. DbType(d) /\ d.leases = e.leases /\ d.ops = e.ops /\ d.stored = e.stored
    BY <2>4, <2>6, <2>8, JobWritten, SMTT(60)
  <2>10. Transaction(d)
    BY <2>2, <2>5, <2>6, <2>7, <2>8 DEF StoredSet, JobSet
  <2>11. d.stored[l] = {} /\ \A m \in Leases : m # l => d.stored[m] = db.stored[m]
    BY <2>8, <2>9
  <2>12. RowsSound(d)
    BY <1>0, <2>1, <2>8, <2>9, <2>11, SMTT(60) DEF RowsSound
  <2>13. Kept(d, files, damaged, pins)
    <3> SUFFICES ASSUME NEW m \in Leases, d.leases[m] # None
                 PROVE  /\ d.leases[m].state = "sealed" => d.stored[m] = Index[m]
                        /\ d.leases[m].state # "released" \/ (\E p \in pins : p[2] = m) =>
                              \A o \in d.stored[m] : <<m, o>> \in damaged \/ files[m][o] \in Readable
      BY DEF Kept
    <3>1. CASE m = l
      BY <2>1, <2>8, <2>9, <3>1
    <3>2. CASE m # l
      BY <1>0, <2>8, <2>9, <2>11, <3>2, SMTT(60) DEF Kept
    <3> QED BY <3>1, <3>2
  <2>14. Answers(d) = Answers(db)
    BY <2>8, <2>9 DEF Answers
  <2>15. ReceiptInv(d, boot)
    BY <1>0, <2>8, <2>9, <2>14, SameReceipts
  <2>16. StoreOk(d, files', damaged', pins', op', boot')
    BY <1>0, <2>7, <2>9, <2>12, <2>13, <2>15 DEF StoreOk, OpInv
  <2>17. StoreOk(db, files', damaged', pins', op', boot')
    BY <1>0, <2>7 DEF StoreOk, OpInv
  <2> QED BY <2>10, <2>16, <2>17, Transacted
<1> QED BY <1>1, <1>2, <1>4, <1>5, <1>6

-----------------------------------------------------------------------------
(* keeper-repair *)

\* What an operation of the repair extension knows.
LEMMA RepairOp ==
    ASSUME OpInv(op, db, pins), op # None, op.kind = "repair"
    PROVE  /\ op \in RepairOps \/ op \in ReplaceOps
           /\ op.lease \in Leases /\ op.call \in Repairs /\ op.lease = op.call.lease
           /\ db.leases[op.lease] # None /\ db.repair[op.call] # None /\ op.todo \subseteq Index[op.lease]
           /\ op.pc \in {"object", "finish"} => op \in RepairOps
           /\ op.pc \in {"sync", "replace"} => op \in ReplaceOps /\ op.oid \in Index[op.lease]
BY DEF OpInv, PutOps, CollectOps, RepairOps, ReplaceOps, CancelOps

\* The marks of a repair and of its cancellation.
LEMMA RepairMarkSound ==
    ASSUME StoreInv, (\E r \in Repairs : MarkRepair(r)) \/ (\E x \in Cancels : CancelMark(x)) \/ CancelFinish
    PROVE  StoreInv'
<1>0. DbType(db) /\ OpInv(op, db, pins)
  BY DEF StoreInv, StoreOk
<1>1. ASSUME NEW r \in Repairs, NEW job \in RepairJobs, op' = None, files' = files, damaged' = damaged, pins' = pins,
             boot' = boot, Transaction([db EXCEPT !.repair[r] = job])
      PROVE  StoreInv'
  <2>1. PICK d : RepairSet(db, d, r, job)
    BY DEF RepairSet
  <2>2. Transaction(d)
    BY <1>1, <2>1 DEF RepairSet
  <2>3. DbType(d) /\ d.leases = db.leases /\ d.ops = db.ops /\ d.stored = db.stored
    BY <1>0, <2>1, RepairWritten
  <2> QED BY <1>1, <2>2, <2>3, JobsOnly
<1>2. ASSUME NEW r \in Repairs, MarkRepair(r) PROVE StoreInv'
  <2>1. PICK job \in RepairJobs : job = [phase |-> "prepared", cancel |-> None]
    BY DEF RepairJobs
  <2>2. /\ op' = None /\ files' = files /\ damaged' = damaged /\ pins' = pins /\ boot' = boot
        /\ Transaction([db EXCEPT !.repair[r] = job])
    BY <1>2, <2>1 DEF MarkRepair, Enter, disk, env
  <2> QED BY <1>1, <2>2
<1>3. ASSUME NEW x \in Cancels, CancelMark(x) PROVE StoreInv'
  <2>1. PICK job \in RepairJobs : job = [phase |-> "aborting", cancel |-> x]
    BY DEF RepairJobs
  <2>2. PICK r \in Repairs : r = x.repair
    BY Shapes DEF CancelShape
  <2>3. /\ op' = None /\ files' = files /\ damaged' = damaged /\ pins' = pins /\ boot' = boot
        /\ Transaction([db EXCEPT !.repair[r] = job])
    BY <1>3, <2>1, <2>2 DEF CancelMark, Enter, disk, env
  <2> QED BY <1>1, <2>3
<1>4. CASE CancelFinish
  <2>1. op # None /\ op.kind = "cancel"
    BY <1>4 DEF CancelFinish, At
  <2>2. op \in CancelOps /\ db.repair[op.call.repair] # None
    BY <1>0, <2>1 DEF OpInv, PutOps, CollectOps, RepairOps, ReplaceOps, CancelOps
  <2>3. PICK r \in Repairs : r = op.call.repair
    BY <2>2, Shapes DEF CancelShape, CancelOps
  <2>4. PICK job : job = [db.repair[r] EXCEPT !.phase = "aborted"]
    OBVIOUS
  <2>5. job \in RepairJobs
    <3>1. db.repair[r] \in RepairJobs
      BY <1>0, <2>2, <2>3 DEF DbType
    <3> QED BY <2>4, <3>1 DEF RepairJobs
  <2>6. /\ op' = None /\ files' = files /\ damaged' = damaged /\ pins' = pins /\ boot' = boot
        /\ Transaction([db EXCEPT !.repair[r].phase = "aborted"])
    BY <1>4, <2>3 DEF CancelFinish, disk, env
  <2>7. Transaction([db EXCEPT !.repair[r] = job])
    BY <2>4, <2>6
  <2> QED BY <1>1, <2>5, <2>6, <2>7
<1> QED BY <1>2, <1>3, <1>4

\* The steps between the marks: only a replacement touches an object's file, and makes
\* it whole.
LEMMA RepairStepSound ==
    ASSUME StoreInv, \/ \E r \in Repairs : Repair(r) \/ \E o \in r.targets : RepairObject(o)
                     \/ StageSync \/ Replace \/ CleanStage \/ \E x \in Cancels : Cancel(x)
    PROVE  StoreInv'
<1>0. /\ DbType(db) /\ RowsSound(db) /\ FileType(files) /\ Kept(db, files, damaged, pins)
      /\ ReceiptInv(db, boot) /\ OpInv(op, db, pins) /\ boot \in Nat
  BY DEF StoreInv, StoreOk
<1>1. ASSUME db' = db, files' = files, damaged' = damaged, pins' = pins, boot' = boot, OpInv(op', db, pins)
      PROVE  StoreInv'
  BY <1>0, <1>1, OutsideDatabase
<1>2. ASSUME NEW r \in Repairs, Repair(r) PROVE StoreInv'
  <2>1. r.lease \in Leases /\ r.targets \in SUBSET Objects /\ r.targets \subseteq Index[r.lease]
    BY Shapes DEF RepairShape, Objects
  <2>2. /\ db' = db /\ files' = files /\ damaged' = damaged /\ pins' = pins /\ boot' = boot
        /\ op' = [kind |-> "repair", pc |-> "object", lease |-> r.lease, call |-> r, todo |-> r.targets]
        /\ db.leases[r.lease] # None /\ db.repair[r] # None
    BY <1>2 DEF Repair, RepairScope, Authorized, Lease, disk, mem, env
  <2>3. op' \in RepairOps /\ op'.lease = r.lease /\ op'.call = r /\ op'.todo = r.targets
    BY <2>1, <2>2 DEF RepairOps
  <2>4. OpInv(op', db, pins)
    BY <2>1, <2>2, <2>3 DEF OpInv
  <2> QED BY <1>1, <2>2, <2>4
<1>3. ASSUME NEW r \in Repairs, NEW o \in r.targets, RepairObject(o) PROVE StoreInv'
  <2>1. /\ db' = db /\ files' = files /\ damaged' = damaged /\ pins' = pins /\ boot' = boot
        /\ op # None /\ op.kind = "repair" /\ op.pc = "object" /\ o \in op.todo
    BY <1>3 DEF RepairObject, At, mem, env
  <2>2. /\ op \in RepairOps /\ op.lease \in Leases /\ op.call \in Repairs /\ op.lease = op.call.lease
        /\ db.leases[op.lease] # None /\ db.repair[op.call] # None /\ op.todo \subseteq Index[op.lease]
    BY <1>0, <2>1, RepairOp
  <2>3. CASE op' = [op EXCEPT !.todo = @ \ {o}]
    <3>1. op' \in RepairOps /\ op'.lease = op.lease /\ op'.call = op.call /\ op'.todo = op.todo \ {o}
      BY <2>2, <2>3 DEF RepairOps
    <3>2. OpInv(op', db, pins)
      BY <2>2, <3>1 DEF OpInv
    <3> QED BY <1>1, <2>1, <3>2
  <2>4. CASE op' = [kind |-> "repair", pc |-> "sync", lease |-> op.lease, call |-> op.call, todo |-> op.todo, oid |-> o,
                    before |-> files[op.lease][o]]
    <3>1. o \in Index[op.lease] /\ op.todo \in SUBSET Objects /\ o \in Objects /\ files[op.lease][o] \in FileStates
      <4>1. o \in Index[op.lease] /\ op.todo \in SUBSET Objects
        BY <2>1, <2>2 DEF RepairOps
      <4> QED BY <1>0, <2>1, <2>2, <4>1 DEF FileType
    <3>2. op' \in ReplaceOps /\ op'.lease = op.lease /\ op'.call = op.call /\ op'.oid = o /\ op'.todo = op.todo
      BY <2>2, <2>4, <3>1 DEF ReplaceOps
    <3>3. OpInv(op', db, pins)
      BY <2>2, <3>1, <3>2 DEF OpInv
    <3> QED BY <1>1, <2>1, <3>3
  <2> QED BY <1>3, <2>3, <2>4 DEF RepairObject
<1>4. CASE StageSync
  <2>1. /\ db' = db /\ files' = files /\ damaged' = damaged /\ pins' = pins /\ boot' = boot
        /\ op # None /\ op.kind = "repair" /\ op.pc = "sync" /\ op' = [op EXCEPT !.pc = "replace"]
    BY <1>4 DEF StageSync, At, mem, env
  <2>2. /\ op \in ReplaceOps /\ op.lease = op.call.lease /\ db.leases[op.lease] # None /\ db.repair[op.call] # None
        /\ op.oid \in Index[op.lease] /\ op.todo \subseteq Index[op.lease]
    BY <1>0, <2>1, RepairOp
  <2>3. /\ op' \in ReplaceOps /\ op'.lease = op.lease /\ op'.call = op.call /\ op'.oid = op.oid /\ op'.todo = op.todo
    BY <2>1, <2>2 DEF ReplaceOps
  <2>4. OpInv(op', db, pins)
    BY <2>2, <2>3 DEF OpInv
  <2> QED BY <1>1, <2>1, <2>4
<1>5. CASE Replace
  <2>1. /\ db' = db /\ files' = [files EXCEPT ![op.lease][op.oid] = "valid"] /\ damaged' = damaged /\ pins' = pins
        /\ boot' = boot /\ op # None /\ op.kind = "repair" /\ op.pc = "replace"
        /\ op' = [kind |-> "repair", pc |-> "object", lease |-> op.lease, call |-> op.call, todo |-> op.todo \ {op.oid}]
    BY <1>5 DEF Replace, At, mem, env
  <2>2. /\ op \in ReplaceOps /\ op.lease = op.call.lease /\ db.leases[op.lease] # None /\ db.repair[op.call] # None
        /\ op.oid \in Index[op.lease] /\ op.todo \subseteq Index[op.lease]
    BY <1>0, <2>1, RepairOp
  <2>3. op' \in RepairOps /\ op'.lease = op.lease /\ op'.call = op.call /\ op'.todo = op.todo \ {op.oid}
    BY <2>1, <2>2 DEF ReplaceOps, RepairOps
  <2>4. OpInv(op', db, pins)
    BY <2>2, <2>3 DEF OpInv
  <2>5. PICK l \in Leases : l = op.lease
    BY <2>2 DEF ReplaceOps
  <2>6. PICK o \in Index[l] : o = op.oid
    BY <2>2, <2>5
  <2>7. /\ "valid" \in FileStates /\ FileSet(files, files', l, o, "valid")
        /\ Allowed(db, l, o, "valid", damaged, damaged', pins)
    BY <2>1, <2>5, <2>6 DEF FileStates, FileSet, Allowed, Readable
  <2>8. FileType(files') /\ Kept(db, files', damaged', pins)
    BY <1>0, <2>7, FileKept
  <2> QED BY <2>1, <2>4, <2>8, OutsideDatabase
<1>6. CASE CleanStage
  <2>1. /\ db' = db /\ files' = files /\ damaged' = damaged /\ pins' = pins /\ boot' = boot
        /\ op # None /\ (op' = op \/ op' = [op EXCEPT !.pc = "finish"])
        /\ (op.kind = "repair" /\ op.pc = "object") \/ op.kind = "cancel"
    BY <1>6 DEF CleanStage, mem, env
  <2>2. CASE op.kind = "repair" /\ op.pc = "object" /\ op' = [op EXCEPT !.pc = "finish"]
    <3>1. /\ op \in RepairOps /\ op.lease = op.call.lease /\ db.leases[op.lease] # None /\ db.repair[op.call] # None
          /\ op.todo \subseteq Index[op.lease]
      BY <1>0, <2>1, <2>2, RepairOp
    <3>2. op' \in RepairOps /\ op'.lease = op.lease /\ op'.call = op.call /\ op'.todo = op.todo
      BY <2>2, <3>1 DEF RepairOps
    <3>3. OpInv(op', db, pins)
      BY <3>1, <3>2 DEF OpInv
    <3> QED BY <1>1, <2>1, <3>3
  <2>3. CASE op.kind = "cancel" /\ op' = [op EXCEPT !.pc = "finish"]
    <3>1. op \in CancelOps /\ db.repair[op.call.repair] # None
      BY <1>0, <2>1, <2>3 DEF OpInv, PutOps, CollectOps, RepairOps, ReplaceOps, CancelOps
    <3>2. op' \in CancelOps /\ op'.call = op.call
      BY <2>3, <3>1 DEF CancelOps
    <3>3. OpInv(op', db, pins)
      BY <3>1, <3>2 DEF OpInv
    <3> QED BY <1>1, <2>1, <3>3
  <2>4. CASE op' = op
    BY <1>0, <1>1, <2>1, <2>4
  <2> QED BY <2>1, <2>2, <2>3, <2>4
<1>7. ASSUME NEW x \in Cancels, Cancel(x) PROVE StoreInv'
  <2>1. /\ db' = db /\ files' = files /\ damaged' = damaged /\ pins' = pins /\ boot' = boot
        /\ db.repair[x.repair] # None
        /\ op' = [kind |-> "cancel", pc |-> "clean", lease |-> x.repair.lease, call |-> x]
    BY <1>7 DEF Cancel, CancelScope, disk, mem, env
  <2>2. x.repair \in Repairs /\ x.repair.lease \in Leases
    BY Shapes DEF CancelShape, RepairShape
  <2>3. op' \in CancelOps /\ op'.call = x
    BY <2>1, <2>2 DEF CancelOps
  <2>4. OpInv(op', db, pins)
    BY <2>1, <2>3 DEF OpInv
  <2> QED BY <1>1, <2>1, <2>4
<1> QED BY <1>2, <1>3, <1>4, <1>5, <1>6, <1>7

\* The end of a repair: its targets are whole, so what was known to be taken is back.
LEMMA RepairFinishSound == ASSUME StoreInv, RepairFinish PROVE StoreInv'
<1>0. /\ DbType(db) /\ RowsSound(db) /\ FileType(files) /\ Kept(db, files, damaged, pins)
      /\ ReceiptInv(db, boot) /\ OpInv(op, db, pins) /\ boot \in Nat
  BY DEF StoreInv, StoreOk
<1>1. op # None /\ op.kind = "repair" /\ op.pc = "finish"
  BY DEF RepairFinish, At
<1>2. PICK l \in Leases : l = op.lease /\ db.leases[l] # None
  BY <1>0, <1>1, RepairOp
<1>3. PICK r \in Repairs : r = op.call /\ l = r.lease /\ db.repair[r] # None
  BY <1>0, <1>1, <1>2, RepairOp
<1>4. PICK objs \in SUBSET Index[l] : objs = r.targets
  BY <1>3, Shapes DEF RepairShape
<1>5. /\ op' = None /\ files' = files /\ pins' = pins /\ boot' = boot
      /\ damaged' = damaged \ {<<l, o>> : o \in objs} /\ \A o \in objs : files[l][o] = "valid"
      /\ Transaction([db EXCEPT !.stored[l] = @ \cup objs, !.repair[r].phase = "done"])
  BY <1>2, <1>3, <1>4 DEF RepairFinish, disk
<1>6. \A o \in objs : <<l, o>> \in damaged' \/ files[l][o] \in Readable
  BY <1>5 DEF Readable
<1>7. Kept(db, files, damaged', pins)
  <2> SUFFICES ASSUME NEW m \in Leases, db.leases[m] # None
               PROVE  /\ db.leases[m].state = "sealed" => db.stored[m] = Index[m]
                      /\ db.leases[m].state # "released" \/ (\E p \in pins : p[2] = m) =>
                            \A o \in db.stored[m] : <<m, o>> \in damaged' \/ files[m][o] \in Readable
    BY DEF Kept
  <2>1. ASSUME NEW o, <<m, o>> \in damaged PROVE <<m, o>> \in damaged' \/ files[m][o] \in Readable
    <3>1. CASE m = l /\ o \in objs
      BY <1>6, <3>1
    <3>2. CASE ~(m = l /\ o \in objs)
      BY <1>5, <2>1, <3>2
    <3> QED BY <3>1, <3>2
  <2> QED BY <1>0, <2>1 DEF Kept
<1>a. db.stored[l] \subseteq Objects /\ Index[l] \subseteq Objects
  BY <1>0 DEF DbType, Objects
<1>8. PICK all : all = db.stored[l] \cup objs /\ all \subseteq Objects
  BY <1>a
<1>9. PICK job : job = [db.repair[r] EXCEPT !.phase = "done"]
  OBVIOUS
<1>10. job \in RepairJobs
  <2>1. db.repair[r] \in RepairJobs
    BY <1>0, <1>3 DEF DbType
  <2> QED BY <1>9, <2>1 DEF RepairJobs
<1>11. PICK e : StoredSet(db, e, l, all)
  BY DEF StoredSet
<1>12. PICK d : RepairSet(e, d, r, job)
  BY DEF RepairSet
<1>13. /\ DbType(e) /\ e.stored[l] = all /\ \A m \in Leases : m # l => e.stored[m] = db.stored[m]
       /\ e.leases = db.leases /\ e.ops = db.ops /\ e.repair = db.repair
  BY <1>0, <1>8, <1>11, StoredWritten, SMTT(60)
<1>14. DbType(d) /\ d.leases = e.leases /\ d.ops = e.ops /\ d.stored = e.stored
  BY <1>10, <1>12, <1>13, RepairWritten
<1>15. Transaction(d)
  BY <1>5, <1>8, <1>9, <1>11, <1>12, <1>13 DEF StoredSet, RepairSet
<1>16. StoreOk(d, files, damaged', pins, None, boot)
  <2>1. /\ DbType(d) /\ d.stored[l] = db.stored[l] \cup objs /\ d.leases = db.leases /\ d.ops = db.ops
        /\ \A m \in Leases : m # l => d.stored[m] = db.stored[m]
    BY <1>8, <1>13, <1>14
  <2> QED BY <1>0, <1>2, <1>6, <1>7, <2>1, ObjectsRecorded
<1>17. StoreOk(d, files', damaged', pins', op', boot')
  BY <1>5, <1>16
<1>18. StoreOk(db, files', damaged', pins', op', boot')
  BY <1>0, <1>5, <1>7 DEF StoreOk, OpInv
<1> QED BY <1>15, <1>17, <1>18, Transacted

-----------------------------------------------------------------------------
(* Errors, damage, and every step of the store *)

\* An exception leaves what put_file wrote; damage is remembered.
LEMMA FaultSound ==
    ASSUME StoreInv, Fail \/ \E l \in Leases : \E o \in Index[l] : Damage(l, o)
    PROVE  StoreInv'
<1>0. /\ DbType(db) /\ RowsSound(db) /\ FileType(files) /\ Kept(db, files, damaged, pins)
      /\ ReceiptInv(db, boot) /\ OpInv(op, db, pins) /\ boot \in Nat
  BY DEF StoreInv, StoreOk
<1>1. CASE Fail
  <2>1. /\ op # None /\ op' = None /\ db' = db /\ damaged' = damaged /\ pins' = pins /\ boot' = boot
        /\ \/ files' = files
           \/ op.kind = "put" /\ files' = [files EXCEPT ![op.lease][op.oid] = IF @ = "linked" THEN "valid" ELSE @]
    <3>1. CASE HasPart
      BY <1>1, <3>1 DEF Fail, HasPart, mem, env
    <3>2. CASE ~HasPart
      BY <1>1, <3>2 DEF Fail, mem, env
    <3> QED BY <3>1, <3>2
  <2>2. OpInv(op', db, pins)
    BY <2>1 DEF OpInv
  <2>3. CASE files' = files
    BY <1>0, <2>1, <2>2, <2>3, OutsideDatabase
  <2>4. CASE op.kind = "put" /\ files' = [files EXCEPT ![op.lease][op.oid] = IF @ = "linked" THEN "valid" ELSE @]
    <3>1. op.lease \in Leases /\ op.oid \in Index[op.lease]
      BY <1>0, <2>1, <2>4 DEF OpInv, PutOps, CollectOps, RepairOps, ReplaceOps, CancelOps
    <3>2. PICK l \in Leases : l = op.lease
      BY <3>1
    <3>3. PICK o \in Index[l] : o = op.oid
      BY <3>1, <3>2
    <3>4. FileType(files') /\ Kept(db, files', damaged, pins)
      BY <1>0, <2>4, <3>2, <3>3, LinkDropped
    <3> QED BY <2>1, <2>2, <3>4, OutsideDatabase
  <2> QED BY <2>1, <2>3, <2>4
<1>2. ASSUME NEW l \in Leases, NEW o \in Index[l], Damage(l, o) PROVE StoreInv'
  <2>1. db' = db /\ op' = op /\ pins' = pins /\ boot' = boot /\ damaged' = damaged \cup {<<l, o>>}
    BY <1>2 DEF Damage, mem
  <2>2. PICK s \in {None, "corrupt"} : files' = [files EXCEPT ![l][o] = s]
    BY <1>2 DEF Damage
  <2>3. s \in FileStates /\ FileSet(files, files', l, o, s) /\ Allowed(db, l, o, s, damaged, damaged', pins)
    BY <2>1, <2>2 DEF FileStates, FileSet, Allowed
  <2>4. FileType(files') /\ Kept(db, files', damaged', pins)
    BY <1>0, <2>3, FileKept
  <2> QED BY <1>0, <2>1, <2>4, OutsideDatabase
<1> QED BY <1>1, <1>2

\* Every step of an operation.
LEMMA OperateSound == ASSUME StoreInv, Operate PROVE StoreInv'
<1>1. ASSUME NEW l \in Leases, Reserve(l) \/ Observe(l) PROVE StoreInv'
  BY <1>1, ReserveSound, SurroundingsSound
<1>2. ASSUME NEW l \in Leases, NEW o \in Index[l], Put(l, o) \/ Damage(l, o) PROVE StoreInv'
  BY <1>2, PutSound, FaultSound
<1>3. CASE PutLink \/ PutUnlink \/ PutRecord
  BY <1>3, PutSound
<1>4. ASSUME NEW c \in Calls, (c.action # "release" /\ Complete(c)) \/ (c.action = "release" /\ Release(c)) PROVE StoreInv'
  BY <1>4, CompleteSound, ReleaseSound
<1>5. ASSUME NEW a \in Authorities, UpdateAuthority(a) PROVE StoreInv'
  BY <1>5, SurroundingsSound
<1>6. CASE Sweep \/ SweepDirectory \/ CollectFinish \/ \E q \in Collects : Mark(q) \/ Collect(q)
  BY <1>6, CollectSound
<1>7. ASSUME NEW r \in Repairs, MarkRepair(r) \/ Repair(r) \/ (\E o \in r.targets : RepairObject(o)) PROVE StoreInv'
  BY <1>7, RepairMarkSound, RepairStepSound
<1>8. CASE StageSync \/ Replace \/ CleanStage
  BY <1>8, RepairStepSound
<1>9. CASE RepairFinish
  BY <1>9, RepairFinishSound
<1>10. ASSUME NEW x \in Cancels, CancelMark(x) \/ Cancel(x) PROVE StoreInv'
  BY <1>10, RepairMarkSound, RepairStepSound
<1>11. CASE CancelFinish \/ Fail
  BY <1>11, RepairMarkSound, FaultSound
<1> QED BY <1>1, <1>2, <1>3, <1>4, <1>5, <1>6, <1>7, <1>8, <1>9, <1>10, <1>11 DEF Operate

\* No operation opens or closes a reader.
LEMMA OperatePins == ASSUME Operate PROVE pins' = pins
<1>1. ASSUME NEW l \in Leases, Reserve(l) \/ Observe(l) PROVE pins' = pins
  BY <1>1 DEF Reserve, Observe
<1>2. ASSUME NEW l \in Leases, NEW o \in Index[l], Put(l, o) \/ Damage(l, o) PROVE pins' = pins
  BY <1>2 DEF Put, Damage, mem
<1>3. CASE PutLink \/ PutUnlink \/ PutRecord
  BY <1>3 DEF PutLink, PutUnlink, PutRecord, mem
<1>4. ASSUME NEW c \in Calls, Complete(c) \/ Release(c) PROVE pins' = pins
  BY <1>4 DEF Complete, Release
<1>5. ASSUME NEW a \in Authorities, UpdateAuthority(a) PROVE pins' = pins
  BY <1>5 DEF UpdateAuthority
<1>6. ASSUME NEW q \in Collects, Mark(q) \/ Collect(q) PROVE pins' = pins
  BY <1>6 DEF Mark, Collect, mem
<1>7. CASE Sweep \/ SweepDirectory \/ CollectFinish
  BY <1>7 DEF Sweep, SweepDirectory, CollectFinish, mem
<1>8. ASSUME NEW r \in Repairs, MarkRepair(r) \/ Repair(r) \/ (\E o \in r.targets : RepairObject(o)) PROVE pins' = pins
  BY <1>8 DEF MarkRepair, Repair, RepairObject, mem
<1>9. CASE StageSync \/ Replace \/ CleanStage \/ RepairFinish
  BY <1>9 DEF StageSync, Replace, CleanStage, RepairFinish, mem
<1>10. ASSUME NEW x \in Cancels, CancelMark(x) \/ Cancel(x) PROVE pins' = pins
  BY <1>10 DEF CancelMark, Cancel, mem
<1>11. CASE CancelFinish \/ Fail
  BY <1>11 DEF CancelFinish, Fail, mem
<1> QED BY <1>1, <1>2, <1>3, <1>4, <1>5, <1>6, <1>7, <1>8, <1>9, <1>10, <1>11 DEF Operate

\* The next process opens the store as the last one left it, without its readers.
LEMMA ConstructSound == ASSUME StoreInv, Construct, op' = None PROVE StoreInv'
<1>0. /\ DbType(db) /\ RowsSound(db) /\ FileType(files) /\ Kept(db, files, damaged, pins)
      /\ ReceiptInv(db, boot) /\ boot \in Nat
  BY DEF StoreInv, StoreOk
<1>1. db' = db /\ files' = files /\ damaged' = damaged /\ pins' = {} /\ boot' \in {boot, boot + 1}
  BY DEF Construct, Audited
<1>2. boot' \in Nat /\ boot <= boot'
  BY <1>0, <1>1, SMTT(60)
<1>3. Booted(db, boot')
  <2> SUFFICES ASSUME NEW l \in Leases, db.leases[l] # None, db.leases[l].receipt # None
               PROVE  db.leases[l].receipt.boot <= boot'
    BY DEF Booted
  <2>1. db.leases[l] \in Rows
    BY <1>0 DEF DbType
  <2>2. db.leases[l].receipt \in Receipts
    BY <2>1 DEF Rows
  <2>3. db.leases[l].receipt.boot \in Nat
    BY <2>2 DEF Receipts
  <2>4. db.leases[l].receipt.boot <= boot
    BY <1>0 DEF ReceiptInv, Booted
  <2> QED BY <1>0, <1>2, <2>3, <2>4, SMTT(60)
<1>4. ReceiptInv(db, boot')
  BY <1>0, <1>3 DEF ReceiptInv
<1>5. Kept(db, files, damaged, {})
  BY <1>0 DEF Kept
<1>6. OpInv(None, db, {})
  BY DEF OpInv
<1> QED BY <1>0, <1>1, <1>2, <1>4, <1>5, <1>6 DEF StoreInv, StoreOk

-----------------------------------------------------------------------------
(* The read service *)

\* Readers come to leases that are served, and go.
LEMMA PinsChanged ==
    ASSUME StoreInv, db' = db, files' = files, damaged' = damaged, boot' = boot, op = None, op' = None,
           \A p \in pins' : p \in pins \/ db.leases[p[2]].state # "released"
    PROVE  StoreInv'
<1>0. Kept(db, files, damaged, pins)
  BY DEF StoreInv, StoreOk
<1>1. Kept(db, files, damaged, pins')
  <2> SUFFICES ASSUME NEW l \in Leases, db.leases[l] # None
               PROVE  /\ db.leases[l].state = "sealed" => db.stored[l] = Index[l]
                      /\ db.leases[l].state # "released" \/ (\E p \in pins' : p[2] = l) =>
                            \A o \in db.stored[l] : <<l, o>> \in damaged \/ files[l][o] \in Readable
    BY DEF Kept
  <2>1. ASSUME NEW p \in pins', p[2] = l PROVE db.leases[l].state # "released" \/ \E q \in pins : q[2] = l
    BY <2>1
  <2> QED BY <1>0, <2>1 DEF Kept
<1>2. OpInv(op', db, pins')
  BY DEF OpInv
<1> QED BY <1>1, <1>2 DEF StoreInv, StoreOk

\* A connection that holds a pin, and one socket's connection becoming v.
Holds(v) == v # None /\ v.guard # None /\ v.request.oid # None
ConnSet(k, v) == conns' = [conns EXCEPT ![k] = v]

\* PinsOwned, element by element.
PinsHeld == \A p : p \in pins <=> \E c \in Conns : Holds(conns[c]) /\ p = <<c, conns[c].request.lease>>
LEMMA Owned == PinsOwned <=> PinsHeld
<1>1. {<<c, conns[c].request.lease>> : c \in {x \in Live : conns[x].guard # None /\ conns[x].request.oid # None}}
        = {<<c, conns[c].request.lease>> : c \in {x \in Conns : Holds(conns[x])}}
  BY DEF Live, Holds
<1> QED BY <1>1 DEF PinsOwned, PinsHeld

\* The pins follow the connection of one socket.
LEMMA PinsFollow ==
    ASSUME PinsOwned, ConnInv, NEW c \in Conns, NEW v, ConnSet(c, v),
           \A p : p \in pins' <=> (p \in pins /\ p[1] # c) \/ (Holds(v) /\ p = <<c, v.request.lease>>)
    PROVE  PinsOwned'
<1>1. conns'[c] = v /\ \A d \in Conns : d # c => conns'[d] = conns[d]
  BY DEF ConnSet, ConnInv
<1>2. \A p : p \in pins <=> \E d \in Conns : Holds(conns[d]) /\ p = <<d, conns[d].request.lease>>
  BY Owned DEF PinsHeld
<1>3. \A p : p \in pins' <=> \E d \in Conns : Holds(conns'[d]) /\ p = <<d, conns'[d].request.lease>>
  <2> TAKE p
  <2>1. ASSUME p \in pins' PROVE \E d \in Conns : Holds(conns'[d]) /\ p = <<d, conns'[d].request.lease>>
    <3>1. CASE Holds(v) /\ p = <<c, v.request.lease>>
      BY <1>1, <3>1
    <3>2. CASE p \in pins /\ p[1] # c
      <4>1. PICK d \in Conns : Holds(conns[d]) /\ p = <<d, conns[d].request.lease>>
        BY <1>2, <3>2
      <4>2. conns'[d] = conns[d]
        BY <1>1, <3>2, <4>1
      <4> QED BY <4>1, <4>2
    <3> QED BY <2>1, <3>1, <3>2
  <2>2. ASSUME NEW d \in Conns, Holds(conns'[d]), p = <<d, conns'[d].request.lease>> PROVE p \in pins'
    <3>1. CASE d = c
      BY <1>1, <2>2, <3>1
    <3>2. CASE d # c
      <4>1. Holds(conns[d]) /\ p = <<d, conns[d].request.lease>>
        BY <1>1, <2>2, <3>2
      <4>2. p \in pins /\ p[1] # c
        BY <1>2, <3>2, <4>1
      <4> QED BY <4>2
    <3> QED BY <3>1, <3>2
  <2> QED BY <2>1, <2>2
<1>4. PinsHeld'
  BY <1>3 DEF PinsHeld, Holds
<1> QED BY <1>4, Owned, PTL

\* A connection that holds no pin has none.
LEMMA NotPinned ==
    ASSUME PinsOwned, NEW c \in Conns, ~Holds(conns[c])
    PROVE  \A p \in pins : p[1] # c
<1>1. PinsHeld
  BY Owned
<1>2. \A p \in pins : \E d \in Conns : Holds(conns[d]) /\ p = <<d, conns[d].request.lease>>
  BY <1>1 DEF PinsHeld
<1> QED BY <1>2, SMTT(60)

\* A connection of the right shape, with a guard only in an answer, can take a socket.
LEMMA ConnFollow ==
    ASSUME ConnInv, NEW c \in Conns, NEW v \in Connections \cup {None}, ConnSet(c, v),
           v # None /\ v.phase # "response" => v.guard = None
    PROVE  ConnInv'
<1>1. conns'[c] = v /\ \A d \in Conns : d # c => conns'[d] = conns[d]
  BY DEF ConnSet, ConnInv
<1>2. conns' \in [Conns -> Connections \cup {None}]
  BY DEF ConnSet, ConnInv
<1> QED BY <1>1, <1>2 DEF ConnInv

\* A socket's connection changes and neither it nor its successor holds a pin.
LEMMA PinsStay ==
    ASSUME PinsOwned, ConnInv, NEW c \in Conns, NEW v, ConnSet(c, v), ~Holds(conns[c]), ~Holds(v), pins' = pins
    PROVE  PinsOwned'
<1>1. \A p \in pins : p[1] # c
  BY NotPinned
<1>2. \A p : p \in pins' <=> (p \in pins /\ p[1] # c) \/ (Holds(v) /\ p = <<c, v.request.lease>>)
  BY <1>1
<1> QED BY <1>2, PinsFollow

\* The guard of an answer is a stamp of the lease as it is.
LEMMA StampShape ==
    ASSUME DbType(db), NEW q \in Reads
    PROVE  Stamp(q) \in Stamps \cup {None}
<1>1. CASE ~uncertain /\ Authorized(q) /\ (q.oid # None => Serving(q.lease))
  <2>1. q.lease \in Leases
    BY ReadsShaped DEF ReadShape
  <2>2. db.leases[q.lease] \in Rows /\ db.auth \in Authorities
    BY <1>1, <2>1 DEF DbType, Authorized, Lease
  <2>3. [auth |-> db.auth, gen |-> Lease(q.lease).gen, state |-> Lease(q.lease).state] \in Stamps
    BY <2>2 DEF Rows, Stamps, Lease
  <2> QED BY <1>1, <2>3 DEF Stamp
<1>2. CASE ~(~uncertain /\ Authorized(q) /\ (q.oid # None => Serving(q.lease)))
  BY <1>2 DEF Stamp
<1> QED BY <1>1, <1>2

\* A connection is accepted, greeted, or goes on sending: its pin stays as it is.
LEMMA ConnectSound ==
    ASSUME KeeperInv, NEW c \in Conns, Accept(c) \/ SendHello(c)
    PROVE  KeeperInv'
<1>0. StoreInv /\ ConnInv /\ PinsOwned
  BY DEF KeeperInv
<1>1. vars' = vars /\ op' = op /\ pins' = pins
  BY DEF Accept, SendHello, vars, mem
<1>2. StoreInv'
  BY <1>0, <1>1 DEF StoreInv, vars, disk, mem, env
<1>3. CASE Accept(c)
  <2>1. PICK v : v = [phase |-> "hello", request |-> None, guard |-> None, sent |-> 0]
    OBVIOUS
  <2>2. v \in Connections /\ v.phase = "hello" /\ v.guard = None
    BY <2>1 DEF Connections
  <2>3. ConnSet(c, v) /\ conns[c] = None
    BY <1>3, <2>1 DEF Accept, ConnSet
  <2>4. ~Holds(conns[c]) /\ ~Holds(v)
    BY <2>2, <2>3 DEF Holds
  <2> QED BY <1>0, <1>1, <1>2, <2>2, <2>3, <2>4, ConnFollow, PinsStay DEF KeeperInv
<1>4. CASE SendHello(c)
  <2>1. conns[c] \in Connections /\ conns[c].phase = "hello"
    BY <1>0, <1>4 DEF SendHello, ConnInv
  <2>2. conns[c].guard = None
    BY <1>0, <1>4, <2>1 DEF SendHello, ConnInv
  <2>3. PICK v : v = [conns[c] EXCEPT !.phase = "request"]
    OBVIOUS
  <2>4. v \in Connections /\ v.guard = None
    BY <2>1, <2>2, <2>3 DEF Connections
  <2>5. ConnSet(c, v)
    BY <1>4, <2>3 DEF SendHello, ConnSet
  <2>6. ~Holds(conns[c]) /\ ~Holds(v)
    BY <2>2, <2>4 DEF Holds
  <2> QED BY <1>0, <1>1, <1>2, <2>4, <2>5, <2>6, ConnFollow, PinsStay DEF KeeperInv
<1> QED BY <1>3, <1>4

\* _drop: the connection and its pin go together.
LEMMA DropSound ==
    ASSUME KeeperInv, NEW c \in Conns, op = None, Drop(c)
    PROVE  KeeperInv'
<1>0. StoreInv /\ ConnInv /\ PinsOwned
  BY DEF KeeperInv
<1>1. /\ pins' = {p \in pins : p[1] # c} /\ ConnSet(c, None) /\ db' = db /\ files' = files /\ damaged' = damaged
      /\ boot' = boot /\ op' = None
  BY DEF Drop, CloseReader, ConnSet, disk, env
<1>2. StoreInv'
  BY <1>0, <1>1, PinsChanged
<1>3. ConnInv'
  BY <1>0, <1>1, ConnFollow
<1>4. \A p : p \in pins' <=> (p \in pins /\ p[1] # c) \/ (Holds(None) /\ p = <<c, None.request.lease>>)
  BY <1>1 DEF Holds
<1>5. PinsOwned'
  BY <1>0, <1>1, <1>4, PinsFollow
<1> QED BY <1>2, <1>3, <1>5 DEF KeeperInv

\* _write: one more piece under the same guard, or the end of the connection.
LEMMA WriteSound ==
    ASSUME KeeperInv, NEW c \in Conns, Write(c)
    PROVE  KeeperInv'
<1>0. StoreInv /\ ConnInv /\ PinsOwned
  BY DEF KeeperInv
<1>1. op = None /\ conns[c] # None /\ conns[c].phase = "response"
  BY DEF Write
<1>2. CASE Drop(c)
  BY <1>1, <1>2, DropSound
<1>3. CASE conns' = [conns EXCEPT ![c].sent = @ + 1] /\ UNCHANGED <<vars, endpoint>>
  <2>1. StoreInv'
    BY <1>0, <1>3 DEF StoreInv, vars, disk, mem, env
  <2>2. conns[c] \in Connections
    BY <1>0, <1>1 DEF ConnInv
  <2>3. PICK v : v = [conns[c] EXCEPT !.sent = conns[c].sent + 1]
    OBVIOUS
  <2>4. v \in Connections /\ v.phase = "response" /\ v.guard = conns[c].guard /\ v.request = conns[c].request
    <3>1. conns[c].sent + 1 \in Nat
      BY <2>2, SMTT(60) DEF Connections
    <3> QED BY <1>1, <2>2, <2>3, <3>1 DEF Connections
  <2>5. ConnSet(c, v) /\ pins' = pins
    BY <1>3, <2>3 DEF ConnSet, vars, mem
  <2>6. ConnInv'
    BY <1>0, <2>4, <2>5, ConnFollow
  <2>7. v # None
    BY <2>4, Unconnected
  <2>8. \A p : p \in pins' <=> (p \in pins /\ p[1] # c) \/ (Holds(v) /\ p = <<c, v.request.lease>>)
    <3>1. \A p : p \in pins <=> \E d \in Conns : Holds(conns[d]) /\ p = <<d, conns[d].request.lease>>
      BY <1>0, Owned DEF PinsHeld
    <3>2. Holds(v) <=> Holds(conns[c])
      BY <1>1, <2>4, <2>7 DEF Holds
    <3>3. ASSUME NEW p, p \in pins, p[1] = c PROVE Holds(v) /\ p = <<c, v.request.lease>>
      <4>1. PICK d \in Conns : Holds(conns[d]) /\ p = <<d, conns[d].request.lease>>
        BY <3>1, <3>3
      <4>2. d = c
        BY <3>3, <4>1
      <4> QED BY <2>4, <3>2, <4>1, <4>2
    <3>4. Holds(v) => <<c, v.request.lease>> \in pins
      BY <2>4, <3>1, <3>2
    <3> QED BY <2>5, <3>3, <3>4
  <2>9. PinsOwned'
    BY <1>0, <2>5, <2>8, PinsFollow
  <2> QED BY <2>1, <2>6, <2>9 DEF KeeperInv
<1> QED BY <1>2, <1>3 DEF Write

\* _dispatch: a get that is answered pins its lease under its connection, and the guard
\* it is sent under is there as long as the pin.
LEMMA DispatchSound ==
    ASSUME KeeperInv, NEW c \in Conns, NEW q \in Reads, DispatchGet(c, q) \/ DispatchStatus(c, q)
    PROVE  KeeperInv'
<1>0. StoreInv /\ ConnInv /\ PinsOwned /\ DbType(db)
  BY DEF KeeperInv, StoreInv, StoreOk
<1>1. /\ op = None /\ op' = None /\ db' = db /\ files' = files /\ damaged' = damaged /\ boot' = boot
      /\ conns[c] # None /\ conns[c].phase = "request"
  BY DEF DispatchGet, DispatchStatus, disk, env
<1>2. conns[c] \in Connections /\ conns[c].guard = None
  BY <1>0, <1>1 DEF ConnInv
<1>3. ~Holds(conns[c])
  BY <1>2 DEF Holds
<1>4. ASSUME NEW guard \in Stamps \cup {None}, Respond(c, q, guard)
      PROVE  \E v \in Connections : ConnSet(c, v) /\ v.phase = "response" /\ v.request = q /\ v.guard = guard
  <2>1. PICK v : v = [conns[c] EXCEPT !.phase = "response", !.request = q, !.guard = guard]
    OBVIOUS
  <2>2. v \in Connections /\ v.phase = "response" /\ v.request = q /\ v.guard = guard
    BY <1>2, <2>1 DEF Connections
  <2>3. ConnSet(c, v)
    BY <1>4, <2>1 DEF Respond, ConnSet
  <2> QED BY <2>2, <2>3
<1>5. ASSUME NEW guard \in Stamps \cup {None}, Respond(c, q, guard), pins' = pins, guard = None \/ q.oid = None
      PROVE  KeeperInv'
  <2>1. PICK v \in Connections : ConnSet(c, v) /\ v.phase = "response" /\ v.request = q /\ v.guard = guard
    BY <1>4, <1>5
  <2>2. ~Holds(v)
    BY <1>5, <2>1 DEF Holds
  <2>3. StoreInv'
    BY <1>0, <1>1, <1>5, PinsChanged
  <2> QED BY <1>0, <1>3, <1>5, <2>1, <2>2, <2>3, ConnFollow, PinsStay DEF KeeperInv
<1>6. CASE DispatchStatus(c, q)
  <2>1. Respond(c, q, Stamp(q)) /\ pins' = pins /\ q.oid = None
    BY <1>6 DEF DispatchStatus
  <2>2. PICK guard \in Stamps \cup {None} : guard = Stamp(q)
    BY <1>0, StampShape
  <2> QED BY <1>5, <2>1, <2>2
<1>7. CASE DispatchGet(c, q) /\ pins' = pins /\ Respond(c, q, None)
  BY <1>5, <1>7
<1>8. ASSUME ~uncertain, Authorized(q), Fetchable(q.lease, q.oid), OpenReader(c, q.lease), Respond(c, q, Stamp(q)), q.oid # None
      PROVE  KeeperInv'
  <2>1. Serving(q.lease) /\ pins' = pins \cup {<<c, q.lease>>}
    BY <1>8 DEF OpenReader
  <2>2. PICK guard \in Stamps \cup {None} : guard = Stamp(q)
    BY <1>0, StampShape
  <2>3. guard # None
    <3>1. q.lease \in Leases
      BY ReadsShaped DEF ReadShape
    <3>2. db.leases[q.lease] \in Rows /\ db.auth \in Authorities
      BY <1>0, <2>1, <3>1 DEF DbType, Serving, Lease
    <3>3. guard = [auth |-> db.auth, gen |-> Lease(q.lease).gen, state |-> Lease(q.lease).state]
      BY <1>8, <2>1, <2>2 DEF Stamp
    <3>4. guard \in Stamps
      BY <3>2, <3>3 DEF Rows, Stamps, Lease
    <3> QED BY <3>4, Unconnected
  <2>4. PICK v \in Connections : ConnSet(c, v) /\ v.phase = "response" /\ v.request = q /\ v.guard = guard
    BY <1>4, <1>8, <2>2
  <2>5. v # None
    BY Unconnected
  <2>6. Holds(v)
    BY <1>8, <2>3, <2>4, <2>5 DEF Holds
  <2>7. \A p \in pins : p[1] # c
    BY <1>0, <1>3, NotPinned
  <2>8. \A p : p \in pins' <=> (p \in pins /\ p[1] # c) \/ (Holds(v) /\ p = <<c, v.request.lease>>)
    BY <2>1, <2>4, <2>6, <2>7
  <2>9. PinsOwned'
    BY <1>0, <2>4, <2>8, PinsFollow
  <2>10. ConnInv'
    BY <1>0, <2>4, ConnFollow
  <2>11. \A p \in pins' : p \in pins \/ db.leases[p[2]].state # "released"
    BY <2>1, SMTT(60) DEF Serving, Lease
  <2>12. StoreInv'
    BY <1>0, <1>1, <2>11, PinsChanged
  <2> QED BY <2>9, <2>10, <2>12 DEF KeeperInv
<1> QED BY <1>6, <1>7, <1>8 DEF DispatchGet

\* A restart or a kill ends every connection and every pin.
LEMMA RestartSound == ASSUME KeeperInv, Restart \/ Kill PROVE KeeperInv'
<1>0. StoreInv /\ ConnInv
  BY DEF KeeperInv
<1>1. Construct /\ op' = None /\ conns' = [c \in Conns |-> None]
  BY DEF Restart, Kill, Reopen, Killed
<1>2. StoreInv'
  BY <1>0, <1>1, ConstructSound
<1>3. ConnInv'
  BY <1>1 DEF ConnInv
<1>4. pins' = {}
  BY <1>1 DEF Construct, Audited
<1>5. PinsOwned'
  BY <1>1, <1>4 DEF PinsOwned, Live
<1> QED BY <1>2, <1>3, <1>5 DEF KeeperInv

\* What does not touch the connections or the pins keeps them matched.
LEMMA ServiceIdle ==
    ASSUME KeeperInv, StoreInv', conns' = conns, pins' = pins
    PROVE  KeeperInv'
BY DEF KeeperInv, ConnInv, PinsOwned, Live

-----------------------------------------------------------------------------
(* The theorems *)

\* A new store, without leases, files or connections.
LEMMA KeeperStarts == ASSUME SInit PROVE KeeperInv
<1>1. Init /\ conns = [c \in Conns |-> None]
  BY DEF SInit
<1>2. Min(Authorities) \in Authorities
  BY FirstAuthority DEF Min
<1>3. /\ DbType(db) /\ db.ops = {} /\ \A l \in Leases : db.leases[l] = None /\ db.stored[l] = {}
  BY <1>1, <1>2 DEF Init, DbType
<1>4. FileType(files) /\ op = None /\ pins = {} /\ boot = 1
  BY <1>1 DEF Init, FileType, FileStates
<1>5. RowsSound(db) /\ Kept(db, files, damaged, pins)
  BY <1>3 DEF RowsSound, Kept
<1>6. ReceiptInv(db, boot)
  BY <1>3 DEF ReceiptInv, Numbered, Ordered, Booted, Answers
<1>7. StoreInv
  BY <1>3, <1>4, <1>5, <1>6 DEF StoreInv, StoreOk, OpInv
<1>8. ConnInv /\ PinsOwned
  BY <1>1, <1>4 DEF ConnInv, PinsOwned, Live
<1> QED BY <1>7, <1>8 DEF KeeperInv

\* Whatever the callers sign, the connections do, the clock reads, and the faults
\* take, the store and its service keep the invariant.
THEOREM KeeperInvariance == SSpec => []KeeperInv
<1>1. SInit => KeeperInv
  BY KeeperStarts
<1>2. ASSUME KeeperInv, [SNext]_svars PROVE KeeperInv'
  <2>1. StoreInv
    BY <1>2 DEF KeeperInv
  <2>2. CASE Operate /\ UNCHANGED <<endpoint, conns>>
    BY <1>2, <2>1, <2>2, OperateSound, OperatePins, ServiceIdle
  <2>3. CASE RecoverStale \/ UNCHANGED svars
    <3>1. vars' = vars /\ conns' = conns
      BY <2>3 DEF RecoverStale, svars
    <3>2. StoreInv' /\ pins' = pins
      BY <2>1, <3>1 DEF StoreInv, vars, disk, mem, env
    <3> QED BY <1>2, <3>1, <3>2, ServiceIdle
  <2>4. CASE Restart \/ Kill
    BY <1>2, <2>4, RestartSound
  <2>5. ASSUME NEW c \in Conns, Accept(c) \/ SendHello(c) \/ Expire(c) \/ Write(c) PROVE KeeperInv'
    BY <1>2, <2>5, ConnectSound, DropSound, WriteSound DEF Expire
  <2>6. ASSUME NEW c \in Conns, NEW q \in Reads, DispatchGet(c, q) \/ DispatchStatus(c, q) PROVE KeeperInv'
    BY <1>2, <2>6, DispatchSound
  <2> QED BY <1>2, <2>2, <2>3, <2>4, <2>5, <2>6 DEF SNext
<1> QED BY <1>1, <1>2, PTL DEF SSpec

\* A pin always belongs to a connection that is still sending the object it pinned, so
\* no lease is kept from the collector by a reader that is gone (reader, _drop, close).
THEOREM PinsAlwaysOwned == SSpec => []PinsOwned
<1>1. KeeperInv => PinsOwned
  BY DEF KeeperInv
<1> QED BY <1>1, KeeperInvariance, PTL

\* No collection, repair, cancellation, failed commit or crash loses an object of a
\* sealed lease or of one that is being read.
THEOREM ServedAlwaysKept == SSpec => []ServedKept
<1>1. KeeperInv => ServedKept
  BY DEF KeeperInv, StoreInv, StoreOk, Kept, ServedKept, Held
<1> QED BY <1>1, KeeperInvariance, PTL

\* The receipts of a lease have distinct numbers, and within a boot a later one never
\* promises less, whatever the clock, the retries and the restarts did in between.
THEOREM ReceiptsAlwaysOrdered == SSpec => []ReceiptsOrdered
<1>1. KeeperInv => ReceiptsOrdered
  BY DEF KeeperInv, StoreInv, StoreOk, ReceiptInv, Ordered, Answers, ReceiptsOrdered
<1> QED BY <1>1, KeeperInvariance, PTL
=============================================================================

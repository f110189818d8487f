------------------------------- MODULE Keeper -------------------------------
(***************************************************************************)
(* The opaque retention store and its two extensions, as one owner runs    *)
(* them: leases and signed receipts (keeper-retention), explicit garbage   *)
(* collection of released leases (keeper-gc) and resumable repair of       *)
(* sealed ones (keeper-repair).                                            *)
(*                                                                         *)
(* `db' is the SQLite database, written by whole transactions.  Object     *)
(* files and repair staging are separate: an operation that touches them   *)
(* takes several steps, and a crash may fall between any two.  One thread  *)
(* runs one operation at a time (`op').  Signatures, encodings and hashes  *)
(* are left out: a call is the record that is signed, a file is valid when *)
(* its bytes have the object's hash.                                       *)
(***************************************************************************)
EXTENDS Naturals, FiniteSets, FiniteSetsExt

CONSTANTS Leases, Index,         \* lease -> objects its recovery index lists
          Quota, MaxLeases,      \* quota_bytes (an object and an index count 1), max_leases
          MaxOps, MaxStaging,    \* max_operations, MAX_STAGING
          Calls,                 \* signed seal, renew and release calls
          Collects, Repairs, Cancels, \* signed gc, repair and cancellation requests
          Authorities, MaxNow, MaxBoot, \* authority sequences, clock bounds
          MaxFaults, None         \* kills and outside changes of files

\* What a caller signs: the method, the lease, a nonce and the authority its
\* capability was issued under.
CallShape == [action : {"seal", "renew", "release"}, lease : Leases, nonce : Nat, secs : Nat \ {0}, auth : Authorities]
CollectShape == [lease : Leases, gen : Nat, release : Nat, auth : Authorities]
RepairShape(r) == r.lease \in Leases /\ r.gen \in Nat \ {0} /\ r.targets # {} /\ r.targets \subseteq Index[r.lease] /\ r.auth \in Authorities
CancelShape == [repair : Repairs, auth : Authorities]
ASSUME Shapes ==
    Calls \subseteq CallShape /\ Collects \subseteq CollectShape /\ (\A r \in Repairs : RepairShape(r)) /\ Cancels \subseteq CancelShape

\* The rows of the tables: leases, receipts, gc jobs, repair jobs.
Objects == UNION {Index[l] : l \in Leases}
Receipts == [lease : Leases, gen : Nat, boot : Nat, ns : Nat, secs : Nat, auth : Authorities]
Rows == [state : {"reserved", "sealed", "released"}, gen : Nat, receipt : Receipts \cup {None}]
GcJobs == [request : Collects, phase : {"marked", "done"}, present : SUBSET Objects,
           credit : {0} \cup {Cardinality(Index[l]) : l \in Leases}]
RepairJobs == [phase : {"prepared", "aborting", "aborted", "done"}, cancel : Cancels \cup {None}]
ASSUME Absent ==
    /\ None \notin Receipts /\ None \notin Rows /\ None \notin GcJobs /\ None \notin RepairJobs
    /\ None \notin Cancels /\ None \notin {"valid", "linked", "corrupt", "torn"}

\* Authority sequences are numbers, and there is one a new store starts at.
ASSUME FirstAuthority == Authorities \subseteq Nat /\ \E a \in Authorities : \A b \in Authorities : a <= b

VARIABLES db,      \* the database
          files,   \* lease -> object -> bytes under objects/
          dirs,    \* leases with a directory under objects/
          debris,  \* leases with a .rc-part- file that a killed put left
          stage,   \* repair -> its directory under repair-staging/, or None
          op,      \* the operation under way, or None
          uncertain, pins, \* the instance: _uncertain, _pins
          last, clockUncertain,  \* _last, _clock_uncertain
          boot,    \* the boot the clock reads
          damaged, faults  \* files changed from outside and not replaced since, faults so far

disk == <<files, dirs, debris, stage>>
mem == <<uncertain, pins, last, clockUncertain>>
env == <<boot, damaged, faults>>
vars == <<db, disk, op, mem, env>>

-----------------------------------------------------------------------------
(* The database *)

Charge(l) == Cardinality(Index[l]) + 1
Held(d) == {l \in Leases : d.leases[l] # None}
Done(d) == {l \in Leases : d.gc[l] # None /\ d.gc[l].phase = "done"}

\* KeeperGC._reserved_bytes: what was collected is credited, its index is not.
ReservedBytes(d) == MapThenSumSet(Charge, Held(d)) - MapThenSumSet(LAMBDA l : d.gc[l].credit, Done(d))
\* KeeperGC._lease_limit_count
LeaseCount(d) == Cardinality(Held(d) \ Done(d))

\* Mutant: a repair being cancelled no longer counts.
PendingPrepared(d, l) == {r \in Repairs : d.repair[r] # None /\ r.lease = l /\ d.repair[r].phase = "prepared"}
\* KeeperRepair._pending: the unfinished repairs of a lease.
Pending(d, l) == {r \in Repairs : d.repair[r] # None /\ r.lease = l /\ d.repair[r].phase \in {"prepared", "aborting"}}
Staging(d) == MapThenSumSet(LAMBDA r : Cardinality(r.targets), UNION {Pending(d, l) : l \in Leases})

History(d, l, actions) == {o \in d.ops : o.call.lease = l /\ o.call.action \in actions}

\* Keeper._validate_response: a receipt is of the lease and not newer than it.
ResponseValid(d, o) ==
    o.call.action \in {"seal", "renew"} =>
        LET row == d.leases[o.call.lease]
        IN /\ o.answer.lease = o.call.lease /\ o.answer.auth = o.call.auth /\ o.answer.gen <= row.gen
           /\ o.answer.gen = row.gen => o.answer = row.receipt

\* Keeper._validate_database: each lease has the calls its state tells of.
HistoryValid(d, l) ==
    LET row == d.leases[l]
        receipts == History(d, l, {"seal", "renew"})
    IN /\ d.stored[l] \subseteq Index[l]
       /\ {o.answer.gen : o \in receipts} = 1..row.gen
       /\ Cardinality(receipts) = row.gen
       /\ row.gen > 0 <=> Cardinality(History(d, l, {"seal"})) = 1
       /\ row.state = "released" <=> History(d, l, {"release"}) # {}
       /\ row.gen > 0 => row.receipt # None /\ row.receipt.gen = row.gen
       /\ \A o \in History(d, l, {"reserve", "seal", "renew", "release"}) : ResponseValid(d, o)

\* KeeperGC._check_job
JobValid(d, l) ==
    LET job == d.gc[l]
    IN /\ d.leases[l].state = "released"
       /\ CASE job.phase = "marked" -> job.credit = 0 /\ d.stored[l] \subseteq job.present
            [] job.phase = "done" -> job.credit = Cardinality(Index[l]) /\ d.stored[l] = {} /\ l \notin dirs

\* KeeperRepair._check_repair_job, and the staging directory of _validate_database.
RepairValid(d, r) ==
    /\ d.leases[r.lease] # None /\ r.gen <= d.leases[r.lease].gen
    /\ d.repair[r].phase \in {"aborting", "aborted"} <=> d.repair[r].cancel # None
    /\ IF r \in Pending(d, r.lease)
       THEN Pending(d, r.lease) = {r} /\ d.gc[r.lease] = None
       ELSE stage[r] = None

\* _validate_database of all three stores.
ValidDatabase(d) ==
    /\ ReservedBytes(d) <= Quota /\ LeaseCount(d) <= MaxLeases /\ Cardinality(d.ops) <= MaxOps
    /\ \A l \in Held(d) : HistoryValid(d, l)
    /\ \A l \in Leases : d.gc[l] # None => JobValid(d, l)
    /\ \A r \in Repairs : d.repair[r] # None => RepairValid(d, r)
    /\ Staging(d) <= MaxStaging
    /\ \A r \in Repairs : stage[r] # None => d.repair[r] # None

Init ==
    /\ db = [auth |-> Min(Authorities), clock |-> [boot |-> 1, ns |-> 0],
             leases |-> [l \in Leases |-> None], stored |-> [l \in Leases |-> {}], ops |-> {},
             gc |-> [l \in Leases |-> None], repair |-> [r \in Repairs |-> None]]
    /\ files = [l \in Leases |-> [o \in Index[l] |-> None]] /\ dirs = {} /\ debris = {}
    /\ stage = [r \in Repairs |-> None]
    /\ op = None /\ uncertain = FALSE /\ pins = {}
    /\ boot = 1 /\ last = db.clock /\ clockUncertain = FALSE
    /\ damaged = {} /\ faults = 0

-----------------------------------------------------------------------------
(* Common parts of the operations *)

\* Keeper._operation
Enter == op = None /\ ~uncertain

\* verify_capability: it counts under the authority it was issued for.
Current(c) == c.auth = db.auth
Lease(l) == db.leases[l]
\* Keeper._authorized
Authorized(c) == Current(c) /\ Lease(c.lease) # None
\* Keeper._serving
Serving(l) == Lease(l) # None /\ Lease(l).state # "released"

\* clock.sample: nanoseconds since boot.  A test clock may go back.
Ticks == [boot : {boot}, ns : 0..MaxNow]
\* Keeper._sample, with t what the clock reads.
Regressed(t, seen) == seen.boot = t.boot /\ t.ns < seen.ns
Sample(t) ==
    /\ clockUncertain' = (clockUncertain \/ Regressed(t, last))
    /\ last' = IF Regressed(t, last) THEN last ELSE t

\* Keeper._transaction: an error before COMMIT changes nothing, one at
\* COMMIT leaves both outcomes open and stops the instance, one after it is
\* reported as OUTCOME_UNKNOWN: to the caller a failure, to the store none.
Committed(d) == db' = d /\ UNCHANGED uncertain
Uncertain(d) == db' \in {db, d} /\ uncertain' = TRUE
Transaction(d) == Committed(d) \/ Uncertain(d)

\* Keeper._record
Record(d, c, answer) == [d EXCEPT !.ops = @ \cup {[call |-> c, answer |-> answer]}]
Room == Cardinality(db.ops) < MaxOps

\* Keeper._cached: a call on record is answered from there, and another one
\* of its nonce is an OPERATION_CONFLICT; neither changes anything.
New(c) == \A o \in db.ops : o.call.nonce # c.nonce

\* Keeper._bytes with require_all: every object recorded, and its file valid.
Readable == {"valid", "linked"}
BytesComplete(l) == db.stored[l] = Index[l] /\ \A o \in Index[l] : files[l][o] \in Readable

-----------------------------------------------------------------------------
(* keeper-retention *)

Reserve(l) ==
    LET c == [action |-> "reserve", lease |-> l, nonce |-> l, auth |-> db.auth, secs |-> 1]
    IN /\ Enter /\ ValidDatabase(db) /\ New(c)
       /\ Room /\ LeaseCount(db) < MaxLeases /\ ReservedBytes(db) + Charge(l) <= Quota
       /\ Transaction(Record([db EXCEPT !.leases[l] = [state |-> "reserved", gen |-> 0, receipt |-> None]], c, None))
       /\ UNCHANGED <<disk, op, pins, last, clockUncertain, env>>

\* put: put_file writes a temporary file, links it and unlinks the temporary
\* (nlink is 2 in between); only then the object is recorded.
Put(l, o) ==
    /\ Enter /\ Serving(l) /\ files[l][o] # "corrupt"
    /\ dirs' = dirs \cup {l}
    /\ op' = [kind |-> "put", pc |-> IF files[l][o] = None THEN "link" ELSE "record", lease |-> l, oid |-> o]
    /\ UNCHANGED <<db, files, debris, stage, mem, env>>

At(kind, pc) == op # None /\ op.kind = kind /\ op.pc = pc
PutLink ==
    /\ At("put", "link")
    /\ files' = [files EXCEPT ![op.lease][op.oid] = "linked"]
    /\ damaged' = damaged \ {<<op.lease, op.oid>>}
    /\ op' = [op EXCEPT !.pc = "unlink"]
    /\ UNCHANGED <<db, dirs, debris, stage, mem, boot, faults>>
PutUnlink ==
    /\ At("put", "unlink") /\ files[op.lease][op.oid] # None
    /\ files' = [files EXCEPT ![op.lease][op.oid] = IF @ = "linked" THEN "valid" ELSE @]
    /\ op' = [op EXCEPT !.pc = "record"]
    /\ UNCHANGED <<db, dirs, debris, stage, mem, env>>
PutRecord ==
    /\ At("put", "record") /\ op' = None
    /\ IF files[op.lease][op.oid] \in Readable
       THEN Transaction([db EXCEPT !.stored[op.lease] = @ \cup {op.oid}])
       ELSE UNCHANGED <<db, uncertain>>
    /\ UNCHANGED <<disk, pins, last, clockUncertain, env>>

\* _complete, for seal and renew: all bytes are there, then the answer on
\* record, then a receipt of the next generation that does not end earlier
\* than the last one of the same boot.
Expiry(r) == r.ns + r.secs
\* Mutant: the receipt on record is not compared.
NeverShortens(l, r) == FALSE
Shortens(l, r) == Lease(l).receipt # None /\ Lease(l).receipt.boot = r.boot /\ Expiry(r) < Expiry(Lease(l).receipt)
Receipt(c, t) ==
    [lease |-> c.lease, gen |-> Lease(c.lease).gen + 1, boot |-> t.boot, ns |-> t.ns, secs |-> c.secs, auth |-> c.auth]
Issues(c, t) ==
    /\ Lease(c.lease).state = IF c.action = "seal" THEN "reserved" ELSE "sealed"
    /\ ~clockUncertain' /\ Room
    /\ LET r == Receipt(c, t)
           d == [db EXCEPT !.leases[c.lease] = [state |-> "sealed", gen |-> r.gen, receipt |-> r], !.clock = t]
       IN ~Shortens(c.lease, r) /\ Transaction(Record(d, c, r))
Complete(c) ==
    /\ Enter /\ Authorized(c) /\ Serving(c.lease) /\ BytesComplete(c.lease)
    /\ c.action = "renew" => Pending(db, c.lease) = {}
    /\ New(c) /\ \E t \in Ticks : Sample(t) /\ Issues(c, t)
    /\ UNCHANGED <<disk, op, pins, env>>

Release(c) ==
    /\ Enter /\ Authorized(c) /\ New(c) /\ Room
    /\ Transaction(Record([db EXCEPT !.leases[c.lease].state = "released"], c, None))
    /\ UNCHANGED <<disk, op, pins, last, clockUncertain, env>>

\* update_authority: the trusted host moves on; any error stops the instance.
UpdateAuthority(a) ==
    /\ Enter /\ a > db.auth
    /\ \/ db' = [db EXCEPT !.auth = a] /\ UNCHANGED uncertain
       \/ db' \in {db, [db EXCEPT !.auth = a]} /\ uncertain' = TRUE
    /\ UNCHANGED <<disk, op, pins, last, clockUncertain, env>>

\* status and challenge sample the clock.
Observe(l) ==
    /\ Enter /\ Lease(l) # None /\ (\E t \in Ticks : Sample(t))
    /\ UNCHANGED <<db, disk, op, uncertain, pins, env>>

-----------------------------------------------------------------------------
(* keeper-gc *)

\* reader: a pin on the lease, kept under a token until the reader is closed;
\* every read goes through fetch, which checks the lease and the bytes again.
OpenReader(k, l) == Serving(l) /\ pins' = pins \cup {<<k, l>>}
CloseReader(k) == pins' = {p \in pins : p[1] # k}
\* fetch
Fetchable(l, o) == Serving(l) /\ o \in db.stored[l] /\ files[l][o] \in Readable

Present(l) == {o \in Index[l] : files[l][o] # None}
\* _scan: nothing but valid objects of `allowed', each with one link.
ScanClean(l, allowed) == l \notin debris /\ Present(l) \subseteq allowed /\ \A o \in Present(l) : files[l][o] = "valid"

\* _scope: a current request about the lease as it was released.
Scope(q) ==
    /\ Authorized(q) /\ Lease(q.lease).state = "released"
    /\ q.gen = Lease(q.lease).gen
    /\ \E o \in History(db, q.lease, {"release"}) : o.call.nonce = q.release
\* Mutant: readers are not looked at.
UnpinnedAlways(l) == TRUE
\* _unpinned
Unpinned(l) == \A p \in pins : p[2] # l

\* _mark, as KeeperRepair extends it.
Mark(q) ==
    /\ Enter /\ Pending(db, q.lease) = {} /\ Scope(q) /\ Unpinned(q.lease)
    /\ db.gc[q.lease] = None /\ ValidDatabase(db)
    /\ ScanClean(q.lease, Index[q.lease]) /\ db.stored[q.lease] \subseteq Present(q.lease)
    /\ Transaction([db EXCEPT !.gc[q.lease] = [request |-> q, phase |-> "marked", present |-> Present(q.lease), credit |-> 0]])
    /\ UNCHANGED <<disk, op, pins, last, clockUncertain, env>>

\* collect, after _mark: the same request only (GC_CONFLICT), a finished one
\* answers from its record.
Collect(q) ==
    /\ Enter /\ Pending(db, q.lease) = {} /\ Scope(q) /\ Unpinned(q.lease)
    /\ db.gc[q.lease] # None /\ db.gc[q.lease].request = q /\ JobValid(db, q.lease)
    /\ db.gc[q.lease].phase = "marked" /\ ScanClean(q.lease, db.gc[q.lease].present)
    /\ op' = [kind |-> "collect", pc |-> IF q.lease \in dirs THEN "sweep" ELSE "finish", lease |-> q.lease, call |-> q]
    /\ UNCHANGED <<db, disk, mem, env>>
Sweep ==
    /\ At("collect", "sweep")
    /\ \E o \in Present(op.lease) :
          files[op.lease][o] # "linked" /\ files' = [files EXCEPT ![op.lease][o] = None]
    /\ UNCHANGED <<db, dirs, debris, stage, op, mem, env>>
SweepDirectory ==
    /\ At("collect", "sweep") /\ Present(op.lease) = {} /\ op.lease \notin debris
    /\ dirs' = dirs \ {op.lease} /\ op' = [op EXCEPT !.pc = "finish"]
    /\ UNCHANGED <<db, files, debris, stage, mem, env>>
CollectFinish ==
    /\ At("collect", "finish") /\ op.lease \notin dirs
    /\ Transaction([db EXCEPT !.stored[op.lease] = {},
                             !.gc[op.lease] = [@ EXCEPT !.phase = "done", !.credit = Cardinality(Index[op.lease])]])
    /\ op' = None /\ UNCHANGED <<disk, pins, last, clockUncertain, env>>

-----------------------------------------------------------------------------
(* keeper-repair *)

\* _repair_scope
RepairScope(r) ==
    /\ Authorized(r) /\ Lease(r.lease).state = "sealed" /\ r.gen = Lease(r.lease).gen
    /\ Unpinned(r.lease) /\ db.gc[r.lease] = None

\* _mark_repair; probe refuses a file with two links.
MarkRepair(r) ==
    /\ Enter /\ RepairScope(r) /\ db.repair[r] = None /\ ValidDatabase(db)
    /\ \A o \in r.targets : files[r.lease][o] # "linked"
    /\ Pending(db, r.lease) = {} /\ Staging(db) + Cardinality(r.targets) <= MaxStaging
    /\ \E t \in Ticks : Sample(t)
    /\ Transaction([db EXCEPT !.repair[r] = [phase |-> "prepared", cancel |-> None]])
    /\ UNCHANGED <<disk, op, pins, env>>

\* repair, after _mark_repair.
Repair(r) ==
    /\ Enter /\ RepairScope(r) /\ db.repair[r] # None /\ RepairValid(db, r)
    /\ db.repair[r].phase = "prepared"
    /\ op' = [kind |-> "repair", pc |-> "object", lease |-> r.lease, call |-> r, todo |-> r.targets]
    /\ UNCHANGED <<db, disk, mem, env>>

\* replace_object: a valid target stays; otherwise the job's own stage file,
\* if it is whole, or a new one.
Empty(r) == [o \in r.targets |-> None]
Staged(r) == IF stage[r] = None THEN Empty(r) ELSE stage[r]
RepairObject(o) ==
    /\ At("repair", "object") /\ o \in op.todo /\ files[op.lease][o] # "linked"
    /\ dirs' = dirs \cup {op.lease}
    /\ \/ /\ files[op.lease][o] = "valid" /\ stage' = [stage EXCEPT ![op.call] = Staged(op.call)]
          /\ op' = [op EXCEPT !.todo = @ \ {o}]
       \/ /\ files[op.lease][o] # "valid"
          /\ stage' = [stage EXCEPT ![op.call] = [Staged(op.call) EXCEPT ![o] = IF @ = "valid" THEN @ ELSE "torn"]]
          /\ op' = [kind |-> "repair", pc |-> "sync", lease |-> op.lease, call |-> op.call, todo |-> op.todo, oid |-> o, before |-> files[op.lease][o]]
    /\ UNCHANGED <<db, files, debris, mem, env>>
StageSync ==
    /\ At("repair", "sync")
    /\ stage' = [stage EXCEPT ![op.call][op.oid] = "valid"] /\ op' = [op EXCEPT !.pc = "replace"]
    /\ UNCHANGED <<db, files, dirs, debris, mem, env>>
Replace ==
    /\ At("repair", "replace") /\ files[op.lease][op.oid] = op.before
    /\ files' = [files EXCEPT ![op.lease][op.oid] = "valid"]
    /\ stage' = [stage EXCEPT ![op.call][op.oid] = None]
    /\ op' = [kind |-> "repair", pc |-> "object", lease |-> op.lease, call |-> op.call, todo |-> op.todo \ {op.oid}]
    /\ UNCHANGED <<db, dirs, debris, mem, env>>

\* clean_stage: the job's own files one by one, then its directory.
CleanStage ==
    /\ op # None
    /\ \/ op.kind = "repair" /\ op.pc = "object" /\ op.todo = {}
       \/ op.kind = "cancel" /\ op.pc = "clean"
    /\ LET r == IF op.kind = "repair" THEN op.call ELSE op.call.repair
           left == IF stage[r] = None THEN {} ELSE {o \in r.targets : stage[r][o] # None}
       IN IF left # {}
          THEN (\E o \in left : stage' = [stage EXCEPT ![r][o] = None]) /\ UNCHANGED op
          ELSE stage' = [stage EXCEPT ![r] = None] /\ op' = [op EXCEPT !.pc = "finish"]
    /\ UNCHANGED <<db, files, dirs, debris, mem, env>>
RepairFinish ==
    /\ At("repair", "finish") /\ \A o \in op.call.targets : files[op.lease][o] = "valid"
    /\ \E t \in Ticks : Sample(t)
    /\ Transaction([db EXCEPT !.stored[op.lease] = @ \cup op.call.targets, !.repair[op.call].phase = "done"])
    /\ damaged' = damaged \ {<<op.lease, o>> : o \in op.call.targets}
    /\ op' = None /\ UNCHANGED <<disk, pins, boot, faults>>

\* cancel_repair: a prepared job is marked, cleaned and marked again.
CancelScope(x) == Current(x) /\ db.repair[x.repair] # None /\ RepairValid(db, x.repair)
CancelMark(x) ==
    /\ Enter /\ CancelScope(x) /\ db.repair[x.repair].phase = "prepared"
    /\ Transaction([db EXCEPT !.repair[x.repair] = [phase |-> "aborting", cancel |-> x]])
    /\ UNCHANGED <<disk, op, pins, last, clockUncertain, env>>
Cancel(x) ==
    /\ Enter /\ CancelScope(x) /\ db.repair[x.repair].cancel = x
    /\ db.repair[x.repair].phase = "aborting"
    /\ op' = [kind |-> "cancel", pc |-> "clean", lease |-> x.repair.lease, call |-> x]
    /\ UNCHANGED <<db, disk, mem, env>>
CancelFinish ==
    /\ At("cancel", "finish")
    /\ Transaction([db EXCEPT !.repair[op.call.repair].phase = "aborted"])
    /\ op' = None /\ UNCHANGED <<disk, pins, last, clockUncertain, env>>

-----------------------------------------------------------------------------
(* The instance and its surroundings *)

\* put_file has a temporary file.
HasPart == op # None /\ op.kind = "put" /\ op.pc \in {"link", "unlink"}

\* An exception out of a step: put_file removes its temporary file on the
\* way out, nothing else is undone.
Fail ==
    /\ op # None /\ op' = None
    /\ files' = IF HasPart
                THEN [files EXCEPT ![op.lease][op.oid] = IF @ = "linked" THEN "valid" ELSE @]
                ELSE files
    /\ UNCHANGED <<db, dirs, debris, stage, mem, env>>

\* __init__ of an existing store, under the recorded authority, perhaps
\* after a reboot.
\* KeeperRepair.__init__ of a store of its own schema: no reader is left, and the
\* database is audited once more with the repair tables.
Audited == ValidDatabase(db) /\ pins' = {}

Construct ==
    /\ Audited /\ uncertain' = FALSE
    /\ boot' \in {b \in {boot, boot + 1} : b <= MaxBoot}
    /\ \E ns \in 0..MaxNow :
          LET t == [boot |-> boot', ns |-> ns]
          IN clockUncertain' = Regressed(t, db.clock) /\ last' = IF Regressed(t, db.clock) THEN db.clock ELSE t
    /\ UNCHANGED <<db, files, dirs, stage, damaged>>
\* The process ends, by close between operations or by a kill, and the next
\* one opens the store.  The temporary file of a killed put is never removed.
Reopen == op = None /\ Construct /\ UNCHANGED <<op, debris, faults>>
Killed ==
    /\ faults < MaxFaults /\ Construct /\ op' = None /\ faults' = faults + 1
    /\ debris' = IF HasPart THEN debris \cup {op.lease} ELSE debris

\* Bytes under objects/ change or disappear.
Damage(l, o) ==
    /\ faults < MaxFaults /\ faults' = faults + 1
    /\ files[l][o] # None /\ damaged' = damaged \cup {<<l, o>>}
    /\ \E state \in {None, "corrupt"} : files' = [files EXCEPT ![l][o] = state]
    /\ UNCHANGED <<db, dirs, debris, stage, op, mem, boot>>

Operate ==
    \/ \E l \in Leases : Reserve(l) \/ Observe(l)
    \/ \E l \in Leases : \E o \in Index[l] : Put(l, o) \/ Damage(l, o)
    \/ PutLink \/ PutUnlink \/ PutRecord
    \/ \E c \in Calls : (c.action # "release" /\ Complete(c)) \/ (c.action = "release" /\ Release(c))
    \/ \E a \in Authorities : UpdateAuthority(a)
    \/ \E q \in Collects : Mark(q) \/ Collect(q)
    \/ Sweep \/ SweepDirectory \/ CollectFinish
    \/ \E r \in Repairs : MarkRepair(r) \/ Repair(r) \/ (\E o \in r.targets : RepairObject(o))
    \/ StageSync \/ Replace \/ CleanStage \/ RepairFinish
    \/ \E x \in Cancels : CancelMark(x) \/ Cancel(x)
    \/ CancelFinish
    \/ Fail

-----------------------------------------------------------------------------
(* Properties *)

\* Whatever step the process dies in, the audit that __init__ runs over the
\* database and the directories accepts what is left: the store opens again.
Reopens == ValidDatabase(db)

\* The bytes a receipt or an open reader stands for are on disk unless
\* something outside took them: no collection, repair, cancellation or
\* crash of the store's own loses an object of a sealed or pinned lease.
ServedKept ==
    \A l \in Held(db) :
        /\ db.leases[l].state = "sealed" => db.stored[l] = Index[l]
        /\ db.leases[l].state = "sealed" \/ (\E p \in pins : p[2] = l) =>
              \A o \in db.stored[l] : <<l, o>> \in damaged \/ files[l][o] \in Readable

\* No two receipts of a lease have the same number, and within
\* a boot none promises less than the one before it, whatever the clock, the
\* retries and the restarts did in between.
ReceiptsOrdered ==
    \A s, t \in {o \in db.ops : o.call.action \in {"seal", "renew"}} :
        s.call.lease = t.call.lease =>
            /\ s.answer.gen = t.answer.gen => s = t
            /\ s.answer.gen < t.answer.gen /\ s.answer.boot = t.answer.boot => Expiry(s.answer) <= Expiry(t.answer)
=============================================================================

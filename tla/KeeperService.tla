---------------------------- MODULE KeeperService ----------------------------
(***************************************************************************)
(* The private read service in front of the Keeper: one selector loop in   *)
(* the Keeper's thread, one signed request per connection, an answer sent  *)
(* in pieces while the store goes on working.  A get pins its lease until  *)
(* the connection ends.  The frames and signatures are left out; what is   *)
(* kept of an answer is the guard it is sent under.                        *)
(***************************************************************************)
EXTENDS Keeper

CONSTANTS Conns, MaxConnections, \* sockets, max_connections
          Reads,                 \* signed get and status requests
          Pieces                 \* send_chunk pieces of an answer

\* check_request: the capability carried must allow the action on the lease.
ReadShape == [lease : Leases, oid : UNION {Index[l] : l \in Leases} \cup {None}, auth : Authorities]
ASSUME ReadsShaped == Reads \subseteq ReadShape

\* The guard of an answer, and a Connection.
Stamps == [auth : Authorities, gen : Nat, state : {"reserved", "sealed", "released"}]
Connections == [phase : {"hello", "request", "response"}, request : Reads \cup {None}, guard : Stamps \cup {None}, sent : Nat]
ASSUME Unconnected == None \notin Stamps /\ None \notin Connections

VARIABLES endpoint, \* the socket path: "live" or "stale"
          conns     \* socket -> its Connection, or None
svars == <<vars, endpoint, conns>>

Live == {c \in Conns : conns[c] # None}

SInit == Init /\ endpoint = "live" /\ conns = [c \in Conns |-> None]

\* A kill leaves the socket, and Endpoint.__init__ refuses a path that exists:
\* recover_stale removes it once nobody listens, then a server starts.
RecoverStale ==
    /\ endpoint = "stale" /\ endpoint' = "live"
    /\ UNCHANGED <<vars, conns>>

\* poll -> _accept; the hello goes out before anything is read.
Accept(c) ==
    /\ endpoint = "live" /\ op = None /\ conns[c] = None /\ Cardinality(Live) < MaxConnections
    /\ conns' = [conns EXCEPT ![c] = [phase |-> "hello", request |-> None, guard |-> None, sent |-> 0]]
    /\ UNCHANGED <<vars, endpoint>>
SendHello(c) ==
    /\ op = None /\ conns[c] # None /\ conns[c].phase = "hello"
    /\ conns' = [conns EXCEPT ![c].phase = "request"]
    /\ UNCHANGED <<vars, endpoint>>

\* _stamp: what an answer depends on, or None when the request no longer holds.
Stamp(q) ==
    IF ~uncertain /\ Authorized(q) /\ (q.oid # None => Serving(q.lease))
    THEN [auth |-> db.auth, gen |-> Lease(q.lease).gen, state |-> Lease(q.lease).state]
    ELSE None

\* _dispatch: a get pins first and reads through the reader.  Any error is
\* answered too, without a guard and without a pin.
Respond(c, q, guard) == conns' = [conns EXCEPT ![c] = [@ EXCEPT !.phase = "response", !.request = q, !.guard = guard]]
DispatchGet(c, q) ==
    /\ op = None /\ conns[c] # None /\ conns[c].phase = "request" /\ q.oid # None
    /\ IF ~uncertain /\ Authorized(q) /\ Fetchable(q.lease, q.oid)
       THEN OpenReader(c, q.lease) /\ Respond(c, q, Stamp(q))
       ELSE UNCHANGED pins /\ Respond(c, q, None)
    /\ UNCHANGED <<db, disk, op, uncertain, last, clockUncertain, env, endpoint>>
DispatchStatus(c, q) ==
    /\ op = None /\ conns[c] # None /\ conns[c].phase = "request" /\ q.oid = None
    /\ Respond(c, q, Stamp(q))
    /\ IF Stamp(q) # None THEN \E t \in Ticks : Sample(t) ELSE UNCHANGED <<last, clockUncertain>>
    /\ UNCHANGED <<db, disk, op, uncertain, pins, env, endpoint>>

\* _drop: the deadline passed, the peer went away, or the work is done.
\* Mutant: the pin of a connection that is dropped is forgotten.
DropKeepsPin(c) ==
    /\ conns' = [conns EXCEPT ![c] = None] /\ UNCHANGED pins
    /\ UNCHANGED <<db, disk, op, uncertain, last, clockUncertain, env, endpoint>>
Drop(c) ==
    /\ conns' = [conns EXCEPT ![c] = None] /\ CloseReader(c)
    /\ UNCHANGED <<db, disk, op, uncertain, last, clockUncertain, env, endpoint>>
Expire(c) == op = None /\ conns[c] # None /\ Drop(c)

\* _write: the guard is compared before every piece.
Write(c) ==
    /\ op = None /\ conns[c] # None /\ conns[c].phase = "response"
    /\ LET q == conns[c].request
       IN IF \/ conns[c].guard # None /\ Stamp(q) # conns[c].guard
             \/ conns[c].sent + 1 = Pieces
          THEN Drop(c)
          ELSE conns' = [conns EXCEPT ![c].sent = @ + 1] /\ UNCHANGED <<vars, endpoint>>

\* close drops every connection; the store is closed after it and both open
\* again.
Restart == endpoint = "live" /\ Reopen /\ conns' = [c \in Conns |-> None] /\ UNCHANGED endpoint
Kill == Killed /\ conns' = [c \in Conns |-> None] /\ endpoint' = "stale"

SNext ==
    \/ Operate /\ UNCHANGED <<endpoint, conns>>
    \/ RecoverStale \/ Restart \/ Kill
    \/ \E c \in Conns : Accept(c) \/ SendHello(c) \/ Expire(c) \/ Write(c)
    \/ \E c \in Conns, q \in Reads : DispatchGet(c, q) \/ DispatchStatus(c, q)

SSpec == SInit /\ [][SNext]_svars

\* A pin belongs to a connection that is still sending the object it pinned:
\* no lease stays out of the collector's reach after its reader is gone.
PinsOwned ==
    pins = {<<c, conns[c].request.lease>> : c \in {x \in Live : conns[x].guard # None /\ conns[x].request.oid # None}}
=============================================================================

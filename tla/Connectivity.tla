---------------------------- MODULE Connectivity ----------------------------
(***************************************************************************)
(* The connector of product/wp09/par_connectivity and the streams it owns    *)
(* (tcp.py, and the TLS dialer, authenticator and stream of                  *)
(* par_secure_transport).  An operation resolves, dials and authenticates    *)
(* under one network generation and hands its connection over exactly once;  *)
(* every stage is an await, after which the generation, the caller's         *)
(* cancellation and the deadline are looked at again.  A port that is        *)
(* abandoned goes on by itself and may still return a connection, which has  *)
(* to be closed.  Host names, endpoints and certificates are left out, and   *)
(* the grants of a policy are taken as one: the networks they allow.  An     *)
(* operation's stop event is set only together with the generation, so that  *)
(* the generation stands for both.                                           *)
(***************************************************************************)
EXTENDS Naturals, FiniteSets

CONSTANTS
    Op,             \* concurrent connect() calls
    Conn,           \* sockets
    Address,        \* numeric addresses
    Class,          \* the class of an address: "metadata", "local", "special" or "global"
    Policy,         \* what change_network gives a generation: its policy, and whether
                    \* the network is metered
    Kind,           \* the kinds of I/O a stream allows one of at a time
    MaxInflight,    \* the largest budgets a policy may have
    MaxConnections,
    MaxAttempts,
    MaxGeneration,  \* bound on changes of the network
    None

VARIABLES
    generation, closed,
    policy,         \* the policy in force
    op,             \* None or [gen, at, conn, targets, dials]
    conn,           \* "free", "dialing", "handshake", "late",
                    \* "held", "active", "closing" or "failed"
    addr,           \* the address a socket in use is connected to
    lingering,      \* abandoned resolve and authenticate tasks
    io              \* reads and writes pending on a stream, and "aborted"

\* Policy.__post_init__: what a policy is made of, with budgets within their maxima.
PolicyShape(p) ==
    /\ p.networks \subseteq Address
    /\ p.allow_local \in BOOLEAN /\ p.allow_egress \in BOOLEAN
    /\ p.metered \in BOOLEAN /\ p.allow_metered \subseteq {"user", "background"}
    /\ p.max_inflight \in 1 .. MaxInflight /\ p.max_connections \in 1 .. MaxConnections
    /\ p.max_attempts \in 1 .. MaxAttempts

ASSUME Policies ==
    /\ {MaxInflight, MaxConnections, MaxAttempts, MaxGeneration} \subseteq Nat
    /\ DOMAIN Policy = 0 .. MaxGeneration
    /\ \A g \in DOMAIN Policy : PolicyShape(Policy[g])

\* An operation in progress, and the states of a socket.
Stages == {"resolving", "dialing", "dialed", "authenticating", "proved", "retired", "ending"}
OpRecords == [gen : Nat, at : Stages, conn : Conn \cup {None}, targets : SUBSET Address, dials : Nat]
ConnStates == {"free", "dialing", "handshake", "late", "held", "active", "closing", "failed"}

ASSUME Resources == IsFiniteSet(Op) /\ IsFiniteSet(Conn) /\ Op \cap Conn = {}
ASSUME NoOperation == None \notin OpRecords

\* The addresses a policy lets an operation dial.
AddressAllowed(a, p) ==
    /\ Class[a] \notin {"metadata", "special"}                       \* METADATA_DENIED, SPECIAL_ADDRESS_DENIED
    /\ Class[a] = "local" => p.allow_local                          \* LOCAL_ADDRESS_DENIED
    /\ a \in p.networks                                             \* ADDRESS_NOT_GRANTED

vars == <<generation, closed, policy, op, conn, addr, lingering, io>>

In(states) == {c \in Conn : conn[c] \in states}
Running == {o \in Op : op[o] # None}
CleanupFailed == In({"failed"}) # {}                                \* _cleanup_failures
\* _lingering: the abandoned tasks, dials included.
Lingering == lingering + Cardinality(In({"late"}))

Init ==
    /\ generation = 0 /\ closed = FALSE
    /\ policy = Policy[0]
    /\ op = [o \in Op |-> None]
    /\ conn = [c \in Conn |-> "free"] /\ addr = [c \in Conn |-> None]
    /\ lingering = 0
    /\ io = [c \in Conn |-> {}]

-----------------------------------------------------------------------------
(* connect()                                                                 *)

\* _fence.  The deadline may have passed, and the caller's event may be set, whenever
\* they are looked at: the steps that give an operation up are always possible.
Fence(o) == ~closed /\ op[o].gen = generation

\* select_candidates: every candidate offered is one the policy grants.
SelectCandidates == policy.allow_egress                             \* EGRESS_DENIED

Admitted ==
    /\ ~closed /\ ~CleanupFailed
    /\ SelectCandidates
    /\ Cardinality(Running) + Lingering < policy.max_inflight       \* INFLIGHT_BUDGET
    /\ Cardinality(In({"active", "closing"})) + Cardinality(Running) + Lingering
          < policy.max_connections                                  \* CONNECTION_BUDGET
    /\ policy.metered => policy.allow_metered # {}                  \* METERED_DENIED

Goes(o, at) == op' = [op EXCEPT ![o].at = at]
Ends(o) == op' = [op EXCEPT ![o] = None]

\* What follows without an await: the next target of the answer, the next candidate
\* with a literal address or with a name to resolve, or the end (a fence, a deadline,
\* nothing left to try, ATTEMPT_BUDGET).  Sockets have no identity before their use.
Dials(o, rec, a) ==
    LET c == CHOOSE d \in Conn : conn[d] = "free"
    IN /\ In({"free"}) # {} /\ rec.dials < policy.max_attempts
       /\ op' = [op EXCEPT ![o] = [rec EXCEPT !.at = "dialing", !.conn = c, !.dials = @ + 1,
                                              !.targets = @ \ {a}]]
       /\ conn' = [conn EXCEPT ![c] = "dialing"]
       /\ addr' = [addr EXCEPT ![c] = a]

NextTarget(o, rec) == \E a \in rec.targets : Dials(o, rec, a)

NextRoute(o, rec) ==
    /\ rec.targets = {}
    /\ \/ \E a \in Address : AddressAllowed(a, policy) /\ Dials(o, rec, a)
       \/ /\ op' = [op EXCEPT ![o] = [rec EXCEPT !.at = "resolving"]]
          /\ UNCHANGED <<conn, addr>>

Stops(o) == Ends(o) /\ UNCHANGED <<conn, addr>>

Connect(o) ==
    /\ op[o] = None /\ o = CHOOSE p \in Op : op[p] = None
    /\ Admitted
    /\ NextRoute(o, [gen |-> generation, at |-> "route",
                     conn |-> None, targets |-> {}, dials |-> 0])
    /\ UNCHANGED <<generation, closed, policy, lingering, io>>

\* authorize_addresses: one address that is not granted refuses the whole answer.
Authorized(answer) == IF \A a \in answer : AddressAllowed(a, policy) THEN answer ELSE {}

ResolveReturns(o) ==
    /\ op[o] # None /\ op[o].at = "resolving" /\ Fence(o)
    /\ \E answer \in SUBSET Address :
          LET rec == [op[o] EXCEPT !.targets = Authorized(answer)]
          IN NextTarget(o, rec) \/ NextRoute(o, rec) \/ Stops(o)
    /\ UNCHANGED <<generation, closed, policy, lingering, io>>

\* The stage is interrupted: its task is abandoned and lingers.
ResolveAbandoned(o) ==
    /\ op[o] # None /\ op[o].at = "resolving"
    /\ lingering' = lingering + 1
    /\ Ends(o)
    /\ UNCHANGED <<generation, closed, policy, conn, addr, io>>

LingeringEnds ==
    /\ lingering > 0
    /\ lingering' = lingering - 1
    /\ UNCHANGED <<generation, closed, policy, op, conn, addr, io>>

-----------------------------------------------------------------------------
(* The dial stage.                                                           *)

\* TLSNumericDialer.dial: the socket is connected and its TLS handshake starts.
Handshake(o) ==
    /\ op[o] # None /\ op[o].at = "dialing" /\ Fence(o)
    /\ conn[op[o].conn] = "dialing"
    /\ conn' = [conn EXCEPT ![op[o].conn] = "handshake"]
    /\ UNCHANGED <<generation, closed, policy, op, addr, lingering, io>>

\* The port returns a stream; the stage has yet to clean up its watchers.
DialReturns(o) ==
    /\ op[o] # None /\ op[o].at = "dialing" /\ Fence(o)
    /\ conn[op[o].conn] = "handshake"
    /\ Goes(o, "dialed")
    /\ conn' = [conn EXCEPT ![op[o].conn] = "held"]
    /\ UNCHANGED <<generation, closed, policy, addr, lingering, io>>

\* NumericTcpDialer.dial: a plain connection is returned without a handshake.
TcpDialReturns(o) ==
    /\ op[o] # None /\ op[o].at = "dialing" /\ Fence(o)
    /\ conn[op[o].conn] = "dialing"
    /\ Goes(o, "dialed")
    /\ conn' = [conn EXCEPT ![op[o].conn] = "held"]
    /\ UNCHANGED <<generation, closed, policy, addr, lingering, io>>

\* Connection or handshake refused: the adapter has closed its socket.
DialFails(o) ==
    /\ op[o] # None /\ op[o].at = "dialing" /\ Fence(o)
    /\ op' = [op EXCEPT ![o].at = "retired", ![o].conn = None]
    /\ conn' = [conn EXCEPT ![op[o].conn] = "free"]
    /\ addr' = [addr EXCEPT ![op[o].conn] = None]
    /\ UNCHANGED <<generation, closed, policy, lingering, io>>

\* _abandon(dispose=True): interrupted before or after the port returned.
DialAbandoned(o) ==
    /\ op[o] # None /\ op[o].at \in {"dialing", "dialed"}
    /\ conn' = [conn EXCEPT ![op[o].conn] = IF op[o].at = "dialing" THEN "late" ELSE "closing"]
    /\ addr' = [addr EXCEPT ![op[o].conn] = None]
    /\ Ends(o)
    /\ UNCHANGED <<generation, closed, policy, lingering, io>>

\* An abandoned dial ends: it was cancelled, or returns a connection to be closed.
LateEnds(c) ==
    /\ conn[c] = "late"
    /\ \E state \in {"free", "closing"} : conn' = [conn EXCEPT ![c] = state]
    /\ UNCHANGED <<generation, closed, policy, op, addr, lingering, io>>

-----------------------------------------------------------------------------
(* The authentication stage and the handing over.                            *)

\* _retire: the connection is closing; the operation waits, but not for ever.
Retire(o, terminal) ==
    /\ op' = [op EXCEPT ![o].at = IF terminal THEN "ending" ELSE "retired", ![o].conn = None]
    /\ conn' = [conn EXCEPT ![op[o].conn] = "closing"]
    /\ addr' = [addr EXCEPT ![op[o].conn] = None]
    /\ UNCHANGED <<generation, closed, policy, io>>

Authenticate(o) ==
    /\ op[o] # None /\ op[o].at = "dialed" /\ Fence(o)
    /\ Goes(o, "authenticating")
    /\ UNCHANGED <<generation, closed, policy, conn, addr, lingering, io>>

\* PEER_ADDRESS_MISMATCH after the dial, AUTH_FAILED, or AUTH_MISMATCH at the end.
Refused(o) ==
    /\ op[o] # None /\ op[o].at \in {"dialed", "authenticating", "proved"} /\ Fence(o)
    /\ Retire(o, FALSE) /\ UNCHANGED lingering

AuthReturns(o) ==
    /\ op[o] # None /\ op[o].at = "authenticating" /\ Fence(o)
    /\ Goes(o, "proved")
    /\ UNCHANGED <<generation, closed, policy, conn, addr, lingering, io>>

\* The fence before the stage, during it, or after the watchers were cleaned up.
Interrupted(o) ==
    /\ op[o] # None /\ op[o].at \in {"dialed", "authenticating", "proved"}
    /\ lingering' = lingering + (IF op[o].at = "authenticating" THEN 1 ELSE 0)
    /\ Retire(o, TRUE)

\* Mutant: the fence is not looked at after the authentication stage.
ActivateUnfenced(o) ==
    /\ op[o] # None /\ op[o].at = "proved"
    /\ conn' = [conn EXCEPT ![op[o].conn] = "active"]
    /\ Ends(o)
    /\ UNCHANGED <<generation, closed, policy, addr, lingering, io>>
\* Ownership is transferred exactly once.
Activate(o) ==
    /\ op[o] # None /\ op[o].at = "proved" /\ Fence(o)
    /\ conn' = [conn EXCEPT ![op[o].conn] = "active"]
    /\ Ends(o)
    /\ UNCHANGED <<generation, closed, policy, addr, lingering, io>>

\* Mutant: the next target is dialled while the last connection is still closing.
MayRetryPending == ~CleanupFailed
MayRetry == ~CleanupFailed /\ In({"closing"}) = {}                  \* CLEANUP_FAILED, CLEANUP_PENDING

\* The wait for the close is over, because it closed or because it took too long.
Retired(o) ==
    /\ op[o] # None /\ op[o].at \in {"retired", "ending"}
    /\ \/ /\ op[o].at = "retired" /\ MayRetry /\ Fence(o)
          /\ NextTarget(o, op[o]) \/ NextRoute(o, op[o])
       \/ Stops(o)
    /\ UNCHANGED <<generation, closed, policy, lingering, io>>

-----------------------------------------------------------------------------
(* Streams: one reader and one writer at a time, until the stream is aborted. *)

StartIO(c, kind) ==
    /\ conn[c] = "active" /\ {kind, "aborted"} \cap io[c] = {}       \* IO_BUSY, CLOSED
    /\ io' = [io EXCEPT ![c] = @ \cup {kind}]
    /\ UNCHANGED <<generation, closed, policy, op, conn, addr, lingering>>

EndIO(c, kind) ==
    /\ kind \in io[c]
    /\ io' = [io EXCEPT ![c] = @ \ {kind}]
    /\ UNCHANGED <<generation, closed, policy, op, conn, addr, lingering>>

\* A failure, a deadline or a cancellation aborts a TLS stream for good, although
\* the connector still counts it as active.
IOFails(c, kind) ==
    /\ kind \in io[c]
    /\ io' = [io EXCEPT ![c] = (@ \ {kind}) \cup {"aborted"}]
    /\ UNCHANGED <<generation, closed, policy, op, conn, addr, lingering>>

\* Mutant: the close of a stream that was aborted waits for it for ever.
CloseEndsOpen(c, ok) ==
    /\ conn[c] = "closing" /\ io[c] = {}
    /\ conn' = [conn EXCEPT ![c] = IF ok THEN "free" ELSE "failed"]
    /\ UNCHANGED <<generation, closed, policy, op, addr, lingering, io>>
\* The close task ends.  One that fails keeps its connection and stops admission.
CloseEnds(c, ok) ==
    /\ conn[c] = "closing" /\ io[c] \cap Kind = {}
    /\ conn' = [conn EXCEPT ![c] = IF ok THEN "free" ELSE "failed"]
    /\ io' = [io EXCEPT ![c] = {}]
    /\ UNCHANGED <<generation, closed, policy, op, addr, lingering>>

Disconnect(c) ==
    /\ conn[c] = "active"                                           \* CONNECTION_NOT_CURRENT
    /\ conn' = [conn EXCEPT ![c] = "closing"] /\ addr' = [addr EXCEPT ![c] = None]
    /\ UNCHANGED <<generation, closed, policy, op, lingering, io>>

DrainActive ==
    /\ conn' = [c \in Conn |-> IF conn[c] = "active" THEN "closing" ELSE conn[c]]
    /\ addr' = [c \in Conn |-> IF conn[c] = "active" THEN None ELSE addr[c]]

ChangeNetwork ==
    /\ ~closed /\ generation < MaxGeneration
    /\ generation' = generation + 1
    /\ policy' = Policy[generation + 1]
    /\ DrainActive
    /\ UNCHANGED <<closed, op, lingering, io>>

Close ==
    /\ ~closed
    /\ closed' = TRUE /\ generation' = generation + 1
    /\ DrainActive
    /\ UNCHANGED <<policy, op, lingering, io>>

-----------------------------------------------------------------------------
OpStep(o) ==
    \/ ResolveReturns(o) \/ ResolveAbandoned(o)
    \/ Handshake(o) \/ DialReturns(o) \/ TcpDialReturns(o) \/ DialFails(o) \/ DialAbandoned(o)
    \/ Authenticate(o) \/ Refused(o) \/ AuthReturns(o) \/ Interrupted(o)
    \/ Activate(o) \/ Retired(o)

PortStep(c) ==
    \/ LateEnds(c)
    \/ \E kind \in Kind : EndIO(c, kind) \/ IOFails(c, kind)
    \/ \E ok \in BOOLEAN : CloseEnds(c, ok)

Next ==
    \/ \E o \in Op : Connect(o) \/ OpStep(o)
    \/ \E c \in Conn : PortStep(c) \/ Disconnect(c)
    \/ \E c \in Conn, kind \in Kind : StartIO(c, kind)
    \/ LingeringEnds \/ ChangeNetwork \/ Close

Spec == Init /\ [][Next]_vars

\* Ports cooperate with cancellation and every wait has a timeout, so that a task
\* of the loop that can run is run and ends.
FairSpec ==
    /\ Spec
    /\ \A o \in Op : WF_vars(OpStep(o))
    /\ \A c \in Conn : WF_vars(PortStep(c))
    /\ WF_vars(LingeringEnds)

-----------------------------------------------------------------------------
\* An active connection was made under the current network generation: its address
\* is granted by the policy in force now, and nothing is active once the connector
\* is closed, although the generation may change while the last stage of an
\* operation cleans up its watchers (controller.py _connect, change_network).
ActiveCurrent ==
    \A c \in In({"active"}) : AddressAllowed(addr[c], policy) /\ ~closed

\* The sockets that exist, those of abandoned dials and of closes that failed
\* included, are never more than the largest max_connections, however operations,
\* retries and slow closes overlap and the network changes (controller.py connect,
\* _connect, change_network).
SocketsBounded ==
    Cardinality(Conn \ In({"free"})) <= MaxConnections

\* Once the connector is closed every operation ends and every connection, the late
\* ones included, is closed or kept as a failed one, with no read or write pending
\* on it (controller.py close, _abandon; stream.py close).
Drains ==
    closed ~> /\ Running = {} /\ Lingering = 0
              /\ \A c \in Conn : conn[c] \in {"free", "failed"} /\ io[c] = {}
=============================================================================

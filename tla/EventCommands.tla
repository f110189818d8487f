--------------------------- MODULE EventCommands ----------------------------
(***************************************************************************)
(* Local event commands end to end: the client that retains one operation  *)
(* (wp10/src/client.ts over commands.ts), the private descriptor it is     *)
(* bound to (node/framing.mjs, transport.py), the command mailbox of the   *)
(* owner (commands.py, with EventHost.publish) and the journal below it.   *)
(*                                                                         *)
(* A connection carries one request at a time: the client has one active   *)
(* exchange per binding and gives up the binding with an exchange it does  *)
(* not finish.  The owner notices the end of a connection later, and reads *)
(* what was sent before it.  A mailbox turn is synchronous, so only        *)
(* callbacks of the authority run inside one.  Frame sizes, ordinals,      *)
(* wire rendering of payloads and cleanup deadlines are left out, and so   *)
(* are attachments that may only inquire.                                  *)
(***************************************************************************)
EXTENDS EventJournal

CONSTANTS MaxConns,    \* bound on connections handed to the client
          MaxRequests  \* max_requests of the command mailbox

VARIABLES conns,   \* connections and the request each carries
          mailbox, \* _queue: connections with a queued command
          host,    \* EventHost: "OPEN", "FAILED" (_fault_code) or "CLOSED"
          client,  \* EventCommandClient
          told     \* the result the client just returned, for one step

ports == <<conns, mailbox, host, client, told>>
cvars == <<vars, ports>>

Conns == 1..MaxConns
Retainable == [op : Ops, input : Inputs, parents : SUBSET Ops]
Requests == [kind : {"publish", "inquire"}, op : Ops, input : Inputs, parents : SUBSET Ops,
             stage : {"sent", "queued", "cancelled", "running", "answered"}, fresh : BOOLEAN,
             answer : {None, "error", "rejected", "local-committed", "not-found-local", "outcome-unknown"},
             sequence : Nat \cup {None}, wrote : BOOLEAN]

ASSUME NoCommand ==
    /\ None \notin Retainable /\ None \notin Requests /\ None \notin Nat
    /\ None \notin {"publish", "inquire", "error", "rejected", "local-committed", "not-found-local",
                    "outcome-unknown", "conflict"}
Fresh == [link |-> "new", req |-> None]
Unbound == [bound |-> None, active |-> None, retained |-> None,
            requires |-> FALSE, known |-> None]

CInit ==
    /\ Init
    /\ conns = [c \in Conns |-> Fresh] /\ mailbox = <<>> /\ host = "OPEN"
    /\ client = Unbound /\ told = None

Quiet == UNCHANGED <<conns, mailbox, host, client>> /\ told' = None
Stage(c) == IF conns[c].req = None THEN "none" ELSE conns[c].req.stage
Serving == {c \in Conns : Stage(c) = "running"}

\* _requests: admitted and not yet released.
Admitted == Cardinality({c \in Conns : Stage(c) \in {"queued", "cancelled", "running"}})

-----------------------------------------------------------------------------
(* The client *)

\* An answer is kept while someone may read it.
Kept(link, req) == IF link = "ended" /\ req # None /\ req.stage = "answered" THEN None ELSE req

\* The channel of a retired binding is closed; its owner has yet to notice.
Hung(c) ==
    IF c = None THEN conns
    ELSE IF conns[c].link = "gone" THEN [conns EXCEPT ![c].req = None]
    ELSE [conns EXCEPT ![c] = [link |-> "ended", req |-> Kept("ended", @.req)]]

\* #retire: an exchange still active leaves its outcome to an inquiry.
RequiresKept(cl) == cl.requires
Requires(cl) == cl.requires \/ cl.active # None
Retired(cl) == [cl EXCEPT !.bound = None, !.active = None, !.requires = Requires(cl)]

\* attach and the hello frame.
Attached(conn) == [conn EXCEPT !.link = "ready"]

\* rebind to a fresh connection whose hello names the client's own context.
Rebind(c) ==
    /\ host = "OPEN" /\ conns[c].link = "new" /\ \A d \in 1..(c - 1) : conns[d].link # "new"
    /\ client.active = None
    /\ client' = [Retired(client) EXCEPT !.bound = c]
    /\ conns' = [Hung(client.bound) EXCEPT ![c] = Attached(@)]
    /\ told' = None
    /\ UNCHANGED <<vars, mailbox, host>>

\* ConnectedPrivateChannel.request
Send(c, kind, retained) ==
    conns' = [conns EXCEPT ![c].req =
                [kind |-> kind, op |-> retained.op, input |-> retained.input, parents |-> retained.parents,
                 stage |-> "sent", fresh |-> FALSE, answer |-> None, sequence |-> None, wrote |-> FALSE]]

\* EventCommandClient.publish and EventCommands.publish.
ClientPublish(retained) ==
    /\ client.active = None /\ client.bound # None /\ ~client.requires
    /\ client.retained # None /\ client.retained.op = retained.op => client.retained = retained
    /\ client' = [client EXCEPT !.active = "publish", !.retained = retained,
                     !.known = IF client.retained # None /\ client.retained.op = retained.op THEN @ ELSE None]
    /\ Send(client.bound, "publish", retained)
    /\ told' = None
    /\ UNCHANGED <<vars, mailbox, host>>

ClientInquire ==
    /\ client.active = None /\ client.bound # None /\ client.retained # None
    /\ client' = [client EXCEPT !.active = "inquire"]
    /\ Send(client.bound, "inquire", client.retained)
    /\ told' = None
    /\ UNCHANGED <<vars, mailbox, host>>

Tell(kind, req) ==
    told' = [kind |-> kind, op |-> req.op, input |-> IF req.kind = "publish" THEN req.input ELSE None,
             sequence |-> req.sequence, wrote |-> req.wrote]

\* What the client answers for an exchange that failed: it never guesses.
UnknownAs(kind) == IF kind = "publish" THEN "outcome-unknown" ELSE "inquiry-unavailable"

\* An observation that contradicts the receipt the client holds.
Contradicts(req) ==
    /\ client.known # None
    /\ req.answer = "not-found-local" \/ (req.answer = "local-committed" /\ req.sequence # client.known)

\* requiresInquiry after an answer.
StillRequires(req) ==
    IF req.answer = "local-committed" THEN FALSE
    ELSE req.kind = "inquire" \/ req.answer = "outcome-unknown"

\* #perform after its await: the answer of this binding arrived.
ClientReceive ==
    LET c == client.bound
        req == conns[c].req
        idle == [client EXCEPT !.active = None]
    IN /\ client.active # None /\ Stage(c) = "answered"
       /\ \/ /\ req.answer # "error" /\ ~Contradicts(req) /\ req.answer # "outcome-unknown"
             /\ client' = [idle EXCEPT !.requires = StillRequires(req),
                              !.known = IF req.answer = "local-committed" THEN req.sequence ELSE @]
             /\ conns' = [conns EXCEPT ![c].req = None]
             /\ Tell(req.answer, req)
          \/ /\ req.answer \in {"error", "outcome-unknown"} \/ Contradicts(req)
             /\ client' = [Retired(client) EXCEPT !.requires = TRUE]
             /\ conns' = [Hung(c) EXCEPT ![c].req = None]
             /\ Tell(IF req.answer = "error" THEN UnknownAs(req.kind)
                     ELSE IF Contradicts(req) THEN "conflict" ELSE req.answer, req)
       /\ UNCHANGED <<vars, mailbox, host>>

\* Abort, timeout, disconnection or supersession: the exchange is abandoned.
ClientAbandon ==
    /\ client.active # None
    /\ client' = Retired(client) /\ conns' = Hung(client.bound)
    /\ Tell(UnknownAs(client.active), [kind |-> client.active, op |-> client.retained.op,
                                       input |-> client.retained.input, sequence |-> None, wrote |-> FALSE])
    /\ UNCHANGED <<vars, mailbox, host>>

\* The client process is replaced: restoreUnknown of the input the caller kept.
RestoreUnknown ==
    /\ client.retained # None
    /\ client' = [Unbound EXCEPT !.retained = client.retained, !.requires = TRUE]
    /\ conns' = Hung(client.bound) /\ told' = None
    /\ UNCHANGED <<vars, mailbox, host>>

-----------------------------------------------------------------------------
(* The owner's side of a connection: _serve_service *)

\* EventCommandHost.request: an open host, and room in the mailbox.
Admits == host = "OPEN" /\ Admitted < MaxRequests

ServeRead(c) ==
    /\ call = None /\ conns[c].link \in {"ready", "ended"} /\ Stage(c) = "sent"
    /\ IF Admits
       THEN conns' = [conns EXCEPT ![c].req.stage = "queued"] /\ mailbox' = Append(mailbox, c)
       ELSE /\ conns' = [conns EXCEPT ![c].req =
                             Kept(conns[c].link, [@ EXCEPT !.stage = "answered", !.answer = "error"])]
            /\ UNCHANGED mailbox
    /\ told' = None
    /\ UNCHANGED <<vars, host, client>>

\* The cancel frame an abandoning client sends before it hangs up.
ServeCancel(c) ==
    /\ call = None /\ conns[c].link = "ended" /\ Stage(c) = "queued"
    /\ conns' = [conns EXCEPT ![c].req.stage = "cancelled"]
    /\ told' = None
    /\ UNCHANGED <<vars, mailbox, host, client>>

\* _cancel takes the command of a connection out of the queue.
Withdrawn(c) == SelectSeq(mailbox, LAMBDA d : d # c)

\* The finally of _serve_service: futures cancelled, channel detached.  An answer
\* already written may still reach the client.
Detached(c, req) == [link |-> "gone", req |-> req]
ServeEnds(c) ==
    /\ call = None /\ conns[c].link \in {"ready", "ended"}
    /\ \E req \in {None, conns[c].req} :
          /\ req # None => req.stage = "answered"
          /\ conns' = [conns EXCEPT ![c] = Detached(c, req)]
    /\ mailbox' = Withdrawn(c) /\ told' = None
    /\ UNCHANGED <<vars, host, client>>

\* _cancel, the done callback of a cancelled future, or _drain popping it first.
ReleaseCancelled(c) ==
    /\ call = None /\ Stage(c) = "cancelled"
    /\ conns' = [conns EXCEPT ![c].req = None] /\ mailbox' = Withdrawn(c)
    /\ told' = None
    /\ UNCHANGED <<vars, host, client>>

-----------------------------------------------------------------------------
(* _drain and _execute *)

\* The final observation of EventHost.publish; ok is whether it succeeded.
Refreshes(ok) ==
    /\ ok => journal' = "open" /\ Authorized(FALSE)
    /\ host' = IF ok THEN host ELSE "FAILED"

Reply(c, answer, sequence) ==
    /\ LET wrote == conns[c].req.fresh /\ \E n \in DOMAIN events' : events'[n].op = conns[c].req.op
       IN conns' = [conns EXCEPT ![c].req = Kept(conns[c].link,
              [@ EXCEPT !.stage = "answered", !.answer = answer, !.sequence = sequence, !.wrote = wrote])]
    /\ told' = None
    /\ UNCHANGED client

\* A receipt is reported only when the observation after it succeeded.
ReceiptAs(ok) == IF ok THEN "local-committed" ELSE "outcome-unknown"

\* Any journal error but EVENT_OUTCOME_UNKNOWN precedes an uncertain commit.
DoubtRejected(ok) == IF ok THEN "outcome-unknown" ELSE "rejected"
DoubtAs(ok) == "outcome-unknown"

Popped(c) == call = None /\ mailbox # <<>> /\ c = Head(mailbox) /\ Stage(c) = "queued" /\ mailbox' = Tail(mailbox)

ExecuteFailed(c) ==
    /\ Popped(c) /\ host # "OPEN"
    /\ UNCHANGED <<vars, host>> /\ Reply(c, "error", None)

\* inspect_operation under the read guard: the answer and its sequence.
Inspected(op) ==
    IF ~Enter(FALSE) THEN <<"rejected", None>>
    ELSE IF op \in Committed THEN <<"local-committed", Sequence(op)>>
    ELSE <<"not-found-local", None>>

ExecuteInquire(c) ==
    /\ Popped(c) /\ host = "OPEN" /\ conns[c].req.kind = "inquire"
    /\ UNCHANGED <<vars, host>>
    /\ LET seen == Inspected(conns[c].req.op) IN Reply(c, seen[1], seen[2])

\* publish of an operation that is already committed, with its own input.
ExecuteAgain(c, ok) ==
    LET req == conns[c].req
    IN /\ Popped(c) /\ host = "OPEN" /\ req.kind = "publish"
       /\ PublishAgain(req.op, req.input) /\ Refreshes(ok)
       /\ Reply(c, ReceiptAs(ok), IF ok THEN Sequence(req.op) ELSE None)

\* publish refused before its first transaction.
ExecuteRefused(c, ok) ==
    LET req == conns[c].req
    IN /\ Popped(c) /\ host = "OPEN" /\ req.kind = "publish"
       /\ \/ ~Enter(TRUE)
          \/ req.op \in Committed /\ ~Replays(req.op, req.input)
          \/ req.op \notin Committed /\ ~(Present(req.parents) /\ Room)
       /\ UNCHANGED vars /\ Refreshes(ok)
       /\ Reply(c, "rejected", None)

ExecutePublish(c) ==
    LET req == conns[c].req
    IN /\ Popped(c) /\ host = "OPEN" /\ req.kind = "publish"
       /\ PublishBegin(req.op, req.input, req.parents)
       /\ conns' = [conns EXCEPT ![c].req = [@ EXCEPT !.stage = "running", !.fresh = TRUE]]
       /\ told' = None /\ UNCHANGED <<host, client>>

\* The ends of the publish a command started.
PublishCommitted(c, ok) ==
    /\ c \in Serving /\ Commit /\ Refreshes(ok) /\ UNCHANGED mailbox
    /\ Reply(c, ReceiptAs(ok), IF ok THEN call.tail + 1 ELSE None)
PublishRolledBack(c, ok) ==
    /\ c \in Serving /\ RollBack /\ Refreshes(ok) /\ UNCHANGED mailbox
    /\ Reply(c, "rejected", None)
PublishDoubtful(c) ==
    /\ c \in Serving /\ Doubt(Effect) /\ Refreshes(FALSE) /\ UNCHANGED mailbox
    /\ Reply(c, DoubtAs(FALSE), None)

-----------------------------------------------------------------------------
(* The embedding owner: command host, event host and journal end together. *)

Ended == [c \in Conns |-> IF conns[c].link = "new" THEN conns[c]
                          ELSE Detached(c, IF Stage(c) = "answered" THEN conns[c].req ELSE None)]
OwnerEnds ==
    /\ Close \/ Crash(Effect)
    /\ conns' = Ended /\ mailbox' = <<>> /\ host' = "CLOSED" /\ told' = None
    /\ UNCHANGED client
OwnerOpens ==
    /\ Reopen /\ host' = "OPEN" /\ told' = None
    /\ UNCHANGED <<conns, mailbox, client>>

OwnerCalls ==
    \/ Serving = {} /\ Calls /\ Quiet
    \/ Serving # {} /\ Reserve /\ Quiet
    \/ ChangesAuthority /\ Quiet

CNext ==
    \/ OwnerCalls \/ OwnerEnds \/ OwnerOpens
    \/ \E retained \in Retainable : retained.op \notin retained.parents /\ ClientPublish(retained)
    \/ ClientInquire \/ ClientReceive \/ ClientAbandon \/ RestoreUnknown
    \/ \E c \in Conns : Rebind(c) \/ ServeRead(c) \/ ServeCancel(c) \/ ServeEnds(c) \/ ReleaseCancelled(c)
    \/ \E c \in Conns : ExecuteFailed(c) \/ ExecuteInquire(c) \/ ExecutePublish(c) \/ PublishDoubtful(c)
    \/ \E c \in Conns, ok \in BOOLEAN : ExecuteAgain(c, ok) \/ ExecuteRefused(c, ok)
                                        \/ PublishCommitted(c, ok) \/ PublishRolledBack(c, ok)

CSpec == CInit /\ [][CNext]_cvars

-----------------------------------------------------------------------------
\* Every receipt of the journal stays true (ReceiptsTrue), and what the client is
\* told is so: `local-committed' names the durable event of its operation (and of
\* its input, for a publish), `rejected' means that this publish wrote no event
\* although its journal call may have failed at any fence, and no later
\* observation contradicts a receipt the client holds.
ToldTrue ==
    /\ ReceiptsTrue
    /\ told # None =>
          /\ told.kind = "local-committed" =>
                /\ told.sequence \in DOMAIN events /\ events[told.sequence].op = told.op
                /\ told.input # None => events[told.sequence].input = told.input
          /\ told.kind = "rejected" => ~told.wrote
          /\ told.kind # "conflict"

\* A client that may publish its retained operation again (no exchange, no
\* inquiry required, no receipt) has no earlier publish of it left that could still
\* write: not on the wire of an abandoned connection, queued, or running.
NoneInFlight ==
    (client.active = None /\ ~client.requires /\ client.known = None /\ client.retained # None) =>
        \A c \in Conns : Stage(c) \in {"sent", "queued", "running"} =>
            \/ conns[c].req.kind = "inquire" \/ conns[c].req.op # client.retained.op
            \/ client.retained.op \in Committed
=============================================================================

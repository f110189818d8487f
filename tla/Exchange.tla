------------------------------ MODULE Exchange ------------------------------
(***************************************************************************)
(* Reading another peer's records (product/wp04/exchange.py and the TLS      *)
(* session of product/wp09/par_secure_transport/read_session.py).  The peer  *)
(* answers one signed question per connection out of a catalogue, names the  *)
(* catalogue by a token that is a hash of its contents, and drops the answer *)
(* when the catalogue changes before the last byte of it is written.  There  *)
(* are two ways to ask: a one-shot client on a local socket (link), whose     *)
(* record goes straight into the inbox, and a session of the fetch owner     *)
(* (sess), which several steps of an asynchronous job open, use and close.   *)
(* Framing, signatures and schema checks are left out; any of them may fail  *)
(* at any step.                                                              *)
(***************************************************************************)
EXTENDS Inbox

CONSTANTS
    Catalogues,   \* what the peer may come to offer
    Transfers,    \* those the local client asks for
    MaxLive       \* bound on the sessions open at once

VARIABLES
    offer,        \* the peer's catalogue; its token is taken to be the set
    link,         \* the local socket: None or [want, guard]
    sess,         \* the owner's session: None or [at, ask, token]
    live,         \* TLS streams of the owner that are open
    stray         \* history: those of them no one will close

peerVars == <<offer, link, sess, live, stray>>

PeerInit ==
    /\ offer \in Catalogues
    /\ link = None /\ sess = None /\ live = 0 /\ stray = 0

-----------------------------------------------------------------------------
(* Source: the catalogue and the answers given from it.                      *)

\* catalog(): refused while two records of the peer claim one slot.
Catalog == {offer} \cap {S \in SUBSET Record : ~Conflict(S)}

Need(want) == [kind |-> "need", want |-> want, snap |-> None]
Have(want, snap) == [kind |-> "have", want |-> want, snap |-> snap]
Get(r, snap) == [kind |-> "get", want |-> {r}, snap |-> snap]

\* answer(): a later page and a record are served only from the named snapshot.
Answerable(ask, token) ==
    /\ ask.snap # None => ask.snap = token                          \* STALE_VIEW
    /\ ask.kind = "get" => ask.want \subseteq token                 \* NOT_OBSERVED

\* The peer receives or writes records, or starts again with a new inbox.
PeerChanges ==
    /\ offer' \in Catalogues \ {offer}
    /\ UNCHANGED <<link, sess, live, stray>>

-----------------------------------------------------------------------------
(* Server and Client: one connection of the local socket.                    *)

\* _accept() and _read(): an answer that cannot be given is an error reply, which
\* ends the exchange and leaves nothing.
Server_read(r) ==
    /\ link = None
    /\ \E token \in Catalog :
          /\ Answerable(Get(r, token), token)
          /\ link' = [want |-> r, guard |-> token]
    /\ UNCHANGED <<offer, sess, live, stray>>

\* Every chunk is written under the catalogue the answer was made from.
Server_write ==
    /\ link # None /\ link.guard \notin Catalog
    /\ link' = None
    /\ UNCHANGED <<offer, sess, live, stray>>

\* Deadline, disconnection, close(): OUTCOME_UNKNOWN for the client.
Server_drop ==
    /\ link # None
    /\ link' = None
    /\ UNCHANGED <<offer, sess, live, stray>>

\* The last chunk arrives and transfer_one() has the inbox receive the record,
\* whatever else it holds by now.
TransferOne ==
    /\ link # None /\ link.guard \in Catalog
    /\ Receives(link.want)
    /\ link' = None
    /\ UNCHANGED <<offer, sess, live, stray>>

-----------------------------------------------------------------------------
(* ReadSession: open, ask, be served, close.                                 *)

SessionStarts(ask) == sess' = [at |-> "opening", ask |-> ask, token |-> None]

\* serve(): the token is taken before the answer and checked against it.
SessionServed ==
    /\ sess # None /\ sess.at = "asked"
    /\ \E token \in Catalog :
          /\ Answerable(sess.ask, token)
          /\ sess' = [sess EXCEPT !.at = "served", !.token = token]
    /\ UNCHANGED <<offer, link, live, stray>>

\* check_response: a signed reply is held against the question it answers.
ReplyChecked(ask, token) == ask.snap # None => token = ask.snap     \* RESPONSE_SCHEMA

\* request(): every frame is received under a valid authority; the whole answer
\* arrives only if the catalogue was still the same when it was sent.
SessionAnswered ==
    /\ sess # None /\ sess.at = "served"
    /\ authority
    /\ sess.token \in Catalog /\ ReplyChecked(sess.ask, sess.token)
    /\ sess' = [sess EXCEPT !.at = "closing"]
    /\ UNCHANGED <<offer, link, live, stray>>

\* An error, a cancellation or a deadline aborts the stream.
SessionAborts ==
    /\ sess # None /\ sess.at \in {"asked", "served"}
    /\ sess' = [sess EXCEPT !.at = "closing", !.token = None]
    /\ UNCHANGED <<offer, link, live, stray>>
=============================================================================

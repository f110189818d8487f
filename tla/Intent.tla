------------------------------- MODULE Intent -------------------------------
(***************************************************************************)
(* Durable application intents (product/wp09/par_application_intent): an    *)
(* append-only journal of events, a pin kept outside it that fences its     *)
(* prefix, and the coordinator that prepares an intent, dispatches it once, *)
(* applies it to the document and records the receipt.  Journal, pin and    *)
(* document ledger are three stores without a common transaction: a step    *)
(* may fail or the process be killed between any two of their writes.       *)
(***************************************************************************)
EXTENDS Naturals, Sequences, FiniteSets

CONSTANTS
    Ops,          \* operation identities of this owner's intents
    OtherOps,     \* operations applied to the document by someone else
    Revisions,    \* expected revisions an intent may name
    TargetSets,   \* the targets of a controller
    Views,        \* digests of the authority and the inputs an intent is bound to
    MaxEvents,    \* MAX_EVENTS
    MaxIntents,   \* MAX_INTENTS
    None

VARIABLES
    log,       \* events/: the complete event files
    torn,      \* an incomplete event file follows them
    pin,       \* pin.json: how many events the pin fences
    pending,   \* pending.json was left behind
    handle,    \* the journal handle: "closed", "open" or "poisoned"
    ledger,    \* document_apply_events, in order of revision
    certain,   \* ~DocumentApplier._uncertain
    call,      \* the execute() in progress, or None
    reply      \* the last result the coordinator returned, or None

vars == <<log, torn, pin, pending, handle, ledger, certain, call, reply>>
stores == <<log, torn, pin, pending, handle>>

\* The digest of an intent covers all of it, so an intent is its own digest.
Intents == [op : Ops, expected : Revisions, targets : TargetSets, view : Views]
\* What the document ledger keeps of an intent.
Key(i) == [op |-> i.op, targets |-> i.targets, expected |-> i.expected]

-----------------------------------------------------------------------------
(* IntentJournal._transition, and _reload as its fold over the events.      *)

Empty == [state |-> "EMPTY", intent |-> None, receipt |-> None, used |-> {}]
Corrupt == [state |-> "CORRUPT", intent |-> None, receipt |-> None, used |-> {}]

\* Mutant: an intent whose outcome is not known may be given up.
AbandonableUnresolved == {"PREPARED", "DISPATCHED"}
Abandonable == {"PREPARED"}
Settled == {"EMPTY", "RETIRED", "ABANDONED"}
Needs(kind) ==
    CASE kind = "PREPARE"  -> Settled
      [] kind = "DISPATCH" -> {"PREPARED"}
      [] kind = "OBSERVE"  -> {"DISPATCHED", "OBSERVED"}
      [] kind = "RETIRE"   -> {"OBSERVED"}
      [] kind = "ABANDON"  -> Abandonable
Becomes(kind) ==
    CASE kind = "PREPARE"  -> "PREPARED"
      [] kind = "DISPATCH" -> "DISPATCHED"
      [] kind = "OBSERVE"  -> "OBSERVED"
      [] kind = "RETIRE"   -> "RETIRED"
      [] kind = "ABANDON"  -> "ABANDONED"

\* check_receipt: the structural binding of a ledger row to the intent.
CheckReceipt(i, row) == row.op = i.op /\ row.revision = i.expected + 1

Fresh(s, i) == i.op \notin {u.op : u \in s.used}

Transition(s, e) ==
    LET fits == /\ s.state \in Needs(e.kind)
                /\ IF e.kind = "PREPARE"
                   THEN Fresh(s, e.intent) /\ Cardinality(s.used) < MaxIntents
                   ELSE e.intent = s.intent
                /\ e.kind = "OBSERVE" => /\ CheckReceipt(s.intent, e.receipt)
                                         /\ s.receipt \in {None, e.receipt}
    IN  IF ~fits THEN Corrupt
        ELSE [state   |-> Becomes(e.kind),
              intent  |-> e.intent,
              receipt |-> IF e.kind \in {"PREPARE", "OBSERVE"} THEN e.receipt ELSE s.receipt,
              used    |-> IF e.kind = "PREPARE" THEN s.used \cup {e.intent} ELSE s.used]

Reload(events) ==
    LET after[k \in 0 .. Len(events)] == IF k = 0 THEN Empty ELSE Transition(after[k - 1], events[k])
    IN after[Len(events)]
Journal == Reload(log)
Event(kind, i, receipt) == [kind |-> kind, intent |-> i, receipt |-> receipt]

-----------------------------------------------------------------------------
Init ==
    /\ log = <<>> /\ torn = FALSE
    /\ pin = 0 /\ pending = FALSE
    /\ handle = "open"
    /\ ledger = <<>> /\ certain = TRUE
    /\ call = None /\ reply = None

(* _append: the event file is created, written and synced, then the pin     *)
(* advances.  It succeeds only past the last stage; an exception after any  *)
(* stage poisons the handle, a kill closes it.                              *)
Stages == {"nothing", "torn", "written", "pending", "pinned"}

Reached(e, stage) ==
    /\ log' = IF stage \in {"written", "pending", "pinned"} THEN Append(log, e) ELSE log
    /\ torn' = (torn \/ stage = "torn")
    /\ pending' = (pending \/ stage = "pending")
    /\ pin' = IF stage = "pinned" THEN Len(log) + 1 ELSE pin

Room == Len(log) < MaxEvents

Appendable(e) ==
    /\ handle = "open"
    /\ Room
    /\ Transition(Journal, e) # Corrupt

Appends(e) ==
    /\ Appendable(e)
    /\ Reached(e, "pinned")
    /\ UNCHANGED handle

AppendFails(e) ==
    /\ Appendable(e)
    /\ \E stage \in Stages : Reached(e, stage)
    /\ handle' \in {"poisoned", "closed"}

-----------------------------------------------------------------------------
(* open_anchored: the pinned prefix must be there; a recovered tail is      *)
(* fenced before the handle is returned.                                    *)

Readable == ~torn /\ ~pending /\ Journal # Corrupt /\ pin <= Len(log)

\* open: the lease is free and the journal reloads from the pin.
Reopenable == handle = "closed" /\ Readable

Open ==
    /\ Reopenable
    /\ pin' = Len(log)
    /\ handle' = "open"
    /\ certain' = TRUE
    /\ UNCHANGED <<log, torn, pending, ledger, call, reply>>

\* The pin could not be advanced, before or after its replacement.
OpenFails ==
    /\ Reopenable
    /\ pin # Len(log)
    /\ \/ pending' = TRUE /\ UNCHANGED pin
       \/ pin' = Len(log) /\ UNCHANGED pending
    /\ UNCHANGED <<log, torn, handle, ledger, certain, call, reply>>

\* close(), or the process is killed, at any point.
Close ==
    /\ handle # "closed"
    /\ handle' = "closed"
    /\ call' = None
    /\ UNCHANGED <<log, torn, pin, pending, ledger, certain, reply>>

-----------------------------------------------------------------------------
(* The document ledger (DocumentApplier), as the coordinator uses it.       *)

Row(op) == {r \in DOMAIN ledger : ledger[r].op = op}
Applied == {ledger[r].op : r \in DOMAIN ledger}
Receipt(op) == [op |-> op, revision |-> CHOOSE r \in Row(op) : TRUE]
Conflicts(i) == \E r \in Row(i.op) : ledger[r] # Key(i)

OtherApplies(op) ==
    /\ Row(op) = {}
    /\ \E t \in TargetSets :
          ledger' = Append(ledger, [op |-> op, targets |-> t, expected |-> Len(ledger)])
    /\ UNCHANGED <<stores, certain, call, reply>>

-----------------------------------------------------------------------------
(* DurableApplication.  A precondition on the authority, the observation or *)
(* the inputs can refuse at any point before the dispatch without effect.   *)

Idle == handle = "open" /\ call = None /\ Journal # Corrupt
Current(i) == Journal.intent = i
Says(kind, i) == reply' = [kind |-> kind, intent |-> i]

Prepare(i) ==
    /\ Idle
    /\ certain
    /\ Journal.state \in Settled
    /\ Row(i.op) = {}
    /\ Len(ledger) = i.expected
    /\ \/ Appends(Event("PREPARE", i, None)) /\ Says("PREPARED", i)
       \/ AppendFails(Event("PREPARE", i, None)) /\ UNCHANGED reply
    /\ UNCHANGED <<ledger, certain, call>>

\* Refused before the dispatch: CORE_BLOCKED, CANCELLED, REJECTED.
ExecuteRefused(i) ==
    /\ Idle /\ Current(i)
    /\ Journal.state = "PREPARED"
    /\ Says("REJECTED", i)
    /\ UNCHANGED <<stores, ledger, certain, call>>

ExecuteDispatch(i) ==
    /\ Idle /\ Current(i)
    /\ Journal.state = "PREPARED"
    /\ \/ Appends(Event("DISPATCH", i, None)) /\ call' = [intent |-> i, step |-> "apply"]
       \/ AppendFails(Event("DISPATCH", i, None)) /\ UNCHANGED call
    /\ reply' = None
    /\ UNCHANGED <<ledger, certain>>

InCall(i, step) == handle = "open" /\ call = [intent |-> i, step |-> step]

\* What an exception after the dispatch is reported as.
Failure == "OUTCOME_UNKNOWN"

\* Cancelled, expired, or the authority or the inputs changed meanwhile.
ExecuteStops(i) ==
    /\ \E step \in {"apply", "observe", "return"} : InCall(i, step)
    /\ Says(Failure, i)
    /\ call' = None
    /\ UNCHANGED <<stores, ledger, certain>>

\* apply(): an earlier row answers, else the frontier must be the expected one.
ExecuteApply(i) ==
    /\ InCall(i, "apply")
    /\ certain /\ ~Conflicts(i)
    /\ \/ Row(i.op) # {} /\ UNCHANGED ledger
       \/ Row(i.op) = {} /\ Len(ledger) = i.expected /\ ledger' = Append(ledger, Key(i))
    /\ call' = [intent |-> i, step |-> "observe"]
    /\ UNCHANGED <<stores, certain, reply>>

\* apply() raises after its COMMIT was attempted, or refuses.
ExecuteApplyFails(i) ==
    /\ InCall(i, "apply")
    /\ certain
    /\ \/ UNCHANGED <<ledger, certain>>
       \/ /\ Row(i.op) = {} /\ Len(ledger) = i.expected
          /\ ledger' \in {ledger, Append(ledger, Key(i))}
          /\ certain' = FALSE
    /\ Says(Failure, i)
    /\ call' = None
    /\ UNCHANGED stores

ExecuteObserve(i) ==
    /\ InCall(i, "observe")
    /\ LET e == Event("OBSERVE", i, Receipt(i.op))
       IN  \/ Appends(e) /\ call' = [intent |-> i, step |-> "return"]
           \/ AppendFails(e) /\ call' = None
    /\ UNCHANGED <<ledger, certain, reply>>

ExecuteReturns(i) ==
    /\ InCall(i, "return")
    /\ Says("OBSERVED", i)
    /\ call' = None
    /\ UNCHANGED <<stores, ledger, certain>>

\* inquire(): the ledger is asked for the original operation.
InquireNothing(i) ==
    /\ Idle /\ Current(i)
    /\ certain
    /\ Row(i.op) = {}
    /\ Says(IF Journal.receipt = None THEN "NOT_OBSERVED" ELSE "INQUIRY_FAILED", i)
    /\ UNCHANGED <<stores, ledger, certain, call>>

Found(i) == certain /\ Row(i.op) # {} /\ ~Conflicts(i) /\ CheckReceipt(i, Receipt(i.op))

Inquire(i) ==
    /\ Idle /\ Current(i)
    /\ Found(i)
    /\ \/ /\ Journal.state = "DISPATCHED"
          /\ LET e == Event("OBSERVE", i, Receipt(i.op))
             IN  \/ Appends(e) /\ Says("OBSERVED", i)
                 \/ AppendFails(e) /\ UNCHANGED reply
       \/ /\ Journal.state \in {"OBSERVED", "RETIRED"}
          /\ Says(IF Journal.receipt = Receipt(i.op) THEN "OBSERVED" ELSE "INQUIRY_FAILED", i)
          /\ UNCHANGED stores
       \/ /\ Journal.state \in {"PREPARED", "ABANDONED"}     \* UNEXPECTED_APPLICATION_RECORD
          /\ Says("INQUIRY_FAILED", i)
          /\ UNCHANGED stores
    /\ UNCHANGED <<ledger, certain, call>>

InquireFails(i) ==
    /\ Idle /\ Current(i)
    /\ ~certain \/ Conflicts(i)
    /\ Says("INQUIRY_FAILED", i)
    /\ UNCHANGED <<stores, ledger, certain, call>>

Retire(i) ==
    /\ Idle /\ Current(i)
    /\ Journal.state = "OBSERVED"
    /\ Found(i) /\ Journal.receipt = Receipt(i.op)
    /\ \/ Appends(Event("RETIRE", i, None)) /\ Says("RETIRED", i)
       \/ AppendFails(Event("RETIRE", i, None)) /\ UNCHANGED reply
    /\ UNCHANGED <<ledger, certain, call>>

Abandon(i) ==
    /\ Idle /\ Current(i)
    /\ \/ Appends(Event("ABANDON", i, None)) /\ Says("ABANDONED", i)
       \/ AppendFails(Event("ABANDON", i, None)) /\ UNCHANGED reply
    /\ UNCHANGED <<ledger, certain, call>>

Next ==
    \/ Open \/ OpenFails \/ Close
    \/ \E op \in OtherOps : OtherApplies(op)
    \/ \E i \in Intents :
          \/ Prepare(i) \/ ExecuteRefused(i) \/ ExecuteDispatch(i) \/ ExecuteStops(i)
          \/ ExecuteApply(i) \/ ExecuteApplyFails(i) \/ ExecuteObserve(i) \/ ExecuteReturns(i)
          \/ InquireNothing(i) \/ Inquire(i) \/ InquireFails(i) \/ Retire(i) \/ Abandon(i)

Spec == Init /\ [][Next]_vars

-----------------------------------------------------------------------------
\* The pin never names more than the journal holds, and at most one event past
\* it, so that after any crash open_anchored finds the fenced prefix; and the
\* journal accepts whatever it wrote itself.
PrefixFenced ==
    /\ pin <= Len(log) /\ Len(log) <= pin + 1
    /\ handle = "open" => pin = Len(log) /\ ~torn /\ ~pending
    /\ Journal # Corrupt

Dispatched(op) == \E k \in DOMAIN log : log[k].kind = "DISPATCH" /\ log[k].intent.op = op

\* Write-ahead: an operation is in the document ledger only if its dispatch is in
\* the durable journal, so no crash leaves an applied operation the owner would
\* execute a second time under a new intent.
DispatchedBeforeApplied == \A r \in DOMAIN ledger : ledger[r].op \in Ops => Dispatched(ledger[r].op)

\* The journal's verdicts are true of the ledger: an abandoned operation was never
\* applied, an observed or retired one was, at the revision of its receipt.
VerdictsTrue ==
    \A k \in DOMAIN log :
        LET i == log[k].intent
        IN  /\ log[k].kind = "ABANDON" => Row(i.op) = {}
            /\ log[k].kind = "OBSERVE" => /\ log[k].receipt.revision \in DOMAIN ledger
                                          /\ ledger[log[k].receipt.revision] = Key(i)
            /\ log[k].kind = "RETIRE" => Row(i.op) # {}

=============================================================================

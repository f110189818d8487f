--------------------------- MODULE AuthorityChain ---------------------------
(***************************************************************************)
(* The signed control history of a space (experiments/space-auth/par_auth): *)
(* AuthorityState as a value and its operations as functions of that value. *)
(*                                                                         *)
(* A control entry is known by its bytes; its decoded body, the membership  *)
(* pages behind a root and the key packages that open under an epoch are    *)
(* constants.  A member is a device under one certificate, so a device that *)
(* was certified again is another member.  Signatures, schemas, the byte    *)
(* budget of a history and the opaque seed blocks are left out.             *)
(***************************************************************************)
EXTENDS Naturals, Sequences

CONSTANTS
    Controls, Entry,     \* control entries, and the body of each
    Genesis,             \* the genesis body of each space: [key, root]
    Members, Role,       \* members, and Role[root][member] (0: not listed)
    Packages, Package,   \* activation materials: [member, anchor, secret]
    MaxControls,         \* max_controls
    Absent               \* None

\* control-body: action 1 founds the space, 2 changes members without access to
\* content, 3 opens an epoch, 4 rotates the authority key, 5 changes nothing.
\* "material" stands for the three epoch roots.
ControlBody ==
    [space : DOMAIN Genesis, seq : Nat, epoch : Nat,
     parent : Controls \cup {Absent}, action : 1 .. 5, root : DOMAIN Role,
     material : Nat \cup {Absent}, key : Nat, next : Nat \cup {Absent}]

ASSUME ChainAssumption ==
    /\ Entry \in [Controls -> ControlBody]
    /\ \A m \in DOMAIN Role : Role[m] \in [Members -> 0 .. 3]
    /\ MaxControls \in Nat \ {0}

\* What the replay of a history's events rebuilds: the accepted entries, whether
\* the membership of the last one was verified, the competing entry of a fork,
\* and whether a verified membership broke the authority's own policy.
Unfounded == [chain |-> <<>>, resolved |-> FALSE, fork |-> Absent, invalid |-> FALSE]

KnownHead(h) == IF h.chain = <<>> THEN Absent ELSE h.chain[Len(h.chain)]
KnownEpoch(h) == IF h.chain = <<>> THEN 0 ELSE Entry[KnownHead(h)].epoch
\* The entry that opened the epoch of the i-th entry.
AnchorAt(h, i) ==
    LET opens(j) == /\ Entry[h.chain[j]].action \in {1, 3}
                    /\ Entry[h.chain[j]].epoch = Entry[h.chain[i]].epoch
    IN h.chain[CHOOSE j \in 1 .. i : opens(j)]
EpochAnchor(h) == AnchorAt(h, Len(h.chain))
Position(h, c) == CHOOSE i \in DOMAIN h.chain : h.chain[i] = c
Knows(h, c) == \E i \in DOMAIN h.chain : h.chain[i] = c
\* membership_at: the last entry's membership may still be missing.
ResolvedAt(h, c) == Knows(h, c) /\ (c = KnownHead(h) => h.resolved)

Blocked(h) == h.fork # Absent \/ h.invalid

-----------------------------------------------------------------------------
(* observe *)

AuthorityAfter(s, h, i) ==
    IF i = 0 THEN Genesis[s].key
    ELSE LET e == Entry[h.chain[i]] IN IF e.next # Absent THEN e.next ELSE e.key

\* _inspect: an entry that follows the entry before its own position.
Inspect(s, h, c) ==
    LET e == Entry[c]
        old == Entry[h.chain[e.seq - 1]]
    IN /\ e.space = s
       /\ e.seq \in 1 .. Len(h.chain) + 1
       /\ e.parent = IF e.seq = 1 THEN Absent ELSE h.chain[e.seq - 1]
       /\ e.key = AuthorityAfter(s, h, e.seq - 1)
       /\ e.material # Absent
       /\ IF e.seq = 1
          THEN e.action = 1 /\ e.epoch = 1 /\ e.root = Genesis[s].root
          ELSE /\ e.action # 1
               /\ e.epoch = old.epoch + (IF e.action = 3 THEN 1 ELSE 0)
               /\ IF e.action = 3
                  THEN \A i \in 1 .. e.seq - 1 : Entry[h.chain[i]].material # e.material
                  ELSE /\ e.material = old.material
                       /\ e.action \in {4, 5} => e.root = old.root
       /\ IF e.action = 4 THEN e.next \notin {Absent, e.key} ELSE e.next = Absent

Admits(s, h, c) == ~Knows(h, c) /\ ~Blocked(h) /\ Inspect(s, h, c)

\* A second entry at a known position freezes the history for good.
Forks(s, h, c) == Admits(s, h, c) /\ Entry[c].seq <= Len(h.chain)
\* Mutant: the newer entry wins.
ForkedReplaced(h, c) ==
    [h EXCEPT !.chain = Append(SubSeq(@, 1, Entry[c].seq - 1), c), !.resolved = FALSE]
Forked(h, c) == [h EXCEPT !.fork = c]

Follows(s, h, c) ==
    /\ Admits(s, h, c)
    /\ Entry[c].seq = Len(h.chain) + 1
    /\ h.chain # <<>> => h.resolved
    /\ Len(h.chain) < MaxControls
Followed(h, c) == [h EXCEPT !.chain = Append(@, c), !.resolved = FALSE]

-----------------------------------------------------------------------------
(* provide_membership, with pages that hash to the head's root *)

\* The members that the verified pages behind a root list, with their roles:
\* 1 reads, 2 reads and writes, 3 only retains sealed data.
Listed(m) == {<<d, Role[m][d]>> : d \in {x \in Members : Role[m][x] # 0}}
ContentMembers(m) == {x \in Listed(m) : x[2] \in {1, 2}}

AwaitsMembership(h) == ~Blocked(h) /\ h.chain # <<>> /\ ~h.resolved

\* A membership the authority should not have signed is kept as evidence.
BreaksPolicy(h) ==
    LET e == Entry[KnownHead(h)]
    IN \/ e.action \in {1, 3} /\ ContentMembers(e.root) = {}
       \/ /\ e.action = 2
          /\ ContentMembers(e.root) # ContentMembers(Entry[e.parent].root)
Verified(h) ==
    IF BreaksPolicy(h) THEN [h EXCEPT !.invalid = TRUE] ELSE [h EXCEPT !.resolved = TRUE]

-----------------------------------------------------------------------------
(* restore_public_replay: every event is accepted again, in its order, and only *)
(* the last one may be the fault that ended the history.                        *)

Before(h, i) ==
    IF i = 0 THEN Unfounded
    ELSE [chain |-> SubSeq(h.chain, 1, i), resolved |-> TRUE, fork |-> Absent, invalid |-> FALSE]

ReplayAccepts(s, h) ==
    /\ \A i \in DOMAIN h.chain : Follows(s, Before(h, i - 1), h.chain[i])
    /\ \A i \in DOMAIN h.chain :
          (i < Len(h.chain) \/ h.resolved) => ~BreaksPolicy(Before(h, i))
    /\ h.fork # Absent => Forks(s, [h EXCEPT !.fork = Absent], h.fork)
    /\ h.invalid => ~h.resolved /\ BreaksPolicy(h)

-----------------------------------------------------------------------------
(* status, authorize, activate.  "active" is the opened package, or None. *)

ActiveFor(h, active) == active # Absent /\ Package[active].anchor = EpochAnchor(h)

Status(h, active) ==
    IF h.fork # Absent THEN "CONTROL_FORK"
    ELSE IF h.invalid THEN "CONTROL_INVALID"
    ELSE IF h.chain = <<>> THEN "CONTROL_REQUIRED"
    ELSE IF ~h.resolved THEN "MEMBERSHIP_PENDING"
    ELSE IF ActiveFor(h, active) THEN "ACTIVE" ELSE "EPOCH_PENDING"

\* member_certificate: the member is listed at an entry whose pages are verified.
HasRole(h, c, d, roles) ==
    ResolvedAt(h, c) /\ \E r \in roles : <<d, r>> \in Listed(Entry[c].root)

\* authorize(certificate, 'write')
AuthorizedWriter(h, active, d) ==
    /\ ~Blocked(h)
    /\ h.chain # <<>>
    /\ HasRole(h, KnownHead(h), d, {2})
    /\ ActiveFor(h, active)

\* verify_activation: the recipient has content access now and had it when the
\* epoch opened, and the package is the one sealed for it then.
Activates(h, k) ==
    /\ ~Blocked(h)
    /\ h.chain # <<>>
    /\ HasRole(h, KnownHead(h), Package[k].member, {1, 2})
    /\ Package[k].anchor = EpochAnchor(h)
    /\ HasRole(h, EpochAnchor(h), Package[k].member, {1, 2})
=============================================================================

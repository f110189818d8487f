---------------------------- MODULE MCStore ----------------------------
(***************************************************************************)
(* One space.  op1 writes a file of two chunks whose source has two         *)
(* versions (op3 is its stage operation), op2 a change of the same epoch,   *)
(* under the head after it, that attaches a chunk of that file again, and   *)
(* op4 a change of the second epoch, alone or with that chunk, which was    *)
(* sealed for the first epoch.                                              *)
(* The history is founded by c1; c2 (a change of members without access)    *)
(* and c3 (a new epoch) compete for the second position, and c4 follows c2  *)
(* with a membership its authority should not have signed.  k3 is a package *)
(* for the second epoch that holds the first one's secret.  e1 and e4 are   *)
(* two seals of the same change.                                            *)
(***************************************************************************)
EXTENDS StoreReaders, TLC

CONSTANTS s1, o1, a1, op1, op2, op3, op4, v1, v2, d1, d2, n1, n2, e1, e2, e3, e4, e5, e6, g1, t1,
          c1, c2, c3, c4, m1, m2, m3, w1, w2, k1, k2, k3

MCSpaces == {s1}
MCObjects == {o1}
MCActors == {a1}
MCOps == {op1, op2, op3, op4}
MCDigests == {v1, v2, d1, d2}
MCNonces == {n1, n2}
MCEnvelopes == {e1, e2, e3, e4, e5, e6}
MCGens == {g1}
MCCaches == {t1}
MCBlocks == {op1} \X (0 .. 2) \X {v1, v2}
MCBlockHeader == [b \in MCBlocks |-> [space |-> s1, epoch |-> 1, slot |-> <<b[1], b[2]>>]]
File(v) == <<<<op1, 0, v>>, <<op1, 1, v>>, <<op1, 2, v>>>>
P(op, d, ep, seq, prev, n, e, bs) ==
    [op |-> op, digest |-> d, space |-> s1, object |-> o1, actor |-> a1, gen |-> g1,
     epoch |-> ep, seq |-> seq, prev |-> prev, rid |-> n, eid |-> e, cache |-> t1, blocks |-> bs]
MCPrepared ==
    {P(op1, v1, 1, 1, None, n1, e1, File(v1)),
     P(op1, v1, 1, 1, None, n2, e4, File(v1)),
     P(op1, v2, 1, 1, None, n1, e2, File(v2)),
     P(op2, d1, 1, 2, e1, n2, e3, <<<<op1, 1, v1>>>>),
     P(op4, d2, 2, 1, None, n2, e5, <<>>),
     P(op4, d2, 2, 1, None, n2, e6, <<<<op1, 1, v1>>>>)}
MCFileOps == {op1}
MCStageOp == op1 :> op3
MCContents == {v1, v2}
MCHeader ==
    e1 :> [head |-> c1, member |-> w1, secret |-> 1] @@
    e2 :> [head |-> c1, member |-> w1, secret |-> 1] @@
    e3 :> [head |-> c2, member |-> w1, secret |-> 1] @@
    e4 :> [head |-> c1, member |-> w1, secret |-> 1] @@
    e5 :> [head |-> c3, member |-> w2, secret |-> 2] @@
    e6 :> [head |-> c3, member |-> w2, secret |-> 2]

MCControls == {c1, c2, c3, c4}
C(seq, ep, parent, action, root, material) ==
    [space |-> s1, seq |-> seq, epoch |-> ep, parent |-> parent, action |-> action,
     root |-> root, material |-> material, key |-> 1, next |-> Absent]
MCEntry ==
    c1 :> C(1, 1, Absent, 1, m1, 1) @@
    c2 :> C(2, 1, c1, 2, m2, 1) @@
    c3 :> C(2, 2, c1, 3, m3, 2) @@
    c4 :> C(3, 1, c2, 2, m3, 1)
MCGenesis == s1 :> [key |-> 1, root |-> m1]
MCMembers == {w1, w2}
MCRole ==
    m1 :> (w1 :> 2 @@ w2 :> 0) @@
    m2 :> (w1 :> 2 @@ w2 :> 3) @@
    m3 :> (w1 :> 0 @@ w2 :> 2)
MCPackages == {k1, k2, k3}
MCPackage ==
    k1 :> [member |-> w1, anchor |-> c1, secret |-> 1] @@
    k2 :> [member |-> w2, anchor |-> c3, secret |-> 2] @@
    k3 :> [member |-> w2, anchor |-> c3, secret |-> 1]

\* The second nonce is for another seal of the file, for the second change or for the
\* change of the second epoch: a history that spent it on one of the former is not
\* followed past a new epoch, and after another seal of the file only through one more
\* change of the authority (a new entry, a reopening).
OneUse ==
    reserved[n2] # None =>
        /\ reserved[n2].op # op4 => epoch[s1] = 1
        /\ reserved[n2].op = op1 => auth[s1].revision <= 5
=============================================================================

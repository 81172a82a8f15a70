------------------------------ MODULE MCEngine ------------------------------
(***************************************************************************)
(* Engine for TLC: two triggers of one merchant that share a suppression   *)
(* key, and a third one of the same merchant that carries none.            *)
(***************************************************************************)
EXTENDS Engine, TLC

CONSTANTS m1, k1, g1, g2, g3, c1, c2, c3

MCMerchantOf == [g \in Triggers |-> m1]
MCConvOf == [g \in Triggers |-> CASE g = g1 -> c1 [] g = g2 -> c2 [] g = g3 -> c3]
MCKeyOf == [g \in Triggers |-> IF g = g3 THEN NoKey ELSE k1]

\* Overlapping lists in different orders; one names a trigger twice, the other is
\* longer than the cap of the runs that use it.
OverlappingLists == {<<g1, g3, g2>>, <<g2, g2, g1>>}

OneTriggerList == {<<g1>>}

SingleLists == {<<g1>>, <<g2>>}

PairList == {<<g1, g2>>}

\* A session without a teardown.
SessionNext ==
    \/ \E t \in Ticks : Tick(t)
    \/ \E r \in Replies : ReplyRequest(r) \/ ReplyRun(r)
    \/ Finished

SessionSpec == Init /\ [][SessionNext]_vars

RequestSymmetry == Permutations(Ticks) \cup Permutations(Replies)
=============================================================================

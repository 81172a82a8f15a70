---------------------------- MODULE MCContextReads ----------------------------
(***************************************************************************)
(* ContextReads for TLC: one merchant with its category known from the     *)
(* warm-up, a customer and triggers that arrive during the test window.    *)
(***************************************************************************)
EXTENDS ContextReads, TLC

CONSTANTS g1, m1, a1

MCVersions == 1 .. 2

\* The base dataset: a category and a merchant of it, no trigger and no customer.
MCWarm ==
    [EmptyStore EXCEPT
        !.category = [k \in Categories |-> IF k = a1 THEN [version |-> 1] ELSE NoItem],
        !.merchant = [k \in Merchants |-> IF k = m1 THEN [version |-> 1, category |-> a1]
                                          ELSE NoItem]]

\* One list names a trigger twice.
TwiceList == {<<g1, g1>>}

OnceList == {<<g1>>}

PushSymmetry == Permutations(Pushes)
===============================================================================

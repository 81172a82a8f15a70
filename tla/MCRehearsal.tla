----------------------------- MODULE MCRehearsal -----------------------------
(***************************************************************************)
(* Four ticks of a rehearsal with two merchants of one category: every     *)
(* interlude, both updates, and at the end a tick without new triggers.    *)
(* g1 and g3 share a merchant with the copy of g1, g2 has no suppression   *)
(* key, and g3 has expired when it is named again.  The script's two       *)
(* personas that commit are one message: the policy does not tell them     *)
(* apart.                                                                  *)
(***************************************************************************)
EXTENDS Rehearsal, TLC

CONSTANTS c1, m1, m2, u1, g1, g2, g3, copy, k1, k2, commit, canned, hostile, other

MCCategories == <<c1>>
MCMerchants == <<m1, m2>>
MCCustomers == <<u1>>
MCSeeds == <<g1, g2, g3>>
MCMerchantOf == g1 :> m1 @@ g2 :> m2 @@ g3 :> m1 @@ copy :> m1
MCCategoryOf == m1 :> c1 @@ m2 :> c1
MCKeyOf == g1 :> k1 @@ g2 :> NoKey @@ g3 :> k2 @@ copy :> k1
MCExpiry == g1 :> Never @@ g2 :> Never @@ g3 :> 2 @@ copy :> 3
MCMessages == {commit, canned, hostile, other}
==============================================================================

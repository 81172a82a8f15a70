--------------------------- MODULE SuppressionStore ---------------------------
(***************************************************************************)
(* state/store.py, SuppressionStore: the suppression keys acted on, per    *)
(* merchant, and the merchants that opted out.  Every method is a single   *)
(* set operation and takes no lock.                                        *)
(***************************************************************************)
CONSTANTS
    Keys,    \* suppression keys, NoKey included
    NoKey    \* the empty suppression key

VARIABLES
    usedKeys,    \* _used_keys: pairs <<merchant, key>>
    optedOut     \* _suppressed_merchants

suppressionVars == <<usedKeys, optedOut>>

SuppressionInit ==
    /\ usedKeys = {}
    /\ optedOut = {}

IsUsed(m, k) == <<m, k>> \in usedKeys

IsMerchantSuppressed(m) == m \in optedOut

\* Fault: the key is stored without its merchant.
MarkBareKey(m, k) ==
    /\ usedKeys' = IF k = NoKey THEN usedKeys ELSE usedKeys \cup {k}
    /\ UNCHANGED optedOut

\* An empty key is never recorded.
MarkUsed(m, k) ==
    /\ usedKeys' = IF k = NoKey THEN usedKeys ELSE usedKeys \cup {<<m, k>>}
    /\ UNCHANGED optedOut

SuppressMerchant(m) ==
    /\ optedOut' = optedOut \cup {m}
    /\ UNCHANGED usedKeys

\* Store.teardown's third assignment: a new SuppressionStore.
ReplaceSuppression ==
    /\ usedKeys' = {}
    /\ optedOut' = {}
===============================================================================

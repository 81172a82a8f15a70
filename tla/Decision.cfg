\* Every generator's gates and tiers, seen by two ticks before, at and after expiry.
CONSTANTS
    TokensOf <- MCTokensOf
    Merchants <- MCMerchants
    Triggers <- MCTriggers
    ConsentScopes <- MCScopes
    Digests <- MCDigests
    Instants <- MCInstants
    MaxTicks = 2
SPECIFICATION Spec
INVARIANTS
    OnlyFarFestivalsAreTooWeak
    StrongerEvidenceNeverSilences
    ConsentGatesHold
PROPERTIES
    RestraintIsFinal
\* The last tick ends a behaviour.
CHECK_DEADLOCK FALSE

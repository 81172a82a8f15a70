\* The corroboration bonus can decide: a festival two weeks away, without an offer.
CONSTANTS
    TokensOf <- MCTokensOf
    Merchants <- MCMerchants
    Triggers <- MCTriggers
    ConsentScopes <- MCScopes
    Digests <- MCDigests
    Instants <- MCInstants
    MaxTicks = 2
SPECIFICATION Spec
\* The last tick ends a behaviour.
CHECK_DEADLOCK FALSE
INVARIANTS
    BonusNeverDecides

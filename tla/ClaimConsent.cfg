\* A spike report whose trigger names a stored customer is addressed to that customer.
CONSTANTS
    TokensOf <- MCTokensOf
    Merchants <- MCMerchants
    Triggers <- MCTriggers
    ConsentScopes <- MCScopes
    Digests <- MCDigests
    Instants <- MCInstants
    MaxTicks = 2
SPECIFICATION Spec
\* The last tick ends a behaviour.
CHECK_DEADLOCK FALSE
INVARIANTS
    NoContactUnasked

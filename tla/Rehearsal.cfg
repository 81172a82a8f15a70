SPECIFICATION FairSpec
CONSTANTS
    c1 = c1
    m1 = m1
    m2 = m2
    u1 = u1
    g1 = g1
    g2 = g2
    g3 = g3
    copy = copy
    k1 = k1
    k2 = k2
    commit = commit
    canned = canned
    hostile = hostile
    other = other
    Nothing = Nothing
    Never = Never
    NoKey = NoKey
    NoMessage = NoMessage
    Categories <- MCCategories
    Merchants <- MCMerchants
    Customers <- MCCustomers
    Seeds <- MCSeeds
    NumTicks = 4
    Extra = copy
    MerchantOf <- MCMerchantOf
    CategoryOf <- MCCategoryOf
    KeyOf <- MCKeyOf
    Expiry <- MCExpiry
    Messages <- MCMessages
    Personas <- MCMessages
    AutoMarked = {canned}
    HostileMarked = {hostile}
    CommitMarked = {commit}
    MaxFailures = 1
    MaxRaises = 1
INVARIANTS
    FailsOnlyByErrors
    NothingTwice
    EverySendIsHeard
    ThreeTurns
    StopBindsLaterTicks
PROPERTIES
    RehearsalEnds

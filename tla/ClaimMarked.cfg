\* A tick marks a key and then fails on a later trigger: nothing is returned.
CONSTANTS
    m1 = m1
    k1 = k1
    g1 = g1
    g2 = g2
    g3 = g3
    c1 = c1
    c2 = c2
    c3 = c3
    Merchants = {m1}
    Keys = {k1, nokey}
    NoKey = nokey
    NoBody = nobody
    NoMessage = nomessage
    MerchantOf <- MCMerchantOf
    ConvOf <- MCConvOf
    KeyOf <- MCKeyOf
    Ticks = {t1}
    Replies = {}
    Convs = {c1, c2}
    Triggers = {g1, g2}
    TriggerLists <- PairList
    Bodies = {b1}
    Messages = {}
    AutoMarked = {}
    HostileMarked = {}
    CommitMarked = {}
    MaxActions = 2
    MaxTeardowns = 0
SPECIFICATION Spec
INVARIANTS
    MarkedMeansSent

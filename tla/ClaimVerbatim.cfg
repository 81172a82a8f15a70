\* A reply composes the body that the tick opened the conversation with.
CONSTANTS
    m1 = m1
    k1 = k1
    g1 = g1
    g2 = g2
    g3 = g3
    c1 = c1
    c2 = c2
    c3 = c3
    Merchants = {m1}
    Keys = {k1, nokey}
    NoKey = nokey
    NoBody = nobody
    NoMessage = nomessage
    MerchantOf <- MCMerchantOf
    ConvOf <- MCConvOf
    KeyOf <- MCKeyOf
    Ticks = {t1}
    Replies = {r1}
    Convs = {c1}
    Triggers = {g1}
    TriggerLists <- OneTriggerList
    Bodies = {b1, b2}
    Messages = {go}
    AutoMarked = {}
    HostileMarked = {}
    CommitMarked = {go}
    MaxActions = 1
    MaxTeardowns = 0
SPECIFICATION Spec
INVARIANTS
    NoVerbatimRepeat

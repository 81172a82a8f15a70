\* A tick decides before a hostile reply opts its merchant out, and sends after.
CONSTANTS
    m1 = m1
    k1 = k1
    g1 = g1
    g2 = g2
    g3 = g3
    c1 = c1
    c2 = c2
    c3 = c3
    Merchants = {m1}
    Keys = {k1, nokey}
    NoKey = nokey
    NoBody = nobody
    NoMessage = nomessage
    MerchantOf <- MCMerchantOf
    ConvOf <- MCConvOf
    KeyOf <- MCKeyOf
    Ticks = {t1, t2}
    Replies = {r1}
    Convs = {c1, c2}
    Triggers = {g1, g2}
    TriggerLists <- SingleLists
    Bodies = {b1}
    Messages = {stop}
    AutoMarked = {}
    HostileMarked = {stop}
    CommitMarked = {}
    MaxActions = 1
    MaxTeardowns = 0
SPECIFICATION Spec
PROPERTIES
    OptOutIsFinal

\* A merchant update is accepted after a conversation was opened and before a reply.
CONSTANTS
    g1 = g1
    m1 = m1
    a1 = a1
    Triggers = {g1}
    Merchants = {m1}
    Categories = {a1}
    Customers = {u1}
    NoCustomer = nocustomer
    NoItem = noitem
    Versions <- MCVersions
    Warm <- MCWarm
    Pushes = {p1, p2}
    Ticks = {t1}
    TriggerLists <- OnceList
    Replies = {r1}
    MaxTeardowns = 0
SPECIFICATION Spec
INVARIANTS
    RepliesUseNewestContext

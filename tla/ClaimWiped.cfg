\* A tick read its contexts before a teardown and opens its conversation after it.
CONSTANTS
    g1 = g1
    m1 = m1
    a1 = a1
    Triggers = {g1}
    Merchants = {m1}
    Categories = {a1}
    Customers = {u1}
    NoCustomer = nocustomer
    NoItem = noitem
    Versions <- MCVersions
    Warm <- MCWarm
    Pushes = {p1}
    Ticks = {t1}
    TriggerLists <- OnceList
    Replies = {}
    MaxTeardowns = 1
SPECIFICATION Spec
INVARIANTS
    NothingSurvivesTeardown

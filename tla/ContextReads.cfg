\* A trigger looked at twice while three pushes of any scope and version come in, out of
\* order too, and a teardown replaces the store.
CONSTANTS
    g1 = g1
    m1 = m1
    a1 = a1
    Triggers = {g1}
    Merchants = {m1}
    Categories = {a1, a2}
    Customers = {u1}
    NoCustomer = nocustomer
    NoItem = noitem
    Versions <- MCVersions
    Warm <- MCWarm
    Pushes = {p1, p2, p3}
    Ticks = {t1}
    TriggerLists <- TwiceList
    Replies = {r1}
    MaxTeardowns = 1
SPECIFICATION Spec
SYMMETRY PushSymmetry
INVARIANTS
    ReadYourWrites
    ReferencesResolve
    ReadsNeverGoBack

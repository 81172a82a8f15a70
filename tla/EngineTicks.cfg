\* Two overlapping ticks over three triggers of one merchant: two share a suppression key
\* and the third carries none; a hostile reply comes in between.
CONSTANTS
    m1 = m1
    k1 = k1
    g1 = g1
    g2 = g2
    g3 = g3
    c1 = c1
    c2 = c2
    c3 = c3
    Merchants = {m1}
    Keys = {k1, nokey}
    NoKey = nokey
    NoBody = nobody
    NoMessage = nomessage
    MerchantOf <- MCMerchantOf
    ConvOf <- MCConvOf
    KeyOf <- MCKeyOf
    Ticks = {t1, t2}
    Replies = {r1}
    Convs = {c1, c2, c3}
    Triggers = {g1, g2, g3}
    TriggerLists <- OverlappingLists
    Bodies = {b1}
    Messages = {stop}
    AutoMarked = {}
    HostileMarked = {stop}
    CommitMarked = {}
    MaxActions = 2
    MaxTeardowns = 0
SPECIFICATION SessionSpec
SYMMETRY RequestSymmetry
INVARIANTS
    OneActionPerConversation
    KeysNotReused
    OptOutRespected
    ReservationsAccountedFor
    OwnersKeepReservation

------------------------------ MODULE ReadsProofs ------------------------------
(***************************************************************************)
(* ContextReads for any contexts, pushes, ticks, replies and teardowns.    *)
(*                                                                         *)
(* Nothing is locked between the four reads of a decision.  What holds     *)
(* them together is that a store never gives up a context and never gets   *)
(* an older version of it: whatever was true of a version when it was      *)
(* accepted, or read, or named, is still true of the one that is stored.   *)
(***************************************************************************)
EXTENDS ContextReads, TLAPS

\* x is a version of item's context that is at least as new.
AsNew(x, item) == x # NoItem /\ x.version >= item.version

\* The scopes that tick t has read for its current trigger.
HasRead(t, scope) ==
    \/ scope = "trigger" /\ tpc[t] \in {"merchant", "category", "customer", "decide"}
    \/ scope = "merchant" /\ tpc[t] \in {"category", "customer", "decide"}
    \/ scope = "category" /\ tpc[t] \in {"customer", "decide"}
    \/ scope = "customer" /\ tpc[t] = "decide" /\ read[t].trigger.customer # NoCustomer

\* A push that was answered is stored, or something newer is.
AnswerInv ==
    \A p \in Pushes :
        push[p].answer \in {"accepted", "stale"} =>
            AsNew(stores[push[p].store][push[p].scope][push[p].id], push[p].item)

KnownInv == \A q \in Ticks \cup Replies : \A p \in known[q] : push[p].answer = "accepted"

\* In an orderly history every store is closed under references.
OrderInv == orderly => \A s \in 1 .. Current : Closed(stores[s])

\* What a tick has found when it goes on.
PlaceOK(t) ==
    /\ tpc[t] \in {"merchant", "category", "customer", "decide"} =>
          todo[t] # <<>> /\ read[t].trigger # NoItem /\ from[t] # {}
    /\ tpc[t] \in {"category", "customer", "decide"} => read[t].merchant # NoItem
    /\ tpc[t] \in {"customer", "decide"} => read[t].category # NoItem
    /\ tpc[t] = "customer" => read[t].trigger.customer # NoCustomer
    /\ read[t].customer # NoItem => HasRead(t, "customer")
    /\ tpc[t] \in {"idle", "loop", "done"} => read[t] = NothingRead
    /\ tpc[t] = "idle" => decided[t] = <<>>

\* What it has read so far is as new as what was known when it came.
FreshOK(t) ==
    \A p \in known[t] :
        /\ HasRead(t, push[p].scope)
        /\ push[p].id = ContextId(Basis(t), push[p].scope)
        /\ from[t] \subseteq {push[p].store}
        => AsNew(read[t][push[p].scope], push[p].item)

\* What it read from one store is still in it, or something newer is.
StoredOK(t) ==
    \A s \in 1 .. Current : \A scope \in Scopes :
        HasRead(t, scope) /\ from[t] \subseteq {s} /\ read[t][scope] # NoItem =>
            AsNew(stores[s][scope][ContextId(Basis(t), scope)], read[t][scope])

\* So is what it decided on.
DecidedStored(t) ==
    \A i \in DOMAIN decided[t] :
        /\ decided[t][i].from \subseteq 1 .. Current
        /\ \A s \in 1 .. Current : \A scope \in Scopes :
              decided[t][i].from = {s} /\ decided[t][i].read[scope] # NoItem =>
                  /\ ContextId(decided[t][i], scope) \in Ids(scope)
                  /\ AsNew(stores[s][scope][ContextId(decided[t][i], scope)],
                           decided[t][i].read[scope])

\* What it has read so far is as new as what it decided on before.
LaterOK(t) ==
    \A i \in DOMAIN decided[t] : \A s \in 1 .. Current : \A scope \in Scopes :
        /\ decided[t][i].from = {s}
        /\ from[t] \subseteq {s}
        /\ HasRead(t, scope)
        /\ ContextId(decided[t][i], scope) = ContextId(Basis(t), scope)
        /\ decided[t][i].read[scope] # NoItem
        => AsNew(read[t][scope], decided[t][i].read[scope])

\* What it has read names contexts that are there.
NamedOK(t) ==
    orderly /\ Current = 1 =>
        \A scope \in {"trigger", "merchant"} :
            HasRead(t, scope) => Resolves(stores[1], scope, read[t][scope])

\* The two properties of what it decided on.
DecidedFresh(t) == \A i \in DOMAIN decided[t] : Fresh(decided[t][i], known[t])

NeverBack(t) ==
    \A i, j \in DOMAIN decided[t] : \A s \in decided[t][i].from : \A scope \in Scopes :
        /\ i < j
        /\ decided[t][i].from = {s} /\ decided[t][j].from = {s}
        /\ ContextId(decided[t][i], scope) = ContextId(decided[t][j], scope)
        /\ decided[t][i].read[scope] # NoItem
        => AsNew(decided[t][j].read[scope], decided[t][i].read[scope])

TickInv(t) ==
    /\ PlaceOK(t)
    /\ FreshOK(t)
    /\ StoredOK(t)
    /\ DecidedStored(t)
    /\ LaterOK(t)
    /\ NamedOK(t)
    /\ DecidedFresh(t)
    /\ NeverBack(t)

Inv ==
    /\ TypeOK
    /\ AnswerInv
    /\ KnownInv
    /\ OrderInv
    /\ \A t \in Ticks : TickInv(t)

-------------------------------------------------------------------------------
(***************************************************************************)
(* Stores.                                                                 *)
(***************************************************************************)

LEMMA ScopeOfStore ==
    \A s \in Store : \A scope \in Scopes :
        s[scope] \in [Ids(scope) -> Items(scope) \cup {NoItem}]
  BY DEF Store, Scopes, Ids, Items

LEMMA EmptyIsStore ==
    /\ EmptyStore \in Store
    /\ \A scope \in Scopes : \A id \in Ids(scope) : EmptyStore[scope][id] = NoItem
  BY DEF EmptyStore, Store, Scopes, Ids

LEMMA ItemFacts ==
    \A scope \in Scopes : \A item \in Items(scope) : item # NoItem /\ item.version \in Nat
  <1>1. \A scope \in Scopes : \A item \in Items(scope) : item.version \in Versions
    BY DEF Items, Scopes
  <1> QED BY <1>1, ReadsAssumption

\* A stored item is replaced.
LEMMA Replaced ==
    ASSUME NEW s \in Store, NEW scope \in Scopes, NEW id \in Ids(scope),
           NEW item \in Items(scope)
    PROVE  /\ [s EXCEPT ![scope][id] = item] \in Store
           /\ \A c \in Scopes : \A k \in Ids(c) :
                 [s EXCEPT ![scope][id] = item][c][k] =
                     IF c = scope /\ k = id THEN item ELSE s[c][k]
  <1>1. DOMAIN s = Scopes
    BY DEF Store, Scopes
  <1>2. \A c \in Scopes : s[c] \in [Ids(c) -> Items(c) \cup {NoItem}]
    BY ScopeOfStore
  <1>3. [s EXCEPT ![scope][id] = item] \in Store
    <2>1. CASE scope = "category"
      BY <2>1 DEF Store, Ids
    <2>2. CASE scope = "merchant"
      BY <2>2 DEF Store, Ids
    <2>3. CASE scope = "customer"
      BY <2>3 DEF Store, Ids
    <2>4. CASE scope = "trigger"
      BY <2>4 DEF Store, Ids
    <2> QED BY <2>1, <2>2, <2>3, <2>4 DEF Scopes
  <1> QED BY <1>1, <1>2, <1>3

\* Every context of store s that is stored stays, in this version or a newer one.
Grows(s, t) ==
    \A scope \in Scopes : \A id \in Ids(scope) :
        Has(s, scope, id) => AsNew(t[scope][id], s[scope][id])

LEMMA SameGrows == \A s \in Store : Grows(s, s)
  BY ScopeOfStore, ItemFacts DEF Grows, Has, AsNew

LEMMA GrownIsNew ==
    ASSUME NEW s \in Store, NEW t \in Store, Grows(s, t), NEW scope \in Scopes,
           NEW id \in Ids(scope), NEW item \in Items(scope), AsNew(s[scope][id], item)
    PROVE  AsNew(t[scope][id], item)
  <1>1. /\ s[scope][id] \in Items(scope) \cup {NoItem}
        /\ t[scope][id] \in Items(scope) \cup {NoItem}
    BY ScopeOfStore
  <1>2. AsNew(t[scope][id], s[scope][id])
    BY DEF Grows, Has, AsNew
  <1> QED BY <1>1, <1>2, ItemFacts DEF AsNew

LEMMA TriggerNames ==
    \A item \in Items("trigger") :
        item.merchant \in Merchants /\ item.customer \in Customers \cup {NoCustomer}
  BY DEF Items

LEMMA MerchantNames == \A item \in Items("merchant") : item.category \in Categories
  BY DEF Items

\* A reference that resolves goes on to resolve.
LEMMA GrownResolves ==
    ASSUME NEW s \in Store, NEW t \in Store, Grows(s, t), NEW scope \in Scopes,
           NEW item \in Items(scope), Resolves(s, scope, item)
    PROVE  Resolves(t, scope, item)
  <1>1. \A c \in Scopes : \A id \in Ids(c) : Has(s, c, id) => Has(t, c, id)
    BY DEF Grows, AsNew, Has
  <1>2. CASE scope = "merchant"
    BY <1>1, <1>2, MerchantNames DEF Resolves, Scopes, Ids
  <1>3. CASE scope = "trigger"
    BY <1>1, <1>3, TriggerNames DEF Resolves, Scopes, Ids
  <1> QED BY <1>2, <1>3 DEF Resolves

LEMMA StoresAreStores ==
    TypeOK => Current \in Nat /\ Current >= 1 /\ \A s \in 1 .. Current : stores[s] \in Store
  BY DEF TypeOK, Current

LEMMA PushFacts ==
    ASSUME TypeOK, NEW p \in Pushes, push[p].answer # "idle"
    PROVE  /\ push[p].scope \in Scopes
           /\ push[p].id \in Ids(push[p].scope)
           /\ push[p].item \in Items(push[p].scope)
           /\ push[p].store \in 1 .. Current
           /\ push[p].answer \in {"none", "accepted", "stale"}
  <1>1. push[p] # NoPush
    BY DEF NoPush
  <1>2. PICK scope \in Scopes : push[p] \in PushTo(scope)
    BY <1>1 DEF TypeOK
  <1> QED BY <1>1, <1>2 DEF TypeOK, PushTo

LEMMA ReadFacts ==
    ASSUME TypeOK, NEW t \in Ticks
    PROVE  \A scope \in Scopes : read[t][scope] \in Items(scope) \cup {NoItem}
  BY DEF TypeOK, Reading, Scopes

\* Where the tick has read, it knows which context it read.
LEMMA ReadIds ==
    ASSUME TypeOK, NEW t \in Ticks, PlaceOK(t)
    PROVE  \A scope \in Scopes :
              HasRead(t, scope) => ContextId(Basis(t), scope) \in Ids(scope)
  <1>1. read[t].trigger \in Items("trigger") \cup {NoItem}
        /\ read[t].merchant \in Items("merchant") \cup {NoItem}
    BY ReadFacts DEF Scopes
  <1>2. tpc[t] \in {"merchant", "category", "customer", "decide"} =>
           Trigger(t) \in Triggers /\ read[t].trigger \in Items("trigger")
    BY <1>1 DEF TypeOK, PlaceOK, Trigger
  <1>3. tpc[t] \in {"category", "customer", "decide"} => read[t].merchant \in Items("merchant")
    BY <1>1 DEF PlaceOK
  <1> QED BY <1>2, <1>3, TriggerNames, MerchantNames
          DEF Scopes, HasRead, ContextId, Basis, Ids

LEMMA InvInit == Init => Inv
  <1> SUFFICES ASSUME Init PROVE Inv
    OBVIOUS
  <1> USE ReadsAssumption
  <1>1. Current = 1 /\ stores[1] = Warm
    BY DEF Init, Current
  <1>2. TypeOK
    <2>1. NothingRead \in Reading
      BY DEF NothingRead, Reading
    <2>2. stores \in Seq(Store) /\ Current \in 1 .. MaxTeardowns + 1
      BY <1>1 DEF Init
    <2> QED BY <1>1, <2>1, <2>2 DEF Init, TypeOK, NoPush
  <1>3. AnswerInv /\ KnownInv
    BY DEF Init, AnswerInv, KnownInv, NoPush
  <1>4. OrderInv
    BY <1>1 DEF OrderInv
  <1>5. ASSUME NEW t \in Ticks PROVE TickInv(t)
    <2>1. tpc[t] = "idle" /\ decided[t] = <<>> /\ read[t] = NothingRead
      BY DEF Init
    <2>2. PlaceOK(t) /\ FreshOK(t) /\ StoredOK(t) /\ NamedOK(t)
      BY <2>1 DEF PlaceOK, FreshOK, StoredOK, NamedOK, HasRead, NothingRead
    <2>3. DecidedStored(t) /\ LaterOK(t) /\ DecidedFresh(t) /\ NeverBack(t)
      BY <2>1 DEF DecidedStored, LaterOK, DecidedFresh, NeverBack
    <2> QED BY <2>2, <2>3 DEF TickInv
  <1> QED BY <1>2, <1>3, <1>4, <1>5 DEF Inv

-------------------------------------------------------------------------------
(***************************************************************************)
(* Pushes and teardowns.                                                   *)
(***************************************************************************)

\* The step leaves tick t alone.
Untouched(t) ==
    /\ tpc'[t] = tpc[t] /\ todo'[t] = todo[t]
    /\ read'[t] = read[t] /\ from'[t] = from[t]
    /\ decided'[t] = decided[t] /\ known'[t] = known[t]

\* A tick loses nothing while stores grow and answered pushes stay what they are.
LEMMA TickKeeps ==
    ASSUME Inv, TypeOK', NEW t \in Ticks,
           Untouched(t),
           Current' >= Current,
           \A s \in 1 .. Current : stores'[s] \in Store /\ Grows(stores[s], stores'[s]),
           \A p \in Pushes : push[p].answer = "accepted" => push'[p] = push[p],
           orderly' => orderly
    PROVE  TickInv(t)'
  <1> DEFINE basis == Basis(t)
  <1>1. /\ tpc'[t] = tpc[t] /\ todo'[t] = todo[t] /\ read'[t] = read[t] /\ from'[t] = from[t]
        /\ decided'[t] = decided[t] /\ known'[t] = known[t]
    BY DEF Untouched
  <1>2. Basis(t)' = basis /\ \A scope : HasRead(t, scope)' <=> HasRead(t, scope)
    BY <1>1 DEF Basis, Trigger, HasRead
  <1>3. TypeOK /\ TickInv(t) /\ KnownInv
    BY DEF Inv
  <1>4. /\ Current \in Nat /\ Current >= 1 /\ Current' \in Nat
        /\ \A s \in 1 .. Current : stores[s] \in Store
    BY <1>3, StoresAreStores DEF TypeOK
  <1>5. from[t] \subseteq 1 .. Current /\ known[t] \subseteq Pushes
    BY <1>3 DEF TypeOK
  <1> HIDE DEF basis
  <1>6. PlaceOK(t)'
    BY <1>1, <1>2, <1>3 DEF TickInv, PlaceOK
  <1>7. \A p \in known[t] : push'[p] = push[p]
    BY <1>3, <1>5 DEF KnownInv
  <1>8. FreshOK(t)'
    BY <1>1, <1>2, <1>3, <1>7 DEF TickInv, FreshOK, basis
  <1>9. StoredOK(t)'
    <2> SUFFICES ASSUME NEW s \in 1 .. Current', NEW scope \in Scopes,
                        HasRead(t, scope), from[t] \subseteq {s}, read[t][scope] # NoItem
                 PROVE  AsNew(stores'[s][scope][ContextId(basis, scope)], read[t][scope])
      BY <1>1, <1>2 DEF StoredOK
    <2>1. from[t] # {}
      BY <1>3 DEF TickInv, PlaceOK, HasRead
    <2>2. s \in 1 .. Current
      BY <1>5, <2>1
    <2>3. AsNew(stores[s][scope][ContextId(basis, scope)], read[t][scope])
      BY <1>3, <2>2 DEF TickInv, StoredOK, basis
    <2>4. ContextId(basis, scope) \in Ids(scope)
      BY <1>3, ReadIds DEF TickInv, basis
    <2>5. read[t][scope] \in Items(scope)
      BY <1>3, ReadFacts
    <2> QED BY <1>4, <2>2, <2>3, <2>4, <2>5, GrownIsNew
  <1>10. DecidedStored(t)'
    <2> SUFFICES ASSUME NEW i \in DOMAIN decided[t]
                 PROVE  /\ decided[t][i].from \subseteq 1 .. Current'
                        /\ \A s \in 1 .. Current' : \A scope \in Scopes :
                              decided[t][i].from = {s} /\ decided[t][i].read[scope] # NoItem =>
                                  /\ ContextId(decided[t][i], scope) \in Ids(scope)
                                  /\ AsNew(stores'[s][scope][ContextId(decided[t][i], scope)],
                                           decided[t][i].read[scope])
      BY <1>1 DEF DecidedStored
    <2>1. decided[t][i].from \subseteq 1 .. Current
      BY <1>3 DEF TickInv, DecidedStored
    <2>2. ASSUME NEW s \in 1 .. Current', NEW scope \in Scopes,
                 decided[t][i].from = {s}, decided[t][i].read[scope] # NoItem
          PROVE  /\ ContextId(decided[t][i], scope) \in Ids(scope)
                 /\ AsNew(stores'[s][scope][ContextId(decided[t][i], scope)],
                          decided[t][i].read[scope])
      <3>1. s \in 1 .. Current
        BY <2>1, <2>2
      <3>2. /\ ContextId(decided[t][i], scope) \in Ids(scope)
            /\ AsNew(stores[s][scope][ContextId(decided[t][i], scope)],
                     decided[t][i].read[scope])
        BY <1>3, <2>2, <3>1 DEF TickInv, DecidedStored
      <3>3. decided[t][i].read[scope] \in Items(scope)
        <4>1. decided[t][i] \in Brief
          BY <1>3 DEF TypeOK
        <4> QED BY <2>2, <4>1 DEF Brief, Reading, Scopes
      <3> QED BY <1>4, <3>1, <3>2, <3>3, GrownIsNew
    <2>3. decided[t][i].from \subseteq 1 .. Current'
      BY <1>4, <2>1
    <2> QED BY <2>2, <2>3
  <1>11. LaterOK(t)'
    <2> SUFFICES ASSUME NEW i \in DOMAIN decided[t], NEW s \in 1 .. Current',
                        NEW scope \in Scopes,
                        decided[t][i].from = {s}, from[t] \subseteq {s}, HasRead(t, scope),
                        ContextId(decided[t][i], scope) = ContextId(basis, scope),
                        decided[t][i].read[scope] # NoItem
                 PROVE  AsNew(read[t][scope], decided[t][i].read[scope])
      BY <1>1, <1>2 DEF LaterOK
    <2>1. s \in 1 .. Current
      BY <1>3 DEF TickInv, DecidedStored
    <2> QED BY <1>3, <2>1 DEF TickInv, LaterOK, basis
  <1>12. NamedOK(t)'
    <2> SUFFICES ASSUME orderly', Current' = 1, NEW scope \in {"trigger", "merchant"},
                        HasRead(t, scope)
                 PROVE  Resolves(stores'[1], scope, read[t][scope])
      BY <1>1, <1>2 DEF NamedOK
    <2>1. Current = 1 /\ orderly
      BY <1>4
    <2>2. Resolves(stores[1], scope, read[t][scope])
      BY <1>3, <2>1 DEF TickInv, NamedOK
    <2>3. read[t][scope] \in Items(scope) /\ scope \in Scopes
      BY <1>3, ReadFacts DEF TickInv, PlaceOK, HasRead, Scopes
    <2> QED BY <1>4, <2>1, <2>2, <2>3, GrownResolves
  <1>13. DecidedFresh(t)'
    BY <1>1, <1>3, <1>7 DEF TickInv, DecidedFresh, Fresh
  <1>14. NeverBack(t)'
    BY <1>1, <1>3 DEF TickInv, NeverBack
  <1> QED BY <1>6, <1>8, <1>9, <1>10, <1>11, <1>12, <1>13, <1>14 DEF TickInv

LEMMA PushArriveKeeps ==
    ASSUME Inv, NEW p \in Pushes, PushArrive(p), UNCHANGED <<tickVars, known, briefs, sent>>
    PROVE  Inv'
  <1> DEFINE new(scope, id, item) ==
          [scope |-> scope, id |-> id, item |-> item, store |-> Current, answer |-> "none"]
  <1>1. PICK scope \in Scopes : \E id \in Ids(scope), item \in Items(scope) :
           push' = [push EXCEPT ![p] = new(scope, id, item)]
    BY DEF PushArrive
  <1>2. PICK id \in Ids(scope), item \in Items(scope) :
           push' = [push EXCEPT ![p] = new(scope, id, item)]
    BY <1>1
  <1>3. /\ push[p] = NoPush /\ UNCHANGED <<stores, orderly>> /\ Current' = Current
    BY DEF PushArrive, Current
  <1>4. TypeOK /\ Current \in 1 .. MaxTeardowns + 1
    BY DEF Inv, TypeOK
  <1>5. new(scope, id, item) \in PushTo(scope) /\ new(scope, id, item).answer = "none"
        /\ new(scope, id, item).store = Current
    BY <1>4 DEF PushTo
  <1> HIDE DEF new
  <1>6. \A q \in Pushes : push'[q] = IF q = p THEN new(scope, id, item) ELSE push[q]
    BY <1>2, <1>4 DEF TypeOK
  <1>7. TypeOK'
    <2>1. push' \in [Pushes -> {NoPush} \cup UNION {PushTo(c) : c \in Scopes}]
      BY <1>2, <1>4, <1>5 DEF TypeOK
    <2>2. \A q \in Pushes : push'[q] # NoPush => push'[q].store \in 1 .. Current'
      <3>1. Current \in 1 .. Current
        BY <1>4, StoresAreStores
      <3>2. \A q \in Pushes : push[q] # NoPush => push[q].store \in 1 .. Current
        BY <1>4 DEF TypeOK
      <3> QED BY <1>3, <1>5, <1>6, <3>1, <3>2
    <2> QED BY <1>3, <1>4, <2>1, <2>2 DEF TypeOK, tickVars
  <1>8. AnswerInv'
    BY <1>3, <1>5, <1>6 DEF Inv, AnswerInv
  <1>9. \A q \in Pushes : push[q].answer = "accepted" => push'[q] = push[q]
    BY <1>3, <1>6 DEF NoPush
  <1>10. KnownInv'
    BY <1>4, <1>9 DEF Inv, KnownInv, TypeOK
  <1>11. OrderInv'
    BY <1>3 DEF Inv, OrderInv
  <1>12. \A s \in 1 .. Current : stores'[s] \in Store /\ Grows(stores[s], stores'[s])
    BY <1>3, <1>4, StoresAreStores, SameGrows
  <1>13. \A t \in Ticks : Untouched(t) /\ Current' >= Current /\ (orderly' => orderly)
    BY <1>3, <1>4, StoresAreStores DEF Untouched, tickVars
  <1>14. \A t \in Ticks : TickInv(t)'
    BY <1>7, <1>9, <1>12, <1>13, TickKeeps
  <1> QED BY <1>7, <1>8, <1>10, <1>11, <1>14 DEF Inv

\* The store a push goes to grows, and keeps every reference that resolved.
LEMMA PushStoreKeeps ==
    ASSUME Inv, NEW p \in Pushes, PushStore(p), UNCHANGED <<tickVars, known, briefs, sent>>
    PROVE  Inv'
  <1> DEFINE r == push[p]
             current == stores[r.store][r.scope][r.id]
             answer == AnswerTo(r.item, current)
  <1>1. TypeOK /\ Current \in Nat /\ \A s \in 1 .. Current : stores[s] \in Store
    BY StoresAreStores DEF Inv
  <1>2. /\ r.answer = "none" /\ r.scope \in Scopes /\ r.id \in Ids(r.scope)
        /\ r.item \in Items(r.scope) /\ r.store \in 1 .. Current
    BY <1>1, PushFacts DEF PushStore
  <1>3. /\ StoreNewer(p)
        /\ push' = [push EXCEPT ![p].answer = answer]
        /\ orderly' = (orderly /\ Resolves(stores[r.store], r.scope, r.item))
    BY DEF PushStore
  <1>4. current \in Items(r.scope) \cup {NoItem}
    BY <1>1, <1>2, ScopeOfStore
  <1>5. answer \in {"accepted", "stale"}
    BY DEF AnswerTo
  <1>6. push'[p] = [r EXCEPT !.answer = answer]
        /\ \A q \in Pushes : q # p => push'[q] = push[q]
    BY <1>1, <1>3 DEF TypeOK
  <1>7. r \in PushTo(r.scope) /\ r # NoPush
    <2>1. r # NoPush
      BY <1>2 DEF NoPush
    <2>2. PICK scope \in Scopes : r \in PushTo(scope)
      BY <1>1, <2>1 DEF TypeOK
    <2> QED BY <2>1, <2>2 DEF PushTo
  <1>8. /\ push'[p] \in PushTo(r.scope) /\ push'[p].store = r.store /\ push'[p].scope = r.scope
        /\ push'[p].id = r.id /\ push'[p].item = r.item
    BY <1>5, <1>6, <1>7 DEF PushTo
  <1> DEFINE target == [stores[r.store] EXCEPT ![r.scope][r.id] = r.item]
  <1>9. /\ stores' \in Seq(Store) /\ Len(stores') = Len(stores)
        /\ \A s \in 1 .. Current : s # r.store => stores'[s] = stores[s]
        /\ stores'[r.store] = IF Newer(r.item, current) THEN target ELSE stores[r.store]
    <2>1. CASE Newer(r.item, current)
      <3>1. stores' = [stores EXCEPT ![r.store] = target]
        BY <1>3, <2>1 DEF StoreNewer
      <3>2. target \in Store
        BY <1>1, <1>2, Replaced
      <3> HIDE DEF target, r, current
      <3> QED BY <1>1, <1>2, <2>1, <3>1, <3>2 DEF TypeOK, Current
    <2>2. CASE ~Newer(r.item, current)
      BY <1>1, <1>3, <2>2 DEF StoreNewer, TypeOK
    <2> QED BY <2>1, <2>2
  <1>10. Current' = Current
    BY <1>9 DEF Current
  <1>11. /\ target \in Store
         /\ \A c \in Scopes : \A k \in Ids(c) :
               target[c][k] = IF c = r.scope /\ k = r.id THEN r.item
                              ELSE stores[r.store][c][k]
    <2>1. stores[r.store] \in Store
      BY <1>1, <1>2
    <2> HIDE DEF r
    <2> QED BY <1>2, <2>1, Replaced
  <1> HIDE DEF target, r, current, answer
  <1>12. AsNew(stores'[r.store][r.scope][r.id], r.item)
    <2>1. CASE Newer(r.item, current)
      <3>1. stores'[r.store][r.scope][r.id] = r.item
        BY <1>2, <1>9, <1>11, <2>1
      <3> QED BY <1>2, <3>1, ItemFacts DEF AsNew
    <2>2. CASE ~Newer(r.item, current)
      <3>1. stores'[r.store][r.scope][r.id] = current
        BY <1>9, <2>2 DEF current
      <3> QED BY <1>2, <1>4, <2>2, <3>1, ItemFacts DEF AsNew, Newer
    <2> QED BY <2>1, <2>2
  <1>13. ASSUME NEW s \in 1 .. Current PROVE stores'[s] \in Store /\ Grows(stores[s], stores'[s])
    <2>1. CASE s = r.store /\ Newer(r.item, current)
      <3>1. stores'[s] = target
        BY <1>9, <2>1
      <3>2. ASSUME NEW c \in Scopes, NEW k \in Ids(c), Has(stores[s], c, k)
            PROVE  AsNew(target[c][k], stores[s][c][k])
        <4>1. stores[s][c][k] \in Items(c)
          BY <1>1, <3>2, ScopeOfStore DEF Has
        <4>2. CASE c = r.scope /\ k = r.id
          <5>1. target[c][k] = r.item /\ stores[s][c][k] = current
            BY <1>11, <2>1, <4>2 DEF current
          <5> QED BY <1>2, <2>1, <3>2, <4>1, <4>2, <5>1, ItemFacts DEF AsNew, Newer, Has
        <4>3. CASE ~(c = r.scope /\ k = r.id)
          BY <1>11, <2>1, <4>1, <4>3, ItemFacts DEF AsNew
        <4> QED BY <4>2, <4>3
      <3> QED BY <1>11, <3>1, <3>2 DEF Grows
    <2>2. CASE ~(s = r.store /\ Newer(r.item, current))
      BY <1>1, <1>9, <2>2, SameGrows
    <2> QED BY <2>1, <2>2
  <1>14. TypeOK'
    <2>1. push' \in [Pushes -> {NoPush} \cup UNION {PushTo(c) : c \in Scopes}]
      <3>1. push'[p] \in UNION {PushTo(c) : c \in Scopes}
        BY <1>2, <1>8
      <3>2. push' = [push EXCEPT ![p] = push'[p]]
        BY <1>1, <1>3, <1>6 DEF TypeOK
      <3> QED BY <1>1, <3>1, <3>2 DEF TypeOK
    <2>2. \A q \in Pushes : push'[q] # NoPush => push'[q].store \in 1 .. Current'
      BY <1>1, <1>2, <1>6, <1>8, <1>10 DEF TypeOK
    <2>3. orderly' \in BOOLEAN
      BY <1>1, <1>3 DEF TypeOK, Resolves, Has
    <2> QED BY <1>1, <1>9, <1>10, <2>1, <2>2, <2>3 DEF TypeOK, tickVars
  <1>15. AnswerInv'
    <2> SUFFICES ASSUME NEW q \in Pushes, push'[q].answer \in {"accepted", "stale"}
                 PROVE  AsNew(stores'[push'[q].store][push'[q].scope][push'[q].id],
                              push'[q].item)
      BY DEF AnswerInv
    <2>1. CASE q = p
      BY <1>8, <1>12, <2>1
    <2>2. CASE q # p
      <3>1. push'[q] = push[q]
        BY <1>6, <2>2
      <3>2. /\ push[q].scope \in Scopes /\ push[q].id \in Ids(push[q].scope)
            /\ push[q].item \in Items(push[q].scope) /\ push[q].store \in 1 .. Current
        BY <1>1, <3>1, PushFacts
      <3>3. AsNew(stores[push[q].store][push[q].scope][push[q].id], push[q].item)
        BY <3>1 DEF Inv, AnswerInv
      <3> QED BY <1>1, <1>13, <3>1, <3>2, <3>3, GrownIsNew
    <2> QED BY <2>1, <2>2
  <1>16. \A q \in Pushes : push[q].answer = "accepted" => push'[q] = push[q]
    BY <1>2, <1>6 DEF r
  <1>17. KnownInv'
    BY <1>1, <1>16 DEF Inv, KnownInv, TypeOK
  <1>18. OrderInv'
    <2> SUFFICES ASSUME orderly', NEW s \in 1 .. Current, NEW c \in Scopes, NEW k \in Ids(c),
                        Has(stores'[s], c, k)
                 PROVE  Resolves(stores'[s], c, stores'[s][c][k])
      BY <1>10 DEF OrderInv, Closed
    <2>1. orderly /\ Resolves(stores[r.store], r.scope, r.item)
      BY <1>3
    <2>2. stores[s] \in Store /\ stores'[s] \in Store /\ Grows(stores[s], stores'[s])
      BY <1>1, <1>13
    <2>3. CASE s = r.store /\ Newer(r.item, current) /\ c = r.scope /\ k = r.id
      <3>1. stores'[s][c][k] = r.item
        BY <1>9, <1>11, <2>3
      <3> QED BY <1>2, <2>1, <2>2, <2>3, <3>1, GrownResolves
    <2>4. CASE ~(s = r.store /\ Newer(r.item, current) /\ c = r.scope /\ k = r.id)
      <3>1. stores'[s][c][k] = stores[s][c][k]
        BY <1>9, <1>11, <2>4
      <3>2. Has(stores[s], c, k) /\ stores[s][c][k] \in Items(c)
        BY <2>2, <3>1, ScopeOfStore DEF Has
      <3>3. Resolves(stores[s], c, stores[s][c][k])
        BY <2>1, <3>2 DEF Inv, OrderInv, Closed
      <3> QED BY <2>2, <3>1, <3>2, <3>3, GrownResolves
    <2> QED BY <2>3, <2>4
  <1>19. Current' >= Current
    BY <1>1, <1>10
  <1>20. \A t \in Ticks : TickInv(t)'
    BY <1>3, <1>13, <1>14, <1>16, <1>19, TickKeeps DEF Untouched, tickVars
  <1> QED BY <1>14, <1>15, <1>17, <1>18, <1>20 DEF Inv

\* The stores before the teardown stay as they are, for the requests that hold them.
LEMMA TeardownKeeps == ASSUME Inv, Teardown PROVE Inv'
  <1>1. TypeOK /\ Current \in Nat /\ Current >= 1
        /\ \A s \in 1 .. Current : stores[s] \in Store
    BY StoresAreStores DEF Inv
  <1>2. /\ Current <= MaxTeardowns
        /\ stores' = Append(stores, EmptyStore)
        /\ briefs' = [g \in Triggers |-> NoBrief]
        /\ UNCHANGED <<push, orderly, tickVars, known, sent>>
    BY DEF Teardown
  <1>3. /\ Current' = Current + 1 /\ stores' \in Seq(Store)
        /\ \A s \in 1 .. Current : stores'[s] = stores[s]
        /\ stores'[Current + 1] = EmptyStore
    BY <1>1, <1>2, EmptyIsStore DEF TypeOK, Current
  <1>4. TypeOK'
    <2>1. \A p \in Pushes : push[p] # NoPush => push[p].store \in 1 .. Current'
      BY <1>1, <1>3 DEF TypeOK
    <2>2. from \in [Ticks -> SUBSET (1 .. Current')]
      BY <1>1, <1>3 DEF TypeOK
    <2>3. Current' \in 1 .. MaxTeardowns + 1
      BY <1>1, <1>2, <1>3, ReadsAssumption
    <2>4. briefs' \in [Triggers -> Brief \cup {NoBrief}]
      BY <1>2
    <2>5. UNCHANGED <<push, orderly, tpc, todo, read, from, decided, known, sent>>
      BY <1>2 DEF tickVars
    <2> QED BY <1>1, <1>3, <2>1, <2>2, <2>3, <2>4, <2>5 DEF TypeOK
  <1>5. AnswerInv'
    <2> SUFFICES ASSUME NEW p \in Pushes, push[p].answer \in {"accepted", "stale"}
                 PROVE  AsNew(stores'[push[p].store][push[p].scope][push[p].id], push[p].item)
      BY <1>2 DEF AnswerInv
    <2>1. push[p].store \in 1 .. Current
      BY <1>1, PushFacts
    <2> QED BY <1>3, <2>1 DEF Inv, AnswerInv
  <1>6. KnownInv'
    BY <1>2 DEF Inv, KnownInv
  <1>7. OrderInv'
    <2>1. Closed(EmptyStore)
      BY EmptyIsStore DEF Closed, Has
    <2>2. ASSUME orderly, NEW s \in 1 .. Current' PROVE Closed(stores'[s])
      <3>1. s \in 1 .. Current \/ s = Current + 1
        BY <1>1, <1>3
      <3> QED BY <1>3, <2>1, <2>2, <3>1 DEF Inv, OrderInv
    <2> QED BY <1>2, <2>2 DEF OrderInv
  <1>8. \A s \in 1 .. Current : stores'[s] \in Store /\ Grows(stores[s], stores'[s])
    BY <1>1, <1>3, SameGrows
  <1>9. Current' >= Current
    BY <1>1, <1>3
  <1>10. \A t \in Ticks : TickInv(t)'
    BY <1>2, <1>4, <1>8, <1>9, TickKeeps DEF Untouched, tickVars
  <1> QED BY <1>4, <1>5, <1>6, <1>7, <1>10 DEF Inv

-------------------------------------------------------------------------------
(***************************************************************************)
(* Ticks.                                                                  *)
(***************************************************************************)

\* A step of one tick that leaves the stores alone.
LEMMA OneTick ==
    ASSUME Inv, TypeOK', UNCHANGED pushVars, KnownInv', NEW t \in Ticks, TickInv(t)',
           \A q \in Ticks : q # t => Untouched(q)
    PROVE  Inv'
  <1>1. UNCHANGED <<stores, push, orderly>> /\ Current' = Current
    BY DEF pushVars, Current
  <1>2. AnswerInv' /\ OrderInv'
    BY <1>1 DEF Inv, AnswerInv, OrderInv
  <1>3. /\ Current \in Nat
        /\ \A s \in 1 .. Current : stores'[s] \in Store /\ Grows(stores[s], stores'[s])
    BY <1>1, StoresAreStores, SameGrows DEF Inv
  <1>4. ASSUME NEW q \in Ticks, q # t PROVE TickInv(q)'
    BY <1>1, <1>3, <1>4, TickKeeps
  <1> QED BY <1>2, <1>4 DEF Inv

LEMMA KnownStays == ASSUME Inv, UNCHANGED <<pushVars, known>> PROVE KnownInv'
  BY DEF Inv, KnownInv, pushVars

\* A tick between two triggers has only its decisions to answer for.
LEMMA BetweenTriggers ==
    ASSUME NEW t \in Ticks, tpc'[t] \in {"loop", "done"}, read'[t] = NothingRead,
           DecidedStored(t)', DecidedFresh(t)', NeverBack(t)'
    PROVE  TickInv(t)'
  <1>1. \A scope : ~HasRead(t, scope)'
    BY DEF HasRead
  <1>2. PlaceOK(t)'
    BY <1>1 DEF PlaceOK, NothingRead
  <1>3. FreshOK(t)' /\ StoredOK(t)' /\ LaterOK(t)' /\ NamedOK(t)'
    BY <1>1 DEF FreshOK, StoredOK, LaterOK, NamedOK
  <1> QED BY <1>2, <1>3 DEF TickInv

LEMMA DecisionsStay ==
    ASSUME Inv, UNCHANGED <<stores, push>>, NEW t \in Ticks, known'[t] = known[t],
           decided'[t] = decided[t]
    PROVE  DecidedStored(t)' /\ DecidedFresh(t)' /\ NeverBack(t)'
  <1>1. Current' = Current
    BY DEF Current
  <1> QED BY <1>1 DEF Inv, TickInv, DecidedStored, DecidedFresh, Fresh, NeverBack

LEMMA SkipKeeps ==
    ASSUME Inv, NEW t \in Ticks, todo[t] # <<>>, NextTrigger(t),
           UNCHANGED <<pushVars, known, sent, decided, briefs>>
    PROVE  Inv'
  <1>1. /\ tpc' = [tpc EXCEPT ![t] = "loop"]
        /\ todo' = [todo EXCEPT ![t] = Tail(todo[t])]
        /\ read' = [read EXCEPT ![t] = NothingRead]
        /\ from' = [from EXCEPT ![t] = {}]
        /\ UNCHANGED <<stores, push, orderly, known, sent, decided, briefs>>
        /\ Current' = Current
    BY DEF NextTrigger, Goto, pushVars, Current, Inv, TypeOK
  <1>2. TypeOK
    BY DEF Inv
  <1>3. TypeOK'
    <2>1. NothingRead \in Reading
      BY DEF NothingRead, Reading
    <2>2. Tail(todo[t]) \in Seq(Triggers)
      BY <1>2 DEF TypeOK
    <2> QED BY <1>1, <1>2, <2>1, <2>2 DEF TypeOK
  <1>4. tpc'[t] = "loop" /\ read'[t] = NothingRead
    BY <1>1, <1>2 DEF TypeOK
  <1>5. TickInv(t)'
    BY <1>1, <1>4, DecisionsStay, BetweenTriggers
  <1>6. \A q \in Ticks : q # t => Untouched(q)
    BY <1>1, <1>2 DEF TypeOK, Untouched
  <1> QED BY <1>3, <1>5, <1>6, OneTick, KnownStays

\* The step that reads one scope, as each of the four actions takes it.
ReadStep(t, scope, id, label) ==
    /\ todo[t] # <<>>
    /\ id = ContextId(Basis(t), scope)
    /\ Read(t, scope, id, label)
    /\ scope = "customer" \/ Has(stores[Current], scope, id)
    /\ \/ scope = "trigger" /\ tpc[t] = "loop" /\ label = "merchant"
       \/ scope = "merchant" /\ tpc[t] = "merchant" /\ label = "category"
       \/ /\ scope = "category" /\ tpc[t] = "category"
          /\ label = IF read[t].trigger.customer = NoCustomer THEN "decide" ELSE "customer"
       \/ scope = "customer" /\ tpc[t] = "customer" /\ label = "decide"

LEMMA ReadKeeps ==
    ASSUME Inv, NEW t \in Ticks, NEW scope \in Scopes, NEW id \in Ids(scope), NEW label,
           ReadStep(t, scope, id, label),
           UNCHANGED <<pushVars, known, sent, decided, briefs>>
    PROVE  Inv'
  <1> DEFINE x == stores[Current][scope][id]
             basis == Basis(t)
  <1>1. /\ tpc' = [tpc EXCEPT ![t] = label]
        /\ read' = [read EXCEPT ![t][scope] = x]
        /\ from' = [from EXCEPT ![t] = from[t] \cup {Current}]
        /\ UNCHANGED <<stores, push, orderly, known, sent, decided, briefs, todo>>
        /\ Current' = Current
    BY DEF ReadStep, Read, Goto, Get, pushVars, Current, Inv, TypeOK
  <1>2. TypeOK /\ Current \in 1 .. Current /\ stores[Current] \in Store /\ TickInv(t)
    BY StoresAreStores DEF Inv
  <1>3. x \in Items(scope) \cup {NoItem} /\ (scope # "customer" => x # NoItem)
    BY <1>2, ScopeOfStore DEF ReadStep, Has
  <1>4. /\ tpc'[t] = label
        /\ label \in {"merchant", "category", "customer", "decide"}
        /\ from'[t] = from[t] \cup {Current}
        /\ todo'[t] = todo[t]
        /\ read[t] \in Reading
        /\ read'[t] = [read[t] EXCEPT ![scope] = x]
    BY <1>1, <1>2 DEF TypeOK, ReadStep
  <1> HIDE DEF x, basis
  <1>5. \A c \in Scopes : read'[t][c] = IF c = scope THEN x ELSE read[t][c]
    BY <1>4 DEF Reading, Scopes
  <1>6. /\ scope # "trigger" => read'[t].trigger = read[t].trigger
        /\ scope # "merchant" => read'[t].merchant = read[t].merchant
    BY <1>5 DEF Scopes
  <1>7. \A c \in Scopes : HasRead(t, c)' <=> HasRead(t, c) \/ c = scope
    BY <1>2, <1>4, <1>6 DEF HasRead, ReadStep, Scopes, TickInv, PlaceOK
  <1>8. \A c \in Scopes : HasRead(t, c) \/ c = scope =>
           ContextId(Basis(t), c)' = ContextId(basis, c)
    <2>1. Basis(t)' = [trigger |-> Trigger(t), read |-> read'[t], from |-> from'[t]]
          /\ basis = [trigger |-> Trigger(t), read |-> read[t], from |-> from[t]]
      BY <1>4 DEF Basis, Trigger, basis
    <2>2. scope = "trigger" => \A c \in Scopes : ~HasRead(t, c)
      BY DEF ReadStep, HasRead
    <2>3. scope = "merchant" => \A c \in Scopes : HasRead(t, c) => c = "trigger"
      BY DEF ReadStep, HasRead
    <2> QED BY <1>6, <2>1, <2>2, <2>3 DEF ContextId, Scopes
  <1>9. id = ContextId(basis, scope)
    BY DEF ReadStep, basis
  <1>10. TypeOK'
    <2>1. read'[t] \in Reading
      <3>1. CASE scope = "category"
        BY <1>3, <1>4, <3>1 DEF Reading
      <3>2. CASE scope = "merchant"
        BY <1>3, <1>4, <3>2 DEF Reading
      <3>3. CASE scope = "customer"
        BY <1>3, <1>4, <3>3 DEF Reading
      <3>4. CASE scope = "trigger"
        BY <1>3, <1>4, <3>4 DEF Reading
      <3> QED BY <3>1, <3>2, <3>3, <3>4 DEF Scopes
    <2>2. read' \in [Ticks -> Reading]
      <3>1. read' = [read EXCEPT ![t] = read'[t]]
        BY <1>1, <1>2, <1>4 DEF TypeOK
      <3> QED BY <1>2, <2>1, <3>1 DEF TypeOK
    <2>3. from' \in [Ticks -> SUBSET (1 .. Current')]
      BY <1>1, <1>2 DEF TypeOK
    <2>4. tpc' \in [Ticks -> {"idle", "loop", "merchant", "category", "customer", "decide",
                              "done"}]
      BY <1>1, <1>2, <1>4 DEF TypeOK
    <2> QED BY <1>1, <1>2, <2>2, <2>3, <2>4 DEF TypeOK
  <1>11. PlaceOK(t)'
    <2>1. /\ todo[t] # <<>> /\ from'[t] # {}
      BY <1>4 DEF ReadStep
    <2>2. \A c \in Scopes : (HasRead(t, c) \/ c = scope) /\ c # "customer" =>
             read'[t][c] # NoItem
      BY <1>2, <1>3, <1>5 DEF HasRead, TickInv, PlaceOK
    <2>3. /\ "trigger" \in Scopes /\ "merchant" \in Scopes /\ "category" \in Scopes
          /\ "customer" \in Scopes
      BY DEF Scopes
    <2>4. read'[t].customer # NoItem => HasRead(t, "customer")'
      BY <1>2, <1>5, <1>7, <2>3 DEF TickInv, PlaceOK
    <2>5. label = "customer" => read'[t].trigger.customer # NoCustomer
      BY <1>6 DEF ReadStep
    <2>6. /\ HasRead(t, "trigger")'
          /\ label \in {"category", "customer", "decide"} => HasRead(t, "merchant")'
          /\ label \in {"customer", "decide"} => HasRead(t, "category")'
      BY <1>4 DEF HasRead
    <2> QED BY <1>4, <1>7, <2>1, <2>2, <2>3, <2>4, <2>5, <2>6 DEF PlaceOK
  <1>12. FreshOK(t)'
    <2> SUFFICES ASSUME NEW p \in known[t], HasRead(t, push[p].scope)',
                        push[p].id = ContextId(Basis(t), push[p].scope)',
                        from'[t] \subseteq {push[p].store}
                 PROVE  AsNew(read'[t][push[p].scope], push[p].item)
      BY <1>1 DEF FreshOK
    <2>1. p \in Pushes /\ push[p].answer = "accepted"
      BY <1>2 DEF TypeOK, Inv, KnownInv
    <2>2. push[p].scope \in Scopes
      BY <1>2, <2>1, PushFacts
    <2>3. CASE push[p].scope = scope
      <3>1. push[p].store = Current /\ push[p].id = id
        BY <1>1, <1>4, <1>8, <1>9, <2>2, <2>3
      <3>2. AsNew(stores[Current][scope][id], push[p].item)
        BY <2>1, <2>3, <3>1 DEF Inv, AnswerInv
      <3> QED BY <1>5, <2>3, <3>2 DEF x
    <2>4. CASE push[p].scope # scope
      <3>1. /\ HasRead(t, push[p].scope) /\ from[t] \subseteq {push[p].store}
            /\ push[p].id = ContextId(Basis(t), push[p].scope)
        BY <1>1, <1>4, <1>7, <1>8, <2>2, <2>4 DEF basis
      <3>2. AsNew(read[t][push[p].scope], push[p].item)
        BY <1>2, <3>1 DEF TickInv, FreshOK
      <3> QED BY <1>5, <2>2, <2>4, <3>2
    <2> QED BY <2>3, <2>4
  <1>13. StoredOK(t)'
    <2> SUFFICES ASSUME NEW s \in 1 .. Current, NEW c \in Scopes, HasRead(t, c)',
                        from'[t] \subseteq {s}, read'[t][c] # NoItem
                 PROVE  AsNew(stores[s][c][ContextId(basis, c)], read'[t][c])
      BY <1>1, <1>7, <1>8 DEF StoredOK
    <2>1. CASE c = scope
      <3>1. s = Current /\ read'[t][c] = x
        BY <1>4, <1>5, <2>1
      <3>2. AsNew(x, x)
        BY <1>3, <3>1, ItemFacts DEF AsNew
      <3> QED BY <1>9, <2>1, <3>1, <3>2 DEF x
    <2>2. CASE c # scope
      BY <1>2, <1>4, <1>5, <1>7, <2>2 DEF TickInv, StoredOK, basis
    <2> QED BY <2>1, <2>2
  <1>14. LaterOK(t)'
    <2> SUFFICES ASSUME NEW i \in DOMAIN decided[t], NEW s \in 1 .. Current, NEW c \in Scopes,
                        decided[t][i].from = {s}, from'[t] \subseteq {s}, HasRead(t, c)',
                        ContextId(decided[t][i], c) = ContextId(basis, c),
                        decided[t][i].read[c] # NoItem
                 PROVE  AsNew(read'[t][c], decided[t][i].read[c])
      BY <1>1, <1>7, <1>8 DEF LaterOK
    <2>1. CASE c = scope
      <3>1. s = Current /\ read'[t][c] = x
        BY <1>4, <1>5, <2>1
      <3>2. AsNew(stores[s][c][ContextId(decided[t][i], c)], decided[t][i].read[c])
        BY <1>2 DEF TickInv, DecidedStored
      <3> QED BY <1>9, <2>1, <3>1, <3>2 DEF x
    <2>2. CASE c # scope
      BY <1>2, <1>4, <1>5, <1>7, <2>2 DEF TickInv, LaterOK, basis
    <2> QED BY <2>1, <2>2
  <1>15. NamedOK(t)'
    <2> SUFFICES ASSUME orderly, Current = 1, NEW c \in {"trigger", "merchant"}, HasRead(t, c)'
                 PROVE  Resolves(stores[1], c, read'[t][c])
      BY <1>1 DEF NamedOK
    <2>1. c \in Scopes
      BY DEF Scopes
    <2>2. CASE c = scope
      <3>1. read'[t][c] = x /\ Has(stores[1], scope, id)
        BY <1>5, <2>1, <2>2 DEF ReadStep
      <3>2. Closed(stores[1])
        BY <1>2 DEF Inv, OrderInv
      <3> QED BY <2>2, <3>1, <3>2 DEF Closed, x
    <2>3. CASE c # scope
      BY <1>2, <1>5, <1>7, <2>1, <2>3 DEF TickInv, NamedOK
    <2> QED BY <2>2, <2>3
  <1>16. DecidedStored(t)' /\ DecidedFresh(t)' /\ NeverBack(t)'
    BY <1>1, DecisionsStay
  <1>17. TickInv(t)'
    BY <1>11, <1>12, <1>13, <1>14, <1>15, <1>16 DEF TickInv
  <1>18. \A q \in Ticks : q # t => Untouched(q)
    BY <1>1, <1>2 DEF TypeOK, Untouched
  <1> QED BY <1>10, <1>17, <1>18, OneTick, KnownStays

\* A read of a scope, or the trigger is passed over.
LEMMA ReadOrSkipKeeps ==
    ASSUME Inv, NEW t \in Ticks, NEW scope \in Scopes, NEW id \in Ids(scope), NEW label,
           todo[t] # <<>>, ReadOrSkip(t, scope, id, label),
           Has(stores[Current], scope, id) /\ Read(t, scope, id, label) =>
               ReadStep(t, scope, id, label),
           UNCHANGED <<pushVars, known, sent, decided, briefs>>
    PROVE  Inv'
  BY ReadKeeps, SkipKeeps DEF ReadOrSkip

\* The four reads.
LEMMA ReadsKeep ==
    ASSUME Inv, NEW t \in Ticks, UNCHANGED <<pushVars, known, sent>>,
           ReadTrigger(t) \/ ReadMerchant(t) \/ ReadCategory(t) \/ ReadCustomer(t)
    PROVE  Inv'
  <1>1. TypeOK /\ PlaceOK(t)
    BY DEF Inv, TickInv
  <1>2. /\ \A scope \in Scopes : HasRead(t, scope) => ContextId(Basis(t), scope) \in Ids(scope)
        /\ read[t].trigger \in Items("trigger") \cup {NoItem}
        /\ read[t].merchant \in Items("merchant") \cup {NoItem}
    BY <1>1, ReadIds, ReadFacts DEF Scopes
  <1>3. CASE ReadTrigger(t)
    <2>1. Trigger(t) \in Ids("trigger") /\ "trigger" \in Scopes /\ todo[t] # <<>>
      BY <1>1, <1>3 DEF ReadTrigger, Trigger, TypeOK, Ids, Scopes
    <2>2. Trigger(t) = ContextId(Basis(t), "trigger")
      BY DEF ContextId, Basis
    <2> QED BY <1>3, <2>1, <2>2, ReadOrSkipKeeps DEF ReadTrigger, ReadStep
  <1>4. CASE ReadMerchant(t)
    <2>1. /\ read[t].trigger.merchant \in Ids("merchant") /\ "merchant" \in Scopes
          /\ todo[t] # <<>>
      BY <1>1, <1>2, <1>4, TriggerNames DEF ReadMerchant, PlaceOK, Ids, Scopes
    <2>2. read[t].trigger.merchant = ContextId(Basis(t), "merchant")
      BY DEF ContextId, Basis
    <2> QED BY <1>4, <2>1, <2>2, ReadOrSkipKeeps DEF ReadMerchant, ReadStep
  <1>5. CASE ReadCategory(t)
    <2>1. /\ read[t].merchant.category \in Ids("category") /\ "category" \in Scopes
          /\ todo[t] # <<>>
      BY <1>1, <1>2, <1>5, MerchantNames DEF ReadCategory, PlaceOK, Ids, Scopes
    <2>2. read[t].merchant.category = ContextId(Basis(t), "category")
      BY DEF ContextId, Basis
    <2> DEFINE label == IF read[t].trigger.customer = NoCustomer THEN "decide" ELSE "customer"
    <2>3. ReadOrSkip(t, "category", read[t].merchant.category, label)
          /\ tpc[t] = "category" /\ UNCHANGED <<decided, briefs>>
      BY <1>5 DEF ReadCategory
    <2>4. Has(stores[Current], "category", read[t].merchant.category)
          /\ Read(t, "category", read[t].merchant.category, label) =>
             ReadStep(t, "category", read[t].merchant.category, label)
      BY <2>1, <2>2, <2>3 DEF ReadStep
    <2> HIDE DEF label
    <2> QED BY <2>1, <2>3, <2>4, ReadOrSkipKeeps
  <1>6. CASE ReadCustomer(t)
    <2>1. /\ read[t].trigger.customer \in Ids("customer") /\ "customer" \in Scopes
          /\ todo[t] # <<>>
      BY <1>1, <1>2, <1>6, TriggerNames DEF ReadCustomer, PlaceOK, Ids, Scopes
    <2>2. read[t].trigger.customer = ContextId(Basis(t), "customer")
      BY DEF ContextId, Basis
    <2>3. ReadStep(t, "customer", read[t].trigger.customer, "decide")
      BY <1>6, <2>1, <2>2 DEF ReadCustomer, ReadStep
    <2> QED BY <1>6, <2>1, <2>3, ReadKeeps DEF ReadCustomer
  <1> QED BY <1>3, <1>4, <1>5, <1>6

\* A decision answers for everything its tick has read.
LEMMA DecideKeeps ==
    ASSUME Inv, NEW t \in Ticks, Decide(t), UNCHANGED <<pushVars, known, sent>>
    PROVE  Inv'
  <1> DEFINE b == Basis(t)
  <1>1. /\ tpc' = [tpc EXCEPT ![t] = "loop"]
        /\ todo' = [todo EXCEPT ![t] = Tail(todo[t])]
        /\ read' = [read EXCEPT ![t] = NothingRead]
        /\ from' = [from EXCEPT ![t] = {}]
        /\ decided' = [decided EXCEPT ![t] = Append(decided[t], b)]
        /\ briefs' = [briefs EXCEPT ![Trigger(t)] = b] \/ briefs' = briefs
        /\ UNCHANGED <<stores, push, orderly, known, sent>>
        /\ Current' = Current
    BY DEF Decide, NextTrigger, Goto, pushVars, Current, Inv, TypeOK
  <1>2. TypeOK /\ TickInv(t) /\ tpc[t] = "decide" /\ todo[t] # <<>>
    BY DEF Inv, Decide, TickInv, PlaceOK
  <1>3. /\ Trigger(t) \in Triggers /\ Tail(todo[t]) \in Seq(Triggers)
        /\ Current \in Nat
    BY <1>2, StoresAreStores DEF TypeOK, Trigger
  <1>4. b \in Brief /\ b.from = from[t] /\ b.read = read[t] /\ from[t] \subseteq 1 .. Current
    BY <1>2, <1>3 DEF TypeOK, Basis, Brief
  <1>5. decided[t] \in Seq(Brief)
    BY <1>2 DEF TypeOK
  <1>6. /\ decided'[t] = Append(decided[t], b)
        /\ tpc'[t] = "loop" /\ read'[t] = NothingRead
    BY <1>1, <1>2 DEF TypeOK
  <1> HIDE DEF b
  <1>7. \A i \in DOMAIN decided'[t] :
           \/ i \in DOMAIN decided[t] /\ decided'[t][i] = decided[t][i]
           \/ i = Len(decided[t]) + 1 /\ decided'[t][i] = b
    BY <1>5, <1>6, <1>4
  <1>8. TypeOK'
    <2>1. NothingRead \in Reading
      BY DEF NothingRead, Reading
    <2>2. decided' \in [Ticks -> Seq(Brief)]
      <3>1. Append(decided[t], b) \in Seq(Brief)
        BY <1>4, <1>5
      <3> QED BY <1>1, <1>2, <3>1 DEF TypeOK
    <2>3. briefs' \in [Triggers -> Brief \cup {NoBrief}]
      BY <1>1, <1>2, <1>3, <1>4 DEF TypeOK
    <2> QED BY <1>1, <1>2, <1>3, <2>1, <2>2, <2>3 DEF TypeOK
  <1>9. \A scope \in Scopes : b.read[scope] # NoItem => HasRead(t, scope)
    BY <1>2, <1>4 DEF Scopes, HasRead, TickInv, PlaceOK
  <1>10. \A scope \in Scopes : ContextId(b, scope) \in Ids(scope) => HasRead(t, scope)
    <2>1. ContextId(b, "customer") = read[t].trigger.customer
      BY <1>4 DEF ContextId
    <2>2. NoCustomer \notin Ids("customer")
      BY ReadsAssumption DEF Ids
    <2> QED BY <1>2, <2>1, <2>2 DEF Scopes, HasRead
  <1>11. DecidedStored(t)'
    <2> SUFFICES ASSUME NEW i \in DOMAIN decided'[t]
                 PROVE  /\ decided'[t][i].from \subseteq 1 .. Current
                        /\ \A s \in 1 .. Current : \A scope \in Scopes :
                              /\ decided'[t][i].from = {s}
                              /\ decided'[t][i].read[scope] # NoItem
                              => /\ ContextId(decided'[t][i], scope) \in Ids(scope)
                                 /\ AsNew(stores[s][scope][ContextId(decided'[t][i], scope)],
                                          decided'[t][i].read[scope])
      BY <1>1 DEF DecidedStored
    <2>1. CASE i \in DOMAIN decided[t] /\ decided'[t][i] = decided[t][i]
      BY <1>2, <2>1 DEF TickInv, DecidedStored
    <2>2. CASE decided'[t][i] = b
      <3>1. ASSUME NEW s \in 1 .. Current, NEW scope \in Scopes, b.from = {s},
                   b.read[scope] # NoItem
            PROVE  /\ ContextId(b, scope) \in Ids(scope)
                   /\ AsNew(stores[s][scope][ContextId(b, scope)], b.read[scope])
        <4>1. HasRead(t, scope)
          BY <1>9, <3>1
        <4>2. ContextId(b, scope) \in Ids(scope)
          BY <1>2, <4>1, ReadIds DEF TickInv, b
        <4>3. AsNew(stores[s][scope][ContextId(b, scope)], read[t][scope])
          BY <1>2, <1>4, <3>1, <4>1 DEF TickInv, StoredOK, b
        <4> QED BY <1>4, <4>2, <4>3
      <3> QED BY <1>4, <2>2, <3>1
    <2> QED BY <1>7, <2>1, <2>2
  <1>12. DecidedFresh(t)'
    <2> SUFFICES ASSUME NEW i \in DOMAIN decided'[t]
                 PROVE  Fresh(decided'[t][i], known[t])
      BY <1>1 DEF DecidedFresh, Fresh
    <2>1. CASE i \in DOMAIN decided[t] /\ decided'[t][i] = decided[t][i]
      BY <1>2, <2>1 DEF TickInv, DecidedFresh
    <2>2. CASE decided'[t][i] = b
      <3>1. ASSUME NEW p \in known[t], push[p].id = ContextId(b, push[p].scope),
                   b.from = {push[p].store}
            PROVE  AsNew(b.read[push[p].scope], push[p].item)
        <4>1. p \in Pushes /\ push[p].answer = "accepted"
          BY <1>2 DEF TypeOK, Inv, KnownInv
        <4>2. push[p].scope \in Scopes /\ push[p].id \in Ids(push[p].scope)
          BY <1>2, <4>1, PushFacts
        <4>3. HasRead(t, push[p].scope)
          BY <1>10, <3>1, <4>2
        <4> QED BY <1>2, <1>4, <3>1, <4>3 DEF TickInv, FreshOK, b
      <3> QED BY <2>2, <3>1 DEF Fresh, AsNew
    <2> QED BY <1>7, <2>1, <2>2
  <1>13. NeverBack(t)'
    <2> SUFFICES ASSUME NEW i \in DOMAIN decided'[t], NEW j \in DOMAIN decided'[t],
                        NEW s \in decided'[t][i].from, NEW scope \in Scopes, i < j,
                        decided'[t][i].from = {s}, decided'[t][j].from = {s},
                        ContextId(decided'[t][i], scope) = ContextId(decided'[t][j], scope),
                        decided'[t][i].read[scope] # NoItem
                 PROVE  AsNew(decided'[t][j].read[scope], decided'[t][i].read[scope])
      BY DEF NeverBack
    <2>1. i \in DOMAIN decided[t] /\ decided'[t][i] = decided[t][i]
      BY <1>5, <1>7
    <2>2. CASE j \in DOMAIN decided[t] /\ decided'[t][j] = decided[t][j]
      BY <1>2, <2>1, <2>2 DEF TickInv, NeverBack
    <2>3. CASE decided'[t][j] = b
      <3>1. s \in 1 .. Current
        BY <1>2, <2>1 DEF TickInv, DecidedStored
      <3>2. ContextId(b, scope) \in Ids(scope)
        BY <1>2, <2>1, <2>3, <3>1 DEF TickInv, DecidedStored
      <3>3. HasRead(t, scope)
        BY <1>10, <3>2
      <3> QED BY <1>2, <1>4, <2>1, <2>3, <3>1, <3>3 DEF TickInv, LaterOK, b
    <2> QED BY <1>7, <2>2, <2>3
  <1>14. TickInv(t)'
    BY <1>6, <1>11, <1>12, <1>13, BetweenTriggers
  <1>15. \A q \in Ticks : q # t => Untouched(q)
    BY <1>1, <1>2 DEF TypeOK, Untouched
  <1> QED BY <1>8, <1>14, <1>15, OneTick, KnownStays

\* What a tick knows when it comes, it knows from answers.
LEMMA ArriveKeeps == ASSUME Inv, NEW t \in Ticks, TickArrive(t) PROVE Inv'
  <1>1. /\ tpc[t] = "idle"
        /\ tpc' = [tpc EXCEPT ![t] = "loop"]
        /\ known' = [known EXCEPT ![t] = Answered]
        /\ UNCHANGED <<stores, push, orderly, read, from, decided, briefs, sent>>
        /\ Current' = Current
    BY DEF TickArrive, Goto, pushVars, Current
  <1>2. PICK list \in Seq(Triggers) : todo' = [todo EXCEPT ![t] = list]
    BY ReadsAssumption DEF TickArrive
  <1>3. TypeOK /\ PlaceOK(t)
    BY DEF Inv, TickInv
  <1>4. TypeOK'
    <2>1. Answered \in SUBSET Pushes
      BY DEF Answered
    <2> QED BY <1>1, <1>2, <1>3, <2>1 DEF TypeOK
  <1>5. /\ tpc'[t] = "loop" /\ read'[t] = NothingRead /\ decided'[t] = <<>>
        /\ known'[t] = Answered
    BY <1>1, <1>3 DEF TypeOK, PlaceOK
  <1>6. \A q \in Ticks \cup Replies : q # t => known'[q] = known[q]
    BY <1>1, <1>3 DEF TypeOK
  <1>7. KnownInv'
    BY <1>1, <1>5, <1>6 DEF Inv, KnownInv, Answered
  <1>8. DecidedStored(t)' /\ DecidedFresh(t)' /\ NeverBack(t)'
    BY <1>5 DEF DecidedStored, DecidedFresh, NeverBack
  <1>9. TickInv(t)'
    BY <1>5, <1>8, BetweenTriggers
  <1>10. \A q \in Ticks : q # t => Untouched(q)
    BY <1>1, <1>2, <1>3, <1>6 DEF TypeOK, Untouched
  <1> QED BY <1>1, <1>4, <1>7, <1>9, <1>10, OneTick DEF pushVars

LEMMA RespondKeeps ==
    ASSUME Inv, NEW t \in Ticks, Respond(t), UNCHANGED <<pushVars, known, sent>>
    PROVE  Inv'
  <1>1. /\ tpc[t] = "loop"
        /\ tpc' = [tpc EXCEPT ![t] = "done"]
        /\ UNCHANGED <<stores, push, orderly, todo, read, from, decided, briefs, known, sent>>
        /\ Current' = Current
    BY DEF Respond, Goto, pushVars, Current
  <1>2. TypeOK /\ PlaceOK(t)
    BY DEF Inv, TickInv
  <1>3. TypeOK'
    BY <1>1, <1>2 DEF TypeOK
  <1>4. tpc'[t] = "done" /\ read'[t] = NothingRead
    BY <1>1, <1>2 DEF TypeOK, PlaceOK
  <1>5. TickInv(t)'
    BY <1>1, <1>4, DecisionsStay, BetweenTriggers
  <1>6. \A q \in Ticks : q # t => Untouched(q)
    BY <1>1, <1>2 DEF TypeOK, Untouched
  <1> QED BY <1>3, <1>5, <1>6, OneTick, KnownStays

\* A reply reads no context and changes none.
LEMMA ReplyKeeps == ASSUME Inv, NEW r \in Replies, Reply(r) PROVE Inv'
  <1>1. /\ known' = [known EXCEPT ![r] = Answered]
        /\ UNCHANGED <<stores, push, orderly, tpc, todo, read, from, decided, briefs>>
        /\ Current' = Current
    BY DEF Reply, pushVars, tickVars, Current
  <1>2. PICK g \in Triggers : briefs[g] # NoBrief /\ sent' = [sent EXCEPT ![r] = briefs[g]]
    BY DEF Reply
  <1>3. TypeOK /\ Current \in Nat
    BY StoresAreStores DEF Inv
  <1>4. TypeOK'
    <2>1. Answered \in SUBSET Pushes
      BY DEF Answered
    <2> QED BY <1>1, <1>2, <1>3, <2>1 DEF TypeOK
  <1>5. \A q \in Ticks \cup Replies :
           known'[q] = IF q = r THEN Answered ELSE known[q]
    BY <1>1, <1>3 DEF TypeOK
  <1>6. AnswerInv' /\ OrderInv' /\ KnownInv'
    BY <1>1, <1>5 DEF Inv, AnswerInv, OrderInv, KnownInv, Answered
  <1>7. \A t \in Ticks : Untouched(t)
    BY <1>1, <1>5, ReadsAssumption DEF Untouched
  <1>8. \A s \in 1 .. Current : stores'[s] \in Store /\ Grows(stores[s], stores'[s])
    BY <1>1, <1>3, StoresAreStores, SameGrows
  <1>9. \A t \in Ticks : TickInv(t)'
    BY <1>1, <1>3, <1>4, <1>7, <1>8, TickKeeps
  <1> QED BY <1>4, <1>6, <1>9 DEF Inv

LEMMA StutterKeeps == ASSUME Inv, UNCHANGED vars PROVE Inv'
  <1>1. /\ UNCHANGED <<stores, push, orderly, tpc, todo, read, from, decided, known, briefs,
                       sent>>
        /\ Current' = Current
    BY DEF vars, pushVars, tickVars, Current
  <1>2. TypeOK /\ Current \in Nat
    BY StoresAreStores DEF Inv
  <1>3. TypeOK'
    BY <1>1, <1>2 DEF TypeOK
  <1>4. AnswerInv' /\ OrderInv' /\ KnownInv'
    BY <1>1 DEF Inv, AnswerInv, OrderInv, KnownInv
  <1>5. \A s \in 1 .. Current : stores'[s] \in Store /\ Grows(stores[s], stores'[s])
    BY <1>1, <1>2, StoresAreStores, SameGrows
  <1>6. \A t \in Ticks : TickInv(t)'
    BY <1>1, <1>2, <1>3, <1>5, TickKeeps DEF Untouched
  <1> QED BY <1>3, <1>4, <1>6 DEF Inv

LEMMA InvNext == Inv /\ [Next]_vars => Inv'
  <1> SUFFICES ASSUME Inv, [Next]_vars PROVE Inv'
    OBVIOUS
  <1>1. ASSUME NEW p \in Pushes, PushStep(p) PROVE Inv'
    BY <1>1, PushArriveKeeps, PushStoreKeeps DEF PushStep
  <1>2. ASSUME NEW t \in Ticks, TickStep(t) PROVE Inv'
    BY <1>2, ArriveKeeps, ReadsKeep, DecideKeeps, RespondKeeps DEF TickStep
  <1>3. CASE UNCHANGED vars
    BY <1>3, StutterKeeps
  <1> QED BY <1>1, <1>2, <1>3, TeardownKeeps, ReplyKeeps DEF Next, Finished

LEMMA InvHolds == Spec => []Inv
  BY InvInit, InvNext, PTL DEF Spec

-------------------------------------------------------------------------------
(***************************************************************************)
(* What a decision can rely on.                                            *)
(***************************************************************************)

\* Stores, requests, readings and briefs keep their types.
THEOREM TypeCorrect == Spec => []TypeOK
  <1>1. Inv => TypeOK
    BY DEF Inv
  <1> QED BY <1>1, InvHolds, PTL

\* However many pushes overlap with a tick, it decides on nothing older than what had been
\* accepted when it was sent.
THEOREM DecisionsReadTheirWrites == Spec => []ReadYourWrites
  <1>1. Inv => ReadYourWrites
    BY DEF Inv, TickInv, DecidedFresh, ReadYourWrites
  <1> QED BY <1>1, InvHolds, PTL

\* Contexts that came in order are found by the four reads, whatever is pushed between them.
THEOREM OrderedReferencesResolve == Spec => []ReferencesResolve
  <1>1. Inv => ReferencesResolve
    <2> SUFFICES ASSUME Inv, orderly, Current = 1, NEW t \in Ticks
                 PROVE  /\ tpc[t] = "merchant" =>
                              Has(stores[1], "merchant", read[t].trigger.merchant)
                        /\ tpc[t] = "category" =>
                              Has(stores[1], "category", read[t].merchant.category)
                        /\ tpc[t] = "customer" =>
                              Has(stores[1], "customer", read[t].trigger.customer)
      BY DEF ReferencesResolve
    <2>1. PlaceOK(t) /\ NamedOK(t)
      BY DEF Inv, TickInv
    <2>2. tpc[t] \in {"merchant", "customer"} => Resolves(stores[1], "trigger", read[t].trigger)
      BY <2>1 DEF NamedOK, HasRead
    <2>3. tpc[t] = "category" => Resolves(stores[1], "merchant", read[t].merchant)
      BY <2>1 DEF NamedOK, HasRead
    <2> QED BY <2>1, <2>2, <2>3 DEF Resolves, PlaceOK
  <1> QED BY <1>1, InvHolds, PTL

\* Along the list of a tick no context gets older, for lists and histories of any length.
THEOREM ContextsNeverAge == Spec => []ReadsNeverGoBack
  <1>1. Inv => ReadsNeverGoBack
    <2> SUFFICES ASSUME Inv, NEW t \in Ticks, NEW i \in DOMAIN decided[t],
                        NEW j \in DOMAIN decided[t], i < j,
                        decided[t][i].from = decided[t][j].from,
                        NEW s \in decided[t][i].from, decided[t][i].from = {s},
                        NEW scope \in Scopes,
                        ContextId(decided[t][i], scope) = ContextId(decided[t][j], scope),
                        decided[t][i].read[scope] # NoItem
                 PROVE  AsNew(decided[t][j].read[scope], decided[t][i].read[scope])
      BY DEF ReadsNeverGoBack, AsNew
    <2>1. NeverBack(t)
      BY DEF Inv, TickInv
    <2> QED BY <2>1 DEF NeverBack
  <1> QED BY <1>1, InvHolds, PTL
===============================================================================

----------------------------- MODULE ContextReads -----------------------------
(***************************************************************************)
(* What a tick knows when it decides: it follows the references trigger -> *)
(* merchant -> category and trigger -> customer through the context store, *)
(* one get after the other, while pushes replace the versions it follows   *)
(* and a teardown may replace the whole store (api/app.py, state/store.py).*)
(*                                                                         *)
(* Each push is the one atomic comparison of VersionedContexts, which      *)
(* ContextStore is shown to implement.  Stores are objects: stores[i] is   *)
(* the i-th ContextStore, the last one is the current one, and a push that *)
(* has already read store.context keeps the one it read.                   *)
(***************************************************************************)
EXTENDS Naturals, Sequences

CONSTANTS
    Triggers, Merchants, Categories, Customers,    \* context ids of each scope
    NoCustomer,      \* customer_id is null
    NoItem,          \* nothing stored
    Versions,        \* the versions a push may carry
    Warm,            \* what the judge has pushed before the test window
    Pushes,          \* push requests
    Ticks,           \* tick requests
    TriggerLists,    \* the available_triggers lists a tick may carry
    Replies,         \* reply requests
    MaxTeardowns     \* bound: teardown requests in a behaviour

Scopes == {"category", "merchant", "customer", "trigger"}

Ids(scope) ==
    CASE scope = "category" -> Categories
      [] scope = "merchant" -> Merchants
      [] scope = "customer" -> Customers
      [] scope = "trigger" -> Triggers

\* A stored context: its version and the contexts its payload names.
Items(scope) ==
    CASE scope = "category" -> [version : Versions]
      [] scope = "merchant" -> [version : Versions, category : Categories]
      [] scope = "customer" -> [version : Versions]
      [] scope = "trigger" ->
            [version : Versions, merchant : Merchants, customer : Customers \cup {NoCustomer}]

Store ==
    [ category : [Categories -> Items("category") \cup {NoItem}],
      merchant : [Merchants -> Items("merchant") \cup {NoItem}],
      customer : [Customers -> Items("customer") \cup {NoItem}],
      trigger  : [Triggers -> Items("trigger") \cup {NoItem}] ]

EmptyStore ==
    [ category |-> [k \in Categories |-> NoItem],
      merchant |-> [k \in Merchants |-> NoItem],
      customer |-> [k \in Customers |-> NoItem],
      trigger  |-> [k \in Triggers |-> NoItem] ]

Has(store, scope, id) == store[scope][id] # NoItem

\* Every context that this item's payload names is stored.
Resolves(store, scope, item) ==
    /\ scope = "merchant" => Has(store, "category", item.category)
    /\ scope = "trigger" =>
          /\ Has(store, "merchant", item.merchant)
          /\ item.customer # NoCustomer => Has(store, "customer", item.customer)

Closed(store) ==
    \A scope \in Scopes : \A id \in Ids(scope) :
        Has(store, scope, id) => Resolves(store, scope, store[scope][id])

ASSUME ReadsAssumption ==
    /\ Versions \subseteq Nat
    /\ TriggerLists \subseteq Seq(Triggers)
    /\ NoCustomer \notin Customers
    /\ \A scope \in Scopes : NoItem \notin Items(scope)
    /\ Warm \in Store
    /\ Closed(Warm)
    /\ Ticks \cap Replies = {}
    /\ MaxTeardowns \in Nat

VARIABLES
    stores,      \* every ContextStore, the current one last
    push,        \* each push: its scope, id, item, the store it goes to, its answer
    orderly,     \* history: no item was stored before the contexts it names
    tpc,         \* where each tick is
    todo,        \* the triggers it has still to look at, the current one first
    read,        \* what it has read for the current trigger
    from,        \* history: the stores it has read that from
    known,       \* history: the pushes answered when the request arrived
    decided,     \* history: what each tick decided on, in order
    briefs,      \* conversations of the current store: trigger -> its brief, or NoBrief
    sent         \* history: the brief each reply was composed from, or NoBrief

pushVars == <<stores, push, orderly>>

tickVars == <<tpc, todo, read, from, decided>>

vars == <<pushVars, tickVars, known, briefs, sent>>

\* The push requests to one scope.
PushTo(scope) ==
    [ scope : {scope}, id : Ids(scope), item : Items(scope), store : 1 .. MaxTeardowns + 1,
      answer : {"none", "accepted", "stale"} ]

NoPush == [answer |-> "idle"]

NothingRead ==
    [category |-> NoItem, merchant |-> NoItem, customer |-> NoItem, trigger |-> NoItem]

\* What a tick has read, NoItem where it has not or has found nothing.
Reading ==
    [ category : Items("category") \cup {NoItem},
      merchant : Items("merchant") \cup {NoItem},
      customer : Items("customer") \cup {NoItem},
      trigger  : Items("trigger") \cup {NoItem} ]

\* A CompositionBrief, as far as it says which contexts it was built from; a decision
\* is the same record.
Brief == [trigger : Triggers, read : Reading, from : SUBSET Nat]

NoBrief == [trigger |-> NoItem]

Current == Len(stores)

\* store.context.get(scope, id)
Get(scope, id) == stores[Current][scope][id]

Init ==
    /\ stores = <<Warm>>
    /\ push = [p \in Pushes |-> NoPush]
    /\ orderly = TRUE
    /\ tpc = [t \in Ticks |-> "idle"]
    /\ todo = [t \in Ticks |-> <<>>]
    /\ read = [t \in Ticks |-> NothingRead]
    /\ from = [t \in Ticks |-> {}]
    /\ known = [q \in Ticks \cup Replies |-> {}]
    /\ decided = [t \in Ticks |-> <<>>]
    /\ briefs = [g \in Triggers |-> NoBrief]
    /\ sent = [r \in Replies |-> NoBrief]

Answered == {p \in Pushes : push[p].answer = "accepted"}

-------------------------------------------------------------------------------
(***************************************************************************)
(* The judge's pushes and its teardown.                                    *)
(***************************************************************************)

\* The handler validates the request and evaluates store.context.
PushArrive(p) ==
    /\ push[p] = NoPush
    /\ \E scope \in Scopes : \E id \in Ids(scope), item \in Items(scope) :
          push' = [push EXCEPT ![p] =
              [scope |-> scope, id |-> id, item |-> item, store |-> Current,
               answer |-> "none"]]
    /\ UNCHANGED <<stores, orderly>>

Newer(item, current) == current # NoItem => current.version < item.version

Stale(item, current) == current # NoItem /\ current.version > item.version

\* Fault: the old version is dropped, the new one is not stored in the same step.
StoreDropsOld(p) ==
    LET r == push[p]
        current == stores[r.store][r.scope][r.id]
    IN  stores' = [stores EXCEPT ![r.store][r.scope][r.id] =
                     IF current = NoItem THEN r.item
                     ELSE IF Newer(r.item, current) THEN NoItem ELSE current]

\* Fault: the last push wins, whatever its version.
StoreAnyVersion(p) ==
    LET r == push[p]
    IN  stores' = [stores EXCEPT ![r.store][r.scope][r.id] = r.item]

\* A higher version than the stored one replaces it.
StoreNewer(p) ==
    LET r == push[p]
    IN  stores' = IF Newer(r.item, stores[r.store][r.scope][r.id])
                  THEN [stores EXCEPT ![r.store][r.scope][r.id] = r.item]
                  ELSE stores

AnswerTo(item, current) == IF Stale(item, current) THEN "stale" ELSE "accepted"

PushStore(p) ==
    LET r == push[p]
        current == stores[r.store][r.scope][r.id]
    IN  /\ r.answer = "none"
        /\ StoreNewer(p)
        /\ push' = [push EXCEPT ![p].answer = AnswerTo(r.item, current)]
        /\ orderly' = (orderly /\ Resolves(stores[r.store], r.scope, r.item))

PushStep(p) ==
    /\ PushArrive(p) \/ PushStore(p)
    /\ UNCHANGED <<tickVars, known, briefs, sent>>

\* Store.teardown, as far as contexts and briefs go.
Teardown ==
    /\ Current <= MaxTeardowns
    /\ stores' = Append(stores, EmptyStore)
    /\ briefs' = [g \in Triggers |-> NoBrief]
    /\ UNCHANGED <<push, orderly, tickVars, known, sent>>

-------------------------------------------------------------------------------
(***************************************************************************)
(* A tick, from app.py:183 to the reservation.                             *)
(***************************************************************************)

Goto(t, label) == tpc' = [tpc EXCEPT ![t] = label]

Trigger(t) == Head(todo[t])

NextTrigger(t) ==
    /\ Goto(t, "loop")
    /\ todo' = [todo EXCEPT ![t] = Tail(@)]
    /\ read' = [read EXCEPT ![t] = NothingRead]
    /\ from' = [from EXCEPT ![t] = {}]

TickArrive(t) ==
    /\ tpc[t] = "idle"
    /\ \E list \in TriggerLists : todo' = [todo EXCEPT ![t] = list]
    /\ Goto(t, "loop")
    /\ known' = [known EXCEPT ![t] = Answered]
    /\ UNCHANGED <<pushVars, read, from, decided, briefs, sent>>

\* Fault: the context that is used is the one of the warm-up.
ReadWarm(t, scope, id, label) ==
    /\ read' = [read EXCEPT ![t][scope] =
          IF Warm[scope][id] # NoItem THEN Warm[scope][id] ELSE Get(scope, id)]
    /\ from' = [from EXCEPT ![t] = @ \cup {Current}]
    /\ Goto(t, label)
    /\ UNCHANGED todo

\* One get; the tick goes on with what it found.
Read(t, scope, id, label) ==
    /\ read' = [read EXCEPT ![t][scope] = Get(scope, id)]
    /\ from' = [from EXCEPT ![t] = @ \cup {Current}]
    /\ Goto(t, label)
    /\ UNCHANGED todo

\* A context without which there is no decision: the trigger is passed over.
ReadOrSkip(t, scope, id, label) ==
    IF Has(stores[Current], scope, id) THEN Read(t, scope, id, label) ELSE NextTrigger(t)

ReadTrigger(t) ==
    /\ tpc[t] = "loop"
    /\ todo[t] # <<>>
    /\ ReadOrSkip(t, "trigger", Trigger(t), "merchant")
    /\ UNCHANGED <<decided, briefs>>

ReadMerchant(t) ==
    /\ tpc[t] = "merchant"
    /\ ReadOrSkip(t, "merchant", read[t].trigger.merchant, "category")
    /\ UNCHANGED <<decided, briefs>>

ReadCategory(t) ==
    /\ tpc[t] = "category"
    /\ ReadOrSkip(t, "category", read[t].merchant.category,
                  IF read[t].trigger.customer = NoCustomer THEN "decide" ELSE "customer")
    /\ UNCHANGED <<decided, briefs>>

\* A customer that is not stored is no reason to stop: decide gets None.
ReadCustomer(t) ==
    /\ tpc[t] = "customer"
    /\ Read(t, "customer", read[t].trigger.customer, "decide")
    /\ UNCHANGED <<decided, briefs>>

Basis(t) == [trigger |-> Trigger(t), read |-> read[t], from |-> from[t]]

\* decide says yes or no; a yes opens the conversation unless it exists.
Decide(t) ==
    /\ tpc[t] = "decide"
    /\ decided' = [decided EXCEPT ![t] = Append(@, Basis(t))]
    /\ \/ /\ briefs[Trigger(t)] = NoBrief
          /\ briefs' = [briefs EXCEPT ![Trigger(t)] = Basis(t)]
       \/ UNCHANGED briefs
    /\ NextTrigger(t)

Respond(t) ==
    /\ tpc[t] = "loop"
    /\ todo[t] = <<>>
    /\ Goto(t, "done")
    /\ UNCHANGED <<todo, read, from, decided, briefs>>

TickStep(t) ==
    \/ TickArrive(t)
    \/ /\ \/ ReadTrigger(t)
          \/ ReadMerchant(t)
          \/ ReadCategory(t)
          \/ ReadCustomer(t)
          \/ Decide(t)
          \/ Respond(t)
       /\ UNCHANGED <<pushVars, known, sent>>

-------------------------------------------------------------------------------
(***************************************************************************)
(* A reply composes from the brief its conversation was opened with        *)
(* (for_reply), and reads no context.                                      *)
(***************************************************************************)

Reply(r) ==
    /\ sent[r] = NoBrief
    /\ \E g \in Triggers :
          /\ briefs[g] # NoBrief
          /\ sent' = [sent EXCEPT ![r] = briefs[g]]
    /\ known' = [known EXCEPT ![r] = Answered]
    /\ UNCHANGED <<pushVars, tickVars, briefs>>

\* Every push and every tick has been answered; no reply need come.
Finished ==
    /\ \A p \in Pushes : push[p].answer \in {"accepted", "stale"}
    /\ \A t \in Ticks : tpc[t] = "done"
    /\ UNCHANGED vars

Next ==
    \/ \E p \in Pushes : PushStep(p)
    \/ Teardown
    \/ \E t \in Ticks : TickStep(t)
    \/ \E r \in Replies : Reply(r)
    \/ Finished

Spec == Init /\ [][Next]_vars

-------------------------------------------------------------------------------

TypeOK ==
    /\ stores \in Seq(Store)
    /\ Current \in 1 .. MaxTeardowns + 1
    /\ push \in [Pushes -> {NoPush} \cup UNION {PushTo(scope) : scope \in Scopes}]
    /\ \A p \in Pushes : push[p] # NoPush => push[p].store \in 1 .. Current
    /\ orderly \in BOOLEAN
    /\ tpc \in [Ticks -> {"idle", "loop", "merchant", "category", "customer", "decide",
                          "done"}]
    /\ todo \in [Ticks -> Seq(Triggers)]
    /\ read \in [Ticks -> Reading]
    /\ from \in [Ticks -> SUBSET (1 .. Current)]
    /\ known \in [Ticks \cup Replies -> SUBSET Pushes]
    /\ briefs \in [Triggers -> Brief \cup {NoBrief}]
    /\ decided \in [Ticks -> Seq(Brief)]
    /\ sent \in [Replies -> Brief \cup {NoBrief}]

\* The id of the context that a brief was built from, in each scope.
ContextId(b, scope) ==
    CASE scope = "trigger" -> b.trigger
      [] scope = "merchant" -> b.read.trigger.merchant
      [] scope = "category" -> b.read.merchant.category
      [] scope = "customer" -> b.read.trigger.customer

\* What the brief was built from is at least as new as what these pushes carried.
\* A brief read across a teardown is left out.
Fresh(b, pushes) ==
    \A p \in pushes :
        /\ push[p].id = ContextId(b, push[p].scope)
        /\ b.from = {push[p].store}
        => /\ b.read[push[p].scope] # NoItem
           /\ b.read[push[p].scope].version >= push[p].item.version

\* A tick decides on nothing older than what the judge had been told was accepted when
\* it sent the tick, in any of the four scopes, whatever is pushed meanwhile
\* (app.py:187-206).
ReadYourWrites ==
    \A t \in Ticks : \A i \in DOMAIN decided[t] : Fresh(decided[t][i], known[t])

\* As long as every stored item came after those it names, a tick finds whatever a
\* context it has read names: no trigger is passed over for a missing merchant or
\* category, and no trigger about a customer is decided without that customer.  The
\* order of the four reads is what makes it so.
ReferencesResolve ==
    orderly /\ Current = 1 =>
        \A t \in Ticks :
            /\ tpc[t] = "merchant" => Has(stores[1], "merchant", read[t].trigger.merchant)
            /\ tpc[t] = "category" => Has(stores[1], "category", read[t].merchant.category)
            /\ tpc[t] = "customer" => Has(stores[1], "customer", read[t].trigger.customer)

\* Along the list of one tick a context never gets older: a later decision that uses the
\* same context uses the same version or a newer one.
ReadsNeverGoBack ==
    \A t \in Ticks : \A i, j \in DOMAIN decided[t] :
        LET b == decided[t][i]
            c == decided[t][j]
        IN  i < j /\ b.from = c.from /\ (\E s \in b.from : b.from = {s}) =>
                \A scope \in Scopes :
                    /\ ContextId(b, scope) = ContextId(c, scope)
                    /\ b.read[scope] # NoItem
                    => /\ c.read[scope] # NoItem
                       /\ c.read[scope].version >= b.read[scope].version

-------------------------------------------------------------------------------
(***************************************************************************)
(* What the documents say of context updates that the code does not do.    *)
(***************************************************************************)

\* "Bots that ignore it (sending stale composition) score lower"
\* (challenge-testing-brief.md:302): a reply sent after a context update was accepted
\* is composed from the updated context.
RepliesUseNewestContext ==
    \A r \in Replies : sent[r] # NoBrief => Fresh(sent[r], known[r])

\* Teardown "wipes all held state" (store.py:228-232): what the engine holds after it
\* was read from the new store.
NothingSurvivesTeardown ==
    \A g \in Triggers : briefs[g] # NoBrief => briefs[g].from \subseteq {Current}
===============================================================================

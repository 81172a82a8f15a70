----------------------------- MODULE ContextStore -----------------------------
(***************************************************************************)
(* state/store.py, ContextStore: the (scope, context_id) -> (version,      *)
(* payload) dictionary.  push runs under a lock; counts, which /v1/healthz *)
(* calls, iterates over the dictionary without it.                         *)
(***************************************************************************)
EXTENDS Naturals, FiniteSets

CONSTANTS
    Contexts,    \* context keys: (scope, context_id)
    Versions,    \* the versions a push may carry
    Payloads,    \* payloads
    Pushes,      \* push requests
    Probes,      \* health probes
    NoItem,      \* nothing stored
    Nobody       \* the lock is free

ASSUME ContextAssumption ==
    /\ Versions \subseteq Nat
    /\ Nobody \notin Pushes
    /\ NoItem \notin [version : Versions, payload : Payloads]
    /\ IsFiniteSet(Contexts)

VARIABLES
    items,       \* _items: context -> [version, payload] or NoItem
    lock,        \* _lock: the push that holds it, or Nobody
    ppc,         \* where each push is
    pushed,      \* its context and item
    current,     \* what it read under the lock
    result,      \* its PushResult
    hpc,         \* where each health probe is
    started,     \* history: the contexts present when its iteration began
    counted      \* the contexts its iteration has visited

pushVars == <<items, lock, ppc, pushed, current, result>>

probeVars == <<hpc, started, counted>>

vars == <<pushVars, probeVars>>

Item == [version : Versions, payload : Payloads]

Push == [context : Contexts, item : Item]

NoPush == [item |-> NoItem]

PushResult == [status : {"pending", "accepted", "stale"}, current_version : Nat]

NoResult == [status |-> "pending", current_version |-> 0]

Present == {k \in Contexts : items[k] # NoItem}

Init ==
    /\ items = [k \in Contexts |-> NoItem]
    /\ lock = Nobody
    /\ ppc = [p \in Pushes |-> "idle"]
    /\ pushed = [p \in Pushes |-> NoPush]
    /\ current = [p \in Pushes |-> NoItem]
    /\ result = [p \in Pushes |-> NoResult]
    /\ hpc = [h \in Probes |-> "idle"]
    /\ started = [h \in Probes |-> {}]
    /\ counted = [h \in Probes |-> {}]

-------------------------------------------------------------------------------

PushArrive(p) ==
    /\ ppc[p] = "idle"
    /\ \E k \in Contexts, v \in Versions, x \in Payloads :
          pushed' = [pushed EXCEPT ![p] =
              [context |-> k, item |-> [version |-> v, payload |-> x]]]
    /\ ppc' = [ppc EXCEPT ![p] = "acquire"]
    /\ UNCHANGED <<items, lock, current, result>>

\* Fault: the lock does not exclude.
AcquireUnlocked(p) ==
    /\ ppc[p] = "acquire"
    /\ lock' = p
    /\ ppc' = [ppc EXCEPT ![p] = "read"]
    /\ UNCHANGED <<items, pushed, current, result>>

PushAcquire(p) ==
    /\ ppc[p] = "acquire"
    /\ lock = Nobody
    /\ lock' = p
    /\ ppc' = [ppc EXCEPT ![p] = "read"]
    /\ UNCHANGED <<items, pushed, current, result>>

\* current = self._items.get(key)
PushRead(p) ==
    /\ ppc[p] = "read"
    /\ current' = [current EXCEPT ![p] = items[pushed[p].context]]
    /\ ppc' = [ppc EXCEPT ![p] = "decide"]
    /\ UNCHANGED <<items, lock, pushed, result>>

\* Fault: the same version is refused too.
IsStaleOrSame(p) ==
    /\ current[p] # NoItem
    /\ current[p].version >= pushed[p].item.version

IsStale(p) ==
    /\ current[p] # NoItem
    /\ current[p].version > pushed[p].item.version

IsNewer(p) ==
    current[p] # NoItem => current[p].version < pushed[p].item.version

PushReturn(p, status, version) ==
    /\ result' = [result EXCEPT ![p] = [status |-> status, current_version |-> version]]
    /\ lock' = Nobody
    /\ ppc' = [ppc EXCEPT ![p] = "done"]
    /\ UNCHANGED <<pushed, current>>

PushRefuse(p) ==
    /\ ppc[p] = "decide"
    /\ IsStale(p)
    /\ PushReturn(p, "stale", current[p].version)
    /\ UNCHANGED items

PushStore(p) ==
    /\ ppc[p] = "decide"
    /\ IsNewer(p)
    /\ items' = [items EXCEPT ![pushed[p].context] = pushed[p].item]
    /\ PushReturn(p, "accepted", 0)

\* Fault: a push that stores nothing is tried again.
KeepRetries(p) ==
    /\ ppc[p] = "decide"
    /\ ~IsStale(p)
    /\ ~IsNewer(p)
    /\ lock' = Nobody
    /\ ppc' = [ppc EXCEPT ![p] = "acquire"]
    /\ UNCHANGED <<items, pushed, current, result>>

\* The same version again: accepted, and nothing is stored.
PushKeep(p) ==
    /\ ppc[p] = "decide"
    /\ ~IsStale(p)
    /\ ~IsNewer(p)
    /\ PushReturn(p, "accepted", 0)
    /\ UNCHANGED items

PushStep(p) ==
    /\ \/ PushAcquire(p)
       \/ PushRead(p)
       \/ PushRefuse(p)
       \/ PushStore(p)
       \/ PushKeep(p)
    /\ UNCHANGED probeVars

-------------------------------------------------------------------------------

\* counts: iter(self._items) remembers the size of the dictionary ...
ProbeStart(h) ==
    /\ hpc[h] = "idle"
    /\ started' = [started EXCEPT ![h] = Present]
    /\ hpc' = [hpc EXCEPT ![h] = "iterate"]
    /\ UNCHANGED counted

\* Fault: an iteration that does not notice insertions.
SizeIgnored(h) == FALSE

SizeChanged(h) == Cardinality(Present) # Cardinality(started[h])

\* ... and every next() compares it with the size now.
ProbeVisit(h) ==
    /\ hpc[h] = "iterate"
    /\ ~SizeChanged(h)
    /\ \E k \in Present \ counted[h] : counted' = [counted EXCEPT ![h] = @ \cup {k}]
    /\ UNCHANGED <<hpc, started>>

ProbeAnswer(h) ==
    /\ hpc[h] = "iterate"
    /\ ~SizeChanged(h)
    /\ Present \subseteq counted[h]
    /\ hpc' = [hpc EXCEPT ![h] = "ok"]
    /\ UNCHANGED <<started, counted>>

\* RuntimeError: dictionary changed size during iteration, a 500.
ProbeFail(h) ==
    /\ hpc[h] = "iterate"
    /\ SizeChanged(h)
    /\ hpc' = [hpc EXCEPT ![h] = "error"]
    /\ UNCHANGED <<started, counted>>

ProbeStep(h) ==
    /\ ProbeVisit(h) \/ ProbeAnswer(h) \/ ProbeFail(h)
    /\ UNCHANGED pushVars

Finished ==
    /\ \A p \in Pushes : ppc[p] = "done"
    /\ \A h \in Probes : hpc[h] \in {"ok", "error"}
    /\ UNCHANGED vars

Next ==
    \/ \E p \in Pushes : (PushArrive(p) /\ UNCHANGED probeVars) \/ PushStep(p)
    \/ \E h \in Probes : (ProbeStart(h) /\ UNCHANGED pushVars) \/ ProbeStep(h)
    \/ Finished

Spec == Init /\ [][Next]_vars

\* A request that is being served is not forgotten by the scheduler; the lock is held
\* for a few steps only, by one request each, so every waiter gets its turn.
FairSpec ==
    /\ Spec
    /\ \A p \in Pushes : WF_vars(PushStep(p))
    /\ \A h \in Probes : WF_vars(ProbeStep(h))

-------------------------------------------------------------------------------

TypeOK ==
    /\ items \in [Contexts -> Item \cup {NoItem}]
    /\ lock \in Pushes \cup {Nobody}
    /\ ppc \in [Pushes -> {"idle", "acquire", "read", "decide", "done"}]
    /\ pushed \in [Pushes -> Push \cup {NoPush}]
    /\ current \in [Pushes -> Item \cup {NoItem}]
    /\ result \in [Pushes -> PushResult]
    /\ hpc \in [Probes -> {"idle", "iterate", "ok", "error"}]
    /\ started \in [Probes -> SUBSET Contexts]
    /\ counted \in [Probes -> SUBSET Contexts]

ReplacesByNewer(k) ==
    items'[k] # items[k] => items[k] = NoItem \/ items'[k].version > items[k].version

\* Concurrent pushes never move a context back, and never swap the payload of a
\* version: what is stored changes only for a strictly higher version (store.py:57-63).
OnlyNewerReplaces == [][\A k \in Contexts : ReplacesByNewer(k)]_vars

\* The response tells the truth and stays true: an accepted push has its version or a
\* higher one stored, a refused push is told a version that was stored and beats its
\* own.  With this, version 4 always beats a concurrent version 3 (store.py:40-44).
ResultsAreTrue ==
    \A p \in Pushes :
        LET k == pushed[p].context
            v == pushed[p].item.version
        IN  /\ result[p].status = "accepted" =>
                  items[k] # NoItem /\ items[k].version >= v
            /\ result[p].status = "stale" =>
                  /\ items[k] # NoItem
                  /\ items[k].version >= result[p].current_version
                  /\ result[p].current_version > v

\* A probe that answers at all counted the contexts of one moment, none twice and none
\* missing, although pushes go on while it iterates (store.py:79-83).
CountsAreASnapshot ==
    \A h \in Probes : hpc[h] = "ok" => counted[h] = started[h]

\* Every push that arrived is answered, whatever the others do with the lock.
EveryPushIsAnswered ==
    \A p \in Pushes : ppc[p] # "idle" ~> ppc[p] = "done"

\* The locked steps of push implement one atomic comparison.
Promise ==
    INSTANCE VersionedContexts WITH
        latest <- items,
        outcome <- [p \in Pushes |-> result[p].status]

ImplementsPromise == Promise!Spec

-------------------------------------------------------------------------------
(***************************************************************************)
(* What the documents say of the context store that the code does not do.  *)
(***************************************************************************)

\* "same-or-lower version rejected with 409 stale_version": a push is accepted only
\* over nothing or a strictly lower version.
SameVersionRejected ==
    \A p \in Pushes : result[p].status = "accepted" => IsNewer(p)
===============================================================================

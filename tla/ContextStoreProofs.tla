-------------------------- MODULE ContextStoreProofs --------------------------
(***************************************************************************)
(* ContextStore for any contexts, versions, payloads, pushes and probes.   *)
(*                                                                         *)
(* The argument is the lock's: whoever is between reading and deciding     *)
(* holds it, so what it read is still what is stored.  Everything else     *)
(* follows: a store replaces only something lower, results are true when   *)
(* they are given and stay true because versions only grow, and the last   *)
(* step of a push is the atomic comparison that VersionedContexts promises.*)
(***************************************************************************)
EXTENDS ContextStore, FiniteSetTheorems, TLAPS

\* A push in its critical section holds the lock.
LockHeld ==
    \A p \in Pushes : ppc[p] \in {"read", "decide"} => lock = p

\* A push that has arrived has something to push, and no result before it is done.
PushesFormed ==
    \A p \in Pushes :
        /\ ppc[p] # "idle" => pushed[p] \in Push
        /\ ppc[p] # "done" => result[p] = NoResult
        /\ ppc[p] = "done" => result[p].status # "pending"

\* What a push read is still stored when it decides.
ReadIsCurrent ==
    \A p \in Pushes : ppc[p] = "decide" => current[p] = items[pushed[p].context]

Inv == TypeOK /\ LockHeld /\ PushesFormed /\ ReadIsCurrent

-------------------------------------------------------------------------------

LEMMA ItemFacts ==
    /\ NoItem \notin Item
    /\ \A i \in Item : i.version \in Versions /\ i.version \in Nat
    /\ \A q \in Push : q.context \in Contexts /\ q.item \in Item
  BY ContextAssumption DEF Item, Push

LEMMA InvInit == Init => Inv
  BY ContextAssumption
     DEF Init, Inv, TypeOK, LockHeld, PushesFormed, ReadIsCurrent, NoResult, PushResult

LEMMA InvNext == Inv /\ [Next]_vars => Inv'
  <1> SUFFICES ASSUME Inv, [Next]_vars PROVE Inv'
    OBVIOUS
  <1> USE ItemFacts, ContextAssumption
  <1>1. ASSUME NEW p \in Pushes, PushArrive(p), UNCHANGED probeVars PROVE Inv'
    <2>1. TypeOK'
      BY <1>1 DEF Inv, TypeOK, PushArrive, probeVars, Push, Item
    <2>2. LockHeld'
      BY <1>1 DEF Inv, TypeOK, LockHeld, PushArrive
    <2>3. PushesFormed'
      BY <1>1 DEF Inv, TypeOK, PushesFormed, PushArrive, Push, Item
    <2>4. ReadIsCurrent'
      BY <1>1 DEF Inv, TypeOK, ReadIsCurrent, PushArrive
    <2> QED BY <2>1, <2>2, <2>3, <2>4 DEF Inv
  <1>2. ASSUME NEW p \in Pushes, PushAcquire(p), UNCHANGED probeVars PROVE Inv'
    <2>1. TypeOK'
      BY <1>2 DEF Inv, TypeOK, PushAcquire, probeVars
    <2>2. LockHeld'
      BY <1>2 DEF Inv, TypeOK, LockHeld, PushAcquire
    <2>3. PushesFormed'
      BY <1>2 DEF Inv, TypeOK, PushesFormed, PushAcquire
    <2>4. ReadIsCurrent'
      BY <1>2 DEF Inv, TypeOK, ReadIsCurrent, PushAcquire
    <2> QED BY <2>1, <2>2, <2>3, <2>4 DEF Inv
  <1>3. ASSUME NEW p \in Pushes, PushRead(p), UNCHANGED probeVars PROVE Inv'
    <2>1. TypeOK'
      BY <1>3 DEF Inv, TypeOK, PushesFormed, PushRead, probeVars
    <2>2. LockHeld'
      BY <1>3 DEF Inv, TypeOK, LockHeld, PushRead
    <2>3. PushesFormed'
      BY <1>3 DEF Inv, TypeOK, PushesFormed, PushRead
    <2>4. ReadIsCurrent'
      BY <1>3 DEF Inv, TypeOK, ReadIsCurrent, PushRead
    <2> QED BY <2>1, <2>2, <2>3, <2>4 DEF Inv
  <1>4. ASSUME NEW p \in Pushes, UNCHANGED probeVars,
               PushRefuse(p) \/ PushStore(p) \/ PushKeep(p)
        PROVE  Inv'
    <2>1. /\ ppc[p] = "decide"
          /\ pushed[p] \in Push
          /\ current[p] = items[pushed[p].context]
          /\ lock = p
      BY <1>4 DEF Inv, LockHeld, PushesFormed, ReadIsCurrent, PushRefuse, PushStore, PushKeep
    <2>2. \E res \in PushResult :
             /\ res.status # "pending"
             /\ result' = [result EXCEPT ![p] = res]
             /\ lock' = Nobody
             /\ ppc' = [ppc EXCEPT ![p] = "done"]
             /\ UNCHANGED <<pushed, current>>
      <3>1. CASE PushRefuse(p)
        <4>1. current[p].version \in Nat
          BY <3>1, <2>1 DEF Inv, TypeOK, PushRefuse, IsStale
        <4> QED
          BY <4>1, <3>1 DEF PushRefuse, PushReturn, PushResult
      <3>2. CASE PushStore(p) \/ PushKeep(p)
        BY <3>2 DEF PushStore, PushKeep, PushReturn, PushResult
      <3> QED BY <1>4, <3>1, <3>2
    <2>3. items' \in [Contexts -> Item \cup {NoItem}]
      BY <1>4, <2>1 DEF Inv, TypeOK, PushRefuse, PushStore, PushKeep
    <2>4. TypeOK'
      BY <1>4, <2>2, <2>3 DEF Inv, TypeOK, probeVars
    <2>5. LockHeld'
      BY <2>1, <2>2 DEF Inv, TypeOK, LockHeld
    <2>6. PushesFormed'
      BY <2>1, <2>2 DEF Inv, TypeOK, PushesFormed
    <2>7. ReadIsCurrent'
      BY <2>1, <2>2 DEF Inv, TypeOK, LockHeld, ReadIsCurrent
    <2> QED BY <2>4, <2>5, <2>6, <2>7 DEF Inv
  <1>5. ASSUME NEW h \in Probes, UNCHANGED pushVars,
               ProbeStart(h) \/ ProbeStep(h)
        PROVE  Inv'
    <2>1. TypeOK'
      BY <1>5
         DEF Inv, TypeOK, pushVars, ProbeStart, ProbeStep, ProbeVisit, ProbeAnswer, ProbeFail,
             Present
    <2> QED
      BY <1>5, <2>1 DEF Inv, LockHeld, PushesFormed, ReadIsCurrent, pushVars
  <1>6. CASE UNCHANGED vars
    BY <1>6 DEF Inv, TypeOK, LockHeld, PushesFormed, ReadIsCurrent, vars, pushVars, probeVars
  <1> QED
    BY <1>1, <1>2, <1>3, <1>4, <1>5, <1>6 DEF Next, PushStep, ProbeStep, Finished

\* Every variable of the context store always has its type.
THEOREM TypeCorrect == Spec => []TypeOK
  <1>1. Inv => TypeOK
    BY DEF Inv
  <1> QED BY <1>1, InvInit, InvNext, PTL DEF Spec

\* The lock protects what a push read: the inductive invariant of store.py's push.
THEOREM LockProtects == Spec => []Inv
  BY InvInit, InvNext, PTL DEF Spec

-------------------------------------------------------------------------------
(***************************************************************************)
(* Stored versions only grow.                                              *)
(***************************************************************************)

LEMMA StepReplacesByNewer ==
  ASSUME Inv, [Next]_vars, NEW k \in Contexts, items'[k] # items[k]
  PROVE  /\ items'[k] \in Item
         /\ items[k] = NoItem \/ items'[k].version > items[k].version
  <1> USE ItemFacts
  <1>1. PICK p \in Pushes : PushStore(p)
    <2>1. CASE UNCHANGED vars
      BY <2>1 DEF vars, pushVars
    <2> QED
      BY <2>1 DEF Next, PushStep, ProbeStep, Finished, PushArrive, PushAcquire, PushRead,
                  PushRefuse, PushKeep, pushVars, probeVars, vars
  <1>2. /\ pushed[p] \in Push
        /\ current[p] = items[pushed[p].context]
    BY <1>1 DEF Inv, PushesFormed, ReadIsCurrent, PushStore
  <1>3. /\ k = pushed[p].context
        /\ items'[k] = pushed[p].item
    BY <1>1, <1>2 DEF Inv, TypeOK, PushStore
  <1>4. items[k] = NoItem \/ items[k].version < pushed[p].item.version
    BY <1>1, <1>2, <1>3 DEF PushStore, IsNewer
  <1>5. items[k] # NoItem => items[k] \in Item
    BY DEF Inv, TypeOK
  <1> QED BY <1>2, <1>3, <1>4, <1>5

\* What is stored changes only for a strictly higher version (store.py:57-63).
THEOREM VersionsOnlyGrow == Spec => OnlyNewerReplaces
  <1>1. Inv /\ [Next]_vars => [\A k \in Contexts : ReplacesByNewer(k)]_vars
    BY StepReplacesByNewer DEF ReplacesByNewer
  <1> QED BY <1>1, InvInit, InvNext, PTL DEF Spec, OnlyNewerReplaces

-------------------------------------------------------------------------------
(***************************************************************************)
(* Results are true when they are given, and stay true.                    *)
(***************************************************************************)

LEMMA ResultsInit == Init => ResultsAreTrue
  BY DEF Init, ResultsAreTrue, NoResult

LEMMA ResultsNext == Inv /\ Inv' /\ ResultsAreTrue /\ [Next]_vars => ResultsAreTrue'
  <1> SUFFICES ASSUME Inv, Inv', ResultsAreTrue, [Next]_vars,
                      NEW p \in Pushes
               PROVE  LET k == pushed'[p].context
                          v == pushed'[p].item.version
                      IN  /\ result'[p].status = "accepted" =>
                                items'[k] # NoItem /\ items'[k].version >= v
                          /\ result'[p].status = "stale" =>
                                /\ items'[k] # NoItem
                                /\ items'[k].version >= result'[p].current_version
                                /\ result'[p].current_version > v
    BY DEF ResultsAreTrue
  <1> USE ItemFacts
  <1>1. CASE ppc'[p] # "done"
    BY <1>1 DEF Inv, PushesFormed, NoResult
  <1>2. CASE ppc[p] = "done"
    <2>1. /\ pushed'[p] = pushed[p]
          /\ result'[p] = result[p]
      BY <1>2 DEF Inv, TypeOK, Next, PushArrive, PushStep, PushAcquire, PushRead, PushRefuse,
                  PushStore, PushKeep, PushReturn, ProbeStart, ProbeStep, Finished,
                  pushVars, probeVars, vars
    <2>2. pushed[p] \in Push
      BY <1>2 DEF Inv, PushesFormed
    <2> DEFINE k == pushed[p].context
    <2>3. k \in Contexts
      BY <2>2 DEF Push
    <2>4. items[k] = NoItem \/ items[k] \in Item
      BY <2>3 DEF Inv, TypeOK
    <2>5. items[k] # NoItem => items'[k] # NoItem /\ items'[k].version >= items[k].version
      BY <2>3, <2>4, StepReplacesByNewer DEF Item
    <2>6. pushed[p].item.version \in Nat /\ result[p].current_version \in Nat
      BY <2>2 DEF Inv, TypeOK, Push, PushResult
    <2>7. /\ result[p].status = "accepted" =>
                items[k] # NoItem /\ items[k].version >= pushed[p].item.version
          /\ result[p].status = "stale" =>
                /\ items[k] # NoItem
                /\ items[k].version >= result[p].current_version
                /\ result[p].current_version > pushed[p].item.version
      BY DEF ResultsAreTrue
    <2> QED BY <2>1, <2>2, <2>3, <2>4, <2>5, <2>6, <2>7, StepReplacesByNewer
  <1>3. CASE ppc[p] # "done" /\ ppc'[p] = "done"
    <2>1. PushRefuse(p) \/ PushStore(p) \/ PushKeep(p)
      BY <1>3 DEF Inv, TypeOK, Next, PushArrive, PushStep, PushAcquire, PushRead, PushRefuse,
                  PushStore, PushKeep, PushReturn, ProbeStart, ProbeStep, Finished,
                  pushVars, probeVars, vars
    <2>2. /\ pushed[p] \in Push
          /\ current[p] = items[pushed[p].context]
          /\ pushed' = pushed
          /\ result \in [Pushes -> PushResult]
          /\ items \in [Contexts -> Item \cup {NoItem}]
      BY <2>1 DEF Inv, TypeOK, PushesFormed, ReadIsCurrent, PushRefuse, PushStore, PushKeep,
                  PushReturn
    <2>3. items[pushed[p].context] = NoItem \/ items[pushed[p].context] \in Item
      BY <2>2
    <2>4. CASE PushRefuse(p)
      BY <2>2, <2>3, <2>4 DEF PushRefuse, PushReturn, IsStale
    <2>5. CASE PushStore(p)
      BY <2>2, <2>5 DEF PushStore, PushReturn
    <2>6. CASE PushKeep(p)
      BY <2>2, <2>3, <2>6 DEF PushKeep, PushReturn, IsStale, IsNewer
    <2> QED BY <2>1, <2>4, <2>5, <2>6
  <1> QED BY <1>1, <1>2, <1>3

\* The answer of every push is true, and stays true whatever is pushed afterwards.
THEOREM AnswersAreTrue == Spec => []ResultsAreTrue
  BY InvInit, InvNext, ResultsInit, ResultsNext, PTL DEF Spec

-------------------------------------------------------------------------------
(***************************************************************************)
(* A probe that answers saw one moment.  Contexts are only ever added, so  *)
(* the ones that were there when the iteration began still are; as many as *)
(* then means the same ones, and all of them have been visited.            *)
(***************************************************************************)

\* What a probe remembers and what it has visited is present while it iterates; what it
\* answered is what was there when it began.
ProbesSound ==
    \A h \in Probes :
        /\ hpc[h] = "idle" => counted[h] = {}
        /\ hpc[h] = "iterate" => started[h] \subseteq Present /\ counted[h] \subseteq Present
        /\ hpc[h] = "ok" => counted[h] = started[h]

LEMMA PresentGrows == Inv /\ [Next]_vars => Present \subseteq Present'
  BY StepReplacesByNewer, ItemFacts DEF Present

\* The size check of the iterator is enough because nothing is ever removed.
LEMMA SameSizeSameContexts ==
  ASSUME NEW h \in Probes, started[h] \subseteq Present, ~SizeChanged(h)
  PROVE  started[h] = Present
  <1>1. IsFiniteSet(Present)
    BY ContextAssumption, FS_Subset DEF Present
  <1> QED BY <1>1, FS_Subset DEF SizeChanged

LEMMA ProbesInit == Init => ProbesSound
  BY DEF Init, ProbesSound

LEMMA ProbesNext == Inv /\ ProbesSound /\ [Next]_vars => ProbesSound'
  <1> SUFFICES ASSUME Inv, ProbesSound, [Next]_vars PROVE ProbesSound'
    OBVIOUS
  <1>1. ASSUME NEW h \in Probes, UNCHANGED pushVars, ProbeStart(h) \/ ProbeStep(h)
        PROVE  ProbesSound'
    <2>1. Present' = Present
      BY <1>1 DEF pushVars, Present
    <2>2. CASE ProbeStart(h)
      BY <2>1, <2>2 DEF Inv, TypeOK, ProbesSound, ProbeStart
    <2>3. CASE ProbeVisit(h)
      BY <2>1, <2>3 DEF Inv, TypeOK, ProbesSound, ProbeVisit
    <2>4. CASE ProbeAnswer(h)
      <3>1. counted[h] = started[h]
        BY <2>4, SameSizeSameContexts DEF ProbesSound, ProbeAnswer
      <3> QED
        BY <2>1, <2>4, <3>1 DEF Inv, TypeOK, ProbesSound, ProbeAnswer
    <2>5. CASE ProbeFail(h)
      BY <2>1, <2>5 DEF Inv, TypeOK, ProbesSound, ProbeFail
    <2> QED BY <1>1, <2>2, <2>3, <2>4, <2>5 DEF ProbeStep
  <1>2. CASE UNCHANGED probeVars
    BY <1>2, PresentGrows DEF ProbesSound, probeVars
  <1>3. ASSUME NEW h \in Probes, ProbeStep(h)
        PROVE  UNCHANGED pushVars
    BY <1>3 DEF ProbeStep
  <1>4. CASE UNCHANGED vars
    BY <1>2, <1>4 DEF vars, probeVars
  <1> QED
    BY <1>1, <1>2, <1>3, <1>4 DEF Next, PushStep, Finished

\* A probe that answers counted exactly the contexts that were stored when its iteration
\* began, whatever was pushed meanwhile and without the lock (store.py:79-83).
THEOREM CountsAreOneMoment == Spec => []CountsAreASnapshot
  <1>1. ProbesSound => CountsAreASnapshot
    BY DEF ProbesSound, CountsAreASnapshot
  <1> QED BY <1>1, InvInit, InvNext, ProbesInit, ProbesNext, PTL DEF Spec

-------------------------------------------------------------------------------
(***************************************************************************)
(* The refinement: a push takes effect in its last step.                   *)
(***************************************************************************)

LEMMA StepRefines == Inv /\ [Next]_vars => [Promise!Next]_(Promise!vars)
  <1> SUFFICES ASSUME Inv, [Next]_vars PROVE [Promise!Next]_(Promise!vars)
    OBVIOUS
  <1> USE ItemFacts
  <1>1. ASSUME NEW p \in Pushes, PushRefuse(p) \/ PushStore(p) \/ PushKeep(p)
        PROVE  Promise!Next
    <2>1. /\ ppc[p] = "decide"
          /\ pushed[p] \in Push
          /\ current[p] = items[pushed[p].context]
          /\ result[p].status = "pending"
          /\ result \in [Pushes -> PushResult]
      BY <1>1 DEF Inv, TypeOK, PushesFormed, ReadIsCurrent, NoResult, PushRefuse, PushStore,
                  PushKeep
    <2>2. /\ pushed[p].context \in Contexts
          /\ pushed[p].item \in Promise!Item
      BY <2>1 DEF Push, Item, Promise!Item
    <2> DEFINE k == pushed[p].context
               item == pushed[p].item
               Answer(status) == [[q \in Pushes |-> result[q].status] EXCEPT ![p] = status]
    <2>3. items[k] = NoItem \/ items[k] \in Item
      BY <2>1, <2>2 DEF Inv, TypeOK
    <2>4. /\ IsStale(p) <=> Promise!Stale(item, items[k])
          /\ IsNewer(p) <=> Promise!Newer(item, items[k])
          /\ ~(IsStale(p) /\ IsNewer(p))
      BY <2>1, <2>2, <2>3 DEF IsStale, IsNewer, Promise!Stale, Promise!Newer
    <2>5. items' = IF Promise!Newer(item, items[k]) THEN [items EXCEPT ![k] = item] ELSE items
      BY <1>1, <2>4 DEF PushRefuse, PushStore, PushKeep
    <2>6. ASSUME NEW status, NEW version, PushReturn(p, status, version)
          PROVE  [q \in Pushes |-> result'[q].status] = Answer(status)
      <3>1. result' = [result EXCEPT ![p] = [status |-> status, current_version |-> version]]
        BY <2>6 DEF PushReturn
      <3>2. \A q \in Pushes : result'[q].status = IF q = p THEN status ELSE result[q].status
        BY <2>1, <3>1
      <3> QED BY <3>2
    <2>7. [q \in Pushes |-> result'[q].status] =
              Answer(IF Promise!Stale(item, items[k]) THEN "stale" ELSE "accepted")
      <3>1. CASE PushRefuse(p)
        BY <2>4, <2>6, <3>1 DEF PushRefuse
      <3>2. CASE PushStore(p)
        BY <2>4, <2>6, <3>2 DEF PushStore
      <3>3. CASE PushKeep(p)
        BY <2>4, <2>6, <3>3 DEF PushKeep
      <3> QED BY <1>1, <3>1, <3>2, <3>3
    <2>8. [q \in Pushes |-> result[q].status][p] = "pending"
      BY <2>1
    <2>9. PICK kk \in Contexts, ii \in Promise!Item : kk = k /\ ii = item
      BY <2>2
    <2>10. Promise!Offer(p, kk, ii)
      BY <2>5, <2>7, <2>8, <2>9 DEF Promise!Offer
    <2> QED BY <2>10 DEF Promise!Next
  <1>2. CASE ~ \E p \in Pushes : PushRefuse(p) \/ PushStore(p) \/ PushKeep(p)
    <2>1. UNCHANGED <<items, result>>
      BY <1>2 DEF Next, PushArrive, PushStep, PushAcquire, PushRead, ProbeStart, ProbeStep,
                  Finished, pushVars, probeVars, vars
    <2> QED BY <2>1 DEF Promise!vars
  <1> QED BY <1>1, <1>2

\* Overlapping pushes through the lock are atomic comparisons: push implements what
\* POST /v1/context promises (store.py:40-69).
THEOREM PushIsAtomic == Spec => ImplementsPromise
  <1>1. Init => Promise!Init
    BY DEF Init, Promise!Init, NoResult
  <1> QED
    BY <1>1, InvInit, InvNext, StepRefines, PTL DEF Spec, ImplementsPromise, Promise!Spec
===============================================================================

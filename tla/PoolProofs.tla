------------------------------ MODULE PoolProofs ------------------------------
(***************************************************************************)
(* ComposePool for any number of requests, messages and workers and any    *)
(* time limits.                                                            *)
(*                                                                         *)
(* A call that is neither queued nor hung burns the caller's time and the  *)
(* provider's at the same rate: if the provider has less of it and the     *)
(* call began at once, the caller has time left when it ends.              *)
(***************************************************************************)
EXTENDS ComposePool, TLAPS

LEMMA ProviderTimeType == ProviderTime \in Nat
  BY PoolAssumption, SMT DEF ProviderTime

LLMState(j) == job[j].state = "running" /\ job[j].composer = "llm"

\* The queue holds each call that waits for a worker once.
QueueInv ==
    /\ \A i \in DOMAIN queue : job[queue[i]].state = "queued"
    /\ \A i, k \in DOMAIN queue : queue[i] = queue[k] => i = k

\* No call is made before its turn.
FreshInv ==
    \A r \in Requests, k \in 1 .. Sends :
        /\ k > nth[r] => job[<<r, k>>].state = "none"
        /\ stage[r] \in {"idle", "ready"} /\ k = nth[r] => job[<<r, k>>].state = "none"

\* A caller has a call to wait for, and gives up only with its time spent or the call's own
\* TimeoutError in hand.
AwaitInv ==
    \A r \in Requests :
        /\ stage[r] \in {"waiting", "expired"} => Future(r).state # "none"
        /\ stage[r] = "expired" =>
              wait[r] = 0 \/ (Done(Current(r)) /\ Future(r).outcome = "raises_timeout")

\* The time a caller has left for a call that did not have to queue.
TimeInv ==
    \A r \in Requests :
        stage[r] \in {"waiting", "expired"} /\ ~Future(r).delayed =>
            /\ Future(r).state = "queued" => wait[r] = CallerTimeout
            /\ Future(r).state = "running" /\ Future(r).composer = "template" =>
                  wait[r] = CallerTimeout
            /\ LLMState(Current(r)) =>
                  wait[r] + ProviderTime >= run[Current(r)] + CallerTimeout

\* The time a request has used, and may still use for its call, if it never queued.
BudgetInv ==
    \A r \in Requests :
        ~queued[r] =>
            /\ elapsed[r] < Limit
            /\ /\ stage[r] \in {"waiting", "expired"}
               /\ Future(r).state \in {"queued", "running"}
               /\ Future(r).composer # "template"
               => elapsed[r] + wait[r] < Limit

Inv == TypeOK /\ QueueInv /\ FreshInv /\ AwaitInv /\ TimeInv /\ BudgetInv

-------------------------------------------------------------------------------

LEMMA CurrentIsJob == TypeOK => \A r \in Requests : Current(r) \in JobIds
  BY DEF TypeOK, Current, JobIds

LEMMA JobPairs == \A j \in JobIds : j[1] \in Requests /\ j[2] \in 1 .. Sends /\ j = <<j[1], j[2]>>
  BY DEF JobIds

LEMMA NoJobIsJob == NoJob \in Job /\ NoJob.state = "none"
  BY DEF NoJob, Job, Outcomes, Verdicts

Reasons == {"", "caller_timeout", "provider_error", "firewall_rejected"}

LEMMA FallBackFacts ==
    \A j \in JobIds, reason \in Reasons : \A res \in FallBack(j, reason) :
        res \in ComposeResult /\ res.reason = reason /\ res.text \in {"template", "empty"}
  <1> SUFFICES ASSUME NEW j \in JobIds, NEW reason \in Reasons, NEW res \in FallBack(j, reason)
               PROVE  res \in ComposeResult /\ res.reason = reason
                      /\ res.text \in {"template", "empty"}
    OBVIOUS
  <1>1. PICK v : res = [text |-> IF v = "clean" THEN "template" ELSE "empty", reason |-> reason]
    BY DEF FallBack
  <1> QED BY <1>1 DEF ComposeResult, Reasons

\* What is sent after the firewall's verdict is the call's own text, perhaps corrected, and
\* the template otherwise.
LEMMA VetFacts ==
    \A j \in JobIds : job[j].outcome \in Verdicts => \A res \in Vet(j) :
        /\ res \in ComposeResult
        /\ \/ res.reason = "" /\ res.text # "empty"
           \/ res.reason = "firewall_rejected" /\ job[j].outcome = "rejected"
  <1> SUFFICES ASSUME NEW j \in JobIds, job[j].outcome \in Verdicts, NEW res \in Vet(j)
               PROVE  /\ res \in ComposeResult
                      /\ \/ res.reason = "" /\ res.text # "empty"
                         \/ res.reason = "firewall_rejected" /\ job[j].outcome = "rejected"
    OBVIOUS
  <1>1. CASE job[j].outcome \in {"clean", "no_cta"}
    <2>1. res = [text |-> IF job[j].outcome = "clean" THEN "composed" ELSE "corrected",
                 reason |-> ""]
      BY <1>1 DEF Vet
    <2> QED BY <2>1 DEF ComposeResult
  <1>2. CASE job[j].outcome = "rejected"
    <2>1. res \in FallBack(j, "firewall_rejected")
      BY <1>2 DEF Vet
    <2> QED BY <1>2, <2>1, FallBackFacts DEF Reasons
  <1> QED BY <1>1, <1>2 DEF Verdicts

LEMMA InvInit == Init => Inv
  <1> SUFFICES ASSUME Init PROVE Inv
    OBVIOUS
  <1> USE PoolAssumption, ProviderTimeType
  <1>1. TypeOK
    <2>1. NoResult \in ComposeResult
      BY DEF NoResult, ComposeResult
    <2>2. Limit \in Nat /\ CallerTimeout \in Nat /\ ProviderTime \in Nat /\ 1 \in 1 .. Sends
      BY DEF Limit
    <2> QED BY <2>1, <2>2, NoJobIsJob DEF Init, TypeOK
  <1>2. QueueInv /\ FreshInv
    BY NoJobIsJob DEF Init, QueueInv, FreshInv, JobIds
  <1>3. AwaitInv /\ TimeInv
    BY DEF Init, AwaitInv, TimeInv
  <1>4. BudgetInv
    BY DEF Init, BudgetInv, Limit
  <1> QED BY <1>1, <1>2, <1>3, <1>4 DEF Inv

-------------------------------------------------------------------------------
(***************************************************************************)
(* The invariant, one action after the other.                              *)
(***************************************************************************)

LEMMA BeginKeeps == ASSUME Inv, NEW r \in Requests, Begin(r) PROVE Inv'
  <1>1. TypeOK'
    BY DEF Inv, TypeOK, Begin
  <1>2. QueueInv' /\ FreshInv'
    BY DEF Inv, TypeOK, QueueInv, FreshInv, Begin
  <1>3. AwaitInv' /\ TimeInv' /\ BudgetInv'
    BY DEF Inv, TypeOK, AwaitInv, TimeInv, BudgetInv, Begin, Future, Current, Done, LLMState
  <1> QED BY <1>1, <1>2, <1>3 DEF Inv

\* Nothing is made before its turn by a step that makes no call and goes on to no message.
LEMMA FreshCarries ==
    ASSUME FreshInv, UNCHANGED <<stage, nth>>,
           \A j \in JobIds : job[j].state = "none" => job'[j].state = "none"
    PROVE  FreshInv'
  <1> SUFFICES ASSUME NEW q \in Requests, NEW k \in 1 .. Sends
               PROVE  /\ k > nth'[q] => job'[<<q, k>>].state = "none"
                      /\ stage'[q] \in {"idle", "ready"} /\ k = nth'[q] =>
                            job'[<<q, k>>].state = "none"
    BY DEF FreshInv
  <1>1. <<q, k>> \in JobIds
    BY DEF JobIds
  <1> QED BY <1>1 DEF FreshInv

\* The call that is submitted was never made before.
LEMMA SubmitKeeps == ASSUME Inv, NEW r \in Requests, Submit(r) PROVE Inv'
  <1> USE PoolAssumption, ProviderTimeType
  <1>1. PICK c \in Composers(r) : Submitted(r, c)
    BY DEF Submit
  <1> DEFINE mine == Current(r)
             call == [NoJob EXCEPT !.state = "queued", !.composer = c]
  <1>2. c \in {"llm", "hung", "template"} /\ (c # "template" => elapsed[r] < LLMBudget)
    BY DEF Composers
  <1>3. /\ call \in Job
        /\ call.state = "queued" /\ call.composer = c /\ ~call.delayed
    BY <1>2 DEF NoJob, Job, Outcomes, Verdicts
  <1>4. mine \in JobIds /\ mine = <<r, nth[r]>> /\ nth[r] \in 1 .. Sends
    BY CurrentIsJob DEF Inv, TypeOK, Current
  <1>5. /\ job' = [job EXCEPT ![mine] = call]
        /\ queue' = Append(queue, mine)
        /\ stage[r] = "ready" /\ stage' = [stage EXCEPT ![r] = "waiting"]
        /\ wait' = [wait EXCEPT ![r] = CallerTimeout]
        /\ UNCHANGED <<nth, elapsed, run, queued>>
        /\ result' = [result EXCEPT ![r] = NoResult]
    BY <1>1 DEF Submit, Submitted
  <1>6. job[mine].state = "none"
    BY <1>4, <1>5 DEF Inv, FreshInv
  <1> HIDE DEF mine, call
  <1>7. TypeOK'
    <2>1. NoResult \in ComposeResult
      BY DEF NoResult, ComposeResult
    <2> QED BY <2>1, <1>3, <1>4, <1>5 DEF Inv, TypeOK
  <1>8. QueueInv'
    <2>1. queue \in Seq(JobIds)
      BY DEF Inv, TypeOK
    <2>2. \A i \in DOMAIN queue : queue[i] # mine /\ queue[i] \in JobIds
      BY <1>6, <2>1 DEF Inv, QueueInv
    <2>3. \A i \in DOMAIN queue' :
             \/ i \in DOMAIN queue /\ queue'[i] = queue[i]
             \/ i = Len(queue) + 1 /\ queue'[i] = mine
      BY <1>5, <1>4, <2>1
    <2>4. \A j \in JobIds : job'[j] = IF j = mine THEN call ELSE job[j]
      BY <1>5 DEF Inv, TypeOK
    <2> QED BY <1>3, <1>4, <2>2, <2>3, <2>4 DEF Inv, QueueInv
  <1>9. FreshInv'
    <2> SUFFICES ASSUME NEW q \in Requests, NEW k \in 1 .. Sends
                 PROVE  /\ k > nth'[q] => job'[<<q, k>>].state = "none"
                        /\ stage'[q] \in {"idle", "ready"} /\ k = nth'[q] =>
                              job'[<<q, k>>].state = "none"
      BY DEF FreshInv
    <2>1. <<q, k>> \in JobIds /\ (<<q, k>> = mine <=> q = r /\ k = nth[r])
      BY <1>4 DEF JobIds
    <2>2. job'[<<q, k>>] = IF q = r /\ k = nth[r] THEN call ELSE job[<<q, k>>]
      BY <1>5, <2>1 DEF Inv, TypeOK
    <2>3. nth'[q] = nth[q] /\ nth[q] \in 1 .. Sends
          /\ stage'[q] = IF q = r THEN "waiting" ELSE stage[q]
      BY <1>5 DEF Inv, TypeOK
    <2> QED BY <2>2, <2>3 DEF Inv, FreshInv
  <1>10. AwaitInv' /\ TimeInv'
    BY <1>3, <1>4, <1>5 DEF Inv, TypeOK, AwaitInv, TimeInv, Future, Current, Done, LLMState, JobIds
  <1>11. BudgetInv'
    BY <1>2, <1>3, <1>4, <1>5 DEF Inv, TypeOK, BudgetInv, Future, Current, JobIds, Limit
  <1> QED BY <1>7, <1>8, <1>9, <1>10, <1>11 DEF Inv

LEMMA StartKeeps == ASSUME Inv, Start PROVE Inv'
  <1> USE PoolAssumption, ProviderTimeType
  <1> DEFINE first == Head(queue)
  <1>1. /\ queue \in Seq(JobIds) /\ queue # <<>>
        /\ first = queue[1] /\ 1 \in DOMAIN queue /\ first \in JobIds
    BY DEF Inv, TypeOK, Start
  <1>2. job[first].state = "queued" /\ job[first] \in Job
    BY <1>1 DEF Inv, TypeOK, QueueInv
  <1>3. /\ job' = [job EXCEPT ![first].state = "running"]
        /\ run' = [run EXCEPT ![first] =
                     IF job[first].composer = "llm" THEN ProviderTime ELSE 0]
        /\ queue' = Tail(queue)
        /\ UNCHANGED <<stage, nth, elapsed, wait, result, queued>>
    BY DEF Start
  <1> HIDE DEF first
  <1>4. \A j \in JobIds :
           /\ j # first => job'[j] = job[j] /\ run'[j] = run[j]
           /\ job'[first].state = "running"
           /\ job'[first].composer = job[first].composer
           /\ job'[first].delayed = job[first].delayed
           /\ run'[first] = IF job[first].composer = "llm" THEN ProviderTime ELSE 0
    BY <1>1, <1>2, <1>3 DEF Inv, TypeOK, Job
  <1>5. TypeOK'
    <2>1. job' \in [JobIds -> Job]
      <3>1. [job[first] EXCEPT !.state = "running"] \in Job
        BY <1>2 DEF Job
      <3> QED BY <1>1, <1>3, <3>1 DEF Inv, TypeOK
    <2>2. run' \in [JobIds -> 0 .. ProviderTime]
      BY <1>1, <1>3 DEF Inv, TypeOK
    <2>3. queue' \in Seq(JobIds)
      BY <1>1, <1>3
    <2> QED BY <1>3, <2>1, <2>2, <2>3 DEF Inv, TypeOK
  <1>6. QueueInv'
    <2>1. \A i \in DOMAIN queue' : i + 1 \in DOMAIN queue /\ queue'[i] = queue[i + 1]
      BY <1>1, <1>3
    <2>2. \A i \in DOMAIN queue : i # 1 => queue[i] # first
      BY <1>1 DEF Inv, QueueInv
    <2>3. \A i \in DOMAIN queue' : queue'[i] # first /\ queue'[i] \in JobIds
      <3>1. \A i \in DOMAIN queue' : i \in Nat /\ i # 0
        BY <1>1, <1>3
      <3>2. \A i \in DOMAIN queue : queue[i] \in JobIds
        BY <1>1
      <3>3. \A i \in DOMAIN queue' : i + 1 # 1
        BY <3>1
      <3> QED BY <2>1, <2>2, <3>2, <3>3
    <2>4. \A i \in DOMAIN queue' : job'[queue'[i]].state = "queued"
      BY <1>4, <2>1, <2>3 DEF Inv, QueueInv
    <2>5. \A i, k \in DOMAIN queue' : queue'[i] = queue'[k] => i = k
      <3>1. \A i \in DOMAIN queue' : i \in Nat
        BY <1>1, <1>3
      <3> QED BY <2>1, <3>1 DEF Inv, QueueInv
    <2> QED BY <2>4, <2>5 DEF QueueInv
  <1>7. FreshInv'
    <2>1. \A j \in JobIds : job[j].state = "none" => job'[j].state = "none"
      BY <1>2, <1>4
    <2> QED BY <1>3, <2>1, FreshCarries DEF Inv
  <1>8. \A r \in Requests : Current(r)' = Current(r) /\ Current(r) \in JobIds
    BY <1>3, CurrentIsJob DEF Inv, Current
  <1>9. AwaitInv'
    BY <1>2, <1>3, <1>4, <1>8 DEF Inv, AwaitInv, Future, Done
  <1>10. TimeInv'
    BY <1>2, <1>3, <1>4, <1>8 DEF Inv, TypeOK, TimeInv, Future, LLMState
  <1>11. BudgetInv'
    BY <1>2, <1>3, <1>4, <1>8 DEF Inv, TypeOK, BudgetInv, Future
  <1> QED BY <1>5, <1>6, <1>7, <1>9, <1>10, <1>11 DEF Inv

\* The call that ends was running, so it is not in the queue; it is kept only for a caller
\* that still waits for it.
LEMMA FinishKeeps == ASSUME Inv, NEW j \in JobIds, Finish(j) PROVE Inv'
  <1> USE PoolAssumption, ProviderTimeType
  <1>1. job \in [JobIds -> Job] /\ job[j] \in Job /\ job[j].state = "running"
    BY DEF Inv, TypeOK, Finish
  <1>2. /\ UNCHANGED <<stage, nth, elapsed, wait, queue, result, queued>>
        /\ run' = [run EXCEPT ![j] = 0]
    BY DEF Finish
  <1>3. /\ job' \in [JobIds -> Job]
        /\ \A i \in JobIds : i # j => job'[i] = job[i]
        /\ job'[j].state \in {"none", "finished"}
        /\ Awaited(j) => job'[j].state = "finished"
    <2>1. CASE Awaited(j)
      <3>1. PICK o \in Outcomes :
               job' = [job EXCEPT ![j].state = "finished", ![j].outcome = o]
        BY <2>1 DEF Finish, Outcomes
      <3>2. [job[j] EXCEPT !.state = "finished", !.outcome = o] \in Job
        BY <1>1 DEF Job
      <3>3. job' = [job EXCEPT ![j] = [job[j] EXCEPT !.state = "finished", !.outcome = o]]
        BY <1>1, <3>1
      <3> QED BY <1>1, <3>2, <3>3 DEF Job
    <2>2. CASE ~Awaited(j)
      <3>1. job' = [job EXCEPT ![j] = NoJob]
        BY <2>2 DEF Finish
      <3> QED BY <1>1, <2>2, <3>1, NoJobIsJob
    <2> QED BY <2>1, <2>2
  <1>4. TypeOK'
    <2>1. run' \in [JobIds -> 0 .. ProviderTime]
      BY <1>2 DEF Inv, TypeOK
    <2> QED BY <1>2, <1>3, <2>1 DEF Inv, TypeOK
  <1>5. QueueInv'
    <2>1. \A i \in DOMAIN queue : queue[i] \in JobIds /\ queue[i] # j
      BY <1>1 DEF Inv, TypeOK, QueueInv
    <2> QED BY <1>2, <1>3, <2>1 DEF Inv, QueueInv
  <1>6. FreshInv'
    <2>1. \A i \in JobIds : job[i].state = "none" => job'[i].state = "none"
      BY <1>1, <1>3
    <2> QED BY <1>2, <2>1, FreshCarries DEF Inv
  <1>7. \A r \in Requests : Current(r)' = Current(r) /\ Current(r) \in JobIds
    BY <1>2, CurrentIsJob DEF Inv, Current
  <1>8. \A r \in Requests : Current(r) = j /\ stage[r] \in {"waiting", "expired"} => Awaited(j)
    BY JobPairs DEF Awaited, Current
  <1>9. \A i \in JobIds : i # j => run'[i] = run[i]
    BY <1>2 DEF Inv, TypeOK
  <1>10. AwaitInv'
    BY <1>1, <1>2, <1>3, <1>7, <1>8 DEF Inv, AwaitInv, Future, Done
  <1>11. TimeInv'
    BY <1>1, <1>2, <1>3, <1>7, <1>8, <1>9 DEF Inv, TimeInv, Future, LLMState
  <1>12. BudgetInv'
    BY <1>1, <1>2, <1>3, <1>7, <1>8 DEF Inv, BudgetInv, Future
  <1> QED BY <1>4, <1>5, <1>6, <1>10, <1>11, <1>12 DEF Inv

\* The request leaves its call and goes on to one that was never made.
LEMMA ReturnKeeps ==
    ASSUME Inv, NEW r \in Requests, NEW results, Return(r, results),
           \A res \in results : res \in ComposeResult,
           stage[r] \in {"waiting", "expired"}
    PROVE  Inv'
  <1> USE PoolAssumption, ProviderTimeType
  <1> DEFINE mine == Current(r)
  <1>1. /\ mine \in JobIds /\ mine = <<r, nth[r]>>
        /\ nth[r] \in 1 .. Sends /\ job \in [JobIds -> Job]
    BY CurrentIsJob DEF Inv, TypeOK, Current
  <1>2. /\ nth' = [nth EXCEPT ![r] = IF nth[r] < Sends THEN nth[r] + 1 ELSE nth[r]]
        /\ stage' = [stage EXCEPT ![r] = IF nth[r] < Sends THEN "ready" ELSE "done"]
        /\ wait' = [wait EXCEPT ![r] = 0]
        /\ UNCHANGED <<elapsed, queue, run, queued>>
    BY DEF Return, Inv, TypeOK
  <1>3. /\ job' \in [JobIds -> Job]
        /\ \A i \in JobIds : job'[i] = IF i = mine /\ Done(mine) THEN NoJob ELSE job[i]
    BY <1>1, NoJobIsJob DEF Return
  <1>4. PICK res \in ComposeResult : result' = [result EXCEPT ![r] = res]
    BY DEF Return
  <1>5. \A q \in Requests : q # r =>
           stage'[q] = stage[q] /\ nth'[q] = nth[q] /\ wait'[q] = wait[q]
    BY <1>2 DEF Inv, TypeOK
  <1>6. /\ stage'[r] = IF nth[r] < Sends THEN "ready" ELSE "done"
        /\ nth'[r] = IF nth[r] < Sends THEN nth[r] + 1 ELSE nth[r]
    BY <1>2 DEF Inv, TypeOK
  <1>7. \A q \in Requests : q # r =>
           Current(q)' = Current(q) /\ Current(q) # mine /\ Current(q) \in JobIds
    BY <1>1, <1>5, CurrentIsJob DEF Inv, Current
  <1> HIDE DEF mine
  <1>8. TypeOK'
    BY <1>1, <1>2, <1>3, <1>4 DEF Inv, TypeOK
  <1>9. QueueInv'
    <2>1. Done(mine) => \A i \in DOMAIN queue : queue[i] # mine
      BY DEF Inv, QueueInv, Done
    <2>2. \A i \in DOMAIN queue : queue[i] \in JobIds
      BY DEF Inv, TypeOK
    <2> QED BY <1>2, <1>3, <2>1, <2>2 DEF Inv, QueueInv
  <1>10. FreshInv'
    <2> SUFFICES ASSUME NEW q \in Requests, NEW k \in 1 .. Sends
                 PROVE  /\ k > nth'[q] => job'[<<q, k>>].state = "none"
                        /\ stage'[q] \in {"idle", "ready"} /\ k = nth'[q] =>
                              job'[<<q, k>>].state = "none"
      BY DEF FreshInv
    <2>1. <<q, k>> \in JobIds
      BY DEF JobIds
    <2>2. job[<<q, k>>].state = "none" => job'[<<q, k>>].state = "none"
      BY <1>3, <2>1, NoJobIsJob
    <2>3. CASE q = r
      BY <1>1, <1>6, <2>2, <2>3 DEF Inv, FreshInv
    <2>4. CASE q # r
      BY <1>5, <2>2, <2>4 DEF Inv, FreshInv
    <2> QED BY <2>3, <2>4
  <1>11. \A q \in Requests : q # r => Future(q)' = Future(q)
    BY <1>3, <1>7 DEF Future
  <1>12. stage'[r] \in {"ready", "done"}
    BY <1>6
  <1>13. AwaitInv'
    BY <1>3, <1>5, <1>7, <1>11, <1>12 DEF Inv, AwaitInv, Done
  <1>14. TimeInv'
    BY <1>2, <1>3, <1>5, <1>7, <1>11, <1>12 DEF Inv, TimeInv, LLMState
  <1>15. BudgetInv'
    BY <1>2, <1>5, <1>11, <1>12 DEF Inv, BudgetInv
  <1> QED BY <1>8, <1>9, <1>10, <1>13, <1>14, <1>15 DEF Inv

LEMMA StepKeeps == ASSUME Inv, NEW r \in Requests, Step(r) PROVE Inv'
  <1>1. Current(r) \in JobIds
    BY CurrentIsJob DEF Inv
  <1>2. CASE Submit(r)
    BY <1>2, SubmitKeeps
  <1>3. CASE Collect(r)
    BY <1>1, <1>3, ReturnKeeps, VetFacts DEF Collect, Future
  <1>4. CASE ProviderRaised(r)
    BY <1>1, <1>4, ReturnKeeps, FallBackFacts DEF ProviderRaised, Reasons
  <1>5. CASE Explain(r)
    BY <1>1, <1>5, ReturnKeeps, FallBackFacts DEF Explain, Reasons
  <1>6. CASE TimeoutRaised(r)
    <2>1. /\ stage' = [stage EXCEPT ![r] = "expired"] /\ stage[r] = "waiting"
          /\ UNCHANGED <<nth, elapsed, wait, queue, job, run, result, queued>>
      BY <1>6 DEF TimeoutRaised
    <2>2. TypeOK' /\ QueueInv'
      BY <2>1 DEF Inv, TypeOK, QueueInv
    <2>3. FreshInv'
      BY <2>1 DEF Inv, TypeOK, FreshInv
    <2>4. \A q \in Requests : Current(q)' = Current(q) /\ Future(q)' = Future(q)
                              /\ stage'[q] = IF q = r THEN "expired" ELSE stage[q]
      BY <2>1 DEF Inv, TypeOK, Current, Future
    <2>5. AwaitInv'
      BY <1>6, <2>1, <2>4 DEF Inv, AwaitInv, Done, TimeoutRaised
    <2>6. TimeInv' /\ BudgetInv'
      BY <2>1, <2>4 DEF Inv, TimeInv, BudgetInv, LLMState
    <2> QED BY <2>2, <2>3, <2>5, <2>6 DEF Inv
  <1> QED BY <1>2, <1>3, <1>4, <1>5, <1>6 DEF Step

LEMMA LessStays == \A bound \in Nat : \A n \in 0 .. bound : Less(n) \in 0 .. bound
  BY DEF Less

\* Time passes only while nothing is due, so it is taken from callers that have some left
\* and from calls that have some left.
LEMMA TockKeeps == ASSUME Inv, Tock PROVE Inv'
  <1> USE PoolAssumption, ProviderTimeType
  <1>1. /\ UNCHANGED <<stage, nth, queue, result>>
        /\ elapsed' = [r \in Requests |->
              IF stage[r] = "waiting" /\ elapsed[r] < Limit THEN elapsed[r] + 1 ELSE elapsed[r]]
        /\ wait' = [r \in Requests |-> Less(wait[r])]
        /\ run' = [j \in JobIds |-> Less(run[j])]
        /\ job' = [j \in JobIds |-> [job[j] EXCEPT !.delayed = @ \/ job[j].state = "queued"]]
        /\ queued' = [r \in Requests |-> queued[r] \/ Future(r).state = "queued"]
    BY DEF Tock
  <1>2. job \in [JobIds -> Job] /\ run \in [JobIds -> 0 .. ProviderTime]
        /\ wait \in [Requests -> 0 .. CallerTimeout] /\ elapsed \in [Requests -> 0 .. Limit]
        /\ queued \in [Requests -> BOOLEAN]
    BY DEF Inv, TypeOK
  <1>3. \A j \in JobIds :
           /\ job'[j] \in Job
           /\ job'[j].state = job[j].state /\ job'[j].composer = job[j].composer
           /\ job'[j].outcome = job[j].outcome
           /\ ~job'[j].delayed => ~job[j].delayed /\ job[j].state # "queued"
    <2> SUFFICES ASSUME NEW j \in JobIds
                 PROVE  /\ job'[j] \in Job
                        /\ job'[j].state = job[j].state /\ job'[j].composer = job[j].composer
                        /\ job'[j].outcome = job[j].outcome
                        /\ ~job'[j].delayed => ~job[j].delayed /\ job[j].state # "queued"
      OBVIOUS
    <2>1. job[j] \in Job
      BY <1>2
    <2>2. job'[j] = [job[j] EXCEPT !.delayed = job[j].delayed \/ job[j].state = "queued"]
      BY <1>1, <2>1 DEF Job
    <2> QED BY <2>1, <2>2 DEF Job
  <1>4. Limit \in Nat
    BY DEF Limit
  <1>5. TypeOK'
    <2>1. job' \in [JobIds -> Job]
      BY <1>1, <1>3
    <2>2. wait' \in [Requests -> 0 .. CallerTimeout]
      BY <1>1, <1>2, LessStays
    <2>3. run' \in [JobIds -> 0 .. ProviderTime]
      BY <1>1, <1>2, LessStays
    <2>4. elapsed' \in [Requests -> 0 .. Limit]
      BY <1>1, <1>2, <1>4
    <2>5. queued' \in [Requests -> BOOLEAN]
      BY <1>1, <1>2
    <2> QED BY <1>1, <2>1, <2>2, <2>3, <2>4, <2>5 DEF Inv, TypeOK
  <1>6. QueueInv'
    <2>1. \A i \in DOMAIN queue : queue[i] \in JobIds
      BY DEF Inv, TypeOK
    <2> QED BY <1>1, <1>3, <2>1 DEF Inv, QueueInv
  <1>7. FreshInv'
    BY <1>1, <1>3, FreshCarries DEF Inv
  <1>8. \A r \in Requests : Current(r)' = Current(r) /\ Current(r) \in JobIds
    BY <1>1, CurrentIsJob DEF Inv, Current
  <1>9. \A r \in Requests :
           /\ stage[r] # "expired"
           /\ stage[r] = "waiting" =>
                 /\ wait[r] # 0 /\ Future(r).state # "finished"
                 /\ Future(r).state = "running" => Future(r).composer # "template"
                 /\ LLMState(Current(r)) => run[Current(r)] # 0
    BY <1>8 DEF Tock, Urgent, Done, Running, Future, LLMState
  <1>10. AwaitInv'
    BY <1>1, <1>3, <1>8, <1>9 DEF Inv, AwaitInv, Future
  <1>11. TimeInv'
    <2>1. \A r \in Requests :
             /\ Future(r)' = job'[Current(r)] /\ Future(r) = job[Current(r)]
             /\ Future(r)'.state = Future(r).state
             /\ Future(r)'.composer = Future(r).composer
             /\ ~Future(r)'.delayed => ~Future(r).delayed /\ Future(r).state # "queued"
      BY <1>3, <1>8 DEF Future
    <2>2. \A r \in Requests : LLMState(Current(r))' <=> LLMState(Current(r))
      BY <1>3, <1>8 DEF LLMState
    <2>3. \A r \in Requests : stage[r] = "waiting" /\ LLMState(Current(r)) =>
             wait'[r] = wait[r] - 1 /\ run'[Current(r)] = run[Current(r)] - 1
      BY <1>1, <1>8, <1>9 DEF Less
    <2>4. \A r \in Requests : wait[r] \in Nat /\ run[Current(r)] \in Nat
      BY <1>2, <1>8
    <2>5. \A r \in Requests :
             stage[r] = "waiting" /\ LLMState(Current(r)) /\ ~Future(r).delayed =>
             wait[r] + ProviderTime >= run[Current(r)] + CallerTimeout
      BY DEF Inv, TimeInv
    <2>6. \A r \in Requests :
             stage[r] = "waiting" /\ LLMState(Current(r)) /\ ~Future(r).delayed =>
             wait'[r] + ProviderTime >= run'[Current(r)] + CallerTimeout
      BY <2>3, <2>4, <2>5
    <2>7. \A r \in Requests :
             stage'[r] = stage[r] /\ stage[r] # "expired" /\ Current(r)' = Current(r)
      BY <1>1, <1>8, <1>9
    <2>8. \A r \in Requests : stage[r] = "waiting" /\ Future(r).state = "running" =>
             Future(r).composer # "template"
      BY <1>9
    <2> QED BY <2>1, <2>2, <2>6, <2>7, <2>8 DEF TimeInv
  <1>12. BudgetInv'
    <2> SUFFICES ASSUME NEW r \in Requests, ~queued'[r]
                 PROVE  /\ elapsed'[r] < Limit
                        /\ stage[r] = "waiting" => elapsed'[r] + wait'[r] < Limit
      BY <1>1, <1>9 DEF BudgetInv
    <2>1. ~queued[r] /\ Future(r).state # "queued" /\ elapsed[r] < Limit
      BY <1>1, <1>2 DEF Inv, BudgetInv
    <2>2. elapsed[r] \in Nat /\ wait[r] \in Nat
      BY <1>2
    <2>3. CASE stage[r] = "waiting"
      <3>1. Future(r).state = "running" /\ Future(r).composer # "template" /\ wait[r] # 0
        BY <1>2, <1>8, <1>9, <2>1, <2>3 DEF Inv, AwaitInv, Future, Job
      <3>2. elapsed[r] + wait[r] < Limit
        BY <2>1, <2>3, <3>1 DEF Inv, BudgetInv
      <3>3. elapsed'[r] = elapsed[r] + 1 /\ wait'[r] = wait[r] - 1
        BY <1>1, <2>1, <2>3, <3>1 DEF Less
      <3> QED BY <1>4, <2>2, <3>1, <3>2, <3>3
    <2>4. CASE stage[r] # "waiting"
      BY <1>1, <2>1, <2>4
    <2> QED BY <2>3, <2>4
  <1> QED BY <1>5, <1>6, <1>7, <1>10, <1>11, <1>12 DEF Inv

LEMMA StutterKeeps == ASSUME Inv, UNCHANGED vars PROVE Inv'
  <1>1. UNCHANGED <<stage, nth, elapsed, wait, queue, job, run, result, queued>>
    BY DEF vars
  <1>2. TypeOK' /\ QueueInv' /\ FreshInv'
    BY <1>1 DEF Inv, TypeOK, QueueInv, FreshInv
  <1>3. AwaitInv' /\ TimeInv' /\ BudgetInv'
    BY <1>1 DEF Inv, AwaitInv, TimeInv, BudgetInv, Future, Current, Done, LLMState
  <1> QED BY <1>2, <1>3 DEF Inv

LEMMA InvNext == Inv /\ [Next]_vars => Inv'
  BY BeginKeeps, StepKeeps, StartKeeps, FinishKeeps, TockKeeps, StutterKeeps DEF Next, Finished

LEMMA InvHolds == Spec => []Inv
  BY InvInit, InvNext, PTL DEF Spec

-------------------------------------------------------------------------------
(***************************************************************************)
(* What callers can rely on.                                               *)
(***************************************************************************)

\* Every variable keeps its type: no queue, timer or result leaves its range.
THEOREM TypeCorrect == Spec => []TypeOK
  <1>1. Inv => TypeOK
    BY DEF Inv
  <1> QED BY <1>1, InvHolds, PTL

\* A request gets its result by a step of its own, one of three.
LEMMA ReturnsByItself ==
    ASSUME Inv, [Next]_vars, NEW r \in Requests,
           stage[r] \in {"waiting", "expired"}, stage'[r] \in {"ready", "done"}
    PROVE  Collect(r) \/ ProviderRaised(r) \/ Explain(r)
  <1>1. stage \in [Requests -> {"idle", "ready", "waiting", "expired", "done"}]
    BY DEF Inv, TypeOK
  <1>2. stage' # stage
    OBVIOUS
  <1>3. ~UNCHANGED vars /\ ~Finished /\ ~Tock /\ ~Start /\ ~ \E j \in JobIds : Finish(j)
    BY <1>2 DEF vars, Finished, Tock, Start, Finish
  <1>4. PICK q \in Requests : Begin(q) \/ Step(q)
    BY <1>3 DEF Next
  <1>5. q = r
    BY <1>1, <1>4
    DEF Step, Begin, Submit, Submitted, Collect, ProviderRaised, TimeoutRaised, Explain, Return
  <1>6. ~Begin(r) /\ ~Submit(r) /\ ~TimeoutRaised(r)
    BY <1>1 DEF Begin, Submit, TimeoutRaised
  <1> QED BY <1>4, <1>5, <1>6 DEF Step

\* What each way to a result says of the call.
LEMMA ReturnFacts ==
    ASSUME Inv, [Next]_vars, NEW r \in Requests,
           stage[r] \in {"waiting", "expired"}, stage'[r] \in {"ready", "done"}
    PROVE  \/ /\ Done(Current(r))
              /\ \/ result'[r].reason = "" /\ result'[r].text # "empty"
                 \/ result'[r].reason = "firewall_rejected" /\ Future(r).outcome = "rejected"
           \/ /\ result'[r].reason = "provider_error"
              /\ Done(Current(r))
              /\ \/ Future(r).outcome \in {"raises", "raises_timeout"}
                 \/ stage[r] = "expired" /\ wait[r] = 0
           \/ /\ result'[r].reason = "caller_timeout"
              /\ stage[r] = "expired" /\ wait[r] = 0 /\ ~Done(Current(r))
  <1>1. Current(r) \in JobIds /\ result \in [Requests -> ComposeResult]
    BY CurrentIsJob DEF Inv, TypeOK
  <1>2. Collect(r) \/ ProviderRaised(r) \/ Explain(r)
    BY ReturnsByItself
  <1>3. CASE Collect(r)
    <2>1. PICK res \in Vet(Current(r)) : result' = [result EXCEPT ![r] = res]
      BY <1>3 DEF Collect, Return
    <2> QED BY <1>1, <1>3, <2>1, VetFacts DEF Collect, Future
  <1>4. CASE ProviderRaised(r)
    <2>1. PICK res \in FallBack(Current(r), "provider_error") :
             result' = [result EXCEPT ![r] = res]
      BY <1>4 DEF ProviderRaised, Return
    <2> QED BY <1>1, <1>4, <2>1, FallBackFacts DEF ProviderRaised, Reasons
  <1>5. CASE Explain(r)
    <2> DEFINE reason == IF Done(Current(r)) THEN "provider_error" ELSE "caller_timeout"
    <2>1. PICK res \in FallBack(Current(r), reason) : result' = [result EXCEPT ![r] = res]
      BY <1>5 DEF Explain, Return
    <2>2. result'[r].reason = reason
      BY <1>1, <2>1, FallBackFacts DEF Reasons
    <2>3. /\ stage[r] = "expired"
          /\ wait[r] = 0 \/ (Done(Current(r)) /\ Future(r).outcome = "raises_timeout")
      BY <1>5 DEF Explain, Inv, AwaitInv
    <2> QED BY <2>2, <2>3
  <1> QED BY <1>2, <1>3, <1>4, <1>5

\* Whatever the pool's size, load and time limits: a text the firewall accepts is dropped
\* only when its caller's wait had run out; every logged reason is the true one, but that
\* of a call that ended well between that moment and the caller's next look.
THEOREM FallbackIsJustified == Spec => FallbackOnlyWhenNeeded
  <1>1. Inv /\ [Next]_vars =>
           [\A r \in Requests :
              /\ Returns(r, "firewall_rejected") => Future(r).outcome = "rejected"
              /\ Returns(r, "") => Done(Current(r)) /\ result'[r].text # "empty"
              /\ Returns(r, "provider_error") =>
                    /\ Done(Current(r))
                    /\ Future(r).outcome \in Verdicts => stage[r] = "expired" /\ wait[r] = 0
              /\ Returns(r, "caller_timeout") => wait[r] = 0 /\ ~Done(Current(r))]_vars
    BY ReturnFacts DEF Returns, Verdicts
  <1> QED BY <1>1, InvHolds, PTL DEF Spec, FallbackOnlyWhenNeeded

\* A call that a worker takes at once ends by itself before its caller gives up, for every
\* provider's timeout and number of attempts that fit in the caller's limit.
THEOREM CeilingSparesPromptCalls == Spec => PreemptedOnlyWhenQueued
  <1>1. ASSUME Inv, [Next]_vars, NEW r \in Requests, Returns(r, "caller_timeout"),
               Future(r).composer # "hung", ProviderTime < CallerTimeout
        PROVE  Future(r).delayed
    <2>1. stage[r] = "expired" /\ wait[r] = 0 /\ ~Done(Current(r))
      BY <1>1, ReturnFacts DEF Returns
    <2>2. Current(r) \in JobIds
      BY <1>1, CurrentIsJob DEF Inv
    <2>3. Future(r) \in Job /\ run[Current(r)] \in Nat
      BY <1>1, <2>2 DEF Inv, TypeOK, Future
    <2>4. Future(r).state \in {"queued", "running"}
      BY <1>1, <2>1, <2>3 DEF Inv, AwaitInv, Done, Future, Job
    <2>5. CASE ~Future(r).delayed
      <3>1. Future(r).state = "running" /\ Future(r).composer = "llm"
        BY <1>1, <2>1, <2>3, <2>4, <2>5, PoolAssumption, ProviderTimeType DEF Inv, TimeInv, Job
      <3>2. wait[r] + ProviderTime >= run[Current(r)] + CallerTimeout
        BY <1>1, <2>1, <2>5, <3>1 DEF Inv, TimeInv, LLMState, Future
      <3> QED BY <1>1, <2>1, <2>3, <3>2, PoolAssumption, ProviderTimeType
    <2> QED BY <2>5
  <1>2. Inv /\ [Next]_vars =>
           [ProviderTime < CallerTimeout =>
              \A r \in Requests :
                  Returns(r, "caller_timeout") /\ Future(r).composer # "hung"
                  => Future(r).delayed]_vars
    BY <1>1
  <1> QED BY <1>2, InvHolds, PTL DEF Spec, PreemptedOnlyWhenQueued

\* Without a queue, the model's budget and one caller timeout bound a tick, however many
\* messages it composes: calls after the budget are templates and take no time.
THEOREM TicksEndInTime == Spec => []UncontendedInTime
  <1>1. Inv => UncontendedInTime
    BY DEF Inv, BudgetInv, UncontendedInTime
  <1> QED BY <1>1, InvHolds, PTL
===============================================================================

----------------------------- MODULE ComposePool -----------------------------
(***************************************************************************)
(* pipeline.py: requests compose their messages, one after the other, in a *)
(* bounded pool of workers that all requests share.  The caller waits a    *)
(* bounded time; the call itself cannot be stopped and keeps its worker    *)
(* until it ends.  A tick (api/app.py) asks for the language model only in *)
(* the first seconds of the request.                                       *)
(*                                                                         *)
(* Time advances in steps of some seconds (Tock), and only once everything *)
(* that happens at once has happened.  A message is known by what the      *)
(* firewall says of it: "clean", "no_cta" (clean once the fixed call to    *)
(* action is appended) or "rejected".                                      *)
(***************************************************************************)
EXTENDS Naturals, Sequences, FiniteSets

CONSTANTS
    Requests,          \* requests that compose
    Sends,             \* messages each of them composes
    Workers,           \* max_workers of the pool
    CallerTimeout,     \* _CALLER_TIMEOUT_SECONDS
    ProviderTimeout,   \* what a provider's client allows for one attempt
    Retries,           \* attempts it makes after the first one failed or timed out
    LLMBudget          \* TICK_LLM_BUDGET_SECONDS

ASSUME PoolAssumption ==
    /\ Sends \in Nat \ {0}
    /\ Workers \in Nat \ {0}
    /\ LLMBudget \in Nat \ {0}
    /\ ProviderTimeout \in Nat
    /\ Retries \in Nat
    /\ CallerTimeout \in Nat

\* The longest a call takes whose client has a working timeout.  Both timeouts come from the
\* environment and the number of attempts from the client, so nothing relates this to the
\* caller's limit.
ProviderTime == (Retries + 1) * ProviderTimeout

VARIABLES
    stage,       \* where each request is
    nth,         \* the message it is composing
    elapsed,     \* time since it began, up to Limit
    wait,        \* how much longer future.result waits
    queue,       \* submitted calls no worker has taken
    job,         \* every call that still matters: its future and its composer
    run,         \* how much longer a running provider call may take
    result,      \* the last ComposeResult of each request
    queued       \* history: time passed while a call of the request was queued

vars == <<stage, nth, elapsed, wait, queue, job, run, result, queued>>

JobIds == Requests \X (1 .. Sends)

Verdicts == {"clean", "no_cta", "rejected"}

Outcomes == Verdicts \cup {"raises", "raises_timeout"}

Job == [ state    : {"none", "queued", "running", "finished"},
         composer : {"llm", "hung", "template"},
         outcome  : Outcomes,
         delayed  : BOOLEAN ]     \* history: time passed while it was queued

ComposeResult ==
    [ text   : {"composed", "corrected", "template", "empty"},
      reason : {"", "caller_timeout", "provider_error", "firewall_rejected"} ]

NoJob == [state |-> "none", composer |-> "llm", outcome |-> "clean", delayed |-> FALSE]

NoResult == [text |-> "empty", reason |-> ""]

\* The time a request needs when nothing is queued, plus one: longer is all the same.
Limit == LLMBudget + CallerTimeout

Init ==
    /\ stage = [r \in Requests |-> "idle"]
    /\ nth = [r \in Requests |-> 1]
    /\ elapsed = [r \in Requests |-> 0]
    /\ wait = [r \in Requests |-> 0]
    /\ queue = <<>>
    /\ job = [j \in JobIds |-> NoJob]
    /\ run = [j \in JobIds |-> 0]
    /\ result = [r \in Requests |-> NoResult]
    /\ queued = [r \in Requests |-> FALSE]

Current(r) == <<r, nth[r]>>

Future(r) == job[Current(r)]

Done(j) == job[j].state = "finished"

\* The caller of j still waits for it, or is about to ask whether it is done.
Awaited(j) == nth[j[1]] = j[2] /\ stage[j[1]] \in {"waiting", "expired"}

Running == {j \in JobIds : job[j].state = "running"}

-------------------------------------------------------------------------------
(***************************************************************************)
(* compose_and_validate after the wait, as a function of the call.         *)
(***************************************************************************)

\* What the firewall says of the template of the brief: if the call itself composed the
\* template, what it said of that.
TemplateVerdicts(j) ==
    IF job[j].composer = "template" /\ Done(j) THEN {job[j].outcome} ELSE Verdicts

\* The template is sent only if the firewall accepts it as it is.
FallBack(j, reason) ==
    { [text |-> IF v = "clean" THEN "template" ELSE "empty", reason |-> reason] :
        v \in TemplateVerdicts(j) }

\* Fault: no correction is tried.
VetUncorrected(j) ==
    IF job[j].outcome = "clean"
    THEN {[text |-> "composed", reason |-> ""]}
    ELSE FallBack(j, "firewall_rejected")

Vet(j) ==
    IF job[j].outcome \in {"clean", "no_cta"}
    THEN {[text |-> IF job[j].outcome = "clean" THEN "composed" ELSE "corrected",
           reason |-> ""]}
    ELSE FallBack(j, "firewall_rejected")

-------------------------------------------------------------------------------

Begin(r) ==
    /\ stage[r] = "idle"
    /\ stage' = [stage EXCEPT ![r] = "ready"]
    /\ UNCHANGED <<nth, elapsed, wait, queue, job, run, result, queued>>

\* Fault: the tick's time budget is not looked at.
ComposersAlways(r) == {"llm", "hung"}

\* get_default_composer may give a client without a working timeout; once the budget is
\* spent it is TemplateComposer.
Composers(r) == IF elapsed[r] < LLMBudget THEN {"llm", "hung"} ELSE {"template"}

Submitted(r, c) ==
    /\ job' = [job EXCEPT ![Current(r)] = [NoJob EXCEPT !.state = "queued", !.composer = c]]
    /\ queue' = Append(queue, Current(r))
    /\ stage' = [stage EXCEPT ![r] = "waiting"]
    /\ result' = [result EXCEPT ![r] = NoResult]
    /\ UNCHANGED <<nth, elapsed, run, queued>>

\* Fault: the caller gives up before the provider's own timeout.
SubmitImpatiently(r) ==
    /\ stage[r] = "ready"
    /\ wait' = [wait EXCEPT ![r] = ProviderTime - 1]
    /\ \E c \in Composers(r) : Submitted(r, c)

\* _COMPOSE_EXECUTOR.submit, and the wait begins: time in the queue counts.
Submit(r) ==
    /\ stage[r] = "ready"
    /\ wait' = [wait EXCEPT ![r] = CallerTimeout]
    /\ \E c \in Composers(r) : Submitted(r, c)

\* A free worker takes the oldest call, whether or not its caller still waits.
Start ==
    /\ queue # <<>>
    /\ Cardinality(Running) < Workers
    /\ job' = [job EXCEPT ![Head(queue)].state = "running"]
    /\ run' = [run EXCEPT ![Head(queue)] =
          IF job[Head(queue)].composer = "llm" THEN ProviderTime ELSE 0]
    /\ queue' = Tail(queue)
    /\ UNCHANGED <<stage, nth, elapsed, wait, result, queued>>

\* A call that ends after its caller gave up leaves nothing behind.
Finish(j) ==
    /\ job[j].state = "running"
    /\ job[j].composer # "hung"
    /\ IF Awaited(j)
       THEN \E o \in IF job[j].composer = "template" THEN Verdicts ELSE Outcomes :
               job' = [job EXCEPT ![j].state = "finished", ![j].outcome = o]
       ELSE job' = [job EXCEPT ![j] = NoJob]
    /\ run' = [run EXCEPT ![j] = 0]
    /\ UNCHANGED <<stage, nth, elapsed, wait, queue, result, queued>>

\* The request goes on to its next message, or answers.
Return(r, results) ==
    /\ \E res \in results : result' = [result EXCEPT ![r] = res]
    /\ nth' = [nth EXCEPT ![r] = IF @ < Sends THEN @ + 1 ELSE @]
    /\ stage' = [stage EXCEPT ![r] = IF nth[r] < Sends THEN "ready" ELSE "done"]
    /\ wait' = [wait EXCEPT ![r] = 0]
    /\ job' = IF Done(Current(r)) THEN [job EXCEPT ![Current(r)] = NoJob] ELSE job
    /\ UNCHANGED <<elapsed, queue, run, queued>>

Collect(r) ==
    /\ stage[r] = "waiting"
    /\ Done(Current(r))
    /\ Future(r).outcome \in Verdicts
    /\ Return(r, Vet(Current(r)))

ProviderRaised(r) ==
    /\ stage[r] = "waiting"
    /\ Done(Current(r))
    /\ Future(r).outcome = "raises"
    /\ Return(r, FallBack(Current(r), "provider_error"))

\* Fault: a caller whose time is up waits once more.
TimeoutRetries(r) ==
    /\ stage[r] = "waiting"
    /\ wait[r] = 0
    /\ ~Done(Current(r))
    /\ wait' = [wait EXCEPT ![r] = CallerTimeout]
    /\ UNCHANGED <<stage, nth, elapsed, queue, job, run, result, queued>>

\* future.result raises TimeoutError: the caller's, or the call's own.
TimeoutRaised(r) ==
    /\ stage[r] = "waiting"
    /\ IF Done(Current(r)) THEN Future(r).outcome = "raises_timeout" ELSE wait[r] = 0
    /\ stage' = [stage EXCEPT ![r] = "expired"]
    /\ UNCHANGED <<nth, elapsed, wait, queue, job, run, result, queued>>

\* future.done() tells them apart, but the call may have ended since.
Explain(r) ==
    /\ stage[r] = "expired"
    /\ Return(r, FallBack(Current(r),
                          IF Done(Current(r)) THEN "provider_error" ELSE "caller_timeout"))

\* What happens at once: no time passes before it.
Urgent ==
    \/ queue # <<>> /\ Cardinality(Running) < Workers
    \/ \E r \in Requests : stage[r] \in {"ready", "expired"}
    \/ \E r \in Requests : stage[r] = "waiting" /\ (wait[r] = 0 \/ Done(Current(r)))
    \/ \E j \in Running : \/ job[j].composer = "template"
                          \/ job[j].composer = "llm" /\ run[j] = 0

Less(n) == IF n = 0 THEN 0 ELSE n - 1

Tock ==
    /\ ~Urgent
    /\ \/ \E r \in Requests : stage[r] = "waiting"
       \/ \E j \in Running : job[j].composer # "hung"
    /\ elapsed' = [r \in Requests |->
          IF stage[r] = "waiting" /\ elapsed[r] < Limit THEN elapsed[r] + 1 ELSE elapsed[r]]
    /\ wait' = [r \in Requests |-> Less(wait[r])]
    /\ run' = [j \in JobIds |-> Less(run[j])]
    /\ job' = [j \in JobIds |->
          [job[j] EXCEPT !.delayed = @ \/ job[j].state = "queued"]]
    /\ queued' = [r \in Requests |-> queued[r] \/ Future(r).state = "queued"]
    /\ UNCHANGED <<stage, nth, queue, result>>

Step(r) ==
    \/ Submit(r)
    \/ Collect(r)
    \/ ProviderRaised(r)
    \/ TimeoutRaised(r)
    \/ Explain(r)

\* Everyone is answered; what still runs was given up and never ends.
Finished ==
    /\ \A r \in Requests : stage[r] = "done"
    /\ \A j \in Running : job[j].composer = "hung"
    /\ UNCHANGED vars

Next ==
    \/ \E r \in Requests : Begin(r) \/ Step(r)
    \/ Start
    \/ \E j \in JobIds : Finish(j)
    \/ Tock
    \/ Finished

Spec == Init /\ [][Next]_vars

\* Threads run, workers take queued calls, a provider call ends by its own timeout, and
\* time passes.  Nothing is assumed of a hung call.
FairSpec ==
    /\ Spec
    /\ \A r \in Requests : WF_vars(Step(r))
    /\ WF_vars(Start)
    /\ \A j \in JobIds : WF_vars(Finish(j))
    /\ WF_vars(Tock)

-------------------------------------------------------------------------------

TypeOK ==
    /\ stage \in [Requests -> {"idle", "ready", "waiting", "expired", "done"}]
    /\ nth \in [Requests -> 1 .. Sends]
    /\ elapsed \in [Requests -> 0 .. Limit]
    /\ wait \in [Requests -> 0 .. CallerTimeout]
    /\ queue \in Seq(JobIds)
    /\ job \in [JobIds -> Job]
    /\ run \in [JobIds -> 0 .. ProviderTime]
    /\ result \in [Requests -> ComposeResult]
    /\ queued \in [Requests -> BOOLEAN]

\* In this step the current message of r gets its result, for the given reason.
Returns(r, reason) ==
    /\ stage[r] \in {"waiting", "expired"}
    /\ stage'[r] \in {"ready", "done"}
    /\ result'[r].reason = reason

\* When a provider's client is done, retries included, in less time than the caller waits,
\* the caller-side ceiling cuts one of its calls short only if the call had to queue for a
\* worker: one that starts at once always ends by itself (pipeline.py:22-26).
PreemptedOnlyWhenQueued ==
    [][ProviderTime < CallerTimeout =>
          \A r \in Requests :
              Returns(r, "caller_timeout") /\ Future(r).composer # "hung"
              => Future(r).delayed]_vars

\* What the composer wrote is sent if the firewall accepts it, or accepts it with the call
\* to action appended, unless its call raised or its caller's wait had run out; nothing is
\* sent only for lack of anything acceptable.  A logged caller_timeout is a call that has
\* not ended after all the caller's time.  A logged provider_error is a call that raised,
\* but for one case: a call that ended well after the wait ran out and before the caller
\* looked at the future again, whose text is dropped (pipeline.py:47-58).
FallbackOnlyWhenNeeded ==
    [][\A r \in Requests :
          /\ Returns(r, "firewall_rejected") => Future(r).outcome = "rejected"
          /\ Returns(r, "") => Done(Current(r)) /\ result'[r].text # "empty"
          /\ Returns(r, "provider_error") =>
                /\ Done(Current(r))
                /\ Future(r).outcome \in Verdicts => stage[r] = "expired" /\ wait[r] = 0
          /\ Returns(r, "caller_timeout") => wait[r] = 0 /\ ~Done(Current(r))]_vars

\* A request none of whose calls had to queue is answered within the tick's model budget
\* and one caller timeout, however many messages it composes (app.py:237-238): 23 s, less
\* than the client's 30 s and more than the 10 s of the comment at app.py:29.
UncontendedInTime ==
    \A r \in Requests : stage[r] = "done" /\ ~queued[r] => elapsed[r] < Limit

\* Every request is answered, even if calls that never end occupy every worker.
EveryRequestIsAnswered ==
    \A r \in Requests : stage[r] = "ready" ~> stage[r] = "done"

-------------------------------------------------------------------------------
(***************************************************************************)
(* What a comment says of the ceiling that a busy pool, or a client that   *)
(* tries again, does not respect.                                          *)
(***************************************************************************)

\* The caller's ceiling "must never preempt a well-behaved composer's own more specific
\* timeout/error handling": while no call hangs, no caller gives up.
CeilingNeverPreempts ==
    [][\A r \in Requests :
          Returns(r, "caller_timeout") => \E j \in JobIds : job[j].composer = "hung"]_vars

\* "Comfortably above both real composers' own internal SDK timeouts": a call that starts at
\* once ends before its caller gives up.  The Anthropic client is given 8 seconds for an
\* attempt and makes two more by default.
OnlyQueuesPreempt ==
    [][\A r \in Requests :
          Returns(r, "caller_timeout") /\ Future(r).composer # "hung"
          => Future(r).delayed]_vars
===============================================================================

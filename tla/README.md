# A TLA+ development of the Vera engine

The Vera engine (`src/src/vera`) is a single-process, in-memory FastAPI service. A client pushes
versioned contexts (`POST /v1/context`), asks now and then what to do about a list of triggers
(`POST /v1/tick`), and relays what merchants answer (`POST /v1/reply`). All handlers but one are
plain functions in a thread pool, so each of their requests runs in a thread of its own over shared
dictionaries and sets; `push_context` is `async def` and awaits nothing after the body, so pushes
run one after the other in the event loop, beside those threads. The specifications here say what
the requests may and may not do to each other, when the engine speaks and when it stays silent,
what it may say, what the composing pool promises, and what a client that loses some of its
requests can rely on.

## Inventory

| part | source | state | operations | what makes it correct |
|---|---|---|---|---|
| context store | `state/store.py` | `(scope, id) -> (version, payload)`, a lock | `push`, `get`, `counts` | versions only grow; answers are true; probes count one moment |
| conversation store | `state/store.py` | id -> `ConversationState`, turn locks | `try_reserve`, `release`, `attach_brief`, `get`, `turn_lock` | one opening action per id; no forgotten reservation |
| suppression store | `state/store.py` | used (merchant, key) pairs, opted-out merchants | `is_used`, `mark_used`, `suppress_merchant`, `is_merchant_suppressed` | spent keys and opt-outs bind later ticks |
| tick handler | `api/app.py` | its position in the list, its actions | one loop over the triggers | order of reserve, compose, attach, mark |
| reply handler | `api/app.py` | its conversation object, its lock | look up, lock, classify, act | turns are serial; an end is final; no repeats |
| reply policy | `decision/reply_policy.py` | none | `classify_kind`, `decide_reply` | one back-off, then end |
| teardown | `state/store.py` | none | replace the three stores, one after the other | requests under way still finish |
| decision compiler | `decision/compiler.py` | none | `decide` | restraint: expiry, suppression, threshold |
| opportunity generators | `decision/opportunity.py` | none | fifteen generators, the corroboration bonus | gates decide, scores do not surprise |
| compose pipeline | `pipeline.py` | a bounded executor | `compose_and_validate` | bounded waits, a vetted text or nothing |
| composers, firewall, brief | `generation/` | none | `get_default_composer`, `TemplateComposer.compose`, `extract_message`, `validate`, `build_brief`, `for_reply` | what is sent obeys every rule; a clean brief always has something to say |
| rehearsal client | `scripts/hostile_evaluator_simulation.py` | logged pairs, bodies heard | warm-up, ticks, personas, interludes, teardown | nothing fails but by a 500; nothing twice when requests are late |
| HTTP boundary | `api/app.py`, `api/schemas.py` | none | routes, size and schema tests | requests are refused before they touch state |

A tick reads the context and suppression stores, asks `decide`, claims a conversation id with
`try_reserve`, builds a brief, composes in the shared pool, and then releases the claim or attaches
the brief, marks the key and appends an action. A reply looks up the conversation, takes its turn
lock, classifies the message, and waits, ends (perhaps opting the merchant out) or composes and
sends. Nothing is persisted: a restart is an empty engine.

What is hard: the seconds a tick spends composing between its reads and its writes; replies of one
conversation that overlap; a request that fails half-way through its list; a pool whose calls
cannot be cancelled; fifteen hand-tuned scores against one threshold; four contexts read one
after the other while they change; requests the client has given up and the engine still serves; a
text that is judged, completed, judged again and replaced; a teardown under requests.
`PROJECT.json` lists each hazard at its line with the properties aimed at it.

## Modules

* `SuppressionStore`, `ConversationStore`: one operator per method. A method is one step, because
  it is one set or dictionary operation or runs under `_struct_lock`. `ConversationState` objects
  outlive the table that held them (release and teardown drop them while handlers still hold
  references), so they live in `heap` and `table` maps an id to its object. `era` counts the
  stores teardown has made; a turn lock is the pair of an era and an id.
* `ReplyPolicy`: the classification of a message. Marker lists are sets of messages.
* `TickHandler`: `tpc[t]` is where request `t` is, `todo[t]` the rest of its list. Every access to
  shared state is its own action, in the order of the code. `TickDecideRaises` and
  `TickComposeRaises` are the two places where a malformed payload makes the handler raise
  (an accessor over a context; `build_brief`). The verdict of `decide` (unless the key is used or
  the merchant opted out) and the composed body are choices.
* `ReplyHandler`: the same for a reply. The steps between `ReplyAcquire` and `Return` are separate,
  so that it is the lock, not the step size, that keeps two turns apart.
* `Engine`: both handlers, the stores and teardown, with the properties. `MCEngine` instantiates it;
  `EngineProofs` (types, locks, reservations, keys, opt-outs) and `ReplyProofs` (turns, answers)
  prove its safety properties.
* `ContextStore`: `push` in the steps acquire, read, decide; `counts` as an iteration that compares
  sizes, as CPython's does. In the service pushes never overlap each other (above), only probes and
  ticks; that overlapping pushes are right too is the store's own contract, which its lock is for
  and which `tests/contract/test_concurrency.py` exercises with threads. `VersionedContexts` is what
  it implements: a push is one atomic comparison. `MCContextStore` instantiates it, `ContextStoreProofs` proves about it.
* `Opportunity`: the fifteen generators as expressions. What a generator reads is data: a payload
  is a record that has only the fields present with the accepted type; an absent context is an
  empty set. Scores are exact integers: 1.0 is 6552000, the common multiple of the three maxima
  (5, 4 and 3.6 or 2.6 terms), of the urgency step and of the two-week window. No score of the
  documented range lies within a rounding error of the threshold.
* `Decision`: `decide`, and one trigger seen by several ticks, each with its own `now`.
  `MCDecision` gives every trigger kind its payloads, `DecisionProofs` proves its properties for all.
* `ComposePool`: requests, executor queue, workers, the caller's 15 s, the provider's 12 s and the
  tick's 8 s, in discrete time: `Tock` advances it only when nothing is due at once. A call may
  hang for ever, and a provider's client may try again (`Retries`): `ProviderTime` is the time of
  all its attempts, and nothing is assumed of it. A text is what the firewall says of it. `PoolProofs` proves its safety properties.
* `ContextReads`: what a tick knows when it decides: the four reads of `app.py:187-206`, each a
  step, while pushes and a teardown go on, and the brief a reply is composed from. A push is the
  atomic comparison of `VersionedContexts`. Stores are objects, so a push that has read
  `store.context` before a teardown writes to the old one. `ReadsProofs` proves its properties.
* `SerialReplies`, `SerialEngine`: the conversation as a merchant sees it: a turn of a reply is one
  indivisible step. `SerialEngine` is the mapping from `Engine` (a reply takes effect when it
  leaves its turn); `RepliesAreSerial` says that `Engine` implements it until a teardown, and
  `ReplyProofs` proves it.
* `Firewall`, `Composition`: a text is its length and its marks, the things in it that some rule
  looks for (URLs, placeholders, claims, taboo words, calls to action, reply tokens). `Firewall` has
  the brief, the fixed calls to action and the eight rules; `Composition` has the choice of a
  composer, the template, the correction, the fallback and the reply loop. `CompositionProofs` proves
  its properties.
* `Rehearsal`: the repository's own client of a whole session against the engine, with requests
  that are lost, or given up and served at any later time, and with handlers that raise. A tick is
  a record with the rest of its list, its actions and its step, and takes for each trigger the
  steps of `TickHandler` that others can see: `Test` (the reads, the suppression tests and
  `decide`), `Claim` (`try_reserve`), and `Open` or `Unclaim` (the text is found, with
  `attach_brief`, `mark_used` and the action; or `release`). `TestRaises` and `OpenRaises` leave
  the keys and claims made so far behind a 500. `HealthRaises` is a probe during whose iteration
  a push is stored. `Complaints`, `Missed`, `OpenChat`, `ReceiveReply`, `ReceiveError` and `Fail`
  are what the client counts: `overall_ok` but for its checks of wording. `RehearsalProofs` proves
  its safety properties.

Definitions with a comment "Fault: ..." are deliberate mistakes; no specification uses them. They
show that a property can fail: replace the definition after them by the fault and TLC finds the
property violated (the pairs are in `PROJECT.json`).

### Abstractions

* `Engine`: the verdict of `decide` (unless the key is used or the merchant opted out) and the
  composed body are choices; `Decision` and `Composition` say which are possible.
* `Composition`: texts are put together at blanks and punctuation, so no mark begins in one part
  and ends in another. `Remains` holds the sets of marks that may survive a cut (`_trim`); a cut
  text keeps one of them, chosen for each composition. Facts are one text. "nahin" contains "nahi"
  and counts as it. `UrlLength` is a typical length: a sanitised fact loses that much. Phrases that
  only `extract_message` and the sanitiser look for (protected fields, characters out of role) are
  flags of an answer, not marks. `voice_tone`, `vocab_allowed` and `send_as` reach prompts only.
* `ContextReads`: a payload is its version and the contexts it names. `Decide` stands for
  everything from the decision to the brief, because no context is read after it.
* `Rehearsal`: a push, a reply and the reads of one trigger are one step each (their interleavings
  are in `Engine`, `ContextStore` and `ContextReads`). Late requests are a set: two that are equal
  are pushes of one version, looks at the health page or ticks that name the same expired trigger
  with no step taken, and serving a second one changes nothing. The ten concurrent pushes of one
  version in an interlude are one push. Requests that are refused before they reach any state, and
  the metadata, are `Stateless`. The client's checks of wording (calls to action, an empty body, the
  injected phrase, another merchant's name; `hostile_evaluator_simulation.py:123-129, 321-333`) are
  left out: `Composition` says what a text may be. Its comparisons of counts are comparisons of
  sets. A tick of the script names fewer triggers than the cap of 20. The composer is the template:
  an opening is no reply's text (`Opening` is not in `ReplyKind`); a model may repeat it
  (`ClaimVerbatim.cfg`). A 500 has a JSON body (`app.py:42-46`), so for the client it is a tick
  without actions, or counts that are empty. The two personas that commit are one message.

## Runs

| run | instance | shows |
|---|---|---|
| `engine_ticks` | 2 ticks, 3 triggers of one merchant, 2 sharing a key, lists that overlap, repeat a trigger and exceed the cap of 2, 1 hostile reply, no teardown | one opening action per conversation, keys spent once per request and never after, opt-outs respected by later ticks, no reservation forgotten and none taken from its owner |
| `engine_replies` | 1 tick, 2 replies with any pair of an automatic, a hostile, a committing and another message, 2 bodies, 1 teardown | turns have the effect of indivisible ones (until the teardown), one back-off, no repeats, ends are final and opt out, solicited replies find their brief, everyone is answered |
| `context_store` | 3 pushes of 2 versions and 2 payloads to 2 contexts, 1 probe | answers are true, probes count one moment, refinement of `VersionedContexts`, everyone is answered |
| `context_reads` | 1 tick that looks at a trigger twice, 3 pushes of any scope, version and reference, 1 reply, 1 teardown | a decision knows everything that was accepted before its tick, references resolve, no context gets older along a list |
| `decision` | 15 kinds, values on both sides of every gate and tier, every optional field, urgency 1 and 5 (and out of range), with and without offers, history, signals, consent, digests, 2 ticks before, at and after expiry | silence has a reason, evidence is monotone, the three consent gates hold, refusals last |
| `compose_pool` | 2 requests of 2 messages, 1 worker, one unit of time = 4 s | who is cut short and why, when the fallback is used, the time a tick needs, everyone is answered |
| `composition` | 25 decisions, 2 merchants, 2 categories, with and without a customer, 7 drafts, 80 environments, an opening and 3 replies | what is sent obeys every rule, what is thrown away deserved it, a clean brief always speaks, the template says two things to a conversation |
| `rehearsal` | 4 ticks, 2 merchants, 1 customer, 3 triggers and the copy of one, 4 personas, every interlude, 1 request without an answer, 1 handler that raises | with every answer in time the client holds nothing but a 500 against the engine and hears of whatever is open; whenever a late request is served, nothing is given out twice and a stop binds the ticks sent after it; the session ends |

The bounds are small but reach the cases. Two overlapping requests are enough for every race in
this code, because each shared structure is changed in one step and a property relates two
requests; three triggers are needed for the cap to bite with a shared key; two pushes race and
the third comes later. In `context_reads` three pushes can store a merchant, a customer and a
trigger in any order, or three versions of one context; the list names the trigger twice so that
two decisions can be compared. One worker and two requests make a queue. `composition` has texts on
both sides of `max_chars` and of its tolerance, facts that carry each kind of mark, and a call to
action of every kind in both languages; the third reply is one more than the template has
texts for. In `rehearsal` four ticks reach every interlude, both updates and the tick without new
triggers, one failure suffices for a request to be late while the script goes on, and one handler
that raises for a claim to be left behind; the two also meet (1.4 million states).
`MaxActions` stands for 20, `Workers` for 8. Counters are bounded by the number of requests;
`MaxTeardowns`, `MaxTicks`, `MaxReplies`, `MaxFailures` and `MaxRaises` bound what their names say.

What some runs cannot show: with two replies `engine_replies` never has a third, different message
wait while two copies are answered, and each trigger of `engine_ticks` has a conversation id of its
own; the theorems (`CopiesSendOnce`, `OpenedOnce`, `OwnReservationKept`) cover both.
`UncontendedInTime` is a bound of 23 s (8 and 15), within the client's 30 s; the 10 s of the comment
at `app.py:29` and of the repository's README would need a shorter ceiling.

`engine_ticks` leaves the teardown out (`SessionSpec`) because every one of its properties is about
one store; the proofs cover the specification with teardowns. Some definitions are proved for every
value of the constants and not run again: the type invariants (except `Engine`'s), `OneTurnAtATime`,
`EmittedMarksKey`, `OnlyNewerReplaces` and `CorrectionKeepsADraft`.

Four runs expect a violation. Each states what a document, comment or test says and shows an
execution of the code that does otherwise:

* `claim_key_sent_once`: overlapping ticks send one suppression key twice.
* `claim_opt_out_final`: a tick under way sends after an opt-out was answered.
* `claim_no_verbatim_repeat`: the opening body is not remembered, a reply may repeat it.
* `claim_ceiling_never_preempts`: time in the executor's queue counts against the call.

Further statements have a property and a configuration of their own that refutes them; they are
not in `PROJECT.json`. `tlc -config X.cfg M` shows the execution:

| property | module, configuration | execution |
|---|---|---|
| `MarkedMeansSent` | `MCEngine`, `ClaimMarked.cfg` | a request that fails later leaves keys spent without a send |
| `ReleaseOnlyOwn` | `MCEngine`, `ClaimReleaseOwn.cfg` | after a teardown, a tick of the old store releases a claim of the new one |
| `OrphansStayOrphaned` | `MCEngine`, `ClaimOrphaned.cfg` | a reply that holds a turn lock of the old store opts a merchant out in the new one |
| `SameVersionRejected` | `MCContextStore`, `ClaimSameVersion.cfg` | an equal version is accepted and ignored; the comment in `push` and the unit tests say so, the repository's README (line 92) says it is rejected |
| `RepliesUseNewestContext` | `MCContextReads`, `ClaimNewestContext.cfg` | a reply is composed from a context that a newer one had replaced |
| `NothingSurvivesTeardown` | `MCContextReads`, `ClaimWiped.cfg` | a tick opens a conversation in the new store from contexts of the old one |
| `BonusNeverDecides` | `MCDecision`, `ClaimBonus.cfg` | 0.03 turns a festival 13 or 14 days away into a send |
| `NoContactUnasked` | `MCDecision`, `ClaimConsent.cfg` | a message about the merchant whose trigger names a stored customer is addressed to that customer, who consented to nothing; the three kinds with a consent gate are `ConsentGatesHold` |
| `OnlyQueuesPreempt` | `ComposePool`, `ClaimRetries.cfg` | three attempts of 8 s, the Anthropic client's default, outlast the caller's 15 s on an idle pool; the repository's README knows "no retry loop" |
| `AllowedFactsSuffice` | `MCComposition`, `ClaimFallback.cfg` | a merchant whose name holds a URL has no template that the firewall accepts |

Several properties of `Engine` begin with `era = 0`. A teardown in the middle of requests does
break them: a tick of the old store releases a reservation of the new one, or writes its key into
the new suppression store. The contract puts teardown after the last request, and
`LocksBelongToTurns` and `EveryRequestIsAnswered` hold across it.

## Fairness

`Engine` and `ContextStore` assume weak fairness of each request that is being served: threads
are scheduled, `compose_and_validate` returns because its caller waits a bounded time
(`pipeline.py:26`), and a lock is held for a few steps by one of finitely many requests. Arrivals
and teardown are not fair. `ComposePool` assumes that workers take queued calls, that a provider
call ends by its own timeout and that time passes; a hung call is never assumed to end.
`Rehearsal` assumes that the server goes on serving what it has received and that the client goes
on with its script (it is one loop); that a request fails is never assumed. `HFairSpec`, which
`engine_replies` uses, is `Engine`'s specification with its fairness and a history of turns.

## Proofs

Every theorem holds for any values of the constants that satisfy the named assumptions. The engine
uses `TickAssumption` (the functions from triggers to merchants, conversations and keys are total,
the lists are lists of triggers), the context store `ContextAssumption`, the pool `PoolAssumption`
(the limits are numbers; none is assumed to be below another), and the texts `FirewallAssumption` (the kinds of
marks are distinct: a price is no taboo word and no call to action) and `CompositionAssumption`.
`ReadsAssumption` says that what the warm-up stored is closed under references, and
`DecisionAssumption` that urgencies, instants and the payload fields a generator takes for numbers
are integers (in the units of `Opportunity`). `RehearsalAssumption` says that the dataset is closed
under references, that there are triggers and ticks, that the expired tick comes after the expiry of
its trigger, and that no persona is both hostile and an auto-reply.

`ContextStoreProofs`, about `push`:

* `TypeCorrect`, `LockProtects`, `VersionsOnlyGrow`, `AnswersAreTrue`, and `PushIsAtomic`: the
  locked steps implement `VersionedContexts`, a step that answers being the atomic push and every
  other step a stutter.
* The answer of a push says something of what is stored, but the push read it two steps earlier.
  `Inv` adds what makes it true: whoever is between acquire and answer holds the lock, a request
  is well formed once it has arrived, and what a lock holder has read is still what is stored.

* `CountsAreOneMoment`: `counts` iterates without the lock and is right all the same whenever it
  answers. Contexts are never removed (`PresentGrows`), so among finitely many of them the same
  size means the same keys (`SameSizeSameContexts`), which is all that the iterator compares.

`EngineProofs` and `ReplyProofs` prove every safety property that the runs of `Engine` check, each
from an inductive invariant of its own that uses the ones before it:

| invariant | says | gives |
|---|---|---|
| `TypeInv` | types, and that a running request finds its object, its conversation id, its trigger | `TypeOK` |
| `LockInv` | a reply in its turn holds its lock alone; until a teardown that lock is the one of its conversation id | `LocksBelongToTurns`, `OneTurnAtATime` |
| `ReservationInv` | a tick composing for an id is the only one and the table maps the id to its claim; an emitted action's id is nobody's claim | `OneActionPerConversation`, `ReservationsAccountedFor`, `OwnersKeepReservation` |
| `KeyInv` | what a tick saw on arrival is still in the store; the trigger it has decided on is none of it, nor of its own actions | `EmittedMarksKey`, `KeysNotReused`, `OptOutRespected` |
| `TurnInv` | what a reply read in its turn (not ended, no wait yet, body not sent before) still holds when it acts; what past answers left behind is still there | `BackOffOnce`, `RepliesNeverRepeat`, `HostileEndOptsOut`, `EndedIsFinal` |
| `CopyInv` | while a conversation has taken turns with one message only, whoever has a verdict made it the last message, and one verdict at most is a send, whatever else waits for the lock | `IdenticalRepliesSendOnce` |
| `BriefInv` | an action about to be emitted, and every emitted one, has a brief | `SolicitedRepliesHaveContext` |
| `BeforeInv` | what a turn has done to its object so far, and its verdict, follow from the object as the turn found it | `RepliesAreSerial` |

The invariants are needed because a handler tests in one step and acts in a later one. `TurnInv`
carries a test over with `OneTurnAtATime`: the other replies keep off the object, and a tick only
attaches briefs to it. `KeyInv` can carry it over only for what was in the store on arrival and for
the tick's own actions, which is the exact extent to which keys are spent once. Several invariants
need that the store a request works on is the first one (`era = 0`).

`TurnsAreIndivisible` is the refinement: under the mapping of `SerialEngine` every step of a turn
but the last is a stutter, because the object is shown as the turn found it (the history variable
`before`) until the reply is answered. The last step is then a whole turn of `SerialReplies`:
`BeforeInv` gives its verdict and effect, `TurnInv` and `OneTurnAtATime` that nobody else moved the
object meanwhile. The brief that a tick attaches in the middle of a turn is shown at once.

The heap is the sequence of all objects ever made: `HeapGrows` (an object stays and keeps its
conversation id) is proved first, and every other step uses it.

`CompositionProofs`, about every text, brief and configuration:

* `SentPassesFirewall`, `CorrectedDraftsSaySomething`, `DraftsAreRescued` and
  `CleanBriefsAreNeverSilent`. The opening and a reply differ from the stored brief only in intent
  and first turn, which no rule reads (`SameBrief`, `RulesDecide`); what is left is a fact about
  `ComposeAndValidate` alone, by cases on the verdict of the draft, of its correction and of the
  template.
* `CleanBriefsAreNeverSilent` is the longest: a template made of clean parts passes all eight rules
  because each fixed call to action satisfies its own rule, and the cut leaves room for it.
* `TemplateEndsByItself`: what the template can send in a conversation is one body for each intent
  (`Bodies`), sent, corrected or refused alike, and `TemplateInv` counts the replies by the bodies
  in `said`. There are two intents.

`ReadsProofs`, about the four reads of a decision under any pushes and teardowns:

* `DecisionsReadTheirWrites`, `OrderedReferencesResolve`, `ContextsNeverAge`. No lock holds the
  reads together. The argument is that stores only grow (`Grows`): what an answered push stored
  (`AnswerInv`), what a tick has read (`StoredOK`) and what it decided on (`DecidedStored`) is
  still there or has been replaced by something newer, so the next read cannot fall behind any of
  them. References resolve because an orderly store is closed (`OrderInv`) and stays so.

`PoolProofs`, about the pool of any size under any load:

* `FallbackIsJustified`, `CeilingSparesPromptCalls`, `TicksEndInTime`.
* `TimeInv` relates the two clocks of a call that did not have to queue: the caller's remaining
  time minus the provider's never falls below the difference of their limits, so if all attempts
  of the provider's client fit in the ceiling, they run out first. `BudgetInv` adds the time already used to the time still to wait: a call that
  takes time was submitted within the budget. `AwaitInv` says why a caller gave up, which the
  code asks of the future only afterwards: in between the call may end, and if it ended well its
  text is dropped and logged as a provider's error, the one reason that is not the true one. `QueueInv` and `FreshInv` keep the calls of different
  messages apart: a call given up stays in the queue while its caller makes the next one.

`DecisionProofs`, about any merchants, triggers, digests and clocks:

* `GatesDecide`, `EvidenceNeverBackfires`, `GatesNeedConsent`, `RefusalsAreFinal`. The invariant is
  short: the last decision is `Decide` of the stored contexts, of the last clock and of the
  suppression flag. The work is in the pure part. A kind fixes the generator and so the name of
  what is proposed (`KindNames`, from one `...Facts` lemma per generator, which also shows that
  its lowest score at urgency one reaches the threshold). Each generator is monotone (one
  `...Grows` lemma each, over `ScoreGrows`), and so is the bonus (`CorroboratedGrows`). `Best` is a
  `CHOOSE`: that a best opportunity exists for any digest follows from bounded scores
  (`MaximumExists`).
* The run `decision` shows the same on the payloads around each tier; the theorems say that there
  is no payload between or beyond them that behaves otherwise.

`RehearsalProofs`, about any dataset, personas, number of ticks, of failures and of handlers that
raise:

* The script is a sequence built by a recursive function. That it is defined and what its requests
  are (`WindowType`, `ScriptShape`, `ScriptRequests`) is proved with a least counterexample
  (`WFMin`), which needs no induction rule.
* `PlaceInvariant`: the request the client waits for is the one at its place in the script, half
  served perhaps, or the turn of the conversation at the head of its list, and until the last
  request but one (`Unwiped`) no teardown is in the engine or among the late requests.
* `PlayInvariant` holds while nothing was wiped. A claim has one holder, and nothing was given out
  in its conversation (`HoldInv`), so no release, however late its tick is served, takes a
  conversation that was opened, and no second tick opens it (`ToldInv`). A conversation that is to be
  played and is not yet recorded is as a tick opened it (`Unheard`); the one being played is `Ready`
  for its turn: its `last` and `hits` are what the turns so far made of them; late replies belong to
  recorded conversations other than the one being played, because a failure moves the client on
  (`LateInv`); what was heard is in `sent` (`HeardInv`). A tick carries who had stopped when it was
  sent, which `optedOut` has at its test (`StopInv`).
* `LoopIsShort` follows: from the second scripted message on, the message repeats the last one,
  which `DecideReply` answers with a wait once and then with an end. `SaysNothingAgain` is `ToldInv`.
  `StopsBind` is `StopInv`: it speaks of ticks sent after the stop was answered, because one sent
  before may pass its test and act later (`claim_opt_out_final`).
* `SoundInvariant` is about the executions without a failure, whatever raises: `LoadInv` says what
  is loaded at each place of the script, from the first push to the wipe, and that only ticks raise.
  `OnlyErrors` follows from it and from what the client never hears (`NoSlipEver`). `AllIsHeard`: a
  conversation that exists is composed for or held by the tick, in its answer, among those to be
  played, recorded, or lost with a tick that raised (`Known`).

## Only model-checked

Liveness under fairness (`EveryRequestIsAnswered` of `Engine` and `ComposePool`,
`EveryPushIsAnswered`, `RehearsalEnds`) is beyond the prover: it needs `ENABLED`. Every other
property of a passing run is also a theorem.

## Not modelled

* Wording: prompts, the words of templates, the letters of the firewall's expressions, redaction,
  logs. `voice_tone` and the like only reach a prompt.
* Network and SDK calls, response schemas, FastAPI's own thread pool and its size limits.
* `load_bench.py` (it measures latencies of scenarios that `Engine` and `ContextStore` check),
  `real_model_eval.py` (it calls paid models), and the challenge's judge simulator and data
  generator, which no part of the program uses.
* The time of day: an instant is a number, and payload fields such as `days_until` do not change
  between two ticks, in the code as in the model.

## Plan

1. Models: `counts` of both probes on a store that is replaced between its four reads.
2. Proofs: that the handlers of `Engine` do what the coarser steps of `Rehearsal` do.

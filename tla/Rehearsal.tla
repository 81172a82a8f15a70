------------------------------- MODULE Rehearsal -------------------------------
(***************************************************************************)
(* scripts/hostile_evaluator_simulation.py, the repository's own rehearsal *)
(* of a judged session, against the engine.  The client sends one request  *)
(* after the other over HTTP and waits for each a bounded time; the engine *)
(* does not notice that a client has gone, so a request that was given up  *)
(* is still served, perhaps much later, and its answer is dropped; a       *)
(* request may also not arrive, or its answer not come back.               *)
(*                                                                         *)
(* A tick takes the steps of TickHandler that other requests can see: the  *)
(* tests, the claim, and the text with the mark.  A push and a reply are   *)
(* one step (a reply holds its turn lock, Engine), and so are the reads of *)
(* one trigger (ContextReads).  The composer is the template, which says   *)
(* one thing per conversation and intent (Composition).                    *)
(*                                                                         *)
(* What the script checks of the wording of a text (several calls to       *)
(* action, an empty body, the injected phrase, another merchant's name) is *)
(* left out: Composition has what a text may say.  The ten concurrent      *)
(* copies of one push are one push.                                        *)
(***************************************************************************)
EXTENDS Naturals, Sequences, FiniteSets, ReplyPolicy

CONSTANTS
    Categories, Merchants, Customers,   \* the base dataset, in the order it is pushed
    Seeds,                   \* its triggers, in the order they are pushed
    NumTicks,
    Extra,                   \* the copy of a trigger that the expired tick names
    MerchantOf, CategoryOf,  \* trigger -> merchant, merchant -> category
    KeyOf, NoKey,            \* trigger -> suppression_key
    Expiry, Never,           \* trigger -> the tick at which it has expired
    Personas,                \* the scripted messages
    Nothing,                 \* no request, no conversation, no context
    MaxFailures,     \* bound: requests that have no answer
    MaxRaises        \* bound: handlers that raise

Elements(s) == {s[i] : i \in DOMAIN s}

Triggers == Elements(Seeds) \cup {Extra}

Base == Categories \o Merchants \o Customers

Ids == Elements(Base) \cup Triggers

\* The expired tick comes after the expiry of its trigger, and the hostile persona is
\* not also taken for an auto-reply.
ASSUME RehearsalAssumption ==
    /\ \A s \in {Categories, Merchants, Customers, Seeds} : s \in Seq(Elements(s))
    /\ Personas \subseteq Messages
    /\ Personas \cap HostileMarked \cap AutoMarked = {}
    /\ Seeds # <<>>
    /\ NumTicks \in Nat \ {0}
    /\ MaxFailures \in Nat
    /\ MaxRaises \in Nat
    /\ \A g \in Triggers : MerchantOf[g] \in Elements(Merchants)
    /\ \A g \in Triggers : Expiry[g] \in Nat \cup {Never}
    /\ Expiry[Extra] # Never
    /\ Expiry[Extra] <= NumTicks
    /\ \A m \in Elements(Merchants) : CategoryOf[m] \in Elements(Categories)

Conversation ==
    [ status : {"active", "waiting", "ended"}, hits : Nat,
      last : Messages \cup {NoMessage}, sent : SUBSET ReplyKind ]

Tick ==
    [ do : {"tick"}, rest : Seq(Triggers), now : Nat, actions : Seq(Triggers),
      step : {"test", "claim", "compose"},
      stops : SUBSET Elements(Merchants) ]   \* history: stopped when the client sent it

Request ==
    [do : {"push"}, id : Ids, version : Nat]
    \cup Tick
    \cup [do : {"reply"}, conv : Triggers, message : Personas]
    \cup [do : {"health", "teardown", "stateless"}]

ReplyAnswer == [action : {"send"}, body : ReplyKind] \cup [action : {"wait", "end"}, body : {""}]

Response ==
    [ do   : {"answered"},
      to   : Request,
      with : {"accepted", "stale", "ok"} \cup Seq(Triggers) \cup ReplyAnswer \cup SUBSET Ids ]
    \cup [do : {"failed"}, to : Request]

ASSUME NothingAssumption == Nothing \notin Nat \cup Conversation \cup Request \cup Response

VARIABLES
    contexts,    \* the engine: id -> stored version, or Nothing
    convs,       \* the conversation of each trigger, or Nothing
    used,        \* _used_keys
    optedOut,    \* _suppressed_merchants
    call,        \* the request the client waits for, or Nothing
    late,        \* requests it has given up and the engine has still to serve (equal ones
                 \* are pushes, looks and expired ticks, of which a second does nothing)
    at,          \* the client's place in its script
    chats,       \* the conversations of the last tick it has still to play
    failures,    \* requests that had no answer so far
    raised,      \* handlers that raised so far
    logged,      \* merchant_trigger_pairs_seen
    heard,       \* conversation_bodies
    told,        \* history: the texts the engine gave out for each conversation
    lost,        \* history: what ticks had claimed or collected when they raised
    stopped,     \* history: merchants that asked to stop and were answered
    faults       \* what the client counts against the engine

engineVars == <<contexts, convs, used, optedOut>>

served == <<told, lost, raised>>

clientVars == <<at, chats, failures, logged, heard, stopped, faults>>

vars == <<engineVars, served, clientVars, call, late>>

-------------------------------------------------------------------------------
(***************************************************************************)
(* The script.                                                             *)
(***************************************************************************)

PushOf(id, version) == [do |-> "push", id |-> id, version |-> version]

TickOf(list, now) ==
    [do |-> "tick", rest |-> list, now |-> now, actions |-> <<>>, step |-> "test", stops |-> {}]

ReplyOf(g, message) == [do |-> "reply", conv |-> g, message |-> message]

Health == [do |-> "health"]

Wipe == [do |-> "teardown"]

\* The metadata, and requests of the malformed kind, which reach no state.
Stateless == [do |-> "stateless"]

PushAll(ids) == [i \in DOMAIN ids |-> PushOf(ids[i], 1)]

Warmup == <<Health, Stateless>> \o PushAll(Base) \o <<Health>>

Cyclic(s, i) == s[(i % Len(s)) + 1]

PerTick == IF Len(Seeds) < NumTicks THEN 1 ELSE Len(Seeds) \div NumTicks

\* The triggers pushed before tick i.
Batch(i) == SubSeq(Seeds, i * PerTick + 1,
                   IF (i + 1) * PerTick < Len(Seeds) THEN (i + 1) * PerTick ELSE Len(Seeds))

LastPushed ==
    IF Len(Seeds) = 1 THEN Seeds ELSE SubSeq(Seeds, Len(Seeds) - 1, Len(Seeds))

\* A tick without new triggers names the last two: there is one only when all are pushed.
Available(i) == IF Batch(i) # <<>> THEN Batch(i) ELSE LastPushed

FarFuture == NumTicks + 1

Interlude(i) ==
    CASE i % 4 = 0 -> <<PushOf(Merchants[1], 1)>>
      [] i % 4 = 1 -> <<Stateless>>
      [] i % 4 = 2 -> <<PushOf(Extra, 1), TickOf(<<Extra>>, FarFuture)>>
      [] i % 4 = 3 -> <<PushOf(Merchants[1], 0)>>

TickScript(i) ==
    PushAll(Batch(i))
    \o (IF i % 3 = 1 THEN <<PushOf(Cyclic(Merchants, i), 2)>> ELSE <<>>)
    \o (IF i % 4 = 2 THEN <<PushOf(Cyclic(Categories, i), 2)>> ELSE <<>>)
    \o <<TickOf(Available(i), i)>>
    \o Interlude(i)

\* The first i ticks of the test window.
Window[i \in 0 .. NumTicks] == IF i = 0 THEN <<>> ELSE Window[i - 1] \o TickScript(i - 1)

Script == Warmup \o Window[NumTicks] \o <<Wipe, Health>>

Ended == at > Len(Script)

Init ==
    /\ contexts = [id \in Ids |-> Nothing]
    /\ convs = [g \in Triggers |-> Nothing]
    /\ used = {}
    /\ optedOut = {}
    /\ call = Nothing
    /\ late = {}
    /\ at = 1
    /\ chats = <<>>
    /\ failures = 0
    /\ raised = 0
    /\ told = [g \in Triggers |-> <<>>]
    /\ lost = {}
    /\ logged = {}
    /\ heard = [g \in Triggers |-> {}]
    /\ stopped = {}
    /\ faults = {}

-------------------------------------------------------------------------------
(***************************************************************************)
(* The engine.  r is a request that is being served; Answer leaves what    *)
(* the handler returns, Raise the 500 of one that raised.                  *)
(***************************************************************************)

\* The request in its place: with the client waiting, or given up and still running.
Becomes(r, next) ==
    \/ call = r /\ call' = next /\ UNCHANGED late
    \/ r \in late /\ late' = (late \ {r}) \cup {next} /\ UNCHANGED call

Respond(r, response) ==
    \/ call = r /\ call' = response /\ UNCHANGED late
    \/ r \in late /\ late' = late \ {r} /\ UNCHANGED call

Answer(r, answer) == Respond(r, [do |-> "answered", to |-> r, with |-> answer])

Raise(r) ==
    /\ raised < MaxRaises
    /\ raised' = raised + 1
    /\ Respond(r, [do |-> "failed", to |-> r])

Stored(id) == contexts[id] # Nothing

ServePush(r) ==
    /\ r.do = "push"
    /\ LET newer == Stored(r.id) => contexts[r.id] < r.version
           stale == Stored(r.id) /\ contexts[r.id] > r.version
       IN  /\ contexts' = IF newer THEN [contexts EXCEPT ![r.id] = r.version] ELSE contexts
           /\ Answer(r, IF stale THEN "stale" ELSE "accepted")
    /\ UNCHANGED <<convs, used, optedOut, served>>

\* Fault: an opt-out is not looked at.
ActableAnyway(g, now) ==
    /\ Stored(g) /\ Stored(MerchantOf[g]) /\ Stored(CategoryOf[MerchantOf[g]])
    /\ Expiry[g] # Never => now <= Expiry[g]
    /\ <<MerchantOf[g], KeyOf[g]>> \notin used

\* What must hold for decide to send; the score may be too low all the same.
Actable(g, now) ==
    /\ Stored(g) /\ Stored(MerchantOf[g]) /\ Stored(CategoryOf[MerchantOf[g]])
    /\ Expiry[g] # Never => now <= Expiry[g]
    /\ <<MerchantOf[g], KeyOf[g]>> \notin used
    /\ MerchantOf[g] \notin optedOut

AtStep(r, step) == r.do = "tick" /\ r.rest # <<>> /\ r.step = step

\* The trigger is done with.
Passed(r) == [r EXCEPT !.rest = Tail(@), !.step = "test"]

\* Fault: a trigger that cannot be acted on is tried again.
TestUntilActable(r) ==
    /\ AtStep(r, "test")
    /\ \/ Becomes(r, r)
       \/ Actable(Head(r.rest), r.now) /\ Becomes(r, [r EXCEPT !.step = "claim"])
    /\ UNCHANGED <<engineVars, served>>

\* The reads, the suppression tests and decide.
Test(r) ==
    /\ AtStep(r, "test")
    /\ \/ Becomes(r, Passed(r))
       \/ Actable(Head(r.rest), r.now) /\ Becomes(r, [r EXCEPT !.step = "claim"])
    /\ UNCHANGED <<engineVars, served>>

\* Reading a context or deciding raised.
TestRaises(r) ==
    /\ AtStep(r, "test")
    /\ Raise(r)
    /\ lost' = lost \cup Elements(r.actions)
    /\ UNCHANGED <<engineVars, told>>

Fresh == [status |-> "active", hits |-> 0, last |-> NoMessage, sent |-> {}]

\* Fault: an existing conversation is opened again.
ClaimAgain(r) ==
    /\ AtStep(r, "claim")
    /\ convs' = [convs EXCEPT ![Head(r.rest)] = Fresh]
    /\ Becomes(r, [r EXCEPT !.step = "compose"])
    /\ UNCHANGED <<contexts, used, optedOut, served>>

\* try_reserve
Claim(r) ==
    /\ AtStep(r, "claim")
    /\ IF convs[Head(r.rest)] = Nothing
       THEN /\ convs' = [convs EXCEPT ![Head(r.rest)] = Fresh]
            /\ Becomes(r, [r EXCEPT !.step = "compose"])
       ELSE Becomes(r, Passed(r)) /\ UNCHANGED convs
    /\ UNCHANGED <<contexts, used, optedOut, served>>

Opening == "opening"

\* A text is found: attach_brief, mark_used and the action.
Open(r) ==
    /\ AtStep(r, "compose")
    /\ LET g == Head(r.rest) IN
       /\ used' = IF KeyOf[g] = NoKey THEN used ELSE used \cup {<<MerchantOf[g], KeyOf[g]>>}
       /\ told' = [told EXCEPT ![g] = Append(@, Opening)]
       /\ Becomes(r, [Passed(r) EXCEPT !.actions = Append(@, g)])
    /\ UNCHANGED <<contexts, convs, optedOut, lost, raised>>

\* Fault: the claim of a trigger no text was found for is kept.
KeepClaim(r) ==
    /\ AtStep(r, "compose")
    /\ Becomes(r, Passed(r))
    /\ UNCHANGED <<engineVars, served>>

\* No text is found: release, whoever holds the claim now.
Unclaim(r) ==
    /\ AtStep(r, "compose")
    /\ convs' = [convs EXCEPT ![Head(r.rest)] = Nothing]
    /\ Becomes(r, Passed(r))
    /\ UNCHANGED <<contexts, used, optedOut, served>>

\* build_brief raised: the claim stays.
OpenRaises(r) ==
    /\ AtStep(r, "compose")
    /\ Raise(r)
    /\ lost' = lost \cup Elements(r.actions) \cup {Head(r.rest)}
    /\ UNCHANGED <<engineVars, told>>

ServeTick(r) ==
    /\ r.do = "tick" /\ r.rest = <<>>
    /\ Answer(r, r.actions)
    /\ UNCHANGED <<engineVars, served>>

\* A body that was sent before ends the conversation.
Speak(r, c, body) ==
    IF body \in c.sent
    THEN /\ convs' = [convs EXCEPT ![r.conv] = [c EXCEPT !.status = "ended"]]
         /\ Answer(r, [action |-> "end", body |-> ""])
         /\ UNCHANGED told
    ELSE /\ convs' = [convs EXCEPT ![r.conv] = [c EXCEPT !.sent = @ \cup {body}]]
         /\ told' = [told EXCEPT ![r.conv] = Append(@, body)]
         /\ Answer(r, [action |-> "send", body |-> body])

\* No text is found that may be sent.
FallSilent(r, c) ==
    /\ convs' = [convs EXCEPT ![r.conv] = [c EXCEPT !.status = "ended"]]
    /\ Answer(r, [action |-> "end", body |-> ""])
    /\ UNCHANGED told

\* One turn: the conversation has heard the message whatever comes of it.
ServeReply(r) ==
    /\ r.do = "reply"
    /\ LET c == convs[r.conv] IN
       IF c = Nothing \/ c.status = "ended"
       THEN Answer(r, [action |-> "end", body |-> ""]) /\ UNCHANGED <<convs, optedOut, told>>
       ELSE LET said == DecideReply(r.message, c.last, c.hits)
                listened == [c EXCEPT !.last = r.message]
            IN  \/ /\ said.action = "wait"
                   /\ convs' = [convs EXCEPT ![r.conv] =
                                  [listened EXCEPT !.hits = @ + 1, !.status = "waiting"]]
                   /\ Answer(r, [action |-> "wait", body |-> ""])
                   /\ UNCHANGED <<optedOut, told>>
                \/ /\ said.action = "end"
                   /\ convs' = [convs EXCEPT ![r.conv] = [listened EXCEPT !.status = "ended"]]
                   /\ optedOut' = IF said.kind = "hostile_optout"
                                  THEN optedOut \cup {MerchantOf[r.conv]} ELSE optedOut
                   /\ Answer(r, [action |-> "end", body |-> ""])
                   /\ UNCHANGED told
                \/ /\ said.action = "send"
                   /\ Speak(r, listened, said.kind) \/ FallSilent(r, listened)
                   /\ UNCHANGED optedOut
    /\ UNCHANGED <<contexts, used, lost, raised>>

\* Fault: the contexts outlive the session.
ServeTeardownHalf(r) ==
    /\ r.do = "teardown"
    /\ convs' = [g \in Triggers |-> Nothing]
    /\ used' = {} /\ optedOut' = {}
    /\ Answer(r, "ok")
    /\ UNCHANGED <<contexts, served>>

ServeTeardown(r) ==
    /\ r.do = "teardown"
    /\ contexts' = [id \in Ids |-> Nothing]
    /\ convs' = [g \in Triggers |-> Nothing]
    /\ used' = {} /\ optedOut' = {}
    /\ Answer(r, "ok")
    /\ UNCHANGED served

Loaded == {id \in Ids : Stored(id)}

ServeHealth(r) ==
    /\ r.do = "health"
    /\ Answer(r, Loaded)
    /\ UNCHANGED <<engineVars, served>>

InService == late \cup {c \in {call} : c # Nothing /\ c.do \notin {"answered", "failed"}}

\* A push that is stored while the counts are taken makes the iteration raise.
HealthRaises(r) ==
    /\ r.do = "health"
    /\ \E p \in InService : p.do = "push"
    /\ Raise(r)
    /\ UNCHANGED <<engineVars, told, lost>>

ServeStateless(r) ==
    /\ r.do = "stateless"
    /\ Answer(r, "ok")
    /\ UNCHANGED <<engineVars, served>>

Serve ==
    /\ \E r \in InService :
          \/ ServePush(r)
          \/ Test(r) \/ TestRaises(r)
          \/ Claim(r)
          \/ Open(r) \/ Unclaim(r) \/ OpenRaises(r)
          \/ ServeTick(r)
          \/ ServeReply(r)
          \/ ServeTeardown(r)
          \/ ServeHealth(r) \/ HealthRaises(r)
          \/ ServeStateless(r)
    /\ UNCHANGED clientVars

-------------------------------------------------------------------------------
(***************************************************************************)
(* The client.                                                             *)
(***************************************************************************)

Chat(g) == [conv |-> g, message |-> NoMessage, turn |-> 1]

FirstTurn == 2
LastTurn == 6

Playing == chats # <<>> /\ Head(chats).turn >= FirstTurn

\* The next conversation: record_action, and a persona for it.
OpenChat ==
    /\ call = Nothing
    /\ chats # <<>> /\ ~Playing
    /\ LET g == Head(chats).conv IN
       /\ faults' = IF g \in logged THEN faults \cup {"duplicate"} ELSE faults
       /\ logged' = logged \cup {g}
       /\ heard' = [heard EXCEPT ![g] = @ \cup {Opening}]
       /\ \E persona \in Personas :
             chats' = [chats EXCEPT ![1] = [@ EXCEPT !.message = persona, !.turn = FirstTurn]]
    /\ UNCHANGED <<engineVars, served, call, late, at, failures, stopped>>

\* The next request of the script.
Scripted == IF Script[at].do = "tick" THEN [Script[at] EXCEPT !.stops = stopped] ELSE Script[at]

\* The turn of the conversation that is played, or else the next request of the script.
Send ==
    /\ call = Nothing
    /\ \/ Playing /\ call' = ReplyOf(Head(chats).conv, Head(chats).message)
       \/ chats = <<>> /\ ~Ended /\ call' = Scripted
    /\ UNCHANGED <<engineVars, served, clientVars, late>>

Answered(kind) == call # Nothing /\ call.do = "answered" /\ call.to.do = kind

\* What the client holds against an answer to a request of its script.
Complaints ==
    CASE call.to.do = "push" /\ call.to.version = 0 /\ call.with = "accepted" -> {"stale"}
      [] call.to.do = "tick" /\ call.to.now = FarFuture /\ call.with # <<>> -> {"expired"}
      [] call.to.do = "health" /\ at = Len(Warmup) /\ call.with # Elements(Base) -> {"warmup"}
      [] call.to.do = "health" /\ at = Len(Script) /\ call.with # {} -> {"wiped"}
      [] OTHER -> {}

\* The answer to a request of the script; that of the expired tick is only looked at.
Receive ==
    /\ \E kind \in {"push", "tick", "teardown", "health", "stateless"} : Answered(kind)
    /\ faults' = faults \cup Complaints
    /\ chats' = IF call.to.do = "tick" /\ call.to.now # FarFuture
                THEN [i \in DOMAIN call.with |-> Chat(call.with[i])] ELSE <<>>
    /\ at' = at + 1
    /\ call' = Nothing
    /\ UNCHANGED <<engineVars, served, late, failures, logged, heard, stopped>>

\* A 500: a tick without actions, and counts that are not those of the dataset.
ReceiveError ==
    /\ call # Nothing /\ call.do = "failed"
    /\ faults' = faults \cup {"fivexx"} \cup (IF at = Len(Warmup) THEN {"warmup"} ELSE {})
    /\ at' = at + 1
    /\ call' = Nothing
    /\ UNCHANGED <<engineVars, served, late, chats, failures, logged, heard, stopped>>

NextTurn ==
    IF Head(chats).turn = LastTurn THEN Tail(chats)
    ELSE [chats EXCEPT ![1].turn = @ + 1]

\* An "end" is the last turn, a "wait" is not; a body is compared with those before it.
ReceiveReply ==
    /\ Answered("reply")
    /\ LET g == call.to.conv
           said == call.with
       IN  /\ faults' = IF said.action = "send" /\ said.body \in heard[g]
                        THEN faults \cup {"repeat"} ELSE faults
           /\ heard' = IF said.action = "send"
                       THEN [heard EXCEPT ![g] = @ \cup {said.body}] ELSE heard
           /\ chats' = IF said.action = "end" THEN Tail(chats) ELSE NextTurn
           /\ stopped' = IF call.to.message \in HostileMarked
                         THEN stopped \cup {MerchantOf[g]} ELSE stopped
    /\ call' = Nothing
    /\ UNCHANGED <<engineVars, served, late, at, failures, logged>>

\* What the client holds against the engine when a request has no answer.
Missed ==
    CASE Playing -> {"turn"}
      [] ~Playing /\ at \in {1, Len(Warmup)} -> {"warmup"}
      [] ~Playing /\ at = Len(Script) - 1 -> {"teardown"}
      [] ~Playing /\ at = Len(Script) -> {"wiped"}
      [] OTHER -> {}

\* No answer within the time limit, or a connection that broke, which is not counted: the
\* request is still served, or is lost.  Its conversation is left, a tick without an answer
\* has no actions, and without the first health check there is no warm-up.
Fail ==
    /\ call # Nothing
    /\ failures < MaxFailures
    /\ failures' = failures + 1
    /\ \E timeout \in {{}, {"timeout"}} : faults' = faults \cup timeout \cup Missed
    /\ \/ call.do \notin {"answered", "failed"} /\ late' = late \cup {call}
       \/ UNCHANGED late
    /\ IF Playing THEN chats' = Tail(chats) /\ UNCHANGED at
       ELSE at' = (IF at = 1 THEN Len(Warmup) ELSE at) + 1 /\ UNCHANGED chats
    /\ call' = Nothing
    /\ UNCHANGED <<engineVars, served, logged, heard, stopped>>

Finished ==
    /\ Ended /\ call = Nothing /\ late = {} /\ chats = <<>>
    /\ UNCHANGED vars

Next ==
    \/ Serve
    \/ OpenChat
    \/ Send
    \/ Receive
    \/ ReceiveReply
    \/ ReceiveError
    \/ Fail
    \/ Finished

Spec == Init /\ [][Next]_vars

\* The server works on what it has received and the client goes on with what it has.
FairSpec ==
    /\ Spec
    /\ WF_vars(Serve)
    /\ WF_vars(OpenChat \/ Send \/ Receive \/ ReceiveReply \/ ReceiveError)

-------------------------------------------------------------------------------
(***************************************************************************)
(* Properties.                                                             *)
(***************************************************************************)

\* When every request is answered in time, the only thing the client can hold against the
\* engine is a 500 as such: neither a 500 nor what it leaves behind makes the warm-up, an
\* expired trigger, a stale version, a repeated send or text, or the teardown go wrong
\* later (of overall_ok, hostile_evaluator_simulation.py, the parts named in Complaints,
\* Missed, OpenChat and ReceiveReply).
FailsOnlyByErrors == failures = 0 => faults \subseteq {"fivexx"}

TeardownSent == at >= Len(Script) - 1

\* Until the session ends, the engine gives out a conversation's opening once, before
\* anything else, and each other text at most once, be it for ticks and replies that the
\* client has given up and that are served while it goes on (try_reserve, release, and
\* sent_bodies against late requests).
NothingTwice ==
    ~TeardownSent =>
        \A g \in Triggers :
            /\ told[g] # <<>> => told[g][1] = Opening
            /\ \A i, j \in DOMAIN told[g] : told[g][i] = told[g][j] => i = j

\* While every request is answered, the client hears of every conversation the engine has
\* open: a claim is being composed for, or is for an action on its way to the client, or was
\* left by a tick that answered with a 500, and that tick had claimed or collected it
\* (release after a text that cannot be sent, app.py tick).
EverySendIsHeard ==
    failures = 0 =>
        \A g \in Triggers : convs[g] # Nothing =>
            \/ g \in logged
            \/ g \in lost
            \/ \E i \in DOMAIN chats : chats[i].conv = g
            \/ /\ call # Nothing /\ call.do = "tick"
               /\ g \in Elements(call.actions) \/ (AtStep(call, "compose") /\ g = Head(call.rest))
            \/ call # Nothing /\ call.do = "answered" /\ call.to.do = "tick"
                  /\ g \in Elements(call.with)

\* A merchant who says the same thing turn after turn hears at most one text and one wait
\* before the conversation ends: the loop never comes to the turns five and six it allows
\* for (the repeat test and auto_reply_hits, reply_policy.py).
ThreeTurns == chats # <<>> => Head(chats).turn <= 4

\* A stop message that was answered binds every tick the client sends after it: none of
\* them collects an action for that merchant.  (A tick sent before may: ClaimOptOut.cfg.)
StopBindsLaterTicks ==
    ~TeardownSent =>
        \A r \in InService : r.do = "tick" =>
            \A g \in Elements(r.actions) : MerchantOf[g] \notin r.stops

\* Every rehearsal comes to its end: the engine answers every request, and no conversation
\* keeps the client for ever.
RehearsalEnds == <>(Ended /\ chats = <<>>)
===============================================================================

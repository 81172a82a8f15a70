------------------------------- MODULE Engine -------------------------------
(***************************************************************************)
(* The engine under concurrent requests: tick and reply requests, each in  *)
(* a thread of its own, and POST /v1/teardown, over one Store (state/      *)
(* store.py) whose conversation and suppression stores they share.         *)
(***************************************************************************)
EXTENDS TickHandler, ReplyHandler

CONSTANT MaxTeardowns    \* bound: teardown requests in a behaviour

ASSUME EngineAssumption == MaxTeardowns \in Nat

VARIABLES
    tearing,     \* what the teardown request does next: "no", or the store to replace
    answered     \* history: actions delivered before a reply request arrived

vars == <<convVars, suppressionVars, tickVars, replyVars, tearing, answered>>

Init ==
    /\ ConvInit
    /\ SuppressionInit
    /\ TickInit
    /\ ReplyInit
    /\ tearing = "no"
    /\ answered = [r \in Replies |-> {}]

-------------------------------------------------------------------------------

\* Store.teardown assigns its three attributes one after the other; the first one,
\* the context store, is where the request starts.
TeardownStart ==
    /\ tearing = "no"
    /\ era < MaxTeardowns
    /\ tearing' = "conversations"
    /\ UNCHANGED <<convVars, suppressionVars>>

TeardownConversations ==
    /\ tearing = "conversations"
    /\ ReplaceConversations
    /\ tearing' = "suppression"
    /\ UNCHANGED suppressionVars

TeardownSuppression ==
    /\ tearing = "suppression"
    /\ ReplaceSuppression
    /\ tearing' = "no"
    /\ UNCHANGED convVars

Teardown ==
    /\ TeardownStart \/ TeardownConversations \/ TeardownSuppression
    /\ UNCHANGED <<tickVars, replyVars, answered>>

Tick(t) ==
    /\ TickArrive(t) \/ TickStep(t)
    /\ UNCHANGED <<replyVars, tearing, answered>>

ReplyRequest(r) ==
    /\ ReplyArrive(r)
    /\ answered' = [answered EXCEPT ![r] = delivered]
    /\ UNCHANGED <<tickVars, tearing>>

ReplyRun(r) ==
    /\ ReplyStep(r)
    /\ UNCHANGED <<tickVars, tearing, answered>>

\* Every request has been answered and no teardown is under way.
Quiescent ==
    /\ \A t \in Ticks : tpc[t] \in {"done", "failed"}
    /\ \A r \in Replies : rpc[r] = "done"
    /\ tearing = "no"
    /\ era = MaxTeardowns

Finished == Quiescent /\ UNCHANGED vars

Next ==
    \/ \E t \in Ticks : Tick(t)
    \/ \E r \in Replies : ReplyRequest(r) \/ ReplyRun(r)
    \/ Teardown
    \/ Finished

Spec == Init /\ [][Next]_vars

\* Threads run: the scheduler does not forget a request once it is in its handler,
\* and compose_and_validate returns (its caller waits a bounded time).
Fairness ==
    /\ \A t \in Ticks : WF_vars(TickStep(t) /\ UNCHANGED <<replyVars, tearing, answered>>)
    /\ \A r \in Replies : WF_vars(ReplyRun(r))

FairSpec == Spec /\ Fairness

-------------------------------------------------------------------------------

TypeOK ==
    /\ table \in [Convs -> 0 .. Len(heap)]
    /\ heap \in Seq(ConversationState)
    /\ era \in Nat
    /\ held \subseteq Nat \X Convs
    /\ usedKeys \subseteq Merchants \X Keys
    /\ optedOut \subseteq Merchants
    /\ tpc \in [Ticks -> TickPC]
    /\ todo \in [Ticks -> Seq(Triggers)]
    /\ claim \in [Ticks -> 0 .. Len(heap)]
    /\ draft \in [Ticks -> Bodies \cup {NoBody}]
    /\ actions \in [Ticks -> SUBSET Action]
    /\ delivered \subseteq Action
    /\ usedAtStart \in [Ticks -> SUBSET (Merchants \X Keys)]
    /\ optedAtStart \in [Ticks -> SUBSET Merchants]
    /\ rpc \in [Replies -> ReplyPC]
    /\ req \in [Replies -> Request \cup {NoRequest}]
    /\ verdict \in [Replies -> ReplyDecision \cup {NoVerdict}]
    /\ composed \in [Replies -> Bodies \cup {NoBody}]
    /\ answer \in [Replies -> Answer]
    /\ tearing \in {"no", "conversations", "suppression"}
    /\ answered \in [Replies -> SUBSET Action]

-------------------------------------------------------------------------------
(***************************************************************************)
(* What concurrent requests must not break.  Several properties speak of   *)
(* the time before the first teardown (era = 0): README.md says what a     *)
(* teardown in the middle of a request breaks.                             *)
(***************************************************************************)

\* The actions the engine has committed itself to: returned, or waiting in the list
\* of a request that has not returned yet (or never will, because it failed).
Emitted == delivered \cup UNION {actions[t] : t \in Ticks}

\* The request holds a reservation whose fate is open.
Owns(t) == tpc[t] \in {"compose", "release", "attach", "mark"}

\* try_reserve claims a conversation before any composition work, so concurrent and
\* later ticks never produce a second opening action for the same conversation id,
\* however they interleave and whichever of them release their claim (app.py:228-233).
OneActionPerConversation ==
    era = 0 =>
        \A a, b \in Emitted : ConvOf[a.trigger] = ConvOf[b.trigger] => a = b

\* A suppression key is spent once: no request acts on a key that was already used
\* when the request arrived, and one request never acts twice on the same key
\* (app.py:208-210, 258).  Two overlapping requests are another matter: KeySentOnce.
KeysNotReused ==
    era = 0 =>
        \A a \in Emitted :
            LET m == MerchantOf[a.trigger]
                k == KeyOf[a.trigger]
            IN  /\ <<m, k>> \notin usedAtStart[a.tick]
                /\ \A b \in Emitted :
                      /\ b.tick = a.tick
                      /\ MerchantOf[b.trigger] = m
                      /\ KeyOf[b.trigger] = k
                      /\ k # NoKey
                      => a = b

\* A merchant that had opted out when a tick arrived gets no action from that tick.
OptOutRespected ==
    era = 0 => \A a \in Emitted : MerchantOf[a.trigger] \notin optedAtStart[a.tick]

\* Every emitted action's key is recorded as used, so that later decisions see it.
EmittedMarksKey ==
    era = 0 =>
        \A a \in Emitted :
            KeyOf[a.trigger] # NoKey =>
                <<MerchantOf[a.trigger], KeyOf[a.trigger]>> \in usedKeys

\* No reservation is forgotten: a conversation held by the store is one an action was
\* emitted for, or one a running tick is working on, or one a failed tick left behind.
ReservationsAccountedFor ==
    era = 0 =>
        \A c \in Convs : IsReserved(c) =>
            \/ \E a \in Emitted : a.obj = table[c]
            \/ \E t \in Ticks : Owns(t) /\ claim[t] = table[c]
            \/ \E t \in Ticks : tpc[t] = "failed" /\ claim[t] = table[c]

\* A tick that is still composing for the reservation it made, or about to give it back,
\* finds it in the store, its own and no other's: release() and attach_brief() name a
\* conversation id only, so it is this that keeps them off other ticks' reservations
\* (store.py:139-142).
OwnersKeepReservation ==
    era = 0 => \A t \in Ticks : Owns(t) => table[ConvOfTick(t)] = claim[t]

\* The turn lock serialises the replies of one conversation (store.py:171-178).
OneTurnAtATime ==
    era = 0 =>
        \A r, s \in Replies :
            InTurn(r) /\ InTurn(s) /\ req[r].obj = req[s].obj => r = s

Answered(r, action) == answer[r].action = action

\* Vera backs off at most once per conversation: at most one of its replies is ever
\* answered "wait" (reply_policy.py:77-79), concurrent identical messages included.
BackOffOnce ==
    era = 0 =>
        \A r, s \in Replies :
            /\ Answered(r, "wait")
            /\ Answered(s, "wait")
            /\ req[r].obj = req[s].obj
            => r = s

\* No two replies of a conversation are answered with the same body (app.py:385-396).
RepliesNeverRepeat ==
    era = 0 =>
        \A r, s \in Replies :
            /\ Answered(r, "send")
            /\ Answered(s, "send")
            /\ req[r].obj = req[s].obj
            /\ answer[r].body = answer[s].body
            => r = s

\* A conversation answers two copies of one message with a send only if it has also
\* taken a turn with another message: until then, however many copies come, concurrently
\* or not, the first one changes what the others are compared with, even while another
\* message waits for the turn lock (store.py:171-178, app.py:337-338).
IdenticalRepliesSendOnce ==
    era = 0 =>
        \A r, s \in Replies :
            /\ Answered(r, "send")
            /\ Answered(s, "send")
            /\ req[r].obj = req[s].obj
            /\ \A q \in Replies :
                  verdict[q] # NoVerdict /\ req[q].obj = req[r].obj => req[q].msg = req[r].msg
            => r = s

\* A hostile message that ended the conversation has opted its merchant out by the
\* time the response leaves (app.py:357-361).
HostileEndOptsOut ==
    era = 0 =>
        \A r \in Replies :
            Answered(r, "end") /\ answer[r].why = "policy"
                /\ verdict[r].kind = "hostile_optout"
            => Conv(r).merchant \in optedOut

\* A reply to an action that had been returned to the client is never turned away for
\* lack of a brief: attach_brief happens before the action can be seen (app.py:257).
SolicitedRepliesHaveContext ==
    era = 0 =>
        \A r \in Replies :
            (\E a \in answered[r] : a.obj = req[r].obj) => answer[r].why # "no_context"

\* An ended conversation stays ended and answers nothing but "end": in particular a
\* reply being composed cannot come out after another one ended the conversation.
EndedIsFinal ==
    [][era = 0 =>
        /\ \A o \in DOMAIN heap : heap[o].status = "ended" => heap'[o].status = "ended"
        /\ \A r \in Replies :
              answer[r] # answer'[r] /\ answer'[r].action \in {"send", "wait"}
              => Conv(r).status # "ended"]_vars

\* Turn locks are exclusive and never leaked: every held lock belongs to exactly one
\* reply in its turn, after a teardown too, when new replies use the new store's locks.
LocksBelongToTurns ==
    /\ \A l \in held : \E r \in Replies : InTurn(r) /\ req[r].lock = l
    /\ \A r, s \in Replies :
          InTurn(r) /\ InTurn(s) /\ req[r].lock = req[s].lock => r = s

\* Every tick and every reply that arrived is eventually answered, whatever the other
\* requests and a teardown do meanwhile: no turn lock is leaked on any return path.
EveryRequestIsAnswered ==
    /\ \A t \in Ticks : tpc[t] # "idle" ~> tpc[t] \in {"done", "failed"}
    /\ \A r \in Replies : rpc[r] # "idle" ~> rpc[r] = "done"

-------------------------------------------------------------------------------
(***************************************************************************)
(* What the documents and comments say of the engine that overlapping      *)
(* requests, a failing one or a teardown do not respect.                   *)
(***************************************************************************)

\* The suppression store is "the real dedup/fatigue mechanism" (store.py:10-12): no two
\* returned actions of a merchant carry the same suppression key.
KeySentOnce ==
    \A a, b \in delivered :
        /\ MerchantOf[a.trigger] = MerchantOf[b.trigger]
        /\ KeyOf[a.trigger] = KeyOf[b.trigger]
        /\ KeyOf[a.trigger] # NoKey
        => a = b

\* "a merchant who opted out must stay suppressed for any new trigger too": once a
\* hostile reply to a returned action has been answered, no tick returns an action for
\* its merchant.
OptOutIsFinal ==
    [][\A a \in delivered' \ delivered : \A r \in Replies :
          /\ Answered(r, "end")
          /\ verdict[r].kind = "hostile_optout"
          /\ \E b \in answered[r] : b.obj = req[r].obj
          => Conv(r).merchant # MerchantOf[a.trigger]]_delivered

\* A suppression key is "marked used on send": once no request is running, every used
\* key is the key of an action that was returned.
MarkedMeansSent ==
    Quiescent =>
        \A mk \in usedKeys :
            \E a \in delivered : mk = <<MerchantOf[a.trigger], KeyOf[a.trigger]>>

\* No body is sent twice in a conversation: a reply to a returned action never repeats
\* that action's body.
NoVerbatimRepeat ==
    \A r \in Replies : \A a \in answered[r] :
        Answered(r, "send") /\ req[r].obj = a.obj => answer[r].body # a.body

\* "only the thread that won try_reserve() ever calls this for a given conversation_id"
\* (store.py:139-142): a release never removes the reservation of another tick.
ReleaseOnlyOwn ==
    \A t \in Ticks :
        tpc[t] = "release" => table[ConvOfTick(t)] \in {NoConv, claim[t]}

\* "any in-flight caller holding a reference to an old lock finishes against a
\* now-orphaned store" (store.py:230-232): once a teardown is complete, a reply that
\* holds a turn lock of the old store changes nothing in the new ones.
OrphansStayOrphaned ==
    [][\A r \in Replies :
          /\ InTurn(r)
          /\ req[r].lock[1] < era
          /\ tearing = "no"
          /\ rpc'[r] # rpc[r]
          => UNCHANGED <<table, usedKeys, optedOut>>]_vars
===============================================================================

----------------------------- MODULE TickHandler -----------------------------
(***************************************************************************)
(* api/app.py, POST /v1/tick: a plain def handler, so every request runs   *)
(* in a thread of its own and the steps below interleave freely.           *)
(*                                                                         *)
(* One element of Ticks is one request.  The verdict of decide() and the   *)
(* body the composer returns are choices; what the handler does with them, *)
(* and in which order it touches the shared stores, is the model.          *)
(***************************************************************************)
EXTENDS ConversationStore, SuppressionStore, FiniteSets

CONSTANTS
    Ticks,           \* tick requests
    Triggers,        \* triggers
    TriggerLists,    \* the available_triggers lists a request may carry
    MerchantOf,      \* trigger -> the merchant it is about
    ConvOf,          \* trigger -> "conv_<merchant>_<trigger>"
    KeyOf,           \* trigger -> its suppression_key
    MaxActions       \* MAX_ACTIONS_PER_TICK

ASSUME TickAssumption ==
    /\ TriggerLists \subseteq Seq(Triggers)
    /\ MerchantOf \in [Triggers -> Merchants]
    /\ ConvOf \in [Triggers -> Convs]
    /\ KeyOf \in [Triggers -> Keys]
    /\ MaxActions \in Nat \ {0}

VARIABLES
    tpc,          \* where each request is
    todo,         \* the triggers it has still to look at, the current one first
    claim,        \* the object its last successful try_reserve created
    draft,        \* the body composed for the current trigger
    actions,      \* the actions collected for the response
    delivered,    \* the actions of all responses returned so far
    usedAtStart,  \* history: the used keys when the request arrived
    optedAtStart  \* history: the opted-out merchants when the request arrived

tickVars ==
    <<tpc, todo, claim, draft, actions, delivered, usedAtStart, optedAtStart>>

TickPC == {"idle", "loop", "reserve", "compose", "release", "attach", "mark",
           "done", "failed"}

Action == [tick : Ticks, trigger : Triggers, body : Bodies, obj : Nat]

TickInit ==
    /\ tpc = [t \in Ticks |-> "idle"]
    /\ todo = [t \in Ticks |-> <<>>]
    /\ claim = [t \in Ticks |-> NoConv]
    /\ draft = [t \in Ticks |-> NoBody]
    /\ actions = [t \in Ticks |-> {}]
    /\ delivered = {}
    /\ usedAtStart = [t \in Ticks |-> {}]
    /\ optedAtStart = [t \in Ticks |-> {}]

Current(t) == Head(todo[t])

MerchantOfTick(t) == MerchantOf[Current(t)]

ConvOfTick(t) == ConvOf[Current(t)]

KeyOfTick(t) == KeyOf[Current(t)]

Goto(t, label) == tpc' = [tpc EXCEPT ![t] = label]

\* "continue": on to the next trigger of the list.
NextTrigger(t) ==
    /\ Goto(t, "loop")
    /\ todo' = [todo EXCEPT ![t] = Tail(@)]

-------------------------------------------------------------------------------

TickArrive(t) ==
    /\ tpc[t] = "idle"
    /\ \E list \in TriggerLists : todo' = [todo EXCEPT ![t] = list]
    /\ Goto(t, "loop")
    /\ usedAtStart' = [usedAtStart EXCEPT ![t] = usedKeys]
    /\ optedAtStart' = [optedAtStart EXCEPT ![t] = optedOut]
    /\ UNCHANGED <<claim, draft, actions, delivered, convVars, suppressionVars>>

MoreToDo(t) ==
    /\ tpc[t] = "loop"
    /\ todo[t] # <<>>
    /\ Cardinality(actions[t]) < MaxActions

\* A context is missing, or decide() says no: always possible, and the only
\* possibility when the key is used or the merchant suppressed.
TickSkip(t) ==
    /\ MoreToDo(t)
    /\ NextTrigger(t)
    /\ UNCHANGED <<claim, draft, actions, delivered, usedAtStart, optedAtStart,
                   convVars, suppressionVars>>

\* Faults: one of the two suppression tests is missing.
SuppressedByMerchantOnly(t) == IsMerchantSuppressed(MerchantOfTick(t))

SuppressedByKeyOnly(t) == IsUsed(MerchantOfTick(t), KeyOfTick(t))

AlreadySuppressed(t) ==
    \/ IsUsed(MerchantOfTick(t), KeyOfTick(t))
    \/ IsMerchantSuppressed(MerchantOfTick(t))

TickDecide(t) ==
    /\ MoreToDo(t)
    /\ ~AlreadySuppressed(t)
    /\ Goto(t, "reserve")
    /\ UNCHANGED <<todo, claim, draft, actions, delivered, usedAtStart, optedAtStart,
                   convVars, suppressionVars>>

\* Reading a context or deciding raised: the request fails with a 500.
TickDecideRaises(t) ==
    /\ MoreToDo(t)
    /\ Goto(t, "failed")
    /\ UNCHANGED <<todo, claim, draft, actions, delivered, usedAtStart, optedAtStart,
                   convVars, suppressionVars>>

TickReserve(t) ==
    /\ tpc[t] = "reserve"
    /\ \/ /\ Reserve(ConvOfTick(t), MerchantOfTick(t))
          /\ claim' = [claim EXCEPT ![t] = Len(heap) + 1]
          /\ Goto(t, "compose")
          /\ UNCHANGED todo
       \/ /\ IsReserved(ConvOfTick(t))
          /\ NextTrigger(t)
          /\ UNCHANGED <<claim, convVars>>
    /\ UNCHANGED <<draft, actions, delivered, usedAtStart, optedAtStart, suppressionVars>>

\* build_brief and compose_and_validate: no shared state is touched while the
\* other threads go on.
TickCompose(t) ==
    /\ tpc[t] = "compose"
    /\ \E b \in Bodies \cup {NoBody} :
          /\ draft' = [draft EXCEPT ![t] = b]
          /\ Goto(t, IF b = NoBody THEN "release" ELSE "attach")
    /\ UNCHANGED <<todo, claim, actions, delivered, usedAtStart, optedAtStart,
                   convVars, suppressionVars>>

\* build_brief reads the contexts and may raise on a payload: the reservation stays.
TickComposeRaises(t) ==
    /\ tpc[t] = "compose"
    /\ Goto(t, "failed")
    /\ UNCHANGED <<todo, claim, draft, actions, delivered, usedAtStart, optedAtStart,
                   convVars, suppressionVars>>

TickRelease(t) ==
    /\ tpc[t] = "release"
    /\ Release(ConvOfTick(t))
    /\ NextTrigger(t)
    /\ UNCHANGED <<claim, draft, actions, delivered, usedAtStart, optedAtStart,
                   suppressionVars>>

TickAttach(t) ==
    /\ tpc[t] = "attach"
    /\ AttachBrief(ConvOfTick(t))
    /\ Goto(t, "mark")
    /\ UNCHANGED <<todo, claim, draft, actions, delivered, usedAtStart, optedAtStart,
                   suppressionVars>>

\* mark_used, then the append to this request's own list.
TickMark(t) ==
    /\ tpc[t] = "mark"
    /\ MarkUsed(MerchantOfTick(t), KeyOfTick(t))
    /\ actions' = [actions EXCEPT ![t] = @ \cup
          {[tick |-> t, trigger |-> Current(t), body |-> draft[t], obj |-> claim[t]]}]
    /\ NextTrigger(t)
    /\ UNCHANGED <<claim, draft, delivered, usedAtStart, optedAtStart, convVars>>

TickRespond(t) ==
    /\ tpc[t] = "loop"
    /\ todo[t] = <<>> \/ Cardinality(actions[t]) >= MaxActions
    /\ delivered' = delivered \cup actions[t]
    /\ Goto(t, "done")
    /\ UNCHANGED <<todo, claim, draft, actions, usedAtStart, optedAtStart,
                   convVars, suppressionVars>>

\* What the request's thread does once it runs.
TickStep(t) ==
    \/ TickSkip(t)
    \/ TickDecide(t)
    \/ TickDecideRaises(t)
    \/ TickReserve(t)
    \/ TickCompose(t)
    \/ TickComposeRaises(t)
    \/ TickRelease(t)
    \/ TickAttach(t)
    \/ TickMark(t)
    \/ TickRespond(t)
===============================================================================

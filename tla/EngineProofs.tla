---------------------------- MODULE EngineProofs ----------------------------
(***************************************************************************)
(* Engine for any triggers, ticks, replies, messages and teardowns.        *)
(*                                                                         *)
(* TypeInv is TypeOK with what the handlers rely on: a reply works on an   *)
(* object that exists and is the one of its conversation id, a tick past   *)
(* its decision has a current trigger, and the table maps an id to an      *)
(* object of that id.  LockInv and ReservationInv build on it.             *)
(***************************************************************************)
EXTENDS Engine, SequenceTheorems, TLAPS

RequestsFormed ==
    \A r \in Replies :
        /\ rpc[r] # "idle" => req[r] \in Request
        /\ rpc[r] \notin {"idle", "done"} =>
              /\ req[r].obj \in DOMAIN heap
              /\ heap[req[r].obj].conv = req[r].conv
        /\ rpc[r] = "record" => composed[r] \in Bodies

TicksFormed ==
    \A t \in Ticks :
        /\ Owns(t) \/ tpc[t] = "reserve" => todo[t] # <<>>
        /\ tpc[t] \in {"attach", "mark"} => draft[t] \in Bodies

TableFormed == \A c \in Convs : IsReserved(c) => heap[table[c]].conv = c

TypeInv == TypeOK /\ RequestsFormed /\ TicksFormed /\ TableFormed

\* A reply in its turn holds its lock, no other reply has it, and until the first
\* teardown that lock is the one of its conversation id.
LocksTaken == \A r \in Replies : InTurn(r) => req[r].lock \in held

FirstStoreLocks ==
    era = 0 => \A r \in Replies : rpc[r] # "idle" => req[r].lock = <<0, req[r].conv>>

LockInv == LocksTaken /\ LocksBelongToTurns /\ FirstStoreLocks

\* Before the first teardown a conversation id belongs to one owner at most: a tick that
\* is composing for it, or the one action that was emitted for it.
OwnersHold ==
    \A t \in Ticks : Owns(t) => claim[t] # NoConv /\ table[ConvOfTick(t)] = claim[t]

OwnersApart ==
    \A t, u \in Ticks : Owns(t) /\ Owns(u) /\ ConvOfTick(t) = ConvOfTick(u) => t = u

EmittedHold ==
    \A a \in Emitted :
        /\ a.obj # NoConv
        /\ table[ConvOf[a.trigger]] = a.obj
        /\ \A t \in Ticks : Owns(t) => ConvOfTick(t) # ConvOf[a.trigger]

ReservationInv ==
    /\ era = 0 => OwnersHold /\ OwnersApart /\ EmittedHold
    /\ OneActionPerConversation
    /\ ReservationsAccountedFor

-------------------------------------------------------------------------------
(***************************************************************************)
(* The heap only grows, and an object keeps its conversation id.           *)
(***************************************************************************)

\* What no step does to the objects there are.
HeapGrows ==
    /\ heap' \in Seq(ConversationState)
    /\ Len(heap') >= Len(heap)
    /\ \A o \in 1 .. Len(heap) : heap'[o].conv = heap[o].conv

LEMMA HeapUpdate ==
  ASSUME TypeOK, NEW STATE o, o \in DOMAIN heap, NEW STATE v, v \in ConversationState,
         heap' = [heap EXCEPT ![o] = v]
  PROVE  /\ heap' \in Seq(ConversationState)
         /\ Len(heap') = Len(heap)
         /\ \A i \in 1 .. Len(heap) : heap'[i] = IF i = o THEN v ELSE heap[i]
  <1>1. heap \in Seq(ConversationState) /\ o \in 1 .. Len(heap)
    BY DEF TypeOK
  <1> QED BY <1>1, ExceptSeq

LEMMA HeapObject ==
  ASSUME TypeOK, NEW STATE o, o \in DOMAIN heap
  PROVE  heap[o] \in ConversationState
  <1>1. heap \in Seq(ConversationState) /\ o \in 1 .. Len(heap)
    BY DEF TypeOK
  <1> QED BY <1>1, ElementOfSeq

LEMMA ReserveHeap ==
  ASSUME TypeOK, NEW c \in Convs, NEW m \in Merchants, Reserve(c, m)
  PROVE  /\ HeapGrows
         /\ Len(heap') = Len(heap) + 1
         /\ heap'[Len(heap) + 1] = NewConversation(c, m)
  <1>1. heap \in Seq(ConversationState)
    BY DEF TypeOK
  <1>2. NewConversation(c, m) \in ConversationState
    BY DEF NewConversation, ConversationState, Status
  <1> QED BY <1>1, <1>2, AppendProperties DEF Reserve, HeapGrows

LEMMA AttachHeap ==
  ASSUME TypeOK, NEW c \in Convs, AttachBrief(c)
  PROVE  HeapGrows /\ Len(heap') = Len(heap)
  <1>1. CASE ~IsReserved(c)
    BY <1>1 DEF AttachBrief, HeapGrows, TypeOK
  <1>2. CASE IsReserved(c)
    <2>1. table[c] \in 1 .. Len(heap) /\ heap \in Seq(ConversationState)
      BY <1>2 DEF TypeOK, IsReserved, NoConv
    <2>2. table[c] \in DOMAIN heap
      BY <2>1
    <2> DEFINE o == table[c]
               v == [heap[o] EXCEPT !.brief = TRUE]
    <2>3. heap[o] \in ConversationState
      BY <2>2, HeapObject
    <2>4. v \in ConversationState /\ v.conv = heap[o].conv
      BY <2>3 DEF ConversationState
    <2>5. heap' = [heap EXCEPT ![o] = v]
      BY <1>2 DEF AttachBrief
    <2>6. /\ heap' \in Seq(ConversationState)
          /\ Len(heap') = Len(heap)
          /\ \A i \in 1 .. Len(heap) : heap'[i] = IF i = o THEN v ELSE heap[i]
      BY <2>2, <2>4, <2>5, HeapUpdate
    <2>7. Len(heap) \in Nat
      BY <2>1, LenProperties
    <2> HIDE DEF o, v
    <2> QED BY <2>4, <2>6, <2>7 DEF HeapGrows
  <1> QED BY <1>1, <1>2

LEMMA SetConvHeap ==
  ASSUME TypeOK, NEW r \in Replies, req[r].obj \in DOMAIN heap,
         NEW STATE v, v \in ConversationState, v.conv = Conv(r).conv,
         heap' = [heap EXCEPT ![req[r].obj] = v]
  PROVE  HeapGrows /\ Len(heap') = Len(heap)
  <1> DEFINE o == req[r].obj
  <1>1. /\ heap' \in Seq(ConversationState)
        /\ Len(heap') = Len(heap)
        /\ \A i \in 1 .. Len(heap) : heap'[i] = IF i = o THEN v ELSE heap[i]
    BY HeapUpdate
  <1>2. Len(heap) \in Nat
    BY LenProperties DEF TypeOK
  <1>3. v.conv = heap[o].conv
    BY DEF Conv
  <1> HIDE DEF o
  <1> QED BY <1>1, <1>2, <1>3 DEF HeapGrows

LEMMA SameHeap ==
  ASSUME TypeOK, heap' = heap
  PROVE  HeapGrows /\ Len(heap') = Len(heap)
  BY LenProperties DEF TypeOK, HeapGrows

LEMMA ReplyHeap ==
  ASSUME TypeInv, NEW r \in Replies, ReplyStep(r)
  PROVE  HeapGrows /\ Len(heap') = Len(heap)
  <1> USE DEF TypeInv
  <1> DEFINE o == req[r].obj
  <1>1. /\ rpc[r] \notin {"idle", "done"}
        /\ req[r] \in Request
        /\ o \in DOMAIN heap
        /\ heap[o] \in ConversationState
    <2>1. rpc[r] \notin {"idle", "done"}
      BY DEF ReplyStep, ReplyTurnLock, ReplyAcquire, ReplyAlreadyEnded, ReplyClassify, ReplyWait,
             ReplyEnd, ReplySuppress, ReplyNoContext, ReplyToCompose, ReplyCompose, ReplyReject,
             ReplyPassVet, ReplySend
    <2>2. req[r] \in Request /\ o \in DOMAIN heap
      BY <2>1 DEF RequestsFormed
    <2> QED BY <2>1, <2>2, HeapObject
  <1>2. ASSUME NEW STATE v, v \in ConversationState, v.conv = heap[o].conv,
               heap' = [heap EXCEPT ![o] = v]
        PROVE  HeapGrows /\ Len(heap') = Len(heap)
    BY <1>1, <1>2, SetConvHeap DEF Conv
  <1>3. ASSUME End(r)
        PROVE  HeapGrows /\ Len(heap') = Len(heap)
    <2> DEFINE v == [heap[o] EXCEPT !.status = "ended"]
    <2>1. v \in ConversationState /\ v.conv = heap[o].conv
      BY <1>1 DEF ConversationState, Status
    <2>2. heap' = [heap EXCEPT ![o] = v]
      BY <1>3 DEF End, SetConv
    <2> QED BY <1>2, <2>1, <2>2
  <1>4. CASE ReplyClassify(r)
    <2> DEFINE v == [heap[o] EXCEPT !.last = req[r].msg]
    <2>1. v \in ConversationState /\ v.conv = heap[o].conv
      BY <1>1 DEF ConversationState, Request
    <2>2. heap' = [heap EXCEPT ![o] = v]
      BY <1>4 DEF ReplyClassify, SetConv
    <2> QED BY <1>2, <2>1, <2>2
  <1>5. CASE ReplyWait(r)
    <2> DEFINE v == [heap[o] EXCEPT !.hits = heap[o].hits + 1, !.status = "waiting"]
    <2>1. heap[o].hits + 1 \in Nat
      BY <1>1 DEF ConversationState
    <2>2. v \in ConversationState /\ v.conv = heap[o].conv
      <3> DEFINE n == heap[o].hits + 1
      <3>1. n \in Nat
        BY <2>1
      <3> HIDE DEF n
      <3>2. [heap[o] EXCEPT !.hits = n, !.status = "waiting"] \in ConversationState
        BY <1>1, <3>1 DEF ConversationState, Status
      <3> QED BY <1>1, <3>2 DEF n, ConversationState
    <2>3. heap' = [heap EXCEPT ![o] = v]
      BY <1>5 DEF ReplyWait, Conv
    <2> QED BY <1>2, <2>2, <2>3
  <1>6. CASE ReplyEnd(r)
    BY <1>3, <1>6 DEF ReplyEnd
  <1>7. CASE ReplyNoContext(r)
    BY <1>3, <1>7 DEF ReplyNoContext
  <1>8. CASE ReplyReject(r)
    BY <1>3, <1>8 DEF ReplyReject
  <1>9. CASE ReplySend(r)
    <2> DEFINE v == [heap[o] EXCEPT !.sent = heap[o].sent \cup {composed[r]}]
    <2>1. composed[r] \in Bodies
      BY <1>9 DEF RequestsFormed, ReplySend
    <2>2. v \in ConversationState /\ v.conv = heap[o].conv
      BY <1>1, <2>1 DEF ConversationState
    <2>3. heap' = [heap EXCEPT ![o] = v]
      BY <1>9 DEF ReplySend, SetConv, Conv
    <2> QED BY <1>2, <2>2, <2>3
  <1>10. CASE heap' = heap
    BY <1>10, SameHeap
  <1> HIDE DEF TypeInv
  <1> QED
    BY <1>4, <1>5, <1>6, <1>7, <1>8, <1>9, <1>10
       DEF ReplyStep, ReplyTurnLock, ReplyAcquire, ReplyAlreadyEnded, ReplySuppress,
           ReplyToCompose, ReplyCompose, ReplyPassVet, convVars

\* What the current trigger of a tick leads to.
LEMMA CurrentTrigger ==
  ASSUME TypeOK, NEW t \in Ticks, todo[t] # <<>>
  PROVE  /\ Current(t) \in Triggers
         /\ ConvOfTick(t) \in Convs
         /\ MerchantOfTick(t) \in Merchants
         /\ KeyOfTick(t) \in Keys
         /\ Tail(todo[t]) \in Seq(Triggers)
  <1>1. todo[t] \in Seq(Triggers)
    BY DEF TypeOK
  <1>2. Current(t) \in Triggers /\ Tail(todo[t]) \in Seq(Triggers)
    BY <1>1, HeadTailProperties DEF Current
  <1> QED BY <1>2, TickAssumption DEF ConvOfTick, MerchantOfTick, KeyOfTick

LEMMA TickHeap ==
  ASSUME TypeInv, NEW t \in Ticks, TickArrive(t) \/ TickStep(t)
  PROVE  HeapGrows
  <1>1. TypeOK
    BY DEF TypeInv
  <1>2. ASSUME tpc[t] \in {"reserve", "attach"}
        PROVE  ConvOfTick(t) \in Convs /\ MerchantOfTick(t) \in Merchants
    BY <1>1, <1>2, CurrentTrigger DEF TypeInv, TicksFormed, Owns
  <1>3. CASE TickReserve(t)
    <2>1. ConvOfTick(t) \in Convs /\ MerchantOfTick(t) \in Merchants
      BY <1>2, <1>3 DEF TickReserve
    <2>2. CASE Reserve(ConvOfTick(t), MerchantOfTick(t))
      BY <1>1, <2>1, <2>2, ReserveHeap
    <2>3. CASE UNCHANGED convVars
      BY <1>1, <2>3, SameHeap DEF convVars
    <2> QED BY <1>3, <2>2, <2>3 DEF TickReserve
  <1>4. CASE TickAttach(t)
    BY <1>1, <1>2, <1>4, AttachHeap DEF TickAttach
  <1>5. CASE heap' = heap
    BY <1>1, <1>5, SameHeap
  <1> QED
    BY <1>3, <1>4, <1>5
       DEF TickStep, TickArrive, TickSkip, TickDecide, TickDecideRaises, TickCompose,
           TickComposeRaises, TickRelease, TickMark, TickRespond, Release, convVars

LEMMA NextHeap ==
  ASSUME TypeInv, [Next]_vars
  PROVE  HeapGrows
  <1>1. TypeOK
    BY DEF TypeInv
  <1>2. ASSUME NEW t \in Ticks, Tick(t)
        PROVE  HeapGrows
    BY <1>2, TickHeap DEF Tick
  <1>3. ASSUME NEW r \in Replies, ReplyRun(r)
        PROVE  HeapGrows
    BY <1>3, ReplyHeap DEF ReplyRun
  <1>4. CASE heap' = heap
    BY <1>1, <1>4, SameHeap
  <1>5. ASSUME NEW r \in Replies, ReplyRequest(r)
        PROVE  heap' = heap
    BY <1>5 DEF ReplyRequest, ReplyArrive, convVars
  <1>6. CASE Teardown \/ Finished \/ UNCHANGED vars
    BY <1>4, <1>6
       DEF Teardown, TeardownStart, TeardownConversations, TeardownSuppression,
           ReplaceConversations, Finished, vars, convVars
  <1> QED BY <1>2, <1>3, <1>4, <1>5, <1>6 DEF Next

-------------------------------------------------------------------------------
(***************************************************************************)
(* TypeInv is inductive.                                                   *)
(***************************************************************************)

LEMMA TypeInit == Init => TypeInv
  <1> SUFFICES ASSUME Init PROVE TypeInv
    OBVIOUS
  <1>1. heap = <<>> /\ heap \in Seq(ConversationState) /\ Len(heap) = 0
    BY EmptySeq DEF Init, ConvInit
  <1>2. \A t \in Ticks : <<>> \in Seq(Triggers)
    BY EmptySeq
  <1>3. /\ table \in [Convs -> 0 .. Len(heap)]
        /\ era \in Nat
        /\ held \subseteq Nat \X Convs
        /\ usedKeys \subseteq Merchants \X Keys
        /\ optedOut \subseteq Merchants
    BY <1>1 DEF Init, ConvInit, SuppressionInit, NoConv
  <1>4. /\ tpc \in [Ticks -> TickPC]
        /\ todo \in [Ticks -> Seq(Triggers)]
        /\ claim \in [Ticks -> 0 .. Len(heap)]
        /\ draft \in [Ticks -> Bodies \cup {NoBody}]
        /\ actions \in [Ticks -> SUBSET Action]
        /\ delivered \subseteq Action
        /\ usedAtStart \in [Ticks -> SUBSET (Merchants \X Keys)]
        /\ optedAtStart \in [Ticks -> SUBSET Merchants]
    BY <1>1, <1>2 DEF Init, TickInit, TickPC, NoConv
  <1>5. /\ rpc \in [Replies -> ReplyPC]
        /\ req \in [Replies -> Request \cup {NoRequest}]
        /\ verdict \in [Replies -> ReplyDecision \cup {NoVerdict}]
        /\ composed \in [Replies -> Bodies \cup {NoBody}]
        /\ answer \in [Replies -> Answer]
        /\ answered \in [Replies -> SUBSET Action]
    BY DEF Init, ReplyInit, ReplyPC, Answer, NoAnswer
  <1>6. TypeOK
    BY <1>1, <1>3, <1>4, <1>5 DEF Init, TypeOK
  <1>7. RequestsFormed /\ TicksFormed /\ TableFormed
    BY DEF Init, ConvInit, TickInit, ReplyInit, RequestsFormed, TicksFormed, TableFormed,
           IsReserved, NoConv, Owns
  <1> QED BY <1>6, <1>7 DEF TypeInv

\* The heap may grow under a reply that is running and under the table.
LEMMA RequestsStay ==
  ASSUME TypeInv, HeapGrows, UNCHANGED <<rpc, req, composed>>
  PROVE  RequestsFormed'
  <1>1. heap \in Seq(ConversationState) /\ heap' \in Seq(ConversationState)
    BY DEF TypeInv, TypeOK, HeapGrows
  <1>2. /\ DOMAIN heap = 1 .. Len(heap) /\ Len(heap) \in Nat
        /\ DOMAIN heap' = 1 .. Len(heap') /\ Len(heap') \in Nat
    BY <1>1, LenProperties
  <1>3. \A o \in DOMAIN heap : o \in DOMAIN heap' /\ heap'[o].conv = heap[o].conv
    BY <1>2 DEF HeapGrows
  <1> QED BY <1>3 DEF TypeInv, RequestsFormed

LEMMA TableStays ==
  ASSUME TypeInv, HeapGrows, \A c \in Convs : table'[c] \in {table[c], NoConv}
  PROVE  TableFormed'
  <1> SUFFICES ASSUME NEW c \in Convs, IsReserved(c)'
               PROVE  heap'[table'[c]].conv = c
    BY DEF TableFormed
  <1>1. table'[c] = table[c] /\ IsReserved(c)
    BY DEF IsReserved
  <1>2. table[c] \in 1 .. Len(heap)
    BY <1>1, LenProperties DEF TypeInv, TypeOK, IsReserved, NoConv
  <1> QED BY <1>1, <1>2 DEF HeapGrows, TypeInv, TableFormed

\* The part of TypeOK that ticks write.
TicksTyped ==
    /\ tpc \in [Ticks -> TickPC]
    /\ todo \in [Ticks -> Seq(Triggers)]
    /\ claim \in [Ticks -> 0 .. Len(heap)]
    /\ draft \in [Ticks -> Bodies \cup {NoBody}]
    /\ actions \in [Ticks -> SUBSET Action]
    /\ delivered \subseteq Action
    /\ usedAtStart \in [Ticks -> SUBSET (Merchants \X Keys)]
    /\ optedAtStart \in [Ticks -> SUBSET Merchants]

LEMMA ClaimsStay ==
  ASSUME TypeInv, HeapGrows
  PROVE  /\ claim \in [Ticks -> 0 .. Len(heap')]
         /\ table \in [Convs -> 0 .. Len(heap')]
         /\ Len(heap) \in Nat /\ Len(heap') \in Nat
  <1>1. Len(heap) \in Nat /\ Len(heap') \in Nat /\ Len(heap') >= Len(heap)
    BY LenProperties DEF TypeInv, TypeOK, HeapGrows
  <1>2. 0 .. Len(heap) \subseteq 0 .. Len(heap')
    BY <1>1
  <1> QED BY <1>1, <1>2 DEF TypeInv, TypeOK

LEMMA TickTypes ==
  ASSUME TypeInv, NEW t \in Ticks, TickArrive(t) \/ TickStep(t)
  PROVE  TicksTyped' /\ TicksFormed'
  <1>1. HeapGrows
    BY TickHeap
  <1>2. claim \in [Ticks -> 0 .. Len(heap')] /\ Len(heap) \in Nat /\ Len(heap') \in Nat
    BY <1>1, ClaimsStay
  <1>3. TypeOK /\ TicksTyped /\ TicksFormed
    BY DEF TypeInv, TypeOK, TicksTyped
  <1>4. ASSUME todo[t] # <<>>
        PROVE  /\ Current(t) \in Triggers
               /\ MerchantOfTick(t) \in Merchants
               /\ KeyOfTick(t) \in Keys
               /\ Tail(todo[t]) \in Seq(Triggers)
    BY <1>3, <1>4, CurrentTrigger
  <1>5. ASSUME UNCHANGED <<claim, draft, actions, delivered, usedAtStart, optedAtStart>>,
               MoreToDo(t) \/ tpc[t] \in {"reserve", "release"}, NextTrigger(t)
        PROVE  TicksTyped' /\ TicksFormed'
    <2>1. Tail(todo[t]) \in Seq(Triggers)
      BY <1>3, <1>4, <1>5 DEF MoreToDo, TicksFormed, Owns
    <2> QED BY <1>2, <1>3, <1>5, <2>1
             DEF NextTrigger, Goto, TicksTyped, TicksFormed, TickPC, Owns
  <1>6. CASE TickArrive(t)
    <2>1. PICK list \in TriggerLists : todo' = [todo EXCEPT ![t] = list]
      BY <1>6 DEF TickArrive
    <2>2. list \in Seq(Triggers) /\ usedKeys \subseteq Merchants \X Keys
             /\ optedOut \subseteq Merchants
      BY <1>3, TickAssumption DEF TypeOK
    <2> QED BY <1>2, <1>3, <1>6, <2>1, <2>2
             DEF TickArrive, Goto, TicksTyped, TicksFormed, TickPC, Owns
  <1>7. CASE TickSkip(t)
    BY <1>5, <1>7 DEF TickSkip
  <1>8. CASE TickDecide(t)
    BY <1>2, <1>3, <1>8
       DEF TickDecide, MoreToDo, Goto, TicksTyped, TicksFormed, TickPC, Owns
  <1>9. CASE TickDecideRaises(t) \/ TickComposeRaises(t)
    BY <1>2, <1>3, <1>9
       DEF TickDecideRaises, TickComposeRaises, MoreToDo, Goto, TicksTyped, TicksFormed,
           TickPC, Owns
  <1>10. CASE TickReserve(t)
    <2>1. CASE Reserve(ConvOfTick(t), MerchantOfTick(t)) /\ Goto(t, "compose")
                 /\ claim' = [claim EXCEPT ![t] = Len(heap) + 1] /\ UNCHANGED todo
      <3>1. Len(heap') = Len(heap) + 1
        <4>1. ConvOfTick(t) \in Convs /\ MerchantOfTick(t) \in Merchants
          BY <1>3, <1>10, CurrentTrigger DEF TickReserve, TicksFormed
        <4> QED BY <1>3, <2>1, <4>1, ReserveHeap
      <3>2. Len(heap) + 1 \in 0 .. Len(heap')
        BY <1>2, <3>1
      <3> QED BY <1>2, <1>3, <1>10, <2>1, <3>2
               DEF TickReserve, Goto, TicksTyped, TicksFormed, TickPC, Owns
    <2> QED BY <1>5, <1>10, <2>1 DEF TickReserve
  <1>11. CASE TickCompose(t)
    <2>1. PICK b \in Bodies \cup {NoBody} :
             /\ draft' = [draft EXCEPT ![t] = b]
             /\ Goto(t, IF b = NoBody THEN "release" ELSE "attach")
      BY <1>11 DEF TickCompose
    <2> QED BY <1>2, <1>3, <1>11, <2>1
             DEF TickCompose, Goto, TicksTyped, TicksFormed, TickPC, Owns
  <1>12. CASE TickRelease(t)
    BY <1>5, <1>12 DEF TickRelease
  <1>13. CASE TickAttach(t)
    BY <1>2, <1>3, <1>13 DEF TickAttach, Goto, TicksTyped, TicksFormed, TickPC, Owns
  <1>14. CASE TickMark(t)
    <2> DEFINE a == [tick |-> t, trigger |-> Current(t), body |-> draft[t], obj |-> claim[t]]
    <2>1. Current(t) \in Triggers /\ Tail(todo[t]) \in Seq(Triggers)
      BY <1>3, <1>4, <1>14 DEF TickMark, TicksFormed, Owns
    <2>2. claim[t] \in Nat /\ draft[t] \in Bodies
      BY <1>2, <1>3, <1>14 DEF TickMark, TicksFormed
    <2>3. a \in Action
      BY <2>1, <2>2 DEF Action
    <2>4. actions' \in [Ticks -> SUBSET Action]
      <3> HIDE DEF a
      <3>1. actions' = [actions EXCEPT ![t] = actions[t] \cup {a}]
        BY <1>14 DEF TickMark, a
      <3> QED BY <1>3, <2>3, <3>1 DEF TicksTyped
    <2> QED BY <1>2, <1>3, <1>14, <2>1, <2>4
             DEF TickMark, NextTrigger, Goto, TicksTyped, TicksFormed, TickPC, Owns
  <1>15. CASE TickRespond(t)
    BY <1>2, <1>3, <1>15 DEF TickRespond, Goto, TicksTyped, TicksFormed, TickPC, Owns
  <1> QED
    BY <1>6, <1>7, <1>8, <1>9, <1>10, <1>11, <1>12, <1>13, <1>14, <1>15 DEF TickStep

\* The part of TypeOK that every request writes.
StoreTyped ==
    /\ table \in [Convs -> 0 .. Len(heap)]
    /\ heap \in Seq(ConversationState)
    /\ era \in Nat
    /\ held \subseteq Nat \X Convs
    /\ usedKeys \subseteq Merchants \X Keys
    /\ optedOut \subseteq Merchants

LEMMA TickStore ==
  ASSUME TypeInv, NEW t \in Ticks, TickArrive(t) \/ TickStep(t)
  PROVE  StoreTyped' /\ TableFormed' /\ UNCHANGED <<era, held, optedOut>>
  <1>1. HeapGrows
    BY TickHeap
  <1>2. table \in [Convs -> 0 .. Len(heap')] /\ Len(heap) \in Nat /\ Len(heap') \in Nat
    BY <1>1, ClaimsStay
  <1>3. TypeOK /\ StoreTyped /\ TableFormed
    BY DEF TypeInv, TypeOK, StoreTyped
  <1>4. ASSUME tpc[t] \in {"reserve", "release", "mark"}
        PROVE  /\ ConvOfTick(t) \in Convs
               /\ MerchantOfTick(t) \in Merchants
               /\ KeyOfTick(t) \in Keys
    BY <1>3, <1>4, CurrentTrigger DEF TypeInv, TicksFormed, Owns
  <1>5. CASE tpc[t] = "reserve" /\ Reserve(ConvOfTick(t), MerchantOfTick(t))
               /\ UNCHANGED suppressionVars
    <2> DEFINE c == ConvOfTick(t)
               m == MerchantOfTick(t)
    <2>1. c \in Convs /\ m \in Merchants
      BY <1>4, <1>5
    <2>2. Len(heap') = Len(heap) + 1 /\ heap'[Len(heap) + 1] = NewConversation(c, m)
      BY <1>3, <1>5, <2>1, ReserveHeap
    <2> HIDE DEF c, m
    <2>3. table' = [table EXCEPT ![c] = Len(heap) + 1] /\ UNCHANGED <<era, held>>
      BY <1>5 DEF Reserve, c
    <2>4. StoreTyped'
      BY <1>1, <1>2, <1>3, <1>5, <2>1, <2>2, <2>3 DEF StoreTyped, HeapGrows, suppressionVars
    <2>5. ASSUME NEW d \in Convs, IsReserved(d)'
          PROVE  heap'[table'[d]].conv = d
      <3>1. CASE d = c
        <4>1. table'[d] = Len(heap) + 1
          BY <1>3, <2>3, <3>1 DEF StoreTyped
        <4> QED BY <2>2, <3>1, <4>1 DEF NewConversation
      <3>2. CASE d # c
        <4>1. table'[d] = table[d]
          BY <1>3, <2>3, <3>2 DEF StoreTyped
        <4>2. IsReserved(d) /\ table[d] \in 1 .. Len(heap)
          BY <1>2, <1>3, <2>5, <4>1 DEF StoreTyped, IsReserved, NoConv
        <4> QED BY <1>1, <1>3, <4>1, <4>2 DEF HeapGrows, TableFormed
      <3> QED BY <3>1, <3>2
    <2> QED BY <1>5, <2>3, <2>4, <2>5 DEF TableFormed, suppressionVars
  <1>6. CASE TickRelease(t)
    <2>1. table' = [table EXCEPT ![ConvOfTick(t)] = NoConv] /\ UNCHANGED <<heap, era, held>>
             /\ UNCHANGED suppressionVars
      BY <1>6 DEF TickRelease, Release
    <2>2. ConvOfTick(t) \in Convs
      BY <1>4, <1>6 DEF TickRelease
    <2>3. \A c \in Convs : table'[c] \in {table[c], NoConv}
      BY <1>3, <2>1, <2>2 DEF StoreTyped
    <2>4. TableFormed'
      BY <1>1, <2>3, TableStays
    <2> QED BY <1>2, <1>3, <2>1, <2>2, <2>4 DEF StoreTyped, NoConv, suppressionVars
  <1>7. CASE TickMark(t)
    <2>1. usedKeys' \subseteq Merchants \X Keys
      BY <1>3, <1>4, <1>7 DEF TickMark, MarkUsed, StoreTyped
    <2>2. UNCHANGED <<table, heap, era, held, optedOut>>
      BY <1>7 DEF TickMark, MarkUsed, convVars
    <2> QED BY <1>3, <2>1, <2>2 DEF StoreTyped, TableFormed, IsReserved
  <1>8. CASE UNCHANGED <<table, era, held, suppressionVars>>
    <2>1. TableFormed'
      BY <1>1, <1>3, <1>8, TableStays
    <2> QED BY <1>1, <1>2, <1>3, <1>8, <2>1 DEF StoreTyped, HeapGrows, suppressionVars
  <1> QED
    BY <1>5, <1>6, <1>7, <1>8
       DEF TickStep, TickArrive, TickSkip, TickDecide, TickDecideRaises, TickReserve,
           TickCompose, TickComposeRaises, TickAttach, AttachBrief, TickRespond, convVars

\* The part of TypeOK that replies write.
RepliesTyped ==
    /\ rpc \in [Replies -> ReplyPC]
    /\ req \in [Replies -> Request \cup {NoRequest}]
    /\ verdict \in [Replies -> ReplyDecision \cup {NoVerdict}]
    /\ composed \in [Replies -> Bodies \cup {NoBody}]
    /\ answer \in [Replies -> Answer]

LEMMA ArriveTypes ==
  ASSUME TypeInv, NEW r \in Replies, ReplyArrive(r)
  PROVE  RepliesTyped' /\ RequestsFormed' /\ UNCHANGED <<convVars, suppressionVars>>
  <1>1. TypeOK /\ RepliesTyped /\ RequestsFormed /\ TableFormed
    BY DEF TypeInv, TypeOK, RepliesTyped
  <1>2. PICK c \in Convs, m \in Messages :
          /\ req' = [req EXCEPT ![r] =
                [conv |-> c, msg |-> m, obj |-> table[c], lock |-> TurnLock(c)]]
          /\ IF IsReserved(c)
             THEN ReplyGoto(r, "found") /\ UNCHANGED answer
             ELSE Respond(r, "end", NoBody, "unknown_conversation")
    BY DEF ReplyArrive
  <1> DEFINE q == [conv |-> c, msg |-> m, obj |-> table[c], lock |-> TurnLock(c)]
  <1>3. Len(heap) \in Nat /\ table[c] \in 0 .. Len(heap) /\ heap \in Seq(ConversationState)
    BY <1>1, LenProperties DEF TypeOK
  <1>4. q \in Request
    BY <1>1, <1>3 DEF TypeOK, Request, TurnLock
  <1>5. IsReserved(c) => table[c] \in DOMAIN heap /\ heap[table[c]].conv = c
    BY <1>1, <1>3 DEF TableFormed, IsReserved, NoConv
  <1>6. UNCHANGED <<verdict, composed, convVars, suppressionVars>> /\ UNCHANGED heap
    BY DEF ReplyArrive, convVars
  <1>7. /\ q.obj = table[c]
        /\ q.conv = c
        /\ req' = [req EXCEPT ![r] = q]
    BY <1>2
  <1> HIDE DEF q
  <1>8. CASE IsReserved(c)
    <2>1. rpc' = [rpc EXCEPT ![r] = "found"] /\ UNCHANGED answer
      BY <1>2, <1>8 DEF ReplyGoto
    <2>2. RepliesTyped'
      BY <1>1, <1>4, <1>6, <1>7, <2>1 DEF RepliesTyped, ReplyPC
    <2>3. RequestsFormed'
      BY <1>1, <1>4, <1>5, <1>6, <1>7, <1>8, <2>1 DEF RequestsFormed, RepliesTyped
    <2> QED BY <1>6, <2>2, <2>3
  <1>9. CASE ~IsReserved(c)
    <2>1. /\ rpc' = [rpc EXCEPT ![r] = "done"]
          /\ answer' = [answer EXCEPT ![r] =
                [action |-> "end", body |-> NoBody, why |-> "unknown_conversation"]]
      BY <1>2, <1>9 DEF ReplyGoto, Respond
    <2>2. RepliesTyped'
      BY <1>1, <1>4, <1>6, <1>7, <2>1 DEF RepliesTyped, ReplyPC, Answer
    <2>3. RequestsFormed'
      BY <1>1, <1>4, <1>6, <1>7, <2>1 DEF RequestsFormed, RepliesTyped
    <2> QED BY <1>6, <2>2, <2>3
  <1> QED BY <1>8, <1>9

LEMMA ReplyTypes ==
  ASSUME TypeInv, NEW r \in Replies, ReplyStep(r)
  PROVE  RepliesTyped' /\ RequestsFormed'
  <1>1. TypeOK /\ RepliesTyped /\ RequestsFormed
    BY DEF TypeInv, TypeOK, RepliesTyped
  <1>2. HeapGrows
    BY ReplyHeap
  <1>3. \A o \in DOMAIN heap : o \in DOMAIN heap' /\ heap'[o].conv = heap[o].conv
    <2>1. heap \in Seq(ConversationState) /\ heap' \in Seq(ConversationState)
      BY <1>1, <1>2 DEF TypeOK, HeapGrows
    <2>2. /\ DOMAIN heap = 1 .. Len(heap) /\ Len(heap) \in Nat
          /\ DOMAIN heap' = 1 .. Len(heap') /\ Len(heap') \in Nat
      BY <2>1, LenProperties
    <2> QED BY <1>2, <2>2 DEF HeapGrows
  <1>4. ASSUME NEW label \in ReplyPC \ {"idle", "record"}, ReplyGoto(r, label),
               rpc[r] \notin {"idle", "done"}, UNCHANGED <<req, composed>>
        PROVE  rpc' \in [Replies -> ReplyPC] /\ RequestsFormed'
    BY <1>1, <1>3, <1>4 DEF ReplyGoto, RequestsFormed, RepliesTyped
  <1>5. ASSUME NEW action \in {"send", "wait", "end"}, NEW body \in Bodies \cup {NoBody},
               NEW why \in {"policy", "already_ended", "no_context", "unsendable", "repeat"},
               Return(r, action, body, why), rpc[r] \notin {"idle", "done"},
               UNCHANGED <<req, verdict, composed>>
        PROVE  RepliesTyped' /\ RequestsFormed'
    <2>1. ReplyGoto(r, "done") /\ answer' =
            [answer EXCEPT ![r] = [action |-> action, body |-> body, why |-> why]]
      BY <1>5 DEF Return, Respond
    <2>2. [action |-> action, body |-> body, why |-> why] \in Answer
      BY DEF Answer
    <2>3. rpc' \in [Replies -> ReplyPC] /\ RequestsFormed'
      BY <1>4, <1>5, <2>1 DEF ReplyPC
    <2> QED BY <1>1, <1>5, <2>1, <2>2, <2>3 DEF RepliesTyped
  <1>6. CASE ReplyTurnLock(r)
    <2> DEFINE q == [req[r] EXCEPT !.lock = TurnLock(req[r].conv)]
    <2>1. q \in Request /\ q.obj = req[r].obj /\ q.conv = req[r].conv
      BY <1>1, <1>6 DEF ReplyTurnLock, RequestsFormed, Request, TurnLock, TypeOK
    <2>2. req' = [req EXCEPT ![r] = q]
      BY <1>6 DEF ReplyTurnLock
    <2>3. rpc' = [rpc EXCEPT ![r] = "acquire"] /\ rpc[r] = "found"
             /\ UNCHANGED <<verdict, composed, answer, heap>>
      BY <1>6 DEF ReplyTurnLock, ReplyGoto, convVars
    <2> HIDE DEF q
    <2>4. RepliesTyped'
      BY <1>1, <2>1, <2>2, <2>3 DEF RepliesTyped, ReplyPC
    <2> QED BY <1>1, <2>1, <2>2, <2>3, <2>4 DEF RequestsFormed, RepliesTyped
  <1>7. CASE ReplyAcquire(r)
    <2>1. rpc' \in [Replies -> ReplyPC] /\ RequestsFormed'
      BY <1>4, <1>7 DEF ReplyAcquire, ReplyPC
    <2> QED BY <1>1, <1>7, <2>1 DEF ReplyAcquire, RepliesTyped
  <1>8. CASE ReplyAlreadyEnded(r)
    BY <1>5, <1>8 DEF ReplyAlreadyEnded
  <1>9. CASE ReplyClassify(r)
    <2>1. DecideReply(req[r].msg, Conv(r).last, Conv(r).hits) \in ReplyDecision
      BY DEF DecideReply, ClassifyKind, ReplyDecision, ReplyKind
    <2>2. rpc' \in [Replies -> ReplyPC] /\ RequestsFormed'
      BY <1>4, <1>9 DEF ReplyClassify, ReplyPC
    <2>3. verdict' \in [Replies -> ReplyDecision \cup {NoVerdict}]
      BY <1>1, <1>9, <2>1 DEF ReplyClassify, RepliesTyped
    <2> QED BY <1>1, <1>9, <2>2, <2>3 DEF ReplyClassify, RepliesTyped
  <1>10. CASE ReplyWait(r)
    BY <1>5, <1>10 DEF ReplyWait
  <1>11. CASE ReplyEnd(r)
    <2>1. CASE ReplyGoto(r, "suppress") /\ UNCHANGED <<answer, table, era, held>>
      <3>1. rpc' \in [Replies -> ReplyPC] /\ RequestsFormed'
        BY <1>4, <1>11, <2>1 DEF ReplyEnd, ReplyPC
      <3> QED BY <1>1, <1>11, <2>1, <3>1 DEF ReplyEnd, RepliesTyped
    <2>2. CASE Return(r, "end", NoBody, "policy")
      BY <1>5, <1>11, <2>2 DEF ReplyEnd
    <2> QED BY <1>11, <2>1, <2>2 DEF ReplyEnd
  <1>12. CASE ReplySuppress(r)
    BY <1>5, <1>12 DEF ReplySuppress
  <1>13. CASE ReplyNoContext(r)
    BY <1>5, <1>13 DEF ReplyNoContext
  <1>14. CASE ReplyToCompose(r)
    <2>1. rpc' \in [Replies -> ReplyPC] /\ RequestsFormed'
      BY <1>4, <1>14 DEF ReplyToCompose, ReplyPC
    <2> QED BY <1>1, <1>14, <2>1 DEF ReplyToCompose, RepliesTyped
  <1>15. CASE ReplyCompose(r)
    <2>1. PICK b \in Bodies \cup {NoBody} : composed' = [composed EXCEPT ![r] = b]
      BY <1>15 DEF ReplyCompose
    <2>2. rpc[r] = "compose" /\ rpc' = [rpc EXCEPT ![r] = "vet"]
             /\ UNCHANGED <<req, verdict, answer, heap>>
      BY <1>15 DEF ReplyCompose, ReplyGoto, convVars
    <2> QED BY <1>1, <2>1, <2>2 DEF RepliesTyped, RequestsFormed, ReplyPC
  <1>16. CASE ReplyReject(r)
    <2>1. CASE composed[r] = NoBody
      BY <1>5, <1>16, <2>1 DEF ReplyReject
    <2>2. CASE composed[r] # NoBody
      BY <1>5, <1>16, <2>2 DEF ReplyReject
    <2> QED BY <2>1, <2>2
  <1>17. CASE ReplyPassVet(r)
    <2>1. rpc[r] = "vet" /\ rpc' = [rpc EXCEPT ![r] = "record"] /\ composed[r] # NoBody
             /\ UNCHANGED <<req, verdict, composed, answer, heap>>
      BY <1>17 DEF ReplyPassVet, ReplyGoto, convVars
    <2>2. composed[r] \in Bodies
      BY <1>1, <2>1 DEF RepliesTyped
    <2> QED BY <1>1, <2>1, <2>2 DEF RepliesTyped, RequestsFormed, ReplyPC
  <1>18. CASE ReplySend(r)
    <2>1. composed[r] \in Bodies /\ rpc[r] = "record"
      BY <1>1, <1>18 DEF ReplySend, RequestsFormed
    <2> QED BY <1>5, <1>18, <2>1 DEF ReplySend
  <1> QED
    BY <1>6, <1>7, <1>8, <1>9, <1>10, <1>11, <1>12, <1>13, <1>14, <1>15, <1>16, <1>17, <1>18
       DEF ReplyStep

LEMMA ReplyStore ==
  ASSUME TypeInv, NEW r \in Replies, ReplyStep(r)
  PROVE  StoreTyped' /\ TableFormed' /\ UNCHANGED <<table, era, usedKeys>>
  <1>1. HeapGrows
    BY ReplyHeap
  <1>2. table \in [Convs -> 0 .. Len(heap')]
    BY <1>1, ClaimsStay
  <1>3. TypeOK /\ StoreTyped
    BY DEF TypeInv, TypeOK, StoreTyped
  <1>4. /\ rpc[r] \notin {"idle", "done"}
        /\ req[r].lock \in Nat \X Convs
        /\ Conv(r).merchant \in Merchants
    <2>1. rpc[r] \notin {"idle", "done"}
      BY DEF ReplyStep, ReplyTurnLock, ReplyAcquire, ReplyAlreadyEnded, ReplyClassify, ReplyWait,
             ReplyEnd, ReplySuppress, ReplyNoContext, ReplyToCompose, ReplyCompose, ReplyReject,
             ReplyPassVet, ReplySend
    <2>2. req[r] \in Request /\ req[r].obj \in DOMAIN heap
      BY <2>1 DEF TypeInv, RequestsFormed
    <2>3. heap[req[r].obj] \in ConversationState
      BY <1>3, <2>2, HeapObject
    <2> QED BY <2>1, <2>2, <2>3 DEF Request, Conv, ConversationState
  <1>5. UNCHANGED <<table, era, usedKeys>>
    BY DEF ReplyStep, ReplyTurnLock, ReplyAcquire, ReplyAlreadyEnded, ReplyClassify, ReplyWait,
           ReplyEnd, ReplySuppress, ReplyNoContext, ReplyToCompose, ReplyCompose, ReplyReject,
           ReplyPassVet, ReplySend, Return, SuppressMerchant, convVars, suppressionVars
  <1>6. held' \subseteq Nat \X Convs
    <2>1. CASE UNCHANGED held
      BY <1>3, <2>1 DEF StoreTyped
    <2>2. CASE AcquireTurn(req[r].lock)
      BY <1>3, <1>4, <2>2 DEF StoreTyped, AcquireTurn
    <2>3. CASE ReleaseTurn(req[r].lock)
      BY <1>3, <2>3 DEF StoreTyped, ReleaseTurn
    <2> QED
      BY <2>1, <2>2, <2>3
         DEF ReplyStep, ReplyTurnLock, ReplyAcquire, ReplyAlreadyEnded, ReplyClassify, ReplyWait,
             ReplyEnd, ReplySuppress, ReplyNoContext, ReplyToCompose, ReplyCompose, ReplyReject,
             ReplyPassVet, ReplySend, Return, convVars
  <1>7. optedOut' \subseteq Merchants
    <2>1. CASE UNCHANGED optedOut
      BY <1>3, <2>1 DEF StoreTyped
    <2>2. CASE SuppressMerchant(Conv(r).merchant)
      BY <1>3, <1>4, <2>2 DEF StoreTyped, SuppressMerchant
    <2> QED
      BY <2>1, <2>2
         DEF ReplyStep, ReplyTurnLock, ReplyAcquire, ReplyAlreadyEnded, ReplyClassify, ReplyWait,
             ReplyEnd, ReplySuppress, ReplyNoContext, ReplyToCompose, ReplyCompose, ReplyReject,
             ReplyPassVet, ReplySend, suppressionVars
  <1>8. TableFormed'
    BY <1>1, <1>5, TableStays
  <1> QED BY <1>1, <1>2, <1>3, <1>5, <1>6, <1>7, <1>8 DEF StoreTyped, HeapGrows

LEMMA TypeNext == TypeInv /\ [Next]_vars => TypeInv'
  <1> SUFFICES ASSUME TypeInv, [Next]_vars PROVE TypeInv'
    OBVIOUS
  <1>1. TypeOK /\ StoreTyped /\ TicksTyped /\ RepliesTyped
    BY DEF TypeInv, TypeOK, StoreTyped, TicksTyped, RepliesTyped
  <1>2. HeapGrows
    BY NextHeap
  <1>3. claim \in [Ticks -> 0 .. Len(heap')] /\ table \in [Convs -> 0 .. Len(heap')]
    BY <1>2, ClaimsStay
  <1>4. ASSUME UNCHANGED tickVars
        PROVE  TicksTyped' /\ TicksFormed'
    BY <1>1, <1>3, <1>4 DEF TicksTyped, TicksFormed, tickVars, TypeInv, Owns
  <1>5. ASSUME UNCHANGED replyVars
        PROVE  RepliesTyped' /\ RequestsFormed'
    <2>1. UNCHANGED <<rpc, req, composed, verdict, answer>>
      BY <1>5 DEF replyVars
    <2> QED BY <1>1, <1>2, <2>1, RequestsStay DEF RepliesTyped
  <1>6. ASSUME StoreTyped', TicksTyped', RepliesTyped', tearing' \in {"no", "conversations",
               "suppression"}, answered' \in [Replies -> SUBSET Action]
        PROVE  TypeOK'
    BY <1>6 DEF TypeOK, StoreTyped, TicksTyped, RepliesTyped
  <1>7. ASSUME NEW t \in Ticks, Tick(t)
        PROVE  TypeInv'
    <2>1. StoreTyped' /\ TableFormed' /\ TicksTyped' /\ TicksFormed'
      BY <1>7, TickStore, TickTypes DEF Tick
    <2>2. UNCHANGED <<replyVars, tearing, answered>>
      BY <1>7 DEF Tick
    <2> QED BY <1>1, <1>5, <1>6, <2>1, <2>2 DEF TypeInv, TypeOK
  <1>8. ASSUME NEW r \in Replies, ReplyRun(r)
        PROVE  TypeInv'
    <2>1. StoreTyped' /\ TableFormed' /\ RepliesTyped' /\ RequestsFormed'
      BY <1>8, ReplyStore, ReplyTypes DEF ReplyRun
    <2>2. UNCHANGED <<tickVars, tearing, answered>>
      BY <1>8 DEF ReplyRun
    <2> QED BY <1>1, <1>4, <1>6, <2>1, <2>2 DEF TypeInv, TypeOK
  <1>9. ASSUME NEW r \in Replies, ReplyRequest(r)
        PROVE  TypeInv'
    <2>1. /\ RepliesTyped' /\ RequestsFormed'
          /\ UNCHANGED <<convVars, suppressionVars, tickVars, tearing>>
          /\ answered' = [answered EXCEPT ![r] = delivered]
      BY <1>9, ArriveTypes DEF ReplyRequest
    <2>2. StoreTyped' /\ TableFormed'
      BY <1>1, <2>1 DEF StoreTyped, TableFormed, TypeInv, IsReserved, convVars, suppressionVars
    <2>3. answered' \in [Replies -> SUBSET Action]
      BY <1>1, <2>1 DEF TypeOK
    <2> QED BY <1>1, <1>4, <1>6, <2>1, <2>2, <2>3 DEF TypeInv, TypeOK
  <1>10. CASE Teardown
    <2>1. UNCHANGED <<tickVars, replyVars, answered>>
      BY <1>10 DEF Teardown
    <2>2. CASE TeardownStart
      <3>1. StoreTyped' /\ TableFormed' /\ tearing' = "conversations"
        BY <1>1, <2>2
           DEF TeardownStart, StoreTyped, TableFormed, TypeInv, IsReserved, convVars,
               suppressionVars
      <3> QED BY <1>1, <1>4, <1>5, <1>6, <2>1, <3>1 DEF TypeInv, TypeOK
    <2>3. CASE TeardownConversations
      <3>1. /\ table' = [c \in Convs |-> NoConv] /\ era' = era + 1
            /\ UNCHANGED <<heap, held, usedKeys, optedOut>> /\ tearing' = "suppression"
        BY <2>3 DEF TeardownConversations, ReplaceConversations, suppressionVars
      <3>2. Len(heap) \in Nat
        BY <1>1, LenProperties DEF StoreTyped
      <3>3. StoreTyped' /\ TableFormed'
        BY <1>1, <3>1, <3>2 DEF StoreTyped, TableFormed, IsReserved, NoConv
      <3> QED BY <1>1, <1>4, <1>5, <1>6, <2>1, <3>1, <3>3 DEF TypeInv, TypeOK
    <2>4. CASE TeardownSuppression
      <3>1. StoreTyped' /\ TableFormed' /\ tearing' = "no"
        BY <1>1, <2>4
           DEF TeardownSuppression, ReplaceSuppression, StoreTyped, TableFormed, TypeInv,
               IsReserved, convVars
      <3> QED BY <1>1, <1>4, <1>5, <1>6, <2>1, <3>1 DEF TypeInv, TypeOK
    <2> QED BY <1>10, <2>2, <2>3, <2>4 DEF Teardown
  <1>11. CASE UNCHANGED vars
    <2>1. StoreTyped' /\ TableFormed'
      BY <1>1, <1>11
         DEF vars, StoreTyped, TableFormed, TypeInv, IsReserved, convVars, suppressionVars
    <2>2. UNCHANGED <<tickVars, replyVars, tearing, answered>>
      BY <1>11 DEF vars
    <2> QED BY <1>1, <1>4, <1>5, <1>6, <2>1, <2>2 DEF TypeInv, TypeOK
  <1> QED BY <1>7, <1>8, <1>9, <1>10, <1>11 DEF Next, Finished

\* A running request finds what it works on: its object, its conversation id, its current
\* trigger, a body to send.
THEOREM TypeInvariant == Spec => []TypeInv
  <1>1. Init => TypeInv
    BY TypeInit
  <1>2. TypeInv /\ [Next]_vars => TypeInv'
    BY TypeNext
  <1> QED BY <1>1, <1>2, PTL DEF Spec

\* Type correctness: every variable of the engine keeps its type, for any requests.
THEOREM TypeCorrect == Spec => []TypeOK
  <1>1. TypeInv => TypeOK
    BY DEF TypeInv
  <1> QED BY <1>1, TypeInvariant, PTL

-------------------------------------------------------------------------------
(***************************************************************************)
(* Turn locks.                                                             *)
(***************************************************************************)

\* A step that takes and gives back no lock, and that changes the lock of no reply in
\* its turn.
LEMMA TurnsStay ==
  ASSUME LocksTaken, LocksBelongToTurns, UNCHANGED held,
         \A r \in Replies : InTurn(r)' <=> InTurn(r),
         \A r \in Replies : InTurn(r) => req'[r].lock = req[r].lock
  PROVE  LocksTaken' /\ LocksBelongToTurns'
  <1>1. LocksTaken'
    BY DEF LocksTaken
  <1>2. ASSUME NEW l \in held'
        PROVE  \E r \in Replies : InTurn(r)' /\ req'[r].lock = l
    BY <1>2 DEF LocksBelongToTurns
  <1>3. ASSUME NEW r \in Replies, NEW s \in Replies, InTurn(r)', InTurn(s)',
               req'[r].lock = req'[s].lock
        PROVE  r = s
    BY <1>3 DEF LocksBelongToTurns
  <1> QED BY <1>1, <1>2, <1>3 DEF LocksBelongToTurns

LEMMA TurnTaken ==
  ASSUME TypeInv, LocksTaken, LocksBelongToTurns, NEW r \in Replies, ReplyAcquire(r)
  PROVE  LocksTaken' /\ LocksBelongToTurns'
  <1> DEFINE l == req[r].lock
  <1>1. /\ ~InTurn(r)
        /\ InTurn(r)'
        /\ l \notin held
        /\ held' = held \cup {l}
        /\ UNCHANGED req
        /\ \A s \in Replies \ {r} : InTurn(s)' <=> InTurn(s)
    BY DEF ReplyAcquire, AcquireTurn, ReplyGoto, InTurn, TypeInv, TypeOK
  <1>2. LocksTaken'
    BY <1>1 DEF LocksTaken
  <1>3. \A s \in Replies \ {r} : InTurn(s) => req[s].lock # l
    BY <1>1 DEF LocksTaken
  <1>4. ASSUME NEW k \in held'
        PROVE  \E s \in Replies : InTurn(s)' /\ req'[s].lock = k
    <2>1. CASE k = l
      BY <1>1, <2>1
    <2>2. CASE k \in held
      <3>1. PICK s \in Replies : InTurn(s) /\ req[s].lock = k
        BY <2>2 DEF LocksBelongToTurns
      <3> QED BY <1>1, <3>1
    <2> QED BY <1>1, <1>4, <2>1, <2>2
  <1>5. ASSUME NEW s \in Replies, NEW u \in Replies, InTurn(s)', InTurn(u)',
               req'[s].lock = req'[u].lock
        PROVE  s = u
    <2>1. CASE s # r /\ u # r
      BY <1>1, <1>5, <2>1 DEF LocksBelongToTurns
    <2>2. CASE s = r \/ u = r
      BY <1>1, <1>3, <1>5, <2>2
    <2> QED BY <2>1, <2>2
  <1> QED BY <1>2, <1>4, <1>5 DEF LocksBelongToTurns

LEMMA TurnGivenBack ==
  ASSUME TypeInv, LocksTaken, LocksBelongToTurns, NEW r \in Replies, InTurn(r),
         ReleaseTurn(req[r].lock), ReplyGoto(r, "done"), UNCHANGED req
  PROVE  LocksTaken' /\ LocksBelongToTurns'
  <1> DEFINE l == req[r].lock
  <1>1. /\ ~InTurn(r)'
        /\ held' = held \ {l}
        /\ UNCHANGED req
        /\ \A s \in Replies \ {r} : InTurn(s)' <=> InTurn(s)
    BY DEF ReleaseTurn, ReplyGoto, InTurn, TypeInv, TypeOK
  <1>2. \A s \in Replies \ {r} : InTurn(s) => req[s].lock # l
    BY DEF LocksBelongToTurns
  <1>3. LocksTaken'
    BY <1>1, <1>2 DEF LocksTaken
  <1>4. ASSUME NEW k \in held'
        PROVE  \E s \in Replies : InTurn(s)' /\ req'[s].lock = k
    <2>1. PICK s \in Replies : InTurn(s) /\ req[s].lock = k
      BY <1>1, <1>4 DEF LocksBelongToTurns
    <2>2. s # r
      BY <1>1, <1>4, <2>1
    <2> QED BY <1>1, <2>1, <2>2
  <1>5. ASSUME NEW s \in Replies, NEW u \in Replies, InTurn(s)', InTurn(u)',
               req'[s].lock = req'[u].lock
        PROVE  s = u
    BY <1>1, <1>5 DEF LocksBelongToTurns
  <1> QED BY <1>3, <1>4, <1>5 DEF LocksBelongToTurns

LEMMA ReplyLocks ==
  ASSUME TypeInv, LockInv, NEW r \in Replies, ReplyStep(r)
  PROVE  LocksTaken' /\ LocksBelongToTurns'
  <1>1. LocksTaken /\ LocksBelongToTurns
    BY DEF LockInv
  <1>2. CASE ReplyTurnLock(r)
    <2>1. ~InTurn(r) /\ ~InTurn(r)'
      BY <1>2 DEF ReplyTurnLock, ReplyGoto, InTurn, TypeInv, TypeOK
    <2>2. \A s \in Replies \ {r} : (InTurn(s)' <=> InTurn(s)) /\ req'[s] = req[s]
      BY <1>2 DEF ReplyTurnLock, ReplyGoto, InTurn, TypeInv, TypeOK
    <2>3. UNCHANGED held
      BY <1>2 DEF ReplyTurnLock, convVars
    <2> QED BY <1>1, <2>1, <2>2, <2>3, TurnsStay
  <1>3. CASE ReplyAcquire(r)
    BY <1>1, <1>3, TurnTaken
  <1>4. CASE ReplyClassify(r) \/ ReplyToCompose(r) \/ ReplyCompose(r) \/ ReplyPassVet(r)
    <2>1. UNCHANGED <<held, req>> /\ (\A s \in Replies : InTurn(s)' <=> InTurn(s))
      BY <1>4
         DEF ReplyClassify, ReplyToCompose, ReplyCompose, ReplyPassVet, ReplyGoto, InTurn,
             TypeInv, TypeOK, convVars
    <2> QED BY <1>1, <2>1, TurnsStay
  <1>5. ASSUME NEW action, NEW body, NEW why, Return(r, action, body, why), InTurn(r),
               UNCHANGED req
        PROVE  LocksTaken' /\ LocksBelongToTurns'
    BY <1>1, <1>5, TurnGivenBack DEF Return, Respond
  <1>6. CASE ReplyAlreadyEnded(r) \/ ReplyWait(r) \/ ReplySuppress(r) \/ ReplyNoContext(r)
    BY <1>5, <1>6 DEF ReplyAlreadyEnded, ReplyWait, ReplySuppress, ReplyNoContext, InTurn
  <1>7. CASE ReplyReject(r) \/ ReplySend(r)
    BY <1>5, <1>7 DEF ReplyReject, ReplySend, InTurn
  <1>8. CASE ReplyEnd(r)
    <2>1. CASE ReplyGoto(r, "suppress") /\ UNCHANGED <<answer, table, era, held>>
      <3>1. UNCHANGED <<held, req>> /\ (\A s \in Replies : InTurn(s)' <=> InTurn(s))
        BY <1>8, <2>1 DEF ReplyEnd, ReplyGoto, InTurn, TypeInv, TypeOK
      <3> QED BY <1>1, <3>1, TurnsStay
    <2>2. CASE Return(r, "end", NoBody, "policy")
      BY <1>5, <1>8, <2>2 DEF ReplyEnd, InTurn
    <2> QED BY <1>8, <2>1, <2>2 DEF ReplyEnd
  <1> QED BY <1>2, <1>3, <1>4, <1>6, <1>7, <1>8 DEF ReplyStep

LEMMA ReplyFirstLocks ==
  ASSUME TypeInv, LockInv, NEW r \in Replies, ReplyArrive(r) \/ ReplyStep(r)
  PROVE  FirstStoreLocks'
  <1>1. UNCHANGED era
    BY ArriveTypes, ReplyStore DEF convVars
  <1>2. SUFFICES ASSUME era = 0, NEW s \in Replies, rpc'[s] # "idle"
                 PROVE  req'[s].lock = <<0, req'[s].conv>>
    BY <1>1 DEF FirstStoreLocks
  <1>3. CASE ReplyArrive(r) /\ s = r
    <2>1. PICK c \in Convs, m \in Messages : req' = [req EXCEPT ![r] =
            [conv |-> c, msg |-> m, obj |-> table[c], lock |-> TurnLock(c)]]
      BY <1>3 DEF ReplyArrive
    <2>2. req'[r] = [conv |-> c, msg |-> m, obj |-> table[c], lock |-> <<0, c>>]
      BY <1>2, <2>1 DEF TypeInv, TypeOK, TurnLock
    <2> QED BY <1>3, <2>2
  <1>4. CASE ReplyTurnLock(r) /\ s = r
    <2>1. req[r] \in Request
      BY <1>4 DEF ReplyTurnLock, TypeInv, RequestsFormed
    <2>2. req'[r] = [req[r] EXCEPT !.lock = <<0, req[r].conv>>]
      BY <1>2, <1>4 DEF ReplyTurnLock, TurnLock, TypeInv, TypeOK
    <2> QED BY <1>4, <2>1, <2>2 DEF Request
  <1>5. CASE req'[s] = req[s] /\ (rpc[s] # "idle")
    BY <1>2, <1>5 DEF LockInv, FirstStoreLocks
  <1>6. ASSUME s # r
        PROVE  req'[s] = req[s] /\ rpc'[s] = rpc[s]
    <2>1. CASE ReplyArrive(r)
      BY <1>6, <2>1 DEF ReplyArrive, ReplyGoto, Respond, TypeInv, TypeOK
    <2>2. CASE ReplyStep(r)
      BY <1>6, <2>2
         DEF ReplyStep, ReplyTurnLock, ReplyAcquire, ReplyAlreadyEnded, ReplyClassify, ReplyWait,
             ReplyEnd, ReplySuppress, ReplyNoContext, ReplyToCompose, ReplyCompose, ReplyReject,
             ReplyPassVet, ReplySend, Return, Respond, ReplyGoto, TypeInv, TypeOK
    <2> QED BY <2>1, <2>2
  <1>7. ASSUME ReplyStep(r), ~ReplyTurnLock(r)
        PROVE  req' = req /\ rpc[r] # "idle"
    BY <1>7
       DEF ReplyStep, ReplyAcquire, ReplyAlreadyEnded, ReplyClassify, ReplyWait,
           ReplyEnd, ReplySuppress, ReplyNoContext, ReplyToCompose, ReplyCompose, ReplyReject,
           ReplyPassVet, ReplySend
  <1> QED BY <1>2, <1>3, <1>4, <1>5, <1>6, <1>7

LEMMA LockNext == TypeInv /\ LockInv /\ [Next]_vars => LockInv'
  <1> SUFFICES ASSUME TypeInv, LockInv, [Next]_vars PROVE LockInv'
    OBVIOUS
  <1>1. ASSUME UNCHANGED <<rpc, req, held>>, era' = 0 => era = 0
        PROVE  LockInv'
    BY <1>1 DEF LockInv, LocksTaken, LocksBelongToTurns, FirstStoreLocks, InTurn
  <1>2. ASSUME NEW t \in Ticks, Tick(t)
        PROVE  LockInv'
    BY <1>1, <1>2, TickStore DEF Tick, replyVars
  <1>3. ASSUME NEW r \in Replies, ReplyRun(r)
        PROVE  LockInv'
    BY <1>3, ReplyLocks, ReplyFirstLocks DEF ReplyRun, LockInv
  <1>4. ASSUME NEW r \in Replies, ReplyRequest(r)
        PROVE  LockInv'
    <2>1. ReplyArrive(r)
      BY <1>4 DEF ReplyRequest
    <2>2. FirstStoreLocks'
      BY <2>1, ReplyFirstLocks
    <2>3. ~InTurn(r) /\ ~InTurn(r)'
      BY <2>1 DEF ReplyArrive, Respond, ReplyGoto, InTurn, TypeInv, TypeOK
    <2>4. \A s \in Replies \ {r} : (InTurn(s)' <=> InTurn(s)) /\ req'[s] = req[s]
      BY <2>1 DEF ReplyArrive, Respond, ReplyGoto, InTurn, TypeInv, TypeOK
    <2>5. UNCHANGED held
      BY <2>1 DEF ReplyArrive, convVars
    <2> QED BY <2>2, <2>3, <2>4, <2>5, TurnsStay DEF LockInv
  <1>5. CASE Teardown
    <2>1. UNCHANGED <<rpc, req, held>>
      BY <1>5
         DEF Teardown, TeardownStart, TeardownConversations, TeardownSuppression,
             ReplaceConversations, convVars, replyVars
    <2>2. era' = era \/ era' = era + 1
      BY <1>5
         DEF Teardown, TeardownStart, TeardownConversations, TeardownSuppression,
             ReplaceConversations, convVars
    <2>3. era \in Nat
      BY DEF TypeInv, TypeOK
    <2> QED BY <1>1, <2>1, <2>2, <2>3
  <1>6. CASE UNCHANGED vars
    BY <1>1, <1>6 DEF vars, convVars, replyVars
  <1> QED BY <1>2, <1>3, <1>4, <1>5, <1>6 DEF Next, Finished

\* A reply in its turn holds its lock, alone, across teardowns.
THEOREM LockInvariant == Spec => []LockInv
  <1>1. Init => LockInv
    BY DEF Init, ConvInit, ReplyInit, LockInv, LocksTaken, LocksBelongToTurns,
           FirstStoreLocks, InTurn
  <1>2. TypeInv /\ LockInv /\ [Next]_vars => LockInv'
    BY LockNext
  <1> QED BY <1>1, <1>2, TypeInvariant, PTL DEF Spec

\* Turn locks are exclusive and never leaked: after a teardown too, every held lock is
\* that of exactly one reply between its acquire and the return that gives it back.
THEOREM LocksExclusive == Spec => []LocksBelongToTurns
  <1>1. LockInv => LocksBelongToTurns
    BY DEF LockInv
  <1> QED BY <1>1, LockInvariant, PTL

\* Before the first teardown no two replies are in a turn of the same conversation
\* object: the object's conversation id is the replies' own, and names their lock.
THEOREM TurnsSerialised == Spec => []OneTurnAtATime
  <1>1. TypeInv /\ LockInv => OneTurnAtATime
    <2> SUFFICES ASSUME TypeInv, LockInv, era = 0, NEW r \in Replies, NEW s \in Replies,
                        InTurn(r), InTurn(s), req[r].obj = req[s].obj
                 PROVE  r = s
      BY DEF OneTurnAtATime
    <2>1. req[r].conv = req[s].conv
      BY DEF TypeInv, RequestsFormed, InTurn
    <2>2. req[r].lock = <<0, req[r].conv>> /\ req[s].lock = <<0, req[s].conv>>
      BY DEF LockInv, FirstStoreLocks, InTurn
    <2> QED BY <2>1, <2>2 DEF LockInv, LocksBelongToTurns
  <1> QED BY <1>1, TypeInvariant, LockInvariant, PTL

-------------------------------------------------------------------------------
(***************************************************************************)
(* Reservations.                                                           *)
(***************************************************************************)

\* A step that reserves, releases and emits nothing.
LEMMA ReservationStays ==
  ASSUME ReservationInv, era' = 0 => era = 0 /\ UNCHANGED table,
         UNCHANGED <<claim, delivered, actions>>,
         \A t \in Ticks : Owns(t)' => Owns(t) /\ todo'[t] = todo[t],
         \A t \in Ticks : Owns(t) \/ tpc[t] = "failed" => Owns(t)' \/ tpc'[t] = "failed"
  PROVE  ReservationInv'
  <1> SUFFICES ASSUME era' = 0 PROVE ReservationInv'
    BY DEF ReservationInv, OneActionPerConversation, ReservationsAccountedFor
  <1>1. era = 0 /\ UNCHANGED table /\ Emitted' = Emitted
    BY DEF Emitted
  <1>2. \A t \in Ticks : Owns(t)' => Owns(t) /\ ConvOfTick(t)' = ConvOfTick(t)
    BY DEF ConvOfTick, Current
  <1>3. OwnersHold' /\ OwnersApart' /\ EmittedHold'
    <2>1. OwnersHold'
      BY <1>1, <1>2 DEF ReservationInv, OwnersHold
    <2>2. OwnersApart'
      BY <1>1, <1>2 DEF ReservationInv, OwnersApart
    <2>3. EmittedHold'
      BY <1>1, <1>2 DEF ReservationInv, EmittedHold
    <2> QED BY <2>1, <2>2, <2>3
  <1>4. OneActionPerConversation'
    BY <1>1 DEF ReservationInv, OneActionPerConversation
  <1>5. ReservationsAccountedFor'
    BY <1>1 DEF ReservationInv, ReservationsAccountedFor, IsReserved
  <1> QED BY <1>3, <1>4, <1>5 DEF ReservationInv

LEMMA ReserveReservation ==
  ASSUME TypeInv, ReservationInv, NEW t \in Ticks, TickReserve(t),
         Reserve(ConvOfTick(t), MerchantOfTick(t)), claim' = [claim EXCEPT ![t] = Len(heap) + 1],
         Goto(t, "compose"), UNCHANGED todo
  PROVE  ReservationInv'
  <1> DEFINE c == ConvOfTick(t)
             n == Len(heap) + 1
  <1>1. c \in Convs
    BY CurrentTrigger DEF TypeInv, TicksFormed, TickReserve
  <1>2. n # NoConv
    BY LenProperties DEF TypeInv, TypeOK, NoConv
  <1>3. /\ claim'[t] = n
        /\ \A u \in Ticks \ {t} : claim'[u] = claim[u]
        /\ \A u \in Ticks \ {t} : tpc'[u] = tpc[u]
        /\ tpc[t] = "reserve" /\ tpc'[t] = "compose"
        /\ \A u \in Ticks : ConvOfTick(u)' = ConvOfTick(u)
    BY DEF TypeInv, TypeOK, Goto, TickReserve, ConvOfTick, Current
  <1>4. /\ table'[c] = n
        /\ table[c] = NoConv
        /\ \A d \in Convs \ {c} : table'[d] = table[d]
        /\ UNCHANGED era
    BY <1>1 DEF Reserve, IsReserved, TypeInv, TypeOK
  <1>5. Emitted' = Emitted /\ (\A a \in Emitted : a.trigger \in Triggers)
    BY DEF TickReserve, Emitted, TypeInv, TypeOK, Action
  <1>6. \A u \in Ticks : Owns(u) => u # t /\ ConvOfTick(u) \in Convs
    BY <1>3, CurrentTrigger DEF Owns, TypeInv, TicksFormed
  <1>7. \A u \in Ticks : Owns(u)' => u = t \/ Owns(u)
    BY <1>3 DEF Owns
  <1> SUFFICES ASSUME era = 0 PROVE ReservationInv'
    BY <1>4 DEF ReservationInv, OneActionPerConversation, ReservationsAccountedFor
  <1> HIDE DEF c, n
  <1>8. \A u \in Ticks : Owns(u) => ConvOfTick(u) # c
    BY <1>4 DEF ReservationInv, OwnersHold
  <1>9. OwnersHold'
    BY <1>2, <1>3, <1>4, <1>6, <1>7, <1>8 DEF OwnersHold, ReservationInv, c
  <1>10. OwnersApart'
    BY <1>3, <1>7, <1>8 DEF OwnersApart, ReservationInv, c
  <1>11. \A a \in Emitted : ConvOf[a.trigger] \in Convs /\ ConvOf[a.trigger] # c
    BY <1>4, <1>5, TickAssumption DEF ReservationInv, EmittedHold
  <1>12. EmittedHold'
    BY <1>3, <1>4, <1>5, <1>7, <1>11 DEF EmittedHold, ReservationInv, c
  <1>13. OneActionPerConversation'
    BY <1>5 DEF OneActionPerConversation, ReservationInv
  <1>14. ReservationsAccountedFor'
    <2> SUFFICES ASSUME NEW d \in Convs, IsReserved(d)'
                 PROVE  \/ \E a \in Emitted : a.obj = table'[d]
                        \/ \E u \in Ticks : Owns(u)' /\ claim'[u] = table'[d]
                        \/ \E u \in Ticks : tpc'[u] = "failed" /\ claim'[u] = table'[d]
      BY <1>5 DEF ReservationsAccountedFor
    <2>1. CASE d = c
      BY <1>3, <1>4, <2>1 DEF Owns
    <2>2. CASE d # c
      BY <1>3, <1>4, <2>2 DEF ReservationInv, ReservationsAccountedFor, IsReserved, Owns
    <2> QED BY <2>1, <2>2
  <1> QED BY <1>9, <1>10, <1>12, <1>13, <1>14 DEF ReservationInv

LEMMA ReleaseReservation ==
  ASSUME TypeInv, ReservationInv, NEW t \in Ticks, TickRelease(t)
  PROVE  ReservationInv'
  <1> DEFINE c == ConvOfTick(t)
  <1>1. Owns(t) /\ todo[t] # <<>> /\ c \in Convs
    BY CurrentTrigger DEF TypeInv, TicksFormed, TickRelease, Owns
  <1>2. /\ UNCHANGED <<claim, delivered, actions, era, heap>>
        /\ ~Owns(t)'
        /\ \A u \in Ticks \ {t} : tpc'[u] = tpc[u] /\ todo'[u] = todo[u]
    BY DEF TickRelease, Release, NextTrigger, Goto, Owns, TypeInv, TypeOK
  <1>3. /\ table'[c] = NoConv
        /\ \A d \in Convs \ {c} : table'[d] = table[d]
    BY <1>1 DEF TickRelease, Release, TypeInv, TypeOK
  <1>4. /\ Emitted' = Emitted
        /\ \A a \in Emitted : a.trigger \in Triggers
    BY DEF TickRelease, Emitted, TypeInv, TypeOK, Action
  <1>5. \A u \in Ticks : Owns(u)' => Owns(u) /\ u # t /\ ConvOfTick(u)' = ConvOfTick(u)
    BY <1>2 DEF Owns, ConvOfTick, Current
  <1>6. \A u \in Ticks : Owns(u) => ConvOfTick(u) \in Convs
    BY CurrentTrigger DEF TypeInv, TicksFormed
  <1> SUFFICES ASSUME era = 0 PROVE ReservationInv'
    BY <1>2 DEF ReservationInv, OneActionPerConversation, ReservationsAccountedFor
  <1> HIDE DEF c
  <1>7. OwnersHold /\ OwnersApart /\ EmittedHold
    BY DEF ReservationInv
  <1>8. \A u \in Ticks : Owns(u)' => ConvOfTick(u) # c
    BY <1>1, <1>5, <1>7 DEF OwnersApart, c
  <1>9. OwnersHold'
    BY <1>2, <1>3, <1>5, <1>6, <1>7, <1>8 DEF OwnersHold
  <1>10. OwnersApart'
    BY <1>5, <1>7 DEF OwnersApart
  <1>11. \A a \in Emitted : ConvOf[a.trigger] \in Convs /\ ConvOf[a.trigger] # c
    BY <1>1, <1>4, <1>7, TickAssumption DEF EmittedHold, c
  <1>12. EmittedHold'
    BY <1>3, <1>4, <1>5, <1>7, <1>11 DEF EmittedHold
  <1>13. OneActionPerConversation'
    BY <1>2, <1>4 DEF OneActionPerConversation, ReservationInv
  <1>14. ReservationsAccountedFor'
    <2> SUFFICES ASSUME NEW d \in Convs, IsReserved(d)'
                 PROVE  \/ \E a \in Emitted : a.obj = table'[d]
                        \/ \E u \in Ticks : Owns(u)' /\ claim'[u] = table'[d]
                        \/ \E u \in Ticks : tpc'[u] = "failed" /\ claim'[u] = table'[d]
      BY <1>4 DEF ReservationsAccountedFor
    <2>1. d # c /\ table'[d] = table[d] /\ IsReserved(d)
      BY <1>3 DEF IsReserved
    \* The released object is not d's: an object belongs to one conversation id.
    <2>2. claim[t] # table[d]
      <3>1. claim[t] = table[c] /\ IsReserved(c)
        BY <1>1, <1>7 DEF OwnersHold, IsReserved, c
      <3>2. heap[table[c]].conv = c /\ heap[table[d]].conv = d
        BY <1>1, <2>1, <3>1 DEF TypeInv, TableFormed
      <3> QED BY <2>1, <3>1, <3>2
    <2>3. tpc[t] # "failed"
      BY DEF TickRelease
    <2> QED BY <1>2, <2>1, <2>2, <2>3 DEF ReservationInv, ReservationsAccountedFor, Owns
  <1> QED BY <1>9, <1>10, <1>12, <1>13, <1>14 DEF ReservationInv

LEMMA MarkReservation ==
  ASSUME TypeInv, ReservationInv, NEW t \in Ticks, TickMark(t)
  PROVE  ReservationInv'
  <1> DEFINE c == ConvOfTick(t)
             n == [tick |-> t, trigger |-> Current(t), body |-> draft[t], obj |-> claim[t]]
  <1>1. Owns(t) /\ c = ConvOf[n.trigger] /\ n.obj = claim[t]
    BY DEF TickMark, Owns, ConvOfTick
  <1>2. /\ UNCHANGED <<claim, delivered, era, table>>
        /\ ~Owns(t)'
        /\ \A u \in Ticks \ {t} : tpc'[u] = tpc[u] /\ todo'[u] = todo[u]
    BY DEF TickMark, NextTrigger, Goto, Owns, TypeInv, TypeOK, convVars
  <1>3. actions' = [actions EXCEPT ![t] = actions[t] \cup {n}]
    BY DEF TickMark
  <1> HIDE DEF c, n
  <1>4. /\ actions'[t] = actions[t] \cup {n}
        /\ \A u \in Ticks \ {t} : actions'[u] = actions[u]
    BY <1>3 DEF TypeInv, TypeOK
  <1>5. Emitted' = Emitted \cup {n}
    BY <1>2, <1>4 DEF Emitted
  <1>6. \A u \in Ticks : Owns(u)' => Owns(u) /\ u # t /\ ConvOfTick(u)' = ConvOfTick(u)
    BY <1>2 DEF Owns, ConvOfTick, Current
  <1> SUFFICES ASSUME era = 0 PROVE ReservationInv'
    BY <1>2 DEF ReservationInv, OneActionPerConversation, ReservationsAccountedFor
  <1>7. OwnersHold /\ OwnersApart /\ EmittedHold
    BY DEF ReservationInv
  <1>8. claim[t] # NoConv /\ table[c] = claim[t]
    BY <1>1, <1>7 DEF OwnersHold, c
  <1>9. OwnersHold'
    BY <1>2, <1>6, <1>7 DEF OwnersHold
  <1>10. OwnersApart'
    BY <1>6, <1>7 DEF OwnersApart
  <1>11. EmittedHold'
    <2> SUFFICES ASSUME NEW a \in Emitted'
                 PROVE  /\ a.obj # NoConv
                        /\ table[ConvOf[a.trigger]] = a.obj
                        /\ \A u \in Ticks : Owns(u)' => ConvOfTick(u)' # ConvOf[a.trigger]
      BY <1>2 DEF EmittedHold
    <2>1. CASE a \in Emitted
      BY <1>6, <1>7, <2>1 DEF EmittedHold
    <2>2. CASE a = n
      BY <1>1, <1>6, <1>7, <1>8, <2>2 DEF OwnersApart, c
    <2> QED BY <1>5, <2>1, <2>2
  <1>12. OneActionPerConversation'
    <2>1. \A a \in Emitted : ConvOf[a.trigger] # c
      BY <1>1, <1>7 DEF EmittedHold, c
    <2> QED BY <1>1, <1>2, <1>5, <2>1 DEF OneActionPerConversation, ReservationInv
  <1>13. ReservationsAccountedFor'
    <2> SUFFICES ASSUME NEW d \in Convs, IsReserved(d)'
                 PROVE  \/ \E a \in Emitted' : a.obj = table[d]
                        \/ \E u \in Ticks : Owns(u)' /\ claim[u] = table[d]
                        \/ \E u \in Ticks : tpc'[u] = "failed" /\ claim[u] = table[d]
      BY <1>2 DEF ReservationsAccountedFor
    <2>1. IsReserved(d)
      BY <1>2 DEF IsReserved
    <2>2. CASE claim[t] = table[d]
      BY <1>1, <1>5, <2>2
    <2>3. CASE claim[t] # table[d]
      BY <1>2, <1>5, <2>1, <2>3 DEF ReservationInv, ReservationsAccountedFor, Owns
    <2> QED BY <2>2, <2>3
  <1> QED BY <1>9, <1>10, <1>11, <1>12, <1>13 DEF ReservationInv

LEMMA RespondReservation ==
  ASSUME TypeInv, ReservationInv, NEW t \in Ticks, TickRespond(t)
  PROVE  ReservationInv'
  <1>1. Emitted' = Emitted
    BY DEF TickRespond, Emitted
  <1>2. /\ UNCHANGED <<claim, era, table, todo>>
        /\ \A u \in Ticks : Owns(u)' <=> Owns(u)
        /\ \A u \in Ticks : tpc[u] = "failed" => tpc'[u] = "failed"
    BY DEF TickRespond, Goto, Owns, TypeInv, TypeOK, convVars
  <1>3. \A u \in Ticks : ConvOfTick(u)' = ConvOfTick(u)
    BY <1>2 DEF ConvOfTick, Current
  <1>4. OwnersHold => OwnersHold'
    BY <1>2, <1>3 DEF OwnersHold
  <1>5. OwnersApart => OwnersApart'
    BY <1>2, <1>3 DEF OwnersApart
  <1>6. EmittedHold => EmittedHold'
    BY <1>1, <1>2, <1>3 DEF EmittedHold
  <1>7. OneActionPerConversation'
    BY <1>1, <1>2 DEF OneActionPerConversation, ReservationInv
  <1>8. ReservationsAccountedFor'
    BY <1>1, <1>2 DEF ReservationsAccountedFor, ReservationInv, IsReserved
  <1> QED BY <1>2, <1>4, <1>5, <1>6, <1>7, <1>8 DEF ReservationInv

LEMMA TickReservation ==
  ASSUME TypeInv, ReservationInv, NEW t \in Ticks, TickArrive(t) \/ TickStep(t)
  PROVE  ReservationInv'
  <1>1. \A u \in Ticks \ {t} : tpc'[u] = tpc[u] /\ todo'[u] = todo[u]
    BY DEF TickStep, TickArrive, TickSkip, TickDecide, TickDecideRaises, TickReserve, TickCompose,
           TickComposeRaises, TickRelease, TickAttach, TickMark, TickRespond, NextTrigger, Goto,
           TypeInv, TypeOK
  <1>2. ASSUME UNCHANGED <<claim, delivered, actions, table, era>>,
               Owns(t)' => Owns(t) /\ todo'[t] = todo[t],
               Owns(t) \/ tpc[t] = "failed" => Owns(t)' \/ tpc'[t] = "failed"
        PROVE  ReservationInv'
    <2>1. \A u \in Ticks : Owns(u)' => Owns(u) /\ todo'[u] = todo[u]
      BY <1>1, <1>2 DEF Owns
    <2>2. \A u \in Ticks : Owns(u) \/ tpc[u] = "failed" => Owns(u)' \/ tpc'[u] = "failed"
      BY <1>1, <1>2 DEF Owns
    <2> QED BY <1>2, <2>1, <2>2, ReservationStays
  <1>3. CASE TickArrive(t) \/ TickSkip(t) \/ TickDecide(t) \/ TickDecideRaises(t)
    <2>1. UNCHANGED <<claim, delivered, actions, table, era>>
      BY <1>3 DEF TickArrive, TickSkip, TickDecide, TickDecideRaises, convVars
    <2>2. tpc[t] \in {"idle", "loop"} /\ tpc'[t] \in {"loop", "reserve", "failed"}
      BY <1>3 DEF TickArrive, TickSkip, TickDecide, TickDecideRaises, MoreToDo, NextTrigger,
                  Goto, TypeInv, TypeOK
    <2> QED BY <1>2, <2>1, <2>2 DEF Owns
  <1>4. CASE TickCompose(t) \/ TickComposeRaises(t) \/ TickAttach(t)
    <2>1. UNCHANGED <<claim, delivered, actions, table, era, todo>>
      BY <1>4 DEF TickCompose, TickComposeRaises, TickAttach, AttachBrief, convVars
    <2>2. tpc[t] \in {"compose", "attach"}
             /\ tpc'[t] \in {"release", "attach", "mark", "failed"}
      BY <1>4 DEF TickCompose, TickComposeRaises, TickAttach, Goto, TypeInv, TypeOK
    <2> QED BY <1>2, <2>1, <2>2 DEF Owns
  <1>5. CASE TickReserve(t)
    <2>1. CASE NextTrigger(t) /\ UNCHANGED <<claim, convVars>>
      <3>1. UNCHANGED <<claim, delivered, actions, table, era>>
        BY <1>5, <2>1 DEF TickReserve, convVars
      <3>2. tpc[t] = "reserve" /\ tpc'[t] = "loop"
        BY <1>5, <2>1 DEF TickReserve, NextTrigger, Goto, TypeInv, TypeOK
      <3> QED BY <1>2, <3>1, <3>2 DEF Owns
    <2> QED BY <1>5, <2>1, ReserveReservation DEF TickReserve
  <1> QED
    BY <1>3, <1>4, <1>5, ReleaseReservation, MarkReservation, RespondReservation DEF TickStep

LEMMA ReservationNext == TypeInv /\ ReservationInv /\ [Next]_vars => ReservationInv'
  <1> SUFFICES ASSUME TypeInv, ReservationInv, [Next]_vars PROVE ReservationInv'
    OBVIOUS
  <1>1. ASSUME UNCHANGED tickVars, era' = 0 => era = 0 /\ UNCHANGED table
        PROVE  ReservationInv'
    <2>1. UNCHANGED <<tpc, todo, claim, delivered, actions>>
      BY <1>1 DEF tickVars
    <2> QED BY <1>1, <2>1, ReservationStays DEF Owns
  <1>2. ASSUME NEW t \in Ticks, Tick(t)
        PROVE  ReservationInv'
    BY <1>2, TickReservation DEF Tick
  <1>3. ASSUME NEW r \in Replies, ReplyRequest(r) \/ ReplyRun(r)
        PROVE  ReservationInv'
    BY <1>1, <1>3, ArriveTypes, ReplyStore DEF ReplyRequest, ReplyRun, convVars
  <1>4. CASE Teardown
    <2>1. UNCHANGED <<table, era>> \/ era' = era + 1
      BY <1>4
         DEF Teardown, TeardownStart, TeardownConversations, TeardownSuppression,
             ReplaceConversations, convVars
    <2>2. era \in Nat
      BY DEF TypeInv, TypeOK
    <2> QED BY <1>1, <1>4, <2>1, <2>2 DEF Teardown
  <1>5. CASE UNCHANGED vars
    BY <1>1, <1>5 DEF vars, convVars
  <1> QED BY <1>2, <1>3, <1>4, <1>5 DEF Next, Finished

\* A conversation id that a tick works for is that tick's own, and no action was emitted
\* for it.
THEOREM ReservationInvariant == Spec => []ReservationInv
  <1>1. Init => ReservationInv
    BY DEF Init, ConvInit, TickInit, ReservationInv, OwnersHold, OwnersApart, EmittedHold,
           OneActionPerConversation, ReservationsAccountedFor, Emitted, Owns, IsReserved
  <1>2. TypeInv /\ ReservationInv /\ [Next]_vars => ReservationInv'
    BY ReservationNext
  <1> QED BY <1>1, <1>2, TypeInvariant, PTL DEF Spec

\* Concurrent and later ticks never open a conversation twice, for any number of ticks,
\* triggers and trigger lists.
THEOREM OpenedOnce == Spec => []OneActionPerConversation
  <1>1. ReservationInv => OneActionPerConversation
    BY DEF ReservationInv
  <1> QED BY <1>1, ReservationInvariant, PTL

\* Every reservation belongs to an emitted action, to a tick that is working on it or to
\* a tick that failed while it was.
THEOREM NoReservationForgotten == Spec => []ReservationsAccountedFor
  <1>1. ReservationInv => ReservationsAccountedFor
    BY DEF ReservationInv
  <1> QED BY <1>1, ReservationInvariant, PTL

\* The reservation a tick works on stays its own: the argument of release's docstring,
\* which holds until the first teardown.
THEOREM OwnReservationKept == Spec => []OwnersKeepReservation
  <1>1. ReservationInv => OwnersKeepReservation
    BY DEF ReservationInv, OwnersHold, OwnersKeepReservation
  <1> QED BY <1>1, ReservationInvariant, PTL
-------------------------------------------------------------------------------
(***************************************************************************)
(* What the suppression store gives before the first teardown.             *)
(*                                                                         *)
(* A tick tests the store once, in decide, and acts on the answer several  *)
(* steps later.  KeyInv says what is still true by then: nothing of what   *)
(* the store held when the request arrived, and nothing this request       *)
(* emitted itself.  What other requests marked in between is not covered   *)
(* (KeySentOnce fails).                                                    *)
(***************************************************************************)

\* decide has said yes to the current trigger and its action is not emitted yet.
Decided(t) == tpc[t] = "reserve" \/ Owns(t)

\* What a tick saw when it arrived is still in the store, and its current trigger is none
\* of it.
StartRespected ==
    \A t \in Ticks :
        /\ usedAtStart[t] \subseteq usedKeys
        /\ optedAtStart[t] \subseteq optedOut
        /\ Decided(t) =>
              /\ <<MerchantOfTick(t), KeyOfTick(t)>> \notin usedAtStart[t]
              /\ MerchantOfTick(t) \notin optedAtStart[t]

\* A tick emits its actions one after the other, each for a key of its own.
OwnKeysFresh ==
    /\ \A a \in Emitted : tpc[a.tick] # "idle"
    /\ \A a \in Emitted, t \in Ticks :
          /\ Decided(t)
          /\ a.tick = t
          /\ MerchantOf[a.trigger] = MerchantOfTick(t)
          /\ KeyOf[a.trigger] = KeyOfTick(t)
          => KeyOfTick(t) = NoKey

\* The suppression store is replaced after the conversation store only.
KeyInv ==
    /\ tearing = "suppression" => era # 0
    /\ era = 0 => StartRespected /\ OwnKeysFresh
    /\ EmittedMarksKey
    /\ KeysNotReused
    /\ OptOutRespected

-------------------------------------------------------------------------------

\* A step that decides and emits nothing; a request may arrive.
LEMMA KeysStay ==
  ASSUME KeyInv, tearing' = "suppression" => era' # 0,
         era' = 0 => era = 0 /\ usedKeys \subseteq usedKeys' /\ optedOut \subseteq optedOut',
         Emitted' = Emitted,
         \A a \in Emitted : a.tick \in Ticks,
         \A t \in Ticks : tpc'[t] = "idle" => tpc[t] = "idle",
         \A t \in Ticks : Decided(t)' => Decided(t) /\ todo'[t] = todo[t],
         \A t \in Ticks :
            \/ usedAtStart'[t] = usedAtStart[t] /\ optedAtStart'[t] = optedAtStart[t]
            \/ tpc[t] = "idle" /\ usedAtStart'[t] = usedKeys /\ optedAtStart'[t] = optedOut
  PROVE  KeyInv'
  <1> SUFFICES ASSUME era' = 0 PROVE KeyInv'
    BY DEF KeyInv, EmittedMarksKey, KeysNotReused, OptOutRespected
  <1>1. era = 0 /\ usedKeys \subseteq usedKeys' /\ optedOut \subseteq optedOut'
    OBVIOUS
  <1>2. StartRespected /\ OwnKeysFresh
    BY <1>1 DEF KeyInv
  <1>3. \A t \in Ticks : Decided(t)' =>
          /\ Decided(t) /\ tpc[t] # "idle"
          /\ MerchantOfTick(t)' = MerchantOfTick(t)
          /\ KeyOfTick(t)' = KeyOfTick(t)
    BY DEF Decided, Owns, MerchantOfTick, KeyOfTick, Current
  <1>4. StartRespected'
    BY <1>1, <1>2, <1>3 DEF StartRespected
  <1>5. OwnKeysFresh'
    BY <1>2, <1>3 DEF OwnKeysFresh
  <1>6. \A a \in Emitted : /\ usedAtStart'[a.tick] = usedAtStart[a.tick]
                           /\ optedAtStart'[a.tick] = optedAtStart[a.tick]
    BY <1>2 DEF OwnKeysFresh
  <1>7. EmittedMarksKey'
    BY <1>1 DEF KeyInv, EmittedMarksKey
  <1>8. KeysNotReused'
    BY <1>1, <1>6 DEF KeyInv, KeysNotReused
  <1>9. OptOutRespected'
    BY <1>1, <1>6 DEF KeyInv, OptOutRespected
  <1> QED BY <1>4, <1>5, <1>7, <1>8, <1>9 DEF KeyInv

LEMMA EmittedTicks == TypeInv => \A a \in Emitted : a.tick \in Ticks
  BY DEF TypeInv, TypeOK, Emitted, Action

LEMMA DecideKeys ==
  ASSUME TypeInv, KeyInv, NEW t \in Ticks, TickDecide(t), UNCHANGED tearing
  PROVE  KeyInv'
  <1>1. /\ UNCHANGED <<todo, actions, delivered, usedAtStart, optedAtStart, era, usedKeys, optedOut>>
        /\ tpc[t] = "loop" /\ tpc'[t] = "reserve"
        /\ \A u \in Ticks \ {t} : tpc'[u] = tpc[u]
        /\ ~AlreadySuppressed(t)
    BY DEF TickDecide, MoreToDo, Goto, TypeInv, TypeOK, convVars, suppressionVars
  <1>2. /\ Emitted' = Emitted
        /\ \A u \in Ticks : /\ MerchantOfTick(u)' = MerchantOfTick(u)
                            /\ KeyOfTick(u)' = KeyOfTick(u)
                            /\ Decided(u)' => u = t \/ Decided(u)
    BY <1>1 DEF Emitted, MerchantOfTick, KeyOfTick, Current, Decided, Owns
  <1>3. /\ <<MerchantOfTick(t), KeyOfTick(t)>> \notin usedKeys
        /\ MerchantOfTick(t) \notin optedOut
    BY <1>1 DEF AlreadySuppressed, IsUsed, IsMerchantSuppressed
  <1> SUFFICES ASSUME era = 0 PROVE KeyInv'
    BY <1>1 DEF KeyInv, EmittedMarksKey, KeysNotReused, OptOutRespected
  <1>4. StartRespected'
    BY <1>1, <1>2, <1>3 DEF KeyInv, StartRespected
  \* An action of the same key would have marked it.
  <1>5. \A a \in Emitted : MerchantOf[a.trigger] = MerchantOfTick(t)
                             /\ KeyOf[a.trigger] = KeyOfTick(t) => KeyOfTick(t) = NoKey
    BY <1>3 DEF KeyInv, EmittedMarksKey
  <1>6. OwnKeysFresh'
    <2>1. \A a \in Emitted : tpc'[a.tick] # "idle"
      BY <1>1, EmittedTicks DEF KeyInv, OwnKeysFresh
    <2> QED BY <1>2, <1>5, <2>1 DEF KeyInv, OwnKeysFresh
  <1>7. EmittedMarksKey' /\ KeysNotReused' /\ OptOutRespected'
    BY <1>1, <1>2 DEF KeyInv, EmittedMarksKey, KeysNotReused, OptOutRespected
  <1> QED BY <1>1, <1>4, <1>6, <1>7 DEF KeyInv

LEMMA MarkKeys ==
  ASSUME TypeInv, KeyInv, NEW t \in Ticks, TickMark(t), UNCHANGED tearing
  PROVE  KeyInv'
  <1> DEFINE n == [tick |-> t, trigger |-> Current(t), body |-> draft[t], obj |-> claim[t]]
             m == MerchantOfTick(t)
             k == KeyOfTick(t)
  <1>1. /\ n.tick = t /\ MerchantOf[n.trigger] = m /\ KeyOf[n.trigger] = k
        /\ Decided(t)
    BY DEF MerchantOfTick, KeyOfTick, TickMark, Decided, Owns
  <1>2. /\ UNCHANGED <<delivered, usedAtStart, optedAtStart, era, optedOut>>
        /\ tpc'[t] = "loop"
        /\ \A u \in Ticks \ {t} : tpc'[u] = tpc[u] /\ todo'[u] = todo[u]
    BY DEF TickMark, MarkUsed, NextTrigger, Goto, TypeInv, TypeOK, convVars
  <1>3. usedKeys' = IF k = NoKey THEN usedKeys ELSE usedKeys \cup {<<m, k>>}
    BY DEF TickMark, MarkUsed
  <1>4. actions' = [actions EXCEPT ![t] = actions[t] \cup {n}]
    BY DEF TickMark
  <1> HIDE DEF n, m, k
  <1>5. Emitted' = Emitted \cup {n}
    <2>1. /\ actions'[t] = actions[t] \cup {n}
          /\ \A u \in Ticks \ {t} : actions'[u] = actions[u]
      BY <1>4 DEF TypeInv, TypeOK
    <2> QED BY <1>2, <2>1 DEF Emitted
  <1>6. \A u \in Ticks : Decided(u)' =>
          /\ u # t
          /\ Decided(u)
          /\ MerchantOfTick(u)' = MerchantOfTick(u)
          /\ KeyOfTick(u)' = KeyOfTick(u)
    BY <1>2 DEF Decided, Owns, MerchantOfTick, KeyOfTick, Current
  <1> SUFFICES ASSUME era = 0 PROVE KeyInv'
    BY <1>2 DEF KeyInv, EmittedMarksKey, KeysNotReused, OptOutRespected
  <1>7. StartRespected /\ OwnKeysFresh
    BY DEF KeyInv
  <1>8. StartRespected'
    BY <1>2, <1>3, <1>6, <1>7 DEF StartRespected
  <1>9. OwnKeysFresh'
    <2>1. \A a \in Emitted' : tpc'[a.tick] # "idle"
      BY <1>1, <1>2, <1>5, <1>7, EmittedTicks DEF OwnKeysFresh
    <2> QED BY <1>1, <1>5, <1>6, <1>7, <2>1 DEF OwnKeysFresh
  <1>10. EmittedMarksKey'
    BY <1>1, <1>2, <1>3, <1>5 DEF KeyInv, EmittedMarksKey
  <1>11. OptOutRespected'
    BY <1>1, <1>2, <1>5, <1>7 DEF KeyInv, OptOutRespected, StartRespected, m
  <1>12. KeysNotReused'
    <2>1. \A a \in Emitted' : <<MerchantOf[a.trigger], KeyOf[a.trigger]>> \notin usedAtStart[a.tick]
      BY <1>1, <1>2, <1>5, <1>7 DEF KeyInv, KeysNotReused, StartRespected, m, k
    <2>2. \A a \in Emitted : a.tick = t /\ MerchantOf[a.trigger] = m /\ KeyOf[a.trigger] = k
                               => k = NoKey
      BY <1>1, <1>7 DEF OwnKeysFresh, m, k
    <2>3. ASSUME NEW a \in Emitted', NEW b \in Emitted', b.tick = a.tick,
                 MerchantOf[b.trigger] = MerchantOf[a.trigger],
                 KeyOf[b.trigger] = KeyOf[a.trigger], KeyOf[a.trigger] # NoKey
          PROVE  a = b
      <3>1. CASE a \in Emitted /\ b \in Emitted
        BY <2>3, <3>1 DEF KeyInv, KeysNotReused
      <3>2. CASE a = n /\ b = n
        BY <3>2
      <3>3. CASE (a = n /\ b \in Emitted) \/ (a \in Emitted /\ b = n)
        BY <1>1, <2>2, <2>3, <3>3
      <3> QED BY <1>5, <3>1, <3>2, <3>3
    <2> QED BY <1>2, <2>1, <2>3 DEF KeysNotReused
  <1> QED BY <1>2, <1>8, <1>9, <1>10, <1>11, <1>12 DEF KeyInv

LEMMA TickKeys ==
  ASSUME TypeInv, KeyInv, NEW t \in Ticks, TickArrive(t) \/ TickStep(t), UNCHANGED tearing
  PROVE  KeyInv'
  <1>1. /\ \A u \in Ticks \ {t} : tpc'[u] = tpc[u] /\ todo'[u] = todo[u]
        /\ UNCHANGED <<era, optedOut>>
    <2>1. UNCHANGED <<era, optedOut>>
      BY TickStore
    <2> QED
      BY <2>1 DEF TickStep, TickArrive, TickSkip, TickDecide, TickDecideRaises, TickReserve,
           TickCompose, TickComposeRaises, TickRelease, TickAttach, TickMark, TickRespond,
           NextTrigger, Goto, TypeInv, TypeOK
  <1>2. CASE TickArrive(t)
    <2>1. /\ UNCHANGED <<delivered, actions, usedKeys>>
          /\ tpc[t] = "idle" /\ tpc'[t] = "loop"
          /\ usedAtStart'[t] = usedKeys /\ optedAtStart'[t] = optedOut
          /\ \A u \in Ticks \ {t} : /\ usedAtStart'[u] = usedAtStart[u]
                                    /\ optedAtStart'[u] = optedAtStart[u]
      BY <1>2 DEF TickArrive, Goto, TypeInv, TypeOK, suppressionVars
    <2>2. Emitted' = Emitted
      BY <2>1 DEF Emitted
    <2>3. \A u \in Ticks : Decided(u)' => Decided(u) /\ todo'[u] = todo[u]
      BY <1>1, <2>1 DEF Decided, Owns
    <2>4. \A u \in Ticks : tpc'[u] = "idle" => tpc[u] = "idle"
      BY <1>1, <2>1
    <2>5. tearing' = "suppression" => era' # 0
      BY <1>1 DEF KeyInv
    <2> QED BY <1>1, <2>1, <2>2, <2>3, <2>4, <2>5, EmittedTicks, KeysStay
  <1>3. CASE TickStep(t) /\ ~TickDecide(t) /\ ~TickMark(t)
    <2>1. UNCHANGED <<usedKeys, usedAtStart, optedAtStart>>
      BY <1>3
         DEF TickStep, TickSkip, TickDecideRaises, TickReserve, TickCompose,
             TickComposeRaises, TickRelease, TickAttach, TickRespond, suppressionVars
    <2>2. Emitted' = Emitted
      <3>1. CASE TickRespond(t)
        BY <3>1 DEF TickRespond, Emitted
      <3>2. CASE UNCHANGED <<delivered, actions>>
        BY <3>2 DEF Emitted
      <3> QED
        BY <1>3, <3>1, <3>2
           DEF TickStep, TickSkip, TickDecideRaises, TickReserve, TickCompose,
               TickComposeRaises, TickRelease, TickAttach
    <2>3. tpc[t] # "idle" /\ tpc'[t] # "idle" /\ (Decided(t)' => Decided(t) /\ todo' = todo)
      BY <1>3
         DEF TickStep, TickSkip, TickDecideRaises, TickReserve, TickCompose, MoreToDo,
             TickComposeRaises, TickRelease, TickAttach, TickRespond, NextTrigger, Goto,
             Decided, Owns, TypeInv, TypeOK
    <2>4. \A u \in Ticks : Decided(u)' => Decided(u) /\ todo'[u] = todo[u]
      BY <1>1, <2>3 DEF Decided, Owns
    <2>5. \A u \in Ticks : tpc'[u] = "idle" => tpc[u] = "idle"
      BY <1>1, <2>3
    <2>6. tearing' = "suppression" => era' # 0
      BY <1>1 DEF KeyInv
    <2> QED BY <1>1, <2>1, <2>2, <2>4, <2>5, <2>6, EmittedTicks, KeysStay
  <1> QED BY <1>2, <1>3, DecideKeys, MarkKeys

LEMMA KeyNext == TypeInv /\ KeyInv /\ [Next]_vars => KeyInv'
  <1> SUFFICES ASSUME TypeInv, KeyInv, [Next]_vars PROVE KeyInv'
    OBVIOUS
  <1>1. ASSUME UNCHANGED tickVars, tearing' = "suppression" => era' # 0,
               era' = 0 => era = 0 /\ usedKeys \subseteq usedKeys' /\ optedOut \subseteq optedOut'
        PROVE  KeyInv'
    <2>1. UNCHANGED <<tpc, todo, actions, delivered, usedAtStart, optedAtStart>>
      BY <1>1 DEF tickVars
    <2>2. Emitted' = Emitted
      BY <2>1 DEF Emitted
    <2>3. \A t \in Ticks : Decided(t)' => Decided(t)
      BY <2>1 DEF Decided, Owns
    <2> QED BY <1>1, <2>1, <2>2, <2>3, EmittedTicks, KeysStay
  <1>2. ASSUME NEW t \in Ticks, Tick(t)
        PROVE  KeyInv'
    BY <1>2, TickKeys DEF Tick
  <1>3. ASSUME NEW r \in Replies, ReplyRequest(r)
        PROVE  KeyInv'
    BY <1>1, <1>3, ArriveTypes DEF ReplyRequest, convVars, suppressionVars, KeyInv
  <1>4. ASSUME NEW r \in Replies, ReplyRun(r)
        PROVE  KeyInv'
    <2>1. UNCHANGED <<era, usedKeys, tickVars, tearing>>
      BY <1>4, ReplyStore DEF ReplyRun
    <2>2. optedOut \subseteq optedOut'
      BY <1>4
         DEF ReplyRun, ReplyStep, ReplyTurnLock, ReplyAcquire, ReplyAlreadyEnded, ReplyClassify,
             ReplyWait, ReplyEnd, ReplySuppress, ReplyNoContext, ReplyToCompose, ReplyCompose,
             ReplyReject, ReplyPassVet, ReplySend, SuppressMerchant, suppressionVars
    <2> QED BY <1>1, <2>1, <2>2 DEF KeyInv
  <1>5. CASE Teardown
    <2>1. UNCHANGED tickVars /\ era \in Nat
      BY <1>5 DEF Teardown, TypeInv, TypeOK
    <2>2. CASE TeardownStart
      BY <1>1, <2>1, <2>2 DEF TeardownStart, convVars, suppressionVars
    <2>3. CASE TeardownConversations
      BY <1>1, <2>1, <2>3 DEF TeardownConversations, ReplaceConversations
    <2>4. CASE TeardownSuppression
      BY <1>1, <2>1, <2>4 DEF TeardownSuppression, convVars, KeyInv
    <2> QED BY <1>5, <2>2, <2>3, <2>4 DEF Teardown
  <1>6. CASE UNCHANGED vars
    BY <1>1, <1>6 DEF vars, convVars, suppressionVars, KeyInv
  <1> QED BY <1>2, <1>3, <1>4, <1>5, <1>6 DEF Next, Finished

\* What decide tested still holds when the action is emitted, as far as the request's own
\* actions and what it found on arrival go.
THEOREM KeyInvariant == Spec => []KeyInv
  <1>1. Init => KeyInv
    <2>1. Init => Emitted = {}
      BY DEF Init, TickInit, Emitted
    <2>2. Init => StartRespected
      BY DEF Init, TickInit, StartRespected, Decided, Owns
    <2> QED BY <2>1, <2>2 DEF Init, KeyInv, OwnKeysFresh, EmittedMarksKey, KeysNotReused,
                              OptOutRespected
  <1>2. TypeInv /\ KeyInv /\ [Next]_vars => KeyInv'
    BY KeyNext
  <1> QED BY <1>1, <1>2, TypeInvariant, PTL DEF Spec

\* Every emitted action's key is in the store, whatever else runs.
THEOREM KeysMarked == Spec => []EmittedMarksKey
  <1>1. KeyInv => EmittedMarksKey
    BY DEF KeyInv
  <1> QED BY <1>1, KeyInvariant, PTL

\* No tick acts on a key that was used when it arrived, nor twice on one key.
THEOREM KeysSpentOnce == Spec => []KeysNotReused
  <1>1. KeyInv => KeysNotReused
    BY DEF KeyInv
  <1> QED BY <1>1, KeyInvariant, PTL

\* No tick acts for a merchant that had opted out when it arrived.
THEOREM OptOutHonoured == Spec => []OptOutRespected
  <1>1. KeyInv => OptOutRespected
    BY DEF KeyInv
  <1> QED BY <1>1, KeyInvariant, PTL
==============================================================================

----------------------------- MODULE ReplyProofs -----------------------------
(***************************************************************************)
(* What the turn lock buys the replies of a conversation, for any number   *)
(* of replies, messages and bodies, before the first teardown.             *)
(*                                                                         *)
(* A reply reads the conversation in one step and writes it in a later     *)
(* one.  TurnFacts says what it may still believe in between: OneTurnAt-   *)
(* ATime keeps the other replies off the object, and ticks only attach a   *)
(* brief.                                                                  *)
(***************************************************************************)
EXTENDS EngineProofs, SerialEngine

\* What a reply in its turn knows of its conversation.
TurnFacts(r) ==
    /\ rpc[r] \in {"apply", "compose", "vet", "record"} => Conv(r).status # "ended"
    /\ rpc[r] = "apply" /\ verdict[r].action = "wait" => Conv(r).hits = 0
    /\ rpc[r] = "record" => composed[r] \notin Conv(r).sent

\* What an answer has left behind in the conversation.
AnswerFacts(r) ==
    /\ rpc[r] # "done" => answer[r] = NoAnswer
    /\ answer[r].why = "policy" => req[r].obj \in DOMAIN heap
    /\ Answered(r, "wait") \/ Answered(r, "send") => answer[r].why = "policy"
    /\ Answered(r, "wait") => Conv(r).hits > 0
    /\ Answered(r, "send") => answer[r].body \in Conv(r).sent

TurnInv ==
    /\ era = 0 => \A r \in Replies : TurnFacts(r) /\ AnswerFacts(r)
    /\ BackOffOnce
    /\ RepliesNeverRepeat
    /\ HostileEndOptsOut

\* Every message the conversation of r has classified so far is a copy of that of r: the
\* first of them is the only one that is not a repeat.
Alike(r) ==
    \A q \in Replies :
        verdict[q].action # "none" /\ req[q].obj = req[r].obj => req[q].msg = req[r].msg

CopyFacts(r) ==
    /\ rpc[r] = "idle" => req[r] = NoRequest
    /\ rpc[r] \in {"idle", "found", "acquire", "locked"} => verdict[r].action = "none"
    /\ rpc[r] \in {"compose", "vet", "record"} => verdict[r].action = "send"
    /\ Answered(r, "send") => verdict[r].action = "send"
    /\ verdict[r].action # "none" =>
          /\ req[r].obj \in DOMAIN heap
          /\ Alike(r) => Conv(r).last = req[r].msg

OneIsNew ==
    \A r, s \in Replies :
        /\ verdict[r].action = "send"
        /\ verdict[s].action = "send"
        /\ req[r].obj = req[s].obj
        /\ Alike(r)
        => r = s

CopyInv == era = 0 => (\A r \in Replies : CopyFacts(r)) /\ OneIsNew

\* An action can be answered once its conversation has a brief.
BriefInv ==
    /\ era = 0 => \A t \in Ticks : tpc[t] = "mark" => heap[claim[t]].brief
    /\ era = 0 => \A a \in Emitted : heap[a.obj].brief
    /\ era = 0 => \A r \in Replies : answered[r] \subseteq Emitted
    /\ SolicitedRepliesHaveContext

-------------------------------------------------------------------------------
(***************************************************************************)
(* What the steps do to the objects.                                       *)
(***************************************************************************)

\* Of the fields a reply works on, nothing is lost.
Kept(o) ==
    /\ heap'[o].merchant = heap[o].merchant
    /\ heap'[o].status = heap[o].status
    /\ heap'[o].hits = heap[o].hits
    /\ heap'[o].last = heap[o].last
    /\ heap'[o].sent = heap[o].sent
    /\ heap[o].brief => heap'[o].brief

LEMMA TickObjects ==
  ASSUME TypeInv, NEW t \in Ticks, TickArrive(t) \/ TickStep(t)
  PROVE  \A o \in DOMAIN heap : Kept(o)
  <1>1. heap \in Seq(ConversationState)
    BY DEF TypeInv, TypeOK
  <1>2. CASE TickReserve(t)
    <2>1. CASE Reserve(ConvOfTick(t), MerchantOfTick(t))
      <3>1. ConvOfTick(t) \in Convs /\ MerchantOfTick(t) \in Merchants
        BY <1>2, CurrentTrigger DEF TypeInv, TicksFormed, TickReserve
      <3>2. NewConversation(ConvOfTick(t), MerchantOfTick(t)) \in ConversationState
        BY <3>1 DEF NewConversation, ConversationState, Status
      <3>3. \A o \in DOMAIN heap : heap'[o] = heap[o]
        BY <1>1, <2>1, <3>2, AppendProperties, LenProperties DEF Reserve
      <3> QED BY <3>3 DEF Kept
    <2>2. CASE heap' = heap
      BY <2>2 DEF Kept
    <2> QED BY <1>2, <2>1, <2>2 DEF TickReserve, convVars
  <1>3. CASE TickAttach(t) /\ IsReserved(ConvOfTick(t))
    <2> DEFINE p == table[ConvOfTick(t)]
               v == [heap[p] EXCEPT !.brief = TRUE]
    <2>1. heap' = [heap EXCEPT ![p] = v]
      BY <1>3 DEF TickAttach, AttachBrief
    <2>2. ASSUME NEW o \in DOMAIN heap, o = p
          PROVE  Kept(o)
      <3>1. heap[o] \in ConversationState
        BY HeapObject DEF TypeInv
      <3>2. heap'[o] = v
        BY <2>1, <2>2
      <3> QED BY <2>2, <3>1, <3>2 DEF Kept, ConversationState
    <2>3. ASSUME NEW o \in DOMAIN heap, o # p
          PROVE  Kept(o)
      BY <2>1, <2>3 DEF Kept
    <2> QED BY <2>2, <2>3
  <1>4. CASE heap' = heap
    BY <1>4 DEF Kept
  <1> QED
    BY <1>2, <1>3, <1>4
       DEF TickStep, TickArrive, TickSkip, TickDecide, TickDecideRaises, TickCompose, TickAttach,
           TickComposeRaises, TickRelease, TickMark, TickRespond, Release, AttachBrief, convVars

\* A reply writes its own object and no other.
LEMMA ReplyWrites ==
  ASSUME TypeInv, NEW r \in Replies, ReplyStep(r)
  PROVE  /\ req[r].obj \in DOMAIN heap
         /\ heap[req[r].obj] \in ConversationState
         /\ rpc[r] \notin {"idle", "done"}
         /\ \A o \in DOMAIN heap : o # req[r].obj => heap'[o] = heap[o]
  <1>1. rpc[r] \notin {"idle", "done"}
    BY DEF ReplyStep, ReplyTurnLock, ReplyAcquire, ReplyAlreadyEnded, ReplyClassify, ReplyWait,
           ReplyEnd, ReplySuppress, ReplyNoContext, ReplyToCompose, ReplyCompose, ReplyReject,
           ReplyPassVet, ReplySend
  <1>2. req[r].obj \in DOMAIN heap
    BY <1>1 DEF TypeInv, RequestsFormed
  <1>3. heap[req[r].obj] \in ConversationState
    BY <1>2, HeapObject DEF TypeInv
  <1>4. ASSUME NEW o \in DOMAIN heap, o # req[r].obj
        PROVE  heap'[o] = heap[o]
    BY <1>4
       DEF ReplyStep, ReplyTurnLock, ReplyAcquire, ReplyAlreadyEnded, ReplyClassify, ReplyWait,
           ReplyEnd, ReplySuppress, ReplyNoContext, ReplyToCompose, ReplyCompose, ReplyReject,
           ReplyPassVet, ReplySend, End, SetConv, convVars
  <1> QED BY <1>1, <1>2, <1>3, <1>4

\* What an answer of the past relied on is not undone.
Grown(o) ==
    /\ heap'[o].merchant = heap[o].merchant
    /\ heap[o].hits > 0 => heap'[o].hits > 0
    /\ heap[o].sent \subseteq heap'[o].sent
    /\ heap[o].brief => heap'[o].brief

LEMMA EndFields ==
  ASSUME TypeInv, NEW r \in Replies, req[r].obj \in DOMAIN heap, Conv(r) \in ConversationState,
         End(r)
  PROVE  /\ heap'[req[r].obj].merchant = Conv(r).merchant
         /\ heap'[req[r].obj].hits = Conv(r).hits
         /\ heap'[req[r].obj].sent = Conv(r).sent
         /\ heap'[req[r].obj].brief = Conv(r).brief
         /\ heap'[req[r].obj].status = "ended"
  <1>1. heap'[req[r].obj] = [Conv(r) EXCEPT !.status = "ended"]
    BY DEF End, SetConv, Conv
  <1> QED BY <1>1 DEF ConversationState

LEMMA NoAnswerFields ==
  ASSUME NEW STATE a, a = NoAnswer
  PROVE  a.action = "none" /\ a.why = ""
  BY DEF NoAnswer

LEMMA ReplyOwn ==
  ASSUME TypeInv, TurnInv, era = 0, NEW r \in Replies, ReplyStep(r)
  PROVE  TurnFacts(r)' /\ AnswerFacts(r)' /\ Grown(req[r].obj)
  <1> DEFINE o == req[r].obj
  <1>1. /\ o \in DOMAIN heap
        /\ o \in DOMAIN heap'
        /\ Conv(r) \in ConversationState
        /\ Conv(r) = heap[o]
        /\ rpc[r] \notin {"idle", "done"}
    <2>1. HeapGrows
      BY ReplyHeap
    <2>2. heap \in Seq(ConversationState) /\ heap' \in Seq(ConversationState)
      BY <2>1 DEF TypeInv, TypeOK, HeapGrows
    <2>3. DOMAIN heap \subseteq DOMAIN heap'
      BY <2>1, <2>2, LenProperties DEF HeapGrows
    <2> QED BY <2>3, ReplyWrites DEF Conv
  <1>2. answer[r] = NoAnswer /\ TurnFacts(r)
    BY <1>1 DEF TurnInv, AnswerFacts
  <1> HIDE DEF o
  <1>3. ASSUME NEW label \in ReplyPC, ReplyGoto(r, label)
        PROVE  rpc'[r] = label
    BY <1>3 DEF ReplyGoto, TypeInv, TypeOK
  <1>4. ASSUME NEW action, NEW body, NEW why, Return(r, action, body, why)
        PROVE  /\ rpc'[r] = "done"
               /\ answer'[r].action = action
               /\ answer'[r].body = body
               /\ answer'[r].why = why
    <2>1. /\ rpc'[r] = "done"
          /\ answer'[r] = [action |-> action, body |-> body, why |-> why]
      BY <1>4 DEF Return, Respond, ReplyGoto, TypeInv, TypeOK
    <2> QED BY <2>1
  <1>5. ASSUME rpc'[r] # "done", answer' = answer
        PROVE  AnswerFacts(r)'
    <2>1. answer'[r] = NoAnswer /\ answer'[r].action = "none" /\ answer'[r].why = ""
      BY <1>2, <1>5, NoAnswerFields
    <2> QED BY <2>1 DEF AnswerFacts, Answered
  \* An answer other than a wait or a send asserts nothing of the conversation.
  <1>6. ASSUME NEW body, NEW why, Return(r, "end", body, why), UNCHANGED req
        PROVE  TurnFacts(r)' /\ AnswerFacts(r)'
    <2>1. rpc'[r] = "done" /\ answer'[r].action = "end" /\ req'[r].obj \in DOMAIN heap'
      BY <1>1, <1>4, <1>6 DEF o
    <2> QED BY <2>1 DEF TurnFacts, AnswerFacts, Answered
  <1>7. CASE ReplyTurnLock(r)
    <2>1. req'[r].obj = o /\ heap' = heap /\ rpc'[r] = "acquire" /\ answer' = answer
      <3>1. req[r] \in Request
        BY <1>1 DEF TypeInv, RequestsFormed
      <3>2. req'[r] = [req[r] EXCEPT !.lock = TurnLock(req[r].conv)]
        BY <1>7 DEF ReplyTurnLock, TypeInv, TypeOK
      <3> QED BY <1>3, <1>7, <3>1, <3>2 DEF ReplyTurnLock, ReplyPC, Request, convVars, o
    <2> QED BY <1>5, <2>1 DEF TurnFacts, Grown
  <1>8. CASE ReplyAcquire(r)
    <2>1. rpc'[r] = "locked" /\ answer' = answer /\ heap' = heap
      BY <1>3, <1>8 DEF ReplyAcquire, ReplyPC
    <2> QED BY <1>5, <2>1 DEF TurnFacts, Grown
  <1>9. CASE ReplyAlreadyEnded(r)
    <2>1. heap' = heap
      BY <1>9 DEF ReplyAlreadyEnded
    <2> QED BY <1>6, <1>9, <2>1 DEF ReplyAlreadyEnded, Grown
  <1>10. CASE ReplyClassify(r)
    <2>1. rpc'[r] = "apply" /\ answer' = answer /\ req' = req /\ Conv(r).status # "ended"
      BY <1>3, <1>10 DEF ReplyClassify, ReplyPC
    <2>2. heap'[o] = [heap[o] EXCEPT !.last = req[r].msg]
      BY <1>1, <1>10 DEF ReplyClassify, SetConv, o
    <2>3. /\ heap'[o].status = heap[o].status /\ heap'[o].hits = heap[o].hits
          /\ heap'[o].sent = heap[o].sent /\ heap'[o].merchant = heap[o].merchant
          /\ heap'[o].brief = heap[o].brief
      BY <1>1, <2>2 DEF ConversationState
    <2>4. verdict'[r].action = "wait" => heap[o].hits = 0
      <3>1. verdict'[r] = DecideReply(req[r].msg, Conv(r).last, Conv(r).hits)
        BY <1>10 DEF ReplyClassify, TypeInv, TypeOK
      <3> QED BY <1>1, <3>1 DEF DecideReply, ClassifyKind
    <2> QED BY <1>1, <1>5, <2>1, <2>3, <2>4 DEF TurnFacts, Grown, Conv, o
  <1>11. CASE ReplyWait(r)
    <2>1. Return(r, "wait", NoBody, "policy") /\ req' = req
      BY <1>11 DEF ReplyWait
    <2>2. heap'[o] = [heap[o] EXCEPT !.hits = heap[o].hits + 1, !.status = "waiting"]
      BY <1>1, <1>11 DEF ReplyWait, Conv, o
    <2>3. /\ heap'[o].hits = heap[o].hits + 1
          /\ heap'[o].sent = heap[o].sent /\ heap'[o].merchant = heap[o].merchant
          /\ heap'[o].brief = heap[o].brief
      BY <1>1, <2>2 DEF ConversationState
    <2>4. heap'[o].hits > 0
      BY <1>1, <2>3 DEF ConversationState
    <2>5. /\ rpc'[r] = "done" /\ req'[r].obj = o
          /\ answer'[r].action = "wait" /\ answer'[r].why = "policy"
      BY <1>4, <2>1 DEF o
    <2> QED BY <1>1, <2>3, <2>4, <2>5 DEF TurnFacts, AnswerFacts, Answered, Grown, Conv, o
  <1>12. ASSUME End(r)
         PROVE  Grown(o) /\ heap'[o].status = "ended"
    BY <1>1, <1>12, EndFields DEF Grown, Conv, o
  <1>13. CASE ReplyEnd(r)
    <2>1. CASE ReplyGoto(r, "suppress") /\ UNCHANGED <<answer, table, era, held>>
      <3>1. rpc'[r] = "suppress"
        BY <1>3, <2>1 DEF ReplyPC
      <3> QED BY <1>5, <1>12, <1>13, <2>1, <3>1 DEF ReplyEnd, TurnFacts, o
    <2>2. CASE Return(r, "end", NoBody, "policy")
      BY <1>6, <1>12, <1>13, <2>2 DEF ReplyEnd, o
    <2> QED BY <1>13, <2>1, <2>2 DEF ReplyEnd
  <1>14. CASE ReplySuppress(r)
    <2>1. heap' = heap
      BY <1>14 DEF ReplySuppress
    <2> QED BY <1>6, <1>14, <2>1 DEF ReplySuppress, Grown
  <1>15. CASE ReplyNoContext(r)
    BY <1>6, <1>12, <1>15 DEF ReplyNoContext, o
  <1>16. CASE ReplyToCompose(r)
    <2>1. rpc[r] = "apply" /\ rpc'[r] = "compose" /\ answer' = answer /\ heap' = heap /\ req' = req
      BY <1>3, <1>16 DEF ReplyToCompose, ReplyPC, convVars
    <2> QED BY <1>2, <1>5, <2>1 DEF TurnFacts, Grown, Conv
  <1>17. CASE ReplyCompose(r)
    <2>1. rpc[r] = "compose" /\ rpc'[r] = "vet" /\ answer' = answer /\ heap' = heap /\ req' = req
      BY <1>3, <1>17 DEF ReplyCompose, ReplyPC, convVars
    <2> QED BY <1>2, <1>5, <2>1 DEF TurnFacts, Grown, Conv
  <1>18. CASE ReplyReject(r)
    <2>1. Grown(o)
      BY <1>12, <1>18 DEF ReplyReject
    <2> QED BY <1>6, <1>18, <2>1 DEF ReplyReject, o
  <1>19. CASE ReplyPassVet(r)
    <2>1. /\ rpc[r] = "vet" /\ rpc'[r] = "record" /\ composed[r] \notin Conv(r).sent
          /\ UNCHANGED <<answer, heap, req, composed>>
      BY <1>3, <1>19 DEF ReplyPassVet, ReplyPC, convVars
    <2> QED BY <1>2, <1>5, <2>1 DEF TurnFacts, Grown, Conv
  <1>20. CASE ReplySend(r)
    <2>1. Return(r, "send", composed[r], "policy") /\ req' = req
      BY <1>20 DEF ReplySend
    <2>2. heap'[o] = [heap[o] EXCEPT !.sent = heap[o].sent \cup {composed[r]}]
      BY <1>1, <1>20 DEF ReplySend, SetConv, Conv, o
    <2>3. /\ heap'[o].hits = heap[o].hits
          /\ heap'[o].sent = heap[o].sent \cup {composed[r]}
          /\ heap'[o].merchant = heap[o].merchant
          /\ heap'[o].brief = heap[o].brief
      BY <1>1, <2>2 DEF ConversationState
    <2>4. /\ rpc'[r] = "done" /\ req'[r].obj = o
          /\ answer'[r].action = "send" /\ answer'[r].why = "policy"
          /\ answer'[r].body = composed[r]
      BY <1>4, <2>1 DEF o
    <2> QED BY <1>1, <2>3, <2>4 DEF TurnFacts, AnswerFacts, Answered, Grown, Conv, o
  <1> QED
    BY <1>7, <1>8, <1>9, <1>10, <1>11, <1>13, <1>14, <1>15, <1>16, <1>17, <1>18, <1>19, <1>20
       DEF ReplyStep, o

\* A reply writes its own variables, and the lock keeps the other turns off its object.
LEMMA ReplyApart ==
  ASSUME TypeInv, OneTurnAtATime, era = 0, NEW r \in Replies, ReplyStep(r),
         NEW s \in Replies, s # r
  PROVE  /\ UNCHANGED <<rpc[s], req[s], answer[s], verdict[s], composed[s]>>
         /\ InTurn(s) => UNCHANGED heap[req[s].obj]
  <1>1. UNCHANGED <<rpc[s], req[s], answer[s], verdict[s], composed[s]>>
    BY DEF ReplyStep, ReplyTurnLock, ReplyAcquire, ReplyAlreadyEnded, ReplyClassify, ReplyWait,
           ReplyEnd, ReplySuppress, ReplyNoContext, ReplyToCompose, ReplyCompose, ReplyReject,
           ReplyPassVet, ReplySend, Return, Respond, ReplyGoto, TypeInv, TypeOK
  <1>2. InTurn(r) \/ heap' = heap
    BY DEF ReplyStep, ReplyTurnLock, ReplyAcquire, ReplyAlreadyEnded, ReplyClassify, ReplyWait,
           ReplyEnd, ReplySuppress, ReplyNoContext, ReplyToCompose, ReplyCompose, ReplyReject,
           ReplyPassVet, ReplySend, InTurn, convVars
  <1>3. ASSUME InTurn(s)
        PROVE  heap'[req[s].obj] = heap[req[s].obj]
    <2>1. req[s].obj \in DOMAIN heap
      BY <1>3 DEF InTurn, TypeInv, RequestsFormed
    <2>2. CASE InTurn(r)
      <3>1. req[s].obj # req[r].obj
        BY <1>3, <2>2 DEF OneTurnAtATime
      <3> QED BY <2>1, <3>1, ReplyWrites
    <2>3. CASE heap' = heap
      BY <2>3
    <2> QED BY <1>2, <2>2, <2>3
  <1> QED BY <1>1, <1>3

\* What a reply did to the past of the other replies: nothing.
LEMMA ReplyOthers ==
  ASSUME TypeInv, TurnInv, OneTurnAtATime, era = 0, NEW r \in Replies, ReplyStep(r),
         NEW s \in Replies, s # r
  PROVE  /\ TurnFacts(s)' /\ AnswerFacts(s)'
         /\ UNCHANGED <<req[s], answer[s], verdict[s]>>
  <1>1. UNCHANGED <<rpc[s], req[s], answer[s], verdict[s], composed[s]>>
    BY ReplyApart
  <1>2. TurnFacts(s) /\ AnswerFacts(s)
    BY DEF TurnInv
  <1>4. InTurn(s) => heap'[req[s].obj] = heap[req[s].obj]
    BY <1>1, ReplyApart
  <1>5. \A o \in DOMAIN heap : Grown(o)
    BY ReplyWrites, ReplyOwn DEF Grown
  <1>6. TurnFacts(s)'
    BY <1>1, <1>2, <1>4 DEF TurnFacts, Conv, InTurn
  <1>7. AnswerFacts(s)'
    <2>1. \A o \in DOMAIN heap : o \in DOMAIN heap'
      <3>1. HeapGrows
        BY ReplyHeap
      <3>2. heap \in Seq(ConversationState) /\ heap' \in Seq(ConversationState)
        BY <3>1 DEF TypeInv, TypeOK, HeapGrows
      <3> QED BY <3>1, <3>2, LenProperties DEF HeapGrows
    <2>2. Answered(s, "wait") \/ Answered(s, "send") => req[s].obj \in DOMAIN heap
      BY <1>2 DEF AnswerFacts
    <2> QED BY <1>1, <1>2, <1>5, <2>1, <2>2 DEF AnswerFacts, Answered, Conv, Grown
  <1> QED BY <1>1, <1>6, <1>7

\* ReplyTurnLock writes the lock of its request and nothing else of it.
LEMMA ReplyKeepsObject ==
  ASSUME TypeInv, NEW r \in Replies, ReplyStep(r)
  PROVE  req'[r].obj = req[r].obj
  <1>1. CASE ReplyTurnLock(r)
    <2>1. req[r] \in Request
      BY ReplyWrites DEF TypeInv, RequestsFormed
    <2>2. req'[r] = [req[r] EXCEPT !.lock = TurnLock(req[r].conv)]
      BY <1>1 DEF ReplyTurnLock, TypeInv, TypeOK
    <2> QED BY <2>1, <2>2 DEF Request
  <1>2. CASE req' = req
    BY <1>2
  <1> QED
    BY <1>1, <1>2
       DEF ReplyStep, ReplyAcquire, ReplyAlreadyEnded, ReplyClassify, ReplyWait, ReplyEnd,
           ReplySuppress, ReplyNoContext, ReplyToCompose, ReplyCompose, ReplyReject,
           ReplyPassVet, ReplySend

\* Which action gives which answer.
LEMMA ReplyAnswers ==
  ASSUME TypeInv, TurnInv, era = 0, NEW r \in Replies, ReplyStep(r)
  PROVE  \/ answer'[r].action = "none"
         \/ answer'[r].action = "wait" /\ ReplyWait(r)
         \/ answer'[r].action = "send" /\ answer'[r].body = composed[r] /\ ReplySend(r)
         \/ answer'[r].action = "end" /\ answer'[r].why # "policy"
         \/ answer'[r].action = "end" /\ answer'[r].why = "policy" /\ ReplySuppress(r)
         \/ answer'[r].action = "end" /\ answer'[r].why = "policy" /\ ReplyEnd(r)
               /\ verdict[r].kind # "hostile_optout"
  <1>1. rpc[r] # "done" /\ answer[r] = NoAnswer
    BY ReplyWrites DEF TurnInv, AnswerFacts
  <1>2. answer[r].action = "none"
    BY <1>1, NoAnswerFields
  <1>3. ASSUME NEW action, NEW body, NEW why, Return(r, action, body, why)
        PROVE  answer'[r].action = action /\ answer'[r].body = body /\ answer'[r].why = why
    <2>1. answer'[r] = [action |-> action, body |-> body, why |-> why]
      BY <1>3 DEF Return, Respond, TypeInv, TypeOK
    <2> QED BY <2>1
  <1>4. CASE ReplyTurnLock(r) \/ ReplyAcquire(r) \/ ReplyClassify(r) \/ ReplyToCompose(r)
               \/ ReplyCompose(r) \/ ReplyPassVet(r)
    BY <1>2, <1>4
       DEF ReplyTurnLock, ReplyAcquire, ReplyClassify, ReplyToCompose, ReplyCompose,
           ReplyPassVet
  <1>5. CASE ReplyWait(r) \/ ReplySend(r)
    BY <1>3, <1>5 DEF ReplyWait, ReplySend
  <1>6. CASE ReplyAlreadyEnded(r) \/ ReplyNoContext(r)
    BY <1>3, <1>6 DEF ReplyAlreadyEnded, ReplyNoContext
  <1>7. CASE ReplyReject(r)
    <2>1. PICK why \in {"unsendable", "repeat"} : Return(r, "end", NoBody, why)
      BY <1>7 DEF ReplyReject
    <2> QED BY <1>3, <2>1
  <1>8. CASE ReplySuppress(r)
    BY <1>3, <1>8 DEF ReplySuppress
  <1>9. CASE ReplyEnd(r)
    <2>1. CASE answer' = answer
      BY <1>2, <2>1
    <2>2. CASE verdict[r].kind # "hostile_optout" /\ Return(r, "end", NoBody, "policy")
      BY <1>3, <1>9, <2>2
    <2> QED BY <1>9, <2>1, <2>2 DEF ReplyEnd
  <1> QED BY <1>4, <1>5, <1>6, <1>7, <1>8, <1>9 DEF ReplyStep

LEMMA ReplyTurns ==
  ASSUME TypeInv, TurnInv, OneTurnAtATime, NEW r \in Replies, ReplyStep(r)
  PROVE  TurnInv'
  <1>1. UNCHANGED era
    BY ReplyStore
  <1> SUFFICES ASSUME era = 0 PROVE TurnInv'
    BY <1>1 DEF TurnInv, BackOffOnce, RepliesNeverRepeat, HostileEndOptsOut
  <1>2. \A s \in Replies : TurnFacts(s)' /\ AnswerFacts(s)'
    BY ReplyOwn, ReplyOthers
  <1>3. \A s \in Replies \ {r} : UNCHANGED <<req[s], answer[s], verdict[s]>>
    BY ReplyOthers
  <1>4. req'[r].obj = req[r].obj
    BY ReplyKeepsObject
  <1>5. req[r].obj \in DOMAIN heap
    BY ReplyWrites
  <1>6. (Answered(r, "wait")' => ReplyWait(r)) /\ (Answered(r, "send")' => ReplySend(r))
    BY ReplyAnswers DEF Answered
  <1>7. BackOffOnce'
    <2>1. ASSUME NEW s \in Replies \ {r}, Answered(r, "wait")', Answered(s, "wait")',
                 req'[r].obj = req'[s].obj
          PROVE  FALSE
      <3>1. Conv(r).hits = 0
        BY <1>6, <2>1 DEF TurnInv, TurnFacts, ReplyWait
      <3>2. Answered(s, "wait") /\ Conv(s).hits > 0
        BY <1>3, <2>1 DEF TurnInv, AnswerFacts, Answered
      <3>3. Conv(s) = Conv(r)
        BY <1>3, <1>4, <2>1 DEF Conv
      <3> QED BY <3>1, <3>2, <3>3
    <2>2. ASSUME NEW s \in Replies \ {r}, NEW u \in Replies \ {r}, Answered(s, "wait")',
                 Answered(u, "wait")', req'[s].obj = req'[u].obj
          PROVE  s = u
      BY <1>3, <2>2 DEF TurnInv, BackOffOnce, Answered
    <2> QED BY <2>1, <2>2 DEF BackOffOnce
  <1>8. RepliesNeverRepeat'
    <2>1. ASSUME NEW s \in Replies \ {r}, Answered(r, "send")', Answered(s, "send")',
                 req'[r].obj = req'[s].obj, answer'[r].body = answer'[s].body
          PROVE  FALSE
      <3>1. composed[r] \notin Conv(r).sent /\ answer'[r].body = composed[r]
        BY <1>6, <2>1, ReplyAnswers DEF TurnInv, TurnFacts, Answered, ReplySend
      <3>2. Answered(s, "send") /\ answer[s].body \in Conv(s).sent
        BY <1>3, <2>1 DEF TurnInv, AnswerFacts, Answered
      <3>3. Conv(s) = Conv(r)
        BY <1>3, <1>4, <2>1 DEF Conv
      <3> QED BY <1>3, <2>1, <3>1, <3>2, <3>3
    <2>2. ASSUME NEW s \in Replies \ {r}, NEW u \in Replies \ {r}, Answered(s, "send")',
                 Answered(u, "send")', req'[s].obj = req'[u].obj,
                 answer'[s].body = answer'[u].body
          PROVE  s = u
      BY <1>3, <2>2 DEF TurnInv, RepliesNeverRepeat, Answered
    <2> QED BY <2>1, <2>2 DEF RepliesNeverRepeat
  <1>9. HostileEndOptsOut'
    <2>1. optedOut \subseteq optedOut'
      BY DEF ReplyStep, ReplyTurnLock, ReplyAcquire, ReplyAlreadyEnded, ReplyClassify,
             ReplyWait, ReplyEnd, ReplySuppress, ReplyNoContext, ReplyToCompose, ReplyCompose,
             ReplyReject, ReplyPassVet, ReplySend, SuppressMerchant, suppressionVars
    <2>2. \A o \in DOMAIN heap : heap'[o].merchant = heap[o].merchant
      BY ReplyWrites, ReplyOwn DEF Grown
    <2>3. ASSUME NEW s \in Replies \ {r}, Answered(s, "end")', answer'[s].why = "policy",
                 verdict'[s].kind = "hostile_optout"
          PROVE  Conv(s)'.merchant \in optedOut'
      <3>1. req[s].obj \in DOMAIN heap
        BY <1>3, <2>3 DEF TurnInv, AnswerFacts
      <3>2. Conv(s).merchant \in optedOut
        BY <1>3, <2>3 DEF TurnInv, HostileEndOptsOut, Answered
      <3> QED BY <1>3, <2>1, <2>2, <3>1, <3>2 DEF Conv
    <2>4. ASSUME Answered(r, "end")', answer'[r].why = "policy",
                 verdict'[r].kind = "hostile_optout"
          PROVE  Conv(r)'.merchant \in optedOut'
      <3>1. verdict' = verdict \/ ~ReplyEnd(r)
        BY DEF ReplyEnd
      <3>2. ReplySuppress(r)
        BY <2>4, <3>1, ReplyAnswers DEF Answered
      <3>3. Conv(r).merchant \in optedOut'
        BY <3>2 DEF ReplySuppress, SuppressMerchant
      <3> QED BY <1>4, <1>5, <2>2, <3>3 DEF Conv
    <2> QED BY <1>1, <2>3, <2>4 DEF HostileEndOptsOut
  <1> QED BY <1>2, <1>7, <1>8, <1>9 DEF TurnInv

LEMMA ObjectsStay ==
  ASSUME TypeInv, [Next]_vars
  PROVE  \A o \in DOMAIN heap : o \in DOMAIN heap'
  <1>1. HeapGrows
    BY NextHeap
  <1>2. heap \in Seq(ConversationState) /\ heap' \in Seq(ConversationState)
    BY <1>1 DEF TypeInv, TypeOK, HeapGrows
  <1> QED BY <1>1, <1>2, LenProperties DEF HeapGrows

\* A step of no reply.
LEMMA TurnsKept ==
  ASSUME TypeInv, TurnInv, [Next]_vars, UNCHANGED replyVars,
         era' = 0 => era = 0 /\ optedOut \subseteq optedOut',
         \A o \in DOMAIN heap : Kept(o)
  PROVE  TurnInv'
  <1>1. UNCHANGED <<rpc, req, verdict, composed, answer>>
    BY DEF replyVars
  <1> SUFFICES ASSUME era' = 0 PROVE TurnInv'
    BY DEF TurnInv, BackOffOnce, RepliesNeverRepeat, HostileEndOptsOut
  <1>2. era = 0 /\ optedOut \subseteq optedOut'
    OBVIOUS
  <1>3. ASSUME NEW r \in Replies
        PROVE  TurnFacts(r)'
    <2>1. rpc[r] \in {"apply", "compose", "vet", "record"} => req[r].obj \in DOMAIN heap
      BY DEF TypeInv, RequestsFormed
    <2> QED BY <1>1, <1>2, <2>1 DEF TurnInv, TurnFacts, Kept, Conv
  <1>4. ASSUME NEW r \in Replies
        PROVE  AnswerFacts(r)'
    <2>1. AnswerFacts(r)
      BY <1>2 DEF TurnInv
    <2>2. Answered(r, "wait") \/ Answered(r, "send") => req[r].obj \in DOMAIN heap
      BY <2>1 DEF AnswerFacts
    <2> QED BY <1>1, <2>1, <2>2, ObjectsStay DEF AnswerFacts, Kept, Conv, Answered
  <1>5. BackOffOnce' /\ RepliesNeverRepeat'
    BY <1>1, <1>2 DEF TurnInv, BackOffOnce, RepliesNeverRepeat, Answered
  <1>6. HostileEndOptsOut'
    <2> SUFFICES ASSUME NEW r \in Replies, Answered(r, "end"), answer[r].why = "policy",
                        verdict[r].kind = "hostile_optout"
                 PROVE  heap'[req[r].obj].merchant \in optedOut'
      BY <1>1 DEF HostileEndOptsOut, Answered, Conv
    <2>1. req[r].obj \in DOMAIN heap
      BY <1>2 DEF TurnInv, AnswerFacts
    <2>2. Conv(r).merchant \in optedOut
      BY <1>2 DEF TurnInv, HostileEndOptsOut
    <2> QED BY <1>2, <2>1, <2>2 DEF Kept, Conv
  <1> QED BY <1>3, <1>4, <1>5, <1>6 DEF TurnInv

LEMMA ArriveTurns ==
  ASSUME TypeInv, TurnInv, NEW r \in Replies, ReplyArrive(r)
  PROVE  /\ TurnInv'
         /\ era = 0 => answer'[r].why # "no_context"
         /\ \A s \in Replies \ {r} : UNCHANGED <<req[s], answer[s]>>
  <1>1. UNCHANGED <<heap, era, optedOut, verdict, composed>>
    BY DEF ReplyArrive, convVars, suppressionVars
  <1>2. \A s \in Replies \ {r} : UNCHANGED <<rpc[s], req[s], answer[s]>>
    BY DEF ReplyArrive, ReplyGoto, Respond, TypeInv, TypeOK
  <1> SUFFICES ASSUME era = 0
               PROVE  TurnInv' /\ answer'[r].why # "no_context"
    BY <1>1, <1>2 DEF TurnInv, BackOffOnce, RepliesNeverRepeat, HostileEndOptsOut
  <1>3. \/ rpc'[r] = "found" /\ answer'[r] = NoAnswer /\ answer'[r].action = "none"
              /\ answer'[r].why = ""
        \/ rpc'[r] = "done" /\ answer'[r].action = "end"
              /\ answer'[r].why = "unknown_conversation"
    <2>1. CASE ReplyGoto(r, "found") /\ UNCHANGED answer
      <3>1. answer[r] = NoAnswer
        BY DEF TurnInv, AnswerFacts, ReplyArrive
      <3>2. rpc'[r] = "found" /\ answer'[r] = NoAnswer
        BY <2>1, <3>1 DEF ReplyGoto, TypeInv, TypeOK
      <3>3. answer[r].action = "none" /\ answer[r].why = ""
        BY <3>1, NoAnswerFields
      <3> QED BY <2>1, <3>2, <3>3
    <2>2. ASSUME NEW action, NEW why, Respond(r, action, NoBody, why)
          PROVE  rpc'[r] = "done" /\ answer'[r].action = action /\ answer'[r].why = why
      <3>1. /\ rpc'[r] = "done"
            /\ answer'[r] = [action |-> action, body |-> NoBody, why |-> why]
        BY <2>2 DEF Respond, ReplyGoto, TypeInv, TypeOK
      <3> QED BY <3>1
    <2>3. CASE Respond(r, "end", NoBody, "unknown_conversation")
      BY <2>2, <2>3
    <2> QED BY <2>1, <2>3 DEF ReplyArrive
  <1>4. TurnFacts(r)' /\ AnswerFacts(r)'
    BY <1>3 DEF TurnFacts, AnswerFacts, Answered
  <1>5. \A s \in Replies \ {r} : TurnFacts(s)' /\ AnswerFacts(s)'
    BY <1>1, <1>2 DEF TurnInv, TurnFacts, AnswerFacts, Answered, Conv
  <1>6. BackOffOnce'
    BY <1>1, <1>2, <1>3, ZenonT(30) DEF TurnInv, BackOffOnce, Answered
  <1>7. RepliesNeverRepeat'
    BY <1>1, <1>2, <1>3, ZenonT(30) DEF TurnInv, RepliesNeverRepeat, Answered
  <1>8. HostileEndOptsOut'
    BY <1>1, <1>2, <1>3 DEF TurnInv, HostileEndOptsOut, Answered, Conv
  <1> QED BY <1>3, <1>4, <1>5, <1>6, <1>7, <1>8 DEF TurnInv

LEMMA TurnNext == TypeInv /\ KeyInv /\ OneTurnAtATime /\ TurnInv /\ [Next]_vars => TurnInv'
  <1> SUFFICES ASSUME TypeInv, KeyInv, OneTurnAtATime, TurnInv, [Next]_vars PROVE TurnInv'
    OBVIOUS
  <1>1. ASSUME NEW t \in Ticks, Tick(t)
        PROVE  TurnInv'
    <2>1. UNCHANGED <<era, optedOut>> /\ \A o \in DOMAIN heap : Kept(o)
      BY <1>1, TickStore, TickObjects DEF Tick
    <2> QED BY <1>1, <2>1, TurnsKept DEF Tick
  <1>2. ASSUME NEW r \in Replies, ReplyRequest(r)
        PROVE  TurnInv'
    BY <1>2, ArriveTurns DEF ReplyRequest
  <1>3. ASSUME NEW r \in Replies, ReplyRun(r)
        PROVE  TurnInv'
    BY <1>3, ReplyTurns DEF ReplyRun
  <1>4. CASE Teardown
    <2>1. UNCHANGED replyVars /\ heap' = heap
      BY <1>4 DEF Teardown, TeardownStart, TeardownConversations, TeardownSuppression,
                  ReplaceConversations, convVars
    <2>2. \A o \in DOMAIN heap : Kept(o)
      BY <2>1 DEF Kept
    <2>3. era' = 0 => era = 0 /\ optedOut \subseteq optedOut'
      <3>1. CASE TeardownStart
        BY <3>1 DEF TeardownStart, convVars, suppressionVars
      <3>2. CASE TeardownConversations
        BY <3>2 DEF TeardownConversations, ReplaceConversations, TypeInv, TypeOK
      <3>3. CASE TeardownSuppression
        BY <3>3 DEF TeardownSuppression, convVars, KeyInv
      <3> QED BY <1>4, <3>1, <3>2, <3>3 DEF Teardown
    <2> QED BY <2>1, <2>2, <2>3, TurnsKept
  <1>5. CASE UNCHANGED vars
    <2>1. UNCHANGED <<replyVars, heap, era, optedOut>>
      BY <1>5 DEF vars, convVars, suppressionVars
    <2>2. \A o \in DOMAIN heap : Kept(o)
      BY <2>1 DEF Kept
    <2> QED BY <2>1, <2>2, TurnsKept
  <1> QED BY <1>1, <1>2, <1>3, <1>4, <1>5 DEF Next, Finished

\* What a reply read in its turn is still so when it acts on it.
THEOREM TurnInvariant == Spec => []TurnInv
  <1>1. Init => TurnInv
    <2> SUFFICES ASSUME Init PROVE TurnInv
      OBVIOUS
    <2>1. \A r \in Replies : rpc[r] = "idle" /\ answer[r] = NoAnswer
      BY DEF Init, ReplyInit
    <2>2. \A r \in Replies : answer[r].action = "none" /\ answer[r].why = ""
      BY <2>1, NoAnswerFields
    <2> QED BY <2>1, <2>2 DEF TurnInv, TurnFacts, AnswerFacts, Answered, BackOffOnce,
                              RepliesNeverRepeat, HostileEndOptsOut
  <1>2. TypeInv /\ KeyInv /\ OneTurnAtATime /\ TurnInv /\ [Next]_vars => TurnInv'
    BY TurnNext
  <1> QED BY <1>1, <1>2, TypeInvariant, KeyInvariant, TurnsSerialised, PTL DEF Spec

\* However many replies run at once, Vera waits at most once per conversation.
THEOREM WaitsOnce == Spec => []BackOffOnce
  <1>1. TurnInv => BackOffOnce
    BY DEF TurnInv
  <1> QED BY <1>1, TurnInvariant, PTL

\* No two replies of a conversation are answered with the same body.
THEOREM NoReplyTwice == Spec => []RepliesNeverRepeat
  <1>1. TurnInv => RepliesNeverRepeat
    BY DEF TurnInv
  <1> QED BY <1>1, TurnInvariant, PTL

\* A merchant whose hostile message ended a conversation is suppressed before the
\* response can be seen.
THEOREM HostileSuppressed == Spec => []HostileEndOptsOut
  <1>1. TurnInv => HostileEndOptsOut
    BY DEF TurnInv
  <1> QED BY <1>1, TurnInvariant, PTL

\* An ended conversation is written to by no reply that would change its status.
LEMMA ReplyEndStays ==
  ASSUME TypeInv, TurnInv, era = 0, NEW r \in Replies, ReplyStep(r), NEW o \in DOMAIN heap,
         heap[o].status = "ended"
  PROVE  heap'[o].status = "ended"
  <1>1. CASE o # req[r].obj
    BY <1>1, ReplyWrites
  <1>2. CASE o = req[r].obj
    <2>1. Conv(r) = heap[o] /\ heap[o] \in ConversationState /\ TurnFacts(r)
      BY <1>2, ReplyWrites DEF Conv, TurnInv
    <2>2. ~ReplyClassify(r) /\ ~ReplyWait(r) /\ ~ReplySend(r)
      BY <2>1 DEF ReplyClassify, ReplyWait, ReplySend, TurnFacts
    <2>3. CASE End(r)
      BY <1>2, <2>1, <2>3, EndFields
    <2>4. CASE heap' = heap
      BY <2>4
    <2> QED
      BY <2>2, <2>3, <2>4
         DEF ReplyStep, ReplyTurnLock, ReplyAcquire, ReplyAlreadyEnded, ReplyEnd, ReplySuppress,
             ReplyNoContext, ReplyToCompose, ReplyCompose, ReplyReject, ReplyPassVet, convVars
  <1> QED BY <1>1, <1>2

\* Before the first teardown an ended conversation stays ended and no reply in it is
\* answered otherwise, the one that was being composed when it ended included.
THEOREM EndIsFinal == Spec => EndedIsFinal
  <1> DEFINE Final ==
        era = 0 =>
          /\ \A o \in DOMAIN heap : heap[o].status = "ended" => heap'[o].status = "ended"
          /\ \A r \in Replies :
                answer[r] # answer'[r] /\ answer'[r].action \in {"send", "wait"}
                => Conv(r).status # "ended"
  <1>1. TypeInv /\ TurnInv /\ [Next]_vars => [Final]_vars
    <2> SUFFICES ASSUME TypeInv, TurnInv, Next, era = 0 PROVE Final
      OBVIOUS
    <2>1. ASSUME UNCHANGED answer, \A o \in DOMAIN heap : Kept(o)
          PROVE  Final
      BY <2>1 DEF Kept
    <2>2. ASSUME NEW t \in Ticks, Tick(t)
          PROVE  Final
      BY <2>1, <2>2, TickObjects DEF Tick, replyVars
    <2>3. ASSUME NEW r \in Replies, ReplyRequest(r)
          PROVE  Final
      <3>1. UNCHANGED heap /\ \A s \in Replies \ {r} : UNCHANGED answer[s]
        BY <2>3, ArriveTypes, ArriveTurns DEF ReplyRequest, convVars
      <3>2. answer'[r].action \notin {"send", "wait"}
        <4>1. CASE UNCHANGED answer
          <5>1. answer[r] = NoAnswer
            BY <2>3 DEF ReplyRequest, ReplyArrive, TurnInv, AnswerFacts
          <5> QED BY <4>1, <5>1, NoAnswerFields
        <4>2. CASE Respond(r, "end", NoBody, "unknown_conversation")
          <5>1. answer'[r] = [action |-> "end", body |-> NoBody, why |-> "unknown_conversation"]
            BY <4>2 DEF Respond, TypeInv, TypeOK
          <5>2. \A b, w : [action |-> "end", body |-> b, why |-> w].action = "end"
            OBVIOUS
          <5> QED BY <5>1, <5>2
        <4> QED BY <2>3, <4>1, <4>2 DEF ReplyRequest, ReplyArrive
      <3> QED BY <3>1, <3>2
    <2>4. ASSUME NEW r \in Replies, ReplyRun(r)
          PROVE  Final
      <3>1. \A o \in DOMAIN heap : heap[o].status = "ended" => heap'[o].status = "ended"
        BY <2>4, ReplyEndStays DEF ReplyRun
      <3>2. \A s \in Replies \ {r} : UNCHANGED answer[s]
        BY <2>4 DEF ReplyRun, ReplyStep, ReplyTurnLock, ReplyAcquire, ReplyAlreadyEnded,
             ReplyClassify, ReplyWait, ReplyEnd, ReplySuppress, ReplyNoContext, ReplyToCompose,
             ReplyCompose, ReplyReject, ReplyPassVet, ReplySend, Return, Respond, TypeInv, TypeOK
      <3>3. answer'[r].action \in {"send", "wait"} => ReplyWait(r) \/ ReplySend(r)
        BY <2>4, ReplyAnswers DEF ReplyRun
      <3>4. ReplyWait(r) \/ ReplySend(r) => Conv(r).status # "ended"
        BY DEF TurnInv, TurnFacts, ReplyWait, ReplySend
      <3> QED BY <3>1, <3>2, <3>3, <3>4
    <2>5. ASSUME UNCHANGED <<answer, heap>>
          PROVE  Final
      BY <2>5
    <2> HIDE DEF Final
    <2> QED
      BY <2>2, <2>3, <2>4, <2>5
         DEF Next, Finished, Teardown, TeardownStart, TeardownConversations, vars,
             TeardownSuppression, ReplaceConversations, convVars, replyVars
  <1> QED BY <1>1, TypeInvariant, TurnInvariant, PTL DEF Spec, EndedIsFinal

-------------------------------------------------------------------------------
(***************************************************************************)
(* The brief is attached before the action can be answered.                *)
(***************************************************************************)

\* The object a tick has claimed exists, and so does that of an emitted action.
LEMMA ObjectsBriefed ==
  ASSUME TypeInv, ReservationInv, BriefInv, era = 0
  PROVE  /\ \A t \in Ticks : Owns(t) => claim[t] \in DOMAIN heap
         /\ \A a \in Emitted : a.obj \in DOMAIN heap
  <1>1. DOMAIN heap = 1 .. Len(heap) /\ Len(heap) \in Nat
    BY LenProperties DEF TypeInv, TypeOK
  <1>2. \A c \in Convs : table[c] # NoConv => table[c] \in DOMAIN heap
    BY <1>1 DEF TypeInv, TypeOK, NoConv
  <1>3. \A t \in Ticks : Owns(t) => ConvOfTick(t) \in Convs
    BY CurrentTrigger DEF TypeInv, TicksFormed
  <1>4. \A a \in Emitted : ConvOf[a.trigger] \in Convs
    BY TickAssumption DEF Emitted, TypeInv, TypeOK, Action
  <1> QED BY <1>2, <1>3, <1>4 DEF ReservationInv, OwnersHold, EmittedHold

LEMMA TickBriefs ==
  ASSUME TypeInv, ReservationInv, BriefInv, NEW t \in Ticks, TickArrive(t) \/ TickStep(t),
         UNCHANGED <<replyVars, answered>>
  PROVE  BriefInv'
  <1>1. UNCHANGED era /\ \A o \in DOMAIN heap : Kept(o)
    BY TickStore, TickObjects
  <1>2. UNCHANGED <<req, answer, answered>>
    BY DEF replyVars
  <1> SUFFICES ASSUME era = 0 PROVE BriefInv'
    BY <1>1 DEF BriefInv, SolicitedRepliesHaveContext
  <1>3. /\ \A u \in Ticks : Owns(u) => claim[u] \in DOMAIN heap
        /\ \A a \in Emitted : a.obj \in DOMAIN heap
    BY ObjectsBriefed
  <1>4. SolicitedRepliesHaveContext'
    BY <1>1, <1>2 DEF BriefInv, SolicitedRepliesHaveContext
  <1>5. \A a \in Emitted : heap'[a.obj].brief
    BY <1>1, <1>3 DEF BriefInv, Kept
  <1>6. \A u \in Ticks \ {t} : tpc'[u] = tpc[u] /\ claim'[u] = claim[u]
    BY DEF TickStep, TickArrive, TickSkip, TickDecide, TickDecideRaises, TickReserve, TickCompose,
           TickComposeRaises, TickRelease, TickAttach, TickMark, TickRespond, NextTrigger, Goto,
           TypeInv, TypeOK
  <1>7. \A u \in Ticks \ {t} : tpc'[u] = "mark" => heap'[claim'[u]].brief
    BY <1>1, <1>3, <1>6 DEF BriefInv, Kept, Owns
  <1>8. tpc'[t] = "mark" => heap'[claim'[t]].brief
    <2>1. tpc'[t] = "mark" => TickAttach(t)
      BY DEF TickStep, TickArrive, TickSkip, TickDecide, TickDecideRaises, TickReserve,
             TickCompose, TickComposeRaises, TickRelease, TickMark, TickRespond, NextTrigger,
             Goto, TypeInv, TypeOK
    <2>2. ASSUME TickAttach(t)
          PROVE  heap'[claim'[t]].brief
      <3>1. Owns(t) /\ claim[t] \in DOMAIN heap
        BY <1>3, <2>2 DEF TickAttach, Owns
      <3>2. table[ConvOfTick(t)] = claim[t] /\ IsReserved(ConvOfTick(t))
        BY <3>1 DEF ReservationInv, OwnersHold, IsReserved
      <3>3. heap[claim[t]] \in ConversationState
        BY <3>1, HeapObject DEF TypeInv
      <3>4. heap'[claim[t]] = [heap[claim[t]] EXCEPT !.brief = TRUE] /\ claim' = claim
        BY <2>2, <3>1, <3>2 DEF TickAttach, AttachBrief
      <3>5. [heap[claim[t]] EXCEPT !.brief = TRUE].brief
        BY <3>3 DEF ConversationState
      <3> QED BY <3>4, <3>5
    <2> QED BY <2>1, <2>2
  <1>9. Emitted \subseteq Emitted' /\ \A a \in Emitted' : heap'[a.obj].brief
    <2>1. CASE TickMark(t)
      <3> DEFINE n == [tick |-> t, trigger |-> Current(t), body |-> draft[t], obj |-> claim[t]]
      <3>1. actions' = [actions EXCEPT ![t] = actions[t] \cup {n}] /\ UNCHANGED delivered
        BY <2>1 DEF TickMark
      <3>2. n.obj = claim[t]
        OBVIOUS
      <3> HIDE DEF n
      <3>3. /\ actions'[t] = actions[t] \cup {n}
            /\ \A u \in Ticks \ {t} : actions'[u] = actions[u]
        BY <3>1 DEF TypeInv, TypeOK
      <3>4. Emitted' = Emitted \cup {n}
        BY <3>1, <3>3 DEF Emitted
      <3>5. heap'[n.obj].brief
        BY <1>1, <1>3, <2>1, <3>2 DEF TickMark, BriefInv, Owns, Kept
      <3> QED BY <1>5, <3>4, <3>5
    <2>2. CASE TickRespond(t)
      <3>1. Emitted' = Emitted
        BY <2>2 DEF TickRespond, Emitted
      <3> QED BY <1>5, <3>1
    <2>3. CASE UNCHANGED <<delivered, actions>>
      <3>1. Emitted' = Emitted
        BY <2>3 DEF Emitted
      <3> QED BY <1>5, <3>1
    <2> QED
      BY <2>1, <2>2, <2>3
         DEF TickStep, TickArrive, TickSkip, TickDecide, TickDecideRaises, TickReserve,
             TickCompose, TickComposeRaises, TickRelease, TickAttach
  <1> QED BY <1>1, <1>2, <1>4, <1>7, <1>8, <1>9 DEF BriefInv

LEMMA ReplyBriefs ==
  ASSUME TypeInv, ReservationInv, TurnInv, BriefInv, NEW r \in Replies,
         ReplyStep(r), UNCHANGED <<tickVars, answered>>
  PROVE  BriefInv'
  <1>1. UNCHANGED <<era, tpc, claim, delivered, actions, answered>>
    BY ReplyStore DEF tickVars
  <1>2. Emitted' = Emitted
    BY <1>1 DEF Emitted
  <1> SUFFICES ASSUME era = 0 PROVE BriefInv'
    BY <1>1 DEF BriefInv, SolicitedRepliesHaveContext
  <1>3. \A o \in DOMAIN heap : heap[o].brief => heap'[o].brief
    BY ReplyWrites, ReplyOwn DEF Grown
  <1>4. \A t \in Ticks : tpc[t] = "mark" => heap'[claim[t]].brief
    BY <1>3, ObjectsBriefed DEF BriefInv, Owns
  <1>5. \A a \in Emitted : heap'[a.obj].brief
    BY <1>3, ObjectsBriefed DEF BriefInv
  <1>6. \A s \in Replies \ {r} : UNCHANGED <<req[s], answer[s]>>
    BY DEF ReplyStep, ReplyTurnLock, ReplyAcquire, ReplyAlreadyEnded, ReplyClassify, ReplyWait,
           ReplyEnd, ReplySuppress, ReplyNoContext, ReplyToCompose, ReplyCompose, ReplyReject,
           ReplyPassVet, ReplySend, Return, Respond, TypeInv, TypeOK
  <1>7. ASSUME \E a \in answered[r] : a.obj = req'[r].obj
        PROVE  answer'[r].why # "no_context"
    <2>1. Conv(r).brief
      BY <1>7, ReplyKeepsObject DEF BriefInv, Conv
    <2>2. ASSUME NEW action, NEW body, NEW why, Return(r, action, body, why)
          PROVE  answer'[r].why = why
      <3>1. answer'[r] = [action |-> action, body |-> body, why |-> why]
        BY <2>2 DEF Return, Respond, TypeInv, TypeOK
      <3> QED BY <3>1
    <2>3. answer[r].why = ""
      BY ReplyWrites, NoAnswerFields DEF TurnInv, AnswerFacts
    <2>4. ~ReplyNoContext(r)
      BY <2>1 DEF ReplyNoContext
    <2>5. CASE answer' = answer
      BY <2>3, <2>5
    <2>6. ASSUME NEW action, NEW body, NEW why \in {"policy", "already_ended", "unsendable",
                 "repeat"}, Return(r, action, body, why)
          PROVE  answer'[r].why # "no_context"
      BY <2>2, <2>6
    <2>7. CASE ReplyReject(r)
      <3>1. PICK why \in {"unsendable", "repeat"} : Return(r, "end", NoBody, why)
        BY <2>7 DEF ReplyReject
      <3> QED BY <2>6, <3>1
    <2>8. CASE ReplyAlreadyEnded(r) \/ ReplyWait(r) \/ ReplySuppress(r) \/ ReplySend(r)
      BY <2>6, <2>8 DEF ReplyAlreadyEnded, ReplyWait, ReplySuppress, ReplySend
    <2>9. CASE ReplyEnd(r)
      BY <2>5, <2>6, <2>9 DEF ReplyEnd
    <2> QED
      BY <2>4, <2>5, <2>7, <2>8, <2>9
         DEF ReplyStep, ReplyTurnLock, ReplyAcquire, ReplyClassify, ReplyToCompose, ReplyCompose,
             ReplyPassVet
  <1>8. SolicitedRepliesHaveContext'
    BY <1>1, <1>6, <1>7 DEF BriefInv, SolicitedRepliesHaveContext
  <1> QED BY <1>1, <1>2, <1>4, <1>5, <1>8 DEF BriefInv

LEMMA BriefNext == TypeInv /\ ReservationInv /\ TurnInv /\ BriefInv /\ [Next]_vars => BriefInv'
  <1> SUFFICES ASSUME TypeInv, ReservationInv, TurnInv, BriefInv, [Next]_vars
               PROVE  BriefInv'
    OBVIOUS
  <1>1. ASSUME NEW t \in Ticks, Tick(t)
        PROVE  BriefInv'
    BY <1>1, TickBriefs DEF Tick
  <1>2. ASSUME NEW r \in Replies, ReplyRun(r)
        PROVE  BriefInv'
    BY <1>2, ReplyBriefs DEF ReplyRun
  <1>3. ASSUME NEW r \in Replies, ReplyRequest(r)
        PROVE  BriefInv'
    <2>1. /\ UNCHANGED <<heap, era, tpc, claim, delivered, actions>>
          /\ \A s \in Replies \ {r} : UNCHANGED <<req[s], answer[s], answered[s]>>
          /\ answered'[r] = delivered
          /\ era = 0 => answer'[r].why # "no_context"
      BY <1>3, ArriveTypes, ArriveTurns DEF ReplyRequest, tickVars, convVars, TypeInv, TypeOK
    <2>2. Emitted' = Emitted /\ delivered \subseteq Emitted
      BY <2>1 DEF Emitted
    <2> QED BY <2>1, <2>2 DEF BriefInv, SolicitedRepliesHaveContext
  <1>4. ASSUME UNCHANGED <<tickVars, replyVars, answered, heap>>, era' = 0 => era = 0
        PROVE  BriefInv'
    <2>1. UNCHANGED <<tpc, claim, delivered, actions, req, answer>> /\ Emitted' = Emitted
      BY <1>4 DEF tickVars, replyVars, Emitted
    <2> QED BY <1>4, <2>1 DEF BriefInv, SolicitedRepliesHaveContext
  <1>5. CASE Teardown
    <2>1. UNCHANGED <<tickVars, replyVars, answered, heap>> /\ (era' = era \/ era' = era + 1)
      BY <1>5 DEF Teardown, TeardownStart, TeardownConversations, TeardownSuppression,
                  ReplaceConversations, convVars
    <2>2. era \in Nat
      BY DEF TypeInv, TypeOK
    <2> QED BY <1>4, <2>1, <2>2
  <1>6. CASE UNCHANGED vars
    BY <1>4, <1>6 DEF vars, convVars
  <1> QED BY <1>1, <1>2, <1>3, <1>5, <1>6 DEF Next, Finished

\* Whoever has seen an action can answer it: no reply to a returned action is turned away
\* for lack of a brief.
THEOREM SolicitedHaveContext == Spec => []SolicitedRepliesHaveContext
  <1>1. Init => BriefInv
    BY DEF Init, TickInit, BriefInv, SolicitedRepliesHaveContext, Emitted
  <1>2. TypeInv /\ ReservationInv /\ TurnInv /\ BriefInv /\ [Next]_vars => BriefInv'
    BY BriefNext
  <1>3. BriefInv => SolicitedRepliesHaveContext
    BY DEF BriefInv
  <1> QED BY <1>1, <1>2, <1>3, TypeInvariant, ReservationInvariant, TurnInvariant, PTL DEF Spec

-------------------------------------------------------------------------------
(***************************************************************************)
(* Copies of one message.                                                  *)
(***************************************************************************)

LEMMA RepeatNeverSends ==
  ASSUME NEW m, NEW hits
  PROVE  DecideReply(m, m, hits).action # "send"
  BY DEF DecideReply, ClassifyKind

\* Only ReplyClassify remembers a message or gives a verdict.
LEMMA ReplyMemory ==
  ASSUME TypeInv, NEW r \in Replies, ReplyStep(r), ~ReplyClassify(r)
  PROVE  /\ \A o \in DOMAIN heap : heap'[o].last = heap[o].last
         /\ UNCHANGED verdict
  <1> DEFINE o == req[r].obj
  <1>1. o \in DOMAIN heap /\ heap[o] \in ConversationState
    BY ReplyWrites
  <1>2. ASSUME End(r)
        PROVE  \A i \in DOMAIN heap : heap'[i].last = heap[i].last
    <2>1. heap'[o] = [heap[o] EXCEPT !.status = "ended"]
      BY <1>1, <1>2 DEF End, SetConv
    <2> QED BY <1>1, <2>1, ReplyWrites DEF ConversationState
  <1>3. ASSUME ReplyWait(r)
        PROVE  \A i \in DOMAIN heap : heap'[i].last = heap[i].last
    <2>1. heap'[o] = [heap[o] EXCEPT !.hits = heap[o].hits + 1, !.status = "waiting"]
      BY <1>1, <1>3 DEF ReplyWait, Conv
    <2>2. heap'[o].last = heap[o].last
      BY <1>1, <2>1 DEF ConversationState
    <2> QED BY <2>2, ReplyWrites
  <1>4. ASSUME ReplySend(r)
        PROVE  \A i \in DOMAIN heap : heap'[i].last = heap[i].last
    <2>1. heap'[o] = [heap[o] EXCEPT !.sent = heap[o].sent \cup {composed[r]}]
      BY <1>1, <1>4 DEF ReplySend, SetConv, Conv
    <2> QED BY <1>1, <2>1, ReplyWrites DEF ConversationState
  <1>5. ASSUME heap' = heap
        PROVE  \A i \in DOMAIN heap : heap'[i].last = heap[i].last
    BY <1>5
  <1>6. \A i \in DOMAIN heap : heap'[i].last = heap[i].last
    BY <1>2, <1>3, <1>4, <1>5
       DEF ReplyStep, ReplyTurnLock, ReplyAcquire, ReplyAlreadyEnded, ReplyEnd, ReplySuppress,
           ReplyNoContext, ReplyToCompose, ReplyCompose, ReplyReject, ReplyPassVet, convVars
  <1>7. UNCHANGED verdict
    BY DEF ReplyStep, ReplyTurnLock, ReplyAcquire, ReplyAlreadyEnded, ReplyWait, ReplyEnd,
           ReplySuppress, ReplyNoContext, ReplyToCompose, ReplyCompose, ReplyReject,
           ReplyPassVet, ReplySend
  <1> QED BY <1>6, <1>7

LEMMA ReplyKeepsMessage ==
  ASSUME TypeInv, NEW r \in Replies, ReplyStep(r)
  PROVE  /\ req'[r].obj = req[r].obj /\ req'[r].msg = req[r].msg
         /\ \A s \in Replies \ {r} : UNCHANGED <<req[s], rpc[s], answer[s]>>
  <1>1. CASE ReplyTurnLock(r)
    <2>1. req[r] \in Request
      BY ReplyWrites DEF TypeInv, RequestsFormed
    <2>2. req'[r] = [req[r] EXCEPT !.lock = TurnLock(req[r].conv)]
      BY <1>1 DEF ReplyTurnLock, TypeInv, TypeOK
    <2> QED BY <1>1, <2>1, <2>2 DEF Request, ReplyTurnLock, ReplyGoto, TypeInv, TypeOK
  <1>2. CASE ~ReplyTurnLock(r)
    <2>1. UNCHANGED req
      BY <1>2
         DEF ReplyStep, ReplyAcquire, ReplyAlreadyEnded, ReplyClassify, ReplyWait, ReplyEnd,
             ReplySuppress, ReplyNoContext, ReplyToCompose, ReplyCompose, ReplyReject,
             ReplyPassVet, ReplySend
    <2>2. \A s \in Replies \ {r} : UNCHANGED <<rpc[s], answer[s]>>
      BY <1>2
         DEF ReplyStep, ReplyAcquire, ReplyAlreadyEnded, ReplyClassify, ReplyWait, ReplyEnd,
             ReplySuppress, ReplyNoContext, ReplyToCompose, ReplyCompose, ReplyReject,
             ReplyPassVet, ReplySend, Return, Respond, ReplyGoto, TypeInv, TypeOK
    <2> QED BY <2>1, <2>2
  <1> QED BY <1>1, <1>2

LEMMA ReplyCopies ==
  ASSUME TypeInv, TurnInv, CopyInv, [Next]_vars, NEW r \in Replies, ReplyStep(r)
  PROVE  CopyInv'
  <1>1. UNCHANGED era
    BY ReplyStore
  <1> SUFFICES ASSUME era = 0 PROVE CopyInv'
    BY <1>1 DEF CopyInv
  <1>2. (\A s \in Replies : CopyFacts(s)) /\ OneIsNew
    BY DEF CopyInv
  <1>3. /\ \A s \in Replies : req'[s].obj = req[s].obj /\ req'[s].msg = req[s].msg
        /\ \A s \in Replies \ {r} : UNCHANGED <<req[s], rpc[s], answer[s]>>
    BY ReplyKeepsMessage
  <1>4. (\A s \in Replies : verdict[s].action # "none" => verdict'[s].action # "none")
            => \A s \in Replies : Alike(s)' => Alike(s)
    BY <1>3 DEF Alike
  <1>5. rpc[r] \notin {"idle", "done"} /\ rpc'[r] # "idle" /\ req[r].obj \in DOMAIN heap
    <2>1. rpc'[r] # "idle"
      BY DEF ReplyStep, ReplyTurnLock, ReplyAcquire, ReplyAlreadyEnded, ReplyClassify,
             ReplyWait, ReplyEnd, ReplySuppress, ReplyNoContext, ReplyToCompose, ReplyCompose,
             ReplyReject, ReplyPassVet, ReplySend, Return, Respond, ReplyGoto, TypeInv, TypeOK
    <2> QED BY <2>1, ReplyWrites
  <1>6. CASE ReplyClassify(r)
    <2> DEFINE o == req[r].obj
    <2>1. /\ rpc[r] = "locked" /\ rpc'[r] = "apply" /\ UNCHANGED answer
          /\ verdict'[r] = DecideReply(req[r].msg, heap[o].last, heap[o].hits)
          /\ \A s \in Replies \ {r} : UNCHANGED verdict[s]
      BY <1>6 DEF ReplyClassify, ReplyGoto, Conv, TypeInv, TypeOK
    <2>2. heap'[o].last = req[r].msg
      <3>1. heap[o] \in ConversationState
        BY ReplyWrites
      <3>2. heap'[o] = [heap[o] EXCEPT !.last = req[r].msg]
        BY <1>5, <1>6 DEF ReplyClassify, SetConv
      <3> QED BY <3>1, <3>2 DEF ConversationState
    <2>3. \A i \in DOMAIN heap : i # o => heap'[i].last = heap[i].last
      BY ReplyWrites
    <2>4. verdict'[r].action \in {"send", "wait", "end"}
      BY <2>1 DEF DecideReply, ClassifyKind
    <2>10. \A s \in Replies : Alike(s)' => Alike(s)
      BY <1>4, <2>1, <2>4
    <2>5. CopyFacts(r)'
      <3>1. answer[r].action = "none"
        BY <1>5, NoAnswerFields DEF TurnInv, AnswerFacts
      <3>2. Conv(r)'.last = req'[r].msg /\ req'[r].obj \in DOMAIN heap'
        BY <1>3, <1>5, <2>2, ObjectsStay DEF Conv
      <3> QED BY <2>1, <2>4, <3>1, <3>2 DEF CopyFacts, Answered
    <2>6. ASSUME NEW s \in Replies \ {r}
          PROVE  CopyFacts(s)'
      <3>1. verdict[s].action # "none" => req[s].obj \in DOMAIN heap /\ req[s].obj \in DOMAIN heap'
        BY <1>2, ObjectsStay DEF CopyFacts
      <3>2. verdict[s].action # "none" /\ Alike(s)' => heap'[req[s].obj].last = req[s].msg
        <4> SUFFICES ASSUME verdict[s].action # "none", Alike(s)'
                     PROVE  heap'[req[s].obj].last = req[s].msg
          OBVIOUS
        <4>1. CASE req[s].obj = o
          BY <1>3, <2>2, <2>4, <4>1 DEF Alike
        <4>2. CASE req[s].obj # o
          BY <1>2, <2>3, <2>10, <3>1, <4>2 DEF CopyFacts, Conv
        <4> QED BY <4>1, <4>2
      <3> QED BY <1>2, <1>3, <2>1, <3>1, <3>2 DEF CopyFacts, Answered, Conv
    \* A copy of what another reply already brought is a repeat.
    <2>7. ASSUME NEW s \in Replies \ {r}, verdict[s].action = "send", req[s].obj = o, Alike(s)'
          PROVE  verdict'[r].action # "send"
      <3>1. heap[o].last = req[s].msg
        BY <1>2, <2>7, <2>10 DEF CopyFacts, Conv
      <3>2. req[s].msg = req[r].msg
        BY <1>3, <2>4, <2>7 DEF Alike
      <3> QED BY <2>1, <3>1, <3>2, RepeatNeverSends
    <2>8. \A s \in Replies : req[s].obj = o /\ verdict'[s].action = "send" /\ Alike(r)' => Alike(s)'
      BY <1>3 DEF Alike
    <2>9. OneIsNew'
      <3> SUFFICES ASSUME NEW s \in Replies, NEW u \in Replies, verdict'[s].action = "send",
                          verdict'[u].action = "send", req[s].obj = req[u].obj, Alike(s)'
                   PROVE  s = u
        BY <1>3 DEF OneIsNew
      <3>1. CASE s # r /\ u # r
        BY <1>2, <2>1, <2>10, <3>1 DEF OneIsNew
      <3>2. CASE s = r /\ u # r
        BY <2>1, <2>7, <2>8, <3>2
      <3>3. CASE s # r /\ u = r
        BY <2>1, <2>7, <3>3
      <3> QED BY <3>1, <3>2, <3>3
    <2> QED BY <2>5, <2>6, <2>9 DEF CopyInv
  <1>7. CASE ~ReplyClassify(r)
    <2>1. /\ \A o \in DOMAIN heap : heap'[o].last = heap[o].last
          /\ UNCHANGED verdict
      BY <1>7, ReplyMemory
    <2>6. \A s \in Replies : Alike(s)' => Alike(s)
      BY <1>4, <2>1
    <2>2. ASSUME NEW s \in Replies
          PROVE  verdict[s].action # "none" =>
                    /\ req'[s].obj \in DOMAIN heap'
                    /\ Alike(s)' => Conv(s)'.last = req'[s].msg
      BY <1>2, <1>3, <2>1, <2>6, ObjectsStay DEF CopyFacts, Conv
    <2>3. CopyFacts(r)'
      <3>1. rpc'[r] \in {"acquire", "locked"} => verdict[r].action = "none"
        BY <1>2, <1>7
           DEF ReplyStep, ReplyTurnLock, ReplyAcquire, ReplyAlreadyEnded, ReplyWait, ReplyEnd,
               ReplySuppress, ReplyNoContext, ReplyToCompose, ReplyCompose, ReplyReject, CopyFacts,
               ReplyPassVet, ReplySend, Return, Respond, ReplyGoto, TypeInv, TypeOK
      <3>2. rpc'[r] # "found"
        BY <1>7
           DEF ReplyStep, ReplyTurnLock, ReplyAcquire, ReplyAlreadyEnded, ReplyWait, ReplyEnd,
               ReplySuppress, ReplyNoContext, ReplyToCompose, ReplyCompose, ReplyReject,
               ReplyPassVet, ReplySend, Return, Respond, ReplyGoto, TypeInv, TypeOK
      <3>3. rpc'[r] \in {"compose", "vet", "record"} => verdict[r].action = "send"
        BY <1>2, <1>7
           DEF ReplyStep, ReplyTurnLock, ReplyAcquire, ReplyAlreadyEnded, ReplyWait, ReplyEnd,
               ReplySuppress, ReplyNoContext, ReplyToCompose, ReplyCompose, ReplyReject, CopyFacts,
               ReplyPassVet, ReplySend, Return, Respond, ReplyGoto, TypeInv, TypeOK
      <3>4. Answered(r, "send")' => verdict[r].action = "send"
        <4>1. Answered(r, "send")' => ReplySend(r)
          BY ReplyAnswers DEF Answered
        <4> QED BY <1>2, <4>1 DEF CopyFacts, ReplySend
      <3> QED BY <1>5, <2>1, <2>2, <3>1, <3>2, <3>3, <3>4 DEF CopyFacts
    <2>4. ASSUME NEW s \in Replies \ {r}
          PROVE  CopyFacts(s)'
      BY <1>2, <1>3, <2>1, <2>2 DEF CopyFacts, Answered
    <2>5. OneIsNew'
      BY <1>2, <1>3, <2>1, <2>6 DEF OneIsNew
    <2> QED BY <2>3, <2>4, <2>5 DEF CopyInv
  <1> QED BY <1>6, <1>7

LEMMA ArriveCopies ==
  ASSUME TypeInv, TurnInv, CopyInv, NEW r \in Replies, ReplyArrive(r)
  PROVE  CopyInv'
  <1>1. UNCHANGED <<heap, era, verdict>>
    BY DEF ReplyArrive, convVars
  <1> SUFFICES ASSUME era = 0 PROVE CopyInv'
    BY <1>1 DEF CopyInv
  <1>2. (\A s \in Replies : CopyFacts(s)) /\ OneIsNew
    BY DEF CopyInv
  <1>3. /\ \A s \in Replies \ {r} : UNCHANGED <<rpc[s], req[s], answer[s]>>
        /\ rpc'[r] \in {"found", "done"}
    BY DEF ReplyArrive, ReplyGoto, Respond, TypeInv, TypeOK
  <1>4. req[r].obj = NoConv /\ verdict[r].action = "none" /\ NoConv \notin DOMAIN heap
    <2>1. req[r] = NoRequest /\ verdict[r].action = "none"
      BY <1>2 DEF CopyFacts, ReplyArrive
    <2>2. DOMAIN heap = 1 .. Len(heap) /\ Len(heap) \in Nat
      BY LenProperties DEF TypeInv, TypeOK
    <2> QED BY <2>1, <2>2 DEF NoRequest, NoConv
  <1>5. ~Answered(r, "send")'
    <2>1. CASE ReplyGoto(r, "found") /\ UNCHANGED answer
      <3>1. answer[r] = NoAnswer
        BY DEF TurnInv, AnswerFacts, ReplyArrive
      <3>2. answer[r].action = "none"
        BY <3>1, NoAnswerFields
      <3> QED BY <2>1, <3>2 DEF Answered
    <2>2. ASSUME NEW action, NEW why, Respond(r, action, NoBody, why)
          PROVE  answer'[r].action = action
      <3>1. answer'[r] = [action |-> action, body |-> NoBody, why |-> why]
        BY <2>2 DEF Respond, TypeInv, TypeOK
      <3> QED BY <3>1
    <2>3. CASE Respond(r, "end", NoBody, "unknown_conversation")
      BY <2>2, <2>3 DEF Answered
    <2> QED BY <2>1, <2>3 DEF ReplyArrive
  \* The new request has not been classified.
  <1>6. \A s \in Replies \ {r} : Alike(s)' => Alike(s)
    BY <1>1, <1>3, <1>4 DEF Alike
  <1>7. CopyFacts(r)'
    BY <1>1, <1>3, <1>4, <1>5 DEF CopyFacts
  <1>8. ASSUME NEW s \in Replies \ {r}
        PROVE  CopyFacts(s)'
    BY <1>1, <1>2, <1>3, <1>6 DEF CopyFacts, Answered, Conv
  <1>9. OneIsNew'
    BY <1>1, <1>2, <1>3, <1>4, <1>6 DEF OneIsNew, CopyFacts
  <1> QED BY <1>7, <1>8, <1>9 DEF CopyInv

LEMMA CopyNext == TypeInv /\ TurnInv /\ CopyInv /\ [Next]_vars => CopyInv'
  <1> SUFFICES ASSUME TypeInv, TurnInv, CopyInv, [Next]_vars PROVE CopyInv'
    OBVIOUS
  <1>1. ASSUME UNCHANGED replyVars, era' = 0 => era = 0,
               \A o \in DOMAIN heap : heap'[o].last = heap[o].last
        PROVE  CopyInv'
    <2>1. UNCHANGED <<rpc, req, verdict, answer>>
      BY <1>1 DEF replyVars
    <2>2. \A r \in Replies : Alike(r)' <=> Alike(r)
      BY <2>1 DEF Alike
    <2>3. era = 0 /\ OneIsNew => OneIsNew'
      BY <2>1, <2>2 DEF OneIsNew
    <2>4. \A r \in Replies : CopyFacts(r) => CopyFacts(r)'
      BY <1>1, <2>1, <2>2, ObjectsStay DEF CopyFacts, Answered, Conv
    <2> QED BY <1>1, <2>3, <2>4 DEF CopyInv
  <1>2. ASSUME NEW t \in Ticks, Tick(t)
        PROVE  CopyInv'
    <2>1. UNCHANGED era /\ \A o \in DOMAIN heap : heap'[o].last = heap[o].last
      BY <1>2, TickStore, TickObjects DEF Tick, Kept
    <2> QED BY <1>1, <1>2, <2>1 DEF Tick
  <1>3. ASSUME NEW r \in Replies, ReplyRequest(r)
        PROVE  CopyInv'
    BY <1>3, ArriveCopies DEF ReplyRequest
  <1>4. ASSUME NEW r \in Replies, ReplyRun(r)
        PROVE  CopyInv'
    BY <1>4, ReplyCopies DEF ReplyRun
  <1>5. CASE Teardown
    <2>1. UNCHANGED <<replyVars, heap>> /\ (era' = era \/ era' = era + 1)
      BY <1>5 DEF Teardown, TeardownStart, TeardownConversations, TeardownSuppression,
                  ReplaceConversations, convVars
    <2>2. era \in Nat
      BY DEF TypeInv, TypeOK
    <2> QED BY <1>1, <2>1, <2>2
  <1>6. CASE UNCHANGED vars
    BY <1>1, <1>6 DEF vars, convVars
  <1> QED BY <1>2, <1>3, <1>4, <1>5, <1>6 DEF Next, Finished

\* A reply that compares its message with the last one, and the replies before it.
THEOREM CopyInvariant == Spec => []CopyInv
  <1>1. Init => CopyInv
    <2> SUFFICES ASSUME Init PROVE CopyInv
      OBVIOUS
    <2>1. \A r \in Replies : /\ rpc[r] = "idle" /\ req[r] = NoRequest
                             /\ verdict[r] = NoVerdict /\ answer[r] = NoAnswer
      BY DEF Init, ReplyInit
    <2>2. NoVerdict.action = "none"
      BY DEF NoVerdict
    <2>3. \A r \in Replies : answer[r].action = "none" /\ verdict[r].action = "none"
      BY <2>1, <2>2, NoAnswerFields
    <2> QED BY <2>1, <2>3 DEF CopyInv, CopyFacts, OneIsNew, Answered
  <1>2. TypeInv /\ TurnInv /\ CopyInv /\ [Next]_vars => CopyInv'
    BY CopyNext
  <1> QED BY <1>1, <1>2, TypeInvariant, TurnInvariant, PTL DEF Spec

\* Two copies of one message are both answered with a send only if their conversation has
\* taken a turn with another message, in whatever order the replies overlap.
THEOREM CopiesSendOnce == Spec => []IdenticalRepliesSendOnce
  <1>1. CopyInv => IdenticalRepliesSendOnce
    <2>1. NoVerdict.action = "none"
      BY DEF NoVerdict
    <2>2. ASSUME NEW r \in Replies,
                 \A q \in Replies : verdict[q] # NoVerdict /\ req[q].obj = req[r].obj
                                        => req[q].msg = req[r].msg
          PROVE  Alike(r)
      BY <2>1, <2>2 DEF Alike
    <2> QED BY <2>2 DEF CopyInv, CopyFacts, OneIsNew, IdenticalRepliesSendOnce
  <1> QED BY <1>1, CopyInvariant, PTL
-------------------------------------------------------------------------------
(***************************************************************************)
(* The replies take indivisible turns (SerialEngine).                      *)
(*                                                                         *)
(* A turn shows when it is answered.  BeforeInv says, for each step of a   *)
(* turn, what the reply has made of the conversation it found: with it,    *)
(* the answering step of the reply is the whole turn of SerialReplies and  *)
(* every step before it is none.                                           *)
(***************************************************************************)

\* The conversation is the one the turn found, but for the last message, the status and
\* the brief.
Since(r, last, status) ==
    /\ Conv(r).conv = before[r][1].conv
    /\ Conv(r).merchant = before[r][1].merchant
    /\ Conv(r).hits = before[r][1].hits
    /\ Conv(r).sent = before[r][1].sent
    /\ Conv(r).last = last
    /\ Conv(r).status = status

\* What a reply in its turn has made of the conversation it found.
BeforeFacts(r) ==
    LET b == before[r][1] IN
    /\ before[r] = <<b>>
    /\ b \in ConversationState
    /\ rpc[r] = "locked" => Since(r, b.last, b.status)
    /\ rpc[r] # "locked" =>
          /\ b.status # "ended"
          /\ verdict[r] = DecideReply(req[r].msg, b.last, b.hits)
    /\ rpc[r] \in {"apply", "compose", "vet", "record"} => Since(r, req[r].msg, b.status)
    /\ rpc[r] = "suppress" =>
          /\ Since(r, req[r].msg, "ended")
          /\ verdict[r].action = "end"
          /\ verdict[r].kind = "hostile_optout"
    /\ rpc[r] \in {"compose", "vet", "record"} => verdict[r].action = "send" /\ Conv(r).brief

BeforeInv == era = 0 => \A r \in Replies : InTurn(r) => BeforeFacts(r)

LEMMA NoteBefore ==
  ASSUME Note, NEW r \in Replies, InTurn(r)'
  PROVE  /\ InTurn(r) => before'[r] = before[r]
         /\ ~InTurn(r) => before'[r] = <<heap[req[r].obj]>>
  BY DEF Note

\* Nobody else's step touches a turn: ticks attach a brief in the middle of it at most.
LEMMA TurnUntouched ==
  ASSUME TypeInv, BeforeInv, era = 0, NEW r \in Replies, InTurn(r),
         UNCHANGED <<rpc[r], req[r], verdict[r], composed[r], before[r]>>,
         HeapGrows, Kept(req[r].obj)
  PROVE  BeforeFacts(r)'
  <1> DEFINE o == req[r].obj
  <1>1. o \in 1 .. Len(heap) /\ BeforeFacts(r)
    <2>1. o \in DOMAIN heap /\ heap \in Seq(ConversationState)
      BY DEF TypeInv, TypeOK, RequestsFormed, InTurn
    <2> QED BY <2>1 DEF BeforeInv
  <1>2. heap'[o].conv = heap[o].conv
    BY <1>1 DEF HeapGrows
  <1> HIDE DEF o
  <1>3. ASSUME NEW l, NEW s, Since(r, l, s)
        PROVE  /\ heap'[o].conv = before[r][1].conv
               /\ heap'[o].merchant = before[r][1].merchant
               /\ heap'[o].hits = before[r][1].hits
               /\ heap'[o].sent = before[r][1].sent
               /\ heap'[o].last = l
               /\ heap'[o].status = s
    BY <1>2, <1>3 DEF Since, Conv, Kept, o
  <1> QED BY <1>1, <1>3 DEF BeforeFacts, Since, Conv, Kept, o

\* A step of no reply.
LEMMA BeforeKept ==
  ASSUME TypeInv, BeforeInv, [Next]_vars, UNCHANGED replyVars, UNCHANGED before \/ Note,
         era' = 0 => era = 0,
         \A o \in DOMAIN heap : Kept(o)
  PROVE  BeforeInv'
  <1>1. UNCHANGED <<rpc, req, verdict, composed>>
    BY DEF replyVars
  <1> SUFFICES ASSUME NEW r \in Replies, InTurn(r), era = 0 PROVE BeforeFacts(r)'
    BY <1>1 DEF BeforeInv, InTurn
  <1>2. Kept(req[r].obj)
    BY DEF TypeInv, RequestsFormed, InTurn
  <1>3. before'[r] = before[r]
    BY <1>1, NoteBefore DEF InTurn
  <1> QED BY <1>1, <1>2, <1>3, NextHeap, TurnUntouched

\* What the steps of a turn do to the object and to the verdict.
LEMMA BeforeOwn ==
  ASSUME TypeInv, BeforeInv, era = 0, NEW r \in Replies, ReplyStep(r), Note, InTurn(r)'
  PROVE  BeforeFacts(r)'
  <1> DEFINE o == req[r].obj
             b == before[r][1]
  <1>1. /\ o \in DOMAIN heap
        /\ heap[o] \in ConversationState
        /\ req'[r].obj = o
    BY ReplyWrites, ReplyKeepsObject
  <1>2. InTurn(r) => BeforeFacts(r) /\ before'[r] = before[r]
    BY NoteBefore DEF BeforeInv
  <1>3. ASSUME NEW label \in ReplyPC, ReplyGoto(r, label)
        PROVE  rpc'[r] = label
    BY <1>3 DEF ReplyGoto, TypeInv, TypeOK
  <1>4. ASSUME NEW action, NEW body, NEW why, Return(r, action, body, why)
        PROVE  FALSE
    BY <1>4 DEF Return, Respond, ReplyGoto, TypeInv, TypeOK, InTurn
  <1>5. CASE ReplyTurnLock(r)
    BY <1>3, <1>5 DEF ReplyTurnLock, InTurn, ReplyPC
  <1>6. CASE ReplyAcquire(r)
    <2>1. rpc'[r] = "locked" /\ UNCHANGED <<heap, req>>
      BY <1>3, <1>6 DEF ReplyAcquire, ReplyPC
    <2>2. before'[r] = <<heap[o]>>
      BY <1>6, NoteBefore DEF ReplyAcquire, InTurn
    <2> HIDE DEF o
    <2> QED BY <1>1, <2>1, <2>2 DEF BeforeFacts, Since, Conv, o
  <1>7. CASE ReplyClassify(r)
    <2>1. rpc[r] = "locked" /\ rpc'[r] = "apply" /\ UNCHANGED req /\ Conv(r).status # "ended"
      BY <1>3, <1>7 DEF ReplyClassify, ReplyPC
    <2>2. verdict'[r] = DecideReply(req[r].msg, heap[o].last, heap[o].hits)
      BY <1>7 DEF ReplyClassify, TypeInv, TypeOK, Conv
    <2>3. heap'[o] = [heap[o] EXCEPT !.last = req[r].msg]
      BY <1>1, <1>7 DEF ReplyClassify, SetConv
    <2>4. before'[r] = before[r] /\ before[r] = <<b>> /\ b \in ConversationState
            /\ Since(r, b.last, b.status)
      BY <1>2, <2>1 DEF InTurn, BeforeFacts
    <2>5. /\ heap'[o].conv = heap[o].conv /\ heap'[o].merchant = heap[o].merchant
          /\ heap'[o].hits = heap[o].hits /\ heap'[o].sent = heap[o].sent
          /\ heap'[o].status = heap[o].status /\ heap'[o].last = req[r].msg
      BY <1>1, <2>3 DEF ConversationState
    <2> HIDE DEF o
    <2> QED BY <2>1, <2>2, <2>4, <2>5 DEF BeforeFacts, Since, Conv, o
  <1>8. CASE ReplyEnd(r)
    <2>1. /\ rpc[r] = "apply" /\ rpc'[r] = "suppress" /\ UNCHANGED <<req, verdict>>
          /\ verdict[r].action = "end" /\ verdict[r].kind = "hostile_optout" /\ End(r)
      BY <1>3, <1>4, <1>8 DEF ReplyEnd, ReplyPC
    <2>2. heap'[o] = [heap[o] EXCEPT !.status = "ended"]
      BY <1>1, <2>1 DEF End, SetConv
    <2>3. before'[r] = before[r] /\ BeforeFacts(r)
      BY <1>2, <2>1 DEF InTurn
    <2>4. /\ heap'[o].conv = heap[o].conv /\ heap'[o].merchant = heap[o].merchant
          /\ heap'[o].hits = heap[o].hits /\ heap'[o].sent = heap[o].sent
          /\ heap'[o].last = heap[o].last /\ heap'[o].status = "ended"
      BY <1>1, <2>2 DEF ConversationState
    <2> HIDE DEF o
    <2> QED BY <2>1, <2>3, <2>4 DEF BeforeFacts, Since, Conv, o
  <1>9. CASE ReplyToCompose(r)
    <2>1. /\ rpc[r] = "apply" /\ rpc'[r] = "compose" /\ UNCHANGED <<req, verdict, heap>>
          /\ verdict[r].action = "send" /\ Conv(r).brief
      BY <1>3, <1>9 DEF ReplyToCompose, ReplyPC, convVars
    <2> QED BY <1>2, <2>1 DEF InTurn, BeforeFacts, Since, Conv
  <1>10. CASE ReplyCompose(r) \/ ReplyPassVet(r)
    <2>1. /\ rpc[r] \in {"compose", "vet"} /\ rpc'[r] \in {"vet", "record"}
          /\ UNCHANGED <<req, verdict, heap>>
      BY <1>3, <1>10 DEF ReplyCompose, ReplyPassVet, ReplyPC, convVars
    <2> QED BY <1>2, <2>1 DEF InTurn, BeforeFacts, Since, Conv
  <1> QED
    BY <1>4, <1>5, <1>6, <1>7, <1>8, <1>9, <1>10
       DEF ReplyStep, ReplyAlreadyEnded, ReplyWait, ReplySuppress, ReplyNoContext, ReplyReject,
           ReplySend

LEMMA BeforeReply ==
  ASSUME TypeInv, OneTurnAtATime, BeforeInv, NEW r \in Replies, ReplyStep(r), Note
  PROVE  BeforeInv'
  <1> SUFFICES ASSUME era = 0, NEW s \in Replies, InTurn(s)' PROVE BeforeFacts(s)'
    BY ReplyStore DEF BeforeInv
  <1>1. CASE s = r
    BY <1>1, BeforeOwn
  <1>2. CASE s # r
    <2>1. /\ UNCHANGED <<rpc[s], req[s], verdict[s], composed[s]>>
          /\ InTurn(s)
          /\ heap'[req[s].obj] = heap[req[s].obj]
      BY <1>2, ReplyApart DEF InTurn
    <2>2. before'[s] = before[s]
      BY <2>1, NoteBefore
    <2> QED BY <2>1, <2>2, ReplyHeap, TurnUntouched DEF Kept
  <1> QED BY <1>1, <1>2

LEMMA BeforeArrive ==
  ASSUME TypeInv, BeforeInv, NEW r \in Replies, ReplyArrive(r), Note
  PROVE  BeforeInv'
  <1>1. UNCHANGED <<heap, era, verdict, composed>> /\ rpc[r] = "idle"
    BY DEF ReplyArrive, convVars
  <1>2. ~InTurn(r)'
    BY DEF ReplyArrive, ReplyGoto, Respond, TypeInv, TypeOK, InTurn
  <1>3. \A s \in Replies \ {r} : UNCHANGED <<rpc[s], req[s]>>
    BY DEF ReplyArrive, ReplyGoto, Respond, TypeInv, TypeOK
  <1> SUFFICES ASSUME era = 0, NEW s \in Replies \ {r}, InTurn(s) PROVE BeforeFacts(s)'
    BY <1>1, <1>2, <1>3 DEF BeforeInv, InTurn
  <1>4. before'[s] = before[s]
    BY <1>3, NoteBefore DEF InTurn
  <1> QED BY <1>1, <1>3, <1>4, SameHeap, TurnUntouched DEF Kept, TypeInv

LEMMA Forget ==
  ASSUME [HNext]_serialEngineVars
  PROVE  [Next]_vars /\ (Note \/ UNCHANGED before)
  BY DEF HNext, serialEngineVars, Next

LEMMA BeforeNext ==
  TypeInv /\ KeyInv /\ OneTurnAtATime /\ BeforeInv /\ [HNext]_serialEngineVars => BeforeInv'
  <1> SUFFICES ASSUME TypeInv, KeyInv, OneTurnAtATime, BeforeInv, [HNext]_serialEngineVars
               PROVE  BeforeInv'
    OBVIOUS
  <1>1. [Next]_vars /\ (Note \/ UNCHANGED before)
    BY Forget
  <1>2. ASSUME NEW t \in Ticks, Tick(t)
        PROVE  BeforeInv'
    <2>1. UNCHANGED era /\ \A o \in DOMAIN heap : Kept(o)
      BY <1>2, TickStore, TickObjects DEF Tick
    <2> QED BY <1>1, <1>2, <2>1, BeforeKept DEF Tick
  <1>3. ASSUME NEW r \in Replies, ReplyRequest(r), Note
        PROVE  BeforeInv'
    BY <1>3, BeforeArrive DEF ReplyRequest
  <1>4. ASSUME NEW r \in Replies, ReplyRun(r), Note
        PROVE  BeforeInv'
    BY <1>4, BeforeReply DEF ReplyRun
  <1>5. CASE Teardown \/ UNCHANGED vars
    <2>1. UNCHANGED <<replyVars, heap>> /\ (era' = 0 => era = 0)
      BY <1>5 DEF Teardown, TeardownStart, TeardownConversations, TeardownSuppression,
                  ReplaceConversations, convVars, vars, TypeInv, TypeOK
    <2>2. \A o \in DOMAIN heap : Kept(o)
      BY <2>1 DEF Kept
    <2> QED BY <1>1, <2>1, <2>2, BeforeKept
  <1> QED BY <1>2, <1>3, <1>4, <1>5 DEF HNext, Finished, serialEngineVars

\* A turn does to its conversation what the reply handler does in one step to the
\* conversation it found, whatever others did in between (reply, app.py).
THEOREM BeforeInvariant == HSpec => []BeforeInv
  <1>1. HInit => Init /\ BeforeInv
    BY DEF HInit, Init, ReplyInit, BeforeInv, InTurn
  <1>2. [HNext]_serialEngineVars => [Next]_vars
    BY Forget
  <1>3. HSpec => Spec
    BY <1>1, <1>2, PTL DEF HSpec, Spec
  <1>4. TypeInv /\ KeyInv /\ OneTurnAtATime /\ BeforeInv /\ [HNext]_serialEngineVars
          => BeforeInv'
    BY BeforeNext
  <1> QED BY <1>1, <1>3, <1>4, TypeInvariant, KeyInvariant, TurnsSerialised, PTL DEF HSpec

-------------------------------------------------------------------------------
(***************************************************************************)
(* What the abstract conversations look like from one step to the next.    *)
(***************************************************************************)

LEMMA ShownFree ==
  ASSUME NEW STATE o, \A q \in Replies : ~TurnOn(q, o)
  PROVE  Shown(o) = heap[o]
  BY DEF Shown

LEMMA ShownTurn ==
  ASSUME OneTurnAtATime, era = 0, NEW r \in Replies, InTurn(r)
  PROVE  Shown(req[r].obj) = [before[r][1] EXCEPT !.brief = heap[req[r].obj].brief]
  <1> DEFINE o == req[r].obj
  <1>1. TurnOn(r, o)
    BY DEF TurnOn
  <1>2. \A q \in Replies : TurnOn(q, o) => q = r
    BY DEF TurnOn, OneTurnAtATime
  <1>3. (CHOOSE q \in Replies : TurnOn(q, o)) = r
    BY <1>1, <1>2
  <1> QED BY <1>1, <1>3 DEF Shown

\* An object no turn begins or ends on.
LEMMA ShownStays ==
  ASSUME OneTurnAtATime, era = 0, NEW o,
         \A q \in Replies : TurnOn(q, o)' <=> TurnOn(q, o),
         \A q \in Replies : TurnOn(q, o) => before'[q] = before[q],
         (\E q \in Replies : TurnOn(q, o)) => heap'[o].brief = heap[o].brief,
         (\A q \in Replies : ~TurnOn(q, o)) => heap'[o] = heap[o]
  PROVE  Shown(o)' = Shown(o)
  <1>1. CASE \A q \in Replies : ~TurnOn(q, o)
    BY <1>1 DEF Shown
  <1>2. ASSUME NEW r \in Replies, TurnOn(r, o)
        PROVE  Shown(o)' = Shown(o)
    <2>1. \A q \in Replies : TurnOn(q, o) <=> q = r
      BY <1>2 DEF TurnOn, OneTurnAtATime
    <2>2. (CHOOSE q \in Replies : TurnOn(q, o)) = r
      BY <2>1
    <2>3. (CHOOSE q \in Replies : TurnOn(q, o))' = r
      <3>1. \A q \in Replies : TurnOn(q, o)' <=> q = r
        BY <2>1
      <3> QED BY <3>1
    <2> QED BY <1>2, <2>1, <2>2, <2>3 DEF Shown
  <1> QED BY <1>1, <1>2

LEMMA RequestKnown ==
  ASSUME NEW STATE q, q \in Request
  PROVE  q # NoRequest
  BY DEF Request, NoRequest

Asked == [r \in Replies |-> AskedOf(r)]

\* A request is what the client sent; the lock it works with is not part of it.
LEMMA AskedStays ==
  ASSUME TypeInv, OneTurnAtATime, NEW r \in Replies, ReplyStep(r)
  PROVE  UNCHANGED Asked
  <1>1. CASE UNCHANGED req
    BY <1>1 DEF Asked, AskedOf
  <1>2. CASE ReplyTurnLock(r)
    <2>1. req[r] \in Request
      BY ReplyWrites DEF TypeInv, RequestsFormed
    <2>2. req' = [req EXCEPT ![r] = [req[r] EXCEPT !.lock = TurnLock(req[r].conv)]]
      BY <1>2 DEF ReplyTurnLock
    <2>3. \A s \in Replies \ {r} : req'[s] = req[s]
      BY <2>2 DEF TypeInv, TypeOK
    <2>4. req'[r] = [req[r] EXCEPT !.lock = TurnLock(req[r].conv)]
      BY <2>2 DEF TypeInv, TypeOK
    <2>5. /\ req'[r].conv = req[r].conv /\ req'[r].msg = req[r].msg
          /\ req'[r].obj = req[r].obj
          /\ req[r] # NoRequest /\ req'[r] # NoRequest
      BY <2>1, <2>4 DEF Request, NoRequest
    <2> QED BY <2>3, <2>5 DEF Asked, AskedOf
  <1> QED
    BY <1>1, <1>2
       DEF ReplyStep, ReplyAcquire, ReplyAlreadyEnded, ReplyClassify, ReplyWait, ReplyEnd,
           ReplySuppress, ReplyNoContext, ReplyToCompose, ReplyCompose, ReplyReject,
           ReplyPassVet, ReplySend

\* The objects that the step of a reply is not about.
LEMMA ReplyShowsOthers ==
  ASSUME TypeInv, OneTurnAtATime, era = 0, NEW r \in Replies, ReplyStep(r), Note,
         NEW o \in DOMAIN heap, o # req[r].obj
  PROVE  Shown(o)' = Shown(o)
  <1>1. heap'[o] = heap[o] /\ req'[r].obj # o
    BY ReplyWrites, ReplyKeepsObject
  <1>2. \A q \in Replies \ {r} : UNCHANGED <<rpc[q], req[q]>>
    BY ReplyApart
  <1>3. \A q \in Replies : TurnOn(q, o)' <=> TurnOn(q, o)
    BY <1>1, <1>2 DEF TurnOn, InTurn
  <1>4. \A q \in Replies : TurnOn(q, o) => before'[q] = before[q]
    BY <1>3, NoteBefore DEF TurnOn
  <1> QED BY <1>1, <1>3, <1>4, ShownStays

\* A reply that has answered shows what it made of the conversation.
LEMMA ReturnShows ==
  ASSUME TypeInv, OneTurnAtATime, era = 0, NEW r \in Replies, ReplyStep(r), Note,
         InTurn(r), rpc'[r] = "done"
  PROVE  ShownHeap' = [ShownHeap EXCEPT ![req[r].obj] = heap'[req[r].obj]]
  <1> PICK o \in DOMAIN heap : o = req[r].obj
    BY ReplyWrites
  <1>1. Len(heap') = Len(heap) /\ DOMAIN heap = 1 .. Len(heap)
    <2>1. heap \in Seq(ConversationState)
      BY DEF TypeInv, TypeOK
    <2> QED BY <2>1, ReplyHeap
  <1>2. Shown(o)' = heap'[o]
    <2>1. ASSUME NEW q \in Replies \ {r}
          PROVE  ~TurnOn(q, o)'
      <3>1. UNCHANGED <<rpc[q], req[q]>>
        BY ReplyApart
      <3> QED BY <3>1 DEF TurnOn, InTurn, OneTurnAtATime
    <2>2. ~TurnOn(r, o)'
      BY DEF TurnOn, InTurn
    <2>3. \A q \in Replies : ~TurnOn(q, o)'
      BY <2>1, <2>2
    <2> QED BY <2>3 DEF Shown
  <1>3. \A p \in DOMAIN heap : p # o => Shown(p)' = Shown(p)
    BY ReplyShowsOthers
  <1> QED BY <1>1, <1>2, <1>3 DEF ShownHeap

\* Until then it shows the conversation as the reply found it.
LEMMA InnerShows ==
  ASSUME TypeInv, OneTurnAtATime, OneTurnAtATime', era = 0, era' = 0, NEW r \in Replies,
         ReplyStep(r), Note, InTurn(r) => InTurn(r)',
         InTurn(r)' /\ ~InTurn(r) => heap' = heap,
         ~InTurn(r)' => heap' = heap,
         heap'[req[r].obj].brief = heap[req[r].obj].brief
  PROVE  ShownHeap' = ShownHeap
  <1> PICK o \in DOMAIN heap : o = req[r].obj
    BY ReplyWrites
  <1>1. /\ Len(heap') = Len(heap) /\ DOMAIN heap = 1 .. Len(heap)
        /\ heap[o] \in ConversationState
        /\ req'[r].obj = o
    <2>1. heap \in Seq(ConversationState)
      BY DEF TypeInv, TypeOK
    <2> QED BY <2>1, ReplyWrites, ReplyHeap, ReplyKeepsObject
  <1>2. \A q \in Replies \ {r} : UNCHANGED <<rpc[q], req[q]>>
    BY ReplyApart
  <1>3. ASSUME InTurn(r) <=> InTurn(r)'
        PROVE  Shown(o)' = Shown(o)
    <2>1. \A q \in Replies : TurnOn(q, o)' <=> TurnOn(q, o)
      BY <1>1, <1>2, <1>3 DEF TurnOn, InTurn
    <2>2. \A q \in Replies : TurnOn(q, o) => before'[q] = before[q]
      BY <2>1, NoteBefore DEF TurnOn
    <2>3. (\A q \in Replies : ~TurnOn(q, o)) => heap' = heap
      BY <1>3 DEF TurnOn
    <2> QED BY <2>1, <2>2, <2>3, ShownStays
  <1>4. ASSUME InTurn(r)', ~InTurn(r)
        PROVE  Shown(o)' = Shown(o)
    <2>1. /\ TurnOn(r, o)'
          /\ before'[r] = <<heap[o]>>
          /\ heap' = heap
      BY <1>1, <1>4, NoteBefore DEF TurnOn
    <2>2. \A q \in Replies : TurnOn(q, o)' => q = r
      BY <2>1 DEF TurnOn, OneTurnAtATime
    <2>3. \A q \in Replies : ~TurnOn(q, o)
      BY <1>2, <1>4, <2>2 DEF TurnOn, InTurn
    <2>4. (CHOOSE q \in Replies : TurnOn(q, o))' = r
      BY <2>1, <2>2
    <2>5. Shown(o)' = [heap[o] EXCEPT !.brief = heap[o].brief]
      <3>1. Shown(o)' = [before'[r][1] EXCEPT !.brief = heap'[o].brief]
        BY <2>1, <2>4 DEF Shown
      <3>2. before'[r][1] = heap[o] /\ heap'[o] = heap[o]
        BY <2>1
      <3> QED BY <3>1, <3>2
    <2>6. Shown(o) = heap[o]
      BY <2>3, ShownFree
    <2> QED BY <1>1, <2>5, <2>6 DEF ConversationState
  <1>5. Shown(o)' = Shown(o)
    BY <1>3, <1>4
  <1>6. \A p \in DOMAIN heap : p # o => Shown(p)' = Shown(p)
    BY ReplyShowsOthers
  <1> QED BY <1>1, <1>5, <1>6 DEF ShownHeap

-------------------------------------------------------------------------------
(***************************************************************************)
(* Every step maps to a step of SerialReplies or to none.                  *)
(***************************************************************************)

\* A reply in its turn is pending, and its subject is what the turn found.
LEMMA SubjectFields ==
  ASSUME TypeInv, TurnInv, OneTurnAtATime, BeforeInv, era = 0, NEW r \in Replies, InTurn(r)
  PROVE  LET s == Serial!Subject(r) IN
         /\ Serial!Pending(r)
         /\ s = Shown(req[r].obj)
         /\ s \in ConversationState
         /\ s.conv = Conv(r).conv /\ s.merchant = Conv(r).merchant /\ s.hits = Conv(r).hits
         /\ s.sent = Conv(r).sent /\ s.brief = Conv(r).brief
         /\ s.status = before[r][1].status
         /\ Since(r, Conv(r).last, Conv(r).status)
         /\ rpc[r] = "locked" => s.last = Conv(r).last /\ s.status = Conv(r).status
         /\ rpc[r] # "locked" =>
               /\ s.status # "ended"
               /\ Conv(r).last = req[r].msg
               /\ Serial!Verdict(r) = verdict[r]
         /\ rpc[r] \in {"apply", "compose", "vet", "record"} => Conv(r).status = s.status
  <1> PICK o \in DOMAIN heap : o = req[r].obj
    BY DEF TypeInv, RequestsFormed, InTurn
  <1> DEFINE b == before[r][1]
  <1>1. o \in 1 .. Len(heap) /\ heap[o] \in ConversationState /\ o # NoConv
    <2>1. heap \in Seq(ConversationState)
      BY DEF TypeInv, TypeOK
    <2> QED BY <2>1, HeapObject DEF TypeInv, NoConv
  <1>2. req[r] \in Request /\ req[r] # NoRequest
    BY RequestKnown DEF TypeInv, RequestsFormed, InTurn
  <1>3. AskedOf(r).obj = o /\ AskedOf(r).msg = req[r].msg
    BY <1>2 DEF AskedOf
  <1>4. Serial!Subject(r) = Shown(o)
    BY <1>1, <1>3 DEF Serial!Subject, ShownHeap
  <1>5. answer[r] = NoAnswer
    BY DEF TurnInv, AnswerFacts, InTurn
  <1>6. Serial!Pending(r)
    BY <1>1, <1>3, <1>5 DEF Serial!Pending, Serial!NoAnswer, NoAnswer, Serial!NoConv, NoConv
  <1>7. BeforeFacts(r)
    BY DEF BeforeInv
  <1>8. Shown(o) = [b EXCEPT !.brief = heap[o].brief]
    BY ShownTurn
  <1>9. b \in ConversationState
    BY <1>7 DEF BeforeFacts
  <1>10. /\ Shown(o).conv = b.conv /\ Shown(o).merchant = b.merchant /\ Shown(o).hits = b.hits
         /\ Shown(o).sent = b.sent /\ Shown(o).status = b.status /\ Shown(o).last = b.last
         /\ Shown(o).brief = heap[o].brief
         /\ Shown(o) \in ConversationState
    <2> HIDE DEF b
    <2> QED BY <1>1, <1>8, <1>9 DEF ConversationState
  <1>11. Since(r, Conv(r).last, Conv(r).status)
    BY <1>7 DEF BeforeFacts, Since, InTurn
  <1>12. rpc[r] = "locked" => Conv(r).last = b.last /\ Conv(r).status = b.status
    BY <1>7 DEF BeforeFacts, Since
  <1>13. rpc[r] # "locked" => Conv(r).last = req[r].msg /\ b.status # "ended"
                                /\ verdict[r] = DecideReply(req[r].msg, b.last, b.hits)
    BY <1>7 DEF BeforeFacts, Since, InTurn
  <1>14. rpc[r] \in {"apply", "compose", "vet", "record"} => Conv(r).status = b.status
    BY <1>7 DEF BeforeFacts, Since
  <1>15. Serial!Verdict(r) = DecideReply(req[r].msg, b.last, b.hits)
    BY <1>3, <1>4, <1>10 DEF Serial!Verdict, Serial!DecideReply, DecideReply, ClassifyKind, Serial!ClassifyKind
  <1>16. Conv(r) = heap[o]
    BY DEF Conv
  <1> QED
    BY <1>4, <1>6, <1>10, <1>11, <1>12, <1>13, <1>14, <1>15, <1>16 DEF Since

LEMMA SameConversation ==
  ASSUME NEW x \in ConversationState, NEW y \in ConversationState,
         x.conv = y.conv, x.merchant = y.merchant, x.status = y.status, x.hits = y.hits,
         x.last = y.last, x.sent = y.sent, x.brief = y.brief
  PROVE  x = y
  BY DEF ConversationState

\* The conversation with the message in it is what the reply works on from there.
LEMMA HeardFields ==
  ASSUME TypeInv, TurnInv, OneTurnAtATime, BeforeInv, era = 0, NEW r \in Replies,
         rpc[r] \in {"apply", "suppress", "compose", "vet", "record"}
  PROVE  /\ rpc[r] # "suppress" => Serial!Heard(r) = Conv(r)
         /\ rpc[r] = "suppress" => Serial!Ended(r) = Conv(r)
  <1> DEFINE s == Serial!Subject(r)
             h == Serial!Heard(r)
             e == Serial!Ended(r)
             m == req[r].msg
  <1>1. InTurn(r)
    BY DEF InTurn
  <1>2. /\ s \in ConversationState
        /\ s.conv = Conv(r).conv /\ s.merchant = Conv(r).merchant /\ s.hits = Conv(r).hits
        /\ s.sent = Conv(r).sent /\ s.brief = Conv(r).brief
        /\ Conv(r).last = m
        /\ rpc[r] # "suppress" => Conv(r).status = s.status
    BY <1>1, SubjectFields
  <1>3. /\ req[r] \in Request /\ req[r] # NoRequest /\ Conv(r) \in ConversationState
    BY <1>1, RequestKnown, HeapObject DEF TypeInv, RequestsFormed, InTurn, Conv
  <1>4. h = [s EXCEPT !.last = m]
    BY <1>3 DEF Serial!Heard, AskedOf
  <1>5. e = [h EXCEPT !.status = "ended"]
    BY DEF Serial!Ended
  <1>6. m \in Messages
    BY <1>3 DEF Request
  <1>7. rpc[r] = "suppress" => Conv(r).status = "ended"
    BY <1>1 DEF BeforeInv, BeforeFacts, Since
  <1> HIDE DEF s, h, e, m
  <1>8. /\ h \in ConversationState
        /\ h.conv = s.conv /\ h.merchant = s.merchant /\ h.hits = s.hits
        /\ h.sent = s.sent /\ h.brief = s.brief /\ h.last = m /\ h.status = s.status
    BY <1>2, <1>4, <1>6 DEF ConversationState
  <1>9. /\ e \in ConversationState
        /\ e.conv = h.conv /\ e.merchant = h.merchant /\ e.hits = h.hits
        /\ e.sent = h.sent /\ e.brief = h.brief /\ e.last = h.last /\ e.status = "ended"
    BY <1>5, <1>8 DEF ConversationState, Status
  <1>10. rpc[r] # "suppress" => h = Conv(r)
    BY <1>2, <1>3, <1>8, SameConversation
  <1>11. rpc[r] = "suppress" => e = Conv(r)
    BY <1>2, <1>3, <1>7, <1>8, <1>9, SameConversation
  <1> QED BY <1>10, <1>11 DEF h, e

\* What is the same in every answer: the conversation left behind, the response, and
\* that nothing else moved.
LEMMA ReturnMaps ==
  ASSUME TypeInv, TurnInv, OneTurnAtATime, BeforeInv, era = 0, NEW r \in Replies,
         ReplyStep(r), Note, InTurn(r),
         NEW action, NEW body, NEW why, Return(r, action, body, why)
  PROVE  /\ Serial!Leave(r, heap'[req[r].obj])
         /\ Serial!Reply(r, action, body, why)
         /\ UNCHANGED <<table, Asked>>
         /\ Serial!Pending(r)
  <1>1. rpc'[r] = "done" /\ UNCHANGED table
    BY DEF Return, Respond, ReplyGoto, TypeInv, TypeOK
  <1>2. AskedOf(r).obj = req[r].obj
    BY RequestKnown DEF AskedOf, TypeInv, RequestsFormed, InTurn
  <1>3. Serial!Leave(r, heap'[req[r].obj])
    BY <1>1, <1>2, ReturnShows DEF Serial!Leave
  <1>4. Serial!Reply(r, action, body, why)
    BY DEF Return, Respond, Serial!Reply
  <1> QED BY <1>1, <1>3, <1>4, AskedStays, SubjectFields

\* Each way out of a turn is the indivisible turn of the same outcome.
LEMMA AnswerMaps ==
  ASSUME TypeInv, TurnInv, OneTurnAtATime, BeforeInv, era = 0, NEW r \in Replies,
         ReplyStep(r), Note, rpc'[r] = "done"
  PROVE  Serial!Turn(r)
  <1> DEFINE o == req[r].obj
             s == Serial!Subject(r)
  <1>1. /\ o \in DOMAIN heap
        /\ heap[o] \in ConversationState
        /\ Conv(r) = heap[o]
    BY ReplyWrites DEF Conv
  <1>2. InTurn(r)
    BY DEF ReplyStep, ReplyTurnLock, ReplyAcquire, ReplyAlreadyEnded, ReplyClassify, ReplyWait,
           ReplyEnd, ReplySuppress, ReplyNoContext, ReplyToCompose, ReplyCompose, ReplyReject,
           ReplyPassVet, ReplySend, ReplyGoto, InTurn, TypeInv, TypeOK
  <1>3. ASSUME NEW action, NEW body, NEW why, Return(r, action, body, why)
        PROVE  /\ Serial!Leave(r, heap'[o])
               /\ Serial!Reply(r, action, body, why)
               /\ UNCHANGED <<table, Asked>>
               /\ Serial!Pending(r)
    BY <1>2, <1>3, ReturnMaps
  <1>4. /\ s \in ConversationState
        /\ s.merchant = Conv(r).merchant /\ s.hits = Conv(r).hits /\ s.sent = Conv(r).sent
        /\ s.brief = Conv(r).brief
        /\ rpc[r] # "locked" =>
              s.status # "ended" /\ Serial!Verdict(r) = verdict[r] /\ Conv(r).last = req[r].msg
        /\ rpc[r] = "locked" => s = heap[o]
    <2>1. rpc[r] = "locked" => s = heap[o]
      <3> SUFFICES ASSUME rpc[r] = "locked" PROVE s = heap[o]
        OBVIOUS
      <3>1. /\ s \in ConversationState
            /\ s.conv = heap[o].conv /\ s.merchant = heap[o].merchant
            /\ s.status = heap[o].status /\ s.hits = heap[o].hits
            /\ s.last = heap[o].last /\ s.sent = heap[o].sent /\ s.brief = heap[o].brief
        BY <1>1, <1>2, SubjectFields
      <3> HIDE DEF s, o
      <3> QED BY <1>1, <3>1, SameConversation
    <2> QED BY <1>2, <2>1, SubjectFields
  <1>5. ASSUME rpc[r] \in {"apply", "compose", "vet", "record"}
        PROVE  Serial!Heard(r) = heap[o]
    BY <1>1, <1>5, HeardFields
  <1>6. ASSUME rpc[r] \in {"compose", "vet", "record"}
        PROVE  verdict[r].action = "send" /\ Conv(r).brief
    BY <1>2, <1>6 DEF BeforeInv, BeforeFacts
  <1>7. CASE ReplyAlreadyEnded(r)
    <2>1. rpc[r] = "locked" /\ heap' = heap /\ UNCHANGED optedOut /\ Conv(r).status = "ended"
            /\ Return(r, "end", NoBody, "already_ended")
      BY <1>7 DEF ReplyAlreadyEnded, suppressionVars
    <2>2. ShownHeap' = ShownHeap
      <3>1. ShownHeap' = [ShownHeap EXCEPT ![o] = heap[o]]
        BY <1>2, <2>1, ReturnShows DEF Return, Respond, ReplyGoto, TypeInv, TypeOK
      <3>2. ShownHeap[o] = heap[o]
        <4>1. AskedOf(r).obj = o
          BY <1>2, RequestKnown DEF AskedOf, TypeInv, RequestsFormed, InTurn
        <4> QED BY <1>4, <2>1, <4>1 DEF Serial!Subject
      <3> QED BY <3>1, <3>2 DEF ShownHeap
    <2> QED
      BY <1>1, <1>3, <1>4, <2>1, <2>2 DEF Serial!Turn, Serial!AfterEnd, Asked
  <1>8. CASE ReplyWait(r)
    <2>1. /\ rpc[r] = "apply" /\ verdict[r].action = "wait" /\ UNCHANGED optedOut
          /\ Return(r, "wait", NoBody, "policy")
          /\ heap'[o] = [heap[o] EXCEPT !.hits = heap[o].hits + 1, !.status = "waiting"]
      BY <1>1, <1>8 DEF ReplyWait, suppressionVars
    <2>2. heap'[o] = [Serial!Heard(r) EXCEPT !.hits = @ + 1, !.status = "waiting"]
      BY <1>5, <2>1
    <2> QED BY <1>3, <1>4, <2>1, <2>2 DEF Serial!Turn, Serial!BackOff, Asked
  <1>9. CASE ReplyEnd(r)
    <2>1. /\ rpc[r] = "apply" /\ verdict[r].action = "end" /\ UNCHANGED optedOut
          /\ verdict[r].kind # "hostile_optout"
          /\ Return(r, "end", NoBody, "policy")
          /\ heap'[o] = [heap[o] EXCEPT !.status = "ended"]
      BY <1>1, <1>9 DEF ReplyEnd, End, SetConv, ReplyGoto, suppressionVars, TypeInv, TypeOK
    <2>2. heap'[o] = Serial!Ended(r)
      BY <1>5, <2>1 DEF Serial!Ended
    <2> QED BY <1>3, <1>4, <2>1, <2>2 DEF Serial!Turn, Serial!Stop, Asked
  <1>10. CASE ReplySuppress(r)
    <2>1. /\ rpc[r] = "suppress" /\ heap' = heap
          /\ optedOut' = optedOut \cup {Conv(r).merchant}
          /\ Return(r, "end", NoBody, "policy")
      BY <1>10 DEF ReplySuppress, SuppressMerchant
    <2>2. heap'[o] = Serial!Ended(r)
      BY <1>1, <2>1, HeardFields
    <2>3. verdict[r].action = "end" /\ verdict[r].kind = "hostile_optout"
      BY <1>2, <2>1 DEF BeforeInv, BeforeFacts
    <2> QED BY <1>3, <1>4, <2>1, <2>2, <2>3 DEF Serial!Turn, Serial!Stop, Asked
  <1>11. ASSUME rpc[r] \in {"apply", "vet"}, verdict[r].action = "send", End(r),
                UNCHANGED optedOut,
                NEW why \in {"no_context", "unsendable", "repeat"},
                Return(r, "end", NoBody, why),
                why = "no_context" <=> ~Conv(r).brief, why = "repeat" => Conv(r).sent # {}
         PROVE  Serial!Turn(r)
    <2>1. heap'[o] = [heap[o] EXCEPT !.status = "ended"]
      BY <1>1, <1>11 DEF End, SetConv
    <2>2. heap'[o] = Serial!Ended(r)
      BY <1>5, <1>11, <2>1 DEF Serial!Ended
    <2> QED BY <1>3, <1>4, <1>11, <2>2 DEF Serial!Turn, Serial!GiveUp, Asked
  <1>12. CASE ReplyNoContext(r)
    BY <1>11, <1>12 DEF ReplyNoContext, suppressionVars
  <1>13. CASE ReplyReject(r)
    <2>1. /\ rpc[r] = "vet" /\ End(r) /\ UNCHANGED optedOut
          /\ composed[r] = NoBody \/ composed[r] \in Conv(r).sent
      BY <1>13 DEF ReplyReject, suppressionVars
    <2>2. CASE composed[r] = NoBody
      BY <1>6, <1>11, <1>13, <2>1, <2>2 DEF ReplyReject
    <2>3. CASE composed[r] # NoBody
      BY <1>6, <1>11, <1>13, <2>1, <2>3 DEF ReplyReject
    <2> QED BY <2>2, <2>3
  <1>14. CASE ReplySend(r)
    <2>1. /\ rpc[r] = "record" /\ UNCHANGED optedOut
          /\ Return(r, "send", composed[r], "policy")
          /\ heap'[o] = [heap[o] EXCEPT !.sent = heap[o].sent \cup {composed[r]}]
      BY <1>1, <1>14 DEF ReplySend, SetConv, suppressionVars
    <2>2. composed[r] \in Bodies \ s.sent
      BY <1>4, <2>1 DEF TurnInv, TurnFacts, TypeInv, RequestsFormed
    <2>3. heap'[o] = [Serial!Heard(r) EXCEPT !.sent = @ \cup {composed[r]}]
      BY <1>5, <2>1
    <2> QED BY <1>3, <1>4, <1>6, <2>1, <2>2, <2>3 DEF Serial!Turn, Serial!Send, Asked
  <1>15. ASSUME NEW label \in ReplyPC \ {"done"}, ReplyGoto(r, label)
         PROVE  FALSE
    BY <1>15 DEF ReplyGoto, TypeInv, TypeOK
  <1> QED
    BY <1>7, <1>8, <1>9, <1>10, <1>12, <1>13, <1>14, <1>15
       DEF ReplyStep, ReplyTurnLock, ReplyAcquire, ReplyClassify, ReplyToCompose, ReplyCompose,
           ReplyPassVet, ReplyPC

\* A reply that has not answered yet shows nothing of what it did.
LEMMA InnerStutters ==
  ASSUME TypeInv, OneTurnAtATime, OneTurnAtATime', BeforeInv, era = 0, era' = 0,
         NEW r \in Replies, ReplyStep(r), Note, rpc'[r] # "done"
  PROVE  UNCHANGED Serial!serialVars
  <1> DEFINE o == req[r].obj
  <1>1. /\ o \in DOMAIN heap
        /\ heap[o] \in ConversationState
        /\ Conv(r) = heap[o]
    BY ReplyWrites DEF Conv
  <1>2. ASSUME NEW label \in ReplyPC, ReplyGoto(r, label)
        PROVE  rpc'[r] = label
    BY <1>2 DEF ReplyGoto, TypeInv, TypeOK
  <1>3. ASSUME NEW action, NEW body, NEW why, Return(r, action, body, why)
        PROVE  FALSE
    BY <1>3 DEF Return, Respond, ReplyGoto, TypeInv, TypeOK
  <1>4. /\ UNCHANGED <<answer, optedOut>>
        /\ InTurn(r) => InTurn(r)'
        /\ InTurn(r)' /\ ~InTurn(r) => heap' = heap
        /\ ~InTurn(r)' => heap' = heap
        /\ heap'[o].brief = heap[o].brief
    <2>1. CASE ReplyTurnLock(r) \/ ReplyAcquire(r) \/ ReplyToCompose(r) \/ ReplyCompose(r)
                 \/ ReplyPassVet(r)
      <3>1. UNCHANGED <<answer, optedOut, heap>>
        BY <2>1 DEF ReplyTurnLock, ReplyAcquire, ReplyToCompose, ReplyCompose, ReplyPassVet,
                    convVars, suppressionVars
      <3>2. InTurn(r) => InTurn(r)'
        BY <1>2, <2>1 DEF ReplyTurnLock, ReplyAcquire, ReplyToCompose, ReplyCompose,
                          ReplyPassVet, InTurn, ReplyPC
      <3> QED BY <3>1, <3>2
    <2>2. CASE ReplyClassify(r)
      <3>1. /\ UNCHANGED <<answer, optedOut>> /\ rpc[r] = "locked" /\ rpc'[r] = "apply"
            /\ heap'[o] = [heap[o] EXCEPT !.last = req[r].msg]
        BY <1>1, <1>2, <2>2 DEF ReplyClassify, SetConv, ReplyPC, suppressionVars
      <3>2. heap'[o].brief = heap[o].brief
        BY <1>1, <3>1 DEF ConversationState
      <3> QED BY <3>1, <3>2 DEF InTurn
    <2>3. CASE ReplyEnd(r)
      <3>1. /\ UNCHANGED <<answer, optedOut>> /\ rpc[r] = "apply" /\ rpc'[r] = "suppress"
            /\ heap'[o] = [heap[o] EXCEPT !.status = "ended"]
        BY <1>1, <1>2, <1>3, <2>3 DEF ReplyEnd, End, SetConv, ReplyPC, suppressionVars
      <3>2. heap'[o].brief = heap[o].brief
        BY <1>1, <3>1 DEF ConversationState
      <3> QED BY <3>1, <3>2 DEF InTurn
    <2> QED
      BY <1>3, <2>1, <2>2, <2>3
         DEF ReplyStep, ReplyAlreadyEnded, ReplyWait, ReplySuppress, ReplyNoContext,
             ReplyReject, ReplySend
  <1>5. UNCHANGED <<table, ShownHeap, Asked>>
    BY <1>4, ReplyStore, InnerShows, AskedStays
  <1> QED BY <1>4, <1>5 DEF Serial!serialVars, Asked

\* A step of no reply that leaves an object alone leaves alone what it shows.
LEMMA QuietShown ==
  ASSUME OneTurnAtATime, era = 0, UNCHANGED <<rpc, req>>, Note \/ UNCHANGED before, NEW o,
         heap'[o] = heap[o]
  PROVE  Shown(o)' = Shown(o)
  <1>1. \A q \in Replies : TurnOn(q, o)' <=> TurnOn(q, o)
    BY DEF TurnOn, InTurn
  <1>2. \A q \in Replies : TurnOn(q, o) => before'[q] = before[q]
    BY <1>1, NoteBefore DEF TurnOn
  <1> QED BY <1>1, <1>2, ShownStays

LEMMA QuietStutters ==
  ASSUME OneTurnAtATime, era = 0, UNCHANGED <<replyVars, table, heap, optedOut>>,
         Note \/ UNCHANGED before
  PROVE  UNCHANGED Serial!serialVars
  <1>1. UNCHANGED <<rpc, req, answer>>
    BY DEF replyVars
  <1>2. \A o : Shown(o)' = Shown(o)
    BY <1>1, QuietShown
  <1> QED BY <1>1, <1>2 DEF Serial!serialVars, ShownHeap, AskedOf

LEMMA ArriveAsks ==
  ASSUME TypeInv, TurnInv, CopyInv, OneTurnAtATime, era = 0, NEW r \in Replies,
         ReplyArrive(r), Note
  PROVE  Serial!Ask(r)
  <1>1. PICK c \in Convs, m \in Messages :
          /\ req' = [req EXCEPT ![r] =
                [conv |-> c, msg |-> m, obj |-> table[c], lock |-> TurnLock(c)]]
          /\ IF IsReserved(c)
             THEN ReplyGoto(r, "found") /\ UNCHANGED answer
             ELSE Respond(r, "end", NoBody, "unknown_conversation")
    BY DEF ReplyArrive
  <1>2. rpc[r] = "idle" /\ UNCHANGED <<table, heap, optedOut>>
    BY DEF ReplyArrive, convVars, suppressionVars
  <1>3. answer[r] = NoAnswer /\ req[r] = NoRequest
    BY <1>2 DEF TurnInv, AnswerFacts, CopyInv, CopyFacts
  <1>4. /\ ~InTurn(r)'
        /\ \A q \in Replies \ {r} : UNCHANGED <<rpc[q], req[q]>>
    BY <1>1 DEF ReplyGoto, Respond, InTurn, TypeInv, TypeOK
  <1>5. \A o : Shown(o)' = Shown(o)
    <2> TAKE o
    <2>1. \A q \in Replies : TurnOn(q, o)' <=> TurnOn(q, o)
      BY <1>2, <1>4 DEF TurnOn, InTurn
    <2>2. \A q \in Replies : TurnOn(q, o) => before'[q] = before[q]
      BY <2>1, NoteBefore DEF TurnOn
    <2> QED BY <1>2, <2>1, <2>2, ShownStays
  <1>6. req'[r] = [conv |-> c, msg |-> m, obj |-> table[c], lock |-> TurnLock(c)]
    BY <1>1 DEF TypeInv, TypeOK
  <1>7. req'[r] # NoRequest
    BY <1>6 DEF NoRequest
  <1>8. Asked' = [Asked EXCEPT ![r] = [conv |-> c, msg |-> m, obj |-> table[c]]]
    <2>1. AskedOf(r)' = [conv |-> c, msg |-> m, obj |-> table[c]]
      BY <1>6, <1>7 DEF AskedOf
    <2>2. \A q \in Replies \ {r} : AskedOf(q)' = AskedOf(q)
      BY <1>4 DEF AskedOf
    <2> QED BY <2>1, <2>2 DEF Asked
  <1>9. Asked[r] = Serial!NotAsked
    BY <1>3 DEF Asked, AskedOf, NoRequest, Serial!NotAsked, NoConv, Serial!NoConv
  <1>10. IF Serial!IsReserved(c) THEN UNCHANGED answer
         ELSE Serial!Reply(r, "end", NoBody, "unknown_conversation")
    BY <1>1 DEF Serial!IsReserved, IsReserved, Serial!NoConv, NoConv, Respond, Serial!Reply
  <1>11. answer[r] = Serial!NoAnswer
    BY <1>3 DEF NoAnswer, Serial!NoAnswer
  <1>12. UNCHANGED <<table, ShownHeap, optedOut>>
    BY <1>2, <1>5 DEF ShownHeap
  <1> QED BY <1>8, <1>9, <1>10, <1>11, <1>12 DEF Serial!Ask, Asked

LEMMA ShownSeq ==
  ASSUME TypeOK
  PROVE  /\ ShownHeap \in Seq({Shown(o) : o \in DOMAIN heap})
         /\ Len(ShownHeap) = Len(heap)
         /\ DOMAIN heap = 1 .. Len(heap)
  <1> DEFINE S == {Shown(o) : o \in DOMAIN heap}
  <1>1. Len(heap) \in Nat /\ DOMAIN heap = 1 .. Len(heap)
    BY LenProperties DEF TypeOK
  <1>2. ShownHeap \in [1 .. Len(heap) -> S]
    BY <1>1 DEF ShownHeap
  <1> HIDE DEF S
  <1>3. ShownHeap \in Seq(S)
    BY <1>1, <1>2
  <1>4. DOMAIN ShownHeap = 1 .. Len(ShownHeap) /\ Len(ShownHeap) \in Nat
    BY <1>3, LenProperties
  <1>5. DOMAIN ShownHeap = 1 .. Len(heap)
    BY <1>2
  <1>6. ASSUME NEW m \in Nat, NEW n \in Nat, 1 .. m = 1 .. n
        PROVE  m = n
    <2>1. \A i \in Nat : i \in 1 .. m <=> i \in 1 .. n
      BY <1>6
    <2>2. (m >= 1 => n >= m) /\ (n >= 1 => m >= n)
      BY <2>1, SMTT(20)
    <2> QED BY <2>2
  <1>7. Len(ShownHeap) = Len(heap)
    BY <1>1, <1>4, <1>5, <1>6
  <1> QED BY <1>1, <1>3, <1>7 DEF S

\* A tick reserves, gives back or briefs a conversation, in the middle of a turn or not.
LEMMA TickShows ==
  ASSUME TypeInv, OneTurnAtATime, OneTurnAtATime', era = 0, NEW t \in Ticks,
         TickArrive(t) \/ TickStep(t), UNCHANGED replyVars, Note
  PROVE  Serial!TickEffect \/ UNCHANGED Serial!serialVars
  <1>1. UNCHANGED <<rpc, req, answer, era, held, optedOut>>
    BY TickStore DEF replyVars
  <1>2. UNCHANGED Asked
    BY <1>1 DEF Asked, AskedOf
  <1>3. ASSUME NEW o, heap'[o] = heap[o]
        PROVE  Shown(o)' = Shown(o)
    BY <1>1, <1>3, QuietShown
  <1>4. heap \in Seq(ConversationState) /\ Len(heap) \in Nat /\ DOMAIN heap = 1 .. Len(heap)
    BY LenProperties DEF TypeInv, TypeOK
  <1>5. TypeOK /\ TicksFormed
    BY DEF TypeInv
  <1>6. CASE TickReserve(t) /\ Reserve(ConvOfTick(t), MerchantOfTick(t))
    <2> DEFINE c == ConvOfTick(t)
               m == MerchantOfTick(t)
    <2> PICK n \in Nat : n = Len(heap) + 1
      BY <1>4
    <2>1. c \in Convs /\ m \in Merchants
      BY <1>5, <1>6, CurrentTrigger DEF TicksFormed, TickReserve
    <2>2. /\ Len(heap') = n
          /\ heap' \in Seq(ConversationState)
          /\ heap'[n] = NewConversation(c, m)
          /\ \A o \in DOMAIN heap : heap'[o] = heap[o]
      <3>1. NewConversation(c, m) \in ConversationState
        BY <2>1 DEF NewConversation, ConversationState, Status
      <3> QED BY <1>4, <1>6, <3>1, AppendProperties DEF Reserve
    <2>3. \A o \in DOMAIN heap : Shown(o)' = Shown(o)
      BY <1>3, <2>2
    <2>4. \A q \in Replies : InTurn(q) => req[q].obj \in DOMAIN heap
      BY DEF TypeInv, RequestsFormed, InTurn
    <2>5. Shown(n)' = heap'[n]
      <3>1. \A q \in Replies : ~TurnOn(q, n)'
        BY <1>1, <1>4, <2>4 DEF TurnOn, InTurn
      <3> QED BY <3>1 DEF Shown
    <2>6. ShownHeap' = Append(ShownHeap, NewConversation(c, m))
      <3> DEFINE S == {Shown(o) : o \in DOMAIN heap} \cup {NewConversation(c, m)}
                 a == Append(ShownHeap, NewConversation(c, m))
      <3>1. ShownHeap \in Seq(S) /\ Len(ShownHeap) = Len(heap)
        BY <1>5, ShownSeq, SeqMonotonic
      <3>2. NewConversation(c, m) \in S
        OBVIOUS
      <3> HIDE DEF S
      <3>3. /\ a \in Seq(S)
            /\ Len(a) = n
            /\ \A i \in 1 .. Len(heap) : a[i] = ShownHeap[i]
            /\ a[n] = NewConversation(c, m)
        BY <3>1, <3>2, AppendProperties
      <3>4. a = [i \in 1 .. n |-> a[i]]
        BY <3>3, LenProperties
      <3>5. \A i \in 1 .. n : ShownHeap'[i] = a[i]
        <4>1. \A i \in 1 .. Len(heap) : ShownHeap'[i] = Shown(i)' /\ ShownHeap[i] = Shown(i)
          BY <1>4, <2>2 DEF ShownHeap
        <4>2. ShownHeap'[n] = Shown(n)'
          BY <1>4, <2>2 DEF ShownHeap
        <4> HIDE DEF a
        <4> QED BY <1>4, <2>2, <2>3, <2>5, <3>3, <4>1, <4>2
      <3>6. ShownHeap' = [i \in 1 .. n |-> ShownHeap'[i]]
        BY <2>2 DEF ShownHeap
      <3> HIDE DEF a
      <3> QED BY <3>4, <3>5, <3>6 DEF a
    <2>7. Serial!Reserve(c, m)
      <3>1. Len(ShownHeap) = Len(heap)
        BY <1>5, ShownSeq
      <3> QED BY <1>6, <2>6, <3>1
           DEF Reserve, Serial!Reserve, IsReserved, Serial!IsReserved, NoConv, Serial!NoConv,
               NewConversation, Serial!NewConversation
    <2> QED BY <1>1, <1>2, <2>1, <2>7 DEF Serial!TickEffect, Asked
  <1>7. CASE TickRelease(t)
    <2>1. ConvOfTick(t) \in Convs
      BY <1>5, <1>7, CurrentTrigger DEF TicksFormed, TickRelease, Owns
    <2>2. UNCHANGED ShownHeap
      BY <1>3, <1>7 DEF TickRelease, Release, ShownHeap
    <2>3. Serial!Release(ConvOfTick(t))
      BY <1>7, <2>2 DEF TickRelease, Release, Serial!Release, NoConv, Serial!NoConv
    <2> QED BY <1>1, <1>2, <2>1, <2>3 DEF Serial!TickEffect, Asked
  <1>8. CASE TickAttach(t)
    <2> DEFINE c == ConvOfTick(t)
    <2>1. c \in Convs
      BY <1>5, <1>8, CurrentTrigger DEF TicksFormed, TickAttach, Owns
    <2>2. CASE ~IsReserved(c)
      <3>1. UNCHANGED <<heap, ShownHeap>>
        BY <1>3, <1>8, <2>2 DEF TickAttach, AttachBrief, ShownHeap
      <3>2. Serial!AttachBrief(c)
        BY <1>8, <2>2, <3>1
           DEF TickAttach, AttachBrief, Serial!AttachBrief, IsReserved, Serial!IsReserved,
               NoConv, Serial!NoConv
      <3> QED BY <1>1, <1>2, <2>1, <3>2 DEF Serial!TickEffect, Asked
    <2>3. CASE IsReserved(c)
      <3> PICK p \in DOMAIN heap : p = table[c]
        BY <1>4, <1>5, <2>1, <2>3 DEF TypeOK, IsReserved, NoConv
      <3>1. heap' = [heap EXCEPT ![p].brief = TRUE] /\ UNCHANGED table
        BY <1>8, <2>3 DEF TickAttach, AttachBrief
      <3>2. \A o \in DOMAIN heap : o # p => Shown(o)' = Shown(o)
        BY <1>3, <3>1
      <3>3. Shown(p)' = [Shown(p) EXCEPT !.brief = TRUE]
        <4>1. heap'[p] = [heap[p] EXCEPT !.brief = TRUE]
          BY <3>1
        <4>2. heap[p] \in ConversationState
          BY <1>5, HeapObject
        <4>3. heap'[p].brief = TRUE
          BY <4>1, <4>2 DEF ConversationState
        <4>4. CASE \A q \in Replies : ~TurnOn(q, p)
          <5>1. \A q \in Replies : ~TurnOn(q, p)'
            BY <1>1, <4>4 DEF TurnOn, InTurn
          <5> QED BY <4>1, <4>4, <5>1 DEF Shown
        <4>5. ASSUME NEW r \in Replies, TurnOn(r, p)
              PROVE  Shown(p)' = [Shown(p) EXCEPT !.brief = TRUE]
          <5>1. \A q \in Replies : TurnOn(q, p) <=> q = r
            BY <4>5 DEF TurnOn, OneTurnAtATime
          <5>2. \A q \in Replies : TurnOn(q, p)' <=> q = r
            BY <1>1, <5>1 DEF TurnOn, InTurn
          <5>3. (CHOOSE q \in Replies : TurnOn(q, p)) = r
            BY <5>1
          <5>4. (CHOOSE q \in Replies : TurnOn(q, p))' = r
            BY <5>2
          <5>5. before'[r] = before[r]
            BY <5>1, <5>2, NoteBefore DEF TurnOn
          <5>6. Shown(p) = [before[r][1] EXCEPT !.brief = heap[p].brief]
            BY <5>1, <5>3 DEF Shown
          <5>7. Shown(p)' = [before[r][1] EXCEPT !.brief = TRUE]
            BY <4>3, <5>2, <5>4, <5>5 DEF Shown
          <5> QED BY <5>6, <5>7
        <4> QED BY <4>4, <4>5
      <3>4. ShownHeap' = [ShownHeap EXCEPT ![p].brief = TRUE]
        <4>1. Len(heap') = Len(heap)
          BY <1>8, <2>1, <1>5, AttachHeap DEF TickAttach
        <4> QED BY <1>4, <3>2, <3>3, <4>1 DEF ShownHeap
      <3>5. Serial!AttachBrief(c)
        BY <1>1, <2>3, <3>1, <3>4
           DEF Serial!AttachBrief, IsReserved, Serial!IsReserved, NoConv, Serial!NoConv
      <3> QED BY <1>1, <1>2, <2>1, <3>5 DEF Serial!TickEffect, Asked
    <2> QED BY <2>2, <2>3
  <1>9. CASE UNCHANGED <<table, heap>>
    BY <1>1, <1>9, QuietStutters
  <1> QED
    BY <1>6, <1>7, <1>8, <1>9
       DEF TickStep, TickArrive, TickSkip, TickDecide, TickDecideRaises, TickReserve, TickCompose,
           TickComposeRaises, TickMark, TickRespond, convVars

LEMMA StepMaps ==
  ASSUME TypeInv, KeyInv, TurnInv, CopyInv, OneTurnAtATime, OneTurnAtATime', BeforeInv,
         [HNext]_serialEngineVars, era' = 0
  PROVE  Serial!SerialNext \/ UNCHANGED Serial!serialVars
  <1>1. era = 0
    <2>1. era' = era \/ era' = era + 1
      BY Forget, TickStore, ReplyStore
         DEF Next, Tick, ReplyRequest, ReplyArrive, ReplyRun, Teardown, TeardownStart,
             TeardownConversations, TeardownSuppression, ReplaceConversations, Finished, vars,
             convVars
    <2> QED BY <2>1 DEF TypeInv, TypeOK
  <1>2. [Next]_vars /\ (Note \/ UNCHANGED before)
    BY Forget
  <1>3. ASSUME NEW t \in Ticks, Tick(t), Note
        PROVE  Serial!SerialNext \/ UNCHANGED Serial!serialVars
    BY <1>1, <1>3, TickShows DEF Tick, Serial!SerialNext
  <1>4. ASSUME NEW r \in Replies, ReplyRequest(r), Note
        PROVE  Serial!SerialNext
    BY <1>1, <1>4, ArriveAsks DEF ReplyRequest, Serial!SerialNext
  <1>5. ASSUME NEW r \in Replies, ReplyRun(r), Note
        PROVE  Serial!SerialNext \/ UNCHANGED Serial!serialVars
    <2>1. CASE rpc'[r] = "done"
      BY <1>1, <1>5, <2>1, AnswerMaps DEF ReplyRun, Serial!SerialNext
    <2>2. CASE rpc'[r] # "done"
      BY <1>1, <1>5, <2>2, InnerStutters DEF ReplyRun
    <2> QED BY <2>1, <2>2
  <1>6. CASE Teardown \/ UNCHANGED vars
    <2>1. UNCHANGED <<replyVars, table, heap, optedOut>>
      BY <1>1, <1>6
         DEF Teardown, TeardownStart, TeardownConversations, TeardownSuppression, KeyInv,
             ReplaceConversations, convVars, suppressionVars, vars, TypeInv, TypeOK
    <2> QED BY <1>1, <1>2, <2>1, QuietStutters
  <1> QED BY <1>3, <1>4, <1>5, <1>6 DEF HNext, Finished, serialEngineVars

\* Until a teardown, overlapping replies have the effect and get the answers of
\* indivisible turns, for any number of replies, ticks, conversations and messages.
THEOREM TurnsAreIndivisible == HSpec => RepliesAreSerial
  <1>1. HInit => Init
    BY DEF HInit
  <1>2. [HNext]_serialEngineVars => [Next]_vars
    BY Forget
  <1>3. HSpec => Spec
    BY <1>1, <1>2, PTL DEF HSpec, Spec
  <1>4. HInit => Serial!SerialInit
    <2> SUFFICES ASSUME HInit PROVE Serial!SerialInit
      OBVIOUS
    <2>1. /\ table = [c \in Convs |-> NoConv] /\ heap = <<>> /\ optedOut = {}
          /\ req = [r \in Replies |-> NoRequest]
          /\ answer = [r \in Replies |-> NoAnswer]
      BY DEF HInit, Init, ConvInit, SuppressionInit, ReplyInit
    <2>2. ShownHeap = <<>>
      <3>1. Len(heap) = 0
        BY <2>1, EmptySeq
      <3> QED BY <3>1 DEF ShownHeap
    <2>3. Asked = [r \in Replies |-> Serial!NotAsked]
      BY <2>1 DEF Asked, AskedOf, NoRequest, Serial!NotAsked, NoConv, Serial!NoConv
    <2> QED
      BY <2>1, <2>2, <2>3
         DEF Serial!SerialInit, Asked, Serial!NoAnswer, NoAnswer, NoConv, Serial!NoConv
  <1>5. TypeInv /\ KeyInv /\ TurnInv /\ CopyInv /\ OneTurnAtATime /\ OneTurnAtATime' /\ BeforeInv
          /\ [HNext]_serialEngineVars
          => [era' = 0 => Serial!SerialNext]_(Serial!serialVars)
    BY StepMaps
  <1> QED
    BY <1>3, <1>4, <1>5, TypeInvariant, KeyInvariant, TurnInvariant, CopyInvariant,
       TurnsSerialised, BeforeInvariant, PTL DEF HSpec, RepliesAreSerial
===============================================================================

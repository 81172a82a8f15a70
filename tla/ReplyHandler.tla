----------------------------- MODULE ReplyHandler -----------------------------
(***************************************************************************)
(* api/app.py, POST /v1/reply: also a plain def handler, one thread per    *)
(* request.  The conversation is looked up first; everything after that    *)
(* runs under the conversation's turn lock, in the steps the code takes    *)
(* (read and classify, apply, suppress, compose, vet, record), because the *)
(* lock, not the step size, is what must keep two turns apart.             *)
(***************************************************************************)
EXTENDS ConversationStore, SuppressionStore

CONSTANT Replies     \* reply requests

VARIABLES
    rpc,         \* where each request is
    req,         \* its conversation id, message, ConversationState and turn lock
    verdict,     \* what decide_reply said
    composed,    \* the body composed for it
    answer       \* the response, once returned

replyVars == <<rpc, req, verdict, composed, answer>>

ReplyPC == {"idle", "found", "acquire", "locked", "apply", "suppress", "compose",
            "vet", "record", "done"}

Request == [conv : Convs, msg : Messages, obj : Nat, lock : Nat \X Convs]

NoRequest == [obj |-> NoConv]

NoVerdict == [action |-> "none", kind |-> "other"]

Answer ==
    [ action : {"none", "send", "wait", "end"},
      body   : Bodies \cup {NoBody},
      why    : {"", "unknown_conversation", "already_ended", "policy", "no_context",
                "unsendable", "repeat"} ]

NoAnswer == [action |-> "none", body |-> NoBody, why |-> ""]

ReplyInit ==
    /\ rpc = [r \in Replies |-> "idle"]
    /\ req = [r \in Replies |-> NoRequest]
    /\ verdict = [r \in Replies |-> NoVerdict]
    /\ composed = [r \in Replies |-> NoBody]
    /\ answer = [r \in Replies |-> NoAnswer]

\* The ConversationState object the request works on, and its fields.
Conv(r) == heap[req[r].obj]

ReplyGoto(r, label) == rpc' = [rpc EXCEPT ![r] = label]

Respond(r, action, body, why) ==
    /\ answer' = [answer EXCEPT ![r] = [action |-> action, body |-> body, why |-> why]]
    /\ ReplyGoto(r, "done")

\* A return from inside the with block: the response is decided and the lock given back.
Return(r, action, body, why) ==
    /\ Respond(r, action, body, why)
    /\ ReleaseTurn(req[r].lock)
    /\ UNCHANGED <<table, era>>

SetConv(r, field, value) == heap' = [heap EXCEPT ![req[r].obj][field] = value]

End(r) == SetConv(r, "status", "ended")

-------------------------------------------------------------------------------

\* conversations.get(conversation_id)
ReplyArrive(r) ==
    /\ rpc[r] = "idle"
    /\ \E c \in Convs, m \in Messages :
          /\ req' = [req EXCEPT ![r] =
                [conv |-> c, msg |-> m, obj |-> table[c], lock |-> TurnLock(c)]]
          /\ IF IsReserved(c)
             THEN ReplyGoto(r, "found") /\ UNCHANGED answer
             ELSE Respond(r, "end", NoBody, "unknown_conversation")
    /\ UNCHANGED <<verdict, composed, convVars, suppressionVars>>

\* conversations.turn_lock(conversation_id): the lock of the store as it is now.
ReplyTurnLock(r) ==
    /\ rpc[r] = "found"
    /\ req' = [req EXCEPT ![r].lock = TurnLock(req[r].conv)]
    /\ ReplyGoto(r, "acquire")
    /\ UNCHANGED <<verdict, composed, answer, convVars, suppressionVars>>

ReplyAcquire(r) ==
    /\ rpc[r] = "acquire"
    /\ AcquireTurn(req[r].lock)
    /\ ReplyGoto(r, "locked")
    /\ UNCHANGED <<req, verdict, composed, answer, table, heap, era, suppressionVars>>

ReplyAlreadyEnded(r) ==
    /\ rpc[r] = "locked"
    /\ Conv(r).status = "ended"
    /\ Return(r, "end", NoBody, "already_ended")
    /\ UNCHANGED <<req, verdict, composed, heap, suppressionVars>>

\* Fault: the message is not remembered.
ClassifyForgetful(r) ==
    /\ rpc[r] = "locked"
    /\ Conv(r).status # "ended"
    /\ verdict' = [verdict EXCEPT ![r] =
          DecideReply(req[r].msg, Conv(r).last, Conv(r).hits)]
    /\ ReplyGoto(r, "apply")
    /\ UNCHANGED <<req, composed, answer, convVars, suppressionVars>>

\* Fault: an ended conversation is processed like any other.
ClassifyAfterEnd(r) ==
    /\ rpc[r] = "locked"
    /\ verdict' = [verdict EXCEPT ![r] =
          DecideReply(req[r].msg, Conv(r).last, Conv(r).hits)]
    /\ SetConv(r, "last", req[r].msg)
    /\ ReplyGoto(r, "apply")
    /\ UNCHANGED <<req, composed, answer, table, era, held, suppressionVars>>

\* decide_reply on what the conversation remembers, then last_incoming_message.
ReplyClassify(r) ==
    /\ rpc[r] = "locked"
    /\ Conv(r).status # "ended"
    /\ verdict' = [verdict EXCEPT ![r] =
          DecideReply(req[r].msg, Conv(r).last, Conv(r).hits)]
    /\ SetConv(r, "last", req[r].msg)
    /\ ReplyGoto(r, "apply")
    /\ UNCHANGED <<req, composed, answer, table, era, held, suppressionVars>>

ReplyWait(r) ==
    /\ rpc[r] = "apply"
    /\ verdict[r].action = "wait"
    /\ heap' = [heap EXCEPT ![req[r].obj] =
          [Conv(r) EXCEPT !.hits = Conv(r).hits + 1, !.status = "waiting"]]
    /\ Return(r, "wait", NoBody, "policy")
    /\ UNCHANGED <<req, verdict, composed, suppressionVars>>

\* Fault: a hostile message ends the conversation and nothing else.
ReplyEndOnly(r) ==
    /\ rpc[r] = "apply"
    /\ verdict[r].action = "end"
    /\ End(r)
    /\ Return(r, "end", NoBody, "policy")
    /\ UNCHANGED <<req, verdict, composed, suppressionVars>>

ReplyEnd(r) ==
    /\ rpc[r] = "apply"
    /\ verdict[r].action = "end"
    /\ End(r)
    /\ IF verdict[r].kind = "hostile_optout"
       THEN ReplyGoto(r, "suppress") /\ UNCHANGED <<answer, table, era, held>>
       ELSE Return(r, "end", NoBody, "policy")
    /\ UNCHANGED <<req, verdict, composed, suppressionVars>>

ReplySuppress(r) ==
    /\ rpc[r] = "suppress"
    /\ SuppressMerchant(Conv(r).merchant)
    /\ Return(r, "end", NoBody, "policy")
    /\ UNCHANGED <<req, verdict, composed, heap>>

\* decide_reply always gives a send its reply_intent, so only the brief can be missing.
ReplyNoContext(r) ==
    /\ rpc[r] = "apply"
    /\ verdict[r].action = "send"
    /\ ~Conv(r).brief
    /\ End(r)
    /\ Return(r, "end", NoBody, "no_context")
    /\ UNCHANGED <<req, verdict, composed, suppressionVars>>

ReplyToCompose(r) ==
    /\ rpc[r] = "apply"
    /\ verdict[r].action = "send"
    /\ Conv(r).brief
    /\ ReplyGoto(r, "compose")
    /\ UNCHANGED <<req, verdict, composed, answer, convVars, suppressionVars>>

ReplyCompose(r) ==
    /\ rpc[r] = "compose"
    /\ \E b \in Bodies \cup {NoBody} : composed' = [composed EXCEPT ![r] = b]
    /\ ReplyGoto(r, "vet")
    /\ UNCHANGED <<req, verdict, answer, convVars, suppressionVars>>

\* Fault: a body that cannot be sent is composed again.
ReplyRejectRetries(r) ==
    /\ rpc[r] = "vet"
    /\ composed[r] = NoBody \/ composed[r] \in Conv(r).sent
    /\ ReplyGoto(r, "compose")
    /\ UNCHANGED <<req, verdict, composed, answer, convVars, suppressionVars>>

\* The two reasons not to send what was composed; both end the conversation.
ReplyReject(r) ==
    /\ rpc[r] = "vet"
    /\ composed[r] = NoBody \/ composed[r] \in Conv(r).sent
    /\ End(r)
    /\ Return(r, "end", NoBody, IF composed[r] = NoBody THEN "unsendable" ELSE "repeat")
    /\ UNCHANGED <<req, verdict, composed, suppressionVars>>

\* Fault: what was sent before is not looked at.
PassAnyBody(r) ==
    /\ rpc[r] = "vet"
    /\ composed[r] # NoBody
    /\ ReplyGoto(r, "record")
    /\ UNCHANGED <<req, verdict, composed, answer, convVars, suppressionVars>>

ReplyPassVet(r) ==
    /\ rpc[r] = "vet"
    /\ composed[r] # NoBody
    /\ composed[r] \notin Conv(r).sent
    /\ ReplyGoto(r, "record")
    /\ UNCHANGED <<req, verdict, composed, answer, convVars, suppressionVars>>

ReplySend(r) ==
    /\ rpc[r] = "record"
    /\ SetConv(r, "sent", Conv(r).sent \cup {composed[r]})
    /\ Return(r, "send", composed[r], "policy")
    /\ UNCHANGED <<req, verdict, composed, suppressionVars>>

\* What the request's thread does once it runs.
ReplyStep(r) ==
    \/ ReplyTurnLock(r)
    \/ ReplyAcquire(r)
    \/ ReplyAlreadyEnded(r)
    \/ ReplyClassify(r)
    \/ ReplyWait(r)
    \/ ReplyEnd(r)
    \/ ReplySuppress(r)
    \/ ReplyNoContext(r)
    \/ ReplyToCompose(r)
    \/ ReplyCompose(r)
    \/ ReplyReject(r)
    \/ ReplyPassVet(r)
    \/ ReplySend(r)

\* Between acquiring the turn lock and giving it back.
InTurn(r) == rpc[r] \in {"locked", "apply", "suppress", "compose", "vet", "record"}
===============================================================================

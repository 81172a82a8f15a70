----------------------------- MODULE SerialReplies -----------------------------
(***************************************************************************)
(* What POST /v1/reply promises its clients: however many requests         *)
(* overlap, each one looks its conversation up and then takes one          *)
(* indivisible turn on it.  Ticks reserve, release and brief conversations *)
(* in between.  There are no locks here; SerialEngine shows that the ones  *)
(* of the engine give exactly this.                                        *)
(***************************************************************************)
EXTENDS ConversationStore, SuppressionStore

CONSTANT Replies     \* reply requests

VARIABLES
    asked,       \* each request: its conversation id, message and ConversationState
    answer       \* its response, once returned

serialVars == <<table, heap, optedOut, asked, answer>>

NotAsked == [obj |-> NoConv]

NoAnswer == [action |-> "none", body |-> NoBody, why |-> ""]

Reply(r, action, body, why) ==
    answer' = [answer EXCEPT ![r] = [action |-> action, body |-> body, why |-> why]]

SerialInit ==
    /\ table = [c \in Convs |-> NoConv]
    /\ heap = <<>>
    /\ optedOut = {}
    /\ asked = [r \in Replies |-> NotAsked]
    /\ answer = [r \in Replies |-> NoAnswer]

-------------------------------------------------------------------------------

\* The request arrives: an unknown conversation is answered at once.
Ask(r) ==
    /\ asked[r] = NotAsked
    /\ answer[r] = NoAnswer
    /\ \E c \in Convs, m \in Messages :
          /\ asked' = [asked EXCEPT ![r] = [conv |-> c, msg |-> m, obj |-> table[c]]]
          /\ IF IsReserved(c)
             THEN UNCHANGED answer
             ELSE Reply(r, "end", NoBody, "unknown_conversation")
    /\ UNCHANGED <<table, heap, optedOut>>

Pending(r) == asked[r].obj # NoConv /\ answer[r] = NoAnswer

\* The conversation as the turn finds it, and what decide_reply says of the message.
Subject(r) == heap[asked[r].obj]

Verdict(r) == DecideReply(asked[r].msg, Subject(r).last, Subject(r).hits)

\* The turn leaves the conversation in this state.
Leave(r, state) == heap' = [heap EXCEPT ![asked[r].obj] = state]

Heard(r) == [Subject(r) EXCEPT !.last = asked[r].msg]

Ended(r) == [Heard(r) EXCEPT !.status = "ended"]

AfterEnd(r) ==
    /\ Subject(r).status = "ended"
    /\ Reply(r, "end", NoBody, "already_ended")
    /\ UNCHANGED <<heap, optedOut>>

BackOff(r) ==
    /\ Verdict(r).action = "wait"
    /\ Leave(r, [Heard(r) EXCEPT !.hits = @ + 1, !.status = "waiting"])
    /\ Reply(r, "wait", NoBody, "policy")
    /\ UNCHANGED optedOut

\* A hostile message opts the merchant out in the same turn.
Stop(r) ==
    /\ Verdict(r).action = "end"
    /\ Leave(r, Ended(r))
    /\ Reply(r, "end", NoBody, "policy")
    /\ optedOut' = IF Verdict(r).kind = "hostile_optout"
                   THEN optedOut \cup {Subject(r).merchant} ELSE optedOut

\* Nothing that may be sent: no brief, no body, or one that was sent before.
GiveUp(r) ==
    /\ Verdict(r).action = "send"
    /\ \E why \in {"no_context", "unsendable", "repeat"} :
          /\ why = "no_context" <=> ~Subject(r).brief
          /\ why = "repeat" => Subject(r).sent # {}
          /\ Reply(r, "end", NoBody, why)
    /\ Leave(r, Ended(r))
    /\ UNCHANGED optedOut

Send(r) ==
    /\ Verdict(r).action = "send"
    /\ Subject(r).brief
    /\ \E b \in Bodies \ Subject(r).sent :
          /\ Leave(r, [Heard(r) EXCEPT !.sent = @ \cup {b}])
          /\ Reply(r, "send", b, "policy")
    /\ UNCHANGED optedOut

Turn(r) ==
    /\ Pending(r)
    /\ \/ AfterEnd(r)
       \/ /\ Subject(r).status # "ended"
          /\ BackOff(r) \/ Stop(r) \/ GiveUp(r) \/ Send(r)
    /\ UNCHANGED <<table, asked>>

\* What ticks do to the conversations.
TickEffect ==
    /\ \/ \E c \in Convs, m \in Merchants : Reserve(c, m)
       \/ \E c \in Convs : Release(c) \/ AttachBrief(c)
    /\ UNCHANGED <<optedOut, asked, answer>>

SerialNext ==
    \/ \E r \in Replies : Ask(r) \/ Turn(r)
    \/ TickEffect

SerialSpec == SerialInit /\ [][SerialNext]_serialVars
===============================================================================

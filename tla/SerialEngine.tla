----------------------------- MODULE SerialEngine -----------------------------
(***************************************************************************)
(* The engine's replies, which take their turn in up to six steps under a  *)
(* turn lock, implement the indivisible turns of SerialReplies until a     *)
(* teardown comes.                                                         *)
(*                                                                         *)
(* A turn becomes visible when it is answered.  Until then the abstract    *)
(* conversation is the one the turn started from; the history variable     *)
(* before remembers it, except for the brief, which a tick may attach in   *)
(* the middle of a turn.                                                   *)
(***************************************************************************)
EXTENDS Engine

VARIABLE before      \* history: the conversation as each reply in its turn found it

serialEngineVars == <<vars, before>>

\* The replies that acquire their lock in this step note the conversation; those that
\* end their turn forget it.
Note ==
    before' = [r \in Replies |->
        IF ~InTurn(r)' THEN <<>>
        ELSE IF ~InTurn(r) THEN <<heap[req[r].obj]>> ELSE before[r]]

HInit == Init /\ before = [r \in Replies |-> <<>>]

HNext ==
    \/ \E t \in Ticks : Tick(t) /\ Note
    \/ \E r \in Replies : (ReplyRequest(r) \/ ReplyRun(r)) /\ Note
    \/ Teardown /\ Note
    \/ Finished /\ Note

HSpec == HInit /\ [][HNext]_serialEngineVars

HFairSpec == HSpec /\ Fairness

-------------------------------------------------------------------------------

\* The reply that is in its turn on object o, and what the object looks like meanwhile.
TurnOn(r, o) == InTurn(r) /\ req[r].obj = o

Shown(o) ==
    IF \E r \in Replies : TurnOn(r, o)
    THEN [before[CHOOSE r \in Replies : TurnOn(r, o)][1] EXCEPT !.brief = heap[o].brief]
    ELSE heap[o]

ShownHeap == [o \in 1 .. Len(heap) |-> Shown(o)]

AskedOf(r) ==
    IF req[r] = NoRequest THEN NoRequest
    ELSE [conv |-> req[r].conv, msg |-> req[r].msg, obj |-> req[r].obj]

Serial == INSTANCE SerialReplies
    WITH heap <- ShownHeap, asked <- [r \in Replies |-> AskedOf(r)]

\* Until a teardown, overlapping replies of one conversation have the effect, and get the
\* answers, of indivisible turns taken one after the other in the order of their answers,
\* also when ticks reserve, release and brief conversations in the middle of a turn
\* (store.py:171-178, app.py:319-396).
RepliesAreSerial ==
    Serial!SerialInit /\ [][era' = 0 => Serial!SerialNext]_(Serial!serialVars)
===============================================================================

----------------------------- MODULE ReplyPolicy -----------------------------
(***************************************************************************)
(* decision/reply_policy.py: the deterministic classification of one       *)
(* incoming message and the action it leads to.                            *)
(*                                                                         *)
(* A message is what remains of its text after strip().lower(): two        *)
(* messages are equal when their normalised texts are.  What the policy    *)
(* tells apart is which marker lists a text matches, so the three lists    *)
(* are sets of messages; a text may match several of them.                 *)
(***************************************************************************)
CONSTANTS
    Messages,        \* normalised message texts
    AutoMarked,      \* texts containing an _AUTO_REPLY_MARKERS phrase
    HostileMarked,   \* texts containing a _HOSTILE_MARKERS phrase
    CommitMarked,    \* texts containing an _INTENT_COMMIT_MARKERS phrase
    NoMessage        \* None: no previous message

ASSUME MessageAssumption ==
    /\ AutoMarked \subseteq Messages
    /\ HostileMarked \subseteq Messages
    /\ CommitMarked \subseteq Messages
    /\ NoMessage \notin Messages

ReplyKind == {"auto_reply", "hostile_optout", "intent_commit", "other"}

\* The order of the tests is the code's: a repeat of the previous message is an
\* auto-reply before any of its words are looked at.
ClassifyKind(message, previous) ==
    IF message = previous \/ message \in AutoMarked THEN "auto_reply"
    ELSE IF message \in HostileMarked THEN "hostile_optout"
    ELSE IF message \in CommitMarked THEN "intent_commit"
    ELSE "other"

ReplyDecision == [action : {"send", "wait", "end"}, kind : ReplyKind]

\* Fault: every auto-reply is waited for, however many there were.
DecideReplyPatiently(message, previous, hits) ==
    LET kind == ClassifyKind(message, previous) IN
    [ kind   |-> kind,
      action |-> CASE kind = "hostile_optout" -> "end"
                   [] kind = "auto_reply" -> "wait"
                   [] OTHER -> "send" ]

DecideReply(message, previous, hits) ==
    LET kind == ClassifyKind(message, previous) IN
    [ kind   |-> kind,
      action |-> CASE kind = "hostile_optout" -> "end"
                   [] kind = "auto_reply" -> IF hits = 0 THEN "wait" ELSE "end"
                   [] OTHER -> "send" ]
==============================================================================

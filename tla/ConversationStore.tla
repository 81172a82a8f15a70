-------------------------- MODULE ConversationStore --------------------------
(***************************************************************************)
(* state/store.py, ConversationStore and the ConversationState objects it  *)
(* hands out.  Handlers keep references to ConversationState objects while *)
(* the store forgets them (release, teardown), so objects have an identity *)
(* of their own: object o is heap[o], and table maps a conversation id to  *)
(* the object the current store holds for it.                              *)
(*                                                                         *)
(* Each operator below is one method call: the attribute read              *)
(* store.conversations and the method's work on the dict it finds there    *)
(* are one step, as the _struct_lock (or a single dict operation) makes    *)
(* them.                                                                   *)
(***************************************************************************)
EXTENDS Naturals, Sequences, ReplyPolicy

CONSTANTS
    Convs,       \* conversation ids
    Merchants,   \* merchant ids
    Bodies,      \* non-blank message bodies the composers can produce
    NoBody       \* a blank body: nothing could be composed

ASSUME BodyAssumption == NoBody \notin Bodies

VARIABLES
    table,       \* _conversations of the current store: id -> object, or NoConv
    heap,        \* every ConversationState ever created, in creation order
    era,         \* how many times teardown has replaced the store
    held         \* the turn locks held by some thread

convVars == <<table, heap, era, held>>

NoConv == 0

Status == {"active", "waiting", "ended"}

\* turns and the ids a ConversationState carries for logging are left out: no
\* code reads them.  brief says whether a CompositionBrief is attached.
ConversationState ==
    [ conv : Convs, merchant : Merchants, status : Status, hits : Nat,
      last : Messages \cup {NoMessage}, sent : SUBSET Bodies, brief : BOOLEAN ]

NewConversation(c, m) ==
    [ conv |-> c, merchant |-> m, status |-> "active", hits |-> 0,
      last |-> NoMessage, sent |-> {}, brief |-> FALSE ]

ConvInit ==
    /\ table = [c \in Convs |-> NoConv]
    /\ heap = <<>>
    /\ era = 0
    /\ held = {}

IsReserved(c) == table[c] # NoConv

\* Fault: create() in the place of try_reserve(), the entry is not looked at.
CreateUnchecked(c, m) ==
    /\ heap' = Append(heap, NewConversation(c, m))
    /\ table' = [table EXCEPT ![c] = Len(heap) + 1]
    /\ UNCHANGED <<era, held>>

\* The branch of try_reserve that returns True.
Reserve(c, m) ==
    /\ ~IsReserved(c)
    /\ heap' = Append(heap, NewConversation(c, m))
    /\ table' = [table EXCEPT ![c] = Len(heap) + 1]
    /\ UNCHANGED <<era, held>>

\* Fault: a failed composition keeps its reservation.
ReleaseNothing(c) == UNCHANGED <<table, heap, era, held>>

\* release pops whatever the id maps to, and does nothing when it maps to nothing.
Release(c) ==
    /\ table' = [table EXCEPT ![c] = NoConv]
    /\ UNCHANGED <<heap, era, held>>

\* Fault: the brief is dropped.
AttachNothing(c) == UNCHANGED <<table, heap, era, held>>

AttachBrief(c) ==
    /\ heap' = IF IsReserved(c) THEN [heap EXCEPT ![table[c]].brief = TRUE] ELSE heap
    /\ UNCHANGED <<table, era, held>>

\* turn_lock creates one lock per id and per store, so the pair names the lock.
TurnLock(c) == <<era, c>>

\* Fault: the turn lock does not exclude.
AcquireFreely(lock) == held' = held \cup {lock}

AcquireTurn(lock) ==
    /\ lock \notin held
    /\ held' = held \cup {lock}

ReleaseTurn(lock) == held' = held \ {lock}

\* Store.teardown's second assignment: a new ConversationStore.
ReplaceConversations ==
    /\ table' = [c \in Convs |-> NoConv]
    /\ era' = era + 1
    /\ UNCHANGED <<heap, held>>
==============================================================================

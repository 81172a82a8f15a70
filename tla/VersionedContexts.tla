-------------------------- MODULE VersionedContexts --------------------------
(***************************************************************************)
(* What POST /v1/context promises of the context store: every push is one  *)
(* atomic comparison of its version with the stored one.  A higher version *)
(* replaces, a lower one is refused, and the same version is accepted but  *)
(* stores nothing, so the first payload of a version is the one that stays.*)
(***************************************************************************)
EXTENDS Naturals

CONSTANTS
    Contexts,    \* context keys: (scope, context_id)
    Versions,    \* version numbers
    Payloads,    \* payloads
    Pushes,      \* push requests
    NoItem       \* nothing stored

VARIABLES
    latest,      \* context -> [version, payload] or NoItem
    outcome      \* push -> "pending", "accepted" or "stale"

vars == <<latest, outcome>>

Item == [version : Versions, payload : Payloads]

Newer(item, current) == current # NoItem => current.version < item.version

Stale(item, current) == current # NoItem /\ current.version > item.version

Init ==
    /\ latest = [k \in Contexts |-> NoItem]
    /\ outcome = [p \in Pushes |-> "pending"]

Offer(p, k, item) ==
    /\ outcome[p] = "pending"
    /\ outcome' = [outcome EXCEPT ![p] = IF Stale(item, latest[k]) THEN "stale" ELSE "accepted"]
    /\ latest' = IF Newer(item, latest[k]) THEN [latest EXCEPT ![k] = item] ELSE latest

Next == \E p \in Pushes, k \in Contexts, item \in Item : Offer(p, k, item)

Spec == Init /\ [][Next]_vars
==============================================================================

------------------------------- MODULE Decision -------------------------------
(***************************************************************************)
(* decision/compiler.py, decide: whether a stored trigger is acted on.  A  *)
(* behaviour is one trigger, with the contexts stored for it, looked at by *)
(* a sequence of ticks: each tick brings its own `now` (the tick request's,*)
(* which the client moves forward), and at some tick the trigger may have  *)
(* been suppressed meanwhile, which lasts.                                 *)
(***************************************************************************)
EXTENDS Opportunity

CONSTANTS
    Merchants,      \* stored merchants
    Triggers,       \* stored triggers
    ConsentScopes,  \* what a customer may have consented to
    Digests,        \* digests of the merchant's category
    Instants,       \* values of tick.now and of expires_at
    MaxTicks        \* bound: ticks that look at the trigger

\* The payload fields that hold a number, when a trigger has them.
Numbers == {"days_until", "days_remaining", "distance_km", "delta_pct", "value_now",
            "milestone_value"}

ASSUME DecisionAssumption ==
    /\ Instants \subseteq Int
    /\ MaxTicks \in Nat
    /\ \A m \in Merchants : m.offers \in BOOLEAN /\ m.chronic_rx \in BOOLEAN
    /\ \A t \in Triggers :
          /\ t.customer_id \in BOOLEAN
          /\ t.urgency \in Int
          /\ \A e \in t.expires : e.at \in Int /\ e.aware \in BOOLEAN
          /\ \A f \in Numbers \cap DOMAIN t.payload : t.payload[f] \in Int

VARIABLES
    merchant, trigger, customer, category,   \* the contexts the ticks read
    aware,          \* the client writes times with a time zone
    now,            \* the `now` of the last tick: at most one, none if it did not parse
    suppressed,     \* already_suppressed, as the last tick resolved it
    ticks,          \* ticks so far
    decision        \* the last tick's Decision

contexts == <<merchant, trigger, customer, category, aware>>

vars == <<contexts, now, suppressed, ticks, decision>>

SendThreshold == Full \div 2

Verdict(send, signal, cta, send_as, score) ==
    [send |-> send, signal |-> signal, cta |-> cta, send_as |-> send_as, score |-> score]

SendAs(t) == IF t.customer_id THEN "merchant_on_behalf" ELSE "vera"

Refusal(t, signal, score) == Verdict(FALSE, signal, "none", SendAs(t), score)

\* Fault: the comparison is the wrong way round.
IsStaleSwapped(t, clock) ==
    \E n \in clock, e \in t.expires : n.aware # e.aware \/ n.at < e.at

\* A time zone on one side only cannot be compared and counts as stale.
IsStale(t, clock) ==
    \E n \in clock, e \in t.expires : n.aware # e.aware \/ n.at > e.at

\* The first opportunity with the greatest score; the fallback is first in the list.
Best(opportunities) ==
    CHOOSE o \in opportunities :
        /\ \A p \in opportunities : p.score <= o.score
        /\ o.score = Fallback.score => o = Fallback

Decide(m, t, c, cat, clock, used) ==
    LET best == Best(GenerateOpportunities(m, t, c, cat)) IN
    IF IsStale(t, clock) THEN Refusal(t, "stale_trigger", Full)
    ELSE IF used THEN Refusal(t, "suppressed", Full)
    ELSE IF best.score < SendThreshold THEN Refusal(t, best.name, Full - best.score)
    ELSE Verdict(TRUE, best.name, best.cta, SendAs(t), best.score)

Undecided == Verdict(FALSE, "undecided", "none", "vera", 0)

-------------------------------------------------------------------------------

\* The customer is looked up only if the trigger names one, and may not be stored.
Init ==
    /\ merchant \in Merchants
    /\ trigger \in Triggers
    /\ customer \in IF trigger.customer_id
                    THEN {{}} \cup { {[consent |-> s]} : s \in SUBSET ConsentScopes }
                    ELSE {{}}
    /\ category \in { [digest |-> d] : d \in Digests }
    /\ aware \in BOOLEAN
    /\ now = {}
    /\ suppressed = FALSE
    /\ ticks = 0
    /\ decision = Undecided

NotBefore(clock, earlier) == \A n \in clock, e \in earlier : n.at >= e.at

Tick ==
    /\ ticks < MaxTicks
    /\ now' \in {{}} \cup { {[at |-> i, aware |-> aware]} : i \in Instants }
    /\ NotBefore(now', now)
    /\ suppressed' \in {suppressed, TRUE}
    /\ ticks' = ticks + 1
    /\ decision' = Decide(merchant, trigger, customer, category, now', suppressed')
    /\ UNCHANGED contexts

Next == Tick

Spec == Init /\ [][Next]_vars

-------------------------------------------------------------------------------

\* Silence comes from the hard gates, not from a low score: at the documented urgencies
\* the only trigger that passes its gates and is still too weak is a festival more than
\* twelve days away for a merchant with no offer (opportunity.py:203-224, compiler.py:117).
OnlyFarFestivalsAreTooWeak ==
    /\ ~decision.send
    /\ decision.signal \notin {"undecided", "stale_trigger", "suppressed", Fallback.name}
    /\ trigger.urgency >= 1
    => /\ decision.signal = "festival"
       /\ trigger.payload.days_until > 12
       /\ ~merchant.offers

\* A field of a payload that says the same or more: nearer in time or space, or a
\* larger move in the same direction.
AtLeast(field, new, old) ==
    CASE field \in {"days_until", "days_remaining", "distance_km"} -> new \in 0 .. old
      [] field = "delta_pct" -> (old < 0 /\ new <= old) \/ (old >= 0 /\ new >= old)
      [] field = "value_now" -> new >= old
      [] OTHER -> new = old

StrongerTrigger(new, old) ==
    /\ new.kind = old.kind
    /\ new.customer_id = old.customer_id
    /\ new.expires = old.expires
    /\ new.urgency >= old.urgency
    /\ DOMAIN old.payload \subseteq DOMAIN new.payload
    /\ \A f \in DOMAIN old.payload : AtLeast(f, new.payload[f], old.payload[f])

StrongerMerchant(new, old) ==
    /\ new.category = old.category
    /\ new.history = old.history
    /\ old.offers => new.offers
    /\ old.chronic_rx => new.chronic_rx
    /\ old.signals \subseteq new.signals

\* No evidence backfires: a trigger that is acted on is also acted on, by the same kind
\* of message and with no lower score, when it is more urgent, nearer or stronger, when
\* its payload says more, or when the merchant has more to offer.
StrongerEvidenceNeverSilences ==
    decision.send =>
        \A t \in {u \in Triggers : StrongerTrigger(u, trigger)} :
        \A m \in {u \in Merchants : StrongerMerchant(u, merchant)} :
            LET d == Decide(m, t, customer, category, now, suppressed)
            IN  d.send /\ d.signal = decision.signal /\ d.score >= decision.score

ScopeOf(signal) ==
    CASE signal = "customer_winback" -> "winback_offers"
      [] signal = "recall_due"       -> "recall_reminders"
      [] signal = "chronic_refill"   -> "refill_reminders"

\* A winback, a recall or a refill reminder, the three kinds with a consent gate, goes out
\* only if its customer is stored and consented to this very purpose, and then on the
\* merchant's behalf (opportunity.py:371, 459, 1455).  Of other kinds see NoContactUnasked.
ConsentGatesHold ==
    decision.send /\ decision.signal \in {"customer_winback", "recall_due", "chronic_refill"}
    => /\ Consented(customer, ScopeOf(decision.signal))
       /\ decision.send_as = "merchant_on_behalf"

\* A trigger once refused because it expired or was suppressed is never acted on again
\* while the client's clock keeps its format and moves forward (compiler.py:58-65).
RestraintIsFinal ==
    [][/\ decision.signal \in {"stale_trigger", "suppressed"}
       /\ now' # {}
       => ~decision'.send]_vars

-------------------------------------------------------------------------------
(***************************************************************************)
(* What comments and a test say of scores and consent that is not so.      *)
(***************************************************************************)

\* "real generators' current score floors don't happen to sit this close to threshold"
\* (test_signal_corroboration.py): what is sent with the corroboration bonus of 0.03
\* would have been sent without it.
BonusNeverDecides ==
    decision.send =>
        Decide([merchant EXCEPT !.signals = {}], trigger, customer, category, now,
               suppressed).send

\* "without explicit consent for winback-type outreach we must not contact them"
\* (opportunity.py:366), read of every message: what goes out on the merchant's behalf to a
\* stored customer, greeted by name, has some consent of that customer.  A merchant-level
\* kind whose trigger names a customer passes no consent gate (compiler.py:24, app.py:263).
NoContactUnasked ==
    decision.send /\ decision.send_as = "merchant_on_behalf" =>
        \A c \in customer : c.consent # {}
===============================================================================

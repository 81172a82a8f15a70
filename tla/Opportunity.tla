----------------------------- MODULE Opportunity -----------------------------
(***************************************************************************)
(* decision/opportunity.py: fifteen generators, each for one trigger kind, *)
(* that either refuse (a hard gate) or propose one opportunity with a      *)
(* score and a call to action.  What a generator reads is kept as data: a  *)
(* payload is a record that has only the fields present with the type the  *)
(* generator accepts; a context that may be absent is a set with at most   *)
(* one element.  Facts, evidence lists and wording are left out.           *)
(*                                                                         *)
(* Scores are exact.  A term of 1.0 is 140 (so that days / 14 is whole) and*)
(* a score of 1.0 is Full; percentages are whole, distances tenths of a km.*)
(***************************************************************************)
EXTENDS Integers, FiniteSets

CONSTANT TokensOf(_)    \* _signal_tokens: the words of a signal tag or trigger kind

Full == 6552000

Tenths(n) == 14 * n

Tier(better, high, low) == IF better THEN Tenths(high) ELSE Tenths(low)

\* Full / 20 / (maximal raw score): the generators' four maxima.
Of50 == 468
Of40 == 585
Of36 == 650
Of26 == 900

Clamp(x) == IF x < 0 THEN 0 ELSE IF x > Full THEN Full ELSE x

\* (raw / max) * (1 + 0.05 * (urgency - 1)), clamped.
Score(raw, weight, urgency) == Clamp(raw * weight * (19 + urgency))

Opp(name, cta, score) == [name |-> name, cta |-> cta, score |-> score]

Fallback == Opp("no_strong_opportunity", "none", 0)

Has(payload, field) == field \in DOMAIN payload

\* Fault: a customer nobody knows anything about has not objected.
ConsentedIfKnown(customer, scope) == \A c \in customer : scope \in c.consent

Consented(customer, scope) == \E c \in customer : scope \in c.consent

TimelinessWindowDays == 14

\* Fault: the day itself is outside the window.
InWindowBefore(days) == days \in 1 .. TimelinessWindowDays

InWindow(days) == days \in 0 .. TimelinessWindowDays

Timeliness(days) == Tenths(10) - 10 * days

MeaningfulDip == -10
StrongDip == -15
MeaningfulSpike == 10
NearbyRadius == 50

-------------------------------------------------------------------------------

FestivalOpportunity(m, t) ==
    LET p == t.payload IN
    IF /\ t.kind = "festival_upcoming"
       /\ Has(p, "festival")
       /\ Has(p, "category_relevance") /\ m.category \in p.category_relevance
       /\ Has(p, "days_until") /\ InWindow(p.days_until)
    THEN {Opp("festival",
              IF m.offers THEN "binary_yes_no" ELSE "open_ended",
              Score(Tenths(16) + Tier(m.offers, 10, 5) + Timeliness(p.days_until)
                      + Tier(m.offers, 10, 3), Of50, t.urgency))}
    ELSE {}

\* Fault: four terms divided by the maximum of five.
SeasonalDipDiluted(m, t, category) ==
    LET p == t.payload IN
    IF /\ t.kind = "seasonal_perf_dip"
       /\ Has(p, "is_expected_seasonal")
       /\ Has(p, "metric")
       /\ Has(p, "delta_pct") /\ p.delta_pct <= MeaningfulDip
    THEN {Opp("seasonal_dip_reframe", "open_ended",
              Score(Tenths(10) + Tier(p.delta_pct <= StrongDip, 10, 4)
                      + Tier(m.offers, 10, 5)
                      + Tier(\E i \in category.digest : i.kind = "seasonal", 10, 3),
                    Of50, t.urgency))}
    ELSE {}

SeasonalDipReframeOpportunity(m, t, category) ==
    LET p == t.payload IN
    IF /\ t.kind = "seasonal_perf_dip"
       /\ Has(p, "is_expected_seasonal")
       /\ Has(p, "metric")
       /\ Has(p, "delta_pct") /\ p.delta_pct <= MeaningfulDip
    THEN {Opp("seasonal_dip_reframe", "open_ended",
              Score(Tenths(10) + Tier(p.delta_pct <= StrongDip, 10, 4)
                      + Tier(m.offers, 10, 5)
                      + Tier(\E i \in category.digest : i.kind = "seasonal", 10, 3),
                    Of40, t.urgency))}
    ELSE {}

CustomerLapsedWinbackOpportunity(m, t, customer) ==
    IF /\ t.kind = "customer_lapsed_hard"
       /\ Consented(customer, "winback_offers")
    THEN {Opp("customer_winback",
              IF m.offers THEN "binary_yes_no" ELSE "open_ended",
              Score(Tenths(16) + Tier(m.offers, 10, 5) + Tier(m.offers, 10, 3),
                    Of36, t.urgency))}
    ELSE {}

RecallDueOpportunity(m, t, customer) ==
    LET slots == Has(t.payload, "available_slots") IN
    IF /\ t.kind = "recall_due"
       /\ Consented(customer, "recall_reminders")
    THEN {Opp("recall_due",
              IF slots THEN "multi_choice_slot" ELSE "open_ended",
              Score(Tenths(16) + Tier(slots, 10, 5) + Tier(m.offers, 10, 5),
                    Of36, t.urgency))}
    ELSE {}

\* Vera named the molecule before, and the merchant ever answered at all.
AlreadyDiscussed(m, molecule) ==
    /\ \E h \in m.history : h.from = "vera" /\ molecule \in h.names
    /\ \E h \in m.history : h.from = "merchant"

SupplyAlertOpportunity(m, t) ==
    LET p == t.payload IN
    IF /\ t.kind = "supply_alert"
       /\ Has(p, "molecule") /\ ~AlreadyDiscussed(m, p.molecule)
    THEN {Opp("supply_alert", "open_ended",
              Score(Tenths(16) + Tier(m.chronic_rx, 10, 3), Of26, t.urgency))}
    ELSE {}

PerfSpikeOpportunity(m, t) ==
    LET p == t.payload IN
    IF /\ t.kind = "perf_spike"
       /\ Has(p, "metric")
       /\ Has(p, "delta_pct") /\ p.delta_pct >= MeaningfulSpike
    THEN {Opp("perf_spike", "open_ended",
              Score(Tenths(16) + Tier(p.delta_pct >= 2 * MeaningfulSpike, 10, 6)
                      + Tier(m.offers, 10, 5), Of36, t.urgency))}
    ELSE {}

MilestoneReachedOpportunity(t) ==
    LET p == t.payload
        crossed == p.value_now >= p.milestone_value
    IN
    IF /\ t.kind = "milestone_reached"
       /\ {"metric", "value_now", "milestone_value"} \subseteq DOMAIN p
       /\ crossed \/ Has(p, "is_imminent")
    THEN {Opp("milestone_reached", "open_ended",
              Score(Tenths(23) + Tier(crossed, 10, 7), Of36, t.urgency))}
    ELSE {}

CompetitorOpenedOpportunity(t) ==
    LET p == t.payload IN
    IF /\ t.kind = "competitor_opened"
       /\ Has(p, "competitor_name")
       /\ Has(p, "distance_km") /\ p.distance_km <= NearbyRadius
    THEN {Opp("competitor_opened", "open_ended",
              Score(Tenths(16) + Tier(p.distance_km <= 20, 10, 6)
                      + Tier(Has(p, "their_offer"), 10, 6), Of36, t.urgency))}
    ELSE {}

RenewalDueOpportunity(t) ==
    LET p == t.payload IN
    IF /\ t.kind = "renewal_due"
       /\ Has(p, "plan")
       /\ Has(p, "days_remaining") /\ InWindow(p.days_remaining)
    THEN {Opp("renewal_due", "open_ended",
              Score(Tenths(16) + Timeliness(p.days_remaining), Of26, t.urgency))}
    ELSE {}

CuriousAskDueOpportunity(t) ==
    IF /\ t.kind = "curious_ask_due"
       /\ Has(t.payload, "ask_template")
    THEN {Opp("curious_ask", "open_ended", Score(Tenths(26), Of26, t.urgency))}
    ELSE {}

PerfDipOpportunity(t) ==
    LET p == t.payload IN
    IF /\ t.kind = "perf_dip"
       /\ Has(p, "metric")
       /\ Has(p, "delta_pct") /\ p.delta_pct <= MeaningfulDip
    THEN {Opp("perf_dip", "open_ended",
              Score(Tenths(16) + Tier(p.delta_pct <= StrongDip, 10, 4)
                      + Tier(Has(p, "vs_baseline"), 10, 5), Of36, t.urgency))}
    ELSE {}

ReviewThemeEmergedOpportunity(t) ==
    LET p == t.payload IN
    IF /\ t.kind = "review_theme_emerged"
       /\ Has(p, "theme")
       /\ Has(p, "occurrences_30d") \/ Has(p, "common_quote")
    THEN {Opp("review_theme_emerged", "open_ended",
              Score(Tenths(16) + Tier(Has(p, "common_quote"), 10, 5)
                      + Tier(Has(p, "rising"), 10, 6), Of36, t.urgency))}
    ELSE {}

\* The titled digest items of a kind that the trigger points at.
ResolveDigestItem(m, t, category, kind) ==
    LET p == t.payload IN
    { i \in category.digest :
        /\ {"category", "top_item_id"} \subseteq DOMAIN p
        /\ p.category = m.category
        /\ i.id = p.top_item_id
        /\ i.kind = kind
        /\ i.titled }

ResearchDigestOpportunity(m, t, category) ==
    IF t.kind = "research_digest"
    THEN { Opp("research_digest", "binary_yes_no",
               Score(Tenths(16) + Tier(i.trial, 10, 6) + Tier(i.actionable, 10, 5),
                     Of36, t.urgency)) :
             i \in ResolveDigestItem(m, t, category, "research") }
    ELSE {}

RegulationChangeOpportunity(m, t, category) ==
    IF t.kind = "regulation_change" /\ Has(t.payload, "deadline_iso")
    THEN { Opp("regulation_change", "open_ended",
               Score(Tenths(16) + Tier(i.actionable, 10, 5), Of26, t.urgency)) :
             i \in ResolveDigestItem(m, t, category, "compliance") }
    ELSE {}

ChronicRefillDueOpportunity(t, customer) ==
    LET p == t.payload
        address == Has(p, "delivery_address_saved")
    IN
    IF /\ t.kind = "chronic_refill_due"
       /\ Consented(customer, "refill_reminders")
       /\ Has(p, "molecule_list")
    THEN {Opp("chronic_refill",
              IF address THEN "binary_confirm_cancel" ELSE "open_ended",
              Score(Tenths(16) + Tier(Has(p, "stock_runs_out_iso"), 10, 6)
                      + Tier(address, 10, 5), Of36, t.urgency))}
    ELSE {}

-------------------------------------------------------------------------------

SignalCorroborates(m, t) ==
    \E s \in m.signals : Cardinality(TokensOf(s) \cap TokensOf(t.kind)) >= 2

\* What the generators propose, the corroboration bonus of 0.03 included.
Proposed(m, t, customer, category) ==
    UNION { FestivalOpportunity(m, t),
            SeasonalDipReframeOpportunity(m, t, category),
            CustomerLapsedWinbackOpportunity(m, t, customer),
            RecallDueOpportunity(m, t, customer),
            SupplyAlertOpportunity(m, t),
            PerfSpikeOpportunity(m, t),
            MilestoneReachedOpportunity(t),
            CompetitorOpenedOpportunity(t),
            RenewalDueOpportunity(t),
            CuriousAskDueOpportunity(t),
            PerfDipOpportunity(t),
            ReviewThemeEmergedOpportunity(t),
            ResearchDigestOpportunity(m, t, category),
            RegulationChangeOpportunity(m, t, category),
            ChronicRefillDueOpportunity(t, customer) }

Corroborated(m, t, o) ==
    IF SignalCorroborates(m, t)
    THEN [o EXCEPT !.score = Clamp(@ + 3 * (Full \div 100))]
    ELSE o

GenerateOpportunities(m, t, customer, category) ==
    {Fallback} \cup { Corroborated(m, t, o) : o \in Proposed(m, t, customer, category) }
===============================================================================

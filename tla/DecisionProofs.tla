---------------------------- MODULE DecisionProofs ----------------------------
(***************************************************************************)
(* Decision for any merchants, triggers, digests, consents and instants.   *)
(*                                                                         *)
(* A trigger's kind fixes the generator, and with it the name of whatever  *)
(* is proposed (KindNames); scores are bounded, so the best opportunity    *)
(* exists (BestExists); and a score only grows with its raw terms and its  *)
(* urgency (ScoreGrows).  The properties follow generator by generator.    *)
(***************************************************************************)
EXTENDS Decision, WellFoundedInduction, TLAPS

\* What each kind of trigger can only ever propose.
NameOf(kind) ==
    CASE kind = "festival_upcoming"    -> "festival"
      [] kind = "seasonal_perf_dip"    -> "seasonal_dip_reframe"
      [] kind = "customer_lapsed_hard" -> "customer_winback"
      [] kind = "recall_due"           -> "recall_due"
      [] kind = "supply_alert"         -> "supply_alert"
      [] kind = "perf_spike"           -> "perf_spike"
      [] kind = "milestone_reached"    -> "milestone_reached"
      [] kind = "competitor_opened"    -> "competitor_opened"
      [] kind = "renewal_due"          -> "renewal_due"
      [] kind = "curious_ask_due"      -> "curious_ask"
      [] kind = "perf_dip"             -> "perf_dip"
      [] kind = "review_theme_emerged" -> "review_theme_emerged"
      [] kind = "research_digest"      -> "research_digest"
      [] kind = "regulation_change"    -> "regulation_change"
      [] kind = "chronic_refill_due"   -> "chronic_refill"
      [] OTHER                         -> Fallback.name

\* A trigger and a merchant as the contexts of the decision are typed.
Typed(m, t) ==
    /\ m.offers \in BOOLEAN /\ m.chronic_rx \in BOOLEAN
    /\ t.urgency \in Int
    /\ \A f \in Numbers \cap DOMAIN t.payload : t.payload[f] \in Int

-------------------------------------------------------------------------------
(***************************************************************************)
(* Scores.                                                                 *)
(***************************************************************************)

LEMMA TierType ==
  ASSUME NEW b, NEW high \in Nat, NEW low \in Nat
  PROVE  /\ Tier(b, high, low) \in Nat
         /\ b => Tier(b, high, low) = 14 * high
         /\ ~b => Tier(b, high, low) = 14 * low
  BY DEF Tier, Tenths

LEMMA FullType ==
  /\ Full \in Nat
  /\ SendThreshold \in Nat
  /\ 0 < SendThreshold
  /\ SendThreshold < Full
  BY SMT DEF Full, SendThreshold

LEMMA ClampType == \A x \in Int : Clamp(x) \in 0 .. Full
  BY FullType DEF Clamp

LEMMA ClampGrows == \A x, y \in Int : x <= 0 \/ x <= y => Clamp(x) <= Clamp(y)
  BY FullType DEF Clamp

LEMMA ScoreType ==
  ASSUME NEW raw \in Int, NEW weight \in Int, NEW u \in Int
  PROVE  Score(raw, weight, u) \in 0 .. Full
  <1>1. raw * weight * (19 + u) \in Int
    OBVIOUS
  <1> QED BY <1>1, ClampType DEF Score

\* A raw score of 7/20 of the maximum is enough at urgency one and above.
LEMMA ScoreReaches ==
  ASSUME NEW raw \in Nat, NEW weight \in Nat, NEW u \in Int, u >= 1,
         raw * weight * 20 >= SendThreshold
  PROVE  Score(raw, weight, u) >= SendThreshold
  <1> DEFINE x == raw * weight
  <1>1. x \in Nat /\ x * 20 >= SendThreshold
    OBVIOUS
  <1>2. Score(raw, weight, u) = Clamp(x * (19 + u))
    BY DEF Score
  <1> HIDE DEF x
  <1>3. x * (19 + u) >= x * 20 /\ x * (19 + u) \in Int /\ x * 20 \in Int
    BY <1>1
  <1> QED BY <1>1, <1>2, <1>3, FullType DEF Clamp

\* A score grows with its raw terms and its urgency.
LEMMA ScoreGrows ==
  ASSUME NEW a \in Nat, NEW b \in Nat, NEW weight \in Nat, NEW u \in Int, NEW v \in Int,
         a <= b, u <= v
  PROVE  Score(a, weight, u) <= Score(b, weight, v)
  <1>1. a * weight \in Nat /\ b * weight \in Nat /\ a * weight <= b * weight
    OBVIOUS
  <1> DEFINE x == a * weight
             y == b * weight
  <1>2. x \in Nat /\ y \in Nat /\ x <= y
    BY <1>1
  <1> HIDE DEF x, y
  <1>3. x * (19 + u) \in Int /\ y * (19 + v) \in Int
    BY <1>2
  <1>4. x * (19 + u) <= 0 \/ x * (19 + u) <= y * (19 + v)
    <2>1. CASE 19 + u <= 0
      BY <1>2, <2>1
    <2>2. CASE 19 + u > 0
      <3>1. x * (19 + u) <= y * (19 + u)
        BY <1>2, <2>2
      <3>2. y * (19 + u) <= y * (19 + v)
        BY <1>2, <2>2
      <3>3. y * (19 + u) \in Int
        BY <1>2
      <3> QED BY <1>3, <3>1, <3>2, <3>3
    <2> QED BY <2>1, <2>2
  <1> QED BY <1>3, <1>4, ClampGrows DEF Score, x, y

LEMMA WeightTypes == Of50 \in Nat /\ Of40 \in Nat /\ Of36 \in Nat /\ Of26 \in Nat
  BY DEF Of50, Of40, Of36, Of26

\* The raw scores that are enough, for the generators' four maxima.
LEMMA Floors ==
  ASSUME NEW raw \in Nat
  PROVE  /\ raw >= 350 => raw * Of50 * 20 >= SendThreshold
         /\ raw >= 280 => raw * Of40 * 20 >= SendThreshold
         /\ raw >= 252 => raw * Of36 * 20 >= SendThreshold
         /\ raw >= 182 => raw * Of26 * 20 >= SendThreshold
  BY SMT DEF Of50, Of40, Of36, Of26, SendThreshold, Full

IsOpp(o) == o = Opp(o.name, o.cta, o.score) /\ o.score \in 0 .. Full

LEMMA CorroborationHelps ==
  ASSUME NEW m, NEW t, NEW o, IsOpp(o)
  PROVE  /\ IsOpp(Corroborated(m, t, o))
         /\ Corroborated(m, t, o).score >= o.score
         /\ Corroborated(m, t, o).name = o.name
  <1>1. o.score + 3 * (Full \div 100) >= o.score /\ o.score + 3 * (Full \div 100) \in Int
    BY FullType, SMT DEF IsOpp
  <1> DEFINE c == Clamp(o.score + 3 * (Full \div 100))
  <1>2. c \in 0 .. Full /\ c >= o.score
    BY <1>1, FullType DEF Clamp, IsOpp
  <1> HIDE DEF c
  <1>3. [o EXCEPT !.score = c] = Opp(o.name, o.cta, c)
    BY DEF IsOpp, Opp
  <1>4. Corroborated(m, t, o) = o \/ Corroborated(m, t, o) = Opp(o.name, o.cta, c)
    BY <1>3 DEF Corroborated, c
  <1> QED BY <1>2, <1>4, FullType DEF IsOpp, Opp

-------------------------------------------------------------------------------
(***************************************************************************)
(* What each generator proposes: its name, a score in range, and at the    *)
(* documented urgencies a score that is sent.                              *)
(***************************************************************************)

LEMMA FestivalFacts ==
  ASSUME NEW m, NEW t, Typed(m, t),
         NEW o \in FestivalOpportunity(m, t)
  PROVE  /\ IsOpp(o) /\ o.name = "festival" /\ t.kind = "festival_upcoming"
         /\ (t.urgency >= 1 =>
               o.score >= SendThreshold \/ (t.payload.days_until > 12 /\ ~m.offers))
  <1> DEFINE raw ==
          Tenths(16) + Tier(m.offers, 10, 5) + Timeliness(t.payload.days_until)
          + Tier(m.offers, 10, 3)
  <1>1. /\ o.name = "festival" /\ t.kind = "festival_upcoming"
        /\ o = Opp(o.name, o.cta, Score(raw, Of50, t.urgency))
    BY DEF FestivalOpportunity, Opp
  <1>2. raw \in Nat /\ (raw >= 350 \/ (t.payload.days_until > 12 /\ ~m.offers))
    BY DEF Tier, Tenths, Typed, Numbers, Has, InWindow, TimelinessWindowDays, Timeliness,
           FestivalOpportunity
  <1> HIDE DEF raw
  <1> QED
    BY <1>1, <1>2, ScoreType, ScoreReaches, Floors, WeightTypes DEF IsOpp, Opp, Typed

LEMMA SeasonalDipReframeFacts ==
  ASSUME NEW m, NEW t, Typed(m, t), NEW cat,
         NEW o \in SeasonalDipReframeOpportunity(m, t, cat)
  PROVE  /\ IsOpp(o) /\ o.name = "seasonal_dip_reframe" /\ t.kind = "seasonal_perf_dip"
         /\ (t.urgency >= 1 => o.score >= SendThreshold)
  <1> DEFINE raw ==
          Tenths(10) + Tier(t.payload.delta_pct <= StrongDip, 10, 4) + Tier(m.offers, 10, 5)
                    + Tier(\E i \in cat.digest : i.kind = "seasonal", 10, 3)
  <1>0. /\ t.kind = "seasonal_perf_dip"
        /\ o = Opp("seasonal_dip_reframe", "open_ended", Score(raw, Of40, t.urgency))
    BY Zenon DEF SeasonalDipReframeOpportunity
  <1>2. raw \in Nat /\ raw >= 280
    BY DEF Tier, Tenths
  <1> HIDE DEF raw
  <1>1. /\ o.name = "seasonal_dip_reframe" /\ t.kind = "seasonal_perf_dip"
        /\ o = Opp(o.name, o.cta, Score(raw, Of40, t.urgency))
    BY <1>0 DEF Opp
  <1> QED
    BY <1>1, <1>2, ScoreType, ScoreReaches, Floors, WeightTypes DEF IsOpp, Opp, Typed

LEMMA CustomerLapsedWinbackFacts ==
  ASSUME NEW m, NEW t, Typed(m, t), NEW c,
         NEW o \in CustomerLapsedWinbackOpportunity(m, t, c)
  PROVE  /\ IsOpp(o) /\ o.name = "customer_winback" /\ t.kind = "customer_lapsed_hard"
         /\ (t.urgency >= 1 => o.score >= SendThreshold)
  <1> DEFINE raw == Tenths(16) + Tier(m.offers, 10, 5) + Tier(m.offers, 10, 3)
  <1>1. /\ o.name = "customer_winback" /\ t.kind = "customer_lapsed_hard"
        /\ o = Opp(o.name, o.cta, Score(raw, Of36, t.urgency))
    BY DEF CustomerLapsedWinbackOpportunity, Opp
  <1>2. raw \in Nat /\ raw >= 252
    BY DEF Tier, Tenths
  <1> HIDE DEF raw
  <1> QED
    BY <1>1, <1>2, ScoreType, ScoreReaches, Floors, WeightTypes DEF IsOpp, Opp, Typed

LEMMA RecallDueFacts ==
  ASSUME NEW m, NEW t, Typed(m, t), NEW c,
         NEW o \in RecallDueOpportunity(m, t, c)
  PROVE  /\ IsOpp(o) /\ o.name = "recall_due" /\ t.kind = "recall_due"
         /\ (t.urgency >= 1 => o.score >= SendThreshold)
  <1> DEFINE raw ==
          Tenths(16) + Tier(Has(t.payload, "available_slots"), 10, 5) + Tier(m.offers, 10, 5)
  <1>1. /\ o.name = "recall_due" /\ t.kind = "recall_due"
        /\ o = Opp(o.name, o.cta, Score(raw, Of36, t.urgency))
    BY DEF RecallDueOpportunity, Opp
  <1>2. raw \in Nat /\ raw >= 252
    BY DEF Tier, Tenths
  <1> HIDE DEF raw
  <1> QED
    BY <1>1, <1>2, ScoreType, ScoreReaches, Floors, WeightTypes DEF IsOpp, Opp, Typed

LEMMA SupplyAlertFacts ==
  ASSUME NEW m, NEW t, Typed(m, t),
         NEW o \in SupplyAlertOpportunity(m, t)
  PROVE  /\ IsOpp(o) /\ o.name = "supply_alert" /\ t.kind = "supply_alert"
         /\ (t.urgency >= 1 => o.score >= SendThreshold)
  <1> DEFINE raw == Tenths(16) + Tier(m.chronic_rx, 10, 3)
  <1>1. /\ o.name = "supply_alert" /\ t.kind = "supply_alert"
        /\ o = Opp(o.name, o.cta, Score(raw, Of26, t.urgency))
    BY DEF SupplyAlertOpportunity, Opp
  <1>2. raw \in Nat /\ raw >= 182
    BY DEF Tier, Tenths
  <1> HIDE DEF raw
  <1> QED
    BY <1>1, <1>2, ScoreType, ScoreReaches, Floors, WeightTypes DEF IsOpp, Opp, Typed

LEMMA PerfSpikeFacts ==
  ASSUME NEW m, NEW t, Typed(m, t),
         NEW o \in PerfSpikeOpportunity(m, t)
  PROVE  /\ IsOpp(o) /\ o.name = "perf_spike" /\ t.kind = "perf_spike"
         /\ (t.urgency >= 1 => o.score >= SendThreshold)
  <1> DEFINE raw ==
          Tenths(16) + Tier(t.payload.delta_pct >= 2 * MeaningfulSpike, 10, 6)
          + Tier(m.offers, 10, 5)
  <1>1. /\ o.name = "perf_spike" /\ t.kind = "perf_spike"
        /\ o = Opp(o.name, o.cta, Score(raw, Of36, t.urgency))
    BY DEF PerfSpikeOpportunity, Opp
  <1>2. raw \in Nat /\ raw >= 252
    BY DEF Tier, Tenths
  <1> HIDE DEF raw
  <1> QED
    BY <1>1, <1>2, ScoreType, ScoreReaches, Floors, WeightTypes DEF IsOpp, Opp, Typed

LEMMA MilestoneReachedFacts ==
  ASSUME NEW m, NEW t, Typed(m, t),
         NEW o \in MilestoneReachedOpportunity(t)
  PROVE  /\ IsOpp(o) /\ o.name = "milestone_reached" /\ t.kind = "milestone_reached"
         /\ (t.urgency >= 1 => o.score >= SendThreshold)
  <1> DEFINE raw == Tenths(23) + Tier(t.payload.value_now >= t.payload.milestone_value, 10, 7)
  <1>1. /\ o.name = "milestone_reached" /\ t.kind = "milestone_reached"
        /\ o = Opp(o.name, o.cta, Score(raw, Of36, t.urgency))
    BY DEF MilestoneReachedOpportunity, Opp
  <1>2. raw \in Nat /\ raw >= 252
    BY DEF Tier, Tenths
  <1> HIDE DEF raw
  <1> QED
    BY <1>1, <1>2, ScoreType, ScoreReaches, Floors, WeightTypes DEF IsOpp, Opp, Typed

LEMMA CompetitorOpenedFacts ==
  ASSUME NEW m, NEW t, Typed(m, t),
         NEW o \in CompetitorOpenedOpportunity(t)
  PROVE  /\ IsOpp(o) /\ o.name = "competitor_opened" /\ t.kind = "competitor_opened"
         /\ (t.urgency >= 1 => o.score >= SendThreshold)
  <1> DEFINE raw ==
          Tenths(16) + Tier(t.payload.distance_km <= 20, 10, 6)
          + Tier(Has(t.payload, "their_offer"), 10, 6)
  <1>1. /\ o.name = "competitor_opened" /\ t.kind = "competitor_opened"
        /\ o = Opp(o.name, o.cta, Score(raw, Of36, t.urgency))
    BY DEF CompetitorOpenedOpportunity, Opp
  <1>2. raw \in Nat /\ raw >= 252
    BY DEF Tier, Tenths
  <1> HIDE DEF raw
  <1> QED
    BY <1>1, <1>2, ScoreType, ScoreReaches, Floors, WeightTypes DEF IsOpp, Opp, Typed

LEMMA RenewalDueFacts ==
  ASSUME NEW m, NEW t, Typed(m, t),
         NEW o \in RenewalDueOpportunity(t)
  PROVE  /\ IsOpp(o) /\ o.name = "renewal_due" /\ t.kind = "renewal_due"
         /\ (t.urgency >= 1 => o.score >= SendThreshold)
  <1> DEFINE raw == Tenths(16) + Timeliness(t.payload.days_remaining)
  <1>1. /\ o.name = "renewal_due" /\ t.kind = "renewal_due"
        /\ o = Opp(o.name, o.cta, Score(raw, Of26, t.urgency))
    BY DEF RenewalDueOpportunity, Opp
  <1>2. raw \in Nat /\ raw >= 182
    BY DEF Tier, Tenths, Typed, Numbers, Has, InWindow, TimelinessWindowDays, Timeliness,
           RenewalDueOpportunity
  <1> HIDE DEF raw
  <1> QED
    BY <1>1, <1>2, ScoreType, ScoreReaches, Floors, WeightTypes DEF IsOpp, Opp, Typed

LEMMA CuriousAskDueFacts ==
  ASSUME NEW m, NEW t, Typed(m, t),
         NEW o \in CuriousAskDueOpportunity(t)
  PROVE  /\ IsOpp(o) /\ o.name = "curious_ask" /\ t.kind = "curious_ask_due"
         /\ (t.urgency >= 1 => o.score >= SendThreshold)
  <1> DEFINE raw == Tenths(26)
  <1>1. /\ o.name = "curious_ask" /\ t.kind = "curious_ask_due"
        /\ o = Opp(o.name, o.cta, Score(raw, Of26, t.urgency))
    BY DEF CuriousAskDueOpportunity, Opp
  <1>2. raw \in Nat /\ raw >= 182
    BY DEF Tier, Tenths
  <1> HIDE DEF raw
  <1> QED
    BY <1>1, <1>2, ScoreType, ScoreReaches, Floors, WeightTypes DEF IsOpp, Opp, Typed

LEMMA PerfDipFacts ==
  ASSUME NEW m, NEW t, Typed(m, t),
         NEW o \in PerfDipOpportunity(t)
  PROVE  /\ IsOpp(o) /\ o.name = "perf_dip" /\ t.kind = "perf_dip"
         /\ (t.urgency >= 1 => o.score >= SendThreshold)
  <1> DEFINE raw ==
          Tenths(16) + Tier(t.payload.delta_pct <= StrongDip, 10, 4)
          + Tier(Has(t.payload, "vs_baseline"), 10, 5)
  <1>1. /\ o.name = "perf_dip" /\ t.kind = "perf_dip"
        /\ o = Opp(o.name, o.cta, Score(raw, Of36, t.urgency))
    BY DEF PerfDipOpportunity, Opp
  <1>2. raw \in Nat /\ raw >= 252
    BY DEF Tier, Tenths
  <1> HIDE DEF raw
  <1> QED
    BY <1>1, <1>2, ScoreType, ScoreReaches, Floors, WeightTypes DEF IsOpp, Opp, Typed

LEMMA ReviewThemeEmergedFacts ==
  ASSUME NEW m, NEW t, Typed(m, t),
         NEW o \in ReviewThemeEmergedOpportunity(t)
  PROVE  /\ IsOpp(o) /\ o.name = "review_theme_emerged" /\ t.kind = "review_theme_emerged"
         /\ (t.urgency >= 1 => o.score >= SendThreshold)
  <1> DEFINE raw ==
          Tenths(16) + Tier(Has(t.payload, "common_quote"), 10, 5)
          + Tier(Has(t.payload, "rising"), 10, 6)
  <1>1. /\ o.name = "review_theme_emerged" /\ t.kind = "review_theme_emerged"
        /\ o = Opp(o.name, o.cta, Score(raw, Of36, t.urgency))
    BY DEF ReviewThemeEmergedOpportunity, Opp
  <1>2. raw \in Nat /\ raw >= 252
    BY DEF Tier, Tenths
  <1> HIDE DEF raw
  <1> QED
    BY <1>1, <1>2, ScoreType, ScoreReaches, Floors, WeightTypes DEF IsOpp, Opp, Typed

LEMMA ResearchDigestFacts ==
  ASSUME NEW m, NEW t, Typed(m, t), NEW cat,
         NEW o \in ResearchDigestOpportunity(m, t, cat)
  PROVE  /\ IsOpp(o) /\ o.name = "research_digest" /\ t.kind = "research_digest"
         /\ (t.urgency >= 1 => o.score >= SendThreshold)
  <1>0. PICK i \in ResolveDigestItem(m, t, cat, "research") :
              o = Opp("research_digest", "binary_yes_no",
                      Score(Tenths(16) + Tier(i.trial, 10, 6) + Tier(i.actionable, 10, 5),
                            Of36, t.urgency))
    BY DEF ResearchDigestOpportunity
  <1> DEFINE raw == Tenths(16) + Tier(i.trial, 10, 6) + Tier(i.actionable, 10, 5)
  <1>1. /\ o.name = "research_digest" /\ t.kind = "research_digest"
        /\ o = Opp(o.name, o.cta, Score(raw, Of36, t.urgency))
    BY <1>0 DEF ResearchDigestOpportunity, Opp
  <1>2. raw \in Nat /\ raw >= 252
    BY DEF Tier, Tenths
  <1> HIDE DEF raw
  <1> QED
    BY <1>1, <1>2, ScoreType, ScoreReaches, Floors, WeightTypes DEF IsOpp, Opp, Typed

LEMMA RegulationChangeFacts ==
  ASSUME NEW m, NEW t, Typed(m, t), NEW cat,
         NEW o \in RegulationChangeOpportunity(m, t, cat)
  PROVE  /\ IsOpp(o) /\ o.name = "regulation_change" /\ t.kind = "regulation_change"
         /\ (t.urgency >= 1 => o.score >= SendThreshold)
  <1>0. PICK i \in ResolveDigestItem(m, t, cat, "compliance") :
              o = Opp("regulation_change", "open_ended",
                      Score(Tenths(16) + Tier(i.actionable, 10, 5), Of26, t.urgency))
    BY DEF RegulationChangeOpportunity
  <1> DEFINE raw == Tenths(16) + Tier(i.actionable, 10, 5)
  <1>1. /\ o.name = "regulation_change" /\ t.kind = "regulation_change"
        /\ o = Opp(o.name, o.cta, Score(raw, Of26, t.urgency))
    BY <1>0 DEF RegulationChangeOpportunity, Opp
  <1>2. raw \in Nat /\ raw >= 182
    BY DEF Tier, Tenths
  <1> HIDE DEF raw
  <1> QED
    BY <1>1, <1>2, ScoreType, ScoreReaches, Floors, WeightTypes DEF IsOpp, Opp, Typed

LEMMA ChronicRefillDueFacts ==
  ASSUME NEW m, NEW t, Typed(m, t), NEW c,
         NEW o \in ChronicRefillDueOpportunity(t, c)
  PROVE  /\ IsOpp(o) /\ o.name = "chronic_refill" /\ t.kind = "chronic_refill_due"
         /\ (t.urgency >= 1 => o.score >= SendThreshold)
  <1> DEFINE raw == Tenths(16) + Tier(Has(t.payload, "stock_runs_out_iso"), 10, 6)
                    + Tier(Has(t.payload, "delivery_address_saved"), 10, 5)
  <1>1. /\ o.name = "chronic_refill" /\ t.kind = "chronic_refill_due"
        /\ o = Opp(o.name, o.cta, Score(raw, Of36, t.urgency))
    BY DEF ChronicRefillDueOpportunity, Opp
  <1>2. raw \in Nat /\ raw >= 252
    BY DEF Tier, Tenths
  <1> HIDE DEF raw
  <1> QED
    BY <1>1, <1>2, ScoreType, ScoreReaches, Floors, WeightTypes DEF IsOpp, Opp, Typed

-------------------------------------------------------------------------------
(***************************************************************************)
(* A stronger trigger or merchant gets a proposal that scores no less.     *)
(***************************************************************************)

LEMMA StrongerFields ==
  ASSUME NEW m, NEW t, Typed(m, t), NEW n, NEW u, Typed(n, u), StrongerTrigger(u, t)
  PROVE  /\ u.kind = t.kind /\ u.urgency >= t.urgency
         /\ DOMAIN t.payload \subseteq DOMAIN u.payload
         /\ \A f \in DOMAIN t.payload \ (Numbers \ {"milestone_value"}) :
               u.payload[f] = t.payload[f]
         /\ \A f \in {"days_until", "days_remaining", "distance_km"} :
               f \in DOMAIN t.payload =>
                   /\ f \in DOMAIN u.payload
                   /\ t.payload[f] \in Int
                   /\ u.payload[f] \in 0 .. t.payload[f]
         /\ "delta_pct" \in DOMAIN t.payload =>
               /\ "delta_pct" \in DOMAIN u.payload
               /\ t.payload.delta_pct \in Int /\ u.payload.delta_pct \in Int
               /\ \/ t.payload.delta_pct < 0 /\ u.payload.delta_pct <= t.payload.delta_pct
                  \/ t.payload.delta_pct >= 0 /\ u.payload.delta_pct >= t.payload.delta_pct
         /\ "value_now" \in DOMAIN t.payload =>
               /\ "value_now" \in DOMAIN u.payload
               /\ t.payload.value_now \in Int /\ u.payload.value_now \in Int
               /\ u.payload.value_now >= t.payload.value_now
  <1>1. /\ u.kind = t.kind /\ u.urgency >= t.urgency
        /\ DOMAIN t.payload \subseteq DOMAIN u.payload
        /\ \A f \in DOMAIN t.payload : AtLeast(f, u.payload[f], t.payload[f])
    BY DEF StrongerTrigger
  <1>2. ASSUME NEW f \in DOMAIN t.payload \ (Numbers \ {"milestone_value"})
        PROVE  u.payload[f] = t.payload[f]
    BY <1>1, <1>2 DEF AtLeast, Numbers
  <1>3. ASSUME NEW f \in {"days_until", "days_remaining", "distance_km"}, f \in DOMAIN t.payload
        PROVE  /\ f \in DOMAIN u.payload
               /\ t.payload[f] \in Int
               /\ u.payload[f] \in 0 .. t.payload[f]
    BY <1>1, <1>3 DEF AtLeast, Typed, Numbers
  <1>4. ASSUME "delta_pct" \in DOMAIN t.payload
        PROVE  /\ "delta_pct" \in DOMAIN u.payload
               /\ t.payload.delta_pct \in Int /\ u.payload.delta_pct \in Int
               /\ \/ t.payload.delta_pct < 0 /\ u.payload.delta_pct <= t.payload.delta_pct
                  \/ t.payload.delta_pct >= 0 /\ u.payload.delta_pct >= t.payload.delta_pct
    BY <1>1, <1>4 DEF AtLeast, Typed, Numbers
  <1>5. ASSUME "value_now" \in DOMAIN t.payload
        PROVE  /\ "value_now" \in DOMAIN u.payload
               /\ t.payload.value_now \in Int /\ u.payload.value_now \in Int
               /\ u.payload.value_now >= t.payload.value_now
    BY <1>1, <1>5 DEF AtLeast, Typed, Numbers
  <1> QED BY <1>1, <1>2, <1>3, <1>4, <1>5

LEMMA FestivalGrows ==
  ASSUME NEW m, NEW t, Typed(m, t), NEW n, NEW u, Typed(n, u),
         StrongerMerchant(n, m), StrongerTrigger(u, t),
         NEW o \in FestivalOpportunity(m, t)
  PROVE  \E q \in FestivalOpportunity(n, u) : q.score >= o.score
  <1> DEFINE Raw(mm, tt) ==
          Tenths(16) + Tier(mm.offers, 10, 5) + Timeliness(tt.payload.days_until)
          + Tier(mm.offers, 10, 3)
  <1>1. o.score = Score(Raw(m, t), Of50, t.urgency)
    BY DEF FestivalOpportunity, Opp
  <1>2. Has(t.payload, "days_until") /\ InWindow(t.payload.days_until)
    BY DEF FestivalOpportunity
  <1>3. Has(u.payload, "days_until") /\ InWindow(u.payload.days_until)
    BY <1>2, StrongerFields DEF FestivalOpportunity, Has, InWindow, TimelinessWindowDays
  <1>4. \E q \in FestivalOpportunity(n, u) : q.score = Score(Raw(n, u), Of50, u.urgency)
    <2>1. /\ {"festival", "category_relevance"} \subseteq DOMAIN t.payload
          /\ t.kind = "festival_upcoming" /\ m.category \in t.payload.category_relevance
      BY DEF FestivalOpportunity, Has
    <2>2. /\ {"festival", "category_relevance"} \subseteq DOMAIN u.payload
          /\ u.kind = "festival_upcoming" /\ n.category \in u.payload.category_relevance
      BY <2>1, StrongerFields DEF StrongerMerchant, Numbers
    <2> QED BY <1>3, <2>2 DEF FestivalOpportunity, Opp, Has
  <1>5. Raw(m, t) \in Nat /\ Raw(n, u) \in Nat /\ Raw(m, t) <= Raw(n, u)
    <2>1. Timeliness(t.payload.days_until) \in Nat /\ Timeliness(u.payload.days_until) \in Nat
      BY <1>2, <1>3 DEF Timeliness, InWindow, TimelinessWindowDays, Tenths
    <2>2. Timeliness(t.payload.days_until) <= Timeliness(u.payload.days_until)
      BY <1>2, StrongerFields DEF Timeliness, Tenths, Has
    <2> QED BY <2>1, <2>2 DEF Tier, Tenths, StrongerMerchant
  <1>6. Score(Raw(m, t), Of50, t.urgency) <= Score(Raw(n, u), Of50, u.urgency)
    BY <1>5, ScoreGrows, StrongerFields, WeightTypes DEF Typed
  <1> QED BY <1>1, <1>4, <1>5, <1>6, ScoreType, WeightTypes DEF Typed

LEMMA SeasonalDipReframeGrows ==
  ASSUME NEW m, NEW t, Typed(m, t), NEW n, NEW u, Typed(n, u),
         StrongerMerchant(n, m), StrongerTrigger(u, t), NEW cat,
         NEW o \in SeasonalDipReframeOpportunity(m, t, cat)
  PROVE  \E q \in SeasonalDipReframeOpportunity(n, u, cat) : q.score >= o.score
  <1> DEFINE Raw(mm, tt) ==
          Tenths(10) + Tier(tt.payload.delta_pct <= StrongDip, 10, 4) + Tier(mm.offers, 10, 5)
                    + Tier(\E i \in cat.digest : i.kind = "seasonal", 10, 3)
  <1>1. o.score = Score(Raw(m, t), Of40, t.urgency)
    <2>1. o = Opp("seasonal_dip_reframe", "open_ended", Score(Raw(m, t), Of40, t.urgency))
      BY Zenon DEF SeasonalDipReframeOpportunity
    <2> QED BY Zenon, <2>1 DEF Opp
  <1>2. Has(t.payload, "delta_pct") /\ t.payload.delta_pct <= MeaningfulDip
    BY DEF SeasonalDipReframeOpportunity
  <1>3. Has(u.payload, "delta_pct") /\ u.payload.delta_pct <= MeaningfulDip
    BY <1>2, StrongerFields DEF SeasonalDipReframeOpportunity, Has, MeaningfulDip
  <1>4. \E q \in SeasonalDipReframeOpportunity(n, u, cat) :
          q.score = Score(Raw(n, u), Of40, u.urgency)
    BY <1>3, StrongerFields DEF SeasonalDipReframeOpportunity, Opp, Has, Numbers
  <1>5. Raw(m, t) \in Nat /\ Raw(n, u) \in Nat /\ Raw(m, t) <= Raw(n, u)
    BY <1>2, <1>3, StrongerFields
       DEF SeasonalDipReframeOpportunity, Tier, Tenths, Has, Typed, Numbers,
           StrongerMerchant, MeaningfulDip, StrongDip
  <1>6. Score(Raw(m, t), Of40, t.urgency) <= Score(Raw(n, u), Of40, u.urgency)
    BY <1>5, ScoreGrows, StrongerFields, WeightTypes, ZenonT(40) DEF Typed
  <1> QED BY <1>1, <1>4, <1>5, <1>6, ScoreType, WeightTypes DEF Typed

LEMMA CustomerLapsedWinbackGrows ==
  ASSUME NEW m, NEW t, Typed(m, t), NEW n, NEW u, Typed(n, u),
         StrongerMerchant(n, m), StrongerTrigger(u, t), NEW c,
         NEW o \in CustomerLapsedWinbackOpportunity(m, t, c)
  PROVE  \E q \in CustomerLapsedWinbackOpportunity(n, u, c) : q.score >= o.score
  <1> DEFINE Raw(mm, tt) == Tenths(16) + Tier(mm.offers, 10, 5) + Tier(mm.offers, 10, 3)
  <1>1. o.score = Score(Raw(m, t), Of36, t.urgency)
    BY DEF CustomerLapsedWinbackOpportunity, Opp
  <1>2. \E q \in CustomerLapsedWinbackOpportunity(n, u, c) :
          q.score = Score(Raw(n, u), Of36, u.urgency)
    BY StrongerFields DEF CustomerLapsedWinbackOpportunity, Opp, Has, Numbers, StrongerMerchant
  <1>3. Raw(m, t) \in Nat /\ Raw(n, u) \in Nat /\ Raw(m, t) <= Raw(n, u)
    BY StrongerFields
       DEF CustomerLapsedWinbackOpportunity, Tier, Tenths, Has, Typed, Numbers, StrongerMerchant
  <1>4. Score(Raw(m, t), Of36, t.urgency) <= Score(Raw(n, u), Of36, u.urgency)
    BY <1>3, ScoreGrows, StrongerFields, WeightTypes DEF Typed
  <1> QED BY <1>1, <1>2, <1>3, <1>4, ScoreType, WeightTypes DEF Typed

LEMMA RecallDueGrows ==
  ASSUME NEW m, NEW t, Typed(m, t), NEW n, NEW u, Typed(n, u),
         StrongerMerchant(n, m), StrongerTrigger(u, t), NEW c,
         NEW o \in RecallDueOpportunity(m, t, c)
  PROVE  \E q \in RecallDueOpportunity(n, u, c) : q.score >= o.score
  <1> DEFINE Raw(mm, tt) ==
          Tenths(16) + Tier(Has(tt.payload, "available_slots"), 10, 5) + Tier(mm.offers, 10, 5)
  <1>1. o.score = Score(Raw(m, t), Of36, t.urgency)
    BY DEF RecallDueOpportunity, Opp
  <1>2. \E q \in RecallDueOpportunity(n, u, c) :
          q.score = Score(Raw(n, u), Of36, u.urgency)
    BY StrongerFields DEF RecallDueOpportunity, Opp, Has, Numbers, StrongerMerchant
  <1>3. Raw(m, t) \in Nat /\ Raw(n, u) \in Nat /\ Raw(m, t) <= Raw(n, u)
    BY StrongerFields
       DEF RecallDueOpportunity, Tier, Tenths, Has, Typed, Numbers, StrongerMerchant
  <1>4. Score(Raw(m, t), Of36, t.urgency) <= Score(Raw(n, u), Of36, u.urgency)
    BY <1>3, ScoreGrows, StrongerFields, WeightTypes DEF Typed
  <1> QED BY <1>1, <1>2, <1>3, <1>4, ScoreType, WeightTypes DEF Typed

LEMMA SupplyAlertGrows ==
  ASSUME NEW m, NEW t, Typed(m, t), NEW n, NEW u, Typed(n, u),
         StrongerMerchant(n, m), StrongerTrigger(u, t),
         NEW o \in SupplyAlertOpportunity(m, t)
  PROVE  \E q \in SupplyAlertOpportunity(n, u) : q.score >= o.score
  <1> DEFINE Raw(mm, tt) == Tenths(16) + Tier(mm.chronic_rx, 10, 3)
  <1>1. o.score = Score(Raw(m, t), Of26, t.urgency)
    BY DEF SupplyAlertOpportunity, Opp
  <1>2. \E q \in SupplyAlertOpportunity(n, u) : q.score = Score(Raw(n, u), Of26, u.urgency)
    <2>1. Has(t.payload, "molecule") /\ ~AlreadyDiscussed(m, t.payload.molecule)
      BY DEF SupplyAlertOpportunity
    <2>2. Has(u.payload, "molecule") /\ u.payload.molecule = t.payload.molecule
      BY <2>1, StrongerFields DEF Has, Numbers
    <2>3. ~AlreadyDiscussed(n, u.payload.molecule)
      BY <2>1, <2>2 DEF AlreadyDiscussed, StrongerMerchant
    <2> QED BY <2>2, <2>3, StrongerFields DEF SupplyAlertOpportunity, Opp
  <1>3. Raw(m, t) \in Nat /\ Raw(n, u) \in Nat /\ Raw(m, t) <= Raw(n, u)
    BY StrongerFields
       DEF SupplyAlertOpportunity, Tier, Tenths, Has, Typed, Numbers, StrongerMerchant
  <1>4. Score(Raw(m, t), Of26, t.urgency) <= Score(Raw(n, u), Of26, u.urgency)
    BY <1>3, ScoreGrows, StrongerFields, WeightTypes DEF Typed
  <1> QED BY <1>1, <1>2, <1>3, <1>4, ScoreType, WeightTypes DEF Typed

LEMMA PerfSpikeGrows ==
  ASSUME NEW m, NEW t, Typed(m, t), NEW n, NEW u, Typed(n, u),
         StrongerMerchant(n, m), StrongerTrigger(u, t),
         NEW o \in PerfSpikeOpportunity(m, t)
  PROVE  \E q \in PerfSpikeOpportunity(n, u) : q.score >= o.score
  <1> DEFINE Raw(mm, tt) ==
          Tenths(16) + Tier(tt.payload.delta_pct >= 2 * MeaningfulSpike, 10, 6)
          + Tier(mm.offers, 10, 5)
  <1>1. o.score = Score(Raw(m, t), Of36, t.urgency)
    BY DEF PerfSpikeOpportunity, Opp
  <1>2. Has(t.payload, "delta_pct") /\ t.payload.delta_pct >= MeaningfulSpike
    BY DEF PerfSpikeOpportunity
  <1>3. Has(u.payload, "delta_pct") /\ u.payload.delta_pct >= MeaningfulSpike
    BY <1>2, StrongerFields DEF PerfSpikeOpportunity, Has, MeaningfulSpike
  <1>4. \E q \in PerfSpikeOpportunity(n, u) : q.score = Score(Raw(n, u), Of36, u.urgency)
    BY <1>3, StrongerFields DEF PerfSpikeOpportunity, Opp, Has, Numbers
  <1>5. Raw(m, t) \in Nat /\ Raw(n, u) \in Nat /\ Raw(m, t) <= Raw(n, u)
    <2>1. t.payload.delta_pct >= 2 * MeaningfulSpike =>
              u.payload.delta_pct >= 2 * MeaningfulSpike
      BY <1>2, StrongerFields DEF Has, MeaningfulSpike
    <2> QED BY <2>1 DEF Tier, Tenths, StrongerMerchant
  <1>6. Score(Raw(m, t), Of36, t.urgency) <= Score(Raw(n, u), Of36, u.urgency)
    BY <1>5, ScoreGrows, StrongerFields, WeightTypes DEF Typed
  <1> QED BY <1>1, <1>4, <1>5, <1>6, ScoreType, WeightTypes DEF Typed

LEMMA MilestoneReachedGrows ==
  ASSUME NEW m, NEW t, Typed(m, t), NEW n, NEW u, Typed(n, u),
         StrongerMerchant(n, m), StrongerTrigger(u, t),
         NEW o \in MilestoneReachedOpportunity(t)
  PROVE  \E q \in MilestoneReachedOpportunity(u) : q.score >= o.score
  <1> DEFINE Raw(mm, tt) ==
          Tenths(23) + Tier(tt.payload.value_now >= tt.payload.milestone_value, 10, 7)
  <1>1. o.score = Score(Raw(m, t), Of36, t.urgency)
    BY DEF MilestoneReachedOpportunity, Opp
  <1>2. /\ Has(t.payload, "value_now")
        /\ \/ t.payload.value_now >= t.payload.milestone_value
           \/ Has(t.payload, "is_imminent")
    BY DEF MilestoneReachedOpportunity, Has
  <1>3. /\ Has(u.payload, "value_now")
        /\ \/ u.payload.value_now >= u.payload.milestone_value
           \/ Has(u.payload, "is_imminent")
    <2>1. "milestone_value" \in DOMAIN t.payload
      BY DEF MilestoneReachedOpportunity
    <2>2. /\ u.payload.milestone_value = t.payload.milestone_value
          /\ t.payload.milestone_value \in Int
      BY <2>1, StrongerFields DEF Typed, Numbers
    <2> QED BY <1>2, <2>2, StrongerFields DEF Has
  <1>4. \E q \in MilestoneReachedOpportunity(u) : q.score = Score(Raw(n, u), Of36, u.urgency)
    BY <1>3, StrongerFields DEF MilestoneReachedOpportunity, Opp, Has, Numbers
  <1>5. Raw(m, t) \in Nat /\ Raw(n, u) \in Nat /\ Raw(m, t) <= Raw(n, u)
    BY <1>2, <1>3, StrongerFields
       DEF MilestoneReachedOpportunity, Tier, Tenths, Has, Typed, Numbers, StrongerMerchant
  <1>6. Score(Raw(m, t), Of36, t.urgency) <= Score(Raw(n, u), Of36, u.urgency)
    BY <1>5, ScoreGrows, StrongerFields, WeightTypes DEF Typed
  <1> QED BY <1>1, <1>4, <1>5, <1>6, ScoreType, WeightTypes DEF Typed

LEMMA CompetitorOpenedGrows ==
  ASSUME NEW m, NEW t, Typed(m, t), NEW n, NEW u, Typed(n, u),
         StrongerMerchant(n, m), StrongerTrigger(u, t),
         NEW o \in CompetitorOpenedOpportunity(t)
  PROVE  \E q \in CompetitorOpenedOpportunity(u) : q.score >= o.score
  <1> DEFINE Raw(mm, tt) ==
          Tenths(16) + Tier(tt.payload.distance_km <= 20, 10, 6)
          + Tier(Has(tt.payload, "their_offer"), 10, 6)
  <1>1. o.score = Score(Raw(m, t), Of36, t.urgency)
    BY DEF CompetitorOpenedOpportunity, Opp
  <1>2. Has(t.payload, "distance_km") /\ t.payload.distance_km <= NearbyRadius
    BY DEF CompetitorOpenedOpportunity
  <1>3. Has(u.payload, "distance_km") /\ u.payload.distance_km <= NearbyRadius
    BY <1>2, StrongerFields DEF CompetitorOpenedOpportunity, Has, NearbyRadius
  <1>4. \E q \in CompetitorOpenedOpportunity(u) : q.score = Score(Raw(n, u), Of36, u.urgency)
    BY <1>3, StrongerFields DEF CompetitorOpenedOpportunity, Opp, Has, Numbers
  <1>5. Raw(m, t) \in Nat /\ Raw(n, u) \in Nat /\ Raw(m, t) <= Raw(n, u)
    BY <1>2, <1>3, StrongerFields
       DEF CompetitorOpenedOpportunity, Tier, Tenths, Has, Typed, Numbers, StrongerMerchant
  <1>6. Score(Raw(m, t), Of36, t.urgency) <= Score(Raw(n, u), Of36, u.urgency)
    BY <1>5, ScoreGrows, StrongerFields, WeightTypes DEF Typed
  <1> QED BY <1>1, <1>4, <1>5, <1>6, ScoreType, WeightTypes DEF Typed

LEMMA RenewalDueGrows ==
  ASSUME NEW m, NEW t, Typed(m, t), NEW n, NEW u, Typed(n, u),
         StrongerMerchant(n, m), StrongerTrigger(u, t),
         NEW o \in RenewalDueOpportunity(t)
  PROVE  \E q \in RenewalDueOpportunity(u) : q.score >= o.score
  <1> DEFINE Raw(mm, tt) == Tenths(16) + Timeliness(tt.payload.days_remaining)
  <1>1. o.score = Score(Raw(m, t), Of26, t.urgency)
    BY DEF RenewalDueOpportunity, Opp
  <1>2. Has(t.payload, "days_remaining") /\ InWindow(t.payload.days_remaining)
    BY DEF RenewalDueOpportunity
  <1>3. Has(u.payload, "days_remaining") /\ InWindow(u.payload.days_remaining)
    BY <1>2, StrongerFields DEF RenewalDueOpportunity, Has, InWindow, TimelinessWindowDays
  <1>4. \E q \in RenewalDueOpportunity(u) : q.score = Score(Raw(n, u), Of26, u.urgency)
    BY <1>3, StrongerFields DEF RenewalDueOpportunity, Opp, Has, Numbers
  <1>5. Raw(m, t) \in Nat /\ Raw(n, u) \in Nat /\ Raw(m, t) <= Raw(n, u)
    <2>1. /\ Timeliness(t.payload.days_remaining) \in Nat
          /\ Timeliness(u.payload.days_remaining) \in Nat
      BY <1>2, <1>3 DEF Timeliness, InWindow, TimelinessWindowDays, Tenths
    <2>2. Timeliness(t.payload.days_remaining) <= Timeliness(u.payload.days_remaining)
      BY <1>2, StrongerFields DEF Timeliness, Tenths, Has
    <2> QED BY <2>1, <2>2 DEF Tenths
  <1>6. Score(Raw(m, t), Of26, t.urgency) <= Score(Raw(n, u), Of26, u.urgency)
    BY <1>5, ScoreGrows, StrongerFields, WeightTypes DEF Typed
  <1> QED BY <1>1, <1>4, <1>5, <1>6, ScoreType, WeightTypes DEF Typed

LEMMA CuriousAskDueGrows ==
  ASSUME NEW m, NEW t, Typed(m, t), NEW n, NEW u, Typed(n, u),
         StrongerMerchant(n, m), StrongerTrigger(u, t),
         NEW o \in CuriousAskDueOpportunity(t)
  PROVE  \E q \in CuriousAskDueOpportunity(u) : q.score >= o.score
  <1> DEFINE Raw(mm, tt) == Tenths(26)
  <1>1. o.score = Score(Raw(m, t), Of26, t.urgency)
    BY DEF CuriousAskDueOpportunity, Opp
  <1>2. \E q \in CuriousAskDueOpportunity(u) : q.score = Score(Raw(n, u), Of26, u.urgency)
    BY StrongerFields DEF CuriousAskDueOpportunity, Opp, Has, Numbers
  <1>3. Raw(m, t) \in Nat /\ Raw(n, u) \in Nat /\ Raw(m, t) <= Raw(n, u)
    BY StrongerFields
       DEF CuriousAskDueOpportunity, Tier, Tenths, Has, Typed, Numbers, StrongerMerchant
  <1>4. Score(Raw(m, t), Of26, t.urgency) <= Score(Raw(n, u), Of26, u.urgency)
    BY <1>3, ScoreGrows, StrongerFields, WeightTypes DEF Typed
  <1> QED BY <1>1, <1>2, <1>3, <1>4, ScoreType, WeightTypes DEF Typed

LEMMA PerfDipGrows ==
  ASSUME NEW m, NEW t, Typed(m, t), NEW n, NEW u, Typed(n, u),
         StrongerMerchant(n, m), StrongerTrigger(u, t),
         NEW o \in PerfDipOpportunity(t)
  PROVE  \E q \in PerfDipOpportunity(u) : q.score >= o.score
  <1> DEFINE Raw(mm, tt) ==
          Tenths(16) + Tier(tt.payload.delta_pct <= StrongDip, 10, 4)
          + Tier(Has(tt.payload, "vs_baseline"), 10, 5)
  <1>1. o.score = Score(Raw(m, t), Of36, t.urgency)
    BY DEF PerfDipOpportunity, Opp
  <1>2. Has(t.payload, "delta_pct") /\ t.payload.delta_pct <= MeaningfulDip
    BY DEF PerfDipOpportunity
  <1>3. Has(u.payload, "delta_pct") /\ u.payload.delta_pct <= MeaningfulDip
    BY <1>2, StrongerFields DEF PerfDipOpportunity, Has, MeaningfulDip
  <1>4. \E q \in PerfDipOpportunity(u) : q.score = Score(Raw(n, u), Of36, u.urgency)
    BY <1>3, StrongerFields DEF PerfDipOpportunity, Opp, Has, Numbers
  <1>5. Raw(m, t) \in Nat /\ Raw(n, u) \in Nat /\ Raw(m, t) <= Raw(n, u)
    BY <1>2, <1>3, StrongerFields
       DEF PerfDipOpportunity, Tier, Tenths, Has, Typed, Numbers, StrongerMerchant,
           MeaningfulDip, StrongDip
  <1>6. Score(Raw(m, t), Of36, t.urgency) <= Score(Raw(n, u), Of36, u.urgency)
    BY <1>5, ScoreGrows, StrongerFields, WeightTypes DEF Typed
  <1> QED BY <1>1, <1>4, <1>5, <1>6, ScoreType, WeightTypes DEF Typed

LEMMA ReviewThemeEmergedGrows ==
  ASSUME NEW m, NEW t, Typed(m, t), NEW n, NEW u, Typed(n, u),
         StrongerMerchant(n, m), StrongerTrigger(u, t),
         NEW o \in ReviewThemeEmergedOpportunity(t)
  PROVE  \E q \in ReviewThemeEmergedOpportunity(u) : q.score >= o.score
  <1> DEFINE Raw(mm, tt) ==
          Tenths(16) + Tier(Has(tt.payload, "common_quote"), 10, 5)
          + Tier(Has(tt.payload, "rising"), 10, 6)
  <1>1. o.score = Score(Raw(m, t), Of36, t.urgency)
    BY DEF ReviewThemeEmergedOpportunity, Opp
  <1>2. \E q \in ReviewThemeEmergedOpportunity(u) : q.score = Score(Raw(n, u), Of36, u.urgency)
    BY StrongerFields DEF ReviewThemeEmergedOpportunity, Opp, Has, Numbers
  <1>3. Raw(m, t) \in Nat /\ Raw(n, u) \in Nat /\ Raw(m, t) <= Raw(n, u)
    BY StrongerFields
       DEF ReviewThemeEmergedOpportunity, Tier, Tenths, Has, Typed, Numbers, StrongerMerchant
  <1>4. Score(Raw(m, t), Of36, t.urgency) <= Score(Raw(n, u), Of36, u.urgency)
    BY <1>3, ScoreGrows, StrongerFields, WeightTypes DEF Typed
  <1> QED BY <1>1, <1>2, <1>3, <1>4, ScoreType, WeightTypes DEF Typed

LEMMA ChronicRefillDueGrows ==
  ASSUME NEW m, NEW t, Typed(m, t), NEW n, NEW u, Typed(n, u),
         StrongerMerchant(n, m), StrongerTrigger(u, t), NEW c,
         NEW o \in ChronicRefillDueOpportunity(t, c)
  PROVE  \E q \in ChronicRefillDueOpportunity(u, c) : q.score >= o.score
  <1> DEFINE Raw(mm, tt) == Tenths(16) + Tier(Has(tt.payload, "stock_runs_out_iso"), 10, 6)
                    + Tier(Has(tt.payload, "delivery_address_saved"), 10, 5)
  <1>1. o.score = Score(Raw(m, t), Of36, t.urgency)
    BY DEF ChronicRefillDueOpportunity, Opp
  <1>2. \E q \in ChronicRefillDueOpportunity(u, c) :
          q.score = Score(Raw(n, u), Of36, u.urgency)
    BY StrongerFields DEF ChronicRefillDueOpportunity, Opp, Has, Numbers
  <1>3. Raw(m, t) \in Nat /\ Raw(n, u) \in Nat /\ Raw(m, t) <= Raw(n, u)
    BY StrongerFields
       DEF ChronicRefillDueOpportunity, Tier, Tenths, Has, Typed, Numbers, StrongerMerchant
  <1>4. Score(Raw(m, t), Of36, t.urgency) <= Score(Raw(n, u), Of36, u.urgency)
    BY <1>3, ScoreGrows, StrongerFields, WeightTypes DEF Typed
  <1> QED BY <1>1, <1>2, <1>3, <1>4, ScoreType, WeightTypes DEF Typed

LEMMA DigestStays ==
  ASSUME NEW m, NEW t, Typed(m, t), NEW n, NEW u, Typed(n, u),
         StrongerMerchant(n, m), StrongerTrigger(u, t), NEW cat, NEW kind,
         NEW i \in ResolveDigestItem(m, t, cat, kind)
  PROVE  i \in ResolveDigestItem(n, u, cat, kind)
  <1>1. /\ {"category", "top_item_id"} \subseteq DOMAIN t.payload
        /\ t.payload.category = m.category
        /\ i \in cat.digest /\ i.id = t.payload.top_item_id
        /\ i.kind = kind /\ i.titled
    BY DEF ResolveDigestItem
  <1>2. /\ {"category", "top_item_id"} \subseteq DOMAIN u.payload
        /\ u.payload.category = n.category
        /\ u.payload.top_item_id = t.payload.top_item_id
    BY <1>1, StrongerFields DEF StrongerMerchant, Numbers
  <1> QED BY <1>1, <1>2 DEF ResolveDigestItem

LEMMA ResearchDigestGrows ==
  ASSUME NEW m, NEW t, Typed(m, t), NEW n, NEW u, Typed(n, u),
         StrongerMerchant(n, m), StrongerTrigger(u, t), NEW cat,
         NEW o \in ResearchDigestOpportunity(m, t, cat)
  PROVE  \E q \in ResearchDigestOpportunity(n, u, cat) : q.score >= o.score
  <1> DEFINE Raw(i) == Tenths(16) + Tier(i.trial, 10, 6) + Tier(i.actionable, 10, 5)
  <1>1. PICK i \in ResolveDigestItem(m, t, cat, "research") :
            o = Opp("research_digest", "binary_yes_no", Score(Raw(i), Of36, t.urgency))
    BY DEF ResearchDigestOpportunity
  <1>2. t.kind = "research_digest" /\ u.kind = "research_digest"
    BY StrongerFields DEF ResearchDigestOpportunity
  <1>3. Opp("research_digest", "binary_yes_no", Score(Raw(i), Of36, u.urgency))
            \in ResearchDigestOpportunity(n, u, cat)
    BY <1>2, DigestStays DEF ResearchDigestOpportunity
  <1>4. Raw(i) \in Nat
    BY DEF Tier, Tenths
  <1> HIDE DEF Raw
  <1>5. Score(Raw(i), Of36, t.urgency) <= Score(Raw(i), Of36, u.urgency)
    BY <1>4, ScoreGrows, StrongerFields, WeightTypes DEF Typed
  <1> QED BY <1>1, <1>3, <1>4, <1>5, ScoreType, WeightTypes DEF Typed, Opp

LEMMA RegulationChangeGrows ==
  ASSUME NEW m, NEW t, Typed(m, t), NEW n, NEW u, Typed(n, u),
         StrongerMerchant(n, m), StrongerTrigger(u, t), NEW cat,
         NEW o \in RegulationChangeOpportunity(m, t, cat)
  PROVE  \E q \in RegulationChangeOpportunity(n, u, cat) : q.score >= o.score
  <1> DEFINE Raw(i) == Tenths(16) + Tier(i.actionable, 10, 5)
  <1>1. PICK i \in ResolveDigestItem(m, t, cat, "compliance") :
            o = Opp("regulation_change", "open_ended", Score(Raw(i), Of26, t.urgency))
    BY DEF RegulationChangeOpportunity
  <1>2. u.kind = "regulation_change" /\ Has(u.payload, "deadline_iso")
    BY StrongerFields DEF RegulationChangeOpportunity, Has
  <1>3. Opp("regulation_change", "open_ended", Score(Raw(i), Of26, u.urgency))
            \in RegulationChangeOpportunity(n, u, cat)
    BY <1>2, DigestStays DEF RegulationChangeOpportunity
  <1>4. Raw(i) \in Nat
    BY DEF Tier, Tenths
  <1> HIDE DEF Raw
  <1>5. Score(Raw(i), Of26, t.urgency) <= Score(Raw(i), Of26, u.urgency)
    BY <1>4, ScoreGrows, StrongerFields, WeightTypes DEF Typed
  <1> QED BY <1>1, <1>3, <1>4, <1>5, ScoreType, WeightTypes DEF Typed, Opp

-------------------------------------------------------------------------------
(***************************************************************************)
(* All generators together, and the best of what they propose.             *)
(***************************************************************************)

Kinds == {"festival_upcoming", "seasonal_perf_dip", "customer_lapsed_hard", "recall_due",
          "supply_alert", "perf_spike", "milestone_reached", "competitor_opened",
          "renewal_due", "curious_ask_due", "perf_dip", "review_theme_emerged",
          "research_digest", "regulation_change", "chronic_refill_due"}

\* The generators that may have made a proposal, by the kind of the trigger.
LEMMA KindNames ==
  ASSUME NEW m, NEW t, Typed(m, t), NEW c, NEW cat,
         NEW o \in Proposed(m, t, c, cat)
  PROVE  /\ IsOpp(o)
         /\ t.kind \in Kinds
         /\ o.name = NameOf(t.kind)
         /\ t.urgency >= 1 =>
               \/ o.score >= SendThreshold
               \/ t.kind = "festival_upcoming" /\ t.payload.days_until > 12 /\ ~m.offers
  <1>1. CASE o \in FestivalOpportunity(m, t)
    BY <1>1, FestivalFacts DEF NameOf, Kinds
  <1>2. CASE o \in SeasonalDipReframeOpportunity(m, t, cat)
    BY <1>2, SeasonalDipReframeFacts DEF NameOf, Kinds
  <1>3. CASE o \in CustomerLapsedWinbackOpportunity(m, t, c)
    BY <1>3, CustomerLapsedWinbackFacts DEF NameOf, Kinds
  <1>4. CASE o \in RecallDueOpportunity(m, t, c)
    BY <1>4, RecallDueFacts DEF NameOf, Kinds
  <1>5. CASE o \in SupplyAlertOpportunity(m, t)
    BY <1>5, SupplyAlertFacts DEF NameOf, Kinds
  <1>6. CASE o \in PerfSpikeOpportunity(m, t)
    BY <1>6, PerfSpikeFacts DEF NameOf, Kinds
  <1>7. CASE o \in MilestoneReachedOpportunity(t)
    BY <1>7, MilestoneReachedFacts DEF NameOf, Kinds
  <1>8. CASE o \in CompetitorOpenedOpportunity(t)
    BY <1>8, CompetitorOpenedFacts DEF NameOf, Kinds
  <1>9. CASE o \in RenewalDueOpportunity(t)
    BY <1>9, RenewalDueFacts DEF NameOf, Kinds
  <1>10. CASE o \in CuriousAskDueOpportunity(t)
    BY <1>10, CuriousAskDueFacts DEF NameOf, Kinds
  <1>11. CASE o \in PerfDipOpportunity(t)
    BY <1>11, PerfDipFacts DEF NameOf, Kinds
  <1>12. CASE o \in ReviewThemeEmergedOpportunity(t)
    BY <1>12, ReviewThemeEmergedFacts DEF NameOf, Kinds
  <1>13. CASE o \in ResearchDigestOpportunity(m, t, cat)
    BY <1>13, ResearchDigestFacts DEF NameOf, Kinds
  <1>14. CASE o \in RegulationChangeOpportunity(m, t, cat)
    BY <1>14, RegulationChangeFacts DEF NameOf, Kinds
  <1>15. CASE o \in ChronicRefillDueOpportunity(t, c)
    BY <1>15, ChronicRefillDueFacts DEF NameOf, Kinds
  <1> QED
    BY Zenon, <1>1, <1>2, <1>3, <1>4, <1>5, <1>6, <1>7, <1>8, <1>9, <1>10, <1>11, <1>12, <1>13,
       <1>14, <1>15 DEF Proposed

LEMMA ProposalsGrow ==
  ASSUME NEW m, NEW t, Typed(m, t), NEW n, NEW u, Typed(n, u),
         StrongerMerchant(n, m), StrongerTrigger(u, t), NEW c, NEW cat,
         NEW o \in Proposed(m, t, c, cat)
  PROVE  \E q \in Proposed(n, u, c, cat) : q.score >= o.score
  <1> DEFINE Better(S) == \E q \in S : q.score >= o.score
  <1> SUFFICES
        \/ Better(FestivalOpportunity(n, u))
        \/ Better(SeasonalDipReframeOpportunity(n, u, cat))
        \/ Better(CustomerLapsedWinbackOpportunity(n, u, c))
        \/ Better(RecallDueOpportunity(n, u, c))
        \/ Better(SupplyAlertOpportunity(n, u))
        \/ Better(PerfSpikeOpportunity(n, u))
        \/ Better(MilestoneReachedOpportunity(u))
        \/ Better(CompetitorOpenedOpportunity(u))
        \/ Better(RenewalDueOpportunity(u))
        \/ Better(CuriousAskDueOpportunity(u))
        \/ Better(PerfDipOpportunity(u))
        \/ Better(ReviewThemeEmergedOpportunity(u))
        \/ Better(ResearchDigestOpportunity(n, u, cat))
        \/ Better(RegulationChangeOpportunity(n, u, cat))
        \/ Better(ChronicRefillDueOpportunity(u, c))
    BY Zenon DEF Proposed
  <1>1. \/ o \in FestivalOpportunity(m, t)
        \/ o \in SeasonalDipReframeOpportunity(m, t, cat)
        \/ o \in CustomerLapsedWinbackOpportunity(m, t, c)
        \/ o \in RecallDueOpportunity(m, t, c)
        \/ o \in SupplyAlertOpportunity(m, t)
        \/ o \in PerfSpikeOpportunity(m, t)
        \/ o \in MilestoneReachedOpportunity(t)
        \/ o \in CompetitorOpenedOpportunity(t)
        \/ o \in RenewalDueOpportunity(t)
        \/ o \in CuriousAskDueOpportunity(t)
        \/ o \in PerfDipOpportunity(t)
        \/ o \in ReviewThemeEmergedOpportunity(t)
        \/ o \in ResearchDigestOpportunity(m, t, cat)
        \/ o \in RegulationChangeOpportunity(m, t, cat)
        \/ o \in ChronicRefillDueOpportunity(t, c)
    BY Zenon DEF Proposed
  <1> QED
    BY <1>1, FestivalGrows, SeasonalDipReframeGrows, CustomerLapsedWinbackGrows, RecallDueGrows,
       SupplyAlertGrows, PerfSpikeGrows, MilestoneReachedGrows, CompetitorOpenedGrows,
       RenewalDueGrows, CuriousAskDueGrows, PerfDipGrows, ReviewThemeEmergedGrows,
       ResearchDigestGrows, RegulationChangeGrows, ChronicRefillDueGrows

\* Bounded scores have a maximum.
LEMMA MaximumExists ==
  ASSUME NEW S, S # {}, \A o \in S : o.score \in 0 .. Full
  PROVE  \E o \in S : \A p \in S : p.score <= o.score
  <1> DEFINE Gap(o) == Full - o.score
             Gaps == { Gap(o) : o \in S }
  <1>1. \A o \in S : Gap(o) \in Nat
    BY FullType
  <1>2. Gaps \subseteq Nat /\ Gaps # {}
    BY Zenon, <1>1
  <1>3. PICK x \in Gaps : \A y \in Gaps : ~ (<<y, x>> \in OpToRel(<, Nat))
    <2> HIDE DEF Gaps
    <2> QED BY <1>2, NatLessThanWellFounded, WFMin
  <1>4. \A y \in Gaps : ~(y < x)
    BY <1>2, <1>3 DEF OpToRel
  <1>5. PICK o \in S : x = Gap(o)
    BY <1>3
  <1>6. \A p \in S : ~(Gap(p) < Gap(o))
    BY <1>4, <1>5
  <1> QED BY <1>6, FullType

\* There is a best opportunity; it is the fallback when nothing scores at all.
LEMMA BestExists ==
  ASSUME NEW S, Fallback \in S, \A o \in S : IsOpp(o)
  PROVE  /\ Best(S) \in S
         /\ \A p \in S : p.score <= Best(S).score
         /\ Best(S).score = 0 => Best(S) = Fallback
  <1>1. Fallback.score = 0
    BY DEF Fallback, Opp
  <1>2. PICK o \in S : \A p \in S : p.score <= o.score
    BY MaximumExists DEF IsOpp
  <1>3. \E b \in S : /\ \A p \in S : p.score <= b.score
                     /\ b.score = Fallback.score => b = Fallback
    <2>1. CASE o.score = 0
      BY <1>1, <1>2, <2>1
    <2>2. CASE o.score # 0
      BY <1>1, <1>2, <2>2
    <2> QED BY <2>1, <2>2
  <1>4. /\ Best(S) \in S
        /\ \A p \in S : p.score <= Best(S).score
        /\ Best(S).score = Fallback.score => Best(S) = Fallback
    BY Zenon, <1>3 DEF Best
  <1> QED BY <1>1, <1>4

\* The best of the list is the fallback or a proposal with its bonus, and none beats it.
LEMMA BestOfList ==
  ASSUME NEW m, NEW t, Typed(m, t), NEW c, NEW cat
  PROVE  LET best == Best(GenerateOpportunities(m, t, c, cat)) IN
         /\ IsOpp(best)
         /\ best = Fallback \/ \E o \in Proposed(m, t, c, cat) : best = Corroborated(m, t, o)
         /\ \A o \in Proposed(m, t, c, cat) : Corroborated(m, t, o).score <= best.score
         /\ best.score = 0 => best = Fallback
  <1> DEFINE P == Proposed(m, t, c, cat)
             S == GenerateOpportunities(m, t, c, cat)
  <1>1. IsOpp(Fallback)
    BY FullType DEF IsOpp, Fallback, Opp
  <1>2. \A o \in P : IsOpp(Corroborated(m, t, o))
    BY KindNames, CorroborationHelps
  <1>3. Fallback \in S /\ \A o \in P : Corroborated(m, t, o) \in S
    BY Zenon DEF GenerateOpportunities
  <1>4. \A x \in S : x = Fallback \/ \E o \in P : x = Corroborated(m, t, o)
    BY Zenon DEF GenerateOpportunities
  <1>5. \A x \in S : IsOpp(x)
    BY Zenon, <1>1, <1>2, <1>4
  <1> HIDE DEF P, S
  <1>6. /\ Best(S) \in S
        /\ \A x \in S : x.score <= Best(S).score
        /\ Best(S).score = 0 => Best(S) = Fallback
    BY <1>3, <1>5, BestExists
  <1> QED BY Zenon, <1>3, <1>4, <1>5, <1>6 DEF P, S

\* Unless it is the fallback, the best has the name of the trigger's kind.
LEMMA BestFacts ==
  ASSUME NEW m, NEW t, Typed(m, t), NEW c, NEW cat
  PROVE  LET best == Best(GenerateOpportunities(m, t, c, cat)) IN
         \/ best = Fallback
         \/ /\ t.kind \in Kinds /\ best.name = NameOf(t.kind)
            /\ \E o \in Proposed(m, t, c, cat) :
                  best.name = o.name /\ best.score >= o.score
  <1> DEFINE best == Best(GenerateOpportunities(m, t, c, cat))
  <1>1. best = Fallback \/ \E o \in Proposed(m, t, c, cat) : best = Corroborated(m, t, o)
    BY BestOfList
  <1> HIDE DEF best
  <1>2. \A o \in Proposed(m, t, c, cat) :
            /\ o.name = NameOf(t.kind) /\ t.kind \in Kinds
            /\ Corroborated(m, t, o).score >= o.score
            /\ Corroborated(m, t, o).name = o.name
    BY KindNames, CorroborationHelps
  <1>3. best = Fallback \/
          /\ t.kind \in Kinds /\ best.name = NameOf(t.kind)
          /\ \E o \in Proposed(m, t, c, cat) : best.name = o.name /\ best.score >= o.score
    BY <1>1, <1>2
  <1> QED BY <1>3 DEF best

LEMMA NamesDistinct ==
  /\ \A k \in Kinds :
        NameOf(k) \notin {Fallback.name, "stale_trigger", "suppressed", "undecided"}
  /\ Fallback.name \notin {"stale_trigger", "suppressed", "undecided", "customer_winback",
                           "recall_due", "chronic_refill"}
  BY DEF NameOf, Kinds, Fallback, Opp

-------------------------------------------------------------------------------
(***************************************************************************)
(* The invariant: the last decision is decide's, on the contexts stored.   *)
(***************************************************************************)

Inv ==
    /\ merchant \in Merchants /\ trigger \in Triggers
    /\ customer # {} => trigger.customer_id
    /\ now \in {{}} \cup { {[at |-> i, aware |-> aware]} : i \in Instants }
    /\ suppressed \in BOOLEAN
    /\ \/ decision = Undecided
       \/ decision = Decide(merchant, trigger, customer, category, now, suppressed)

LEMMA InvInit == Init => Inv
  BY DEF Init, Inv

LEMMA InvNext == Inv /\ [Next]_vars => Inv'
  <1> SUFFICES ASSUME Inv, [Next]_vars PROVE Inv'
    OBVIOUS
  <1>1. CASE Tick
    <2>1. suppressed' \in BOOLEAN
      BY <1>1 DEF Inv, Tick
    <2> QED BY <1>1, <2>1 DEF Inv, Tick, contexts
  <1>2. CASE UNCHANGED vars
    BY <1>2 DEF Inv, vars, contexts
  <1> QED BY <1>1, <1>2 DEF Next

LEMMA InvTyped ==
  ASSUME Inv
  PROVE  /\ Typed(merchant, trigger)
         /\ \A n \in now : n.at \in Int /\ n.aware = aware
         /\ \A e \in trigger.expires : e.at \in Int
         /\ trigger.customer_id \in BOOLEAN
  <1>1. Typed(merchant, trigger)
    BY DecisionAssumption DEF Inv, Typed
  <1>2. \A n \in now : n.at \in Int /\ n.aware = aware
    <2>1. now = {} \/ \E i \in Instants : now = {[at |-> i, aware |-> aware]}
      BY Zenon DEF Inv
    <2>2. Instants \subseteq Int
      BY DecisionAssumption
    <2> QED BY <2>1, <2>2
  <1>3. /\ \A e \in trigger.expires : e.at \in Int
        /\ trigger.customer_id \in BOOLEAN
    BY DecisionAssumption DEF Inv
  <1> QED BY <1>1, <1>2, <1>3

\* The ways out of decide.
LEMMA DecideCases ==
  ASSUME NEW m, NEW t, NEW c, NEW cat, NEW clock, NEW used
  PROVE  LET best == Best(GenerateOpportunities(m, t, c, cat))
             d == Decide(m, t, c, cat, clock, used)
         IN  /\ d.send <=> ~IsStale(t, clock) /\ ~used /\ ~(best.score < SendThreshold)
             /\ d.send => d.signal = best.name /\ d.score = best.score /\ d.send_as = SendAs(t)
             /\ IsStale(t, clock) => d.signal = "stale_trigger"
             /\ ~IsStale(t, clock) /\ used => d.signal = "suppressed"
             /\ ~IsStale(t, clock) /\ ~used => d.signal = best.name
  BY Zenon DEF Decide, Refusal, Verdict

-------------------------------------------------------------------------------

LEMMA WeakFestivals == Inv => OnlyFarFestivalsAreTooWeak
  <1> SUFFICES ASSUME Inv, ~decision.send, trigger.urgency >= 1,
                      decision.signal \notin {"undecided", "stale_trigger", "suppressed",
                                              Fallback.name}
               PROVE  /\ decision.signal = "festival"
                      /\ trigger.payload.days_until > 12
                      /\ ~merchant.offers
    BY DEF OnlyFarFestivalsAreTooWeak
  <1> DEFINE best == Best(GenerateOpportunities(merchant, trigger, customer, category))
  <1>1. decision = Decide(merchant, trigger, customer, category, now, suppressed)
    BY DEF Inv, Undecided, Verdict
  <1>2. decision.signal = best.name /\ best.score < SendThreshold
    BY <1>1, DecideCases
  <1>3. PICK o \in Proposed(merchant, trigger, customer, category) :
            best.name = o.name /\ best.score >= o.score
    BY <1>2, BestFacts, InvTyped
  <1>4. IsOpp(best) /\ IsOpp(o)
    BY BestOfList, KindNames, InvTyped
  <1>5. ~(o.score >= SendThreshold)
    BY <1>2, <1>3, <1>4, FullType DEF IsOpp
  <1>6. /\ trigger.kind = "festival_upcoming" /\ o.name = NameOf(trigger.kind)
        /\ trigger.payload.days_until > 12 /\ ~merchant.offers
    BY <1>5, KindNames, InvTyped
  <1> QED BY <1>2, <1>3, <1>6 DEF NameOf

\* At the documented urgencies a trigger that passes its gates is sent, a festival more
\* than twelve days away for a merchant with no offer apart (opportunity.py:203-224,
\* compiler.py:117).
THEOREM GatesDecide == Spec => []OnlyFarFestivalsAreTooWeak
  BY InvInit, InvNext, WeakFestivals, PTL DEF Spec

-------------------------------------------------------------------------------

\* A proposal that addresses a customer was made with that customer's consent to it.
LEMMA ProposalConsented ==
  ASSUME NEW m, NEW t, Typed(m, t), NEW c, NEW cat, NEW o \in Proposed(m, t, c, cat),
         o.name \in {"customer_winback", "recall_due", "chronic_refill"}
  PROVE  Consented(c, ScopeOf(o.name))
  <1>1. /\ o.name = NameOf(t.kind) /\ t.kind \in Kinds
    BY KindNames
  <1>2. t.kind \in {"customer_lapsed_hard", "recall_due", "chronic_refill_due"}
    BY <1>1 DEF NameOf, Kinds
  <1>3. \/ o \in CustomerLapsedWinbackOpportunity(m, t, c)
        \/ o \in RecallDueOpportunity(m, t, c)
        \/ o \in ChronicRefillDueOpportunity(t, c)
    BY <1>2
       DEF Proposed, FestivalOpportunity, SeasonalDipReframeOpportunity, SupplyAlertOpportunity,
           PerfSpikeOpportunity, MilestoneReachedOpportunity, CompetitorOpenedOpportunity,
           RenewalDueOpportunity, CuriousAskDueOpportunity, PerfDipOpportunity,
           ReviewThemeEmergedOpportunity, ResearchDigestOpportunity,
           RegulationChangeOpportunity
  <1>4. CASE o \in CustomerLapsedWinbackOpportunity(m, t, c)
    <2>1. o.name = "customer_winback" /\ Consented(c, "winback_offers")
      BY <1>4, CustomerLapsedWinbackFacts DEF CustomerLapsedWinbackOpportunity
    <2> QED BY <2>1 DEF ScopeOf
  <1>5. CASE o \in RecallDueOpportunity(m, t, c)
    <2>1. o.name = "recall_due" /\ Consented(c, "recall_reminders")
      BY <1>5, RecallDueFacts DEF RecallDueOpportunity
    <2> QED BY <2>1 DEF ScopeOf
  <1>6. CASE o \in ChronicRefillDueOpportunity(t, c)
    <2>1. o.name = "chronic_refill" /\ Consented(c, "refill_reminders")
      BY <1>6, ChronicRefillDueFacts DEF ChronicRefillDueOpportunity
    <2> QED BY <2>1 DEF ScopeOf
  <1> QED BY <1>3, <1>4, <1>5, <1>6

LEMMA ConsentNeeded == Inv => ConsentGatesHold
  <1> SUFFICES ASSUME Inv, decision.send,
                      decision.signal \in {"customer_winback", "recall_due", "chronic_refill"}
               PROVE  /\ Consented(customer, ScopeOf(decision.signal))
                      /\ decision.send_as = "merchant_on_behalf"
    BY DEF ConsentGatesHold
  <1> DEFINE best == Best(GenerateOpportunities(merchant, trigger, customer, category))
  <1>1. decision = Decide(merchant, trigger, customer, category, now, suppressed)
    BY DEF Inv, Undecided, Verdict
  <1>2. decision.signal = best.name /\ decision.send_as = SendAs(trigger)
    BY <1>1, DecideCases
  <1>3. PICK o \in Proposed(merchant, trigger, customer, category) : best.name = o.name
    BY <1>2, BestFacts, InvTyped, NamesDistinct
  <1>4. Consented(customer, ScopeOf(decision.signal))
    BY <1>2, <1>3, ProposalConsented, InvTyped
  <1>5. trigger.customer_id
    BY <1>4 DEF Inv, Consented
  <1> QED BY <1>2, <1>4, <1>5 DEF SendAs

\* A winback, a recall or a refill reminder needs a stored customer's consent to that very
\* purpose, and is sent on the merchant's behalf (opportunity.py:371, 459, 1455).
THEOREM GatesNeedConsent == Spec => []ConsentGatesHold
  BY InvInit, InvNext, ConsentNeeded, PTL DEF Spec

-------------------------------------------------------------------------------

LEMMA CorroboratedMore ==
  ASSUME NEW m, NEW t, NEW n, NEW u, StrongerMerchant(n, m), u.kind = t.kind,
         SignalCorroborates(m, t)
  PROVE  SignalCorroborates(n, u)
  BY DEF StrongerMerchant, SignalCorroborates

LEMMA CorroboratedGrows ==
  ASSUME NEW m, NEW t, NEW n, NEW u, StrongerMerchant(n, m), u.kind = t.kind,
         NEW o, NEW q, IsOpp(o), IsOpp(q), q.score >= o.score
  PROVE  Corroborated(m, t, o).score <= Corroborated(n, u, q).score
  <1> DEFINE Raised(x) == [x EXCEPT !.score = Clamp(@ + 3 * (Full \div 100))]
  <1>1. CASE SignalCorroborates(m, t)
    <2>1. SignalCorroborates(n, u)
      BY <1>1, CorroboratedMore
    <2>2. 3 * (Full \div 100) \in Int
      BY FullType, SMT
    <2>3. Clamp(o.score + 3 * (Full \div 100)) <= Clamp(q.score + 3 * (Full \div 100))
      BY <2>2, ClampGrows DEF IsOpp
    <2>4. /\ Raised(o).score = Clamp(o.score + 3 * (Full \div 100))
          /\ Raised(q).score = Clamp(q.score + 3 * (Full \div 100))
      BY DEF IsOpp, Opp
    <2> QED BY <1>1, <2>1, <2>3, <2>4 DEF Corroborated
  <1>2. CASE ~SignalCorroborates(m, t)
    <2>1. Corroborated(m, t, o) = o
      BY <1>2 DEF Corroborated
    <2>2. Corroborated(n, u, q).score >= q.score /\ IsOpp(Corroborated(n, u, q))
      BY CorroborationHelps
    <2> QED BY <2>1, <2>2 DEF IsOpp
  <1> QED BY <1>1, <1>2

\* The best opportunity of a stronger trigger or merchant scores no less.
LEMMA BestGrows ==
  ASSUME NEW m, NEW t, Typed(m, t), NEW n, NEW u, Typed(n, u),
         StrongerMerchant(n, m), StrongerTrigger(u, t), NEW c, NEW cat
  PROVE  Best(GenerateOpportunities(m, t, c, cat)).score
           <= Best(GenerateOpportunities(n, u, c, cat)).score
  <1> DEFINE old == Best(GenerateOpportunities(m, t, c, cat))
             new == Best(GenerateOpportunities(n, u, c, cat))
  <1>1. IsOpp(old) /\ IsOpp(new)
    BY BestOfList
  <1>2. CASE old = Fallback
    BY <1>1, <1>2, FullType DEF Fallback, Opp, IsOpp
  <1>3. CASE old # Fallback
    <2>1. PICK o \in Proposed(m, t, c, cat) : old = Corroborated(m, t, o)
      BY <1>3, BestOfList
    <2>2. IsOpp(o) /\ IsOpp(Corroborated(m, t, o))
      BY KindNames, CorroborationHelps
    <2>3. PICK q \in Proposed(n, u, c, cat) : q.score >= o.score
      BY ProposalsGrow
    <2>4. IsOpp(q) /\ IsOpp(Corroborated(n, u, q))
      BY KindNames, CorroborationHelps
    <2>5. Corroborated(n, u, q).score <= new.score
      BY BestOfList
    <2>6. Corroborated(m, t, o).score <= Corroborated(n, u, q).score
      BY <2>2, <2>3, <2>4, CorroboratedGrows, StrongerFields
    <2> HIDE DEF old, new
    <2>7. old.score <= new.score
      BY <1>1, <2>1, <2>2, <2>4, <2>5, <2>6 DEF IsOpp
    <2> QED BY <2>7 DEF old, new
  <1> QED BY <1>2, <1>3

LEMMA StrongerSends == Inv => StrongerEvidenceNeverSilences
  <1> SUFFICES ASSUME Inv, decision.send,
                      NEW t \in Triggers, StrongerTrigger(t, trigger),
                      NEW m \in Merchants, StrongerMerchant(m, merchant)
               PROVE  LET d == Decide(m, t, customer, category, now, suppressed)
                      IN  d.send /\ d.signal = decision.signal /\ d.score >= decision.score
    BY DEF StrongerEvidenceNeverSilences
  <1> DEFINE d == Decide(m, t, customer, category, now, suppressed)
             old == Best(GenerateOpportunities(merchant, trigger, customer, category))
             new == Best(GenerateOpportunities(m, t, customer, category))
  <1>1. Typed(merchant, trigger) /\ Typed(m, t)
    BY InvTyped, DecisionAssumption DEF Typed
  <1>2. decision = Decide(merchant, trigger, customer, category, now, suppressed)
    BY DEF Inv, Undecided, Verdict
  <1>3. /\ ~IsStale(trigger, now) /\ ~suppressed /\ ~(old.score < SendThreshold)
        /\ decision.signal = old.name /\ decision.score = old.score
    BY <1>2, DecideCases
  <1>4. ~IsStale(t, now)
    BY <1>3 DEF IsStale, StrongerTrigger
  <1>5. old.score <= new.score /\ IsOpp(old) /\ IsOpp(new)
    BY <1>1, BestGrows, BestOfList
  <1>6. ~(new.score < SendThreshold)
    BY <1>3, <1>5, FullType DEF IsOpp
  <1>7. d.send /\ d.signal = new.name /\ d.score = new.score
    BY <1>3, <1>4, <1>6, DecideCases
  <1>8. old # Fallback /\ new # Fallback
    BY <1>3, <1>6, FullType DEF Fallback, Opp
  <1>9. old.name = NameOf(trigger.kind) /\ new.name = NameOf(t.kind) /\ t.kind = trigger.kind
    BY <1>1, <1>8, BestFacts DEF StrongerTrigger
  <1> QED BY <1>3, <1>5, <1>7, <1>9 DEF IsOpp

\* No evidence backfires: what is sent is sent too when the trigger is more urgent, nearer
\* or stronger, or the merchant has more to offer, by the same kind of message and with no
\* lower score (opportunity.py, all generators).
THEOREM EvidenceNeverBackfires == Spec => []StrongerEvidenceNeverSilences
  BY InvInit, InvNext, StrongerSends, PTL DEF Spec

-------------------------------------------------------------------------------

\* Staleness lasts while the clock moves forward, suppression always.
LEMMA RefusedStaysRefused ==
  ASSUME Inv, [Next]_vars, decision.signal \in {"stale_trigger", "suppressed"}, now' # {}
  PROVE  ~decision'.send \/ UNCHANGED vars
  <1>1. CASE Tick
    <2> DEFINE best == Best(GenerateOpportunities(merchant, trigger, customer, category))
    <2>1. decision = Decide(merchant, trigger, customer, category, now, suppressed)
      BY DEF Inv, Undecided, Verdict
    <2>2. best.name \notin {"stale_trigger", "suppressed"}
      BY BestFacts, InvTyped, NamesDistinct
    <2>3. IsStale(trigger, now) \/ suppressed
      BY <2>1, <2>2, DecideCases
    <2>4. decision' = Decide(merchant, trigger, customer, category, now', suppressed')
      BY <1>1 DEF Tick
    <2>5. CASE suppressed
      <3>1. suppressed'
        BY <1>1, <2>5 DEF Tick, Inv
      <3> QED BY <2>4, <3>1, DecideCases
    <2>6. CASE IsStale(trigger, now)
      <3>1. PICK n \in now, e \in trigger.expires : n.aware # e.aware \/ n.at > e.at
        BY <2>6 DEF IsStale
      <3>2. PICK k \in now' : k.at \in Int /\ k.aware = aware /\ k.at >= n.at
        BY <1>1, DecisionAssumption DEF Tick, NotBefore
      <3>3. k.aware # e.aware \/ k.at > e.at
        BY <3>1, <3>2, InvTyped
      <3>4. IsStale(trigger, now')
        BY <3>1, <3>2, <3>3 DEF IsStale
      <3> QED BY <2>4, <3>4, DecideCases
    <2> QED BY <2>3, <2>5, <2>6
  <1> QED BY <1>1 DEF Next

\* A trigger refused as expired or suppressed is never acted on again while the client's
\* clock keeps its format and moves forward (compiler.py:58-65).
THEOREM RefusalsAreFinal == Spec => RestraintIsFinal
  <1>1. Inv /\ [Next]_vars =>
            [ decision.signal \in {"stale_trigger", "suppressed"} /\ now' # {}
              => ~decision'.send ]_vars
    BY RefusedStaysRefused
  <1> QED BY <1>1, InvInit, InvNext, PTL DEF Spec, RestraintIsFinal

===============================================================================

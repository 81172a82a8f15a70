------------------------------ MODULE MCDecision ------------------------------
(***************************************************************************)
(* Decision for TLC: for every trigger kind, the payloads around each of   *)
(* its gates and score tiers, with every combination of the optional       *)
(* fields that its generator reads.                                        *)
(***************************************************************************)
EXTENDS Decision

\* Payloads with the required fields r and any subset of the optional ones.
With(r, Optional) ==
    { [f \in DOMAIN r \cup o |-> IF f \in DOMAIN r THEN r[f] ELSE TRUE] : o \in SUBSET Optional }

Dips(Optional) ==
    UNION { With([metric |-> TRUE, delta_pct |-> d], Optional) : d \in {-9, -10, -14, -15} }

Digest(slug, id) == [category |-> slug, top_item_id |-> id]

PayloadsOf ==
    [ festival_upcoming |->
        { [festival |-> TRUE, days_until |-> d, category_relevance |-> {c}] :
            d \in {-1, 0, 7, 12, 13, 14, 15}, c \in {"gyms", "salons"} },
      seasonal_perf_dip    |-> Dips({"is_expected_seasonal"}),
      customer_lapsed_hard |-> { <<>> },
      recall_due           |-> With(<<>>, {"available_slots"}),
      supply_alert         |-> { [molecule |-> x] : x \in {"atorvastatin", "metformin"} },
      perf_spike           |-> { [metric |-> TRUE, delta_pct |-> d] : d \in {9, 10, 19, 20} },
      milestone_reached    |->
        UNION { With([metric |-> TRUE, value_now |-> v, milestone_value |-> 100],
                     {"is_imminent"}) : v \in {99, 100, 101} },
      competitor_opened    |->
        UNION { With([competitor_name |-> TRUE, distance_km |-> d], {"their_offer"}) :
                  d \in {13, 20, 21, 50, 51} },
      renewal_due          |->
        { [plan |-> TRUE, days_remaining |-> d] : d \in {-1, 0, 14, 15} },
      curious_ask_due      |-> With(<<>>, {"ask_template"}),
      perf_dip             |-> Dips({"vs_baseline"}),
      review_theme_emerged |-> With([theme |-> TRUE], {"occurrences_30d", "common_quote", "rising"}),
      research_digest      |-> { Digest(c, i) : c \in {"gyms", "salons"}, i \in {"d1", "d2"} },
      regulation_change    |->
        { Digest("gyms", i) : i \in {"d2", "d3"} }
          \cup { [category |-> "gyms", top_item_id |-> i, deadline_iso |-> TRUE] :
                   i \in {"d2", "d3"} },
      chronic_refill_due   |->
        With(<<>>, {"molecule_list", "stock_runs_out_iso", "delivery_address_saved"}) ]

CustomerKinds == {"customer_lapsed_hard", "recall_due", "chronic_refill_due"}

MCTriggers ==
    UNION { { [ kind |-> k, customer_id |-> k \in CustomerKinds, urgency |-> u,
                expires |-> {[at |-> 1, aware |-> TRUE]}, payload |-> p ] :
              p \in PayloadsOf[k], u \in {1, 5} } : k \in DOMAIN PayloadsOf }
    \cup { [ kind |-> "perf_spike", customer_id |-> TRUE, urgency |-> u, expires |-> {},
             payload |-> [metric |-> TRUE, delta_pct |-> 10] ] : u \in {-20, -3, 1} }
    \cup { [ kind |-> "recall_due", customer_id |-> FALSE, urgency |-> 5,
             expires |-> {[at |-> 1, aware |-> FALSE]}, payload |-> <<>> ] }

MCMerchants ==
    { [ category |-> "gyms", offers |-> o, chronic_rx |-> o, history |-> h, signals |-> s ] :
        o \in BOOLEAN,
        h \in { {}, {[from |-> "vera", names |-> {"metformin"}],
                     [from |-> "merchant", names |-> {}]} },
        s \in { {}, {"festival_upcoming:14d"} } }

MCDigests ==
    { {},
      { [id |-> "d1", kind |-> "seasonal", titled |-> TRUE, trial |-> FALSE, actionable |-> FALSE],
        [id |-> "d2", kind |-> "research", titled |-> TRUE, trial |-> TRUE, actionable |-> FALSE],
        [id |-> "d3", kind |-> "compliance", titled |-> TRUE, trial |-> FALSE, actionable |-> TRUE] } }

MCScopes == {"winback_offers", "recall_reminders", "refill_reminders"}

MCInstants == 0 .. 2

MCTokensOf(s) ==
    CASE s = "festival_upcoming"     -> {"festival", "upcoming"}
      [] s = "festival_upcoming:14d" -> {"festival", "upcoming"}
      [] s = "perf_dip"              -> {"perf", "dip"}
      [] OTHER                       -> {s}
===============================================================================

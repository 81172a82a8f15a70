------------------------------- MODULE Firewall -------------------------------
(***************************************************************************)
(* What a composed message may say: the brief it is composed from          *)
(* (generation/brief.py), the fixed calls to action                        *)
(* (generation/composer/__init__.py) and the rules of the output firewall  *)
(* (generation/firewall.py).                                               *)
(*                                                                         *)
(* A text is its length and its marks: whatever in it some rule looks for. *)
(* Texts are put together at blanks and punctuation, where no mark begins  *)
(* in one and ends in the other: the marks of the whole are those of its   *)
(* parts.                                                                  *)
(***************************************************************************)
EXTENDS Naturals, FiniteSets

CONSTANTS
    Claims,      \* percentages and prices a text may state
    Taboos,      \* phrases some category forbids
    Tokens,      \* words that may follow "reply" in a text
    MaxChars     \* CompositionBrief.max_chars

LengthTolerance == 30

OptionWords(cta) ==
    CASE cta = "binary_yes_no" -> {"yes", "no", "haan", "nahi"}
      [] cta = "binary_confirm_cancel" -> {"confirm", "cancel"}
      [] OTHER -> {}

Ctas == {"open_ended", "binary_yes_no", "binary_confirm_cancel", "multi_choice_slot", "none"}

\* "action" is any phrase of _CTA_ACTION_PHRASES.
Marks == {"url", "placeholder", "action"} \cup (UNION {OptionWords(c) : c \in Ctas})
         \cup Claims \cup Taboos \cup Tokens

Text == [len : Nat, marks : SUBSET Marks]

NoText == [len |-> 0, marks |-> {}]

\* The fixed words of a template: nothing in them is looked for.
Plain(n) == [len |-> n, marks |-> {}]

Join(s, t) == [len |-> s.len + t.len, marks |-> s.marks \cup t.marks]

ASSUME FirewallAssumption ==
    /\ MaxChars \in Nat \ {0}
    /\ {"YES", "CONFIRM", "WITH"} \subseteq Tokens
    /\ Tokens \cap (Claims \cup Taboos \cup {"url", "placeholder", "action"}) = {}
    /\ (Claims \cup Taboos) \cap ({"url", "placeholder", "action"}
                                  \cup UNION {OptionWords(c) : c \in Ctas}) = {}
    /\ Tokens \cap UNION {OptionWords(c) : c \in Ctas} = {}
    /\ Claims \cap Taboos = {}

-------------------------------------------------------------------------------
(***************************************************************************)
(* The brief.  facts is what its facts say together.                       *)
(***************************************************************************)

ReplyIntents == {"accept_and_advance", "redirect_to_original_ask"}

Slugs == {"dentists", "gyms", "pharmacies", "restaurants", "salons", "other"}

Brief ==
    [ slug : Slugs, forbidden : SUBSET Taboos, merchant : Text, owner : Text, hindi : BOOLEAN,
      customer : Text, pref : {"", "hi", "en"}, facts : Text, cta : Ctas,
      intent : ReplyIntents \cup {""}, first : BOOLEAN ]

\* An absent customer or owner is NoText; the firewall forbids the category's taboo words.
BuildBrief(decision, merchant, category, customer) ==
    [ slug |-> category.slug, forbidden |-> category.taboo,
      merchant |-> merchant.name, owner |-> merchant.owner, hindi |-> merchant.hindi,
      customer |-> customer.name, pref |-> customer.pref,
      facts |-> decision.facts, cta |-> decision.cta, intent |-> "", first |-> TRUE ]

ForReply(b, intent) == [b EXCEPT !.intent = intent, !.first = FALSE]

-------------------------------------------------------------------------------
(***************************************************************************)
(* The fixed calls to action.                                              *)
(***************************************************************************)

PrefersHindi(b) == IF b.pref # "" THEN b.pref = "hi" ELSE b.hindi

CtaEnglish(cta) ==
    CASE cta = "open_ended" -> Plain(22)
      [] cta = "binary_yes_no" -> [len |-> 29, marks |-> {"action", "YES", "yes"}]
      [] cta = "binary_confirm_cancel" -> [len |-> 25, marks |-> {"action", "CONFIRM", "confirm"}]
      [] cta = "multi_choice_slot" -> [len |-> 33, marks |-> {"action", "WITH"}]
      [] cta = "none" -> NoText

\* Fault: the phrase has the options but does not ask for an answer.
CtaHindiBare(cta) ==
    CASE cta = "open_ended" -> [len |-> 38, marks |-> {"action"}]
      [] cta = "binary_yes_no" -> [len |-> 12, marks |-> {"haan", "nahi"}]
      [] cta = "multi_choice_slot" -> [len |-> 34, marks |-> {"action"}]
      [] OTHER -> CtaEnglish(cta)

CtaHindi(cta) ==
    CASE cta = "open_ended" -> [len |-> 38, marks |-> {"action"}]
      [] cta = "binary_yes_no" -> [len |-> 26, marks |-> {"action", "haan", "nahi"}]
      [] cta = "multi_choice_slot" -> [len |-> 34, marks |-> {"action"}]
      [] OTHER -> CtaEnglish(cta)

CtaFallbackText(b) == IF PrefersHindi(b) THEN CtaHindi(b.cta) ELSE CtaEnglish(b.cta)

-------------------------------------------------------------------------------
(***************************************************************************)
(* The firewall.                                                           *)
(***************************************************************************)

HasExplicitBinaryCta(m, cta) ==
    /\ cta \in {"binary_yes_no", "binary_confirm_cancel", "multi_choice_slot"} =>
          "action" \in m.marks
    /\ cta \in {"binary_yes_no", "binary_confirm_cancel"} =>
          OptionWords(cta) \cap m.marks # {}

ReplyTokens(m) == m.marks \cap Tokens

Rules == {"length", "url", "placeholder", "claims", "taboo", "competing", "no_cta"}

Breaks(rule, m, b) ==
    CASE rule = "length" -> m.len > MaxChars + LengthTolerance
      [] rule = "url" -> "url" \in m.marks
      [] rule = "placeholder" -> "placeholder" \in m.marks
      [] rule = "claims" -> (m.marks \cap Claims) \ b.facts.marks # {}
      [] rule = "taboo" -> m.marks \cap b.forbidden # {}
      [] rule = "competing" ->
            IF b.cta = "none" THEN ReplyTokens(m) # {} ELSE Cardinality(ReplyTokens(m)) > 2
      [] rule = "no_cta" -> ~HasExplicitBinaryCta(m, b.cta)

\* The reasons validate gives; an empty message is rejected for that alone.
Defects(m, b) == IF m.len = 0 THEN {"empty"} ELSE {rule \in Rules : Breaks(rule, m, b)}

Valid(m, b) == Defects(m, b) = {}
===============================================================================

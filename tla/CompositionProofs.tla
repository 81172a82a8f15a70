-------------------------- MODULE CompositionProofs --------------------------
(***************************************************************************)
(* Composition for any names, facts, drafts and configurations.            *)
(*                                                                         *)
(* The state machine hands one pure function, ComposeAndValidate, the      *)
(* right brief: the one the conversation was opened with, up to the intent *)
(* and the greeting, which no rule of the firewall looks at.  What the     *)
(* function does is a matter of adding up lengths and marks.               *)
(***************************************************************************)
EXTENDS Composition, FiniteSetTheorems, TLAPS

LEMMA CtaWords ==
    {"yes", "haan", "nahi", "confirm"} \subseteq UNION {OptionWords(c) : c \in Ctas}
  <1>1. "binary_yes_no" \in Ctas /\ "binary_confirm_cancel" \in Ctas
    BY DEF Ctas
  <1>2. {"yes", "haan", "nahi"} \subseteq OptionWords("binary_yes_no")
    BY DEF OptionWords
  <1>3. "confirm" \in OptionWords("binary_confirm_cancel")
    BY DEF OptionWords
  <1> QED BY <1>1, <1>2, <1>3

LEMMA MarkFacts ==
    /\ Claims \subseteq Marks /\ Taboos \subseteq Marks /\ Tokens \subseteq Marks
    /\ {"url", "placeholder", "action"} \subseteq Marks
    /\ {"yes", "haan", "nahi", "confirm"} \subseteq Marks
  <1> DEFINE words == UNION {OptionWords(c) : c \in Ctas}
  <1>1. {"yes", "haan", "nahi", "confirm"} \subseteq words
    BY CtaWords
  <1>2. words \subseteq Marks
    BY DEF Marks
  <1>3. Claims \subseteq Marks /\ Taboos \subseteq Marks /\ Tokens \subseteq Marks
    BY Zenon DEF Marks
  <1>4. {"url", "placeholder", "action"} \subseteq Marks
    BY Zenon DEF Marks
  <1> QED BY <1>1, <1>2, <1>3, <1>4

LEMMA EmptyText == NoText \in Text
  BY DEF NoText, Text

LEMMA PlainText == \A n \in Nat : Plain(n) \in Text
  BY DEF Plain, Text

LEMMA JoinText == \A s, t \in Text : Join(s, t) \in Text
  BY DEF Join, Text

LEMMA CtaText == \A b \in Brief : CtaFallbackText(b) \in Text
  <1> SUFFICES ASSUME NEW b \in Brief PROVE CtaFallbackText(b) \in Text
    OBVIOUS
  <1>1. b.cta \in Ctas
    BY DEF Brief
  <1>2. {"action", "YES", "yes", "CONFIRM", "confirm", "WITH", "haan", "nahi"} \subseteq Marks
    BY FirewallAssumption, MarkFacts
  <1>3. CtaEnglish(b.cta) \in Text
    BY <1>1, <1>2 DEF Ctas, CtaEnglish, Plain, NoText, Text
  <1>4. CtaHindi(b.cta) \in Text
    BY <1>1, <1>2, <1>3 DEF Ctas, CtaHindi, Text
  <1> QED BY <1>3, <1>4 DEF CtaFallbackText

LEMMA GreetingText == \A b \in Brief : Greeting(b) \in Text /\ Greeting(b).len >= 2
  <1> SUFFICES ASSUME NEW b \in Brief PROVE Greeting(b) \in Text /\ Greeting(b).len >= 2
    OBVIOUS
  <1>1. b.merchant \in Text /\ b.owner \in Text /\ b.customer \in Text
    BY DEF Brief
  <1>2. Prefix(b.intent) \in Text
    BY PlainText, EmptyText DEF Prefix
  <1>3. Subject(b) \in Text
    BY <1>1 DEF Subject
  <1>4. Intro(b) \in Text
    BY <1>1, PlainText, EmptyText, JoinText DEF Intro
  <1>5. (IF b.first THEN Opener(b.slug) ELSE NoText) \in Text
    BY PlainText, EmptyText DEF Opener
  <1>6. Join(Join(Prefix(b.intent), Subject(b)), Plain(2)) \in Text
    BY <1>2, <1>3, JoinText, PlainText
  <1>7. Join(Join(Prefix(b.intent), Subject(b)), Plain(2)).len >= 2
    BY <1>2, <1>3 DEF Join, Plain, Text
  <1>8. Join(Intro(b), IF b.first THEN Opener(b.slug) ELSE NoText) \in Text
    BY <1>4, <1>5, JoinText
  <1> QED BY <1>6, <1>7, <1>8 DEF Greeting, Join, Text

LEMMA SubstanceText == \A b \in Brief : Substance(b) \in Text
  <1> SUFFICES ASSUME NEW b \in Brief PROVE Substance(b) \in Text
    OBVIOUS
  <1>1. b.merchant \in Text /\ b.facts \in Text
    BY DEF Brief
  <1>2. SanitizeFact(b.facts) \in Text
    BY <1>1 DEF SanitizeFact, Text, UrlLength
  <1> QED BY <1>1, <1>2, JoinText, PlainText DEF Substance

LEMMA ClosingText == \A b \in Brief : Closing(b) \in Text
  BY CtaText, JoinText, PlainText, EmptyText DEF Closing

LEMMA CutText ==
    \A remain : \A t \in Text, n \in Nat :
        /\ Cut(t, n, remain) \in Text
        /\ Cut(t, n, remain).len <= n
        /\ t.len <= n => Cut(t, n, remain) = t
        /\ t.len >= 1 /\ n >= 1 => Cut(t, n, remain).len >= 1
  BY DEF Cut, Text

LEMMA LessFacts ==
    \A m, n \in Nat : Less(m, n) \in Nat /\ (n <= m => Less(m, n) = m - n)
  BY DEF Less

\* A template is never empty: it begins with a name and a comma.
LEMMA TemplateText ==
    \A remain : \A b \in Brief : Template(b, remain) \in Text /\ Template(b, remain).len > 0
  <1> SUFFICES ASSUME NEW b \in Brief, NEW remain
               PROVE  Template(b, remain) \in Text /\ Template(b, remain).len > 0
    OBVIOUS
  <1> DEFINE greeting == Cut(Greeting(b), MaxChars, remain)
             substance == Cut(Substance(b), Less(MaxChars, greeting.len), remain)
             closing == Cut(Closing(b), Less(MaxChars, greeting.len + substance.len), remain)
  <1>1. greeting \in Text /\ greeting.len >= 1
    <2>1. Greeting(b) \in Text /\ Greeting(b).len >= 1
      BY GreetingText DEF Text
    <2> QED BY <2>1, CutText, FirewallAssumption
  <1>2. Less(MaxChars, greeting.len) \in Nat
    BY <1>1, LessFacts, FirewallAssumption DEF Text
  <1>3. substance \in Text
    BY <1>2, SubstanceText, CutText
  <1>4. Less(MaxChars, greeting.len + substance.len) \in Nat
    <2>1. greeting.len + substance.len \in Nat /\ MaxChars \in Nat
      BY <1>1, <1>3, FirewallAssumption DEF Text
    <2> QED BY <2>1, LessFacts
  <1>5. closing \in Text
    BY <1>4, ClosingText, CutText
  <1>6. Template(b, remain) = Join(Join(greeting, substance), closing)
    BY DEF Template
  <1> HIDE DEF greeting, substance, closing
  <1> QED BY <1>1, <1>3, <1>5, <1>6 DEF Join, Text

\* One that fits is not cut.
LEMMA TemplateUncut ==
    \A remain : \A b \in Brief :
        Fits(b) => Template(b, remain) = Join(Join(Greeting(b), Substance(b)), Closing(b))
  <1> SUFFICES ASSUME NEW b \in Brief, NEW remain, Fits(b)
               PROVE  Template(b, remain) = Join(Join(Greeting(b), Substance(b)), Closing(b))
    OBVIOUS
  <1>1. /\ Greeting(b) \in Text /\ Substance(b) \in Text /\ Closing(b) \in Text
        /\ Greeting(b).len \in Nat /\ Substance(b).len \in Nat /\ Closing(b).len \in Nat
        /\ MaxChars \in Nat
    BY GreetingText, SubstanceText, ClosingText, FirewallAssumption DEF Text
  <1>2. Cut(Greeting(b), MaxChars, remain) = Greeting(b)
    BY <1>1, CutText DEF Fits
  <1>3. Cut(Substance(b), Less(MaxChars, Greeting(b).len), remain) = Substance(b)
    <2>1. Less(MaxChars, Greeting(b).len) \in Nat
      BY <1>1, LessFacts
    <2>2. Substance(b).len <= Less(MaxChars, Greeting(b).len)
      BY <1>1 DEF Fits, Less
    <2> QED BY <1>1, <2>1, <2>2, CutText
  <1>4. Cut(Closing(b), Less(MaxChars, Greeting(b).len + Substance(b).len), remain)
           = Closing(b)
    <2>1. Less(MaxChars, Greeting(b).len + Substance(b).len) \in Nat
      <3>1. Greeting(b).len + Substance(b).len \in Nat
        BY <1>1
      <3> QED BY <1>1, <3>1, LessFacts
    <2>2. Closing(b).len <= Less(MaxChars, Greeting(b).len + Substance(b).len)
      BY <1>1 DEF Fits, Less
    <2> QED BY <1>1, <2>1, <2>2, CutText
  <1> QED BY <1>2, <1>3, <1>4 DEF Template

-------------------------------------------------------------------------------
(***************************************************************************)
(* compose_and_validate.                                                   *)
(***************************************************************************)

LEMMA WithCtaText ==
    \A m \in Text, b \in Brief : WithCta(m, b) \in Text
  BY CtaText, JoinText, PlainText DEF WithCta

\* The four ways a result comes about.
LEMMA VetCases ==
    ASSUME NEW m \in Text \cup {Raised}, NEW b \in Brief, NEW remain
    PROVE  LET r == ComposeAndValidate(m, b, remain)
           IN  \/ /\ m \in Text /\ Valid(m, b)
                  /\ r = [message |-> m, fallback |-> FALSE, corrected |-> FALSE]
               \/ /\ m \in Text /\ ~Valid(m, b) /\ Correctable(m, b)
                  /\ r = [message |-> WithCta(m, b), fallback |-> FALSE, corrected |-> TRUE]
               \/ /\ m \in Text => ~Valid(m, b) /\ ~Correctable(m, b)
                  /\ r = Fallback(b, remain)
  BY CompositionAssumption DEF ComposeAndValidate

LEMMA VetType ==
    ASSUME NEW m \in Text \cup {Raised}, NEW b \in Brief, NEW remain
    PROVE  ComposeAndValidate(m, b, remain) \in ComposeResult
  <1>1. Fallback(b, remain) \in ComposeResult
    BY TemplateText, EmptyText DEF Fallback, ComposeResult
  <1>2. m \in Text =>
           [message |-> m, fallback |-> FALSE, corrected |-> FALSE] \in ComposeResult
    BY DEF ComposeResult
  <1>3. m \in Text =>
           [message |-> WithCta(m, b), fallback |-> FALSE, corrected |-> TRUE] \in ComposeResult
    BY WithCtaText DEF ComposeResult
  <1> QED BY <1>1, <1>2, <1>3, VetCases

\* Whatever has something to say obeys the firewall.
LEMMA VetIsSound ==
    ASSUME NEW m \in Text \cup {Raised}, NEW b \in Brief, NEW remain,
           ~IsEmpty(ComposeAndValidate(m, b, remain).message)
    PROVE  Valid(ComposeAndValidate(m, b, remain).message, b)
  <1>1. ~IsEmpty(Fallback(b, remain).message) => Valid(Fallback(b, remain).message, b)
    BY DEF Fallback, IsEmpty, NoText
  <1> QED BY <1>1, VetCases DEF Correctable

\* The firewall looks at the facts, the forbidden words and the call to action only.
SameRules(b, c) == b.facts = c.facts /\ b.forbidden = c.forbidden /\ b.cta = c.cta

LEMMA RulesDecide ==
    ASSUME NEW b, NEW c, SameRules(b, c), NEW m, Valid(m, b)
    PROVE  Valid(m, c)
  BY DEF SameRules, Valid, Defects, Breaks

\* A blank and a call to action add no mark but the call's own, and none that a rule
\* but the one on competing calls looks for.
LEMMA CtaMarks ==
    ASSUME NEW b \in Brief
    PROVE  LET marks == CtaFallbackText(b).marks
           IN  /\ marks \cap ({"url", "placeholder"} \cup Claims \cup Taboos) = {}
               /\ b.cta # "none" => HasExplicitBinaryCta(CtaFallbackText(b), b.cta)
               /\ b.cta = "none" => CtaFallbackText(b) = NoText
               /\ \/ ReplyTokens(CtaFallbackText(b)) = {}
                  \/ \E token : ReplyTokens(CtaFallbackText(b)) = {token}
  <1> DEFINE words == UNION {OptionWords(c) : c \in Ctas}
  <1>1. b.cta \in Ctas
    BY DEF Brief
  <1>2. {"yes", "haan", "nahi", "confirm"} \subseteq words
    BY CtaWords
  <1>3. /\ {"YES", "CONFIRM", "WITH"} \subseteq Tokens
        /\ Tokens \cap (Claims \cup Taboos \cup {"url", "placeholder", "action"}) = {}
        /\ Tokens \cap words = {}
        /\ (Claims \cup Taboos) \cap ({"url", "placeholder", "action"} \cup words) = {}
    BY FirewallAssumption
  <1> HIDE DEF words
  <1>4. /\ CtaFallbackText(b).marks \in
              { {}, {"action"}, {"action", "YES", "yes"}, {"action", "CONFIRM", "confirm"},
                {"action", "WITH"}, {"action", "haan", "nahi"} }
    BY <1>1 DEF CtaFallbackText, CtaEnglish, CtaHindi, Ctas, Plain, NoText
  <1>5. CtaFallbackText(b).marks \cap ({"url", "placeholder"} \cup Claims \cup Taboos) = {}
    BY <1>2, <1>3, <1>4
  <1>6. b.cta # "none" => HasExplicitBinaryCta(CtaFallbackText(b), b.cta)
    BY <1>1 DEF CtaFallbackText, CtaEnglish, CtaHindi, Ctas, Plain, NoText,
                HasExplicitBinaryCta, OptionWords
  <1>7. b.cta = "none" => CtaFallbackText(b) = NoText
    BY DEF CtaFallbackText, CtaEnglish, CtaHindi
  <1>8. \/ ReplyTokens(CtaFallbackText(b)) = {}
        \/ \E token : ReplyTokens(CtaFallbackText(b)) = {token}
    BY <1>2, <1>3, <1>4 DEF ReplyTokens
  <1> QED BY <1>5, <1>6, <1>7, <1>8

LEMMA FewTokens ==
    ASSUME NEW S, S = {} \/ \E token : S = {token}
    PROVE  ~(Cardinality(S) > 2)
  <1>1. CASE S = {}
    BY <1>1, FS_EmptySet
  <1>2. CASE \E token : S = {token}
    <2>1. PICK token : S = {token}
      BY <1>2
    <2>2. Cardinality(S) = 1
      BY <2>1, FS_Singleton
    <2> QED BY <2>2
  <1> QED BY <1>1, <1>2

\* A draft that lacks only the call to action gets it, if it fits and asks for no third
\* answer.
LEMMA VetCorrects ==
    ASSUME NEW m \in Text, NEW b \in Brief, ~IsEmpty(m), ~Valid(m, b),
           Defects(m, b) \subseteq {"no_cta"},
           WithCta(m, b).len <= MaxChars + LengthTolerance,
           ~(Cardinality(ReplyTokens(WithCta(m, b))) > 2)
    PROVE  Correctable(m, b)
  <1>1. m.len \in Nat /\ m.len # 0
    BY DEF Text, IsEmpty
  <1>2. \A rule \in Rules : Breaks(rule, m, b) => rule = "no_cta"
    BY <1>1 DEF Defects
  <1>3. ~HasExplicitBinaryCta(m, b.cta)
    <2>1. PICK rule \in Rules : Breaks(rule, m, b)
      BY <1>1 DEF Valid, Defects
    <2>2. Breaks("no_cta", m, b)
      BY <1>2, <2>1
    <2> QED BY <2>2 DEF Breaks
  <1>4. b.cta # "none"
    BY <1>3 DEF HasExplicitBinaryCta
  <1>5. ~IsEmpty(CtaFallbackText(b))
    <2>1. b.cta \in Ctas \ {"none"}
      BY <1>4 DEF Brief
    <2>2. CtaEnglish(b.cta).len # 0
      BY <2>1 DEF Ctas, CtaEnglish, Plain
    <2>3. CtaHindi(b.cta).len # 0
      BY <2>1, <2>2 DEF Ctas, CtaHindi
    <2> QED BY <2>2, <2>3 DEF CtaFallbackText, IsEmpty
  <1>6. /\ WithCta(m, b).len = m.len + 1 + CtaFallbackText(b).len
        /\ WithCta(m, b).marks = m.marks \cup CtaFallbackText(b).marks
    BY <1>1, CtaText DEF WithCta, IsEmpty, Join, Plain, Text
  <1>7. Valid(WithCta(m, b), b)
    <2>1. \A rule \in Rules : ~Breaks(rule, WithCta(m, b), b)
      <3> SUFFICES ASSUME NEW rule \in Rules PROVE ~Breaks(rule, WithCta(m, b), b)
        OBVIOUS
      <3>1. CASE rule = "length"
        BY <3>1, <1>6, CtaText, FirewallAssumption DEF Breaks, Text, LengthTolerance
      <3>2. CASE rule \in {"url", "placeholder", "claims"}
        <4>1. ~Breaks(rule, m, b)
          BY <3>2, <1>2
        <4> QED BY <3>2, <4>1, <1>6, CtaMarks DEF Breaks
      <3>3. CASE rule = "taboo"
        <4>1. m.marks \cap b.forbidden = {} /\ b.forbidden \subseteq Taboos
          BY <3>3, <1>2 DEF Breaks, Brief
        <4> QED BY <3>3, <4>1, <1>6, CtaMarks DEF Breaks
      <3>4. CASE rule = "competing"
        BY <3>4, <1>4 DEF Breaks
      <3>5. CASE rule = "no_cta"
        <4>1. HasExplicitBinaryCta(CtaFallbackText(b), b.cta)
          BY <1>4, CtaMarks
        <4>2. HasExplicitBinaryCta(WithCta(m, b), b.cta)
          BY <4>1, <1>6 DEF HasExplicitBinaryCta
        <4> QED BY <3>5, <4>2 DEF Breaks
      <3> QED BY <3>1, <3>2, <3>3, <3>4, <3>5 DEF Rules
    <2>2. WithCta(m, b).len # 0
      BY <1>1, <1>6, CtaText DEF Text
    <2> QED BY <2>1, <2>2 DEF Valid, Defects
  <1> QED BY <1>3, <1>5, <1>7 DEF Correctable

LEMMA VetRescues ==
    ASSUME NEW m \in Text, NEW b \in Brief, NEW remain, ~IsEmpty(m),
           ComposeAndValidate(m, b, remain).fallback
    PROVE  \/ Defects(m, b) \ {"no_cta"} # {}
           \/ WithCta(m, b).len > MaxChars + LengthTolerance
           \/ Cardinality(ReplyTokens(WithCta(m, b))) > 2
  <1>1. ~Valid(m, b) /\ ~Correctable(m, b)
    BY VetCases
  <1>2. \/ WithCta(m, b).len <= MaxChars + LengthTolerance
        \/ WithCta(m, b).len > MaxChars + LengthTolerance
    BY WithCtaText, FirewallAssumption DEF Text, LengthTolerance
  <1> QED BY <1>1, <1>2, VetCorrects

\* From a clean brief the template passes the firewall.
LEMMA CleanTemplate ==
    ASSUME NEW b \in Brief, NEW remain, Clean(b)
    PROVE  Valid(Template(b, remain), b)
  <1> DEFINE m == Template(b, remain)
             cta == CtaFallbackText(b)
  <1>1. m = Join(Join(Greeting(b), Substance(b)), Closing(b))
    BY TemplateUncut DEF Clean
  <1>2. /\ b.merchant \in Text /\ b.owner \in Text /\ b.customer \in Text /\ b.facts \in Text
        /\ b.forbidden \subseteq Taboos /\ b.cta \in Ctas
    BY DEF Brief
  <1>3. Greeting(b).marks \subseteq Names(b)
    <2>1. Subject(b).marks \subseteq Names(b)
      BY DEF Subject, Names
    <2>2. Intro(b).marks \subseteq Names(b)
      BY DEF Intro, Names, Join, Plain, NoText
    <2>3. Prefix(b.intent).marks = {} /\ Opener(b.slug).marks = {} /\ NoText.marks = {}
      BY DEF Prefix, Opener, Plain, NoText
    <2> QED BY <2>1, <2>2, <2>3 DEF Greeting, Join, Plain
  <1>4. Substance(b).marks \subseteq Names(b) \cup (b.facts.marks \ {"url"})
    BY DEF Substance, SanitizeFact, Names, Join, Plain
  <1>5. Closing(b).marks = cta.marks
    <2>1. IsEmpty(cta) => cta.marks = {}
      BY <1>2 DEF Ctas, Plain, NoText, IsEmpty, CtaFallbackText, CtaEnglish, CtaHindi
    <2> QED BY <2>1 DEF Closing, Join, Plain, NoText
  <1>6. /\ m.marks \subseteq Names(b) \cup (b.facts.marks \ {"url"}) \cup cta.marks
        /\ cta.marks \subseteq m.marks
    BY <1>1, <1>3, <1>4, <1>5 DEF Join
  <1>7. m.len \in Nat /\ m.len # 0 /\ m.len <= MaxChars
    <2>1. m.len = Greeting(b).len + Substance(b).len + Closing(b).len
      BY <1>1 DEF Join
    <2>2. m.len \in Nat /\ m.len > 0
      BY TemplateText DEF Text
    <2> QED BY <2>1, <2>2 DEF Clean, Fits
  <1> HIDE DEF m
  <1>8. \A rule \in Rules : ~Breaks(rule, m, b)
    <2> SUFFICES ASSUME NEW rule \in Rules PROVE ~Breaks(rule, m, b)
      OBVIOUS
    <2>1. CASE rule = "length"
      BY <2>1, <1>7, FirewallAssumption DEF Breaks, LengthTolerance
    <2>2. CASE rule = "url"
      <3>1. "url" \notin m.marks
        BY <1>6, CtaMarks DEF Clean, NamesAreNames
      <3> QED BY <2>2, <3>1 DEF Breaks
    <2>3. CASE rule = "placeholder"
      <3>1. "placeholder" \notin m.marks
        BY <1>6, CtaMarks DEF Clean, NamesAreNames, FactsAreAllowed
      <3> QED BY <2>3, <3>1 DEF Breaks
    <2>4. CASE rule = "claims"
      <3>1. (m.marks \cap Claims) \ b.facts.marks = {}
        BY <1>6, CtaMarks DEF Clean, NamesAreNames
      <3> QED BY <2>4, <3>1 DEF Breaks
    <2>5. CASE rule = "taboo"
      <3>1. m.marks \cap b.forbidden = {}
        BY <1>2, <1>6, CtaMarks DEF Clean, NamesAreNames, FactsAreAllowed
      <3> QED BY <2>5, <3>1 DEF Breaks
    <2>6. CASE rule = "competing"
      <3>1. ReplyTokens(m) = ReplyTokens(cta)
        BY <1>6 DEF Clean, NamesAreNames, FactsAreAllowed, ReplyTokens
      <3>2. b.cta = "none" => ReplyTokens(cta) = {}
        BY CtaMarks DEF ReplyTokens, NoText
      <3>3. ~(Cardinality(ReplyTokens(m)) > 2)
        BY <3>1, CtaMarks, FewTokens
      <3> QED BY <2>6, <3>1, <3>2, <3>3 DEF Breaks
    <2>7. CASE rule = "no_cta"
      <3>1. CASE b.cta = "none"
        BY <2>7, <3>1 DEF Breaks, HasExplicitBinaryCta
      <3>2. CASE b.cta # "none"
        <4>1. HasExplicitBinaryCta(cta, b.cta)
          BY <3>2, CtaMarks
        <4>2. HasExplicitBinaryCta(m, b.cta)
          BY <4>1, <1>6 DEF HasExplicitBinaryCta
        <4> QED BY <2>7, <4>2 DEF Breaks
      <3> QED BY <3>1, <3>2
    <2> QED BY <2>1, <2>2, <2>3, <2>4, <2>5, <2>6, <2>7 DEF Rules
  <1>9. Valid(m, b)
    BY <1>7, <1>8 DEF Valid, Defects
  <1> QED BY <1>9 DEF m

LEMMA CleanSpeaks ==
    ASSUME NEW m \in Text \cup {Raised}, NEW b \in Brief, NEW remain, Clean(b)
    PROVE  ~IsEmpty(ComposeAndValidate(m, b, remain).message)
  <1>1. ~IsEmpty(Fallback(b, remain).message)
    BY CleanTemplate, TemplateText DEF Fallback, IsEmpty, Text
  <1>2. \A t \in Text : Valid(t, b) => ~IsEmpty(t)
    BY DEF Valid, Defects, IsEmpty
  <1>3. m \in Text /\ Correctable(m, b) => ~IsEmpty(WithCta(m, b))
    BY <1>2, WithCtaText DEF Correctable
  <1> QED BY <1>1, <1>2, <1>3, VetCases

-------------------------------------------------------------------------------
(***************************************************************************)
(* The conversation.                                                       *)
(***************************************************************************)

\* A request, and the one last answered, have the rules of the opening brief.
SameBrief ==
    /\ request # NoBrief => brief # NoBrief /\ SameRules(request, brief)
    /\ last.from # NoBrief => brief # NoBrief /\ SameRules(last.from, brief)
    /\ status = "open" => brief # NoBrief

\* A reply that is being composed is one of the MaxReplies.
RepliesCounted == status = "open" /\ request # NoBrief => turns < MaxReplies

\* No composer returns an empty draft.
DraftsSaySomething ==
    /\ draft \in Text => ~IsEmpty(draft)
    /\ last.of \in Text => ~IsEmpty(last.of)

\* A draft is one of a request.
DraftWaits == request = NoBrief => draft = NoDraft

\* Where the last result came from.
LastIsComposed ==
    \/ last.from = NoBrief /\ last.result = NoResult
    \/ /\ last.from \in Brief /\ last.of \in Text \cup {Raised}
       /\ last.result = ComposeAndValidate(last.of, last.from, left)

Inv ==
    TypeOK /\ SameBrief /\ RepliesCounted /\ DraftsSaySomething /\ DraftWaits /\ LastIsComposed

LEMMA Distinct ==
    /\ NoBrief \notin Brief /\ Raised \notin Text /\ NoDraft \notin Text /\ NoDraft # Raised
  BY CompositionAssumption

LEMMA InvInit == Init => Inv
  <1> SUFFICES ASSUME Init PROVE Inv
    OBVIOUS
  <1>1. provider \in {"anthropic", "gemini", "template"}
    BY DEF Init, DefaultComposer, ClientOrTemplate
  <1>2. NoResult \in ComposeResult
    BY EmptyText DEF NoResult, ComposeResult
  <1> QED BY <1>1, <1>2, Distinct, CompositionAssumption
             DEF Init, Inv, TypeOK, SameBrief, RepliesCounted, DraftsSaySomething, DraftWaits,
                LastIsComposed

LEMMA ReplyBrief ==
    ASSUME NEW b \in Brief, NEW intent \in ReplyIntents
    PROVE  ForReply(b, intent) \in Brief /\ SameRules(ForReply(b, intent), b)
  BY DEF ForReply, Brief, SameRules

\* What answering a request, for a tick or for a reply, does to the invariant.
LEMMA AnsweredInv ==
    ASSUME Inv, Drafted, Answered, status' \in {"none", "open", "ended"},
           said' = said \/ said' = said \cup {Body}, turns' \in 0 .. MaxReplies
    PROVE  Inv'
  <1>1. request \in Brief /\ draft \in Text \cup {Raised} /\ brief # NoBrief
    BY DEF Inv, TypeOK, Drafted, SameBrief
  <1>2. Result \in ComposeResult
    BY <1>1, VetType DEF Result
  <1>3. Body \in [message : Text, frame : ReplyIntents \cup {""}]
    BY <1>1, <1>2 DEF Body, ComposeResult, Brief
  <1>4. TypeOK'
    BY <1>1, <1>2, <1>3 DEF Inv, TypeOK, Answered
  <1>5. SameBrief'
    BY <1>1 DEF Inv, SameBrief, Answered
  <1>8. RepliesCounted'
    BY DEF RepliesCounted, Answered
  <1>6. DraftsSaySomething'
    BY Distinct DEF Inv, DraftsSaySomething, Answered
  <1>7. LastIsComposed'
    BY <1>1 DEF Answered, LastIsComposed, Result
  <1> QED BY <1>4, <1>5, <1>6, <1>7, <1>8 DEF Inv, DraftWaits, Answered

LEMMA InvNext == Inv /\ [Next]_vars => Inv'
  <1> SUFFICES ASSUME Inv, [Next]_vars PROVE Inv'
    OBVIOUS
  <1>1. CASE Open
    <2>1. brief' \in Brief
      BY <1>1, CompositionAssumption DEF Open
    <2>2. last.from = NoBrief
      BY <1>1 DEF Inv, SameBrief, Open
    <2>3. TypeOK'
      BY <1>1, <2>1 DEF Inv, TypeOK, Open
    <2>4. SameBrief'
      BY <1>1, <2>1, <2>2, Distinct DEF SameBrief, SameRules, Open
    <2>5. RepliesCounted'
      BY <1>1 DEF RepliesCounted, Open
    <2>6. DraftsSaySomething' /\ LastIsComposed'
      BY <1>1 DEF Inv, DraftsSaySomething, LastIsComposed, Open
    <2>7. DraftWaits'
      BY <1>1 DEF Inv, SameBrief, DraftWaits, Open
    <2> QED BY <2>3, <2>4, <2>5, <2>6, <2>7 DEF Inv
  <1>2. ASSUME NEW intent \in ReplyIntents, Ask(intent) PROVE Inv'
    <2>1. brief \in Brief
      BY <1>2 DEF Inv, TypeOK, SameBrief, Ask
    <2>2. TypeOK'
      BY <1>2, <2>1, ReplyBrief DEF Inv, TypeOK, Ask
    <2>3. SameBrief'
      BY <1>2, <2>1, ReplyBrief, Distinct DEF Inv, SameBrief, Ask
    <2>4. RepliesCounted'
      BY <1>2 DEF RepliesCounted, Ask
    <2> QED BY <1>2, <2>2, <2>3, <2>4 DEF Inv, DraftsSaySomething, DraftWaits,
                LastIsComposed, Ask
  <1>3. ASSUME NEW composer \in Composers, Compose(composer) PROVE Inv'
    <2>1. request \in Brief
      BY <1>3 DEF Inv, TypeOK, Compose
    <2>2. draft' \in Text \cup {Raised} /\ (draft' \in Text => ~IsEmpty(draft'))
      <3>1. CASE composer = "template"
        BY <1>3, <2>1, <3>1, TemplateText DEF Compose, IsEmpty, Text
      <3>2. CASE composer # "template"
        <4>1. \A a \in Answers : a.message \in Text
          BY CompositionAssumption DEF Answers
        <4>2. \A a \in Answers :
                 \/ ExtractMessage(a) = Raised
                 \/ ExtractMessage(a) \in Text /\ ~IsEmpty(ExtractMessage(a))
          BY <4>1 DEF ExtractMessage, IsEmpty, Text
        <4>3. draft' = Raised \/ \E a \in Answers : draft' = ExtractMessage(a)
          BY <1>3, <3>2 DEF Compose
        <4> QED BY <4>2, <4>3, Distinct
      <3> QED BY <3>1, <3>2
    <2>3. TypeOK'
      BY <1>3, <2>2 DEF Inv, TypeOK, Compose
    <2> QED BY <1>3, <2>2, <2>3
            DEF Inv, SameBrief, RepliesCounted, DraftsSaySomething, DraftWaits,
                LastIsComposed, Compose
  <1>4. CASE AnswerTick
    BY <1>4, AnsweredInv DEF Inv, TypeOK, AnswerTick
  <1>5. CASE AnswerReply
    <2>1. turns' \in 0 .. MaxReplies
      <3>1. MaxReplies \in Nat
        BY CompositionAssumption
      <3>2. turns \in 0 .. MaxReplies /\ turns < MaxReplies
        BY <1>5 DEF Inv, TypeOK, RepliesCounted, AnswerReply, Drafted
      <3>3. turns' = turns + 1
        BY <1>5 DEF AnswerReply
      <3> QED BY <3>1, <3>2, <3>3
    <2> QED BY <1>5, <2>1, AnsweredInv DEF Inv, TypeOK, AnswerReply
  <1>6. CASE UNCHANGED vars
    BY <1>6 DEF Inv, TypeOK, SameBrief, RepliesCounted, DraftsSaySomething, DraftWaits,
                LastIsComposed, vars
  <1> QED BY <1>1, <1>2, <1>3, <1>4, <1>5, <1>6 DEF Next, Finished

LEMMA InvHolds == Spec => []Inv
  BY InvInit, InvNext, PTL DEF Spec

\* Every variable keeps to its type.
THEOREM TypeCorrect == Spec => []TypeOK
  <1>1. Inv => TypeOK
    BY DEF Inv
  <1> QED BY <1>1, InvHolds, PTL

\* Whatever is sent in a conversation obeys the firewall under the brief it was opened
\* with.
THEOREM SentPassesFirewall == Spec => []SentIsVetted
  <1>1. Inv => SentIsVetted
    <2> SUFFICES ASSUME Inv, Something PROVE Valid(last.result.message, brief)
      BY DEF SentIsVetted
    <2>1. /\ last.from \in Brief /\ last.of \in Text \cup {Raised}
          /\ last.result = ComposeAndValidate(last.of, last.from, left)
      BY DEF Inv, LastIsComposed, Something, NoResult, NoText, IsEmpty
    <2>2. Valid(last.result.message, last.from)
      BY <2>1, VetIsSound DEF Something
    <2>3. SameRules(last.from, brief)
      BY <2>1, Distinct DEF Inv, SameBrief
    <2> QED BY <2>2, <2>3, RulesDecide
  <1> QED BY <1>1, InvHolds, PTL

\* A correction only ever completes a draft.
THEOREM CorrectedDraftsSaySomething == Spec => []CorrectionKeepsADraft
  <1>1. Inv => CorrectionKeepsADraft
    <2> SUFFICES ASSUME Inv, last.result.corrected PROVE ~IsEmpty(last.of)
      BY DEF CorrectionKeepsADraft
    <2>1. /\ last.from \in Brief /\ last.of \in Text \cup {Raised}
          /\ last.result = ComposeAndValidate(last.of, last.from, left)
      BY DEF Inv, LastIsComposed, NoResult
    <2>2. last.of \in Text
      BY <2>1, VetCases DEF Fallback
    <2> QED BY <2>2 DEF Inv, DraftsSaySomething
  <1> QED BY <1>1, InvHolds, PTL

\* A draft that lacks no more than its call to action is not thrown away for that, if the
\* call fits and is not one too many.
THEOREM DraftsAreRescued == Spec => []CorrectionRescues
  <1>1. Inv => CorrectionRescues
    <2> SUFFICES ASSUME Inv, last.result.fallback, last.of \in Text
                 PROVE  \/ Defects(last.of, last.from) \ {"no_cta"} # {}
                        \/ WithCta(last.of, last.from).len > MaxChars + LengthTolerance
                        \/ Cardinality(ReplyTokens(WithCta(last.of, last.from))) > 2
      BY DEF CorrectionRescues
    <2>1. last.from \in Brief /\ last.result = ComposeAndValidate(last.of, last.from, left)
      BY DEF Inv, LastIsComposed, NoResult
    <2>2. ~IsEmpty(last.of)
      BY DEF Inv, DraftsSaySomething
    <2>3. ComposeAndValidate(last.of, last.from, left).fallback
      BY <2>1
    <2> QED BY <2>1, <2>2, <2>3, VetRescues
  <1> QED BY <1>1, InvHolds, PTL

\* From a clean brief there is always something to send: the composers, the correction
\* and the fallback together never leave a clean conversation without a message.
THEOREM CleanBriefsAreNeverSilent == Spec => []CleanBriefsSpeak
  <1>1. Inv => CleanBriefsSpeak
    <2> SUFFICES ASSUME Inv, last.from # NoBrief, Clean(last.from) PROVE Something
      BY DEF CleanBriefsSpeak
    <2>1. /\ last.from \in Brief /\ last.of \in Text \cup {Raised}
          /\ last.result = ComposeAndValidate(last.of, last.from, left)
      BY DEF Inv, LastIsComposed
    <2> QED BY <2>1, CleanSpeaks DEF Something
  <1> QED BY <1>1, InvHolds, PTL
-------------------------------------------------------------------------------
(***************************************************************************)
(* A conversation of the template.                                         *)
(***************************************************************************)

\* What is sent of a brief when the template composes: for each intent one body.
BodyOf(b) ==
    LET m == ComposeAndValidate(Template(b, left), b, left).message
    IN  [message |-> m, frame |-> IF m = Template(b, left) THEN b.intent ELSE ""]

Bodies == {BodyOf(ForReply(brief, intent)) : intent \in ReplyIntents}

\* Each reply so far has left another one of them in sent_bodies.
TemplateInv ==
    provider = "template" =>
        /\ Drafted => draft = Template(request, left)
        /\ request # NoBrief /\ status = "open" =>
              \E intent \in ReplyIntents : request = ForReply(brief, intent)
        /\ status = "none" => said = {} /\ turns = 0
        /\ status = "open" => said \subseteq Bodies /\ turns = Cardinality(said)

LEMMA BodiesKept == UNCHANGED <<brief, left>> => Bodies' = Bodies
  BY DEF Bodies, BodyOf

\* There are two.
LEMMA TwoBodies ==
    ASSUME NEW S \in SUBSET Bodies
    PROVE  IsFiniteSet(S) /\ Cardinality(S) <= 2
  <1>1. PICK x, y : Bodies = {x, y}
    <2>1. \A b : b \in Bodies <=> \/ b = BodyOf(ForReply(brief, "accept_and_advance"))
                                  \/ b = BodyOf(ForReply(brief, "redirect_to_original_ask"))
      BY DEF Bodies, ReplyIntents
    <2> QED BY <2>1
  <1>2. IsFiniteSet({x}) /\ Cardinality({x}) = 1
    BY FS_Singleton
  <1>3. IsFiniteSet({x} \cup {y}) /\ Cardinality({x} \cup {y}) <= 2
    BY <1>2, FS_AddElement
  <1>4. Bodies = {x} \cup {y}
    BY <1>1
  <1>5. IsFiniteSet(S) /\ Cardinality(S) <= Cardinality({x} \cup {y})
    BY <1>3, <1>4, FS_Subset
  <1>6. Cardinality(S) \in Nat /\ Cardinality({x} \cup {y}) \in Nat
    <2>1. Cardinality(S) \in Nat
      BY <1>5, FS_CardinalityType
    <2>2. Cardinality({x} \cup {y}) \in Nat
      BY <1>3, FS_CardinalityType
    <2> QED BY <2>1, <2>2
  <1>7. \A m, n \in Nat : m <= n /\ n <= 2 => m <= 2
    OBVIOUS
  <1> QED BY <1>3, <1>5, <1>6, <1>7

LEMMA TemplateNext == Inv /\ TemplateInv /\ [Next]_vars => TemplateInv'
  <1> SUFFICES ASSUME Inv, TemplateInv, [Next]_vars, provider = "template" PROVE TemplateInv'
    BY DEF TemplateInv, Next, Open, Ask, Compose, AnswerTick, AnswerReply, Answered, Finished, vars
  <1>1. CASE Open
    <2>1. /\ UNCHANGED <<draft, status, said, turns>>
          /\ status = "none" /\ request = NoBrief /\ draft = NoDraft
      BY <1>1 DEF Open, Inv, SameBrief, DraftWaits
    <2> QED BY <2>1 DEF TemplateInv, Drafted
  <1>2. ASSUME NEW intent \in ReplyIntents, Ask(intent) PROVE TemplateInv'
    <2>1. UNCHANGED <<provider, brief, left, draft, status, said, turns>>
      BY <1>2 DEF Ask
    <2>2. status = "open" /\ request' = ForReply(brief, intent) /\ request = NoBrief
      BY <1>2 DEF Ask
    <2>3. draft = NoDraft
      BY <2>2 DEF Inv, DraftWaits
    <2> QED BY <2>1, <2>2, <2>3, BodiesKept DEF TemplateInv, Drafted
  <1>3. ASSUME NEW composer \in Composers, Compose(composer) PROVE TemplateInv'
    <2>1. UNCHANGED <<provider, brief, request, left, status, said, turns>>
      BY <1>3 DEF Compose
    <2>2. draft' = Template(request, left)
      BY <1>3 DEF Composers, Compose
    <2> QED BY <2>1, <2>2, BodiesKept DEF TemplateInv, Drafted
  <1>4. CASE AnswerTick
    <2>1. /\ said' = {} /\ turns' = 0 /\ request' = NoBrief
          /\ status' \in {"open", "ended"}
      BY <1>4 DEF AnswerTick, Answered, TemplateInv
    <2> QED BY <2>1, FS_EmptySet DEF TemplateInv, Drafted
  <1>5. CASE AnswerReply
    <2>1. /\ status = "open" /\ Drafted /\ request' = NoBrief
          /\ UNCHANGED <<brief, left, provider>> /\ turns' = turns + 1
          /\ \/ status' = "ended"
             \/ Body \notin said /\ said' = said \cup {Body} /\ status' = status
      BY <1>5 DEF AnswerReply, Answered
    <2>2. Body \in Bodies
      <3>1. PICK intent \in ReplyIntents : request = ForReply(brief, intent)
        BY <2>1 DEF TemplateInv, Drafted
      <3>2. Body = BodyOf(request)
        BY <2>1 DEF TemplateInv, Body, BodyOf, Result
      <3> QED BY <3>1, <3>2 DEF Bodies
    <2>3. CASE status' = "open"
      <3>1. Body \notin said /\ said' = said \cup {Body}
        BY <2>1, <2>3
      <3>2. said \subseteq Bodies /\ turns = Cardinality(said)
        BY <2>1 DEF TemplateInv
      <3>3. Cardinality(said') = Cardinality(said) + 1
        BY <3>1, <3>2, TwoBodies, FS_AddElement
      <3>4. said' \subseteq Bodies'
        BY <2>1, <2>2, <3>1, <3>2, BodiesKept
      <3> QED BY <2>1, <2>3, <3>2, <3>3, <3>4 DEF TemplateInv, Drafted
    <2> QED BY <2>1, <2>3 DEF TemplateInv, Drafted
  <1>6. CASE Finished \/ UNCHANGED vars
    BY <1>6, BodiesKept DEF TemplateInv, Drafted, Finished, vars
  <1> QED BY <1>1, <1>2, <1>3, <1>4, <1>5, <1>6 DEF Next

\* TemplateSaysTwoThings, whatever the names, the facts and the calls to action are, and
\* whether or not the text was cut, corrected or refused by the firewall.
THEOREM TemplateEndsByItself == Spec => []TemplateSaysTwoThings
  <1>1. Init => TemplateInv
    BY DEF Init, TemplateInv, Drafted
  <1>2. Inv /\ TemplateInv => TemplateSaysTwoThings
    <2> SUFFICES ASSUME TemplateInv, provider = "template", status = "open" PROVE turns <= 2
      BY DEF TemplateSaysTwoThings
    <2> QED BY TwoBodies DEF TemplateInv
  <1> QED BY <1>1, <1>2, TemplateNext, InvHolds, PTL DEF Spec
===============================================================================

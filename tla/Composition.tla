------------------------------ MODULE Composition ------------------------------
(***************************************************************************)
(* What a conversation says: its opening message and the replies after it, *)
(* each composed from the brief, judged by the firewall and, if need be,   *)
(* corrected or replaced by the template (pipeline.py and                  *)
(* generation/composer; the two callers are in api/app.py).                *)
(*                                                                         *)
(* Engine shows what overlapping requests do to each other; here a         *)
(* conversation handles one request after the other, as its turn lock has  *)
(* it, and the texts matter.  ComposePool has the waiting and its limits;  *)
(* here a call that raises or comes too late gives no draft.               *)
(***************************************************************************)
EXTENDS Firewall, Sequences

CONSTANTS
    Decisions, Merchants, Categories, Customers,   \* what a brief is built from
    Drafts,         \* texts a language model may write
    Environments,   \* the configurations the service may run under
    Remains,        \* the sets of marks that may be left of a text that is cut
    NoBrief, Raised, NoDraft,
    MaxReplies      \* bound: replies composed in a conversation

VARIABLES
    provider,    \* what get_default_composer gives
    brief,       \* the brief the conversation was opened with (conv.brief)
    request,     \* the brief that is being composed from
    left,        \* what is left of a text that is cut
    draft,       \* what the composer returned
    status,      \* "none" before the opening is sent, "open", "ended"
    said,        \* conv.sent_bodies
    turns,       \* replies composed so far
    last         \* history: the last ComposeResult, the draft and brief it came from

vars == <<provider, brief, request, left, draft, status, said, turns, last>>

ComposeResult == [message : Text, fallback : BOOLEAN, corrected : BOOLEAN]

NoResult == [message |-> NoText, fallback |-> FALSE, corrected |-> FALSE]

ASSUME CompositionAssumption ==
    /\ \A decision \in Decisions, merchant \in Merchants, category \in Categories,
          customer \in Customers : BuildBrief(decision, merchant, category, customer) \in Brief
    /\ Drafts \subseteq Text
    /\ NoBrief \notin Brief
    /\ Raised \notin Text
    /\ NoDraft \notin Text \cup {Raised}
    /\ MaxReplies \in Nat

-------------------------------------------------------------------------------
(***************************************************************************)
(* The composers.                                                          *)
(***************************************************************************)

\* The client can be made: its key is there and its SDK can be loaded.
Works(env, client) == client \in env.keys /\ client \in env.installed

ClientOrTemplate(env, client) == IF Works(env, client) THEN client ELSE "template"

\* Without a setting the first key that is there decides, whether or not its client works.
DefaultComposer(env) ==
    CASE env.setting \in {"anthropic", "gemini"} -> ClientOrTemplate(env, env.setting)
      [] env.setting \notin {"anthropic", "gemini", ""} -> "template"
      [] env.setting = "" /\ "anthropic" \in env.keys -> ClientOrTemplate(env, "anthropic")
      [] env.setting = "" /\ "anthropic" \notin env.keys /\ "gemini" \in env.keys ->
            ClientOrTemplate(env, "gemini")
      [] OTHER -> "template"

\* What a language model answers: an object with a message, or something else.
Answers == [object : BOOLEAN, protected : BOOLEAN, meta : BOOLEAN, message : Drafts]

\* An answer that claims a decision-owned field, breaks character or says nothing is malformed.
ExtractMessage(a) ==
    IF a.object /\ ~a.protected /\ ~a.meta /\ a.message.len > 0 THEN a.message ELSE Raised

UrlLength == 12

\* What is left of the facts without URLs; other marks stay.
SanitizeFact(t) ==
    IF "url" \in t.marks
    THEN [len |-> IF t.len > UrlLength THEN t.len - UrlLength ELSE 0,
          marks |-> t.marks \ {"url"}]
    ELSE t

Opener(slug) ==
    CASE slug = "dentists" -> Plain(15)
      [] slug \in {"gyms", "pharmacies"} -> Plain(14)
      [] slug \in {"restaurants", "salons"} -> Plain(12)
      [] OTHER -> NoText

Prefix(intent) ==
    CASE intent = "accept_and_advance" -> Plain(21)
      [] intent = "redirect_to_original_ask" -> Plain(28)
      [] OTHER -> NoText

IsEmpty(t) == t.len = 0

\* The customer is greeted if there is one, else the owner, else the merchant.
Subject(b) ==
    IF ~IsEmpty(b.customer) THEN b.customer ELSE IF ~IsEmpty(b.owner) THEN b.owner ELSE b.merchant

\* A customer is told once from whom the message is.
Intro(b) ==
    IF ~IsEmpty(b.customer) /\ b.first THEN Join(Plain(10), b.merchant) ELSE NoText

Greeting(b) ==
    Join(Join(Join(Prefix(b.intent), Subject(b)), Plain(2)),
         Join(Intro(b), IF b.first THEN Opener(b.slug) ELSE NoText))

\* What the message is about, and a full stop.
Substance(b) ==
    LET facts == SanitizeFact(b.facts)
    IN  Join(IF IsEmpty(facts) THEN b.merchant ELSE facts, Plain(1))

Closing(b) ==
    IF IsEmpty(CtaFallbackText(b)) THEN NoText ELSE Join(Plain(1), CtaFallbackText(b))

Less(m, n) == IF m < n THEN 0 ELSE m - n

\* The first n characters of t, of whose marks these may be left.
Cut(t, n, remain) ==
    IF t.len <= n THEN t
    ELSE [len |-> n, marks |-> IF n = 0 THEN {} ELSE t.marks \cap remain]

\* TemplateComposer.compose: greeting, substance and call to action, up to max_chars.
Template(b, remain) ==
    LET greeting == Cut(Greeting(b), MaxChars, remain)
        substance == Cut(Substance(b), Less(MaxChars, greeting.len), remain)
        closing == Cut(Closing(b), Less(MaxChars, greeting.len + substance.len), remain)
    IN  Join(Join(greeting, substance), closing)

-------------------------------------------------------------------------------
(***************************************************************************)
(* compose_and_validate, once the composer has returned or raised.         *)
(***************************************************************************)

\* Fault: what the template says is sent as it is.
FallbackUnchecked(b, remain) ==
    [message |-> Template(b, remain), fallback |-> TRUE, corrected |-> FALSE]

Fallback(b, remain) ==
    LET m == Template(b, remain)
    IN  [message |-> IF Valid(m, b) THEN m ELSE NoText, fallback |-> TRUE, corrected |-> FALSE]

\* A blank and the call to action after the message; strip() removes the blank of an
\* empty one.
WithCta(m, b) ==
    IF IsEmpty(m) THEN CtaFallbackText(b) ELSE Join(Join(m, Plain(1)), CtaFallbackText(b))

Correctable(m, b) ==
    /\ ~HasExplicitBinaryCta(m, b.cta)
    /\ ~IsEmpty(CtaFallbackText(b))
    /\ Valid(WithCta(m, b), b)

\* Fault: no draft is corrected.
VetUncorrected(m, b, remain) ==
    IF m # Raised /\ Valid(m, b)
    THEN [message |-> m, fallback |-> FALSE, corrected |-> FALSE]
    ELSE Fallback(b, remain)

ComposeAndValidate(m, b, remain) ==
    CASE m = Raised -> Fallback(b, remain)
      [] m # Raised /\ Valid(m, b) -> [message |-> m, fallback |-> FALSE, corrected |-> FALSE]
      [] m # Raised /\ ~Valid(m, b) /\ Correctable(m, b) ->
            [message |-> WithCta(m, b), fallback |-> FALSE, corrected |-> TRUE]
      [] OTHER -> Fallback(b, remain)

-------------------------------------------------------------------------------

Init ==
    /\ provider \in {DefaultComposer(env) : env \in Environments}
    /\ brief = NoBrief
    /\ request = NoBrief
    /\ left \in Remains
    /\ draft = NoDraft
    /\ status = "none"
    /\ said = {}
    /\ turns = 0
    /\ last = [result |-> NoResult, of |-> NoDraft, from |-> NoBrief]

\* A tick has decided to open the conversation.
Open ==
    /\ status = "none" /\ brief = NoBrief
    /\ \E decision \in Decisions, merchant \in Merchants, category \in Categories,
          customer \in Customers :
          brief' = BuildBrief(decision, merchant, category, customer)
    /\ request' = brief'
    /\ UNCHANGED <<provider, left, draft, status, said, turns, last>>

\* A reply is to be answered with a send.
Ask(intent) ==
    /\ status = "open" /\ request = NoBrief
    /\ turns < MaxReplies
    /\ request' = ForReply(brief, intent)
    /\ UNCHANGED <<provider, brief, left, draft, status, said, turns, last>>

\* A tick whose time for models is spent uses the template.
Composers == {provider} \cup (IF status = "none" THEN {"template"} ELSE {})

Compose(composer) ==
    /\ request # NoBrief /\ draft = NoDraft
    /\ IF composer = "template" THEN draft' = Template(request, left)
       ELSE draft' \in {Raised} \cup {ExtractMessage(a) : a \in Answers}
    /\ UNCHANGED <<provider, brief, request, left, status, said, turns, last>>

Result == ComposeAndValidate(draft, request, left)

\* sent_bodies holds whole texts.  The template's begins with the words of its intent.
Body ==
    [ message |-> Result.message,
      frame |-> IF Result.message = Template(request, left) THEN request.intent ELSE "" ]

Drafted == request # NoBrief /\ draft # NoDraft

Answered ==
    /\ last' = [result |-> Result, of |-> draft, from |-> request]
    /\ request' = NoBrief
    /\ draft' = NoDraft
    /\ UNCHANGED <<provider, brief, left>>

\* Without a message the reservation is released and nothing is sent.
AnswerTick ==
    /\ status = "none" /\ Drafted
    /\ status' = IF IsEmpty(Result.message) THEN "ended" ELSE "open"
    /\ Answered
    /\ UNCHANGED <<said, turns>>

\* Fault: a repeated body is sent again.
AnswerReplyAgain ==
    /\ status = "open" /\ Drafted
    /\ status' = IF IsEmpty(Result.message) THEN "ended" ELSE "open"
    /\ said' = said \cup {Body}
    /\ turns' = turns + 1
    /\ Answered

\* Without a message, or with one that was sent before, the conversation ends.
AnswerReply ==
    /\ status = "open" /\ Drafted
    /\ IF IsEmpty(Result.message) \/ Body \in said
       THEN status' = "ended" /\ UNCHANGED said
       ELSE said' = said \cup {Body} /\ UNCHANGED status
    /\ turns' = turns + 1
    /\ Answered

Finished ==
    /\ request = NoBrief
    /\ status = "ended" \/ turns = MaxReplies
    /\ UNCHANGED vars

Next ==
    \/ Open
    \/ \E intent \in ReplyIntents : Ask(intent)
    \/ \E composer \in Composers : Compose(composer)
    \/ AnswerTick
    \/ AnswerReply
    \/ Finished

Spec == Init /\ [][Next]_vars

-------------------------------------------------------------------------------

TypeOK ==
    /\ provider \in {"anthropic", "gemini", "template"}
    /\ brief \in Brief \cup {NoBrief}
    /\ request \in Brief \cup {NoBrief}
    /\ left \in Remains
    /\ draft \in Text \cup {Raised, NoDraft}
    /\ status \in {"none", "open", "ended"}
    /\ said \subseteq [message : Text, frame : ReplyIntents \cup {""}]
    /\ turns \in 0 .. MaxReplies
    /\ last.result \in ComposeResult
    /\ last.of \in Text \cup {Raised, NoDraft}
    /\ last.from \in Brief \cup {NoBrief}

Something == ~IsEmpty(last.result.message)

\* Whatever is sent, in the opening or in a later reply, obeys every rule of the firewall
\* under the brief the conversation was opened with: its claims are claims of the facts
\* the tick decided on, however the text came about (pipeline.py:64-107, brief.py:59-65).
SentIsVetted == Something => Valid(last.result.message, brief)

\* Only a draft that says something is corrected: an empty answer of the model, which
\* would pass the firewall as a bare call to action, never gets that far
\* (shared.py:134-136, pipeline.py:89).
CorrectionKeepsADraft == last.result.corrected => ~IsEmpty(last.of)

\* What the model wrote is thrown away only if it is wrong otherwise, or if the call to
\* action does not fit or would be a third thing to answer (pipeline.py:64-91).
CorrectionRescues ==
    last.result.fallback /\ last.of \in Text =>
        \/ Defects(last.of, last.from) \ {"no_cta"} # {}
        \/ WithCta(last.of, last.from).len > MaxChars + LengthTolerance
        \/ Cardinality(ReplyTokens(WithCta(last.of, last.from))) > 2

Fits(b) == Greeting(b).len + Substance(b).len + Closing(b).len <= MaxChars

Names(b) == b.merchant.marks \cup b.owner.marks \cup b.customer.marks

NamesAreNames(b) ==
    Names(b) \cap ({"url", "placeholder"} \cup Claims \cup Taboos \cup Tokens) = {}

\* They ask for no answer and use no forbidden word.
FactsAreAllowed(b) == b.facts.marks \cap ({"placeholder"} \cup b.forbidden \cup Tokens) = {}

Clean(b) == NamesAreNames(b) /\ FactsAreAllowed(b) /\ Fits(b)

\* The safety net holds: from a clean brief there is always something to send, whatever
\* the model does, in every language, for every call to action, and in every turn
\* (composer/__init__.py:38-47 and 110-121, pipeline.py:94-107).
CleanBriefsSpeak == last.from # NoBrief /\ Clean(last.from) => Something

\* A conversation that only the template speaks in ends at the third reply at the
\* latest: it has one text for each intent, and the third would repeat one (app.py:385).
TemplateSaysTwoThings ==
    provider = "template" /\ status = "open" /\ request = NoBrief => turns <= 2

-------------------------------------------------------------------------------

\* The fallback is "re-checked but never itself expected to fail (it's built only from
\* allowed facts)" (pipeline.py:38-39).
AllowedFactsSuffice ==
    last.result.fallback /\ FactsAreAllowed(last.from) /\ Fits(last.from) => Something
===============================================================================

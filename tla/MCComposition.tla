---------------------------- MODULE MCComposition ----------------------------
\* The instance of Composition that TLC checks: names, facts and drafts with every mark
\* some rule looks for, lengths on both sides of the limits.
EXTENDS Composition

Says(n, marks) == [len |-> n, marks |-> marks]

MCDecisions ==
    { [facts |-> f, cta |-> c] :
        f \in { Says(60, {"20%"}), Says(12, {"url"}), Says(70, {"miracle"}), Says(70, {"WITH", "action"}),
                Says(345, {"20%"}) },
        c \in Ctas }

MCMerchants ==
    { [name |-> Says(20, {}), owner |-> Says(5, {}), hindi |-> FALSE],
      [name |-> Says(15, {"url"}), owner |-> NoText, hindi |-> TRUE] }

MCCategories == {[slug |-> "dentists", taboo |-> {"miracle"}], [slug |-> "other", taboo |-> {}]}

MCCustomers == {[name |-> NoText, pref |-> ""], [name |-> Says(6, {}), pref |-> "hi"]}

MCDrafts ==
    { NoText, Says(100, {}), Says(120, {"20%", "action", "yes", "YES"}), Says(110, {"99"}),
      Says(405, {}), Says(90, {"action", "1", "2"}), Says(80, {"miracle", "placeholder"}) }

MCEnvironments ==
    [ setting : {"", "template", "anthropic", "gemini", "other"},
      keys : SUBSET {"anthropic", "gemini"}, installed : SUBSET {"anthropic", "gemini"} ]

MCRemains == {{}, {"20%", "action", "YES", "yes"}}
===============================================================================

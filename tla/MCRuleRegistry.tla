--------------------------- MODULE MCRuleRegistry ---------------------------
(* Two rules; rule "a" has two versions; configurations move between them,  *)
(* drop a rule and disable one.                                             *)
EXTENDS RuleRegistry, TLC

CONSTANTS w1, w2

MCRef     == {"a1", "a2", "b1", "b0"}
MCRuleId  == {"a", "b"}
MCRuleOf  == ("a1" :> "a") @@ ("a2" :> "a") @@ ("b1" :> "b") @@ ("b0" :> "b")
MCEnabled == {"a1", "a2", "b1"}
MCConfig  == {{"a1", "b1"}, {"a2", "b0"}, {"a2"}}
MCCorrKey == {"k"}

MCWorker  == {w1, w2}
=============================================================================

------------------------- MODULE MCRuleCompilation -------------------------
(* Two rules, of which the second has an outcome that one context lacks. *)
EXTENDS RuleCompilation, TLC

CONSTANTS late, narrow

MCFits(r, c) == r # late \/ c # narrow

============================================================================

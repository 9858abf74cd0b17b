------------------------------- MODULE Policy -------------------------------
(***************************************************************************)
(* internal/scanner: rules, findings and the verdict drawn from them.      *)
(*                                                                         *)
(* A text is the set of the rules whose pattern (and validator) matches    *)
(* some string of it; what is around the matches does not matter. A        *)
(* finding is a rule and the direction it fired in. Findings form a set:   *)
(* walkJSON ranges over Go maps, so their order means nothing.             *)
(***************************************************************************)

CONSTANTS
  Rules,          \* the ids of the rules of the scanner
  RuleAction,     \* Rule.Action
  RuleDirection   \* Rule.Direction

Actions    == {"allow", "warn", "block"}
Directions == {"outbound", "inbound", "both"}
Decisions  == {"allowed", "warned", "blocked"}

ASSUME PolicyAssumption ==
  /\ RuleAction \in [Rules -> Actions]
  /\ RuleDirection \in [Rules -> Directions]

Findings == [rule : Rules, direction : {"outbound", "inbound"}]

(* New partitions the rules; a rule for "both" is in both parts.           *)
RulesFor(direction) == {r \in Rules : RuleDirection[r] \in {direction, "both"}}

(* Scan: the rules of the direction that match the text.                   *)
Scan(text, direction) ==
  {[rule |-> r, direction |-> direction] : r \in text \cap RulesFor(direction)}

ActionsOf(findings) == {RuleAction[f.rule] : f \in findings}

(* The strictest action wins.                                              *)
DeriveDecision(findings) ==
  IF "block" \in ActionsOf(findings) THEN "blocked"
  ELSE IF "warn" \in ActionsOf(findings) THEN "warned" ELSE "allowed"

(* FirstBlockingRule(findings) # "".                                       *)
HasBlockingRule(findings) == \E f \in findings : RuleAction[f.rule] = "block"
=============================================================================

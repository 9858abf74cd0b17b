---------------------------- MODULE MCRulesFile -----------------------------
(* RulesFile for TLC: three ids, one of them with a pattern that does not  *)
(* compile; the user's own file may name a rule twice.                     *)
EXTENDS RulesFile

MCRuleIds == {"jwt", "aws", "own"}
MCBrokenPatterns == {"own"}
MCStarterIds == <<"jwt", "aws">>

On(id) == [id |-> id, enabled |-> TRUE, action |-> ""]
RulesIn(rs) == [form |-> "rules", rules |-> rs]

AnyFile  == {[form |-> "missing", rules |-> <<>>], [form |-> "malformed", rules |-> <<>>],
             RulesIn(<<>>), RulesIn(<<On("jwt")>>),
             RulesIn(<<On("own"), On("aws"), [On("own") EXCEPT !.action = "block"]>>)}
=============================================================================

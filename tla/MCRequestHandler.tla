-------------------------- MODULE MCRequestHandler --------------------------
(* RequestHandler for TLC: three rules, one of each kind that matters, and *)
(* the request and answer shapes that make the branches differ.            *)
EXTENDS RequestHandler

MCRules == {"key", "card", "shell"}
MCAction == [key |-> "block", card |-> "warn", shell |-> "block"]
MCDirection == [key |-> "outbound", card |-> "both", shell |-> "inbound"]

User(text, skipped) == [role |-> "user", text |-> text, skipped |-> skipped]
Assistant(text) == [role |-> "assistant", text |-> text, skipped |-> {}]

Body(parsed, messages, raw) ==
  [scannable |-> TRUE, readable |-> TRUE, parsed |-> parsed, buildable |-> TRUE,
   fits |-> TRUE, messages |-> messages, raw |-> raw]

MCShapes == {
  Body(TRUE, <<User({}, {})>>, {}),
  Body(TRUE, <<User({"key"}, {}), Assistant({}), User({"card"}, {})>>, {"key", "card"}),
  Body(TRUE, <<User({}, {}), User({"key", "card"}, {})>>, {"key", "card"}),
  Body(TRUE, <<User({"card"}, {"key"})>>, {"key", "card"}),
  Body(TRUE, <<Assistant({"key"})>>, {"key"}),
  Body(FALSE, <<>>, {"key"}),
  Body(FALSE, <<>>, {}),
  [Body(FALSE, <<>>, {"key"}) EXCEPT !.scannable = FALSE],
  [Body(TRUE, <<User({}, {})>>, {}) EXCEPT !.readable = FALSE],
  [Body(TRUE, <<User({"card"}, {})>>, {"card"}) EXCEPT !.buildable = FALSE]}

Chunk(text) == [text |-> text, tool |-> "none"]
Tool(text, state) == [text |-> text, tool |-> state]

Answer(format, status, chunks) ==
  [format |-> format, status |-> status, chunks |-> chunks, fits |-> 3, unpacked |-> 3]

MCAnswers == {
  Answer("events", "200", <<>>),
  Answer("events", "200", <<Chunk({"shell"}), Chunk({"card"})>>),
  Answer("events", "200", <<Chunk({"card"}), Tool({}, "open"), Tool({"shell"}, "whole")>>),
  Answer("document", "403", <<Chunk({"shell"}), Chunk({"card"})>>),
  Answer("gzip", "200", <<Tool({"shell"}, "open"), Tool({}, "whole"), Chunk({"card"})>>),
  Answer("encoded", "200", <<Chunk({"shell"})>>)}
=============================================================================

------------------------------ MODULE MCSession -----------------------------
(* Session for TLC: a request that is refused and too long to be stored    *)
(* whole, one that passes, and two answers of one chunk with a blocking    *)
(* finding: upstream's own 403, and a gzipped one too long when unpacked.  *)
EXTENDS Session

MCRules == {"key", "shell"}
MCAction == [key |-> "block", shell |-> "block"]
MCDirection == [key |-> "both", shell |-> "inbound"]

Body(text, fits) ==
  [scannable |-> TRUE, readable |-> TRUE, parsed |-> TRUE, buildable |-> TRUE, fits |-> fits,
   messages |-> <<[role |-> "user", text |-> text, skipped |-> {}]>>, raw |-> text]

Answer(format, status, unpacked) ==
  [format |-> format, status |-> status, fits |-> 1, unpacked |-> unpacked,
   chunks |-> <<[text |-> {"shell"}, tool |-> "none"]>>]

MCShapes == {Body({}, TRUE), Body({"key"}, FALSE)}
MCAnswers == {Answer("events", "403", 1), Answer("gzip", "200", 0)}
=============================================================================

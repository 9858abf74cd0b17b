--------------------------- MODULE MCConversation ---------------------------
(* Conversation for TLC: texts with nothing, a match that is only recorded *)
(* and a match that blocks.                                                *)
EXTENDS Conversation

MCRules == {"key", "email"}
MCAction == [key |-> "block", email |-> "allow"]
MCDirection == [key |-> "outbound", email |-> "outbound"]
MCTexts == {{}, {"email"}, {"key"}}

(* Anthropic puts parallel results in one message; the OpenAI parsers make *)
(* each a message of its own.                                              *)
MCInTurn == [anthropic |-> 2, chat |-> 1]
MCParallel == [chat |-> 2]
=============================================================================

---------------------------- MODULE Conversation ----------------------------
(***************************************************************************)
(* One conversation of an agent through the proxy, over several turns.     *)
(*                                                                         *)
(* Every request carries the whole history again, and the proxy scans only *)
(* the latest message with role "user" of what the parser makes of it      *)
(* (proxy.go, handleHTTPRequest): earlier messages are taken to have been  *)
(* evaluated "when [they] first appeared". What counts as a message of the *)
(* user is the parser's choice, which differs per API: the results of tool *)
(* calls that ran in parallel are blocks of one user message for Anthropic *)
(* and messages of their own for OpenAI.                                   *)
(*                                                                         *)
(* The agent is the environment. The proxy keeps no state between the      *)
(* requests; "evaluated" and what follows it are history variables.        *)
(***************************************************************************)
EXTENDS Policy, Naturals, Sequences

CONSTANTS
  Apis,         \* the APIs spoken, each read by a parser of its own
  Texts,        \* the texts of messages considered
  MaxParallel,  \* how many tools an agent of an API runs at once
  MaxItems      \* bound on the items of a conversation

ASSUME ConversationAssumption ==
  /\ Apis \subseteq {"anthropic", "chat", "responses"}
  /\ Texts \subseteq SUBSET Rules
  /\ MaxParallel \in [Apis -> Nat \ {0}]
  /\ MaxItems \in Nat

VARIABLES
  api,        \* which of them this conversation speaks
  history,    \* the items of the conversation, as the agent sends them
  made,       \* how many items were ever made: the id of the latest
  kept,       \* the length of the history up to the last answer
  calls,      \* how many tools the last answer asked for
  phase,      \* where the agent is in its turn
  evaluated,  \* the ids of items that were scanned as the latest message
  refused,    \* the ids of those whose scan blocked the request
  forwarded,  \* the ids of the user's items in requests sent upstream
  resumed     \* the agent once went on with a refused message in its history

vars ==
  <<api, history, made, kept, calls, phase, evaluated, refused, forwarded, resumed>>

(* What the proxy does not touch: it keeps nothing between two requests.   *)
agentVars == <<api, history, made, kept, calls, resumed>>

Kinds  == {"system", "user", "assistant", "result"}
Phases == {"compose", "send", "refused", "await", "broken"}
Items  == [id : 1..MaxItems, kind : Kinds, text : SUBSET Rules]

ConversationTypeOK ==
  /\ api \in Apis
  /\ history \in Seq(Items)
  /\ made \in 0..MaxItems
  /\ kept \in 0..Len(history)
  /\ calls \in 0..MaxParallel[api]
  /\ phase \in Phases
  /\ evaluated \subseteq 1..made
  /\ refused \subseteq evaluated
  /\ forwarded \subseteq 1..made
  /\ resumed \in BOOLEAN

-----------------------------------------------------------------------------
(* The proxy's view of a request                                           *)

(* What the parsers make a message with role "user": what the user typed   *)
(* and, translated by both OpenAI parsers, every result of a tool.         *)
UserItems(h) == {i \in 1..Len(h) : h[i].kind \in {"user", "result"}}

(* A plausible mistake; no specification uses it: the loop over the        *)
(* messages runs forwards.                                                 *)
ScannedFirst(h) ==
  IF UserItems(h) = {} THEN 1..Len(h)
  ELSE {i \in UserItems(h) : \A j \in UserItems(h) : i <= j}

(* Where the scan looks: at the latest message of the user, and at the     *)
(* whole body when there is none.                                          *)
Scanned(h) ==
  IF UserItems(h) = {} THEN 1..Len(h)
  ELSE {i \in UserItems(h) : \A j \in UserItems(h) : j <= i}

TextBlocks(t) == HasBlockingRule(Scan(t, "outbound"))

Blocks(h, places) == TextBlocks(UNION {h[i].text : i \in places})

Ids(h, places) == {h[i].id : i \in places}

-----------------------------------------------------------------------------
(* A plausible mistake; no specification uses it: blocking findings are    *)
(* recorded and the request is forwarded all the same.                     *)
ForwardTurnUnguarded ==
  /\ phase = "send"
  /\ evaluated' = evaluated \cup Ids(history, Scanned(history))
  /\ forwarded' = forwarded \cup Ids(history, UserItems(history))
  /\ phase' = "await"
  /\ UNCHANGED <<agentVars, refused>>

-----------------------------------------------------------------------------
(* The agent                                                               *)

ConversationInit ==
  /\ api \in Apis
  /\ \E t \in Texts :
       /\ history \in {<<>>, <<[id |-> 1, kind |-> "system", text |-> t]>>}
       /\ made = Len(history) /\ made <= MaxItems
  /\ kept = Len(history)
  /\ calls = 0
  /\ phase = "compose"
  /\ evaluated = {} /\ refused = {} /\ forwarded = {}
  /\ resumed = FALSE

AddItems(kind, texts) ==
  /\ phase = "compose"
  /\ made + Len(texts) <= MaxItems
  /\ history' = history \o
       [i \in 1..Len(texts) |-> [id |-> made + i, kind |-> kind, text |-> texts[i]]]
  /\ made' = made + Len(texts)
  /\ calls' = 0
  /\ phase' = "send"
  /\ UNCHANGED <<api, kept, evaluated, refused, forwarded, resumed>>

\* The user says something, also in place of results that were asked for.
Prompt == \E t \in Texts : AddItems("user", <<t>>)

\* The results of the calls of the last answer.
ToolResults ==
  /\ calls > 0
  /\ \E ts \in [1..calls -> Texts] :
       IF api = "anthropic"
       THEN AddItems("user", <<UNION {ts[i] : i \in 1..calls}>>)
       ELSE AddItems("result", ts)

\* Upstream's answer becomes part of the history.
Answer ==
  /\ phase = "await"
  /\ made < MaxItems
  /\ \E t \in Texts, n \in 0..MaxParallel[api] :
       /\ history' = Append(history, [id |-> made + 1, kind |-> "assistant", text |-> t])
       /\ calls' = n
  /\ made' = made + 1
  /\ kept' = Len(history')
  /\ phase' = "compose"
  /\ UNCHANGED <<api, evaluated, refused, forwarded, resumed>>

\* The answer fails or breaks off (502, overload, cancellation).
AnswerFails ==
  /\ phase = "await"
  /\ phase' = "broken"
  /\ UNCHANGED <<agentVars, evaluated, refused, forwarded>>

\* The same request again.
Retry ==
  /\ phase \in {"refused", "broken"}
  /\ phase' = "send"
  /\ UNCHANGED <<agentVars, evaluated, refused, forwarded>>

\* The next message after the one that failed or was refused, which stays
\* in the history.
GoOn ==
  /\ phase \in {"refused", "broken"}
  /\ resumed' = (resumed \/ phase = "refused")
  /\ phase' = "compose"
  /\ UNCHANGED <<api, history, made, kept, calls, evaluated, refused, forwarded>>

\* The agent takes the turn back.
Forget ==
  /\ phase = "refused"
  /\ history' = SubSeq(history, 1, kept)
  /\ phase' = "compose"
  /\ UNCHANGED <<api, made, kept, calls, evaluated, refused, forwarded, resumed>>

-----------------------------------------------------------------------------
(* The proxy                                                               *)

\* A blocking finding: 403.
RefuseTurn ==
  /\ phase = "send"
  /\ Blocks(history, Scanned(history))
  /\ evaluated' = evaluated \cup Ids(history, Scanned(history))
  /\ refused' = refused \cup Ids(history, Scanned(history))
  /\ phase' = "refused"
  /\ UNCHANGED <<agentVars, forwarded>>

\* The whole body goes upstream.
ForwardTurn ==
  /\ phase = "send"
  /\ ~Blocks(history, Scanned(history))
  /\ evaluated' = evaluated \cup Ids(history, Scanned(history))
  /\ forwarded' = forwarded \cup Ids(history, UserItems(history))
  /\ phase' = "await"
  /\ UNCHANGED <<agentVars, refused>>

-----------------------------------------------------------------------------

ConversationNext ==
  \/ Prompt \/ ToolResults \/ Answer \/ AnswerFails \/ Retry \/ GoOn \/ Forget
  \/ RefuseTurn \/ ForwardTurn

ConversationSpec == ConversationInit /\ [][ConversationNext]_vars

-----------------------------------------------------------------------------
(* Safety                                                                  *)

(* What proxy.go:300 relies on: every message of the user in a request     *)
(* that leaves the machine was itself scanned, now or in an earlier turn.  *)
(* It holds when each turn adds one message of the user, whatever the      *)
(* agent does about refusals, failures and retries.                        *)
EvaluatedBeforeSent == forwarded \subseteq evaluated

(* scanner.go:40: "block: return 403 to the agent, do not forward". A      *)
(* message whose scan blocked a request never leaves the machine in a      *)
(* later one, as long as the agent retries refused turns or takes them     *)
(* back. Once it goes on with one in its history, the proxy forwards it.   *)
RefusedNeverSent == ~resumed => forwarded \cap refused = {}

-----------------------------------------------------------------------------
(* The inductive invariant behind both. While a request is on its way the  *)
(* last item is the one message that may not have been scanned yet.        *)

OneAtATime == \A a \in Apis : a = "anthropic" \/ MaxParallel[a] = 1

Settled(i) ==
  /\ history[i].id \in evaluated
  /\ resumed \/ history[i].id \notin refused

IdsIncrease ==
  \A i, j \in 1..Len(history) : i < j => history[i].id < history[j].id

IdsMade == \A i \in 1..Len(history) : history[i].id <= made

TurnIsOpen ==
  phase # "compose" => Len(history) > kept /\ Len(history) \in UserItems(history)

OnlyTheLastIsOpen ==
  \A i \in UserItems(history) :
    \/ Settled(i)
    \/ i = Len(history) /\ phase = "send"
    \/ i = Len(history) /\ phase = "refused" /\ history[i].id \in evaluated

KeptIsSettled == \A i \in 1..kept : i \in UserItems(history) => Settled(i)

VerdictsStand ==
  \A i \in UserItems(history) :
    /\ history[i].id \in refused => TextBlocks(history[i].text)
    /\ history[i].id \in evaluated \ refused => ~TextBlocks(history[i].text)

(* Of all items the agent still has, at most the last one is not settled:  *)
(* it is scanned in this request, or it was refused and not yet dealt      *)
(* with. A text that was scanned gets the same verdict in every retry.     *)
ConversationInv ==
  /\ ConversationTypeOK
  /\ IdsIncrease /\ IdsMade
  /\ TurnIsOpen /\ OnlyTheLastIsOpen /\ KeptIsSettled /\ VerdictsStand
  /\ forwarded \subseteq evaluated
  /\ ~resumed => forwarded \cap refused = {}
=============================================================================

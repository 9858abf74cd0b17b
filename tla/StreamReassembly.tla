-------------------------- MODULE StreamReassembly --------------------------
(***************************************************************************)
(* internal/parse: what the response parsers make of an event stream. The  *)
(* provider says a message of several items, a delta at a time; the parser *)
(* is run over what was copied of the stream, which may end anywhere (the  *)
(* client may leave, the capture may be cut). A state of this module is a  *)
(* prefix of the stream, with the parser's maps after it: a parser is one  *)
(* loop over the lines, so the maps after a prefix are those it would have *)
(* if the stream ended there. A line that is cut is not JSON (or an event  *)
(* name without data) and changes nothing.                                 *)
(*                                                                         *)
(* The same parsers read the message when it comes as one document         *)
(* instead. The provider, external code, is modelled from the events the   *)
(* parsers name. The text of one delta is a number, all different.         *)
(***************************************************************************)
EXTENDS Naturals, SequencesExt

CONSTANTS
  Providers,  \* of "anthropic", "chat" (OpenAI) and "responses" (OpenAI)
  MaxItems,   \* bound: items of a message
  MaxDeltas   \* bound: deltas of a stream

ASSUME ProvidersAssumption ==
  /\ Providers \subseteq {"anthropic", "chat", "responses"}
  /\ MaxItems \in Nat /\ MaxDeltas \in Nat

Kinds == {"text", "call", "other"}  \* "other": thinking, reasoning, a refusal

VARIABLES
  provider,  \* whose stream it is
  items,     \* the message said so far: items in order, each in parts
  deltas,    \* how many deltas were said
  ended,     \* the last event: none yet, "completed" or "incomplete"
  kindOf,    \* the type of each block: blocks, itemMeta
  text,      \* blk.Text, textBuilder (item 0), textByID
  args,      \* toolJSON, toolCalls, argsByID
  order,     \* itemOrder
  final      \* finalObj: the message of response.completed, or none

server == <<provider, items, deltas, ended>>
vars == <<server, kindOf, text, args, order, final>>

Empty == [i \in {} |-> <<>>]
Put(f, i, v) == [j \in DOMAIN f \cup {i} |-> IF j = i THEN v ELSE f[j]]

(* A key the map does not hold has an empty builder.                       *)
Builder(f, i) == IF i \in DOMAIN f THEN f[i] ELSE <<>>
Write_Replacing(f, i, d) == Put(f, i, <<d>>)
Write(f, i, d) == Put(f, i, Append(Builder(f, i), d))

Init ==
  /\ provider \in Providers
  /\ items = <<>> /\ deltas = 0 /\ ended = "no"
  /\ kindOf = Empty
  /\ text = IF provider = "chat" THEN Put(Empty, 0, <<>>) ELSE Empty
  /\ args = Empty /\ order = <<>> /\ final = <<>>

-----------------------------------------------------------------------------
(* The provider                                                            *)

Says(p) == provider = p /\ ended = "no" /\ UNCHANGED <<provider, ended>>

Open(k) ==
  /\ Len(items) < MaxItems
  /\ items' = Append(items, [kind |-> k, parts |-> <<<<>>>>])
  /\ UNCHANGED deltas

Speak(i) ==
  /\ deltas < MaxDeltas
  /\ deltas' = deltas + 1
  /\ LET last == Len(items[i].parts)
     IN  items' = [items EXCEPT ![i].parts[last] = Append(@, deltas + 1)]

Said(i) == FlattenSeq(items[i].parts)

(* A call that is complete has arguments: OpenAI sends {} for none,        *)
(* Anthropic sends nothing.                                                *)
Complete == \A i \in DOMAIN items :
              items[i].kind = "call" /\ provider # "anthropic" => Said(i) # <<>>

-----------------------------------------------------------------------------
(* parseAnthropicSSE: content_block_start, content_block_delta. Blocks     *)
(* follow one another. A delta of a block that was dropped is dropped.     *)

ContentBlockStart(k) ==
  /\ Says("anthropic") /\ Open(k)
  /\ LET i == Len(items) + 1
     IN  IF k = "other" THEN UNCHANGED <<kindOf, text, args>>
         ELSE /\ kindOf' = Put(kindOf, i, k)
              /\ text' = Put(text, i, <<>>)
              /\ args' = IF k = "call" THEN Put(args, i, <<>>) ELSE args
  /\ UNCHANGED <<order, final>>

ContentBlockDelta ==
  /\ Says("anthropic") /\ items # <<>>
  /\ LET i == Len(items)
     IN  /\ Speak(i)
         /\ text' = IF i \in DOMAIN kindOf /\ items[i].kind = "text"
                    THEN Write(text, i, deltas + 1) ELSE text
         /\ args' = IF items[i].kind = "call" /\ i \in DOMAIN args
                    THEN Write(args, i, deltas + 1) ELSE args
  /\ UNCHANGED <<kindOf, order, final>>

-----------------------------------------------------------------------------
(* parseOpenAISSE: a chunk with content, or with a delta of a tool call,   *)
(* known by its index; a request asks for one choice. The first delta of a *)
(* call has its name and no arguments.                                     *)

OneText(k) == k = "text" => \A i \in DOMAIN items : items[i].kind # "text"

ChatOpens(k) ==
  /\ Says("chat") /\ OneText(k) /\ Open(k)
  /\ args' = IF k = "call" THEN Put(args, Len(items) + 1, <<>>) ELSE args
  /\ UNCHANGED <<kindOf, text, order, final>>

ChatDelta(i) ==
  /\ Says("chat") /\ Speak(i)
  /\ text' = IF items[i].kind = "text" THEN Write(text, 0, deltas + 1) ELSE text
  /\ args' = IF items[i].kind = "call" THEN Write(args, i, deltas + 1) ELSE args
  /\ UNCHANGED <<kindOf, order, final>>

-----------------------------------------------------------------------------
(* handleResponsesSSEEvent. The parts of an item are announced by events   *)
(* the parser does not know; deltas of different items may interleave.     *)

OutputItemAdded(k) ==
  /\ Says("responses") /\ Open(k)
  /\ kindOf' = Put(kindOf, Len(items) + 1, k)
  /\ order' = Append(order, Len(items) + 1)
  /\ UNCHANGED <<text, args, final>>

ContentPartAdded(i) ==
  /\ Says("responses")
  /\ items[i].kind = "text" /\ Len(items[i].parts) = 1
  /\ items' = [items EXCEPT ![i].parts = Append(@, <<>>)]
  /\ UNCHANGED <<deltas, kindOf, text, args, order, final>>

OutputDelta(i) ==
  /\ Says("responses") /\ Speak(i)
  /\ text' = IF items[i].kind = "text" THEN Write(text, i, deltas + 1) ELSE text
  /\ args' = IF items[i].kind = "call" THEN Write(args, i, deltas + 1) ELSE args
  /\ UNCHANGED <<kindOf, order, final>>

-----------------------------------------------------------------------------
(* The last events: the message is complete, and only response.completed   *)
(* has it whole; or the provider gave up ("incomplete").                   *)
Ends(how) ==
  /\ ended = "no" /\ ended' = how
  /\ how = "completed" => Complete
  /\ final' = IF provider = "responses" /\ how = "completed" THEN items ELSE final
  /\ UNCHANGED <<provider, items, deltas, kindOf, text, args, order>>

Next ==
  \/ \E k \in Kinds : ContentBlockStart(k) \/ ChatOpens(k) \/ OutputItemAdded(k)
  \/ ContentBlockDelta
  \/ \E i \in DOMAIN items : ChatDelta(i) \/ OutputDelta(i) \/ ContentPartAdded(i)
  \/ \E how \in {"completed", "incomplete"} : Ends(how)

StreamSpec == Init /\ [][Next]_vars

-----------------------------------------------------------------------------
(* The content of the response: a sequence of blocks                       *)

Text(i, t) == <<[kind |-> "text", item |-> i, value |-> t]>>
Call(i, t) == <<[kind |-> "call", item |-> i, value |-> t]>>
NonEmpty(i, t) == IF t = <<>> THEN <<>> ELSE Text(i, t)

Blocks(block, keys) == FlattenSeq([n \in DOMAIN keys |-> block[keys[n]]])
Sorted(S) == CHOOSE s \in [1..Cardinality(S) -> S] :
               \A m, n \in 1..Cardinality(S) : m < n => s[m] < s[n]

(* The end of parseAnthropicSSE: the arguments become the input of the     *)
(* call, and the blocks are put in the order of their indices.             *)
AnthropicContent ==
  Blocks([i \in DOMAIN kindOf |->
            IF kindOf[i] = "call" THEN Call(i, args[i]) ELSE Text(i, text[i])],
         Sorted(DOMAIN kindOf))

(* The end of parseOpenAISSE.                                              *)
ChatContent ==
  NonEmpty(0, text[0])
    \o Blocks([i \in DOMAIN args |-> Call(i, args[i])], Sorted(DOMAIN args))

(* mapOAIResponseObject: a block for each part of a message. An empty      *)
(* object stands for the arguments of a call without any.                  *)
Object(t) == IF t = <<>> THEN <<0>> ELSE t

MapResponseObject(message) ==
  FlattenSeq(
    [i \in DOMAIN message |->
       LET parts == message[i].parts
       IN  CASE message[i].kind = "text" ->
                  FlattenSeq([n \in DOMAIN parts |-> Text(i, parts[n])])
             [] message[i].kind = "call" -> Call(i, Object(FlattenSeq(parts)))
             [] OTHER -> <<>>])

(* The end of parseOAIResponsesSSE, stitching from the deltas.             *)
Stitched ==
  Blocks([i \in DOMAIN kindOf |->
            CASE kindOf[i] = "text" -> NonEmpty(i, Builder(text, i))
              [] kindOf[i] = "call" -> Call(i, Builder(args, i))
              [] OTHER -> <<>>],
         order)

ResponsesContent_IgnoringFinal == Stitched
ResponsesContent == IF final # <<>> THEN MapResponseObject(final) ELSE Stitched

Content == CASE provider = "anthropic" -> AnthropicContent
             [] provider = "chat" -> ChatContent
             [] OTHER -> ResponsesContent

(* parseOpenAINonStreaming, of the message as one document: the text of    *)
(* the first choice, then its calls.                                       *)
ChatDocument ==
  LET Of(k, block) == FlattenSeq([i \in DOMAIN items |->
                                    IF items[i].kind = k THEN block[i] ELSE <<>>])
  IN  Of("text", [i \in DOMAIN items |-> NonEmpty(0, Said(i))])
        \o Of("call", [i \in DOMAIN items |-> Call(i, Object(Said(i)))])

(* The document the provider would have answered with (anthropic: one part *)
(* to a block) and the content the parser makes of it.                     *)
DocumentContent == IF provider = "chat" THEN ChatDocument ELSE MapResponseObject(items)

-----------------------------------------------------------------------------
(* Properties                                                              *)

(* Wherever the stream is cut, the parser has kept every piece of text and *)
(* of arguments said before, each in its item, in order and once, and in   *)
(* items of the kinds it knows: what the scanner is given of a response    *)
(* that was cut is what the client was given.                              *)
SaidOf(i) == <<items[i].kind, Said(i)>>
Key(b) == IF b.item = 0
          THEN CHOOSE i \in DOMAIN items : items[i].kind = "text"
          ELSE b.item
Words(t) == IF t = Object(<<>>) THEN <<>> ELSE t
Kept(i) ==
  <<items[i].kind,
    FlattenSeq([n \in DOMAIN Content |->
                  IF Key(Content[n]) = i /\ Content[n].kind = items[i].kind
                  THEN Words(Content[n].value) ELSE <<>>])>>

KeepsAllSaid ==
  /\ \A i \in DOMAIN items : items[i].kind # "other" => Kept(i) = SaidOf(i)
  /\ \A n \in DOMAIN Content : items[Key(Content[n])].kind # "other"

(* A message streamed to its end reads as the same message in one          *)
(* document does, block for block; only a call without arguments is left   *)
(* without input by the streaming parser of Anthropic, not with {}.        *)
Agrees(b, c) ==
  \/ b = c
  \/ /\ provider = "anthropic" /\ b.kind = "call"
     /\ b = [c EXCEPT !.value = <<>>] /\ c.value = <<0>>

StreamReadsAsDocument ==
  ended = "completed" =>
    /\ Len(Content) = Len(DocumentContent)
    /\ \A n \in DOMAIN Content : Agrees(Content[n], DocumentContent[n])

-----------------------------------------------------------------------------
(* The inductive invariant behind them: what each parser holds at any      *)
(* place of a stream is what was said of the items it knows.               *)

ItemsOf(k) == {i \in DOMAIN items : items[i].kind = k}

StreamTypeOK ==
  /\ provider \in Providers /\ deltas \in Nat
  /\ ended \in {"no", "completed", "incomplete"}
  /\ items \in Seq([kind : Kinds, parts : Seq(Seq(Nat \ {0}))])
  /\ \A i \in DOMAIN items : items[i].parts # <<>>

AnthropicHolds ==
  LET known == ItemsOf("text") \cup ItemsOf("call")
  IN  /\ kindOf = [i \in known |-> items[i].kind]
      /\ text = [i \in known |-> IF items[i].kind = "text" THEN Said(i) ELSE <<>>]
      /\ args = [i \in ItemsOf("call") |-> Said(i)]
      /\ \A i \in DOMAIN items : Len(items[i].parts) = 1

ChatHolds ==
  /\ DOMAIN text = {0}
  /\ \A i \in ItemsOf("text") : text[0] = Said(i) /\ ItemsOf("text") = {i}
  /\ ItemsOf("text") = {} => text[0] = <<>>
  /\ args = [i \in ItemsOf("call") |-> Said(i)]

ResponsesHolds ==
  /\ kindOf = [i \in DOMAIN items |-> items[i].kind]
  /\ order = [i \in DOMAIN items |-> i]
  /\ DOMAIN text \subseteq ItemsOf("text") /\ DOMAIN args \subseteq ItemsOf("call")
  /\ \A i \in ItemsOf("text") : Builder(text, i) = Said(i)
  /\ \A i \in ItemsOf("call") : Builder(args, i) = Said(i)
  /\ final = IF ended = "completed" THEN items ELSE <<>>

StreamInv ==
  /\ StreamTypeOK
  /\ provider = "anthropic" => AnthropicHolds
  /\ provider = "chat" => ChatHolds
  /\ provider = "responses" => ResponsesHolds
  /\ ended = "completed" => Complete
=============================================================================

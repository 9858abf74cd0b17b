--------------------------- MODULE RequestHandler ---------------------------
(***************************************************************************)
(* internal/proxy/proxy.go, handleHTTPRequest: one request of the agent    *)
(* through the proxy. The body is read, parsed and scanned; a request with *)
(* a blocking finding is answered 403, any other one is sent upstream; the *)
(* answer is streamed to the client and copied on the way; the copy is     *)
(* decompressed, parsed and scanned; the capture goes to the store.        *)
(*                                                                         *)
(* One request is one goroutine of net/http. The agent, the upstream       *)
(* server and the network are the environment: they may fail at each step  *)
(* that waits for them.                                                    *)
(***************************************************************************)
EXTENDS Policy, Naturals, Sequences

CONSTANTS
  Requests,   \* the requests: one goroutine each
  Shapes,     \* the request bodies and endpoints considered
  Answers,    \* the upstream answers considered
  NoAnswer,   \* upstream has not answered
  NoCapture   \* nothing was handed to the store

(***************************************************************************)
(* The shape of a request: whether its endpoint is one of the three that   *)
(* both scanner.IsScannable and parse.Dispatch know, whether the body      *)
(* reads in full, whether it parses, whether the upstream URL can be       *)
(* built, whether it fits in store.MaxBodyBytes, and its content. A        *)
(* message has the text of the blocks the parser keeps and that of the     *)
(* blocks it skips; "raw" is the text of all strings of the body, empty    *)
(* when that is not JSON.                                                  *)
(*                                                                         *)
(* An answer comes in chunks. A chunk completes matches in what the parser *)
(* keeps ("text"), and may leave the arguments of a tool call unfinished   *)
(* or finish them. The format says what the parser makes of a body that    *)
(* ends early: of "events" (SSE) the events so far; of a "document" (JSON) *)
(* nothing; of "gzip" a response without content, because the compressed   *)
(* bytes are read as an event stream without events, and of "encoded" (br, *)
(* zstd, which are never decompressed) the same even when it is complete.  *)
(* The status is upstream's own, which may be the one the proxy refuses    *)
(* with. So many chunks as "fits" says have room in store.MaxBodyBytes as  *)
(* they came, and "unpacked" once decompressed.                            *)
(***************************************************************************)
Messages == [role : {"user", "assistant"}, text : SUBSET Rules, skipped : SUBSET Rules]
Chunks   == [text : SUBSET Rules, tool : {"none", "open", "whole"}]
AnswerStatuses == {"200", "403"}

ASSUME ShapesAssumption ==
  \A s \in Shapes :
    /\ s.scannable \in BOOLEAN /\ s.readable \in BOOLEAN
    /\ s.parsed \in BOOLEAN /\ s.buildable \in BOOLEAN /\ s.fits \in BOOLEAN
    /\ s.messages \in Seq(Messages)
    /\ s.raw \subseteq Rules
    /\ s.parsed => s.scannable
    /\ s.parsed => \A i \in 1..Len(s.messages) :
                     s.messages[i].text \cup s.messages[i].skipped \subseteq s.raw

ASSUME AnswersAssumption ==
  \A a \in Answers :
    /\ a.format \in {"events", "document", "gzip", "encoded"}
    /\ a.chunks \in Seq(Chunks)
    /\ a.status \in AnswerStatuses
    /\ a.fits \in Nat /\ a.unpacked \in Nat

ASSUME NoAnswerAssumption == NoAnswer \notin Answers

VARIABLES
  pc,         \* where the goroutine of the request is
  shape,      \* the request
  findings,   \* the variable findings
  sent,       \* RoundTrip was called: the body may have left the machine
  answer,     \* the answer RoundTrip returned
  copied,     \* how many chunks are in capBuf
  delivered,  \* how many chunks w.Write took
  reply,      \* the proxy's own answer, or that upstream's is relayed
  captured    \* the capture handed to Store.Append

handlerVars == <<pc, shape, findings, sent, answer, copied, delivered, reply, captured>>

Locations == {"read", "admit", "await", "stream", "inspect",
              "append", "done", "failed"}
Replies   == {"none", "403", "500", "502", "upstream"}

Captures ==
  [status : {"403", "0"} \cup AnswerStatuses, body : Nat, findings : SUBSET Findings,
   decision : Decisions, response : BOOLEAN]

ASSUME NoCaptureAssumption == NoCapture \notin Captures

HandlerTypeOK ==
  /\ pc \in [Requests -> Locations]
  /\ shape \in [Requests -> Shapes]
  /\ findings \in [Requests -> SUBSET Findings]
  /\ sent \in [Requests -> BOOLEAN]
  /\ answer \in [Requests -> Answers \cup {NoAnswer}]
  /\ copied \in [Requests -> Nat]
  /\ delivered \in [Requests -> Nat]
  /\ reply \in [Requests -> Replies]
  /\ captured \in [Requests -> Captures \cup {NoCapture}]

HandlerInit ==
  /\ pc = [q \in Requests |-> "read"]
  /\ shape \in [Requests -> Shapes]
  /\ findings = [q \in Requests |-> {}]
  /\ sent = [q \in Requests |-> FALSE]
  /\ answer = [q \in Requests |-> NoAnswer]
  /\ copied = [q \in Requests |-> 0]
  /\ delivered = [q \in Requests |-> 0]
  /\ reply = [q \in Requests |-> "none"]
  /\ captured = [q \in Requests |-> NoCapture]

Goto(q, from, to) == pc[q] = from /\ pc' = [pc EXCEPT ![q] = to]
Reply(q, r) == reply' = [reply EXCEPT ![q] = r]

-----------------------------------------------------------------------------
(* What is scanned                                                         *)

UserMessages(s) == {i \in 1..Len(s.messages) : s.messages[i].role = "user"}

(* Only the latest user message is scanned, in the form the parser gave    *)
(* it; without one, or without a parser, the raw body is. Marshalling a    *)
(* user message does not fail: its raw parts come out of valid JSON.       *)
OutboundText(s) ==
  IF s.parsed /\ UserMessages(s) # {}
  THEN LET latest == CHOOSE i \in UserMessages(s) : \A j \in UserMessages(s) : j <= i
       IN  s.messages[latest].text
  ELSE s.raw

OutboundFindings(s) == IF s.scannable THEN Scan(OutboundText(s), "outbound") ELSE {}

(* The text of the first n chunks.                                         *)
TextOf(a, n) == UNION {a.chunks[i].text : i \in 1..n}

(* How many of the n chunks copied the parser makes something of.          *)
Understood(a, n) ==
  CASE a.format = "events" -> n
    [] a.format \in {"document", "gzip"} /\ n = Len(a.chunks) -> n
    [] OTHER -> 0

(* parse.Dispatch yields a response for the n chunks copied. The parsers   *)
(* refuse an empty body and a cut document.                                *)
Parses(s, a, n) ==
  /\ s.scannable
  /\ n > 0
  /\ a.format = "document" => n = Len(a.chunks)

(* json.Marshal of that response succeeds: it fails on a tool call whose   *)
(* accumulated arguments are not JSON (yet), the empty string included.    *)
Marshals(a, n) ==
  \A i \in 1..Understood(a, n) :
    a.chunks[i].tool = "open" =>
      \E j \in i..Understood(a, n) : a.chunks[j].tool = "whole"

InboundFindings(s, a, n) ==
  IF Parses(s, a, n) /\ Marshals(a, n)
  THEN Scan(TextOf(a, Understood(a, n)), "inbound")
  ELSE {}

-----------------------------------------------------------------------------
(* Plausible mistakes, one per property; no specification uses them.       *)

\* The policy check is skipped.
SendAnyway(q) ==
  /\ Goto(q, "admit", "await")
  /\ shape[q].buildable
  /\ sent' = [sent EXCEPT ![q] = TRUE]
  /\ UNCHANGED <<shape, findings, answer, copied, delivered, reply, captured>>

\* A failed round trip returns without a capture.
RoundTripFailsUncaptured(q) ==
  /\ Goto(q, "await", "failed")
  /\ Reply(q, "502")
  /\ UNCHANGED <<shape, findings, sent, answer, copied, delivered, captured>>

\* The copy is discarded when the client is gone.
WriteFailsDiscarding(q) ==
  /\ Goto(q, "stream", "inspect")
  /\ copied[q] > delivered[q]
  /\ copied' = [copied EXCEPT ![q] = 0]
  /\ UNCHANGED <<shape, findings, sent, answer, delivered, reply, captured>>

\* The inbound findings replace the outbound ones.
InspectReplacing(q) ==
  /\ Goto(q, "inspect", "append")
  /\ findings' = [findings EXCEPT ![q] =
                    InboundFindings(shape[q], answer[q], copied[q])]
  /\ UNCHANGED <<shape, sent, answer, copied, delivered, reply, captured>>

-----------------------------------------------------------------------------
(* The request                                                             *)

\* io.ReadAll(r.Body) fails: 502, and no capture.
ReadFails(q) ==
  /\ Goto(q, "read", "failed")
  /\ ~shape[q].readable
  /\ Reply(q, "502")
  /\ UNCHANGED <<shape, findings, sent, answer, copied, delivered, captured>>

\* The body is read, parsed and scanned.
ReadBody(q) ==
  /\ Goto(q, "read", "admit")
  /\ shape[q].readable
  /\ findings' = [findings EXCEPT ![q] = OutboundFindings(shape[q])]
  /\ UNCHANGED <<shape, sent, answer, copied, delivered, reply, captured>>

\* A blocking finding: 403 to the client.
Refuse(q) ==
  /\ Goto(q, "admit", "append")
  /\ HasBlockingRule(findings[q])
  /\ Reply(q, "403")
  /\ UNCHANGED <<shape, findings, sent, answer, copied, delivered, captured>>

\* http.NewRequestWithContext fails: 500, and no capture.
BuildFails(q) ==
  /\ Goto(q, "admit", "failed")
  /\ ~HasBlockingRule(findings[q])
  /\ ~shape[q].buildable
  /\ Reply(q, "500")
  /\ UNCHANGED <<shape, findings, sent, answer, copied, delivered, captured>>

\* p.transport.RoundTrip(outReq) is called.
Send(q) ==
  /\ Goto(q, "admit", "await")
  /\ ~HasBlockingRule(findings[q])
  /\ shape[q].buildable
  /\ sent' = [sent EXCEPT ![q] = TRUE]
  /\ UNCHANGED <<shape, findings, answer, copied, delivered, reply, captured>>

\* RoundTrip fails, before or after upstream saw the request: 502.
RoundTripFails(q) ==
  /\ Goto(q, "await", "append")
  /\ Reply(q, "502")
  /\ UNCHANGED <<shape, findings, sent, answer, copied, delivered, captured>>

-----------------------------------------------------------------------------
(* The answer                                                              *)

\* RoundTrip returns; headers and status go to the client.
AnswerBegins(q) ==
  /\ Goto(q, "await", "stream")
  /\ \E a \in Answers : answer' = [answer EXCEPT ![q] = a]
  /\ Reply(q, "upstream")
  /\ UNCHANGED <<shape, findings, sent, copied, delivered, captured>>

\* io.Copy over the TeeReader: the chunk is copied when it is read ...
ReadChunk(q) ==
  /\ pc[q] = "stream" /\ copied[q] = delivered[q]
  /\ copied[q] < Len(answer[q].chunks)
  /\ copied' = [copied EXCEPT ![q] = @ + 1]
  /\ UNCHANGED <<pc, shape, findings, sent, answer, delivered, reply, captured>>

\* ... and then written to the client.
WriteChunk(q) ==
  /\ pc[q] = "stream" /\ copied[q] > delivered[q]
  /\ delivered' = [delivered EXCEPT ![q] = copied[q]]
  /\ UNCHANGED <<pc, shape, findings, sent, answer, copied, reply, captured>>

\* The client is gone: the chunk just read is not delivered.
WriteFails(q) ==
  /\ Goto(q, "stream", "inspect")
  /\ copied[q] > delivered[q]
  /\ UNCHANGED <<shape, findings, sent, answer, copied, delivered, reply, captured>>

\* Upstream breaks off, or the request's context is cancelled.
ReadChunkFails(q) ==
  /\ Goto(q, "stream", "inspect")
  /\ copied[q] = delivered[q]
  /\ UNCHANGED <<shape, findings, sent, answer, copied, delivered, reply, captured>>

\* io.EOF
AnswerEnds(q) ==
  /\ Goto(q, "stream", "inspect")
  /\ copied[q] = delivered[q]
  /\ copied[q] = Len(answer[q].chunks)
  /\ UNCHANGED <<shape, findings, sent, answer, copied, delivered, reply, captured>>

\* decompress, parse and scan the copy.
Inspect(q) ==
  /\ Goto(q, "inspect", "append")
  /\ findings' = [findings EXCEPT ![q] =
                    @ \cup InboundFindings(shape[q], answer[q], copied[q])]
  /\ UNCHANGED <<shape, sent, answer, copied, delivered, reply, captured>>

-----------------------------------------------------------------------------
(* The capture                                                             *)

StatusOf(q) ==
  CASE reply[q] = "403" -> "403"
    [] reply[q] = "502" -> "0"
    [] OTHER -> answer[q].status

(* What Append is given. The body is all that was copied, decompressed if  *)
(* it can be; it is counted in chunks of the answer, without the text of   *)
(* the proxy's own 403.                                                    *)
CaptureOf(q) ==
  [status   |-> StatusOf(q),
   body     |-> copied[q],
   findings |-> findings[q],
   decision |-> DeriveDecision(findings[q]),
   response |-> reply[q] = "upstream" /\ Parses(shape[q], answer[q], copied[q])
                  /\ Marshals(answer[q], copied[q])]

\* appendCapture
AppendCapture(q) ==
  /\ Goto(q, "append", "done")
  /\ captured' = [captured EXCEPT ![q] = CaptureOf(q)]
  /\ UNCHANGED <<shape, findings, sent, answer, copied, delivered, reply>>

-----------------------------------------------------------------------------

BeforeAppend(q) ==
  \/ ReadFails(q) \/ ReadBody(q)
  \/ Refuse(q) \/ BuildFails(q) \/ Send(q)
  \/ RoundTripFails(q) \/ AnswerBegins(q)
  \/ ReadChunk(q) \/ WriteChunk(q) \/ WriteFails(q) \/ ReadChunkFails(q) \/ AnswerEnds(q)
  \/ Inspect(q)

HandlerStep(q) == BeforeAppend(q) \/ AppendCapture(q)

HandlerNext == \E q \in Requests : HandlerStep(q)

HandlerSpec == HandlerInit /\ [][HandlerNext]_handlerVars

-----------------------------------------------------------------------------
(* Safety                                                                  *)

BlocksOutbound(text) == HasBlockingRule(Scan(text, "outbound"))

(* A scanned request whose latest user message matches a blocking rule     *)
(* never leaves the machine, whatever else happens to it; the client is    *)
(* answered 403 and the capture says "blocked". (scanner.go:40)            *)
RefusedStaysHome ==
  \A q \in Requests :
    shape[q].scannable /\ BlocksOutbound(OutboundText(shape[q])) =>
      /\ ~sent[q] /\ answer[q] = NoAnswer /\ reply[q] \in {"none", "403", "502"}
      /\ captured[q] # NoCapture =>
           captured[q].status = "403" /\ captured[q].decision = "blocked"

(* When the handler is done, the capture exists if and only if the request *)
(* was refused or may have left the machine: nothing that was sent, failed *)
(* round trips and aborted streams included, escapes the audit log.        *)
SentIsCaptured ==
  \A q \in Requests :
    /\ pc[q] = "failed" => ~sent[q] /\ captured[q] = NoCapture
    /\ pc[q] = "done" => captured[q] # NoCapture /\ (sent[q] \/ reply[q] = "403")
    /\ captured[q] # NoCapture => pc[q] = "done"

(* The body given to Append is a prefix of what upstream sent and never    *)
(* shorter than what the client received, also when either side breaks     *)
(* off. (What Append cuts of it is in Session: RowsTellTheTruth.)          *)
CaptureCoversDelivery ==
  \A q \in Requests :
    /\ copied[q] > 0 => answer[q] # NoAnswer /\ copied[q] <= Len(answer[q].chunks)
    /\ delivered[q] \in {copied[q], copied[q] - 1}
    /\ captured[q] # NoCapture => captured[q].body >= delivered[q]

(* An outbound finding is never lost on the way to the capture, and a      *)
(* capture with a parsed response of an event stream or a document has all *)
(* the inbound findings of the text the client received, wherever it was   *)
(* cut: an answer that was not scanned cannot be taken for one that was.   *)
CaptureHasFindings ==
  \A q \in Requests :
    captured[q] # NoCapture /\ shape[q].scannable =>
      /\ OutboundFindings(shape[q]) \subseteq captured[q].findings
      /\ captured[q].response /\ answer[q].format \in {"events", "document"} =>
           Scan(TextOf(answer[q], delivered[q]), "inbound") \subseteq captured[q].findings

-----------------------------------------------------------------------------
(* The inductive invariant behind them: what holds of a request at each    *)
(* place of its handler.                                                   *)

AnswerAt(q) ==
  /\ answer[q] # NoAnswer <=> reply[q] = "upstream"
  /\ answer[q] = NoAnswer => copied[q] = 0 /\ delivered[q] = 0
  /\ answer[q] # NoAnswer => copied[q] <= Len(answer[q].chunks)
  /\ delivered[q] = copied[q] \/ delivered[q] + 1 = copied[q]

ReplyAt(q) ==
  /\ pc[q] \in {"read", "admit", "await"} => reply[q] = "none"
  /\ pc[q] \in {"stream", "inspect"} => reply[q] = "upstream"
  /\ pc[q] \in {"append", "done"} => reply[q] \in {"403", "502", "upstream"}
  /\ pc[q] = "failed" => reply[q] \in {"500", "502"}
  /\ sent[q] <=> \/ pc[q] \in {"await", "stream", "inspect"}
                 \/ pc[q] \in {"append", "done"} /\ reply[q] # "403"

FindingsAt(q) ==
  /\ \A f \in findings[q] : f.direction = "outbound" => f \in OutboundFindings(shape[q])
  /\ answer[q] = NoAnswer => findings[q] \subseteq OutboundFindings(shape[q])
  /\ pc[q] \in {"admit", "await"} => findings[q] = OutboundFindings(shape[q])
  /\ pc[q] \notin {"read", "failed"} => OutboundFindings(shape[q]) \subseteq findings[q]
  /\ sent[q] \/ reply[q] = "500" => ~HasBlockingRule(OutboundFindings(shape[q]))
  /\ reply[q] = "403" => HasBlockingRule(findings[q])
  /\ pc[q] \in {"append", "done"} /\ answer[q] # NoAnswer =>
       InboundFindings(shape[q], answer[q], copied[q]) \subseteq findings[q]

CapturedAt(q) ==
  captured[q] = IF pc[q] = "done" THEN CaptureOf(q) ELSE NoCapture

(* What the pc of a handler says about its reply, its findings, the copy   *)
(* of the answer and its capture.                                          *)
HandlerInv ==
  /\ HandlerTypeOK
  /\ \A q \in Requests : AnswerAt(q) /\ ReplyAt(q) /\ FindingsAt(q) /\ CapturedAt(q)
=============================================================================

---------------------------- MODULE SessionProofs ---------------------------
(***************************************************************************)
(* Proofs about RequestHandler, for any rules, requests and answers, and   *)
(* about Session, for any number of requests and any capacity of the       *)
(* channel. The session runs the handlers of RequestHandler and the store  *)
(* of CaptureStore; what is proved of both is carried over, and what the   *)
(* session adds is the link between the two halves of a request.           *)
(***************************************************************************)
EXTENDS Session, Runner, TLAPS

-----------------------------------------------------------------------------
(* The handlers: the types and what a scan finds                           *)

LEMMA ScanType ==
  ASSUME NEW text, NEW direction \in {"outbound", "inbound"}
  PROVE  Scan(text, direction) \subseteq Findings
BY DEF Scan, RulesFor, Findings

LEMMA DecisionType ==
  ASSUME NEW fs \in SUBSET Findings
  PROVE  /\ DeriveDecision(fs) \in Decisions
         /\ DeriveDecision(fs) = "blocked" <=> HasBlockingRule(fs)
<1>1. "block" \in ActionsOf(fs) <=> HasBlockingRule(fs)
  BY DEF ActionsOf, HasBlockingRule
<1>2. QED
  BY <1>1 DEF DeriveDecision, Decisions

LEMMA FindingsType ==
  ASSUME NEW s, NEW a, NEW n
  PROVE  OutboundFindings(s) \subseteq Findings /\ InboundFindings(s, a, n) \subseteq Findings
BY ScanType DEF OutboundFindings, InboundFindings

(* The text of a longer prefix contains that of a shorter one.             *)
LEMMA TextGrows ==
  ASSUME NEW a, NEW m \in Nat, NEW n \in Nat, m <= n
  PROVE  TextOf(a, m) \subseteq TextOf(a, n)
BY DEF TextOf

LEMMA ScanGrows ==
  ASSUME NEW t, NEW u, t \subseteq u, NEW direction
  PROVE  Scan(t, direction) \subseteq Scan(u, direction)
BY DEF Scan

-----------------------------------------------------------------------------

(* The status is upstream's own only when there is an answer.              *)
LEMMA StatusType ==
  ASSUME HandlerInv, NEW q \in Requests, pc[q] \in {"append", "done"}
  PROVE  StatusOf(q) \in {"403", "0"} \cup AnswerStatuses
<1>1. reply[q] \in {"403", "502", "upstream"} /\ (answer[q] # NoAnswer <=> reply[q] = "upstream")
  BY DEF HandlerInv, ReplyAt, AnswerAt
<1>2. answer[q] \in Answers \cup {NoAnswer}
  BY DEF HandlerInv, HandlerTypeOK
<1>3. CASE reply[q] = "upstream"
  <2>1. answer[q].status \in AnswerStatuses
    BY <1>1, <1>2, <1>3, AnswersAssumption
  <2>2. QED
    BY <1>3, <2>1 DEF StatusOf
<1>4. QED
  BY <1>1, <1>3 DEF StatusOf

LEMMA CaptureType ==
  ASSUME HandlerInv, NEW q \in Requests, pc[q] \in {"append", "done"}
  PROVE  CaptureOf(q) \in Captures
<1>1. findings[q] \in SUBSET Findings /\ copied[q] \in Nat
  BY DEF HandlerInv, HandlerTypeOK
<1>2. DeriveDecision(findings[q]) \in Decisions
  BY <1>1, DecisionType
<1>3. QED
  BY <1>1, <1>2, StatusType DEF CaptureOf, Captures, Parses, Marshals

LEMMA HandlerTypeStep == HandlerInv /\ [HandlerNext]_handlerVars => HandlerTypeOK'
<1> SUFFICES ASSUME HandlerInv, [HandlerNext]_handlerVars PROVE HandlerTypeOK'
  OBVIOUS
<1> HandlerTypeOK
  BY DEF HandlerInv
<1> USE DEF HandlerTypeOK, Locations, Replies
<1>1. ASSUME NEW q \in Requests, BeforeAppend(q) PROVE HandlerTypeOK'
  <2>1. captured' = captured /\ shape' = shape
    BY <1>1 DEF BeforeAppend, ReadFails, ReadBody, Refuse, BuildFails, Send, RoundTripFails,
                AnswerBegins, ReadChunk, WriteChunk, WriteFails, ReadChunkFails, AnswerEnds,
                Inspect
  <2>2. CASE ReadFails(q) \/ Refuse(q) \/ BuildFails(q) \/ RoundTripFails(q)
    BY <2>1, <2>2 DEF ReadFails, Refuse, BuildFails, RoundTripFails, Goto, Reply
  <2>3. CASE ReadBody(q) \/ Inspect(q)
    <3>1. /\ OutboundFindings(shape[q]) \subseteq Findings
          /\ InboundFindings(shape[q], answer[q], copied[q]) \subseteq Findings
      BY FindingsType
    <3>2. findings' \in [Requests -> SUBSET Findings]
      BY <2>3, <3>1 DEF ReadBody, Inspect
    <3>3. QED
      BY <2>1, <2>3, <3>2 DEF ReadBody, Inspect, Goto
  <2>4. CASE Send(q)
    BY <2>1, <2>4 DEF Send, Goto
  <2>5. CASE AnswerBegins(q)
    BY <2>1, <2>5 DEF AnswerBegins, Goto, Reply
  <2>6. CASE ReadChunk(q) \/ WriteChunk(q)
    <3>. copied[q] \in Nat /\ copied[q] + 1 \in Nat
      OBVIOUS
    <3>1. copied' \in [Requests -> Nat]
      <4>1. CASE copied' = copied
        BY <4>1
      <4>2. CASE copied' = [copied EXCEPT ![q] = copied[q] + 1]
        BY <4>2
      <4>3. QED
        BY <2>6, <4>1, <4>2 DEF ReadChunk, WriteChunk
    <3>2. delivered' \in [Requests -> Nat]
      BY <2>6 DEF ReadChunk, WriteChunk
    <3>3. QED
      BY <2>1, <2>6, <3>1, <3>2 DEF ReadChunk, WriteChunk
  <2>7. CASE WriteFails(q) \/ ReadChunkFails(q) \/ AnswerEnds(q)
    BY <2>1, <2>7 DEF WriteFails, ReadChunkFails, AnswerEnds, Goto
  <2>8. QED
    BY <1>1, <2>2, <2>3, <2>4, <2>5, <2>6, <2>7 DEF BeforeAppend
<1>2. ASSUME NEW q \in Requests, AppendCapture(q) PROVE HandlerTypeOK'
  <2>1. CaptureOf(q) \in Captures
    BY <1>2, CaptureType DEF AppendCapture, Goto
  <2>2. QED
    BY <1>2, <2>1 DEF AppendCapture, Goto
<1>3. CASE UNCHANGED handlerVars
  BY <1>3 DEF handlerVars
<1>4. QED
  BY <1>1, <1>2, <1>3 DEF HandlerNext, HandlerStep

-----------------------------------------------------------------------------
(* HandlerInv is a conjunction over the requests. A step of one request    *)
(* leaves the others alone; what it does to its own is followed place by   *)
(* place.                                                                  *)

RequestInv(q) == AnswerAt(q) /\ ReplyAt(q) /\ FindingsAt(q) /\ CapturedAt(q)

Untouched(p) ==
  /\ pc'[p] = pc[p] /\ shape'[p] = shape[p] /\ findings'[p] = findings[p]
  /\ sent'[p] = sent[p] /\ answer'[p] = answer[p] /\ copied'[p] = copied[p]
  /\ delivered'[p] = delivered[p] /\ reply'[p] = reply[p] /\ captured'[p] = captured[p]

LEMMA OthersUntouched ==
  ASSUME HandlerTypeOK, NEW q \in Requests, HandlerStep(q), NEW p \in Requests, p # q
  PROVE  Untouched(p)
<1> USE DEF HandlerTypeOK, Untouched
<1>1. CASE ReadFails(q) \/ ReadBody(q) \/ Refuse(q) \/ BuildFails(q) \/ Send(q)
             \/ RoundTripFails(q) \/ AnswerBegins(q)
  BY <1>1 DEF ReadFails, ReadBody, Refuse, BuildFails, Send, RoundTripFails, AnswerBegins,
              Goto, Reply
<1>2. CASE ReadChunk(q) \/ WriteChunk(q) \/ WriteFails(q) \/ ReadChunkFails(q)
             \/ AnswerEnds(q) \/ Inspect(q)
  BY <1>2 DEF ReadChunk, WriteChunk, WriteFails, ReadChunkFails, AnswerEnds, Inspect, Goto
<1>3. CASE AppendCapture(q)
  BY <1>3 DEF AppendCapture, Goto
<1>4. QED
  BY <1>1, <1>2, <1>3 DEF HandlerStep, BeforeAppend

LEMMA UntouchedKeeps ==
  ASSUME NEW p \in Requests, RequestInv(p), Untouched(p)
  PROVE  RequestInv(p)'
<1>1. (AnswerAt(p) /\ ReplyAt(p))'
  BY DEF RequestInv, Untouched, AnswerAt, ReplyAt
<1>2. FindingsAt(p)'
  BY DEF RequestInv, Untouched, FindingsAt
<1>3. CapturedAt(p)'
  BY DEF RequestInv, Untouched, CapturedAt, CaptureOf, StatusOf
<1>4. QED
  BY <1>1, <1>2, <1>3 DEF RequestInv

LEMMA BeforeAppendStep ==
  ASSUME HandlerTypeOK, NEW q \in Requests, RequestInv(q), BeforeAppend(q)
  PROVE  RequestInv(q)'
<1> USE DEF HandlerTypeOK, RequestInv
<1>1. CASE ReadFails(q)
  BY <1>1 DEF ReadFails, Goto, Reply, AnswerAt, ReplyAt, FindingsAt, CapturedAt
<1>2. CASE ReadBody(q)
  BY <1>2 DEF ReadBody, Goto, AnswerAt, ReplyAt, FindingsAt, CapturedAt
<1>3. CASE Refuse(q)
  BY <1>3 DEF Refuse, Goto, Reply, AnswerAt, ReplyAt, FindingsAt, CapturedAt
<1>4. CASE BuildFails(q)
  BY <1>4 DEF BuildFails, Goto, Reply, AnswerAt, ReplyAt, FindingsAt, CapturedAt
<1>5. CASE Send(q)
  BY <1>5 DEF Send, Goto, AnswerAt, ReplyAt, FindingsAt, CapturedAt
<1>6. CASE RoundTripFails(q)
  BY <1>6 DEF RoundTripFails, Goto, Reply, AnswerAt, ReplyAt, FindingsAt, CapturedAt
<1>7. CASE AnswerBegins(q)
  <2>1. answer'[q] \in Answers /\ copied'[q] = 0 /\ delivered'[q] = 0
    BY <1>7 DEF AnswerBegins, Goto, AnswerAt, ReplyAt
  <2>2. AnswerAt(q)'
    <3>1. answer'[q].chunks \in Seq(Chunks)
      BY <2>1, AnswersAssumption
    <3>2. reply'[q] = "upstream"
      BY <1>7 DEF AnswerBegins, Reply
    <3>3. QED
      BY <2>1, <3>1, <3>2, NoAnswerAssumption DEF AnswerAt
  <2>3. (ReplyAt(q) /\ FindingsAt(q) /\ CapturedAt(q))'
    BY <1>7 DEF AnswerBegins, Goto, Reply, ReplyAt, FindingsAt, CapturedAt
  <2>4. QED
    BY <2>2, <2>3
<1>8. CASE ReadChunk(q) \/ WriteChunk(q)
  <2>1. pc[q] = "stream" /\ answer[q] # NoAnswer
    BY <1>8 DEF ReadChunk, WriteChunk, ReplyAt, AnswerAt
  <2>2. answer[q].chunks \in Seq(Chunks)
    BY <2>1, AnswersAssumption
  <2>3. AnswerAt(q)'
    <3>1. CASE ReadChunk(q)
      BY <2>1, <2>2, <3>1 DEF ReadChunk, AnswerAt
    <3>2. CASE WriteChunk(q)
      BY <2>1, <2>2, <3>2 DEF WriteChunk, AnswerAt
    <3>3. QED
      BY <1>8, <3>1, <3>2
  <2>4. (ReplyAt(q) /\ FindingsAt(q) /\ CapturedAt(q))'
    BY <1>8, <2>1 DEF ReadChunk, WriteChunk, ReplyAt, FindingsAt, CapturedAt
  <2>5. QED
    BY <2>3, <2>4
<1>9. CASE WriteFails(q) \/ ReadChunkFails(q) \/ AnswerEnds(q)
  BY <1>9 DEF WriteFails, ReadChunkFails, AnswerEnds, Goto, AnswerAt, ReplyAt, FindingsAt,
              CapturedAt
<1>10. CASE Inspect(q)
  <2>1. answer[q] # NoAnswer /\ answer'[q] # NoAnswer
    BY <1>10 DEF Inspect, Goto, AnswerAt, ReplyAt
  <2>2. \A f \in InboundFindings(shape[q], answer[q], copied[q]) : f.direction # "outbound"
    BY DEF InboundFindings, Scan
  <2>3. FindingsAt(q)'
    BY <1>10, <2>1, <2>2 DEF Inspect, Goto, ReplyAt, FindingsAt
  <2>4. (AnswerAt(q) /\ ReplyAt(q) /\ CapturedAt(q))'
    BY <1>10 DEF Inspect, Goto, AnswerAt, ReplyAt, CapturedAt
  <2>5. QED
    BY <2>3, <2>4
<1>11. QED
  BY <1>1, <1>2, <1>3, <1>4, <1>5, <1>6, <1>7, <1>8, <1>9, <1>10 DEF BeforeAppend

LEMMA AppendStep ==
  ASSUME HandlerTypeOK, NEW q \in Requests, RequestInv(q), AppendCapture(q)
  PROVE  RequestInv(q)'
<1> USE DEF HandlerTypeOK, RequestInv
<1>1. (AnswerAt(q) /\ ReplyAt(q) /\ FindingsAt(q))'
  BY DEF AppendCapture, Goto, AnswerAt, ReplyAt, FindingsAt
<1>2. CapturedAt(q)'
  <2>1. pc'[q] = "done" /\ captured'[q] = CaptureOf(q)
    BY DEF AppendCapture, Goto
  <2>2. CaptureOf(q)' = CaptureOf(q)
    BY DEF AppendCapture, CaptureOf, StatusOf
  <2>3. QED
    BY <2>1, <2>2 DEF CapturedAt
<1>3. QED
  BY <1>1, <1>2

LEMMA HandlerInvStep == HandlerInv /\ [HandlerNext]_handlerVars => HandlerInv'
<1> SUFFICES ASSUME HandlerInv, [HandlerNext]_handlerVars PROVE HandlerInv'
  OBVIOUS
<1>1. HandlerTypeOK /\ \A p \in Requests : RequestInv(p)
  BY DEF HandlerInv, RequestInv
<1>2. HandlerTypeOK'
  BY <1>1, HandlerTypeStep
<1>3. ASSUME NEW p \in Requests PROVE RequestInv(p)'
  <2>1. CASE UNCHANGED handlerVars
    BY <1>1, <2>1, UntouchedKeeps DEF handlerVars, Untouched
  <2>2. ASSUME NEW q \in Requests, HandlerStep(q), p = q PROVE RequestInv(p)'
    BY <1>1, <2>2, BeforeAppendStep, AppendStep DEF HandlerStep
  <2>3. ASSUME NEW q \in Requests, HandlerStep(q), p # q PROVE RequestInv(p)'
    BY <1>1, <2>3, OthersUntouched, UntouchedKeeps
  <2>4. QED
    BY <2>1, <2>2, <2>3 DEF HandlerNext
<1>4. QED
  BY <1>2, <1>3 DEF HandlerInv, RequestInv

(* What the pc of a handler says about its reply, its findings, the copy   *)
(* of the answer and its capture holds throughout.                         *)
THEOREM HandlerCorrect == HandlerSpec => []HandlerInv
<1>1. HandlerInit => HandlerInv
  BY NoCaptureAssumption
  DEF HandlerInit, HandlerInv, HandlerTypeOK, Locations, Replies, AnswerAt, ReplyAt,
      FindingsAt, CapturedAt
<1>2. QED
  BY <1>1, HandlerInvStep, PTL DEF HandlerSpec

(* Every variable of the handlers keeps its type.                          *)
THEOREM HandlerTypeCorrect == HandlerSpec => []HandlerTypeOK
BY HandlerCorrect, PTL DEF HandlerInv

-----------------------------------------------------------------------------
(* What follows from it                                                    *)

LEMMA CaptureFields ==
  ASSUME NEW q \in Requests
  PROVE  /\ CaptureOf(q).status = StatusOf(q)
         /\ CaptureOf(q).body = copied[q]
         /\ CaptureOf(q).decision = DeriveDecision(findings[q])
         /\ CaptureOf(q).findings = findings[q]
         /\ CaptureOf(q).response =
              (/\ reply[q] = "upstream"
               /\ Parses(shape[q], answer[q], copied[q])
               /\ Marshals(answer[q], copied[q]))
BY Zenon DEF CaptureOf

LEMMA CapturedWhenDone ==
  ASSUME HandlerInv, NEW q \in Requests
  PROVE  /\ captured[q] # NoCapture <=> pc[q] = "done"
         /\ captured[q] # NoCapture => captured[q] = CaptureOf(q)
<1>1. pc[q] = "done" => CaptureOf(q) \in Captures
  BY CaptureType
<1>2. QED
  BY <1>1, NoCaptureAssumption DEF HandlerInv, CapturedAt

(* A request with a blocking finding in its latest user message is never   *)
(* sent, and its capture says so.                                          *)
THEOREM BlockedIsRefused == HandlerSpec => []RefusedStaysHome
<1>1. HandlerInv => RefusedStaysHome
  <2> SUFFICES ASSUME HandlerInv, NEW q \in Requests,
                      shape[q].scannable, BlocksOutbound(OutboundText(shape[q]))
               PROVE  /\ ~sent[q] /\ answer[q] = NoAnswer
                      /\ reply[q] \in {"none", "403", "502"}
                      /\ captured[q] # NoCapture =>
                           captured[q].status = "403" /\ captured[q].decision = "blocked"
    BY DEF RefusedStaysHome
  <2>1. HasBlockingRule(OutboundFindings(shape[q]))
    BY DEF BlocksOutbound, OutboundFindings
  <2>2. ~sent[q] /\ reply[q] # "500"
    BY <2>1 DEF HandlerInv, FindingsAt
  <2>3. reply[q] \in {"none", "403", "502"} /\ answer[q] = NoAnswer
    <3>1. pc[q] \in Locations /\ reply[q] \in Replies
      BY DEF HandlerInv, HandlerTypeOK
    <3>2. ReplyAt(q) /\ AnswerAt(q)
      BY DEF HandlerInv
    <3>3. reply[q] # "upstream"
      BY <2>2, <3>1, <3>2 DEF ReplyAt, Locations
    <3>4. QED
      BY <2>2, <3>1, <3>2, <3>3 DEF AnswerAt, Replies
  <2>4. ASSUME captured[q] # NoCapture
        PROVE  captured[q].status = "403" /\ captured[q].decision = "blocked"
    <3>1. pc[q] = "done" /\ captured[q] = CaptureOf(q)
      BY <2>4, CapturedWhenDone
    <3>2. reply[q] = "403"
      BY <2>2, <3>1 DEF HandlerInv, ReplyAt
    <3>3. HasBlockingRule(findings[q]) /\ findings[q] \in SUBSET Findings
      BY <3>2 DEF HandlerInv, HandlerTypeOK, FindingsAt
    <3>4. DeriveDecision(findings[q]) = "blocked"
      BY <3>3, DecisionType
    <3>5. QED
      BY <3>1, <3>2, <3>4 DEF CaptureOf, StatusOf
  <2>5. QED
    BY <2>2, <2>3, <2>4
<1>2. QED
  BY <1>1, HandlerCorrect, PTL

(* Exactly the requests that were refused or sent get a capture.           *)
THEOREM SentAlwaysCaptured == HandlerSpec => []SentIsCaptured
<1>1. HandlerInv => SentIsCaptured
  <2> SUFFICES ASSUME HandlerInv, NEW q \in Requests
               PROVE  /\ pc[q] = "failed" => ~sent[q] /\ captured[q] = NoCapture
                      /\ pc[q] = "done" =>
                           captured[q] # NoCapture /\ (sent[q] \/ reply[q] = "403")
                      /\ captured[q] # NoCapture => pc[q] = "done"
    BY DEF SentIsCaptured
  <2>1. captured[q] # NoCapture <=> pc[q] = "done"
    BY CapturedWhenDone
  <2>2. /\ pc[q] = "failed" => ~sent[q]
        /\ pc[q] = "done" => sent[q] \/ reply[q] = "403"
    BY DEF HandlerInv, ReplyAt
  <2>3. QED
    BY <2>1, <2>2
<1>2. QED
  BY <1>1, HandlerCorrect, PTL

(* The body given to Append covers what the client received.               *)
THEOREM DeliveryCovered == HandlerSpec => []CaptureCoversDelivery
<1>1. HandlerInv => CaptureCoversDelivery
  <2> SUFFICES ASSUME HandlerInv, NEW q \in Requests
               PROVE  /\ copied[q] > 0 => /\ answer[q] # NoAnswer
                                          /\ copied[q] <= Len(answer[q].chunks)
                      /\ delivered[q] \in {copied[q], copied[q] - 1}
                      /\ captured[q] # NoCapture => captured[q].body >= delivered[q]
    BY DEF CaptureCoversDelivery
  <2>1. AnswerAt(q) /\ copied[q] \in Nat /\ delivered[q] \in Nat
    BY DEF HandlerInv, HandlerTypeOK
  <2>2. captured[q] # NoCapture => captured[q].body = copied[q]
    BY CapturedWhenDone, CaptureFields
  <2>3. QED
    BY <2>1, <2>2 DEF AnswerAt
<1>2. QED
  BY <1>1, HandlerCorrect, PTL

(* Findings survive to the capture, those of a cut stream included.        *)
THEOREM FindingsSurvive == HandlerSpec => []CaptureHasFindings
<1>1. HandlerInv => CaptureHasFindings
  <2> SUFFICES ASSUME HandlerInv, NEW q \in Requests,
                      captured[q] # NoCapture, shape[q].scannable
               PROVE  /\ OutboundFindings(shape[q]) \subseteq captured[q].findings
                      /\ captured[q].response
                           /\ answer[q].format \in {"events", "document"} =>
                           Scan(TextOf(answer[q], delivered[q]), "inbound")
                             \subseteq captured[q].findings
    BY DEF CaptureHasFindings
  <2>1. pc[q] = "done" /\ captured[q] = CaptureOf(q)
    BY CapturedWhenDone
  <2>2. captured[q].findings = findings[q]
    BY <2>1, CaptureFields
  <2>3. OutboundFindings(shape[q]) \subseteq findings[q]
    BY <2>1 DEF HandlerInv, FindingsAt
  <2>4. ASSUME captured[q].response, answer[q].format \in {"events", "document"}
        PROVE  Scan(TextOf(answer[q], delivered[q]), "inbound") \subseteq findings[q]
    <3>1. /\ reply[q] = "upstream"
          /\ Parses(shape[q], answer[q], copied[q]) /\ Marshals(answer[q], copied[q])
      BY <2>1, <2>4, CaptureFields
    <3>2. Understood(answer[q], copied[q]) = copied[q]
      BY <2>4, <3>1 DEF Understood, Parses
    <3>3. InboundFindings(shape[q], answer[q], copied[q])
            = Scan(TextOf(answer[q], copied[q]), "inbound")
      BY <3>1, <3>2 DEF InboundFindings
    <3>4. Scan(TextOf(answer[q], copied[q]), "inbound") \subseteq findings[q]
      BY <2>1, <3>1, <3>3 DEF HandlerInv, AnswerAt, FindingsAt
    <3>5. delivered[q] \in Nat /\ copied[q] \in Nat /\ delivered[q] <= copied[q]
      <4>1. delivered[q] \in Nat /\ copied[q] \in Nat
        BY DEF HandlerInv, HandlerTypeOK
      <4>2. delivered[q] = copied[q] \/ delivered[q] + 1 = copied[q]
        BY DEF HandlerInv, AnswerAt
      <4>3. QED
        BY <4>1, <4>2
    <3>6. QED
      BY <3>4, <3>5, TextGrows, ScanGrows
  <2>5. QED
    BY <2>2, <2>3, <2>4
<1>2. QED
  BY <1>1, HandlerCorrect, PTL

-----------------------------------------------------------------------------
(* The session: the theorems about its store                               *)

\* The theorems of CaptureStoreProofs, about the store of the session.
Proved == INSTANCE CaptureStoreProofs WITH
            Captures <- Requests, Closers <- {Main}, Flushers <- {},
            MaxRestarts <- 0, NoCapture <- NoRequest

-----------------------------------------------------------------------------
(* Both instances of CaptureStore define the same.                         *)

LEMMA SameInit == Store!Init <=> Proved!Init
BY DEF Store!Init, Proved!Init

LEMMA SameNext == Store!Next <=> Proved!Next
BY DEF Store!Next, Store!AppendStep, Store!AppendCheck, Store!AppendSend,
       Store!AppendDrop, Store!AppendPanic, Store!CloseStep, Store!CloseBegin,
       Store!CloseChannel, Store!CloseDatabase, Store!DrainStep, Store!DrainReceive,
       Store!DrainExit, Store!DrainWrite, Store!DrainWriteFails, Store!FlushStep,
       Store!FlushBegin, Store!FlushReturns, Store!FlushTimesOut, Store!Exit,
       Store!Reopen, Store!InMemory, Store!procVars, Store!chanVars,
       Store!drainVars, Store!histVars, Store!flushVars,
       Proved!Next, Proved!AppendStep, Proved!AppendCheck, Proved!AppendSend,
       Proved!AppendDrop, Proved!AppendPanic, Proved!CloseStep, Proved!CloseBegin,
       Proved!CloseChannel, Proved!CloseDatabase, Proved!DrainStep, Proved!DrainReceive,
       Proved!DrainExit, Proved!DrainWrite, Proved!DrainWriteFails, Proved!FlushStep,
       Proved!FlushBegin, Proved!FlushReturns, Proved!FlushTimesOut, Proved!Exit,
       Proved!Reopen, Proved!InMemory, Proved!procVars, Proved!chanVars,
       Proved!drainVars, Proved!histVars, Proved!flushVars

LEMMA SameInv ==
  /\ Store!StoreInv <=> Proved!StoreInv
  /\ Store!NothingVanishes <=> Proved!NothingVanishes
  /\ Store!CloseFlushes <=> Proved!CloseFlushes
BY DEF Store!StoreInv, Store!TypeOK, Store!Positions, Store!RowsInOrder,
       Store!OneOutcome, Store!Complete, Store!ControlPoints, Store!OneCloser,
       Store!FlushPositions, Store!Taken, Store!Settled, Store!OnDisk,
       Store!InChannel, Store!AppendStates, Store!CloseStates, Store!FlushStates,
       Store!DrainStates, Store!NothingVanishes, Store!CloseFlushes,
       Proved!StoreInv, Proved!TypeOK, Proved!Positions, Proved!RowsInOrder,
       Proved!OneOutcome, Proved!Complete, Proved!ControlPoints, Proved!OneCloser,
       Proved!FlushPositions, Proved!Taken, Proved!Settled, Proved!OnDisk,
       Proved!InChannel, Proved!AppendStates, Proved!CloseStates, Proved!FlushStates,
       Proved!DrainStates, Proved!NothingVanishes, Proved!CloseFlushes

LEMMA SameLog ==
  /\ Store!Log!LogInit <=> Proved!Log!LogInit
  /\ [Store!Log!LogNext]_(Store!Log!logVars) <=> [Proved!Log!LogNext]_(Proved!Log!logVars)
BY DEF Store!Log!LogInit, Store!Log!LogNext, Store!Log!logVars,
       Store!Log!Accept, Store!Log!Drop, Store!Log!Refuse, Store!Log!Settle,
       Store!Log!Record, Store!Log!Fail, Store!Log!BeginClose, Store!Log!Seal,
       Store!Log!Finish, Store!Log!Die, Store!Log!Restart, Store!LogBacklog,
       Store!LogFate, Store!LogPhase, Store!FateOf, Store!Settled,
       Store!OnDisk, Proved!Log!LogInit, Proved!Log!LogNext,
       Proved!Log!logVars, Proved!Log!Accept, Proved!Log!Drop,
       Proved!Log!Refuse, Proved!Log!Settle, Proved!Log!Record,
       Proved!Log!Fail, Proved!Log!BeginClose, Proved!Log!Seal,
       Proved!Log!Finish, Proved!Log!Die, Proved!Log!Restart,
       Proved!LogBacklog, Proved!LogFate, Proved!LogPhase, Proved!FateOf,
       Proved!Settled, Proved!OnDisk

-----------------------------------------------------------------------------
(* The session is a run of its handlers and a run of its store.            *)

LEMMA StepOfHandlers == [SessionNext]_sessionVars => [HandlerNext]_handlerVars
<1> SUFFICES ASSUME [SessionNext]_sessionVars PROVE [HandlerNext]_handlerVars
  OBVIOUS
<1>1. ASSUME NEW q \in Requests, Handle(q) \/ CallAppend(q) PROVE HandlerNext
  BY <1>1 DEF Handle, CallAppend, HandlerNext, HandlerStep
<1>2. ASSUME NEW q \in Requests, FinishAppend(q) PROVE UNCHANGED handlerVars
  BY <1>2 DEF FinishAppend
<1>3. CASE Drain \/ RunReturns \/ BeginClose \/ FinishClose \/ OsExit \/ Killed
  BY <1>3 DEF Drain, RunReturns, BeginClose, FinishClose, OsExit, Killed
<1>4. CASE UNCHANGED sessionVars
  BY <1>4 DEF sessionVars
<1>5. QED
  BY <1>1, <1>2, <1>3, <1>4 DEF SessionNext

LEMMA StepOfStore == [SessionNext]_sessionVars => [Store!Next]_storeVars
<1> SUFFICES ASSUME [SessionNext]_sessionVars PROVE [Store!Next]_storeVars
  OBVIOUS
<1>1. ASSUME NEW q \in Requests, Handle(q) \/ CallAppend(q) \/ FinishAppend(q)
      PROVE  [Store!Next]_storeVars
  BY <1>1 DEF Handle, CallAppend, FinishAppend, Store!Next, Store!AppendStep
<1>2. CASE RunReturns
  BY <1>2 DEF RunReturns
<1>3. CASE Drain \/ OsExit \/ Killed
  BY <1>3 DEF Drain, OsExit, Killed, Store!Next
<1>4. CASE BeginClose \/ FinishClose
  BY <1>4 DEF BeginClose, FinishClose, Store!Next, Store!CloseStep
<1>5. CASE UNCHANGED sessionVars
  BY <1>5 DEF sessionVars
<1>6. QED
  BY <1>1, <1>2, <1>3, <1>4, <1>5 DEF SessionNext

(* In a session the handlers behave as RequestHandler says, so every       *)
(* theorem about the handlers holds of them: the teardown only stops       *)
(* them between two steps. (run.go, cmdRun; handleHTTPRequest)             *)
THEOREM SessionRunsHandlers == SessionSpec => HandlerSpec
<1>1. SessionInit => HandlerInit
  BY DEF SessionInit
<1>2. QED
  BY <1>1, StepOfHandlers, PTL DEF SessionSpec, HandlerSpec

(* In a session the store behaves as CaptureStore says, with the handlers  *)
(* for its appenders, cmdRun for its only closer and no restart, so every  *)
(* theorem of CaptureStoreProofs holds of it. (run.go, cmdRun; store.go)   *)
THEOREM SessionRunsStore == SessionSpec => Store!Spec
<1>1. SessionInit => Store!Init
  BY DEF SessionInit
<1>2. [SessionNext]_sessionVars => [Store!Next]_(Store!vars)
  BY StepOfStore DEF storeVars, Store!vars
<1>3. QED
  BY <1>1, <1>2, PTL DEF SessionSpec, Store!Spec

LEMMA SessionRunsProved == SessionSpec => Proved!Spec
<1>1. [Store!Next]_(Store!vars) => [Proved!Next]_(Proved!vars)
  BY SameNext DEF Store!vars, Proved!vars
<1>2. QED
  BY <1>1, SameInit, SessionRunsStore, PTL DEF Store!Spec, Proved!Spec

LEMMA StoreAssumptions ==
  /\ Proved!BufferSizeAssumption
  /\ Proved!MaxRestartsAssumption
  /\ Proved!NoCaptureAssumption
BY BufferSizeAssumption, NoRequestAssumption
   DEF Proved!BufferSizeAssumption, Proved!MaxRestartsAssumption, Proved!NoCaptureAssumption

(* What is proved of the store and of the handlers, of the session.        *)
LEMMA Carried ==
  SessionSpec => [](HandlerInv /\ Store!StoreInv /\ Store!NothingVanishes /\ Store!CloseFlushes)
<1>1. Proved!Spec => [](Proved!StoreInv /\ Proved!NothingVanishes /\ Proved!CloseFlushes)
  BY StoreAssumptions, Proved!StoreCorrect, Proved!NothingEverVanishes,
     Proved!CloseCorrect, PTL
<1>2. Proved!StoreInv /\ Proved!NothingVanishes /\ Proved!CloseFlushes =>
        Store!StoreInv /\ Store!NothingVanishes /\ Store!CloseFlushes
  BY SameInv
<1>3. QED
  BY <1>1, <1>2, HandlerCorrect, SessionRunsHandlers, SessionRunsProved, PTL

(* To the rest of aig a session's store is the log of CaptureLog: each     *)
(* capture has one fate, those taken are settled in order, and the log     *)
(* that has closed holds nothing back, while handlers go on appending.     *)
(* (run.go, cmdRun; store.go)                                              *)
THEOREM SessionKeepsTheLog == SessionSpec => Store!Log!LogSafety
<1>1. Proved!Spec => Proved!Log!LogSafety
  BY StoreAssumptions, Proved!StoreImplementsLog
<1>2. QED
  BY <1>1, SameLog, SessionRunsProved, PTL DEF Store!Log!LogSafety, Proved!Log!LogSafety

-----------------------------------------------------------------------------
(* The link between the main goroutine, Close and both halves of a request *)

Link == OneGoroutine /\ CloserAt /\ EarlyAreThrough /\ LossAt

\* Every action of a request leaves main, the flag and the closer alone.
controls == <<main, late, up, closed, closer, lost>>

LEMMA LinkInit == SessionInit => Link
BY DEF SessionInit, HandlerInit, Store!Init, Link, OneGoroutine, CloserAt,
       EarlyAreThrough, LossAt

LEMMA HandleLink ==
  ASSUME HandlerInv, Link, NEW q \in Requests, Handle(q)
  PROVE  Link'
<1>1. UNCHANGED <<controls, app, seqno, rows, failed>>
  BY DEF Handle, storeVars, controls
<1>2. OneGoroutine'
  <2>1. HandlerTypeOK /\ pc[q] # "done" /\ pc'[q] # "done"
    BY DEF HandlerInv, HandlerTypeOK, Handle, BeforeAppend, ReadFails, ReadBody, Refuse,
           BuildFails, Send, RoundTripFails, AnswerBegins, ReadChunk, WriteChunk,
           WriteFails, ReadChunkFails, AnswerEnds, Inspect, Goto
  <2>2. \A p \in Requests : p # q => pc'[p] = pc[p]
    BY <2>1, OthersUntouched DEF Handle, HandlerStep, Untouched
  <2>3. QED
    BY <1>1, <2>1, <2>2 DEF Link, OneGoroutine
<1>3. (CloserAt /\ EarlyAreThrough /\ LossAt)'
  BY <1>1 DEF Link, CloserAt, EarlyAreThrough, LossAt, controls, Store!Settled, Store!OnDisk
<1>4. QED
  BY <1>2, <1>3 DEF Link

LEMMA CallAppendLink ==
  ASSUME HandlerInv, Store!StoreInv, Link, NEW q \in Requests, CallAppend(q)
  PROVE  Link'
<1>1. /\ UNCHANGED <<controls, seqno, rows, failed>>
      /\ app' = [app EXCEPT ![q] = IF closed THEN "noop" ELSE "checked"]
      /\ app \in [Requests -> Store!AppendStates]
      /\ up /\ app[q] = "idle"
  BY DEF CallAppend, Store!AppendCheck, Store!procVars, Store!chanVars, Store!drainVars,
         Store!histVars, controls, Store!StoreInv, Store!TypeOK
<1>2. OneGoroutine'
  <2>1. pc' = [pc EXCEPT ![q] = "done"] /\ pc \in [Requests -> Locations]
    BY DEF CallAppend, AppendCapture, Goto, HandlerInv, HandlerTypeOK
  <2>2. QED
    BY <1>1, <2>1 DEF Link, OneGoroutine
<1>3. EarlyAreThrough'
  <2>1. closed => q \in late
    BY <1>1 DEF Link, EarlyAreThrough
  <2>2. QED
    BY <1>1, <2>1 DEF Link, EarlyAreThrough, controls
<1>4. (CloserAt /\ LossAt)'
  BY <1>1 DEF Link, CloserAt, LossAt, controls, Store!Settled, Store!OnDisk
<1>5. QED
  BY <1>2, <1>3, <1>4 DEF Link

(* A send on a closed channel is that of a request that was late.          *)
LEMMA FinishAppendLink ==
  ASSUME Store!StoreInv, Link, NEW q \in Requests, FinishAppend(q)
  PROVE  Link'
<1>1. /\ UNCHANGED <<controls, pc>>
      /\ \E r \in {"sent", "dropped", "panicked"} :
           app' = [app EXCEPT ![q] = r] /\ (r = "panicked" => chClosed)
      /\ app \in [Requests -> Store!AppendStates]
      /\ up /\ app[q] = "checked"
  BY DEF FinishAppend, Store!AppendSend, Store!AppendDrop, Store!AppendPanic,
         Store!procVars, Store!chanVars, Store!drainVars, handlerVars,
         controls, Store!StoreInv, Store!TypeOK
<1>2. OneGoroutine'
  BY <1>1 DEF Link, OneGoroutine
<1>3. EarlyAreThrough'
  <2>1. closed => q \in late
    BY <1>1 DEF Link, EarlyAreThrough
  <2>2. chClosed => closed
    BY DEF Store!StoreInv, Store!OneCloser
  <2>3. QED
    BY <1>1, <2>1, <2>2 DEF Link, EarlyAreThrough, controls
<1>4. main # "exited"
  BY <1>1 DEF Link, CloserAt
<1>5. (CloserAt /\ LossAt)'
  BY <1>1, <1>4 DEF Link, CloserAt, LossAt, controls
<1>6. QED
  BY <1>2, <1>3, <1>5 DEF Link

LEMMA DrainLink ==
  ASSUME Link, Drain
  PROVE  Link'
<1>1. UNCHANGED <<controls, pc, app>> /\ up
  BY DEF Drain, Store!DrainStep, Store!DrainReceive, Store!DrainExit, Store!DrainWrite,
         Store!DrainWriteFails, Store!procVars, Store!chanVars, Store!histVars,
         handlerVars, controls
<1>2. main # "exited"
  BY <1>1 DEF Link, CloserAt
<1>3. QED
  BY <1>1, <1>2 DEF Link, OneGoroutine, CloserAt, EarlyAreThrough, LossAt, controls

LEMMA RunReturnsLink ==
  ASSUME Link, RunReturns
  PROVE  Link'
BY DEF RunReturns, storeVars, handlerVars, Link, OneGoroutine, CloserAt,
       EarlyAreThrough, LossAt

(* Close begins: who is not through with Append by now is late.            *)
LEMMA BeginCloseLink ==
  ASSUME Store!StoreInv, Link, BeginClose
  PROVE  Link'
<1>1. /\ main = "teardown" /\ up /\ closed' = TRUE
      /\ closer' = [closer EXCEPT ![Main] = IF closed THEN "skipped" ELSE "won"]
      /\ closer[Main] = "idle"
      /\ late' = {q \in Requests : app[q] \in {"idle", "checked"}}
      /\ UNCHANGED <<main, up, lost, pc, app>>
  BY DEF BeginClose, Store!CloseBegin, Store!procVars, handlerVars
<1>2. closer \in [{Main} -> Store!CloseStates] /\ app \in [Requests -> Store!AppendStates]
  BY DEF Store!StoreInv, Store!TypeOK
<1>3. ~closed
  BY <1>1 DEF Link, CloserAt
<1>4. CloserAt'
  BY <1>1, <1>2, <1>3 DEF Link, CloserAt
<1>5. EarlyAreThrough'
  <2>1. ASSUME NEW q \in Requests PROVE app[q] \in {"sent", "dropped"} \/ q \in late'
    <3>1. app[q] \in {"idle", "checked", "sent", "dropped"}
      BY <1>1, <1>3 DEF Link, EarlyAreThrough
    <3>2. QED
      BY <1>1, <3>1
  <2>2. QED
    BY <1>1, <2>1 DEF EarlyAreThrough
<1>6. (OneGoroutine /\ LossAt)'
  BY <1>1 DEF Link, OneGoroutine, LossAt
<1>7. QED
  BY <1>4, <1>5, <1>6 DEF Link

LEMMA FinishCloseLink ==
  ASSUME Store!StoreInv, Link, FinishClose
  PROVE  Link'
<1>1. /\ main = "teardown" /\ up
      /\ closer[Main] \in {"won", "waiting"}
      /\ closer' = [closer EXCEPT ![Main] = IF closer[Main] = "won"
                                            THEN IF chClosed THEN "panicked" ELSE "waiting"
                                            ELSE "returned"]
      /\ UNCHANGED <<main, late, up, closed, lost, pc, app>>
  BY DEF FinishClose, Store!CloseChannel, Store!CloseDatabase, Store!procVars,
         Store!chanVars, handlerVars
<1>2. /\ closer \in [{Main} -> Store!CloseStates]
      /\ closer[Main] = "won" => ~chClosed
  BY DEF Store!StoreInv, Store!TypeOK, Store!OneCloser
<1>3. CloserAt'
  BY <1>1, <1>2 DEF Link, CloserAt
<1>4. (OneGoroutine /\ EarlyAreThrough /\ LossAt)'
  BY <1>1 DEF Link, OneGoroutine, EarlyAreThrough, LossAt
<1>5. QED
  BY <1>3, <1>4 DEF Link

(* The process ends, in order or not: those in Append are cut off.         *)
LEMMA ExitKeeps ==
  ASSUME Store!StoreInv, Link, Store!Exit, UNCHANGED <<handlerVars, late>>
  PROVE  OneGoroutine' /\ EarlyAreThrough'
<1>1. /\ up /\ ~up' /\ closed' = closed /\ pc' = pc /\ late' = late
      /\ app' = [q \in Requests |-> IF app[q] = "checked" THEN "cut" ELSE app[q]]
  BY DEF Store!Exit, handlerVars
<1>2. QED
  BY <1>1 DEF Link, OneGoroutine, EarlyAreThrough

(* The orderly end comes after Close, when the channel and drain are empty. *)
LEMMA OsExitLink ==
  ASSUME Store!StoreInv, Store!CloseFlushes, Link, OsExit
  PROVE  Link'
<1>1. /\ main = "teardown" /\ main' = "exited" /\ closer[Main] = "returned"
      /\ Store!Exit /\ UNCHANGED <<handlerVars, late>>
  BY DEF OsExit
<1>2. drain = "done" /\ \A q \in Requests : seqno[q] > 0 => Store!Settled(q)
  BY <1>1 DEF Store!CloseFlushes
<1>3. closed
  BY <1>1 DEF Store!StoreInv, Store!OneCloser
<1>4. Store!InMemory = {}
  <2>1. ch = <<>> /\ hand = NoRequest
    BY <1>2 DEF Store!StoreInv, Store!TypeOK, Store!ControlPoints
  <2>2. QED
    BY <2>1 DEF Store!InMemory
<1>5. /\ lost' = {} /\ up' = FALSE
      /\ UNCHANGED <<closed, seqno, rows, failed>> /\ lost = {}
  BY <1>1, <1>4 DEF Store!Exit, Store!histVars, Link, LossAt
<1>6. CloserAt'
  BY <1>1, <1>3, <1>5 DEF CloserAt
<1>7. LossAt'
  BY <1>2, <1>5 DEF LossAt, Store!Settled, Store!OnDisk
<1>8. QED
  BY <1>1, <1>6, <1>7, ExitKeeps DEF Link

LEMMA KilledLink ==
  ASSUME Store!StoreInv, Link, Killed
  PROVE  Link'
<1>1. /\ main' = "killed" /\ up' = FALSE
      /\ Store!Exit /\ UNCHANGED <<handlerVars, late>>
  BY DEF Killed, Store!Exit
<1>2. (CloserAt /\ LossAt)'
  BY <1>1 DEF CloserAt, LossAt
<1>3. QED
  BY <1>1, <1>2, ExitKeeps DEF Link

LEMMA LinkStep ==
  ASSUME HandlerInv, Store!StoreInv, Store!CloseFlushes, Link, [SessionNext]_sessionVars
  PROVE  Link'
<1>1. ASSUME NEW q \in Requests, Handle(q) \/ CallAppend(q) \/ FinishAppend(q)
      PROVE  Link'
  BY <1>1, HandleLink, CallAppendLink, FinishAppendLink
<1>2. CASE Drain
  BY <1>2, DrainLink
<1>3. CASE RunReturns
  BY <1>3, RunReturnsLink
<1>4. CASE BeginClose
  BY <1>4, BeginCloseLink
<1>5. CASE FinishClose
  BY <1>5, FinishCloseLink
<1>6. CASE OsExit
  BY <1>6, OsExitLink
<1>7. CASE Killed
  BY <1>7, KilledLink
<1>8. CASE UNCHANGED sessionVars
  BY <1>8 DEF sessionVars, storeVars, handlerVars, Link, OneGoroutine, CloserAt,
              EarlyAreThrough, LossAt, Store!Settled, Store!OnDisk
<1>9. QED
  BY <1>1, <1>2, <1>3, <1>4, <1>5, <1>6, <1>7, <1>8 DEF SessionNext

(* The main goroutine and the history keep their types.                    *)
LEMMA MainType ==
  /\ SessionInit => main \in MainStates /\ late \subseteq Requests
  /\ main \in MainStates /\ late \subseteq Requests /\ [SessionNext]_sessionVars =>
       (main \in MainStates /\ late \subseteq Requests)'
BY DEF SessionInit, MainStates, SessionNext, Handle, CallAppend, FinishAppend, Drain,
       RunReturns, BeginClose, FinishClose, OsExit, Killed, sessionVars

(* The invariant of the session: the handlers, the store, and that a row,  *)
(* its handler, Close and the main goroutine agree on how far they are.    *)
(* (run.go, cmdRun; handleHTTPRequest; store.go, Append and Close)         *)
THEOREM SessionCorrect == SessionSpec => []SessionInv
<1>1. SessionSpec => []Link
  BY Carried, LinkInit, LinkStep, PTL DEF SessionSpec
<1>2. SessionSpec => [](main \in MainStates /\ late \subseteq Requests)
  BY MainType, PTL DEF SessionSpec
<1>3. HandlerInv /\ Store!StoreInv /\ Link /\ main \in MainStates /\ late \subseteq Requests
        => SessionInv
  BY DEF SessionInv, SessionTypeOK, HandlerInv, Store!StoreInv, Link
<1>4. QED
  BY <1>1, <1>2, <1>3, Carried, PTL

-----------------------------------------------------------------------------
(* What the audit log says after the session                               *)

(* After an orderly end nothing the channel took is lost, and what was     *)
(* sent and is not in the table was turned away by a full channel, failed  *)
(* in SQLite, or was not through with Append when Close began.             *)
(* (run.go, deferred captures.Close; store.go, Append, Close and drain)    *)
THEOREM OrderlyEndAlwaysAccounts == SessionSpec => []OrderlyEndAccounts
<1>1. SessionInv => OrderlyEndAccounts
  <2> SUFFICES ASSUME SessionInv, main = "exited"
               PROVE  /\ lost = {}
                      /\ \A q \in Requests : sent[q] /\ q \notin late =>
                           Store!OnDisk(q) \/ q \in failed \/ app[q] = "dropped"
    BY DEF OrderlyEndAccounts
  <2>1. lost = {}
    BY DEF SessionInv, LossAt
  <2>2. ASSUME NEW q \in Requests, q \notin late, app[q] # "dropped"
        PROVE  Store!OnDisk(q) \/ q \in failed
    <3>1. app[q] = "sent"
      BY <2>2 DEF SessionInv, CloserAt, EarlyAreThrough
    <3>2. seqno[q] > 0
      BY <3>1 DEF SessionInv, Store!StoreInv, Store!ControlPoints
    <3>3. Store!Settled(q)
      BY <3>2 DEF SessionInv, LossAt
    <3>4. QED
      BY <2>1, <3>3 DEF Store!Settled
  <2>3. QED
    BY <2>1, <2>2
<1>2. QED
  BY <1>1, SessionCorrect, PTL

(* A row belongs to an exchange whose handler is through; from it can be   *)
(* told whether the request left the machine and was answered, and what is *)
(* not marked as truncated covers what the client received. (proxy.go,     *)
(* appendCapture; store.go, truncate and drain)                            *)
THEOREM RowsAlwaysTellTheTruth == SessionSpec => []RowsTellTheTruth
<1>1. SessionInv /\ Store!NothingVanishes => RowsTellTheTruth
  <2> SUFFICES ASSUME SessionInv, Store!NothingVanishes,
                      NEW q \in Requests, Store!OnDisk(q)
               PROVE  /\ captured[q] # NoCapture
                      /\ ~sent[q] <=> HasBlockingRule(Outbound(captured[q]))
                      /\ ~sent[q] => /\ captured[q].status = "403"
                                     /\ captured[q].decision = "blocked"
                      /\ sent[q] /\ captured[q].decision = "blocked" => answer[q] # NoAnswer
                      /\ captured[q].status = "0" <=> sent[q] /\ answer[q] = NoAnswer
                      /\ ~Cut(q) => shape[q].fits /\ RowBody(q) >= delivered[q]
    BY DEF RowsTellTheTruth
  <2>1. seqno[q] > 0
    BY DEF Store!NothingVanishes, Store!Settled
  <2>2. pc[q] = "done"
    <3>1. app[q] = "sent"
      BY <2>1 DEF SessionInv, Store!StoreInv, Store!ControlPoints
    <3>2. QED
      BY <3>1 DEF SessionInv, OneGoroutine
  <2>3. HandlerInv /\ AnswerAt(q) /\ ReplyAt(q) /\ FindingsAt(q)
    BY DEF SessionInv, HandlerInv
  <2>4. captured[q] # NoCapture /\ captured[q] = CaptureOf(q)
    BY <2>2, <2>3, CapturedWhenDone
  <2>5. /\ captured[q].status = StatusOf(q) /\ captured[q].body = copied[q]
        /\ captured[q].findings = findings[q]
        /\ captured[q].decision = DeriveDecision(findings[q])
    BY <2>4, CaptureFields
  <2>6. /\ reply[q] \in {"403", "502", "upstream"} /\ (sent[q] <=> reply[q] # "403")
        /\ (answer[q] # NoAnswer <=> reply[q] = "upstream")
    BY <2>2, <2>3 DEF ReplyAt, AnswerAt
  <2>7. /\ HasBlockingRule(Outbound(captured[q]))
             <=> HasBlockingRule(OutboundFindings(shape[q]))
        /\ answer[q] = NoAnswer /\ HasBlockingRule(findings[q])
             => HasBlockingRule(OutboundFindings(shape[q]))
    <3>1. /\ \A f \in findings[q] : f.direction = "outbound" => f \in OutboundFindings(shape[q])
          /\ OutboundFindings(shape[q]) \subseteq findings[q]
          /\ answer[q] = NoAnswer => findings[q] \subseteq OutboundFindings(shape[q])
      BY <2>2, <2>3 DEF FindingsAt
    <3>2. \A f \in OutboundFindings(shape[q]) : f.direction = "outbound"
      BY DEF OutboundFindings, Scan
    <3>3. Outbound(captured[q]) = OutboundFindings(shape[q])
      BY <2>5, <3>1, <3>2 DEF Outbound
    <3>4. QED
      BY <3>1, <3>3 DEF HasBlockingRule
  <2>8. ~sent[q] <=> HasBlockingRule(OutboundFindings(shape[q]))
    <3>1. sent[q] => ~HasBlockingRule(OutboundFindings(shape[q]))
      BY <2>3 DEF FindingsAt
    <3>2. ~sent[q] => HasBlockingRule(findings[q]) /\ answer[q] = NoAnswer
      BY <2>3, <2>6 DEF FindingsAt
    <3>3. QED
      BY <2>7, <3>1, <3>2
  <2>9. captured[q].decision = "blocked" <=> HasBlockingRule(findings[q])
    <3>1. findings[q] \in SUBSET Findings
      BY <2>3 DEF HandlerInv, HandlerTypeOK
    <3>2. QED
      BY <2>5, <3>1, DecisionType
  <2>10. ~sent[q] => captured[q].status = "403" /\ captured[q].decision = "blocked"
    <3>1. ~sent[q] => HasBlockingRule(findings[q]) /\ StatusOf(q) = "403"
      BY <2>3, <2>6 DEF FindingsAt, StatusOf
    <3>2. QED
      BY <2>5, <2>9, <3>1
  <2>11. captured[q].status = "0" <=> sent[q] /\ answer[q] = NoAnswer
    <3>1. CASE reply[q] = "upstream"
      <4>1. answer[q] \in Answers
        BY <2>3, <2>6, <3>1 DEF HandlerInv, HandlerTypeOK
      <4>2. answer[q].status # "0"
        BY <4>1, AnswersAssumption DEF AnswerStatuses
      <4>3. QED
        BY <2>5, <2>6, <3>1, <4>2 DEF StatusOf
    <3>2. CASE reply[q] \in {"403", "502"}
      BY <2>5, <2>6, <3>2 DEF StatusOf
    <3>3. QED
      BY <2>6, <3>1, <3>2
  <2>12. ~Cut(q) => shape[q].fits /\ RowBody(q) >= delivered[q]
    <3>1. /\ delivered[q] = copied[q] \/ delivered[q] + 1 = copied[q]
          /\ copied[q] \in Nat /\ delivered[q] \in Nat
      BY <2>3 DEF HandlerInv, HandlerTypeOK, AnswerAt
    <3>2. ~Cut(q) => shape[q].fits /\ RowBody(q) = copied[q]
      BY <2>5 DEF Cut, RowBody
    <3>3. QED
      BY <3>1, <3>2
  <2>13. QED
    BY <2>4, <2>7, <2>8, <2>9, <2>10, <2>11, <2>12
<1>2. QED
  BY <1>1, SessionCorrect, Carried, PTL

-----------------------------------------------------------------------------
(* The main goroutine waits in runner.Run before it closes anything.       *)

LEMMA RunnerStep == RunnerInv /\ [RunnerNext]_runnerVars => RunnerInv'
<1> SUFFICES ASSUME RunnerInv, [RunnerNext]_runnerVars PROVE RunnerInv'
  OBVIOUS
<1> USE DEF RunnerInv, RunnerTypeOK, BinaryAt, WatchedAt, RunOutlivesAgent, Processes, Lives
<1>1. CASE AgentAppears \/ AgentExits \/ OtherExits
  BY <1>1 DEF AgentAppears, AgentExits, OtherExits
<1>2. CASE Interrupt \/ InterruptUnheard
  BY <1>2 DEF Interrupt, InterruptUnheard, ReachesChild, Tell
<1>3. CASE Start \/ StartFails
  BY <1>3 DEF Start, StartFails
<1>4. CASE Locate \/ LocateTimesOut \/ Listen
  BY <1>4 DEF Locate, LocateTimesOut, Listen, Newest
<1>5. CASE Forward
  <2>1. told' \subseteq Processes
    BY <1>5 DEF Forward, Tell, Life
  <2>2. QED
    BY <1>5, <2>1 DEF Forward
<1>6. CASE WatchedIsOver
  BY <1>6 DEF WatchedIsOver, Life
<1>7. CASE UNCHANGED runnerVars
  BY <1>7 DEF runnerVars
<1>8. QED
  BY <1>1, <1>2, <1>3, <1>4, <1>5, <1>6, <1>7 DEF RunnerNext, RunStep

LEMMA RunnerCorrect == RunnerSpec => []RunnerInv
<1>1. RunnerInit => RunnerInv
  BY DEF RunnerInit, RunnerInv, RunnerTypeOK, BinaryAt, WatchedAt, RunOutlivesAgent,
         Processes, Lives
<1>2. QED
  BY <1>1, RunnerStep, PTL DEF RunnerSpec

(* Run never returns while the agent runs or is about to, unless it is an  *)
(* application of which pgrep named another process, or none in time.      *)
(* (runner.go, Run, runBinary and runAppBundle)                            *)
THEOREM RunAlwaysOutlives == RunnerSpec => []RunOutlivesAgent
<1>1. RunnerInv => RunOutlivesAgent
  BY DEF RunnerInv
<1>2. QED
  BY <1>1, RunnerCorrect, PTL

(* What a step of the session does to main and to the flag of the store.   *)
LEMMA StepKinds ==
  [SessionNext]_sessionVars =>
    \/ UNCHANGED <<main, closed, late>>
    \/ main = "teardown"
    \/ main = "running" /\ main' = "teardown" /\ UNCHANGED <<closed, late>>
    \/ main' = "killed" /\ UNCHANGED <<closed, late>>
<1> SUFFICES ASSUME [SessionNext]_sessionVars
             PROVE  \/ UNCHANGED <<main, closed, late>>
                    \/ main = "teardown"
                    \/ main = "running" /\ main' = "teardown" /\ UNCHANGED <<closed, late>>
                    \/ main' = "killed" /\ UNCHANGED <<closed, late>>
  OBVIOUS
<1>1. ASSUME NEW q \in Requests, Handle(q) \/ CallAppend(q) \/ FinishAppend(q)
      PROVE  UNCHANGED <<main, closed, late>>
  BY <1>1 DEF Handle, CallAppend, FinishAppend, storeVars, Store!AppendCheck,
              Store!AppendSend, Store!AppendDrop, Store!AppendPanic, Store!chanVars
<1>2. CASE Drain
  BY <1>2 DEF Drain, Store!DrainStep, Store!DrainReceive, Store!DrainExit,
              Store!DrainWrite, Store!DrainWriteFails, Store!chanVars
<1>3. CASE RunReturns
  BY <1>3 DEF RunReturns, storeVars
<1>4. CASE BeginClose \/ FinishClose \/ OsExit
  BY <1>4 DEF BeginClose, FinishClose, OsExit
<1>5. CASE Killed
  BY <1>5 DEF Killed, Store!Exit
<1>6. CASE UNCHANGED sessionVars
  BY <1>6 DEF sessionVars, storeVars
<1>7. QED
  BY <1>1, <1>2, <1>3, <1>4, <1>5, <1>6 DEF SessionNext

(* Session and Runner together are their conjunction, and this: cmdRun     *)
(* goes on to its deferred calls when runner.Run has returned (run.go).    *)
ReturnsOfRun == [][main' = "teardown" => main = "teardown" \/ runner = "returned"]_main

(* The store refuses captures only once the agent is gone: however the     *)
(* session proceeds, as long as the agent runs, or is about to, Close has  *)
(* not begun, and none of its requests is late. Of an application that     *)
(* holds if pgrep named it. (run.go, cmdRun; runner.go; store.go, Close)   *)
THEOREM StoreOutlivesAgent ==
  SessionSpec /\ RunnerSpec /\ ReturnsOfRun =>
    []((target = "binary" \/ watched = "agent") /\ agent \in {"launched", "running"} =>
         ~closed /\ late = {})
<1> DEFINE Waits == (main \in {"teardown", "exited"} \/ closed \/ late # {})
                       => runner = "returned"
<1>1. SessionInit => Waits
  BY DEF SessionInit, Store!Init
<1>2. ASSUME Waits, [SessionNext]_sessionVars, [RunnerNext]_runnerVars,
             [main' = "teardown" => main = "teardown" \/ runner = "returned"]_main
      PROVE  Waits'
  <2>1. runner = "returned" => runner' = "returned"
    BY <1>2 DEF RunnerNext, RunStep, AgentAppears, AgentExits, OtherExits, Interrupt,
                InterruptUnheard, Start, StartFails, Locate, LocateTimesOut, Listen,
                Forward, WatchedIsOver, runnerVars
  <2>2. \/ UNCHANGED <<main, closed, late>>
        \/ main = "teardown"
        \/ main = "running" /\ main' = "teardown" /\ UNCHANGED <<closed, late>>
        \/ main' = "killed" /\ UNCHANGED <<closed, late>>
    BY <1>2, StepKinds
  <2>3. QED
    BY <1>2, <2>1, <2>2
<1>3. SessionSpec /\ RunnerSpec /\ ReturnsOfRun => []Waits
  BY <1>1, <1>2, PTL DEF SessionSpec, RunnerSpec, ReturnsOfRun
<1>4. Waits /\ RunOutlivesAgent =>
        ((target = "binary" \/ watched = "agent") /\ agent \in {"launched", "running"} =>
           ~closed /\ late = {})
  BY DEF RunOutlivesAgent
<1>5. QED
  BY <1>3, <1>4, RunAlwaysOutlives, PTL
=============================================================================

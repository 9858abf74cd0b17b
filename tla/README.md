# ai-guard in TLA+

ai-guard (`aig`) wraps an AI agent in a local proxy. `aig run <cmd>` starts an
HTTPS-intercepting proxy, points the agent at it, scans what the agent sends
and what it gets back, refuses requests that match a blocking rule, and keeps
every exchange in a SQLite table. `aig serve` shows the table and the rules to
a UI. This directory holds models of that program, the TLC runs that check
them, and TLAPS proofs of their main properties.

Paths below are relative to the repository. `map` in PROJECT.json gives, for
every definition that models code, the lines it was written from.

1. [Inventory](#1-inventory)
2. [Modules](#2-modules)
3. [Runs, bounds and what they show](#3-runs-bounds-and-what-they-show)
4. [Fairness](#4-fairness)
5. [Proofs](#5-proofs)
6. [Where the code and its comments disagree](#6-where-the-code-and-its-comments-disagree)
7. [What is not modelled](#7-what-is-not-modelled)
8. [Plan](#8-plan)

## 1. Inventory

| part | state it keeps | operations | what is hard about it | correct means |
|---|---|---|---|---|
| capture store, writer (`internal/store`) | the `closed` flag, a bounded channel, the drain goroutine, the database handle, the table on disk | `Open`, `Append`, `Close`, `Flush`, `drain`, `write` | `Append` from many goroutines against `Close` and `drain`; full buffer; failed inserts; the process ends anywhere | no capture vanishes or is written twice; rows in the order of acceptance; `Close` flushes and returns |
| request handler (`internal/proxy`, `handleHTTPRequest`) | per request: findings, the copy of the answer, what was sent and delivered | read, scan, refuse, send, stream, inspect, append | a failure at every wait | what is blocked is not sent; what was sent is captured, with the bytes the client got and the findings |
| scanner and policy (`internal/scanner`) | the rules, split by direction | `Scan`, `ScanJSON`, `DeriveDecision`, `FirstBlockingRule` | one verdict over both directions | the strictest action wins; no finding is lost |
| a conversation (`handleHTTPRequest` over several turns) | none in the proxy; the history is the agent's | scan the latest user message, refuse, forward | only the latest message is scanned, on an assumption about earlier turns | every message of the user that leaves was scanned once |
| session (`cmd/aig/run.go`) | the main goroutine | `cmdRun` | closes the store under live handlers, then `os.Exit` | after an orderly end only requests still on their way are unaccounted for; a row tells whether its request left and what came back, up to the 1 MiB that is stored; the teardown ends |
| rules file (`internal/scanner/load.go`, `cmd/aig/scanner.go`, `internal/api` rule requests) | `~/.aig/rules.yaml` | toggle, set action, delete, seed, load | truncate-then-write with no lock, in several processes | the file holds what was acknowledged; a session runs exactly that |
| capture queries and API server (`internal/api`) | the cursor of each event stream | list, get, stream, rules | rows arrive while a client reads | nothing skipped, nothing twice; stream and list together are complete |
| certificate authority and minter (`internal/ca`) | two files; a cache of leaves | `LoadOrGenerate`, `CertFor` | overlapping first runs; a kill between two writes | one authority for all runs, trusted by the children; one leaf per host |
| proxy connections (`handleConnect`, `mitm`, `tunnel`, `bridge`) | hijacked connection, one-shot listener, two copying goroutines | CONNECT, close signal, copy | every goroutine must end when one side closes; the connection is closed from several places | no leaked goroutine; what a side said before it finished arrives; the close signal is given once and `Serve` lasts as long as the connection |
| parsers (`internal/parse`) | the partial message of an event stream | `Dispatch`, one parser per provider | streams cut anywhere, deltas that interleave, two parsers per API | the reassembled message is what the client saw, and what the document would have been |
| runner (`internal/runner`) | the process it waits for | `Run` | signals around start and end; finding the pid of an app bundle | a signal reaches the process; `Run` returns with it and not before |
| API process (`cmd/aig/serve.go`) | server, store | `cmdServe` | shutdown with open streams | the process ends |
| schema (`store.go`, `migrate`) | the columns of the table | open | two processes migrate at once | both come up with the new schema |
| command line, keychain, paths | none | flags, macOS `security` | - | - |

How they interact. A handler goroutine calls the parsers and the scanner and,
last, `Store.Append`; the store's drain goroutine owns the inserts; the API
reads the same table from another process. `cmdRun` owns store, proxy and
runner, and ends them in a fixed order without waiting for the handlers. The
API process rewrites the rules file that a later session seeds and compiles, and
that `aig rules` prints. Every `aig run` loads or makes the certificate authority, whose
certificate file its child reads by path. The agent's CONNECTs arrive at
`handleConnect`; the requests inside an intercepted connection are those of the
request handler, and what upstream answers is read again by the parsers once it
has been delivered.

The hazards that follow from this are listed with their lines in PROJECT.json;
each names the properties aimed at it, or says why there is none yet.

## 2. Modules

| module | models | proofs |
|---|---|---|
| `CaptureLog` | what the store promises: an append-only log behind a bounded backlog | - |
| `CaptureStore` | `internal/store/store.go`, the writing side | `CaptureStoreProofs` (with the refinement of `CaptureLog`) |
| `Policy` | rules, findings, verdicts (no state) | - |
| `RequestHandler` (extends `Policy`) | `handleHTTPRequest`, `appendCapture`, `decompressIfNeeded` | `SessionProofs` (its first part) |
| `Session` (extends `RequestHandler`, instantiates `CaptureStore`) | `cmdRun` from the start of the agent to `os.Exit` | `SessionProofs` (with what follows for `Runner`) |
| `Conversation` (extends `Policy`) | `handleHTTPRequest` over the turns of a conversation | `ConversationProofs` |
| `RulesFile` | `load.go`, `cmd/aig/scanner.go` and the requests that edit rules | `RulesFileProofs` |
| `CaptureApi` | `handleStream`, `handleListCaptures` and their queries | `CaptureApiProofs` |
| `ApiServer` (extends `CaptureApi`) | `cmdServe`: the process around them and its shutdown | `CaptureApiProofs` |
| `CertAuthority` | `internal/ca`, as the runs and their children use it | `CertAuthorityProofs` |
| `ProxyConnection` | `handleConnect`, `tunnel`, `bridge`, `mitm`, the one-shot listener | `ProxyConnectionProofs` |
| `StreamReassembly` | the response parsers of `internal/parse` | `StreamReassemblyProofs` |
| `Runner` | `internal/runner/runner.go` | `SessionProofs` |

The `MC...` modules give values to the constants that are not plain sets of
model values. Operators under a "plausible mistake" comment, and those named
after another with an underscore (`Write_Replacing`), belong to no
specification: each is a definition as it would be with one bug in it, kept to
show that some property would notice.

### CaptureStore and CaptureLog

A capture stands for itself and for the goroutine that appends it, so
`app[c]` is the pc and later the outcome of `Append(c)`. `ch` is the channel,
`drain` and `hand` the drain goroutine and what it took out, `rows` the table.
`closed` and `chClosed` are separate, because `Close` sets the flag in one step
and closes the channel in the next; the same for the check and the send of
`Append` (`AppendCheck`, then `AppendSend`, `AppendDrop` or `AppendPanic`).
`CloseBegin`, `CloseChannel` and `CloseDatabase` are the compare-and-swap,
`close(s.ch)`, and `wg.Wait` with `db.Close`. `DrainWrite` and
`DrainWriteFails` are the two ends of an insert. `Exit` can happen between any
two steps and leaves only `rows`; `Reopen` is a later process on the same file.
History variables number the accepted captures (`seqno`, `accepted`), note how
far a `Flush` has to look (`upto`) and what failed or was in memory at an exit.

`CaptureLog` has no goroutines: a capture gets exactly one fate, accepted
captures are settled in order, closing ends with an empty backlog. The
refinement mapping at the end of `CaptureStore` takes the backlog to be what
drain holds followed by the channel; the phase is read off the flag, the
channel and the database.

### Policy and RequestHandler

A text is the set of rules that match it, because the properties tell texts
apart by nothing else. A request has a shape: whether its endpoint is one that
`IsScannable` and `Dispatch` know, whether its body reads, parses and gives a
usable upstream URL, and its messages. A message keeps apart the text of
blocks the parser keeps and of those it skips. An answer has a format, which
says what the parser makes of a body that ends early, the status upstream gave
it, which may be the 403 that the proxy answers with itself, and chunks; a chunk
completes matches and may leave the arguments of a tool call open. `fits` and
`unpacked` say how many chunks are within `MaxBodyBytes`, as they came and
decompressed; a request's `fits` says the same of its body.

The pc follows the function: `read` (`ReadBody`, `ReadFails`), `admit`
(`Refuse`, `BuildFails`, `Send`), `await` (`AnswerBegins`, `RoundTripFails`),
`stream` (`ReadChunk`, `WriteChunk`, and the three ways in which `io.Copy`
ends), `inspect`, `append`. The early returns that append no capture end in
`failed`. `OutboundText` is the choice between the latest user message and the
raw body; `Parses`, `Marshals` and `InboundFindings` are what happens to the
copy of the answer, with the marshalling failure that skips the scan.
`CaptureOf` is what `Append` is given: the whole copy.

### Session

A request is also its capture. Its goroutine takes the steps of
`RequestHandler`, and its last one, `CallAppend`, is `AppendCapture` and the
first step of the store's `Append` at once; `FinishAppend` is the rest. What
`truncate` makes of the capture in between is `RowBody` and `Cut`: the bodies of
the row and its mark, from the copy and from what has `Room` in it. `main`
is the goroutine of `cmdRun`: `RunReturns` (of `Runner`), the deferred `Close`
(`BeginClose`, `FinishClose`), `OsExit`. Handlers go on in between, since
nothing closes the proxy or waits for them. `Killed` is a signal nobody
handles. `late` remembers which requests were still before or in `Append` when
`Close` began.

### Conversation

The agent is the environment: it adds a prompt or the results of the calls the
last answer asked for, retries, goes on after a failure or a refusal, or takes
a refused turn back. The proxy has two actions, `RefuseTurn` and `ForwardTurn`,
over `Scanned`, the place the loop in `handleHTTPRequest` stops at. How
results of parallel calls become messages depends on the API: blocks of one
message for Anthropic, messages of their own for the OpenAI parsers, which give
them the role of the user. `evaluated`, `refused` and `forwarded` are sets of
ids of messages; `resumed` records that the agent went on with a refused
message in its history.

### RulesFile

The file is a form (missing, rules, not YAML) and a sequence of rules. An edit
is `EditLoad` (read, change the copy), `Truncate`, `EditWrite`, because
`os.WriteFile` truncates and then writes; a start is `SeedStat`, `SeedRead`,
perhaps `Truncate` and `SeedWrite` (`Seed` is the decision), and `Load`. `Overwrite` says what a write
makes of a file that another write reached first; `OpenFails` and `WriteFails`
are the two ways to fail. The history variable `book` applies acknowledged
edits and seeding one after the other and is what the file ought to say; `lost`
notes a failed write that took rules away, `mixed` that an edit overlapped with
another edit or with a seeding. A start that only reads may overlap with an edit.

### CaptureApi

The table is `1..rows`. A stream has a connection, a cursor and what is left
of the page it sends (`Connect`, `ConnectBlindly` when `LastID` fails, `Tick`,
`Send`, `Disconnect`); a reader follows `before_id` page by page with any
limit (`ReadPage`). `start`, `sent`, `seen` and `heard` are history.

### ApiServer

`proc` is the main goroutine of `cmdServe`: it serves, is told to stop
(`Signal`) or fails (`ServeFails`), waits in `Shutdown` until no stream is in
use or the five seconds are over (`ShutdownCompletes`, `DeadlinePasses`),
closes the database (`CloseStore`) and ends (`Exit`). Every other step is one of
`CaptureApi`, under the condition the process adds: queries need the database,
and sends a process. After `CloseStore` a stream that is still open goes on
without getting anything; a stream opened then would start at 0 and get nothing
either (`ConnectBlindly`).

### CertAuthority

`LoadOrGenerate` step by step: two `stat` calls, two reads, or the creation
and writing of the certificate and then of the key; `Stop` is a failed call or
a kill anywhere among them. `Launch` is the child reading `ca.pem`; `Lookup`
and `Mint` are the two halves of `CertFor`, apart because two handshakes can
both miss the cache before either stores a leaf. An authority is named after
the run that made it. `cutOff` and `raced` are history: a run stopped between
the two files while an older key was there, and a run generated while another
was in `LoadOrGenerate`.

### ProxyConnection

One CONNECT. `at` is the goroutine of `handleConnect`: `Dial` (passthrough
only), `Hijack`, `Answer`, then either the three waits of `bridge` (`Bridge`) or
`Serve` (`ServeReturns`), `Log` and the deferred closes (`Return`). `fd` is the
proxy's end of each connection, `peer` the other end: it is open, has finished
(it says no more and still reads) or is gone. Chunks are counted: `said`, `read`,
`written`, `drained` in each direction, and `lost`, what the client said before
it was answered and `hijack` dropped with the buffered reader. `copier` is the
two goroutines of `bridge`; a copy that has read a chunk and cannot write it is
blocked as long as the other side's buffer is full. For an intercepted
connection `conn` is the goroutine of `net/http` that owns it and `handler` its
requests, one at a time with HTTP/1, all at once with HTTP/2; `signal` counts
how often the channel of `closeSignalConn` was closed. `Proxy.Close` reaches a
connection only before it is hijacked (`ProxyClose`).

### StreamReassembly

The provider says a message item by item and delta by delta (external code,
modelled from the event names the parsers know); each action is a line of the
stream together with what the parser's loop does to its maps. Because a parser
is one loop over the lines, the state after a prefix is the state the parser
would end with if the stream were cut there, so an invariant speaks of streams
cut anywhere. `AnthropicContent`, `ChatContent` and `ResponsesContent` are what
each parser does after the loop, `DocumentContent` what the parser of documents
makes of the same message. The text of a delta is its number.

### Runner

`runner` is where `Run` is, `watched` the process it waits for, `slot` the
channel for signals. For an application `Locate` is `pgrep`, which may see
another instance before the launched one appears, or nothing for five seconds
(`LocateTimesOut`). `Interrupt` is a signal that is heard, `InterruptUnheard` one
before `signal.Notify`, which ends `aig`. `Session` by itself lets `Run` return at
any time, whatever the agent does. The two together are too large for TLC; they
are composed in `SessionProofs`, as the conjunction of their specifications with
`ReturnsOfRun` (`cmdRun` goes on when `Run` has returned), and
`StoreOutlivesAgent` is proved of the whole.

## 3. Runs, bounds and what they show

| run | instance | shows |
|---|---|---|
| `store` | 3 captures, 2 closers, 1 flusher, channel of 2, 1 restart | no capture vanishes, rows in order, `Close` flushes and returns, how much `Flush` may miss; the inductive invariant; and that the store implements `CaptureLog` with its fairness |
| `handler` | 1 request, 10 shapes of request, 6 answers | refusals stay home, everything sent is captured, the copy given to the store covers the delivery, findings survive |
| `session` | 2 requests, channel of 1, 2 shapes, 2 answers | a row tells the truth under the teardown of `cmdRun`; it ends, and what was sent reaches the table while the session lasts |
| `conversation` | 2 APIs, 6 items, texts with no match, a recorded and a blocking one | what leaves was scanned, what was refused does not leave |
| `rules` | 1 editor with 2 edits, 2 starts, 5 first files | the file and the sessions hold what was acknowledged, also with starts that read during an edit |
| `api` | 1 stream, 1 reader, 6 rows, pages of 2, maximum 3, a server that may stop or fail at any time | exact streams, exact pages, nothing missed, new captures arrive, the shutdown ends |
| `ca` | 3 runs, 2 connections each, 1 host, all 4 pairs of first files | one authority, trusted by the child, whose key matches; nobody served by a pair that does not; one leaf per host |
| `connection` | 1 connection of either kind, 2 chunks each way, a receive buffer of 1, 2 requests | the close signal once, truthful counters, the last word delivered, `Serve` outlasts its connection, and `handleConnect` returns |
| `stream` | the 3 APIs, 3 items, 4 deltas | a stream cut anywhere loses nothing said, a finished one reads as the document |
| `runner` | everything there is (no bound) | `Run` outlives the agent, a signal that was heard ends it in order |
| `store_append`, `conversation_parallel` | the smallest instance that shows it | a sentence of the repository the code does not keep, see section 6 |

Why these bounds. `store`: with three captures and a channel of two the channel
can be full while drain holds one and a third is turned away; two closers make
the loser of the compare-and-swap; one restart lets a second process append to
the table of the first. Both captures and closers are otherwise alike.
`handler`: requests share nothing but the store, so one is enough here and
`session` has two; the shapes are the combinations that take different branches
(latest message clean, matching, matching in a skipped block; no user message;
no JSON; unknown endpoint; unreadable; URL that cannot be built), the answers
include every format, an empty one and tool calls left open and finished.
`session`: with a channel of one, two requests suffice to drop one. One shape
matches a blocking rule and is too long to be stored whole; the answers are a
403 of upstream itself, an event stream whose second chunk is cut off and which
can match a rule that blocks answers, and a compressed one that is too long only
when it is decompressed. Deeper interleavings of `Append` and `Close` are those
of `store`. `conversation`: six
items are a system prompt and two full turns with an answer each and one to
spare, which allows a refusal followed by a retry, by another message, or by a
turn taken back. `rules`: one editor against two starts has every pair of
overlapping actors but two edits (which lose one another's changes and are
outside what the properties claim: two editors make seven times the states, and
`mixed` is set as soon as they meet); two edits let a rule be deleted after its
action was changed, or the last rule be deleted. `api`: six rows are three pages
for the stream, and both stream and reader see rows inserted in the middle of
one. `ca`: three runs allow one to fail, one to repair and one to load what
the second left. `connection`: with two chunks and a buffer of one a copy can be
blocked on a chunk in hand while its source finishes, which is the case that
needs both connections closed; two requests are needed for HTTP/2 to have one
running when the connection closes. `stream`: three items put a skipped one
between two others, four deltas let two items interleave and one of them have
two deltas in two parts. Where a bound cuts something off (`MaxEdits`, `MaxItems`,
`MaxRows`, `MaxRestarts`, `MaxChunks`, `MaxDeltas`), it is a constant in a guard
of the environment; the proofs are for all its values.

Deadlock is not checked: all these systems stop, when every request is
answered, the process has ended, or an edit's client has gone home.

## 4. Fairness

Weak fairness everywhere, and only where the code is scheduled by something
that does not stop:

- A goroutine that can run is run by the Go scheduler: the drain goroutine, the
  rest of an `Append` or a `Close` once begun, the steps of `cmdRun`'s teardown,
  the handler. An insert ends, well or badly, within its five seconds
  (`store.go:297`).
- A handler waits only for the client and for upstream. The transport has dial
  and TLS timeouts, and otherwise either side answers or breaks off; that it
  does in the end is an assumption about the network.
- The ticker of a stream goes on and its query does not fail for ever while the
  database is open. A client may leave at any time. The deadline of `Shutdown`
  passes (`serve.go:88`).
- The dial of a tunnel ends within its timeout and the copies and closes of
  `bridge` go on. A peer that is there reads what it was sent: without that a
  tunnel whose other side does nothing could never hand over the last chunk, and
  the code has no timeout for it. `net/http` notices that a client stopped, and
  a request whose context it cancels returns. No client is obliged to stop, so
  `ConnectionEnds` says nothing of an idle connection; neither does the code.
- `Run` goes on, and its `select` does not choose signals for ever. A process
  that was signalled exits; an agent nobody signals may run for ever.
- Nobody is obliged to call `Append`, `Close` or `Flush`, to end the agent, to
  edit a rule or to insert a row, and a `Flush` may only time out.

`RequestHandler`, `RulesFile`, `Conversation`, `CertAuthority` and
`StreamReassembly` claim no liveness and have no fairness.

## 5. Proofs

TLAPS proves the following for all values of the constants (sets of any size,
any bounds), from the named assumptions on the constants, which TLC evaluates in
every run. None of them is a hypothesis about behaviour except where noted.

**The store.** `StoreInv` is the inductive invariant. The safety properties
alone are not inductive: that rows are in order needs to know that what drain
holds comes after them and the channel after that. With
`Taken == accepted - Len(ch)`, the channel holds exactly the positions
`Taken + 1 ...`, drain's capture has position `Taken`, whatever is settled came
before (`Positions`); `OneCloser` says that of all callers at most one is past
the compare-and-swap and how far the channel and the database have come with
it; `ControlPoints` ties the pc of drain to both. From it follow `TypeCorrect`,
`NothingEverVanishes`, `RowsAlwaysInOrder`, `CloseCorrect` and `FlushCorrect`.
`CaptureStoreProofs` also proves the safety part of the refinement
(`StoreImplementsLog`): under `StoreInv` every step is a step of `CaptureLog`
or leaves its variables alone.

**The handler.** `HandlerInv` says, per location, which reply was given, that
an answer is there exactly from `stream` on, that copied and delivered differ by
at most the chunk in hand, that the findings contain the outbound ones from the
scan on and the inbound ones from `inspect` on, and no outbound one that the
scan of the request did not give, and what the capture is.
`BlockedIsRefused`, `SentAlwaysCaptured`, `DeliveryCovered` and
`FindingsSurvive` follow, the last one with a lemma that more chunks of an
event stream never mean fewer findings.

**A session.** `Session` shares its variables with `RequestHandler` and with its
instance of `CaptureStore`, and each of its steps is a step of the one, of the
other, of both (`CallAppend`), or of neither. So it refines both
(`SessionRunsHandlers`, `SessionRunsStore`), all their theorems hold under the
teardown of `cmdRun`, and the store of a session is a `CaptureLog`
(`SessionKeepsTheLog`, the two refinements put together). What no part knows is
how the pcs of different goroutines relate, and that is the rest of
`SessionInv`: `OneGoroutine` (an `Append` was called exactly by the handlers that
are done), `CloserAt` (only the teardown closes), `EarlyAreThrough` (once closing,
who is not `late` is in the channel or was turned away by a full one) and `LossAt`
(only a kill loses what is in memory). `OrderlyEndAlwaysAccounts` needs all four
with `StoreInv`; `RowsAlwaysTellTheTruth` needs `HandlerInv` at `done`,
`OneGoroutine` and `NothingVanishes` (only what was appended is on disk). It
tells a refused request by the blocking finding of the outbound scan, because
neither the status nor the decision does (section 6), and claims the delivered
text only of rows that are not marked as truncated. They hold for any number of requests and any buffer that holds
at least one capture, which is where the run has two requests and a buffer of one.

**The runner.** `RunnerInv` adds to `RunOutlivesAgent` which process `Run` watches
at each place (`BinaryAt`, `WatchedAt`). `StoreOutlivesAgent` is the claim that
needs the session too: while the agent lives the store is open and no request
is late. Its invariant says that `main` has left `running` in order only if `Run`
returned, and `Run` stays returned.

**A conversation.** Under `OneAtATime` (Anthropic, or one tool call at a time) of
all items the agent has at most the last is not settled, and only while a
request is on its way or was just refused (`OnlyTheLastIsOpen`,
`KeptIsSettled`). Retries get the same verdict, since the text is the same
(`VerdictsStand`). `HistoryWasEvaluated` and `RefusedStaysOnMachine` follow.
`OneAtATime` is the theorems' hypothesis; the run `conversation_parallel`
shows that they fail without it.

**The rules file.** `RulesFileInv`: as long as no edit overlapped with another
or with a seeding, an editor at the file is the only one to write, beside
sessions that read, so what it is about to write is the next book, and while it
has the file truncated there is nothing to read; sessions that seed at once all
write the same rules over an empty book. `EditsAlwaysStand`
and the action property `SessionsRunTheBook` follow. That edits did not overlap
and that no write failed is in the properties, not assumed.

**Streams and pages.** `CaptureApiInv` adds to the exactness of each stream
and of each reader where the page in hand fits in, and that a reader's first
row is not below the origin of a stream it heard; `NothingIsMissed` is the
arithmetic from there. It holds for every page size and limit.
`ServeImplementsApi` carries all of it over to the process with its shutdown:
`ServeSpec` implements `CaptureApiSpec`.

**The authority.** `CertInv`: as long as no generation raced, whoever generates
is alone in `LoadOrGenerate`, what a run has read or written so far is what the
files hold, a file that was begun and not finished turns every later run away,
and once a run has an authority nobody replaces it. `RunsShareTheCA`,
`ChildrenTrustTheirCA`, `PairsMatch` follow. `HostsHaveOneLeaf` and the second
half of `PairsMatch` (who is served is served by a pair that matches) rest on
`LeavesAreCached` and `MintedByAPair`, which hold in races too.

**A connection.** `ConnectionInv`: `ChunksInv` balances what a copy has read,
holds and has written; `BridgeInv` keeps, from the moment a copy ended until the
end, the reason why (`EndedFor`): a peer is gone, or the source finished and all it
said is written. That reason is what makes `LastWordAlwaysDelivered` provable:
when one side finished and the other is there, no other reason is left.
`ServeInv` ties the count of the close signal to the state of the connection's
goroutine, so the signal is given once however often the connection is closed;
`ServeAlwaysOutlasts` and `LogAlwaysTrue` follow.

**Streams put together.** `StreamInv` says per provider what the maps of its
parser hold: `AnthropicHolds` (exactly the blocks of a known kind, each with what
was said of it), `ChatHolds` (one builder for the text, one for each call) and
`ResponsesHolds` (every item in the order it was added; a builder only from its
first delta on; the final object exactly once the message is completed). It
speaks of maps and is inductive; the properties speak of contents, and those are
flattened sequences. `FlattenSeq` is a recursion, and what it does for every
argument is proved as the absence of a least counterexample (`WFMin`): `FlattenSeq`
of `s \o <<x>>`, of sequences with empty members, of sequences that agree member by
member. On these rest `Blocks` (the blocks of a map in the order of its keys) and
`Sorted` (the order of the keys of the calls), and on both the two theorems
`AllSaidIsKept` and `StreamAlwaysReadsAsDocument`. They hold for any number of
items, parts and deltas and any interleaving of the deltas of open items; the run
has three items and four deltas.

**Only model-checked.** Liveness (`CloseReturns`, `TeardownEnds`,
`SentReachesTable`, `NewCapturesArrive`, `ShutdownEnds`, `ConnectionEnds`,
`InterruptEndsRun`) and the fairness part of `ImplementsLog`, which are out of
this prover's reach. Every invariant and every action property of the passing
runs is stated by a theorem. `SessionInv`, `RunnerInv` and `StreamInv` are proved
and are listed by no run, which check the properties that follow from them.

## 6. Where the code and its comments disagree

A run exhibits each of these two; PROJECT.json quotes the lines.

- `store_append`: `Append` is not safe against `Close` (`store.go:119`): the
  flag is checked first and the channel used later, and a send on a closed
  channel panics inside a `select` too. `net/http` recovers it, so the capture
  is what is lost.
- `conversation_parallel`: of several tool results in a turn only the last is
  ever scanned with the OpenAI parsers (`proxy.go:303`).

The models contain more of the kind, which the properties leave out or hedge
rather than have a run each:

- A reassembled response with unfinished or empty tool arguments does not
  marshal and is stored without an inbound scan (`proxy.go:385`, against
  `proxy.go:60`); `CaptureHasFindings` says which answers are scanned, and the
  arguments that are left empty are those `StreamReadsAsDocument` excepts.
- A start that reads the rules file during an edit finds it truncated and seeds
  over the rules (`cmd/aig/scanner.go:37`); hence `~mixed`. One that gets there
  a little later runs with no rules (the second alternative of
  `SessionRunsTheBook`).
- Overlapping first runs have different authorities (`ca.go:32`); hence `raced`
  in `SameCA`. A run that loads the certificate of one and the key of the other
  can sign no leaf: the second half of `PairMatches`.
- A client that speaks before it is answered loses those bytes, since `hijack`
  drops the reader that holds them (`proxy.go:184`); an intercepted connection
  then fails its handshake. `Swallowed` in `LastWordIsDelivered`.
- When an application has another instance open, `pgrep` may name that one, and
  the session ends with the wrong process, or not at all
  (`runner.go:162`); hence the exception in `RunOutlivesAgent`.
- The chunks of several choices of an OpenAI stream would be mixed
  (`openai.go:286`); the agents ask for one choice.
- `Flush` returns while drain still holds a capture (`store.go:279`, which looks
  at the channel only, against `store.go:269`). `FlushLeavesAtMostOne` says what
  does hold.
- Inbound findings join the outbound ones, so an exchange that was delivered is
  stored as "blocked" when a blocking rule matches the answer (`proxy.go:386`
  against `scanner.go:40`). The status does not tell it from a refused one
  either, since upstream's own 403 is stored as it came (`proxy.go:391`);
  `RowsTellTheTruth` says what does.
- When a user message is parsed only what the parser keeps is scanned, while
  `walk.go:10` speaks of all strings of the body (`proxy.go:315`); this is
  the field `skipped` of a message.
- A refused message that the agent keeps in its history leaves with the next
  turn, since only the latest message is scanned (`proxy.go:310`); hence
  `~resumed` in `RefusedNeverSent`.
- Deleting the last rule brings the starter rules back at the next start
  (`cmd/aig/scanner.go:50`); `book` follows the code here.
- Of two overlapping edits the later write brings back what the earlier one
  deleted (`load.go:189`); hence `~mixed`. A write that fails after the
  truncation leaves a part of the rules, or none, and nothing restores them
  (`load.go:136`); hence `~lost`.
- Of two first runs one may find the rules file truncated and run with no rules
  (`cmd/aig/scanner.go:40`); hence the second alternative of
  `SessionRunsTheBook`.
- When `LastID` fails a stream sends the whole history as new
  (`server.go:213`); hence the origin 0 in `StreamIsExact`.
- A certificate and a key that do not belong together are loaded without
  complaint (`ca.go:50`), and then no leaf can be signed. A run leaves such a
  pair when it stops between the two files and an older key is there; hence
  `~cutOff` in `PairMatches`. A key file that was truncated and never written makes every
  later run fail until it is removed.

## 7. What is not modelled

- The data: headers, URLs, timings, the other columns of a row, redaction, regular expressions, finding offsets. The properties tell texts
  apart only by the rules that match.
- Statuses of upstream other than a success and a 403; `WriteHeader` panics on
  one outside 100 to 999, after the request was sent and before it is captured
  (`proxy.go:370`).
- Power loss. The database runs with `synchronous=NORMAL`, so a power cut may
  take the last rows; `Exit` is the end of the process, not of the machine.
- Several processes in one database beyond an insert that fails.
- A rules file edited by hand while the program uses it, and an agent that
  rewrites messages of its history.
- Keys, serial numbers and dates of certificates: an authority that has expired
  is loaded like any other.
- The keychain commands, path names, formatting and logging: calls and output
  without state of their own. The built-in rules are a table used by tests.
- The parsers of requests beyond endpoints and roles, the lengths of lines in a
  stream, chunks of several choices, and events out of the order their provider
  sends them in.
- The timing of polls (`waitForPIDExit`, the ticker of a stream) and a process
  id that is used again.
- The schema migration, see the plan.

## 8. Plan

1. `SchemaMigration` (`store.go` 325-360): two processes that open an old
   database at once; the second `ALTER TABLE` fails and with it the start.
2. The start of `cmdRun` (paths, authority, rules, store, proxy, environment of
   the child) as one sequence over `CertAuthority` and `RulesFile`, which model
   its two hard steps.

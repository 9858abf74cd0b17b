------------------------------- MODULE Session ------------------------------
(***************************************************************************)
(* One "aig run" (cmd/aig/run.go, cmdRun): the handlers of the proxy, the  *)
(* capture store they append to, and the main goroutine, which runs the    *)
(* agent, and when the agent has exited closes the store and ends the      *)
(* process. cmdRun neither closes the proxy nor waits for its handlers, so *)
(* a handler may be anywhere while the store closes; os.Exit ends it.      *)
(*                                                                         *)
(* A request is also its capture. The goroutine of the request takes the   *)
(* steps of RequestHandler, the last of which calls Store.Append, and then *)
(* the steps of Append in CaptureStore.                                    *)
(***************************************************************************)
EXTENDS RequestHandler

CONSTANTS
  Main,        \* the main goroutine
  BufferSize,  \* capacity of the store's channel
  NoRequest    \* the drain goroutine holds nothing

ASSUME BufferSizeAssumption == BufferSize \in Nat \ {0}
ASSUME NoRequestAssumption == NoRequest \notin Requests

VARIABLES
  main,   \* where cmdRun is
  late,   \* history: the requests still before or in Append when Close began
  \* the variables of CaptureStore:
  up, restarts, closed, chClosed, ch, drain, hand, dbOpen, rows, app, closer,
  flush, accepted, seqno, upto, failed, lost

Store == INSTANCE CaptureStore WITH
           Captures <- Requests, Closers <- {Main}, Flushers <- {},
           MaxRestarts <- 0, NoCapture <- NoRequest

storeVars == <<up, restarts, closed, chClosed, ch, drain, hand, dbOpen, rows, app,
               closer, flush, accepted, seqno, upto, failed, lost>>
sessionVars == <<handlerVars, storeVars, main, late>>

MainStates == {"running", "teardown", "exited", "killed"}

SessionTypeOK ==
  /\ HandlerTypeOK
  /\ Store!TypeOK
  /\ main \in MainStates
  /\ late \subseteq Requests

SessionInit ==
  /\ HandlerInit
  /\ Store!Init
  /\ main = "running"
  /\ late = {}

-----------------------------------------------------------------------------
(* Plausible mistakes; no specification uses them.                         *)

\* os.Exit without waiting for Close.
OsExitEarly ==
  /\ main = "teardown"
  /\ closer[Main] # "idle"
  /\ main' = "exited"
  /\ Store!Exit
  /\ UNCHANGED <<handlerVars, late>>

\* Close that never closes the channel.
FinishCloseStuck ==
  /\ main = "teardown"
  /\ Store!CloseDatabase(Main)
  /\ UNCHANGED <<handlerVars, main, late>>

\* A response that was cut is not marked.
CutUnmarked(q) == ~shape[q].fits

-----------------------------------------------------------------------------
(* The handlers                                                            *)

\* Everything before the capture, in any order between the goroutines.
Handle(q) ==
  /\ up
  /\ BeforeAppend(q)
  /\ UNCHANGED <<storeVars, main, late>>

\* appendCapture calls Append, which first looks at the closed flag.
CallAppend(q) ==
  /\ AppendCapture(q)
  /\ Store!AppendCheck(q)
  /\ UNCHANGED <<main, late>>

(* truncate, in Append before the capture is sent: what is above           *)
(* MaxBodyBytes is cut off either body, and the row is marked. decompress  *)
(* succeeds only for all of a gzipped body.                                *)
Room(a, n) == IF a.format = "gzip" /\ n = Len(a.chunks) THEN a.unpacked ELSE a.fits

ResponseCut(q) ==
  answer[q] # NoAnswer /\ captured[q].body > Room(answer[q], captured[q].body)

RowBody(q) ==
  IF ResponseCut(q) THEN Room(answer[q], captured[q].body) ELSE captured[q].body

Cut(q) == ~shape[q].fits \/ ResponseCut(q)

\* The rest of Append, in the same goroutine.
FinishAppend(q) ==
  /\ Store!AppendSend(q) \/ Store!AppendDrop(q) \/ Store!AppendPanic(q)
  /\ UNCHANGED <<handlerVars, main, late>>

Drain == Store!DrainStep /\ UNCHANGED <<handlerVars, main, late>>

-----------------------------------------------------------------------------
(* The main goroutine                                                      *)

\* runner.Run returns (module Runner): with the exit code, or an error.
RunReturns ==
  /\ up /\ main = "running"
  /\ main' = "teardown"
  /\ UNCHANGED <<handlerVars, storeVars, late>>

\* The deferred calls: cancel and ln.Close touch no handler that has its
\* connection, captures.Close flushes.
BeginClose ==
  /\ main = "teardown"
  /\ Store!CloseBegin(Main)
  /\ late' = {q \in Requests : app[q] \in {"idle", "checked"}}
  /\ UNCHANGED <<handlerVars, main>>

FinishClose ==
  /\ main = "teardown"
  /\ Store!CloseChannel(Main) \/ Store!CloseDatabase(Main)
  /\ UNCHANGED <<handlerVars, main, late>>

\* os.Exit, once Close has returned; every other goroutine stops.
OsExit ==
  /\ main = "teardown"
  /\ closer[Main] = "returned"
  /\ main' = "exited"
  /\ Store!Exit
  /\ UNCHANGED <<handlerVars, late>>

\* A signal that nobody handles ends the process at any point.
Killed ==
  /\ main' = "killed"
  /\ Store!Exit
  /\ UNCHANGED <<handlerVars, late>>

-----------------------------------------------------------------------------

SessionNext ==
  \/ \E q \in Requests : Handle(q) \/ CallAppend(q) \/ FinishAppend(q)
  \/ Drain
  \/ RunReturns \/ BeginClose \/ FinishClose \/ OsExit
  \/ Killed

(* Every goroutine that can run runs, and the environment of a handler     *)
(* answers or breaks off; nothing obliges the agent to exit.               *)
SessionFairness ==
  /\ WF_sessionVars(Drain)
  /\ WF_sessionVars(BeginClose \/ FinishClose \/ OsExit)
  /\ \A q \in Requests : WF_sessionVars(Handle(q) \/ CallAppend(q) \/ FinishAppend(q))

SessionSpec == SessionInit /\ [][SessionNext]_sessionVars
FairSessionSpec == SessionSpec /\ SessionFairness

-----------------------------------------------------------------------------
(* Safety                                                                  *)

(* After an orderly end nothing the channel took is lost. A request whose  *)
(* row is missing although it was sent was turned away by a full buffer,   *)
(* failed in SQLite, or was not through with Append when the main          *)
(* goroutine began to close the store.                                     *)
OrderlyEndAccounts ==
  main = "exited" =>
    /\ lost = {}
    /\ \A q \in Requests : sent[q] /\ q \notin late =>
         Store!OnDisk(q) \/ q \in failed \/ app[q] = "dropped"

Outbound(c) == {f \in c.findings : f.direction = "outbound"}

(* A row exists only for an exchange whose handler is through with it, and *)
(* tells what became of it. The request stayed on the machine exactly when *)
(* the row has a blocking outbound finding; the status alone does not say  *)
(* so, for upstream may answer 403, nor does the decision, which a finding *)
(* in the answer makes "blocked" when all is delivered. A row without an   *)
(* answer has the status 0. A row that is not marked as truncated holds    *)
(* all of the request and all that the client received.                    *)
RowsTellTheTruth ==
  \A q \in Requests : Store!OnDisk(q) =>
    LET c == captured[q]
    IN  /\ c # NoCapture
        /\ ~sent[q] <=> HasBlockingRule(Outbound(c))
        /\ ~sent[q] => c.status = "403" /\ c.decision = "blocked"
        /\ sent[q] /\ c.decision = "blocked" => answer[q] # NoAnswer
        /\ c.status = "0" <=> sent[q] /\ answer[q] = NoAnswer
        /\ ~Cut(q) => shape[q].fits /\ RowBody(q) >= delivered[q]

-----------------------------------------------------------------------------
(* The inductive invariant behind them, next to HandlerInv and             *)
(* Store!StoreInv: what the pcs of the main goroutine, of Close and of the *)
(* two halves of a request say about one another.                          *)

(* Append was called exactly by the handlers that are done.                *)
OneGoroutine == \A q \in Requests : app[q] # "idle" <=> pc[q] = "done"

(* Only the teardown closes the store, and no handler can turn it away.    *)
CloserAt ==
  /\ up <=> main \in {"running", "teardown"}
  /\ main = "running" => ~closed
  /\ up /\ closed => closer[Main] \in {"won", "waiting", "returned"}
  /\ main = "exited" => closed

(* A request was late, or through with Append before the store was closing *)
(* and then either in the channel or turned away by a full one.            *)
EarlyAreThrough ==
  IF closed
  THEN \A q \in Requests : app[q] \in {"sent", "dropped"} \/ q \in late
  ELSE up => \A q \in Requests : app[q] \in {"idle", "checked", "sent", "dropped"}

(* Only the end of the process loses captures, and not an orderly one.     *)
LossAt ==
  /\ main # "killed" => lost = {}
  /\ main = "exited" => \A q \in Requests : seqno[q] > 0 => Store!Settled(q)

SessionInv ==
  /\ SessionTypeOK /\ HandlerInv /\ Store!StoreInv
  /\ OneGoroutine /\ CloserAt /\ EarlyAreThrough /\ LossAt

-----------------------------------------------------------------------------
(* Liveness                                                                *)

(* When the agent has exited the process ends, whatever the handlers and   *)
(* the database do.                                                        *)
TeardownEnds == main = "teardown" ~> main \in {"exited", "killed"}

(* While the session lasts, whatever was sent reaches the table, unless    *)
(* the buffer is full or SQLite fails.                                     *)
SentReachesTable ==
  \A q \in Requests :
    sent[q] ~> \/ Store!OnDisk(q) \/ q \in failed \/ app[q] = "dropped"
               \/ main # "running"
=============================================================================

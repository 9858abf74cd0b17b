------------------------------ MODULE ApiServer -----------------------------
(***************************************************************************)
(* "aig serve" (cmd/aig/serve.go, cmdServe): the process that answers the  *)
(* API of CaptureApi, until SIGINT or SIGTERM. http.Server.Shutdown closes *)
(* the listener and the idle connections and waits for those in use, five  *)
(* seconds at most; an event stream is in use until its client leaves, for *)
(* nothing ends it. Then the deferred Close closes the database, under     *)
(* whatever still runs, and the process ends. A second signal is held in   *)
(* sigCh and changes nothing.                                              *)
(*                                                                         *)
(* A step of CaptureApi is taken under the conditions the process adds, so *)
(* what holds of CaptureApi holds here.                                    *)
(***************************************************************************)
EXTENDS CaptureApi

VARIABLE proc  \* where the main goroutine is

serveVars == <<vars, proc>>

ServeInit == CaptureApiInit /\ proc = "serving"

To(from, next) == proc = from /\ proc' = next /\ UNCHANGED vars

-----------------------------------------------------------------------------
(* The requests                                                            *)

HasStore == proc \notin {"closed", "exited"}
Runs == proc # "exited"

(* Sessions are other processes: they write whatever this one does. A      *)
(* connection that was accepted before Shutdown may bring its request      *)
(* later. All queries fail once the database is closed.                    *)
Step ==
  /\ \/ Insert
     \/ \E c \in Streams :
          \/ HasStore /\ (Connect(c) \/ Tick(c))
          \/ Runs /\ (ConnectBlindly(c) \/ Send(c) \/ Disconnect(c))
     \/ HasStore /\ \E r \in Readers, limit \in AskedLimits : ReadPage(r, limit)
  /\ UNCHANGED proc

-----------------------------------------------------------------------------
(* The main goroutine                                                      *)

Signal == To("serving", "stopping")

\* httpSrv.Serve failed: no Shutdown.
ServeFails == To("serving", "closing")

InUse == \E c \in Streams : conn[c] \in Open

\* Shutdown returns when no connection is in use, or when its context ends.
ShutdownCompletes == ~InUse /\ To("stopping", "closing")
DeadlinePasses_Never == ~InUse /\ To("stopping", "closing")
DeadlinePasses == To("stopping", "closing")

CloseStore == To("closing", "closed")
Exit == To("closed", "exited")

Stop == ShutdownCompletes \/ DeadlinePasses \/ CloseStore \/ Exit

ServeNext == Step \/ Signal \/ ServeFails \/ Stop

ServeSpec == ServeInit /\ [][ServeNext]_serveVars

(* Ticks keep coming and their queries do not fail for ever; the main      *)
(* goroutine goes on, and the deadline of Shutdown passes.                 *)
FairServeSpec ==
  /\ ServeSpec
  /\ \A c \in Streams :
       /\ WF_serveVars(HasStore /\ Tick(c) /\ UNCHANGED proc)
       /\ WF_serveVars(Runs /\ Send(c) /\ UNCHANGED proc)
  /\ WF_serveVars(Stop)

-----------------------------------------------------------------------------
(* Properties                                                              *)

(* While the client stays and the process serves, every capture recorded   *)
(* after the client connected reaches it over its stream.                  *)
NewCapturesArrive ==
  \A c \in Streams, n \in 1..MaxRows :
    (conn[c] \in Open /\ start[c] < n /\ n <= rows)
      ~> (conn[c] = "gone" \/ n \in Range(sent[c]) \/ proc # "serving")

(* Once it is told to stop, the process ends, although the streams of      *)
(* clients that stay never do.                                             *)
ShutdownEnds == proc = "stopping" ~> proc = "exited"
=============================================================================

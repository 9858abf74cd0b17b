-------------------------- MODULE ProxyConnection --------------------------
(***************************************************************************)
(* internal/proxy/proxy.go, handleConnect: one CONNECT of the agent, from  *)
(* the request to the line "connect" in the log. Without a minter          *)
(* (passthrough) upstream is dialled first and bridge copies bytes both    *)
(* ways until one copy ends. With a minter (mitm) an http.Server serves    *)
(* the connection as the only one of a one-shot listener, whose second     *)
(* Accept waits until the connection is closed, so that Serve lasts as     *)
(* long as the connection.                                                 *)
(*                                                                         *)
(* The client (the agent) and the upstream server are the environment:     *)
(* they speak, finish (a half-close: they say no more and still read) and  *)
(* leave (a close or a reset: nothing can be read from or written to them  *)
(* any more). A chunk stands for the bytes of one read of io.Copy.         *)
(***************************************************************************)
EXTENDS Naturals

CONSTANTS
  Handlers,   \* the requests made over one intercepted connection
  MaxChunks,  \* bound: chunks a peer says
  Window      \* chunks a peer's receive buffer holds

ASSUME BoundsAssumption == MaxChunks \in Nat /\ Window \in Nat \ {0}

Sides == {"client", "upstream"}
Directions == {"up", "down"}
From(d) == IF d = "up" THEN "client" ELSE "upstream"
To(d)   == IF d = "up" THEN "upstream" ELSE "client"

VARIABLES
  mint,     \* opts.Mint is set: the connection is intercepted
  at,       \* where the goroutine of handleConnect is
  fd,       \* the proxy's end of each connection
  peer,     \* the other end of each connection
  said,     \* chunks said in each direction
  read,     \* chunks read in each direction, the swallowed ones included
  lost,     \* chunks of the client that went into the buffer Hijack returns
  written,  \* chunks written in each direction
  drained,  \* chunks the receiving peer took from its buffer
  copier,   \* the two goroutines of bridge
  counted,  \* the counters aToB and bToA, added when a copy ends
  logged,   \* the counters in the line "connect"
  signal,   \* how often the channel of closeSignalConn was closed
  conn,     \* the goroutine of the connection in the embedded http.Server
  proto,    \* the protocol the handshake negotiated
  handler   \* the requests of the connection

tunnelVars == <<said, read, written, drained, copier, counted>>
mitmVars   == <<signal, conn, proto, handler>>
vars == <<mint, at, fd, peer, lost, logged, tunnelVars, mitmVars>>

None == [d \in Directions |-> 0]

Init ==
  /\ mint \in BOOLEAN
  /\ at = IF mint THEN "hijack" ELSE "dial"
  /\ fd = [s \in Sides |-> IF s = "client" THEN "open" ELSE "none"]
  /\ peer = [s \in Sides |-> "open"]
  /\ said = None /\ read = None /\ lost = 0 /\ written = None /\ drained = None
  /\ copier = [d \in Directions |-> "off"]
  /\ counted = None /\ logged = None
  /\ signal = 0 /\ conn = "off" /\ proto = "none"
  /\ handler = [h \in Handlers |-> "idle"]

Goto(from, to) == at = from /\ at' = to
Close(s) == fd' = [fd EXCEPT ![s] = "closed"]

-----------------------------------------------------------------------------
(* The peers                                                               *)

(* The client may speak before it is answered: nothing stops it.           *)
Say(d) ==
  /\ fd[From(d)] # "none" /\ peer[From(d)] = "open"
  /\ d = "up" \/ ~mint
  /\ said[d] < MaxChunks
  /\ said' = [said EXCEPT ![d] = @ + 1]
  /\ UNCHANGED <<mint, at, fd, peer, lost, logged, read, written, drained,
                 copier, counted, mitmVars>>

Finish(s) ==
  /\ fd[s] # "none" /\ peer[s] = "open"
  /\ peer' = [peer EXCEPT ![s] = "finished"]
  /\ UNCHANGED <<mint, at, fd, lost, logged, tunnelVars, mitmVars>>

Leave(s) ==
  /\ fd[s] # "none" /\ peer[s] # "gone"
  /\ peer' = [peer EXCEPT ![s] = "gone"]
  /\ UNCHANGED <<mint, at, fd, lost, logged, tunnelVars, mitmVars>>

Drain(d) ==
  /\ peer[To(d)] # "gone" /\ drained[d] < written[d]
  /\ drained' = [drained EXCEPT ![d] = @ + 1]
  /\ UNCHANGED <<mint, at, fd, peer, lost, logged, said, read, written,
                 copier, counted, mitmVars>>

-----------------------------------------------------------------------------
(* handleConnect                                                           *)

(* A dial that fails is answered 502: the connection stays the server's.   *)
Dial ==
  /\ \/ /\ Goto("dial", "hijack")
        /\ fd' = [fd EXCEPT !["upstream"] = "open"]
     \/ Goto("dial", "done") /\ UNCHANGED fd
  /\ UNCHANGED <<mint, peer, lost, logged, tunnelVars, mitmVars>>

(* hijack drops the buffered reader the server hands back, and with it     *)
(* what the server had read beyond the CONNECT. The listener speaks        *)
(* HTTP/1, so the connection can always be hijacked.                       *)
Hijack ==
  /\ Goto("hijack", "answer")
  /\ lost' \in 0..said["up"]
  /\ read' = [read EXCEPT !["up"] = lost']
  /\ UNCHANGED <<mint, fd, peer, logged, said, written, drained, copier,
                 counted, mitmVars>>

(* write200: on success the tunnel or the embedded server starts.          *)
Answer ==
  /\ \/ /\ fd["client"] = "open"
        /\ \/ /\ ~mint /\ Goto("answer", "bridge")
              /\ copier' = [d \in Directions |-> "read"]
              /\ UNCHANGED conn
           \/ /\ mint /\ Goto("answer", "serve")
              /\ conn' = "handshake"
              /\ UNCHANGED copier
     \/ /\ fd["client"] # "open" \/ peer["client"] = "gone"
        /\ Goto("answer", "return")
        /\ UNCHANGED <<copier, conn>>
  /\ UNCHANGED <<mint, fd, peer, lost, logged, said, read, written, drained,
                 counted, signal, proto, handler>>

(* The receives from done in bridge.                                       *)
FirstCopyDone_NotAwaited == TRUE
FirstCopyDone == \E d \in Directions : copier[d] = "done"
BothCopiesDone_OneToken == \E d \in Directions : copier[d] = "done"
BothCopiesDone == \A d \in Directions : copier[d] = "done"

(* bridge that relies on the deferred close for upstream.                  *)
Bridge_LeavesUpstreamOpen ==
  /\ \/ FirstCopyDone /\ Goto("bridge", "cut") /\ Close("client")
     \/ Goto("cut", "join") /\ UNCHANGED fd
     \/ BothCopiesDone /\ Goto("join", "log") /\ UNCHANGED fd
  /\ UNCHANGED <<mint, peer, lost, logged, tunnelVars, mitmVars>>

Bridge ==
  /\ \/ /\ FirstCopyDone
        /\ Goto("bridge", "cut")
        /\ Close("client")
     \/ /\ Goto("cut", "join")
        /\ Close("upstream")
     \/ /\ BothCopiesDone
        /\ Goto("join", "log")
        /\ UNCHANGED fd
  /\ UNCHANGED <<mint, peer, lost, logged, tunnelVars, mitmVars>>

(* close(done) under sync.Once.                                            *)
Signalled_WithoutOnce(n) == n + 1
Signalled(n) == IF n = 0 THEN 1 ELSE n

(* closeSignalConn.Close, called by the tls connection or by net/http.     *)
CloseSignalConn == signal' = Signalled(signal) /\ Close("client")

(* blockingOneShotListener.Accept after the first: io.EOF once the channel *)
(* is closed. Serve then returns and closes its listener, which closes the *)
(* tls connection: that may be another Close of the connection below.      *)
AcceptReturns_AtOnce == TRUE
AcceptReturns == signal > 0

ServeReturns ==
  /\ AcceptReturns
  /\ Goto("serve", "log")
  /\ CloseSignalConn \/ UNCHANGED <<fd, signal>>
  /\ UNCHANGED <<mint, peer, lost, logged, tunnelVars, conn, proto, handler>>

Log ==
  /\ Goto("log", "return")
  /\ logged' = counted
  /\ UNCHANGED <<mint, fd, peer, lost, tunnelVars, mitmVars>>

(* The deferred closes.                                                    *)
Return ==
  /\ Goto("return", "done")
  /\ fd' = [s \in Sides |-> IF fd[s] = "open" THEN "closed" ELSE fd[s]]
  /\ UNCHANGED <<mint, peer, lost, logged, tunnelVars, mitmVars>>

(* Proxy.Close closes the connections of the server: one that is hijacked  *)
(* is not its any more.                                                    *)
ProxyClose ==
  /\ at \in {"dial", "hijack"} /\ fd["client"] = "open"
  /\ Close("client")
  /\ UNCHANGED <<mint, at, peer, lost, logged, tunnelVars, mitmVars>>

-----------------------------------------------------------------------------
(* bridge: io.Copy in direction d                                          *)

CopyRead(d) ==
  /\ copier[d] = "read"
  /\ fd[From(d)] = "open" /\ read[d] < said[d]
  /\ read' = [read EXCEPT ![d] = @ + 1]
  /\ copier' = [copier EXCEPT ![d] = "write"]
  /\ UNCHANGED <<mint, at, fd, peer, lost, logged, said, written, drained,
                 counted, mitmVars>>

CopyWrite(d) ==
  /\ copier[d] = "write"
  /\ fd[To(d)] = "open" /\ written[d] - drained[d] < Window
  /\ written' = [written EXCEPT ![d] = @ + 1]
  /\ copier' = [copier EXCEPT ![d] = "read"]
  /\ UNCHANGED <<mint, at, fd, peer, lost, logged, said, read, drained,
                 counted, mitmVars>>

Ended(s) == fd[s] # "open" \/ peer[s] = "gone"

(* The end of the input, or an error on either end. The counter is added   *)
(* before the token is sent.                                               *)
CopyEnd(d) ==
  /\ \/ /\ copier[d] = "read"
        /\ Ended(From(d)) \/ (peer[From(d)] = "finished" /\ read[d] = said[d])
     \/ copier[d] = "write" /\ Ended(To(d))
  /\ counted' = [counted EXCEPT ![d] = written[d]]
  /\ copier' = [copier EXCEPT ![d] = "done"]
  /\ UNCHANGED <<mint, at, fd, peer, lost, logged, said, read, written,
                 drained, mitmVars>>

-----------------------------------------------------------------------------
(* mitm: the goroutine of the connection in the embedded http.Server       *)

(* A client that spoke before it was answered has lost its ClientHello.    *)
Handshake(p) ==
  /\ conn = "handshake" /\ fd["client"] = "open"
  /\ peer["client"] = "open" /\ lost = 0
  /\ conn' = "serving" /\ proto' = p
  /\ UNCHANGED <<mint, at, fd, peer, lost, logged, tunnelVars, signal, handler>>

(* The handshake fails when the client leaves, distrusts the certificate,  *)
(* does not speak TLS or the minter fails. There is no timeout.            *)
HandshakeFails ==
  /\ conn = "handshake"
  /\ conn' = "closed" /\ CloseSignalConn
  /\ UNCHANGED <<mint, at, peer, lost, logged, tunnelVars, proto, handler>>

(* A client that speaks HTTP instead: net/http answers it, closes the      *)
(* underlying connection, and then the tls connection closes it again.     *)
PlainHTTP ==
  /\ conn = "handshake"
  /\ conn' = "closing" /\ CloseSignalConn
  /\ UNCHANGED <<mint, at, peer, lost, logged, tunnelVars, proto, handler>>

CloseAgain ==
  /\ conn = "closing"
  /\ conn' = "closed" /\ CloseSignalConn
  /\ UNCHANGED <<mint, at, peer, lost, logged, tunnelVars, proto, handler>>

Running == {h \in Handlers : handler[h] = "running"}

(* HTTP/1 serves one request at a time, in the connection's goroutine;     *)
(* HTTP/2 starts a goroutine for each.                                     *)
StartHandler(h) ==
  /\ conn = "serving" /\ fd["client"] = "open" /\ handler[h] = "idle"
  /\ proto = "h1" => Running = {}
  /\ handler' = [handler EXCEPT ![h] = "running"]
  /\ UNCHANGED <<mint, at, fd, peer, lost, logged, tunnelVars, signal, conn, proto>>

(* When the client leaves, net/http cancels the contexts of its requests.  *)
HandlerReturns(h) ==
  /\ handler[h] = "running"
  /\ handler' = [handler EXCEPT ![h] = "done"]
  /\ UNCHANGED <<mint, at, fd, peer, lost, logged, tunnelVars, signal, conn, proto>>

(* The connection is closed when the client is done with it or after a     *)
(* request that says so. With HTTP/2 requests may still be handled.        *)
ConnCloses ==
  /\ conn = "serving"
  /\ proto = "h1" => Running = {}
  /\ conn' = "closed" /\ CloseSignalConn
  /\ UNCHANGED <<mint, at, peer, lost, logged, tunnelVars, proto, handler>>

-----------------------------------------------------------------------------
Outer == Dial \/ Hijack \/ Answer \/ Bridge \/ ServeReturns \/ Log \/ Return
Copy(d) == CopyRead(d) \/ CopyWrite(d) \/ CopyEnd(d)

Next ==
  \/ \E d \in Directions : Say(d) \/ Drain(d)
  \/ \E s \in Sides : Finish(s) \/ Leave(s)
  \/ Outer \/ ProxyClose
  \/ \E d \in Directions : Copy(d)
  \/ \E p \in {"h1", "h2"} : Handshake(p)
  \/ HandshakeFails \/ PlainHTTP \/ CloseAgain \/ ConnCloses
  \/ \E h \in Handlers : StartHandler(h) \/ HandlerReturns(h)

ConnectionSpec == Init /\ [][Next]_vars

(* The goroutines are scheduled and DialTimeout bounds the dial; a peer    *)
(* that has not left reads what it is sent; net/http notices that the      *)
(* client stopped, and a handler whose context is cancelled returns.       *)
ClientStopped == peer["client"] # "open"

FairConnectionSpec ==
  /\ ConnectionSpec
  /\ WF_vars(Outer)
  /\ \A d \in Directions : WF_vars(Copy(d)) /\ WF_vars(Drain(d))
  /\ WF_vars(CloseAgain)
  /\ WF_vars(ClientStopped /\ (HandshakeFails \/ ConnCloses))
  /\ \A h \in Handlers : WF_vars(ClientStopped /\ HandlerReturns(h))

-----------------------------------------------------------------------------
(* Properties                                                              *)

ConnectionTypeOK ==
  /\ mint \in BOOLEAN
  /\ at \in {"dial", "hijack", "answer", "bridge", "cut", "join", "serve",
             "log", "return", "done"}
  /\ fd \in [Sides -> {"none", "open", "closed"}]
  /\ peer \in [Sides -> {"open", "finished", "gone"}]
  /\ said \in [Directions -> Nat] /\ read \in [Directions -> Nat]
  /\ written \in [Directions -> Nat] /\ drained \in [Directions -> Nat]
  /\ counted \in [Directions -> Nat] /\ logged \in [Directions -> Nat]
  /\ lost \in Nat /\ signal \in Nat
  /\ copier \in [Directions -> {"off", "read", "write", "done"}]
  /\ conn \in {"off", "handshake", "serving", "closing", "closed"}
  /\ proto \in {"none", "h1", "h2"}
  /\ handler \in [Handlers -> {"idle", "running", "done"}]

(* The client's chunks that no copy ever reads.                            *)
Swallowed(d) == IF d = "up" THEN lost ELSE 0
Started == \A d \in Directions : copier[d] # "off"
AfterCut == at \in {"cut", "join", "log", "return", "done"}
AfterServe == at \in {"log", "return", "done"}

(* What bridge has done to the chunks: a copy holds the one it has read    *)
(* and not written, and drops it when the write fails.                     *)
ChunksInv ==
  \A d \in Directions :
    /\ drained[d] <= written[d] /\ written[d] <= drained[d] + Window
    /\ read[d] <= said[d] /\ said[d] <= MaxChunks
    /\ written[d] + Swallowed(d) <= read[d]
    /\ copier[d] \in {"off", "read"} => written[d] + Swallowed(d) = read[d]
    /\ copier[d] = "write" => written[d] + Swallowed(d) + 1 = read[d]
    /\ copier[d] = "off" => written[d] = 0
    /\ counted[d] = IF copier[d] = "done" THEN written[d] ELSE 0

(* Why a copy ended, as long as bridge has not closed anything: its source *)
(* or its destination left, or it has written all that was said.           *)
EndedFor(d) ==
  /\ copier[d] = "done"
  /\ \/ peer[From(d)] = "gone"
     \/ peer[To(d)] = "gone"
     \/ peer[From(d)] = "finished" /\ written[d] + Swallowed(d) = said[d]

BridgeInv ==
  /\ Started \/ \A d \in Directions : copier[d] = "off"
  /\ at \in {"dial", "hijack", "answer", "serve"} => ~Started
  /\ at \in {"dial", "hijack"} => lost = 0 /\ read["up"] = 0
  /\ at \in {"bridge", "cut", "join"} => Started /\ ~mint
  /\ at = "bridge" => /\ \A s \in Sides : fd[s] = "open"
                     /\ \A d \in Directions : copier[d] = "done" => EndedFor(d)
  /\ AfterCut /\ Started => \E d \in Directions : EndedFor(d)
  /\ at \in {"log", "return", "done"} /\ Started =>
       \A d \in Directions : copier[d] = "done"
  /\ at \in {"return", "done"} /\ Started => logged = counted
  /\ ~mint /\ at = "log" => Started
  /\ ~mint /\ at \in {"hijack", "answer"} => fd["upstream"] = "open"

ServeInv ==
  /\ mint => ~Started /\ fd["upstream"] = "none" /\ at # "dial"
  /\ at \in {"dial", "hijack", "answer", "bridge", "cut", "join"} => conn = "off"
  /\ at = "serve" => mint /\ conn # "off"
  /\ mint /\ at = "log" => conn # "off"
  /\ signal = IF conn \in {"closing", "closed"} THEN 1 ELSE 0
  /\ AfterServe /\ conn # "off" => conn \in {"closing", "closed"}
  /\ conn \in {"closing", "closed"} => fd["client"] = "closed"
  /\ conn = "serving" => proto \in {"h1", "h2"}
  /\ conn \in {"off", "handshake"} => Running = {} /\ proto = "none"
  /\ proto = "h1" /\ conn # "serving" => Running = {}
  /\ proto = "h1" => \A g, h \in Running : g = h

(* The inductive invariant, with the type invariant. Above all: the        *)
(* channel of closeSignalConn is closed once, when the connection is and   *)
(* not before, although the connection may be closed twice (close of a     *)
(* closed channel panics).                                                 *)
ConnectionInv == ConnectionTypeOK /\ ChunksInv /\ BridgeInv /\ ServeInv

(* When handleConnect logs a tunnel, both copies have ended and the        *)
(* counters are what was written to either side; nothing is written after. *)
LogIsTheTruth ==
  at \in {"return", "done"} /\ Started =>
    \A d \in Directions : copier[d] = "done" /\ logged[d] = written[d]

(* bridge cuts a connection only when a side ended it, and a side that     *)
(* finishes while the other stays is heard out: all it said is written,    *)
(* but for what it said before it was answered.                            *)
LastWordIsDelivered ==
  AfterCut /\ Started =>
    /\ \E s \in Sides : peer[s] # "open"
    /\ \A d \in Directions :
         peer[From(d)] = "finished" /\ peer[To(d)] = "open" =>
           written[d] + Swallowed(d) = said[d]

(* Serve on the one-shot listener outlasts the connection, whether the     *)
(* handshake succeeded or not: when it returns the connection is closed    *)
(* and, over HTTP/1, no request of it is being handled.                    *)
ServeOutlastsConnection ==
  AfterServe /\ conn # "off" =>
    /\ fd["client"] = "closed" /\ conn \in {"closing", "closed"}
    /\ proto = "h1" => Running = {}

(* handleConnect returns after either side stopped: the second copy of     *)
(* bridge does not wait for a peer that stays, and Serve ends with its     *)
(* connection.                                                             *)
ConnectionEnds ==
  \A s \in Sides : (peer[s] # "open" /\ fd[s] = "open") ~> at = "done"
=============================================================================

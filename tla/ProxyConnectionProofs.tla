----------------------- MODULE ProxyConnectionProofs -----------------------
(***************************************************************************)
(* Proofs about ProxyConnection, for any number of chunks, any receive     *)
(* buffer and any set of requests.                                         *)
(***************************************************************************)
EXTENDS ProxyConnection, TLAPS

LEMMA InitImpliesInv == Init => ConnectionInv
<1> SUFFICES ASSUME Init PROVE ConnectionInv
  OBVIOUS
<1> USE DEF Init, None, Directions, Sides
<1>1. ConnectionTypeOK
  BY DEF ConnectionTypeOK
<1>2. ChunksInv
  BY BoundsAssumption DEF ChunksInv, Swallowed
<1>3. BridgeInv
  BY DEF BridgeInv, Started, AfterCut
<1>4. ServeInv
  BY DEF ServeInv, Started, AfterServe, Running
<1> QED BY <1>1, <1>2, <1>3, <1>4 DEF ConnectionInv

(* Every step keeps the types.                                             *)
LEMMA TypePreserved ==
  ASSUME ConnectionTypeOK, [Next]_vars
  PROVE  ConnectionTypeOK'
<1> USE DEF ConnectionTypeOK, Directions, Sides, From, To, tunnelVars,
      mitmVars
<1>1. ASSUME NEW d \in Directions, Say(d) PROVE ConnectionTypeOK'
  BY <1>1 DEF Say
<1>2. ASSUME NEW d \in Directions, Drain(d) PROVE ConnectionTypeOK'
  BY <1>2 DEF Drain
<1>3. ASSUME NEW s \in Sides, Finish(s) PROVE ConnectionTypeOK'
  BY <1>3 DEF Finish
<1>4. ASSUME NEW s \in Sides, Leave(s) PROVE ConnectionTypeOK'
  BY <1>4 DEF Leave
<1>5. CASE Dial
  BY <1>5 DEF Dial, Goto
<1>6. CASE Hijack
  BY <1>6 DEF Hijack, Goto
<1>7. CASE Answer
  BY <1>7 DEF Answer, Goto
<1>8. CASE Bridge
  BY <1>8 DEF Bridge, Goto, Close, FirstCopyDone, BothCopiesDone
<1>9. CASE ServeReturns
  BY <1>9 DEF ServeReturns, Goto, AcceptReturns, CloseSignalConn, Signalled,
      Close
<1>10. CASE Log
  BY <1>10 DEF Log, Goto
<1>11. CASE Return
  BY <1>11 DEF Return, Goto
<1>12. CASE ProxyClose
  BY <1>12 DEF ProxyClose, Close
<1>13. ASSUME NEW d \in Directions, CopyRead(d) PROVE ConnectionTypeOK'
  BY <1>13 DEF CopyRead
<1>14. ASSUME NEW d \in Directions, CopyWrite(d) PROVE ConnectionTypeOK'
  BY <1>14 DEF CopyWrite
<1>15. ASSUME NEW d \in Directions, CopyEnd(d) PROVE ConnectionTypeOK'
  BY <1>15 DEF CopyEnd, Ended
<1>16. ASSUME NEW p \in {"h1", "h2"}, Handshake(p) PROVE ConnectionTypeOK'
  BY <1>16 DEF Handshake
<1>17. CASE HandshakeFails
  BY <1>17 DEF HandshakeFails, CloseSignalConn, Signalled, Close
<1>18. CASE PlainHTTP
  BY <1>18 DEF PlainHTTP, CloseSignalConn, Signalled, Close
<1>19. CASE CloseAgain
  BY <1>19 DEF CloseAgain, CloseSignalConn, Signalled, Close
<1>20. CASE ConnCloses
  BY <1>20 DEF ConnCloses, CloseSignalConn, Signalled, Close, Running
<1>21. ASSUME NEW h \in Handlers, StartHandler(h) PROVE ConnectionTypeOK'
  BY <1>21 DEF StartHandler, Running
<1>22. ASSUME NEW h \in Handlers, HandlerReturns(h) PROVE ConnectionTypeOK'
  BY <1>22 DEF HandlerReturns
<1>23. CASE UNCHANGED vars
  BY <1>23 DEF vars
<1> QED BY <1>1, <1>2, <1>3, <1>4, <1>5, <1>6, <1>7, <1>8, <1>9, <1>10,
      <1>11, <1>12, <1>13, <1>14, <1>15, <1>16, <1>17, <1>18, <1>19, <1>20,
      <1>21, <1>22, <1>23 DEF Next, Outer, Copy

(* What a copy has read, holds and has written. No copy runs while hijack  *)
(* loses chunks: that is in BridgeInv.                                     *)
LEMMA ChunksPreserved ==
  ASSUME ConnectionTypeOK, ChunksInv, BridgeInv, [Next]_vars
  PROVE  ChunksInv'
<1> USE DEF ConnectionTypeOK, ChunksInv, BridgeInv, Started, Swallowed,
      Directions, Sides, From, To, tunnelVars, mitmVars
<1>1. ASSUME NEW d \in Directions, Say(d) PROVE ChunksInv'
  BY <1>1, BoundsAssumption DEF Say
<1>2. ASSUME NEW d \in Directions, Drain(d) PROVE ChunksInv'
  BY <1>2, BoundsAssumption DEF Drain
<1>3. ASSUME NEW s \in Sides, Finish(s) PROVE ChunksInv'
  BY <1>3 DEF Finish
<1>4. ASSUME NEW s \in Sides, Leave(s) PROVE ChunksInv'
  BY <1>4 DEF Leave
<1>5. CASE Dial
  BY <1>5 DEF Dial, Goto
<1>6. CASE Hijack
  BY <1>6 DEF Hijack, Goto
<1>7. CASE Answer
  BY <1>7 DEF Answer, Goto
<1>8. CASE Bridge
  BY <1>8 DEF Bridge, Goto, Close, FirstCopyDone, BothCopiesDone
<1>9. CASE ServeReturns
  BY <1>9 DEF ServeReturns, Goto, AcceptReturns, CloseSignalConn, Signalled,
      Close
<1>10. CASE Log
  BY <1>10 DEF Log, Goto
<1>11. CASE Return
  BY <1>11 DEF Return, Goto
<1>12. CASE ProxyClose
  BY <1>12 DEF ProxyClose, Close
<1>13. ASSUME NEW d \in Directions, CopyRead(d) PROVE ChunksInv'
  BY <1>13 DEF CopyRead
<1>14. ASSUME NEW d \in Directions, CopyWrite(d) PROVE ChunksInv'
  BY <1>14, BoundsAssumption DEF CopyWrite
<1>15. ASSUME NEW d \in Directions, CopyEnd(d) PROVE ChunksInv'
  BY <1>15 DEF CopyEnd, Ended
<1>16. ASSUME NEW p \in {"h1", "h2"}, Handshake(p) PROVE ChunksInv'
  BY <1>16 DEF Handshake
<1>17. CASE HandshakeFails
  BY <1>17 DEF HandshakeFails, CloseSignalConn, Signalled, Close
<1>18. CASE PlainHTTP
  BY <1>18 DEF PlainHTTP, CloseSignalConn, Signalled, Close
<1>19. CASE CloseAgain
  BY <1>19 DEF CloseAgain, CloseSignalConn, Signalled, Close
<1>20. CASE ConnCloses
  BY <1>20 DEF ConnCloses, CloseSignalConn, Signalled, Close, Running
<1>21. ASSUME NEW h \in Handlers, StartHandler(h) PROVE ChunksInv'
  BY <1>21 DEF StartHandler, Running
<1>22. ASSUME NEW h \in Handlers, HandlerReturns(h) PROVE ChunksInv'
  BY <1>22 DEF HandlerReturns
<1>23. CASE UNCHANGED vars
  BY <1>23 DEF vars
<1> QED BY <1>1, <1>2, <1>3, <1>4, <1>5, <1>6, <1>7, <1>8, <1>9, <1>10,
      <1>11, <1>12, <1>13, <1>14, <1>15, <1>16, <1>17, <1>18, <1>19, <1>20,
      <1>21, <1>22, <1>23 DEF Next, Outer, Copy

(* The reason why a copy ended stays one: a peer that finished says no     *)
(* more, and one that left does not come back.                             *)
LEMMA BridgePreserved ==
  ASSUME ConnectionTypeOK, ChunksInv, BridgeInv, ServeInv, [Next]_vars
  PROVE  BridgeInv'
<1> USE DEF ConnectionTypeOK, ChunksInv, BridgeInv, ServeInv, EndedFor,
      Started, AfterCut, Swallowed, Directions, Sides, From, To, tunnelVars,
      mitmVars
<1>1. ASSUME NEW d \in Directions, Say(d) PROVE BridgeInv'
  BY <1>1 DEF Say
<1>2. ASSUME NEW d \in Directions, Drain(d) PROVE BridgeInv'
  BY <1>2 DEF Drain
<1>3. ASSUME NEW s \in Sides, Finish(s) PROVE BridgeInv'
  BY <1>3 DEF Finish
<1>4. ASSUME NEW s \in Sides, Leave(s) PROVE BridgeInv'
  BY <1>4 DEF Leave
<1>5. CASE Dial
  BY <1>5 DEF Dial, Goto
<1>6. CASE Hijack
  BY <1>6 DEF Hijack, Goto
<1>7. CASE Answer
  BY <1>7 DEF Answer, Goto
<1>8. CASE Bridge
  BY <1>8 DEF Bridge, Goto, Close, FirstCopyDone, BothCopiesDone
<1>9. CASE ServeReturns
  BY <1>9 DEF ServeReturns, Goto, AcceptReturns, CloseSignalConn, Signalled,
      Close
<1>10. CASE Log
  BY <1>10 DEF Log, Goto
<1>11. CASE Return
  BY <1>11 DEF Return, Goto
<1>12. CASE ProxyClose
  BY <1>12 DEF ProxyClose, Close
<1>13. ASSUME NEW d \in Directions, CopyRead(d) PROVE BridgeInv'
  BY <1>13 DEF CopyRead
<1>14. ASSUME NEW d \in Directions, CopyWrite(d) PROVE BridgeInv'
  BY <1>14 DEF CopyWrite
<1>15. ASSUME NEW d \in Directions, CopyEnd(d) PROVE BridgeInv'
  BY <1>15 DEF CopyEnd, Ended
<1>16. ASSUME NEW p \in {"h1", "h2"}, Handshake(p) PROVE BridgeInv'
  BY <1>16 DEF Handshake
<1>17. CASE HandshakeFails
  BY <1>17 DEF HandshakeFails, CloseSignalConn, Signalled, Close
<1>18. CASE PlainHTTP
  BY <1>18 DEF PlainHTTP, CloseSignalConn, Signalled, Close
<1>19. CASE CloseAgain
  BY <1>19 DEF CloseAgain, CloseSignalConn, Signalled, Close
<1>20. CASE ConnCloses
  BY <1>20 DEF ConnCloses, CloseSignalConn, Signalled, Close, Running
<1>21. ASSUME NEW h \in Handlers, StartHandler(h) PROVE BridgeInv'
  BY <1>21 DEF StartHandler, Running
<1>22. ASSUME NEW h \in Handlers, HandlerReturns(h) PROVE BridgeInv'
  BY <1>22 DEF HandlerReturns
<1>23. CASE UNCHANGED vars
  BY <1>23 DEF vars
<1> QED BY <1>1, <1>2, <1>3, <1>4, <1>5, <1>6, <1>7, <1>8, <1>9, <1>10,
      <1>11, <1>12, <1>13, <1>14, <1>15, <1>16, <1>17, <1>18, <1>19, <1>20,
      <1>21, <1>22, <1>23 DEF Next, Outer, Copy

(* The signal, the connection's goroutine and its requests.                *)
LEMMA ServePreserved ==
  ASSUME ConnectionTypeOK, BridgeInv, ServeInv, [Next]_vars
  PROVE  ServeInv'
<1> USE DEF ConnectionTypeOK, BridgeInv, ServeInv, Started, AfterServe,
      Running, Directions, Sides, tunnelVars, mitmVars
<1>1. ASSUME NEW d \in Directions, Say(d) PROVE ServeInv'
  BY <1>1 DEF Say
<1>2. ASSUME NEW d \in Directions, Drain(d) PROVE ServeInv'
  BY <1>2 DEF Drain
<1>3. ASSUME NEW s \in Sides, Finish(s) PROVE ServeInv'
  BY <1>3 DEF Finish
<1>4. ASSUME NEW s \in Sides, Leave(s) PROVE ServeInv'
  BY <1>4 DEF Leave
<1>5. CASE Dial
  BY <1>5 DEF Dial, Goto
<1>6. CASE Hijack
  BY <1>6 DEF Hijack, Goto
<1>7. CASE Answer
  BY <1>7 DEF Answer, Goto
<1>8. CASE Bridge
  BY <1>8 DEF Bridge, Goto, Close, FirstCopyDone, BothCopiesDone
<1>9. CASE ServeReturns
  BY <1>9 DEF ServeReturns, Goto, AcceptReturns, CloseSignalConn, Signalled,
      Close
<1>10. CASE Log
  BY <1>10 DEF Log, Goto
<1>11. CASE Return
  BY <1>11 DEF Return, Goto
<1>12. CASE ProxyClose
  BY <1>12 DEF ProxyClose, Close
<1>13. ASSUME NEW d \in Directions, CopyRead(d) PROVE ServeInv'
  BY <1>13 DEF CopyRead
<1>14. ASSUME NEW d \in Directions, CopyWrite(d) PROVE ServeInv'
  BY <1>14 DEF CopyWrite
<1>15. ASSUME NEW d \in Directions, CopyEnd(d) PROVE ServeInv'
  BY <1>15 DEF CopyEnd, Ended
<1>16. ASSUME NEW p \in {"h1", "h2"}, Handshake(p) PROVE ServeInv'
  BY <1>16 DEF Handshake
<1>17. CASE HandshakeFails
  BY <1>17 DEF HandshakeFails, CloseSignalConn, Signalled, Close
<1>18. CASE PlainHTTP
  BY <1>18 DEF PlainHTTP, CloseSignalConn, Signalled, Close
<1>19. CASE CloseAgain
  BY <1>19 DEF CloseAgain, CloseSignalConn, Signalled, Close
<1>20. CASE ConnCloses
  BY <1>20 DEF ConnCloses, CloseSignalConn, Signalled, Close
<1>21. ASSUME NEW h \in Handlers, StartHandler(h) PROVE ServeInv'
  BY <1>21 DEF StartHandler
<1>22. ASSUME NEW h \in Handlers, HandlerReturns(h) PROVE ServeInv'
  BY <1>22 DEF HandlerReturns
<1>23. CASE UNCHANGED vars
  BY <1>23 DEF vars
<1> QED BY <1>1, <1>2, <1>3, <1>4, <1>5, <1>6, <1>7, <1>8, <1>9, <1>10,
      <1>11, <1>12, <1>13, <1>14, <1>15, <1>16, <1>17, <1>18, <1>19, <1>20,
      <1>21, <1>22, <1>23 DEF Next, Outer, Copy

-----------------------------------------------------------------------------
(* Theorems                                                                *)

(* The inductive invariant: the close signal of an intercepted connection  *)
(* is given exactly once, with the close of the connection, and the two    *)
(* copies of a tunnel account for every chunk.                             *)
THEOREM ConnectionCorrect == ConnectionSpec => []ConnectionInv
<1>1. ASSUME ConnectionInv, [Next]_vars PROVE ConnectionInv'
  BY <1>1, TypePreserved, ChunksPreserved, BridgePreserved, ServePreserved
  DEF ConnectionInv
<1> QED BY <1>1, InitImpliesInv, PTL DEF ConnectionSpec

(* The line "connect" of a tunnel is written after both copies ended, and  *)
(* reports exactly what was written to either side.                        *)
THEOREM LogAlwaysTrue == ConnectionSpec => []LogIsTheTruth
<1>1. ConnectionInv => LogIsTheTruth
  <2> SUFFICES ASSUME ConnectionInv, at \in {"return", "done"}, Started,
                      NEW d \in Directions
               PROVE  copier[d] = "done" /\ logged[d] = written[d]
    BY DEF LogIsTheTruth
  <2>1. copier[d] = "done" /\ logged = counted
    BY DEF ConnectionInv, BridgeInv
  <2>2. counted[d] = written[d]
    BY <2>1 DEF ConnectionInv, ChunksInv
  <2> QED BY <2>1, <2>2
<1> QED BY <1>1, ConnectionCorrect, PTL

(* A tunnel is cut only when a side ended it, and a side that finished is  *)
(* heard out by one that stays. The copy that ended has a reason; when one *)
(* side finished and the other is there, the only reason left is that all  *)
(* the first one said is written.                                          *)
THEOREM LastWordAlwaysDelivered == ConnectionSpec => []LastWordIsDelivered
<1>1. ConnectionInv => LastWordIsDelivered
  <2> SUFFICES ASSUME ConnectionInv, AfterCut, Started
               PROVE  /\ \E s \in Sides : peer[s] # "open"
                      /\ \A d \in Directions :
                           peer[From(d)] = "finished" /\ peer[To(d)] = "open" =>
                             written[d] + Swallowed(d) = said[d]
    BY DEF LastWordIsDelivered
  <2>1. PICK e \in Directions : EndedFor(e)
    BY DEF ConnectionInv, BridgeInv
  <2>2. \E s \in Sides : peer[s] # "open"
    BY <2>1 DEF EndedFor, Directions, Sides, From, To
  <2>3. ASSUME NEW d \in Directions,
               peer[From(d)] = "finished", peer[To(d)] = "open"
        PROVE  written[d] + Swallowed(d) = said[d]
    <3>1. e = d
      BY <2>1, <2>3 DEF EndedFor, Directions, From, To
    <3> QED BY <2>1, <2>3, <3>1 DEF EndedFor
  <2> QED BY <2>2, <2>3
<1> QED BY <1>1, ConnectionCorrect, PTL

(* Serve on the one-shot listener returns only after its connection was    *)
(* closed, and then no HTTP/1 request of the connection is being handled.  *)
THEOREM ServeAlwaysOutlasts == ConnectionSpec => []ServeOutlastsConnection
<1>1. ConnectionInv => ServeOutlastsConnection
  BY DEF ConnectionInv, ServeInv, ServeOutlastsConnection
<1> QED BY <1>1, ConnectionCorrect, PTL
=============================================================================

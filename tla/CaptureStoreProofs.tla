------------------------- MODULE CaptureStoreProofs -------------------------
(***************************************************************************)
(* Proofs about CaptureStore, for any number of appending goroutines,      *)
(* closers and flushers, any capacity and any number of restarts.          *)
(***************************************************************************)
EXTENDS CaptureStore, TLAPS

data == <<ch, hand, rows, seqno, accepted, failed, lost>>

(* The typing of the state, kept apart because it needs nothing else than  *)
(* itself.                                                                 *)
LEMMA TypeStep == TypeOK /\ [Next]_vars => TypeOK'
<1> SUFFICES ASSUME TypeOK, [Next]_vars PROVE TypeOK'
  OBVIOUS
<1> USE DEF TypeOK, procVars, chanVars, drainVars, histVars, flushVars,
            AppendStates, CloseStates, FlushStates, DrainStates
<1>1. ASSUME NEW c \in Captures, AppendCheck(c) PROVE TypeOK'
  BY <1>1 DEF AppendCheck
<1>2. ASSUME NEW c \in Captures, AppendSend(c) PROVE TypeOK'
  BY <1>2, BufferSizeAssumption DEF AppendSend
<1>3. ASSUME NEW c \in Captures, AppendDrop(c) PROVE TypeOK'
  BY <1>3 DEF AppendDrop
<1>4. ASSUME NEW c \in Captures, AppendPanic(c) PROVE TypeOK'
  BY <1>4 DEF AppendPanic
<1>5. ASSUME NEW k \in Closers, CloseBegin(k) PROVE TypeOK'
  BY <1>5 DEF CloseBegin
<1>6. ASSUME NEW k \in Closers, CloseChannel(k) PROVE TypeOK'
  BY <1>6 DEF CloseChannel
<1>7. ASSUME NEW k \in Closers, CloseDatabase(k) PROVE TypeOK'
  BY <1>7 DEF CloseDatabase
<1>8. CASE DrainReceive
  <2>1. Head(ch) \in Captures /\ Tail(ch) \in Seq(Captures) /\ Len(Tail(ch)) <= BufferSize
    BY <1>8, BufferSizeAssumption DEF DrainReceive
  <2>2. hand' \in Captures /\ ch' \in Seq(Captures) /\ Len(ch') <= BufferSize
    BY <1>8, <2>1 DEF DrainReceive
  <2>3. QED
    BY <1>8, <2>2 DEF DrainReceive
<1>9. CASE DrainExit
  <2>1. hand' \in {NoCapture} /\ drain' = "done"
    BY <1>9 DEF DrainExit
  <2>2. QED
    BY <1>9, <2>1 DEF DrainExit
<1>10. CASE DrainWrite
  <2>1. rows' \in Seq(Captures)
    BY <1>10 DEF DrainWrite
  <2>2. hand' \in {NoCapture} /\ drain' = "receive"
    BY <1>10 DEF DrainWrite
  <2>3. QED
    BY <1>10, <2>1, <2>2 DEF DrainWrite
<1>11. CASE DrainWriteFails
  BY <1>11 DEF DrainWriteFails
<1>12. ASSUME NEW f \in Flushers, FlushBegin(f) PROVE TypeOK'
  BY <1>12 DEF FlushBegin
<1>13. ASSUME NEW f \in Flushers, FlushReturns(f) PROVE TypeOK'
  BY <1>13 DEF FlushReturns
<1>14. ASSUME NEW f \in Flushers, FlushTimesOut(f) PROVE TypeOK'
  BY <1>14 DEF FlushTimesOut
<1>15. CASE Exit
  <2>1. lost' \subseteq Captures
    <3>1. InMemory \subseteq Captures
      BY DEF InMemory
    <3>2. QED
      BY <1>15, <3>1 DEF Exit
  <2>2. ch' \in Seq(Captures) /\ Len(ch') <= BufferSize
    BY <1>15, BufferSizeAssumption DEF Exit
  <2>3. hand' \in {NoCapture} /\ drain' = "done"
    BY <1>15 DEF Exit
  <2>4. app' \in [Captures -> AppendStates] /\ closer' \in [Closers -> CloseStates]
          /\ flush' \in [Flushers -> FlushStates]
    BY <1>15 DEF Exit
  <2>5. QED
    BY <1>15, <2>1, <2>2, <2>3, <2>4 DEF Exit
<1>16. CASE Reopen
  <2>1. restarts' \in 0..MaxRestarts
    BY <1>16, MaxRestartsAssumption DEF Reopen
  <2>2. hand' \in {NoCapture} /\ drain' = "receive"
    BY <1>16 DEF Reopen
  <2>3. up' \in BOOLEAN /\ closed' \in BOOLEAN /\ chClosed' \in BOOLEAN
          /\ dbOpen' \in BOOLEAN
    BY <1>16 DEF Reopen
  <2>4. ch' \in Seq(Captures) /\ Len(ch') <= BufferSize
    BY <1>16, BufferSizeAssumption DEF Reopen
  <2>5. QED
    BY <1>16, <2>1, <2>2, <2>3, <2>4 DEF Reopen
<1>17. CASE UNCHANGED vars
  BY <1>17 DEF vars
<1>18. QED
  BY <1>1, <1>2, <1>3, <1>4, <1>5, <1>6, <1>7, <1>8, <1>9, <1>10, <1>11, <1>12,
     <1>13, <1>14, <1>15, <1>16, <1>17
     DEF Next, AppendStep, CloseStep, DrainStep, FlushStep

LEMMA InitTypeOK == Init => TypeOK
<1> SUFFICES ASSUME Init PROVE TypeOK
  OBVIOUS
<1>1. restarts \in 0..MaxRestarts
  BY MaxRestartsAssumption DEF Init
<1>2. ch \in Seq(Captures) /\ Len(ch) <= BufferSize /\ rows \in Seq(Captures)
  BY BufferSizeAssumption DEF Init
<1>3. hand \in {NoCapture} /\ drain = "receive"
  BY DEF Init
<1>4. QED
  BY <1>1, <1>2, <1>3
     DEF Init, TypeOK, AppendStates, CloseStates, FlushStates, DrainStates

(* Every variable keeps its type.                                          *)
THEOREM TypeCorrect == Spec => []TypeOK
BY InitTypeOK, TypeStep, PTL DEF Spec

-----------------------------------------------------------------------------
(* The invariant. DataInv speaks of where captures are, the other three    *)
(* parts of the pcs.                                                       *)

DataInv == Positions /\ RowsInOrder /\ OneOutcome /\ Complete
PcInv == ControlPoints /\ OneCloser /\ FlushPositions

LEMMA DataUnchanged == DataInv /\ UNCHANGED data => DataInv'
BY DEF DataInv, data, Positions, Taken, RowsInOrder, OneOutcome, Complete,
       Settled, OnDisk, InChannel

(* A capture that is still to be appended is nowhere; the channel takes it *)
(* at the next position.                                                   *)
LEMMA SendData ==
  ASSUME TypeOK, DataInv, ControlPoints, NEW c \in Captures, AppendSend(c)
  PROVE  DataInv' /\ Taken' = Taken
<1> USE DEF TypeOK
<1>1. /\ seqno[c] = 0
      /\ seqno' = [seqno EXCEPT ![c] = accepted + 1]
      /\ accepted' = accepted + 1 /\ ch' = Append(ch, c)
      /\ UNCHANGED <<hand, rows, failed, lost>>
  BY DEF AppendSend, ControlPoints, drainVars
<1>2. /\ Len(ch') = Len(ch) + 1 /\ ch'[Len(ch) + 1] = c
      /\ \A i \in 1..Len(ch) : ch'[i] = ch[i] /\ ch[i] \in Captures
  BY <1>1
<1>3. Taken' = Taken /\ Taken \in Nat
  BY <1>1, <1>2 DEF Taken, DataInv, Positions
<1>4. ~InChannel(c) /\ hand # c /\ ~Settled(c)
  BY <1>1, NoCaptureAssumption DEF DataInv, Positions, InChannel
<1>5. \A d \in Captures : Settled(d)' <=> Settled(d)
  BY <1>1 DEF Settled, OnDisk
<1>6. \A d \in Captures : d # c => seqno'[d] = seqno[d]
  BY <1>1
<1>7. seqno'[c] = Taken' + (Len(ch) + 1) /\ Len(ch) + 1 \in 1..Len(ch')
  BY <1>1, <1>2, <1>3 DEF Taken
<1>8. Positions'
  <2>1. \A i \in 1..Len(ch') : seqno'[ch'[i]] = Taken' + i
    <3> SUFFICES ASSUME NEW i \in 1..Len(ch') PROVE seqno'[ch'[i]] = Taken' + i
      OBVIOUS
    <3>1. CASE i = Len(ch) + 1
      BY <3>1, <1>2, <1>7
    <3>2. CASE i \in 1..Len(ch)
      <4>1. ch'[i] = ch[i] /\ ch[i] # c /\ ch[i] \in Captures
        BY <3>2, <1>2, <1>4 DEF InChannel
      <4>2. QED
        BY <4>1, <3>2, <1>3, <1>6 DEF DataInv, Positions
    <3>3. QED
      BY <3>1, <3>2, <1>2
  <2>2. hand' # NoCapture => seqno'[hand'] = Taken' /\ Taken' > 0
    BY <1>1, <1>3, <1>4, <1>6 DEF DataInv, Positions
  <2>3. \A d \in Captures : Settled(d)' =>
          seqno'[d] > 0 /\ seqno'[d] <= Taken' /\ (hand' # NoCapture => seqno'[d] < Taken')
    BY <1>1, <1>3, <1>4, <1>5, <1>6 DEF DataInv, Positions
  <2>4. QED
    BY <2>1, <2>2, <2>3, <1>3 DEF Positions
<1>9. RowsInOrder'
  <2>1. \A i \in 1..Len(rows) : rows[i] # c /\ rows[i] \in Captures
    BY <1>4 DEF Settled, OnDisk
  <2>2. QED
    BY <2>1, <1>1, <1>6 DEF RowsInOrder, DataInv
<1>10. OneOutcome'
  BY <1>1 DEF DataInv, OneOutcome, OnDisk
<1>11. Complete'
  <2> SUFFICES ASSUME NEW d \in Captures, seqno'[d] > 0
               PROVE  InChannel(d)' \/ hand' = d \/ Settled(d)'
    BY DEF Complete
  <2>1. CASE d = c
    BY <2>1, <1>2, <1>7 DEF InChannel
  <2>2. CASE d # c
    <3>1. InChannel(d) \/ hand = d \/ Settled(d)
      BY <2>2, <1>6 DEF DataInv, Complete
    <3>2. InChannel(d) => InChannel(d)'
      BY <1>2 DEF InChannel
    <3>3. QED
      BY <3>1, <3>2, <1>1, <1>5
  <2>3. QED
    BY <2>1, <2>2
<1>12. QED
  BY <1>3, <1>8, <1>9, <1>10, <1>11 DEF DataInv

(* drain takes the oldest capture of the channel.                          *)
LEMMA ReceiveData ==
  ASSUME TypeOK, DataInv, DrainReceive
  PROVE  DataInv' /\ Taken' = Taken + 1
<1> USE DEF TypeOK
<1>1. /\ ch # <<>> /\ hand = NoCapture /\ hand' = Head(ch) /\ ch' = Tail(ch)
      /\ UNCHANGED <<rows, seqno, accepted, failed, lost>>
  BY DEF DrainReceive, histVars
<1>2. /\ Len(ch) \in Nat \ {0} /\ Len(ch') = Len(ch) - 1
      /\ \A i \in 1..Len(ch') : ch'[i] = ch[i + 1]
      /\ hand' = ch[1] /\ ch[1] \in Captures
  BY <1>1
<1>3. Taken' = Taken + 1 /\ Taken \in Nat
  BY <1>1, <1>2 DEF Taken, DataInv, Positions
<1>4. \A d \in Captures : Settled(d)' <=> Settled(d)
  BY <1>1 DEF Settled, OnDisk
<1>5. Positions'
  <2>1. \A i \in 1..Len(ch') : seqno'[ch'[i]] = Taken' + i
    <3> SUFFICES ASSUME NEW i \in 1..Len(ch') PROVE seqno'[ch'[i]] = Taken' + i
      OBVIOUS
    <3>1. i + 1 \in 1..Len(ch)
      BY <1>2
    <3>2. seqno[ch[i + 1]] = Taken + (i + 1)
      BY <3>1 DEF DataInv, Positions
    <3>3. QED
      BY <3>2, <1>1, <1>2, <1>3
  <2>2. seqno'[hand'] = Taken' /\ Taken' > 0
    <3>1. seqno[ch[1]] = Taken + 1
      <4>1. 1 \in 1..Len(ch)
        BY <1>2
      <4>2. QED
        BY <4>1 DEF DataInv, Positions
    <3>2. seqno'[hand'] = Taken'
      BY <3>1, <1>1, <1>2, <1>3
    <3>3. Taken' > 0
      BY <1>3
    <3>4. QED
      BY <3>2, <3>3
  <2>3. \A d \in Captures : Settled(d)' =>
          seqno'[d] > 0 /\ seqno'[d] <= Taken' /\ seqno'[d] < Taken'
    BY <1>1, <1>3, <1>4 DEF DataInv, Positions
  <2>4. QED
    BY <2>1, <2>2, <2>3, <1>3 DEF Positions
<1>6. RowsInOrder' /\ OneOutcome'
  BY <1>1 DEF DataInv, RowsInOrder, OneOutcome, OnDisk
<1>7. Complete'
  <2> SUFFICES ASSUME NEW d \in Captures, seqno'[d] > 0
               PROVE  InChannel(d)' \/ hand' = d \/ Settled(d)'
    BY DEF Complete
  <2>1. InChannel(d) \/ Settled(d)
    BY <1>1, NoCaptureAssumption DEF DataInv, Complete
  <2>2. ASSUME NEW i \in 1..Len(ch), ch[i] = d PROVE InChannel(d)' \/ hand' = d
    <3>1. CASE i = 1
      BY <3>1, <2>2, <1>2
    <3>2. CASE i # 1
      <4>1. i - 1 \in 1..Len(ch') /\ ch'[i - 1] = d
        BY <3>2, <2>2, <1>2
      <4>2. QED
        BY <4>1 DEF InChannel
    <3>3. QED
      BY <3>1, <3>2
  <2>3. QED
    BY <2>1, <2>2, <1>4 DEF InChannel
<1>8. QED
  BY <1>3, <1>5, <1>6, <1>7 DEF DataInv

(* A write, successful or not, settles the capture drain holds and no      *)
(* other; the row it may add goes after all rows.                          *)
LEMMA WriteData ==
  ASSUME TypeOK, DataInv, DrainWrite \/ DrainWriteFails
  PROVE  DataInv' /\ Taken' = Taken
<1> USE DEF TypeOK
<1>1. /\ hand \in Captures /\ hand # NoCapture /\ hand' = NoCapture
      /\ UNCHANGED <<ch, seqno, accepted, lost>>
  BY NoCaptureAssumption DEF DrainWrite, DrainWriteFails, chanVars, histVars
<1>2. Taken' = Taken /\ Taken \in Nat
  BY <1>1 DEF Taken, DataInv, Positions
<1>3. /\ seqno[hand] = Taken /\ Taken > 0
      /\ \A d \in Captures : Settled(d) => seqno[d] > 0 /\ seqno[d] < Taken
  BY <1>1 DEF DataInv, Positions
<1>4. ~Settled(hand)
  BY <1>1, <1>3
<1>5. /\ \A d \in Captures : Settled(d)' <=> Settled(d) \/ d = hand
      /\ RowsInOrder' /\ OneOutcome'
  <2>1. CASE DrainWrite
    <3>1. rows' = Append(rows, hand) /\ failed' = failed
      BY <2>1 DEF DrainWrite
    <3>2. /\ Len(rows') = Len(rows) + 1 /\ rows'[Len(rows) + 1] = hand
          /\ \A i \in 1..Len(rows) : rows'[i] = rows[i] /\ rows[i] \in Captures
      BY <3>1, <1>1
    <3>3. \A d \in Captures : OnDisk(d)' <=> OnDisk(d) \/ d = hand
      <4>1. Len(rows) + 1 \in 1..Len(rows')
        BY <3>2
      <4>2. ASSUME NEW d \in Captures, OnDisk(d) PROVE OnDisk(d)'
        BY <4>2, <3>2 DEF OnDisk
      <4>3. ASSUME NEW d \in Captures, d = hand PROVE OnDisk(d)'
        BY <4>1, <4>3, <3>2 DEF OnDisk
      <4>4. ASSUME NEW d \in Captures, OnDisk(d)' PROVE OnDisk(d) \/ d = hand
        <5>1. PICK i \in 1..Len(rows') : rows'[i] = d
          BY <4>4 DEF OnDisk
        <5>2. i \in 1..Len(rows) \/ i = Len(rows) + 1
          BY <3>2
        <5>3. QED
          BY <5>1, <5>2, <3>2 DEF OnDisk
      <4>5. QED
        BY <4>2, <4>3, <4>4
    <3>4. RowsInOrder'
      <4> SUFFICES ASSUME NEW i \in 1..Len(rows'), NEW j \in 1..Len(rows'), i < j
                   PROVE  seqno'[rows'[i]] < seqno'[rows'[j]]
        BY DEF RowsInOrder
      <4>1. i \in 1..Len(rows) /\ rows'[i] = rows[i] /\ rows[i] \in Captures
        BY <3>2
      <4>2. CASE j = Len(rows) + 1
        <5>1. Settled(rows[i])
          BY <4>1 DEF Settled, OnDisk
        <5>2. QED
          BY <5>1, <4>1, <4>2, <3>2, <1>1, <1>3
      <4>3. CASE j \in 1..Len(rows)
        BY <4>1, <4>3, <3>2, <1>1 DEF DataInv, RowsInOrder
      <4>4. QED
        BY <4>2, <4>3, <3>2
    <3>5. OneOutcome'
      BY <3>1, <3>3, <1>1, <1>4 DEF DataInv, OneOutcome, Settled
    <3>6. QED
      BY <3>1, <3>3, <3>4, <3>5, <1>1 DEF Settled
  <2>2. CASE DrainWriteFails
    <3>1. rows' = rows /\ failed' = failed \cup {hand}
      BY <2>2 DEF DrainWriteFails
    <3>2. \A d \in Captures : OnDisk(d)' <=> OnDisk(d)
      BY <3>1 DEF OnDisk
    <3>3. QED
      BY <3>1, <3>2, <1>1, <1>4 DEF DataInv, OneOutcome, Settled, RowsInOrder
  <2>3. QED
    BY <2>1, <2>2
<1>6. Positions'
  <2>1. \A i \in 1..Len(ch') : seqno'[ch'[i]] = Taken' + i
    BY <1>1, <1>2 DEF DataInv, Positions
  <2>2. ASSUME NEW d \in Captures, Settled(d)'
        PROVE  seqno'[d] > 0 /\ seqno'[d] <= Taken'
    <3>1. CASE d = hand
      BY <3>1, <1>1, <1>2, <1>3
    <3>2. CASE Settled(d)
      BY <3>2, <1>1, <1>2, <1>3
    <3>3. QED
      BY <2>2, <3>1, <3>2, <1>5
  <2>3. QED
    BY <2>1, <2>2, <1>1, <1>2 DEF Positions
<1>7. Complete'
  BY <1>1, <1>5 DEF DataInv, Complete, InChannel
<1>8. QED
  BY <1>2, <1>5, <1>6, <1>7 DEF DataInv

(* When the process ends, what it held in memory is lost and the rest of   *)
(* the history stands.                                                     *)
LEMMA ExitData ==
  ASSUME TypeOK, DataInv, Exit
  PROVE  DataInv' /\ Taken' = accepted
<1> USE DEF TypeOK
<1>1. /\ ch' = <<>> /\ hand' = NoCapture /\ lost' = lost \cup InMemory
      /\ UNCHANGED <<rows, seqno, accepted, failed>>
  BY DEF Exit, histVars
<1>2. Taken' = accepted /\ Taken \in Nat /\ Taken = accepted - Len(ch) /\ Len(ch) \in Nat
  BY <1>1 DEF Taken, DataInv, Positions
<1>3. ASSUME NEW d \in InMemory
      PROVE  d \in Captures /\ ~Settled(d) /\ seqno[d] > 0 /\ seqno[d] <= accepted
  <2>1. CASE d = hand /\ hand # NoCapture
    BY <2>1, <1>2 DEF DataInv, Positions
  <2>2. ASSUME NEW i \in 1..Len(ch), d = ch[i]
        PROVE  d \in Captures /\ ~Settled(d) /\ seqno[d] > 0 /\ seqno[d] <= accepted
    <3>1. seqno[d] = Taken + i /\ d \in Captures
      BY <2>2 DEF DataInv, Positions
    <3>2. QED
      BY <3>1, <1>2 DEF DataInv, Positions
  <2>3. QED
    BY <2>1, <2>2 DEF InMemory
<1>4. \A d \in Captures :
        /\ Settled(d)' <=> Settled(d) \/ d \in InMemory
        /\ OnDisk(d)' <=> OnDisk(d)
  BY <1>1 DEF Settled, OnDisk
<1>5. Positions'
  BY <1>1, <1>2, <1>3, <1>4 DEF DataInv, Positions
<1>6. RowsInOrder'
  BY <1>1 DEF DataInv, RowsInOrder
<1>7. OneOutcome'
  BY <1>1, <1>3, <1>4 DEF DataInv, OneOutcome, Settled
<1>8. Complete'
  BY <1>1, <1>4, NoCaptureAssumption DEF DataInv, Complete, InChannel, InMemory
<1>9. QED
  BY <1>1, <1>2, <1>5, <1>6, <1>7, <1>8 DEF DataInv

-----------------------------------------------------------------------------
(* The pcs, one step per action.                                           *)

LEMMA PcStep ==
  ASSUME TypeOK, DataInv, PcInv, [Next]_vars
  PROVE  PcInv'
<1> USE DEF TypeOK, PcInv, procVars, chanVars, drainVars, histVars, flushVars
<1> DEFINE Plain == UNCHANGED <<ch, accepted, seqno, flush, upto>>
<1>1. Plain => FlushPositions'
  BY DEF FlushPositions, Taken
<1>2. ASSUME NEW c \in Captures,
             AppendCheck(c) \/ AppendDrop(c) \/ AppendPanic(c)
      PROVE  PcInv'
  <2>1. /\ Plain /\ UNCHANGED <<up, closed, chClosed, drain, hand, dbOpen, closer>>
        /\ \E r \in AppendStates \ {"sent"} : app' = [app EXCEPT ![c] = r]
        /\ app[c] # "sent"
    BY <1>2 DEF AppendCheck, AppendDrop, AppendPanic, AppendStates
  <2>2. ControlPoints'
    BY <2>1 DEF ControlPoints
  <2>3. OneCloser'
    BY <2>1 DEF OneCloser
  <2>4. QED
    BY <1>1, <2>1, <2>2, <2>3
<1>3. ASSUME NEW c \in Captures, AppendSend(c) PROVE PcInv'
  <2>1. ControlPoints'
    BY <1>3 DEF AppendSend, ControlPoints
  <2>2. OneCloser'
    BY <1>3 DEF AppendSend, OneCloser
  <2>3. FlushPositions'
    <3>1. Taken' = Taken
      BY <1>3, SendData
    <3>2. QED
      BY <1>3, <3>1 DEF AppendSend, FlushPositions
  <2>4. QED
    BY <2>1, <2>2, <2>3
<1>4. ASSUME NEW k \in Closers, CloseBegin(k) PROVE PcInv'
  <2>1. ControlPoints'
    BY <1>4 DEF CloseBegin, ControlPoints
  <2>2. OneCloser'
    BY <1>4 DEF CloseBegin, OneCloser, ControlPoints
  <2>3. QED
    BY <1>1, <1>4, <2>1, <2>2 DEF CloseBegin
<1>5. ASSUME NEW k \in Closers, CloseChannel(k) PROVE PcInv'
  <2>1. ControlPoints'
    BY <1>5 DEF CloseChannel, ControlPoints
  <2>2. OneCloser'
    BY <1>5 DEF CloseChannel, OneCloser
  <2>3. QED
    BY <1>1, <1>5, <2>1, <2>2 DEF CloseChannel
<1>6. ASSUME NEW k \in Closers, CloseDatabase(k) PROVE PcInv'
  <2>1. ControlPoints'
    BY <1>6 DEF CloseDatabase, ControlPoints
  <2>2. OneCloser'
    BY <1>6 DEF CloseDatabase, OneCloser
  <2>3. QED
    BY <1>1, <1>6, <2>1, <2>2 DEF CloseDatabase
<1>7. CASE DrainReceive
  <2>1. ControlPoints'
    BY <1>7 DEF DrainReceive, ControlPoints
  <2>2. OneCloser'
    BY <1>7 DEF DrainReceive, OneCloser
  <2>3. FlushPositions'
    <3>1. Taken' = Taken + 1 /\ Taken \in Nat
      BY <1>7, ReceiveData DEF DataInv, Positions
    <3>2. QED
      BY <1>7, <3>1 DEF DrainReceive, FlushPositions
  <2>4. QED
    BY <2>1, <2>2, <2>3
<1>8. CASE DrainExit
  <2>1. ControlPoints'
    BY <1>8 DEF DrainExit, ControlPoints
  <2>2. OneCloser'
    BY <1>8 DEF DrainExit, OneCloser
  <2>3. QED
    BY <1>1, <1>8, <2>1, <2>2 DEF DrainExit
<1>9. CASE DrainWrite \/ DrainWriteFails
  <2>1. ControlPoints'
    BY <1>9 DEF DrainWrite, DrainWriteFails, ControlPoints
  <2>2. OneCloser'
    BY <1>9 DEF DrainWrite, DrainWriteFails, OneCloser
  <2>3. QED
    BY <1>1, <1>9, <2>1, <2>2 DEF DrainWrite, DrainWriteFails
<1>10. ASSUME NEW f \in Flushers, FlushBegin(f) \/ FlushReturns(f) \/ FlushTimesOut(f)
       PROVE  PcInv'
  <2>1. UNCHANGED <<up, closed, chClosed, ch, drain, hand, dbOpen, closer, app,
                    accepted, seqno>>
    BY <1>10 DEF FlushBegin, FlushReturns, FlushTimesOut
  <2>2. ControlPoints'
    BY <2>1 DEF ControlPoints
  <2>3. OneCloser'
    BY <2>1 DEF OneCloser
  <2>4. FlushPositions'
    <3>1. Taken' = Taken /\ Taken \in Nat /\ (ch = <<>> => Taken = accepted)
      BY <2>1 DEF Taken, DataInv, Positions
    <3>2. QED
      BY <1>10, <2>1, <3>1
         DEF FlushBegin, FlushReturns, FlushTimesOut, FlushPositions, FlushStates
  <2>5. QED
    BY <2>2, <2>3, <2>4
<1>11. CASE Exit
  <2>1. ControlPoints'
    BY <1>11 DEF Exit, ControlPoints
  <2>2. OneCloser'
    BY <1>11 DEF Exit, OneCloser
  <2>3. FlushPositions'
    <3>1. Taken' = accepted
      BY <1>11, ExitData
    <3>2. QED
      BY <1>11, <3>1 DEF Exit, FlushPositions
  <2>4. QED
    BY <2>1, <2>2, <2>3
<1>12. CASE Reopen
  <2>1. ch = <<>> /\ ch' = <<>>
    BY <1>12 DEF Reopen, ControlPoints
  <2>2. ControlPoints'
    BY <1>12, <2>1 DEF Reopen, ControlPoints
  <2>3. OneCloser'
    BY <1>12 DEF Reopen, OneCloser, ControlPoints
  <2>4. QED
    BY <1>1, <1>12, <2>1, <2>2, <2>3 DEF Reopen
<1>13. CASE UNCHANGED vars
  BY <1>13 DEF vars, ControlPoints, OneCloser, FlushPositions, Taken
<1>14. QED
  BY <1>2, <1>3, <1>4, <1>5, <1>6, <1>7, <1>8, <1>9, <1>10, <1>11, <1>12, <1>13
     DEF Next, AppendStep, CloseStep, DrainStep, FlushStep

LEMMA DataStep ==
  ASSUME TypeOK, DataInv, PcInv, [Next]_vars
  PROVE  DataInv'
<1>1. ASSUME NEW c \in Captures, AppendSend(c) PROVE DataInv'
  BY <1>1, SendData DEF PcInv
<1>2. CASE DrainReceive
  BY <1>2, ReceiveData
<1>3. CASE DrainWrite \/ DrainWriteFails
  BY <1>3, WriteData
<1>4. CASE Exit
  BY <1>4, ExitData
<1>5. CASE Reopen
  <2>1. ch = <<>> /\ hand = NoCapture
    BY <1>5 DEF Reopen, PcInv, ControlPoints, TypeOK
  <2>2. UNCHANGED data
    BY <1>5, <2>1 DEF Reopen, data, histVars
  <2>3. QED
    BY <2>2, DataUnchanged
<1>6. ASSUME \/ \E c \in Captures : AppendCheck(c) \/ AppendDrop(c) \/ AppendPanic(c)
             \/ \E k \in Closers : CloseStep(k)
             \/ DrainExit
             \/ \E f \in Flushers : FlushStep(f)
             \/ UNCHANGED vars
      PROVE  DataInv'
  <2>1. UNCHANGED data
    BY <1>6 DEF data, vars, procVars, chanVars, drainVars, histVars, flushVars,
                AppendCheck, AppendDrop, AppendPanic, CloseStep, CloseBegin,
                CloseChannel, CloseDatabase, DrainExit, FlushStep, FlushBegin,
                FlushReturns, FlushTimesOut
  <2>2. QED
    BY <2>1, DataUnchanged
<1>7. QED
  BY <1>1, <1>2, <1>3, <1>4, <1>5, <1>6 DEF Next, AppendStep, DrainStep

(* The inductive invariant of the store.                                   *)
THEOREM StoreCorrect == Spec => []StoreInv
<1>1. Init => TypeOK /\ DataInv /\ PcInv
  <2> SUFFICES ASSUME Init PROVE DataInv /\ PcInv
    BY InitTypeOK
  <2> USE DEF Init
  <2>1. DataInv
    BY DEF DataInv, Positions, Taken, RowsInOrder, OneOutcome, Complete, Settled,
           OnDisk, InChannel
  <2>2. PcInv
    BY DEF PcInv, ControlPoints, OneCloser, FlushPositions
  <2>3. QED
    BY <2>1, <2>2
<1>2. TypeOK /\ DataInv /\ PcInv /\ [Next]_vars => (TypeOK /\ DataInv /\ PcInv)'
  BY TypeStep, DataStep, PcStep
<1>3. TypeOK /\ DataInv /\ PcInv => StoreInv
  BY DEF StoreInv, DataInv, PcInv
<1>4. QED
  BY <1>1, <1>2, <1>3, PTL DEF Spec

-----------------------------------------------------------------------------
(* What follows from it.                                                   *)

LEMMA PlacesDisjoint ==
  ASSUME TypeOK, DataInv, NEW c \in Captures, InChannel(c)
  PROVE  seqno[c] > Taken /\ hand # c /\ ~Settled(c)
<1>1. PICK i \in 1..Len(ch) : ch[i] = c
  BY DEF InChannel
<1>2. seqno[c] = Taken + i /\ Taken \in Nat /\ i \in Nat \ {0}
  BY <1>1 DEF DataInv, Positions, TypeOK
<1>3. QED
  BY <1>2, NoCaptureAssumption DEF DataInv, Positions

(* Every capture the channel took is in exactly one place at any time.     *)
THEOREM NothingEverVanishes == Spec => []NothingVanishes
<1>1. StoreInv => NothingVanishes
  <2> SUFFICES ASSUME StoreInv, NEW c \in Captures
               PROVE  /\ seqno[c] > 0 <=> InChannel(c) \/ hand = c \/ Settled(c)
                      /\ InChannel(c) => hand # c /\ ~Settled(c)
                      /\ hand = c => ~Settled(c)
                      /\ ~(OnDisk(c) /\ c \in failed) /\ ~(OnDisk(c) /\ c \in lost)
                      /\ ~(c \in failed /\ c \in lost)
    BY DEF NothingVanishes
  <2>1. TypeOK /\ DataInv
    BY DEF StoreInv, DataInv
  <2>2. InChannel(c) => seqno[c] > Taken /\ hand # c /\ ~Settled(c)
    BY <2>1, PlacesDisjoint
  <2>3. Taken \in Nat /\ seqno[c] \in Nat
    BY <2>1 DEF DataInv, Positions, TypeOK
  <2>4. hand = c => seqno[c] > 0 /\ ~Settled(c)
    BY <2>1, <2>3, NoCaptureAssumption DEF DataInv, Positions
  <2>5. Settled(c) => seqno[c] > 0
    BY <2>1 DEF DataInv, Positions
  <2>6. seqno[c] > 0 => InChannel(c) \/ hand = c \/ Settled(c)
    BY <2>1 DEF DataInv, Complete
  <2>7. QED
    BY <2>1, <2>2, <2>3, <2>4, <2>5, <2>6 DEF DataInv, OneOutcome
<1>2. QED
  BY <1>1, StoreCorrect, PTL

(* The table is ordered by acceptance, over any number of restarts.        *)
THEOREM RowsAlwaysInOrder == Spec => []RowsInOrder
<1>1. StoreInv => RowsInOrder
  BY DEF StoreInv
<1>2. QED
  BY <1>1, StoreCorrect, PTL

(* The Close that returned has flushed, drain never writes to a closed     *)
(* database, and close(s.ch) never runs twice.                             *)
THEOREM CloseCorrect == Spec => []CloseFlushes
<1>1. StoreInv => CloseFlushes
  <2> SUFFICES ASSUME StoreInv PROVE CloseFlushes
    OBVIOUS
  <2>1. ASSUME NEW k \in Closers, closer[k] = "returned"
        PROVE  /\ drain = "done" /\ ~dbOpen
               /\ \A c \in Captures : seqno[c] > 0 => Settled(c)
    <3>1. drain = "done" /\ ~dbOpen /\ ch = <<>> /\ hand = NoCapture
      BY <2>1 DEF StoreInv, OneCloser, ControlPoints, TypeOK
    <3>2. QED
      BY <3>1, NoCaptureAssumption DEF StoreInv, Complete, InChannel
  <2>2. (drain = "write" => dbOpen) /\ \A k \in Closers : closer[k] # "panicked"
    BY DEF StoreInv, ControlPoints, OneCloser
  <2>3. QED
    BY <2>1, <2>2 DEF CloseFlushes
<1>2. QED
  BY <1>1, StoreCorrect, PTL

(* A Flush that returned nil left at most the capture in drain's hand.     *)
THEOREM FlushCorrect == Spec => []FlushLeavesAtMostOne
<1>1. StoreInv => FlushLeavesAtMostOne
  <2> SUFFICES ASSUME StoreInv, NEW f \in Flushers, flush[f] = "ok",
                      NEW c \in Captures, seqno[c] \in 1..upto[f]
               PROVE  Settled(c) \/ hand = c
    BY DEF FlushLeavesAtMostOne
  <2>1. TypeOK /\ DataInv /\ upto[f] <= Taken /\ Taken \in Nat
    BY DEF StoreInv, DataInv, FlushPositions, Positions
  <2>2. ~InChannel(c)
    BY <2>1, PlacesDisjoint DEF TypeOK
  <2>3. QED
    BY <2>1, <2>2 DEF DataInv, Complete, TypeOK
<1>2. QED
  BY <1>1, StoreCorrect, PTL

-----------------------------------------------------------------------------
(* CaptureStore implements CaptureLog: the initial state maps to the       *)
(* initial state of the log, and every step of a goroutine to a step of    *)
(* the log or to none. (The fairness of the log is left to TLC.)           *)

LEMMA BacklogHeadTail ==
  ASSUME NEW s \in Seq(Captures), NEW c \in Captures
  PROVE  /\ <<c>> \o s # <<>> /\ Head(<<c>> \o s) = c /\ Tail(<<c>> \o s) = s
         /\ Len(<<c>> \o s) = Len(s) + 1
         /\ \A d \in Captures : Append(<<c>> \o s, d) = <<c>> \o Append(s, d)
<1>1. <<c>> \o s \in Seq(Captures) /\ Len(<<c>> \o s) = Len(s) + 1
  OBVIOUS
<1>2. <<c>> \o s # <<>> /\ Head(<<c>> \o s) = c
  BY <1>1
<1>3. Tail(<<c>> \o s) = s
  <2>1. Len(Tail(<<c>> \o s)) = Len(s) /\ Tail(<<c>> \o s) \in Seq(Captures)
    BY <1>1
  <2>2. \A i \in 1..Len(s) : Tail(<<c>> \o s)[i] = s[i]
    BY <1>1
  <2>3. QED
    BY <2>1, <2>2
<1>4. ASSUME NEW d \in Captures PROVE Append(<<c>> \o s, d) = <<c>> \o Append(s, d)
  BY <1>1
<1>5. QED
  BY <1>1, <1>2, <1>3, <1>4

(* The fate of a capture, read off where it is.                            *)
FateTable ==
  \A c \in Captures :
    /\ OnDisk(c) => FateOf(c) = "recorded"
    /\ c \in failed => FateOf(c) = "failed"
    /\ c \in lost => FateOf(c) = "lost"
    /\ InChannel(c) \/ hand = c => app[c] = "sent" /\ FateOf(c) = "accepted"
    /\ app[c] = "sent" => InChannel(c) \/ hand = c \/ Settled(c)
    /\ app[c] # "sent" => ~Settled(c)
    /\ app[c] = "dropped" => FateOf(c) = "dropped"
    /\ app[c] \in {"noop", "panicked"} => FateOf(c) = "refused"
    /\ app[c] \in {"idle", "checked", "cut"} => FateOf(c) = "new"

LEMMA FateOfPlace == StoreInv => FateTable
<1> SUFFICES ASSUME StoreInv PROVE FateTable
  OBVIOUS
<1>1. TypeOK /\ DataInv /\ ControlPoints
  BY DEF StoreInv, DataInv
<1> SUFFICES ASSUME NEW c \in Captures
             PROVE  /\ OnDisk(c) => FateOf(c) = "recorded"
                    /\ c \in failed => FateOf(c) = "failed"
                    /\ c \in lost => FateOf(c) = "lost"
                    /\ InChannel(c) \/ hand = c => app[c] = "sent" /\ FateOf(c) = "accepted"
                    /\ app[c] = "sent" => InChannel(c) \/ hand = c \/ Settled(c)
                    /\ app[c] # "sent" => ~Settled(c)
                    /\ app[c] = "dropped" => FateOf(c) = "dropped"
                    /\ app[c] \in {"noop", "panicked"} => FateOf(c) = "refused"
                    /\ app[c] \in {"idle", "checked", "cut"} => FateOf(c) = "new"
  BY DEF FateTable
<1>2. /\ InChannel(c) => seqno[c] > Taken /\ ~Settled(c)
      /\ Taken \in Nat /\ seqno[c] \in Nat
  BY <1>1, PlacesDisjoint DEF DataInv, Positions, TypeOK
<1>3. hand = c => seqno[c] > 0 /\ ~Settled(c)
  BY <1>1, <1>2, NoCaptureAssumption DEF DataInv, Positions
<1>4. Settled(c) => seqno[c] > 0
  BY <1>1 DEF DataInv, Positions
<1>5. app[c] = "sent" <=> seqno[c] > 0
  BY <1>1 DEF ControlPoints
<1>6. app[c] = "sent" => InChannel(c) \/ hand = c \/ Settled(c)
  BY <1>1, <1>5 DEF DataInv, Complete
<1>7. ~(OnDisk(c) /\ c \in failed) /\ ~(OnDisk(c) /\ c \in lost) /\ ~(c \in failed /\ c \in lost)
  BY <1>1 DEF DataInv, OneOutcome
<1>8. InChannel(c) \/ hand = c => app[c] = "sent" /\ ~Settled(c)
  BY <1>2, <1>3, <1>5
<1>9. app[c] # "sent" => ~Settled(c)
  BY <1>4, <1>5
<1>10. QED
  BY <1>6, <1>7, <1>8, <1>9 DEF FateOf, Settled

LEMMA SameFate ==
  ASSUME NEW d \in Captures, app'[d] = app[d], OnDisk(d)' <=> OnDisk(d),
         (d \in failed)' <=> d \in failed, (d \in lost)' <=> d \in lost
  PROVE  FateOf(d)' = FateOf(d)
BY DEF FateOf, Settled

(* The phase of the log, read off the pc of the one closer.                *)
LEMMA PhaseOfState ==
  ASSUME StoreInv
  PROVE  /\ ~up => LogPhase = "down" /\ LogBacklog = <<>>
         /\ up /\ ~closed => LogPhase = "open"
         /\ up /\ closed => LogPhase \in {"closing", "sealed", "closed"}
         /\ up /\ closed /\ ~chClosed => LogPhase = "closing" /\ dbOpen
         /\ up /\ chClosed /\ dbOpen => LogPhase = "sealed"
         /\ up /\ ~dbOpen => LogPhase = "closed"
         /\ drain = "done" => LogBacklog = <<>>
<1>1. TypeOK /\ ControlPoints /\ (chClosed => closed)
  BY DEF StoreInv, OneCloser
<1>2. /\ drain = "done" => ch = <<>> /\ hand = NoCapture
      /\ ~up => drain = "done"
      /\ up /\ ~dbOpen => chClosed
      /\ closed \in BOOLEAN /\ chClosed \in BOOLEAN /\ dbOpen \in BOOLEAN /\ up \in BOOLEAN
  BY <1>1 DEF ControlPoints, TypeOK
<1>3. QED
  BY <1>1, <1>2 DEF LogPhase, LogBacklog

(* What Accept, Drop, Record and the rest do to the log.                   *)
LEMMA RefinementStep ==
  ASSUME StoreInv, StoreInv', Next
  PROVE  Log!LogNext \/ UNCHANGED <<rows, LogBacklog, LogFate, LogPhase>>
<1> DEFINE same == UNCHANGED <<rows, LogBacklog, LogFate, LogPhase>>
<1>1. FateTable /\ FateTable'
  <2>1. StoreInv' => FateTable'
    BY FateOfPlace, PTL
  <2>2. QED
    BY <2>1, FateOfPlace
<1>2. TypeOK /\ TypeOK' /\ DataInv /\ DataInv' /\ ControlPoints /\ OneCloser
  BY DEF StoreInv, DataInv
<1>3. LogFate = [c \in Captures |-> FateOf(c)] /\ LogFate' = [c \in Captures |-> FateOf(c)']
  BY DEF LogFate
<1>4. ASSUME NEW c \in Captures, AppendCheck(c) PROVE Log!LogNext \/ same
  <2>1. /\ UNCHANGED <<rows, failed, lost, ch, hand, up, closed, chClosed, dbOpen>>
        /\ up /\ app[c] = "idle"
        /\ app' = [app EXCEPT ![c] = IF closed THEN "noop" ELSE "checked"]
    BY <1>4 DEF AppendCheck, procVars, chanVars, drainVars
  <2>2. UNCHANGED <<rows, LogBacklog, LogPhase>>
    BY <2>1 DEF LogBacklog, LogPhase
  <2>3. \A d \in Captures : d # c => FateOf(d)' = FateOf(d)
    BY <2>1, SameFate, <1>2 DEF OnDisk, TypeOK
  <2>4. FateOf(c) = "new"
    BY <2>1, <1>1 DEF FateTable
  <2>5. app'[c] = IF closed THEN "noop" ELSE "checked"
    BY <2>1, <1>2 DEF TypeOK
  <2>6. CASE closed
    <3>1. FateOf(c)' = "refused"
      BY <2>5, <2>6, <1>1 DEF FateTable
    <3>2. LogFate' = [LogFate EXCEPT ![c] = "refused"]
      BY <3>1, <2>3, <1>3
    <3>3. LogPhase \notin {"open", "down"}
      BY <2>1, <2>6, PhaseOfState
    <3>4. Log!Refuse(c)
      BY <2>2, <2>4, <3>2, <3>3, <1>3 DEF Log!Refuse
    <3>5. QED
      BY <3>4 DEF Log!LogNext
  <2>7. CASE ~closed
    <3>1. FateOf(c)' = "new"
      BY <2>5, <2>7, <1>1 DEF FateTable
    <3>2. LogFate' = LogFate
      BY <3>1, <2>3, <2>4, <1>3
    <3>3. QED
      BY <3>2, <2>2
  <2>8. QED
    BY <2>6, <2>7
<1>5. ASSUME NEW c \in Captures, AppendDrop(c) \/ AppendPanic(c) \/ AppendSend(c)
      PROVE  Log!LogNext \/ same
  <2>1. /\ UNCHANGED <<rows, failed, lost, hand, up, closed, chClosed, dbOpen>>
        /\ up /\ app[c] = "checked" /\ FateOf(c) = "new"
        /\ \E r \in AppendStates : app' = [app EXCEPT ![c] = r]
    BY <1>5, <1>1 DEF AppendDrop, AppendPanic, AppendSend, procVars, chanVars, drainVars,
                      FateTable, AppendStates
  <2>2. UNCHANGED <<rows, LogPhase>>
    BY <2>1 DEF LogPhase
  <2>3. \A d \in Captures : d # c => FateOf(d)' = FateOf(d)
    BY <2>1, SameFate, <1>2 DEF OnDisk, TypeOK
  <2>4. Len(LogBacklog) = IF hand = NoCapture THEN Len(ch) ELSE Len(ch) + 1
    BY BacklogHeadTail, <1>2 DEF LogBacklog, TypeOK
  <2>5. CASE AppendDrop(c)
    <3>1. app'[c] = "dropped" /\ ch' = ch /\ ~chClosed /\ Len(ch) >= BufferSize
      BY <2>5, <1>2 DEF AppendDrop, chanVars, TypeOK
    <3>2. LogFate' = [LogFate EXCEPT ![c] = "dropped"]
      BY <3>1, <2>3, <1>1, <1>3 DEF FateTable
    <3>3. LogPhase \in {"open", "closing"}
      BY <3>1, <2>1, PhaseOfState
    <3>4. Len(LogBacklog) >= BufferSize /\ LogBacklog' = LogBacklog
      BY <3>1, <2>1, <2>4, <1>2, BufferSizeAssumption DEF LogBacklog, TypeOK
    <3>5. Log!Drop(c)
      BY <2>1, <2>2, <3>2, <3>3, <3>4, <1>3 DEF Log!Drop
    <3>6. QED
      BY <3>5 DEF Log!LogNext
  <2>6. CASE AppendPanic(c)
    <3>1. app'[c] = "panicked" /\ ch' = ch /\ chClosed /\ closed
      BY <2>6, <1>2 DEF AppendPanic, chanVars, TypeOK, OneCloser
    <3>2. LogFate' = [LogFate EXCEPT ![c] = "refused"]
      BY <3>1, <2>3, <1>1, <1>3 DEF FateTable
    <3>3. LogPhase \notin {"open", "down"}
      BY <3>1, <2>1, PhaseOfState
    <3>4. LogBacklog' = LogBacklog
      BY <3>1, <2>1 DEF LogBacklog
    <3>5. Log!Refuse(c)
      BY <2>1, <2>2, <3>2, <3>3, <3>4, <1>3 DEF Log!Refuse
    <3>6. QED
      BY <3>5 DEF Log!LogNext
  <2>7. CASE AppendSend(c)
    <3>1. app'[c] = "sent" /\ ch' = Append(ch, c) /\ ~chClosed /\ Len(ch) < BufferSize
      BY <2>7, <1>2 DEF AppendSend, TypeOK
    <3>2. FateOf(c)' = "accepted"
      <4>1. ~Settled(c)
        BY <2>1, <1>1 DEF FateTable
      <4>2. ~Settled(c)'
        BY <4>1, <2>1 DEF Settled, OnDisk
      <4>3. QED
        BY <3>1, <4>2 DEF FateOf, Settled
    <3>3. LogFate' = [LogFate EXCEPT ![c] = "accepted"]
      BY <3>2, <2>3, <1>3
    <3>4. LogPhase \in {"open", "closing"}
      BY <3>1, <2>1, PhaseOfState
    <3>5. Len(LogBacklog) <= BufferSize
      BY <3>1, <2>4, <1>2, BufferSizeAssumption DEF TypeOK
    <3>6. LogBacklog' = Append(LogBacklog, c)
      <4>1. CASE hand = NoCapture
        BY <4>1, <3>1, <2>1 DEF LogBacklog
      <4>2. CASE hand # NoCapture
        <5>1. Append(<<hand>> \o ch, c) = <<hand>> \o Append(ch, c)
          BY <4>2, <1>2, BacklogHeadTail DEF TypeOK
        <5>2. QED
          BY <5>1, <4>2, <3>1, <2>1 DEF LogBacklog
      <4>3. QED
        BY <4>1, <4>2
    <3>7. Log!Accept(c)
      BY <2>1, <2>2, <3>3, <3>4, <3>5, <3>6, <1>3 DEF Log!Accept
    <3>8. QED
      BY <3>7 DEF Log!LogNext
  <2>8. QED
    BY <1>5, <2>5, <2>6, <2>7
<1>6. ASSUME NEW k \in Closers, CloseStep(k) PROVE Log!LogNext \/ same
  <2>1. UNCHANGED <<rows, failed, lost, hand, ch, up, app>> /\ up
    BY <1>6 DEF CloseStep, CloseBegin, CloseChannel, CloseDatabase, procVars, chanVars, drainVars
  <2>2. UNCHANGED <<rows, LogBacklog>>
    BY <2>1 DEF LogBacklog
  <2>3. LogFate' = LogFate
    BY <2>1, SameFate, <1>3 DEF OnDisk
  <2>4. CASE CloseBegin(k)
    <3>1. closed' = TRUE /\ UNCHANGED <<chClosed, dbOpen>>
      BY <2>4 DEF CloseBegin, drainVars
    <3>2. CASE closed
      <4>1. closed' = closed
        BY <3>1, <3>2, <1>2 DEF TypeOK
      <4>2. QED
        BY <4>1, <3>1, <2>1, <2>2, <2>3 DEF LogPhase
    <3>3. CASE ~closed
      <4>1. ~chClosed /\ dbOpen
        BY <3>3, <2>1, <1>2 DEF OneCloser, ControlPoints, TypeOK
      <4>2. LogPhase = "open" /\ LogPhase' = "closing"
        BY <3>1, <3>3, <2>1, <4>1 DEF LogPhase
      <4>3. QED
        BY <4>2, <2>2, <2>3 DEF Log!LogNext, Log!BeginClose
    <3>4. QED
      BY <3>2, <3>3
  <2>5. CASE CloseChannel(k)
    <3>1. /\ chClosed' = TRUE /\ UNCHANGED <<closed, dbOpen>>
          /\ closed /\ ~chClosed /\ dbOpen
      BY <2>5, <1>2 DEF CloseChannel, drainVars, OneCloser
    <3>2. LogPhase = "closing" /\ LogPhase' = "sealed"
      BY <3>1, <2>1 DEF LogPhase
    <3>3. QED
      BY <3>2, <2>2, <2>3 DEF Log!LogNext, Log!Seal
  <2>6. CASE CloseDatabase(k)
    <3>1. dbOpen' = FALSE /\ chClosed /\ dbOpen /\ drain = "done"
      BY <2>6, <1>2 DEF CloseDatabase, OneCloser
    <3>2. LogPhase = "sealed" /\ LogPhase' = "closed" /\ LogBacklog = <<>>
      BY <3>1, <2>1, PhaseOfState, <1>2 DEF LogPhase, TypeOK
    <3>3. QED
      BY <3>2, <2>2, <2>3 DEF Log!LogNext, Log!Finish
  <2>7. QED
    BY <1>6, <2>4, <2>5, <2>6 DEF CloseStep
<1>7. CASE DrainReceive
  <2>1. /\ UNCHANGED <<rows, failed, lost, up, closed, chClosed, dbOpen, app>>
        /\ hand = NoCapture /\ ch # <<>> /\ hand' = Head(ch) /\ ch' = Tail(ch)
    BY <1>7, <1>2 DEF DrainReceive, procVars, TypeOK
  <2>2. Head(ch) \in Captures /\ Tail(ch) \in Seq(Captures) /\ <<Head(ch)>> \o Tail(ch) = ch
    BY <2>1, <1>2 DEF TypeOK
  <2>3. LogBacklog' = LogBacklog
    BY <2>1, <2>2, NoCaptureAssumption DEF LogBacklog
  <2>4. LogFate' = LogFate
    BY <2>1, SameFate, <1>3 DEF OnDisk
  <2>5. QED
    BY <2>1, <2>3, <2>4 DEF LogPhase
<1>8. CASE DrainWrite \/ DrainWriteFails
  <2>1. /\ UNCHANGED <<lost, ch, up, closed, chClosed, dbOpen, app>>
        /\ hand \in Captures /\ hand' = NoCapture
    BY <1>8, <1>2 DEF DrainWrite, DrainWriteFails, procVars, chanVars, TypeOK
  <2>2. LogBacklog # <<>> /\ Head(LogBacklog) = hand /\ LogBacklog' = Tail(LogBacklog)
    BY <2>1, <1>2, NoCaptureAssumption, BacklogHeadTail DEF LogBacklog, TypeOK
  <2>3. UNCHANGED LogPhase
    BY <2>1 DEF LogPhase
  <2>4. CASE DrainWrite
    <3>1. rows' = Append(rows, hand) /\ failed' = failed
      BY <2>4 DEF DrainWrite
    <3>2. /\ Len(rows) + 1 \in 1..Len(rows') /\ rows'[Len(rows) + 1] = hand
          /\ \A i \in 1..Len(rows) : rows'[i] = rows[i] /\ i \in 1..Len(rows')
          /\ \A i \in 1..Len(rows') : i \in 1..Len(rows) \/ i = Len(rows) + 1
      BY <3>1, <2>1, <1>2 DEF TypeOK
    <3>3. ASSUME NEW d \in Captures PROVE OnDisk(d)' <=> OnDisk(d) \/ d = hand
      BY <3>2 DEF OnDisk
    <3>4. \A d \in Captures : d # hand => FateOf(d)' = FateOf(d)
      BY <3>1, <3>3, <2>1, SameFate
    <3>5. \A d \in Captures : d = hand => FateOf(d)' = "recorded"
      BY <3>3, <1>1 DEF FateTable
    <3>6. LogFate' = [LogFate EXCEPT ![hand] = "recorded"]
      BY <3>4, <3>5, <2>1, <1>3
    <3>7. Log!Record
      BY <3>1, <3>6, <2>2, <2>3 DEF Log!Record
    <3>8. QED
      BY <3>7 DEF Log!LogNext, Log!Settle
  <2>5. CASE DrainWriteFails
    <3>1. rows' = rows /\ failed' = failed \cup {hand}
      BY <2>5 DEF DrainWriteFails
    <3>2. \A d \in Captures : OnDisk(d)' <=> OnDisk(d)
      BY <3>1 DEF OnDisk
    <3>3. \A d \in Captures : d # hand => FateOf(d)' = FateOf(d)
      BY <3>1, <3>2, <2>1, SameFate
    <3>4. \A d \in Captures : d = hand => FateOf(d)' = "failed"
      BY <3>1, <1>1 DEF FateTable
    <3>5. LogFate' = [LogFate EXCEPT ![hand] = "failed"]
      BY <3>3, <3>4, <2>1, <1>3
    <3>6. Log!Fail
      BY <3>1, <3>5, <2>2, <2>3 DEF Log!Fail
    <3>7. QED
      BY <3>6 DEF Log!LogNext, Log!Settle
  <2>6. QED
    BY <1>8, <2>4, <2>5
<1>9. ASSUME DrainExit \/ \E f \in Flushers : FlushStep(f) PROVE same
  <2>1. UNCHANGED <<rows, failed, lost, ch, hand, up, closed, chClosed, dbOpen, app>>
    BY <1>9 DEF DrainExit, FlushStep, FlushBegin, FlushReturns, FlushTimesOut,
                procVars, chanVars, drainVars
  <2>2. LogFate' = LogFate
    BY <2>1, SameFate, <1>3 DEF OnDisk
  <2>3. QED
    BY <2>1, <2>2 DEF LogBacklog, LogPhase
<1>10. CASE Exit
  <2>1. /\ up /\ up' = FALSE /\ ch' = <<>> /\ hand' = NoCapture
        /\ lost' = lost \cup InMemory /\ UNCHANGED <<rows, failed>>
        /\ \A c \in Captures : app'[c] = IF app[c] = "checked" THEN "cut" ELSE app[c]
    BY <1>10 DEF Exit
  <2>2. LogPhase # "down" /\ LogPhase' = "down" /\ LogBacklog' = <<>>
    BY <2>1 DEF LogPhase, LogBacklog
  <2>3. ASSUME NEW c \in Captures
        PROVE  FateOf(c)' = IF FateOf(c) = "accepted" THEN "lost" ELSE FateOf(c)
    <3>1. OnDisk(c)' <=> OnDisk(c)
      BY <2>1 DEF OnDisk
    <3>2. c \in InMemory <=> InChannel(c) \/ hand = c
      BY NoCaptureAssumption DEF InMemory, InChannel
    <3>3. CASE c \in InMemory
      BY <3>2, <3>3, <2>1, <1>1 DEF FateTable
    <3>4. CASE c \notin InMemory
      <4>1. FateOf(c) # "accepted"
        BY <3>2, <3>4, <1>1, <1>2 DEF FateTable, Settled, AppendStates, TypeOK
      <4>2. FateOf(c)' = FateOf(c)
        <5>1. CASE app[c] = "checked"
          BY <5>1, <2>1, <1>1 DEF FateTable
        <5>2. CASE app[c] # "checked"
          BY <5>2, <3>1, <3>4, <2>1, SameFate
        <5>3. QED
          BY <5>1, <5>2
      <4>3. QED
        BY <4>1, <4>2
    <3>5. QED
      BY <3>3, <3>4
  <2>4. LogFate' = [c \in Captures |-> IF LogFate[c] = "accepted" THEN "lost" ELSE LogFate[c]]
    BY <2>3, <1>3
  <2>5. Log!Die
    BY <2>1, <2>2, <2>4 DEF Log!Die
  <2>6. QED
    BY <2>5 DEF Log!LogNext
<1>11. CASE Reopen
  <2>1. /\ ~up /\ up' = TRUE /\ closed' = FALSE /\ chClosed' = FALSE /\ dbOpen' = TRUE
        /\ ch' = <<>> /\ hand' = NoCapture /\ UNCHANGED <<rows, failed, lost, app>>
    BY <1>11 DEF Reopen
  <2>2. LogPhase = "down" /\ LogBacklog = <<>> /\ LogPhase' = "open" /\ LogBacklog' = <<>>
    BY <2>1, PhaseOfState DEF LogPhase, LogBacklog
  <2>3. LogFate' = LogFate
    BY <2>1, SameFate, <1>3 DEF OnDisk
  <2>4. Log!Restart
    BY <2>1, <2>2, <2>3 DEF Log!Restart
  <2>5. QED
    BY <2>4 DEF Log!LogNext
<1>12. QED
  BY <1>4, <1>5, <1>6, <1>7, <1>8, <1>9, <1>10, <1>11 DEF Next, AppendStep, DrainStep

(* Every behaviour of the store is, seen through the mapping, a behaviour  *)
(* of the log.                                                             *)
THEOREM StoreImplementsLog == Spec => Log!LogSafety
<1>1. Init => Log!LogInit
  <2> SUFFICES ASSUME Init PROVE Log!LogInit
    OBVIOUS
  <2>1. LogBacklog = <<>> /\ LogPhase = "open"
    BY DEF Init, LogBacklog, LogPhase
  <2>2. LogFate = [c \in Captures |-> "new"]
    BY DEF Init, LogFate, FateOf, OnDisk, Settled
  <2>3. QED
    BY <2>1, <2>2 DEF Init, Log!LogInit
<1>2. StoreInv /\ StoreInv' /\ [Next]_vars => [Log!LogNext]_(Log!logVars)
  <2> SUFFICES ASSUME StoreInv, StoreInv', [Next]_vars
               PROVE  Log!LogNext \/ UNCHANGED Log!logVars
    OBVIOUS
  <2>1. CASE Next
    BY <2>1, RefinementStep DEF Log!logVars
  <2>2. CASE UNCHANGED vars
    BY <2>2 DEF vars, Log!logVars, LogBacklog, LogFate, LogPhase, FateOf, OnDisk, Settled
  <2>3. QED
    BY <2>1, <2>2
<1>3. QED
  BY <1>1, <1>2, StoreCorrect, PTL DEF Spec, Log!LogSafety
=============================================================================

---------------------------- MODULE CaptureStore ----------------------------
(***************************************************************************)
(* internal/store/store.go: the asynchronous capture store.                *)
(*                                                                         *)
(* Handler goroutines call Append, which never blocks: it puts the capture *)
(* into a bounded channel or drops it.  One drain goroutine takes captures *)
(* out of the channel and inserts them into SQLite.  Close sets a flag,    *)
(* closes the channel, waits for the drain goroutine and closes the        *)
(* database.  Flush polls the length of the channel.                       *)
(*                                                                         *)
(* A capture stands for itself and for the goroutine that appends it.      *)
(* "rows" is the table on disk: it survives the exit of the process, which *)
(* may happen between any two steps (a signal, or os.Exit in cmdRun).      *)
(***************************************************************************)
EXTENDS Naturals, Sequences

CONSTANTS
  Captures,     \* captures; each is appended at most once
  Closers,      \* goroutines that call Close
  Flushers,     \* goroutines that call Flush
  BufferSize,   \* Options.BufferSize: capacity of the channel
  MaxRestarts,  \* bound on how often the process is started again
  NoCapture     \* the drain goroutine holds nothing

ASSUME BufferSizeAssumption == BufferSize \in Nat \ {0}
ASSUME MaxRestartsAssumption == MaxRestarts \in Nat
ASSUME NoCaptureAssumption == NoCapture \notin Captures

VARIABLES
  up,        \* the process runs
  restarts,  \* how often it was started again
  closed,    \* Store.closed
  chClosed,  \* the channel Store.ch is closed
  ch,        \* the contents of Store.ch, oldest first
  drain,     \* pc of the drain goroutine
  hand,      \* the capture the drain goroutine took out of ch
  dbOpen,    \* Store.db is open
  rows,      \* the table captures, in the order of its AUTOINCREMENT id
  app,       \* pc, and then outcome, of Append(c)
  closer,    \* pc, and then outcome, of each call of Close
  flush,     \* pc, and then outcome, of each call of Flush
  \* history:
  accepted,  \* how many captures ch ever took
  seqno,     \* the position at which ch took c, 0 when it did not
  upto,      \* "accepted" when the Flush began
  failed,    \* captures whose insert failed (drain only logs it)
  lost       \* captures that were in memory when the process ended

procVars == <<up, restarts>>
chanVars == <<closed, chClosed, ch>>
drainVars == <<drain, hand, dbOpen, rows, failed>>
histVars == <<accepted, seqno>>
flushVars == <<flush, upto>>
vars == <<up, restarts, closed, chClosed, ch, drain, hand, dbOpen, rows, app,
          closer, flush, accepted, seqno, upto, failed, lost>>

AppendStates == {"idle", "checked", "sent", "dropped", "noop", "panicked", "cut"}
CloseStates  == {"idle", "won", "waiting", "returned", "skipped", "panicked"}
FlushStates  == {"idle", "polling", "ok", "timeout", "cut"}
DrainStates  == {"receive", "write", "done"}

TypeOK ==
  /\ up \in BOOLEAN
  /\ restarts \in 0..MaxRestarts
  /\ closed \in BOOLEAN
  /\ chClosed \in BOOLEAN
  /\ ch \in Seq(Captures)
  /\ Len(ch) <= BufferSize
  /\ drain \in DrainStates
  /\ hand \in IF drain = "write" THEN Captures ELSE {NoCapture}
  /\ dbOpen \in BOOLEAN
  /\ rows \in Seq(Captures)
  /\ app \in [Captures -> AppendStates]
  /\ closer \in [Closers -> CloseStates]
  /\ flush \in [Flushers -> FlushStates]
  /\ accepted \in Nat
  /\ seqno \in [Captures -> Nat]
  /\ upto \in [Flushers -> Nat]
  /\ failed \subseteq Captures
  /\ lost \subseteq Captures

(* Open on an empty directory: the schema is applied, drain is started.    *)
Init ==
  /\ up = TRUE /\ restarts = 0
  /\ closed = FALSE /\ chClosed = FALSE /\ ch = <<>>
  /\ drain = "receive" /\ hand = NoCapture
  /\ dbOpen = TRUE /\ rows = <<>>
  /\ app = [c \in Captures |-> "idle"]
  /\ closer = [k \in Closers |-> "idle"]
  /\ flush = [f \in Flushers |-> "idle"]
  /\ accepted = 0 /\ seqno = [c \in Captures |-> 0]
  /\ upto = [f \in Flushers |-> 0]
  /\ failed = {} /\ lost = {}

-----------------------------------------------------------------------------
(* Plausible mistakes, one per property: what the code would be with a     *)
(* guard dropped or an order changed. No specification uses them; each     *)
(* stands in for the action it is named after to show that a property of   *)
(* this module would notice.                                               *)

\* A full buffer evicts its oldest capture.
AppendDropOldest(c) ==
  /\ up /\ app[c] = "checked"
  /\ ~chClosed /\ Len(ch) >= BufferSize
  /\ ch' = Append(Tail(ch), c)
  /\ app' = [app EXCEPT ![c] = "sent"]
  /\ accepted' = accepted + 1
  /\ seqno' = [seqno EXCEPT ![c] = accepted + 1]
  /\ UNCHANGED <<procVars, closed, chClosed, drainVars, flushVars, closer, lost>>

\* Close without the compare-and-swap.
CloseBeginUnguarded(k) ==
  /\ up /\ closer[k] = "idle"
  /\ closed' = TRUE
  /\ closer' = [closer EXCEPT ![k] = "won"]
  /\ UNCHANGED <<procVars, chClosed, ch, drainVars, histVars, flushVars, app, lost>>

\* Close that only sets the flag and waits.
CloseChannelForgotten(k) ==
  /\ up /\ closer[k] = "won"
  /\ closer' = [closer EXCEPT ![k] = "waiting"]
  /\ UNCHANGED <<procVars, chanVars, drainVars, histVars, flushVars, app, lost>>

\* Close without wg.Wait().
CloseDatabaseEarly(k) ==
  /\ up /\ closer[k] = "waiting"
  /\ dbOpen' = FALSE
  /\ closer' = [closer EXCEPT ![k] = "returned"]
  /\ UNCHANGED <<procVars, chanVars, drain, hand, rows, failed, histVars,
                 flushVars, app, lost>>

\* drain takes the newest capture.
DrainReceiveNewest ==
  /\ up /\ drain = "receive"
  /\ ch # <<>>
  /\ hand' = ch[Len(ch)]
  /\ ch' = SubSeq(ch, 1, Len(ch) - 1)
  /\ drain' = "write"
  /\ UNCHANGED <<procVars, closed, chClosed, dbOpen, rows, failed, histVars,
                 flushVars, app, closer, lost>>

\* drain stops as soon as it sees the channel closed.
DrainExitEarly ==
  /\ up /\ drain = "receive"
  /\ chClosed
  /\ drain' = "done"
  /\ UNCHANGED <<procVars, chanVars, hand, dbOpen, rows, failed, histVars,
                 flushVars, app, closer, lost>>

\* Flush with an off-by-one in its test.
FlushReturnsEarly(f) ==
  /\ up /\ flush[f] = "polling"
  /\ Len(ch) <= 1
  /\ flush' = [flush EXCEPT ![f] = "ok"]
  /\ UNCHANGED <<procVars, chanVars, drainVars, histVars, upto, app, closer, lost>>

-----------------------------------------------------------------------------
(* Append                                                                  *)

\* closed.Load(): a no-op once Close has begun.
AppendCheck(c) ==
  /\ up /\ app[c] = "idle"
  /\ app' = [app EXCEPT ![c] = IF closed THEN "noop" ELSE "checked"]
  /\ UNCHANGED <<procVars, chanVars, drainVars, histVars, flushVars, closer, lost>>

\* case s.ch <- c
AppendSend(c) ==
  /\ up /\ app[c] = "checked"
  /\ ~chClosed /\ Len(ch) < BufferSize
  /\ ch' = Append(ch, c)
  /\ app' = [app EXCEPT ![c] = "sent"]
  /\ accepted' = accepted + 1
  /\ seqno' = [seqno EXCEPT ![c] = accepted + 1]
  /\ UNCHANGED <<procVars, closed, chClosed, drainVars, flushVars, closer, lost>>

\* default: the capture is counted in Store.dropped and forgotten.
AppendDrop(c) ==
  /\ up /\ app[c] = "checked"
  /\ ~chClosed /\ Len(ch) >= BufferSize
  /\ app' = [app EXCEPT ![c] = "dropped"]
  /\ UNCHANGED <<procVars, chanVars, drainVars, histVars, flushVars, closer, lost>>

\* A send on a closed channel panics, in a select too. net/http recovers the
\* panic of a handler, so the process goes on without the capture.
AppendPanic(c) ==
  /\ up /\ app[c] = "checked"
  /\ chClosed
  /\ app' = [app EXCEPT ![c] = "panicked"]
  /\ UNCHANGED <<procVars, chanVars, drainVars, histVars, flushVars, closer, lost>>

-----------------------------------------------------------------------------
(* Close                                                                   *)

\* closed.CompareAndSwap(false, true): whoever loses returns nil at once.
CloseBegin(k) ==
  /\ up /\ closer[k] = "idle"
  /\ closed' = TRUE
  /\ closer' = [closer EXCEPT ![k] = IF closed THEN "skipped" ELSE "won"]
  /\ UNCHANGED <<procVars, chClosed, ch, drainVars, histVars, flushVars, app, lost>>

\* close(s.ch), which panics on a closed channel.
CloseChannel(k) ==
  /\ up /\ closer[k] = "won"
  /\ chClosed' = TRUE
  /\ closer' = [closer EXCEPT ![k] = IF chClosed THEN "panicked" ELSE "waiting"]
  /\ UNCHANGED <<procVars, closed, ch, drainVars, histVars, flushVars, app, lost>>

\* wg.Wait() and then db.Close()
CloseDatabase(k) ==
  /\ up /\ closer[k] = "waiting"
  /\ drain = "done"
  /\ dbOpen' = FALSE
  /\ closer' = [closer EXCEPT ![k] = "returned"]
  /\ UNCHANGED <<procVars, chanVars, drain, hand, rows, failed, histVars,
                 flushVars, app, lost>>

-----------------------------------------------------------------------------
(* drain                                                                   *)

\* for c := range s.ch
DrainReceive ==
  /\ up /\ drain = "receive"
  /\ ch # <<>>
  /\ hand' = Head(ch)
  /\ ch' = Tail(ch)
  /\ drain' = "write"
  /\ UNCHANGED <<procVars, closed, chClosed, dbOpen, rows, failed, histVars,
                 flushVars, app, closer, lost>>

\* The range loop ends when the channel is closed and empty.
DrainExit ==
  /\ up /\ drain = "receive"
  /\ ch = <<>> /\ chClosed
  /\ drain' = "done"
  /\ UNCHANGED <<procVars, chanVars, hand, dbOpen, rows, failed, histVars,
                 flushVars, app, closer, lost>>

\* write(c) inserts the row.
DrainWrite ==
  /\ up /\ drain = "write"
  /\ dbOpen
  /\ rows' = Append(rows, hand)
  /\ hand' = NoCapture
  /\ drain' = "receive"
  /\ UNCHANGED <<procVars, chanVars, dbOpen, failed, histVars, flushVars, app,
                 closer, lost>>

\* The insert fails, or takes more than five seconds; drain only logs that.
DrainWriteFails ==
  /\ up /\ drain = "write"
  /\ failed' = failed \cup {hand}
  /\ hand' = NoCapture
  /\ drain' = "receive"
  /\ UNCHANGED <<procVars, chanVars, dbOpen, rows, histVars, flushVars, app,
                 closer, lost>>

-----------------------------------------------------------------------------
(* Flush                                                                   *)

FlushBegin(f) ==
  /\ up /\ flush[f] = "idle"
  /\ flush' = [flush EXCEPT ![f] = "polling"]
  /\ upto' = [upto EXCEPT ![f] = accepted]
  /\ UNCHANGED <<procVars, chanVars, drainVars, histVars, app, closer, lost>>

\* len(s.ch) == 0
FlushReturns(f) ==
  /\ up /\ flush[f] = "polling"
  /\ ch = <<>>
  /\ flush' = [flush EXCEPT ![f] = "ok"]
  /\ UNCHANGED <<procVars, chanVars, drainVars, histVars, upto, app, closer, lost>>

\* ctx.Done()
FlushTimesOut(f) ==
  /\ up /\ flush[f] = "polling"
  /\ flush' = [flush EXCEPT ![f] = "timeout"]
  /\ UNCHANGED <<procVars, chanVars, drainVars, histVars, upto, app, closer, lost>>

-----------------------------------------------------------------------------
(* The process ends at any moment, with whatever Close has done by then;   *)
(* a later "aig run" or "aig serve" opens the same database file.          *)

InMemory == {ch[i] : i \in 1..Len(ch)} \cup ({hand} \ {NoCapture})

Exit ==
  /\ up
  /\ up' = FALSE
  /\ lost' = lost \cup InMemory
  /\ ch' = <<>> /\ hand' = NoCapture /\ drain' = "done" /\ dbOpen' = FALSE
  /\ app' = [c \in Captures |-> IF app[c] = "checked" THEN "cut" ELSE app[c]]
  /\ closer' = [k \in Closers |-> "idle"]
  /\ flush' = [f \in Flushers |-> IF flush[f] = "polling" THEN "cut" ELSE flush[f]]
  /\ UNCHANGED <<restarts, closed, chClosed, rows, failed, histVars, upto>>

Reopen ==
  /\ ~up
  /\ restarts < MaxRestarts
  /\ up' = TRUE
  /\ restarts' = restarts + 1
  /\ closed' = FALSE /\ chClosed' = FALSE /\ ch' = <<>>
  /\ drain' = "receive" /\ hand' = NoCapture /\ dbOpen' = TRUE
  /\ UNCHANGED <<rows, failed, histVars, flushVars, app, closer, lost>>

-----------------------------------------------------------------------------

AppendStep(c) == AppendCheck(c) \/ AppendSend(c) \/ AppendDrop(c) \/ AppendPanic(c)
CloseStep(k) == CloseBegin(k) \/ CloseChannel(k) \/ CloseDatabase(k)
DrainStep == DrainReceive \/ DrainExit \/ DrainWrite \/ DrainWriteFails
FlushStep(f) == FlushBegin(f) \/ FlushReturns(f) \/ FlushTimesOut(f)

Next ==
  \/ \E c \in Captures : AppendStep(c)
  \/ \E k \in Closers : CloseStep(k)
  \/ DrainStep
  \/ \E f \in Flushers : FlushStep(f)
  \/ Exit
  \/ Reopen

(* The Go scheduler runs every goroutine that can run. Nobody is obliged   *)
(* to call Append, Close or Flush; a write ends within five seconds.       *)
Fairness ==
  /\ WF_vars(DrainStep)
  /\ \A c \in Captures : WF_vars(AppendSend(c) \/ AppendDrop(c) \/ AppendPanic(c))
  /\ \A k \in Closers : WF_vars(CloseChannel(k) \/ CloseDatabase(k))

Spec == Init /\ [][Next]_vars
FairSpec == Spec /\ Fairness

-----------------------------------------------------------------------------
(* Safety                                                                  *)

InChannel(c) == \E i \in 1..Len(ch) : ch[i] = c
OnDisk(c)    == \E i \in 1..Len(rows) : rows[i] = c
Settled(c)   == OnDisk(c) \/ c \in failed \/ c \in lost

(* No capture is silently lost and none is duplicated: a capture the       *)
(* channel took is in exactly one place, which is the channel, the hand of *)
(* drain, the table, or one of the two failures the code admits; one it    *)
(* did not take is nowhere. (Append, drain, write, Close; process exit.)   *)
NothingVanishes ==
  \A c \in Captures :
    /\ seqno[c] > 0 <=> InChannel(c) \/ hand = c \/ Settled(c)
    /\ InChannel(c) => hand # c /\ ~Settled(c)
    /\ hand = c => ~Settled(c)
    /\ ~(OnDisk(c) /\ c \in failed) /\ ~(OnDisk(c) /\ c \in lost)
    /\ ~(c \in failed /\ c \in lost)

(* The ids of the rows follow the order in which Append accepted the       *)
(* captures, over restarts too, so List's "newest first" and ListSince's   *)
(* cursor mean what the API says; no capture has two rows.                 *)
RowsInOrder ==
  \A i, j \in 1..Len(rows) : i < j => seqno[rows[i]] < seqno[rows[j]]

(* However many goroutines call Close, the channel is closed once and      *)
(* drain never writes to a closed database; when the Close that won the    *)
(* compare-and-swap has returned, everything any Append ever got into the  *)
(* channel is settled, and drain is gone.                                  *)
CloseFlushes ==
  /\ drain = "write" => dbOpen
  /\ \A k \in Closers :
       /\ closer[k] # "panicked"
       /\ closer[k] = "returned" =>
            /\ drain = "done" /\ ~dbOpen
            /\ \A c \in Captures : seqno[c] > 0 => Settled(c)

(* After Flush has returned nil, at most one of the captures accepted      *)
(* before the call is still unsettled: the one drain holds. store.go:269   *)
(* promises none.                                                          *)
FlushLeavesAtMostOne ==
  \A f \in Flushers : flush[f] = "ok" =>
    \A c \in Captures : seqno[c] \in 1..upto[f] => Settled(c) \/ hand = c

-----------------------------------------------------------------------------
(* The inductive invariant behind the safety properties. "Taken" counts    *)
(* the captures that ever left the channel: the channel holds the          *)
(* positions after it, drain holds that very position, and whatever is     *)
(* settled came before.                                                    *)

Taken == accepted - Len(ch)

Positions ==
  /\ Taken \in Nat
  /\ \A i \in 1..Len(ch) : seqno[ch[i]] = Taken + i
  /\ hand # NoCapture => seqno[hand] = Taken /\ Taken > 0
  /\ \A c \in Captures : Settled(c) =>
       seqno[c] > 0 /\ seqno[c] <= Taken /\ (hand # NoCapture => seqno[c] < Taken)

OneOutcome ==
  \A c \in Captures :
    /\ ~(OnDisk(c) /\ c \in failed)
    /\ ~(OnDisk(c) /\ c \in lost)
    /\ ~(c \in failed /\ c \in lost)

Complete ==
  \A c \in Captures : seqno[c] > 0 => InChannel(c) \/ hand = c \/ Settled(c)

ControlPoints ==
  /\ \A c \in Captures : app[c] = "sent" <=> seqno[c] > 0
  /\ drain = "done" => ch = <<>> /\ (up => chClosed)
  /\ drain # "done" => dbOpen
  /\ ~up => drain = "done" /\ \A k \in Closers : closer[k] = "idle"

OneCloser ==
  /\ chClosed => closed
  /\ ~closed => \A k \in Closers : closer[k] = "idle"
  /\ \A k \in Closers :
       /\ closer[k] # "panicked"
       /\ closer[k] = "won" => closed /\ ~chClosed
       /\ closer[k] \in {"waiting", "returned"} => chClosed
       /\ closer[k] \in {"won", "waiting"} => dbOpen
       /\ closer[k] = "returned" => drain = "done" /\ ~dbOpen
  /\ \A j, k \in Closers :
       closer[j] \in {"won", "waiting", "returned"}
         /\ closer[k] \in {"won", "waiting", "returned"} => j = k

FlushPositions ==
  \A f \in Flushers :
    /\ upto[f] <= accepted
    /\ flush[f] = "ok" => upto[f] <= Taken

(* Positions in the channel, in drain's hand and on disk fit together; the *)
(* pcs of drain and of the one closer agree with the channel's state.      *)
StoreInv ==
  /\ TypeOK /\ Positions /\ RowsInOrder /\ OneOutcome /\ Complete
  /\ ControlPoints /\ OneCloser /\ FlushPositions

-----------------------------------------------------------------------------
(* Liveness                                                                *)

(* A Close that won returns, unless the process ends first: a stalled      *)
(* insert cannot hold it up for ever.                                      *)
CloseReturns ==
  \A k \in Closers : closer[k] = "won" ~> closer[k] = "returned" \/ ~up

-----------------------------------------------------------------------------
(* What a comment of store.go says and the code does not do                *)

(* store.go:119: "Append is safe to call from any goroutine. After Close,  *)
(* Append is a no-op." A call that read closed before Close set it and     *)
(* sends after close(s.ch) panics.                                         *)
AppendNeverPanics == \A c \in Captures : app[c] # "panicked"

-----------------------------------------------------------------------------
(* The store implements CaptureLog: the backlog is what drain holds and    *)
(* then the channel; only the flag, the channel and the database say how   *)
(* far a Close has come.                                                   *)

LogBacklog == IF hand = NoCapture THEN ch ELSE <<hand>> \o ch

FateOf(c) ==
  CASE OnDisk(c) -> "recorded"
    [] c \in failed -> "failed"
    [] c \in lost -> "lost"
    [] app[c] = "sent" /\ ~Settled(c) -> "accepted"
    [] app[c] = "dropped" -> "dropped"
    [] app[c] \in {"noop", "panicked"} -> "refused"
    [] OTHER -> "new"

LogFate == [c \in Captures |-> FateOf(c)]

LogPhase ==
  CASE ~up -> "down"
    [] up /\ ~dbOpen -> "closed"
    [] up /\ dbOpen /\ chClosed -> "sealed"
    [] up /\ dbOpen /\ ~chClosed /\ closed -> "closing"
    [] OTHER -> "open"

Log == INSTANCE CaptureLog WITH
         log <- rows, backlog <- LogBacklog, fate <- LogFate, phase <- LogPhase

(* Every behaviour of the store is one of CaptureLog.                      *)
ImplementsLog == Log!LogSpec
=============================================================================

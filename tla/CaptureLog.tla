----------------------------- MODULE CaptureLog -----------------------------
(***************************************************************************)
(* What internal/store promises the rest of ai-guard, with no goroutines:  *)
(* an append-only log of captures behind a bounded backlog.                *)
(*                                                                         *)
(* A capture handed to the log gets exactly one fate.  It is accepted into *)
(* the backlog, or dropped because the backlog is full, or refused because *)
(* the log is being closed.  An accepted capture is recorded in the order  *)
(* of acceptance, or its write fails, or the process dies first.  A log    *)
(* that has finished closing has an empty backlog.                         *)
(*                                                                         *)
(* CaptureStore is shown to implement this specification.                  *)
(***************************************************************************)
EXTENDS Naturals, Sequences

CONSTANTS
  Captures,    \* the captures that may be offered to the log
  BufferSize   \* depth of the channel (store.Options.BufferSize)

VARIABLES
  log,       \* the captures on disk, oldest first
  backlog,   \* accepted captures that are not settled yet, oldest first
  fate,      \* what became of each capture
  phase      \* where the log is in its life

logVars == <<log, backlog, fate, phase>>

Fates  == {"new", "accepted", "recorded", "failed", "lost", "dropped", "refused"}
Phases == {"open", "closing", "sealed", "closed", "down"}

LogTypeOK ==
  /\ log \in Seq(Captures)
  /\ backlog \in Seq(Captures)
  /\ fate \in [Captures -> Fates]
  /\ phase \in Phases

LogInit ==
  /\ log = <<>>
  /\ backlog = <<>>
  /\ fate = [c \in Captures |-> "new"]
  /\ phase = "open"

-----------------------------------------------------------------------------
(* Offering a capture. The backlog is the channel and the one capture that *)
(* is being written, hence the bound BufferSize + 1.                       *)

Accept(c) ==
  /\ phase \in {"open", "closing"}
  /\ fate[c] = "new"
  /\ Len(backlog) <= BufferSize
  /\ backlog' = Append(backlog, c)
  /\ fate' = [fate EXCEPT ![c] = "accepted"]
  /\ UNCHANGED <<log, phase>>

Drop(c) ==
  /\ phase \in {"open", "closing"}
  /\ fate[c] = "new"
  /\ Len(backlog) >= BufferSize
  /\ fate' = [fate EXCEPT ![c] = "dropped"]
  /\ UNCHANGED <<log, backlog, phase>>

Refuse(c) ==
  /\ phase \notin {"open", "down"}
  /\ fate[c] = "new"
  /\ fate' = [fate EXCEPT ![c] = "refused"]
  /\ UNCHANGED <<log, backlog, phase>>

-----------------------------------------------------------------------------
(* Settling the oldest capture of the backlog.                             *)

Record ==
  /\ backlog # <<>>
  /\ log' = Append(log, Head(backlog))
  /\ backlog' = Tail(backlog)
  /\ fate' = [fate EXCEPT ![Head(backlog)] = "recorded"]
  /\ UNCHANGED phase

Fail ==
  /\ backlog # <<>>
  /\ backlog' = Tail(backlog)
  /\ fate' = [fate EXCEPT ![Head(backlog)] = "failed"]
  /\ UNCHANGED <<log, phase>>

Settle == Record \/ Fail

-----------------------------------------------------------------------------
(* Closing, dying, coming back.                                            *)

BeginClose ==
  /\ phase = "open"
  /\ phase' = "closing"
  /\ UNCHANGED <<log, backlog, fate>>

Seal ==
  /\ phase = "closing"
  /\ phase' = "sealed"
  /\ UNCHANGED <<log, backlog, fate>>

Finish ==
  /\ phase = "sealed"
  /\ backlog = <<>>
  /\ phase' = "closed"
  /\ UNCHANGED <<log, backlog, fate>>

Die ==
  /\ phase # "down"
  /\ phase' = "down"
  /\ backlog' = <<>>
  /\ fate' = [c \in Captures |-> IF fate[c] = "accepted" THEN "lost" ELSE fate[c]]
  /\ UNCHANGED log

Restart ==
  /\ phase = "down"
  /\ phase' = "open"
  /\ UNCHANGED <<log, backlog, fate>>

-----------------------------------------------------------------------------

LogNext ==
  \/ \E c \in Captures : Accept(c) \/ Drop(c) \/ Refuse(c)
  \/ Settle
  \/ BeginClose \/ Seal \/ Finish
  \/ Die \/ Restart

(* Nothing obliges anyone to close the log; once begun, closing finishes.  *)
LogFairness ==
  /\ WF_logVars(Settle)
  /\ WF_logVars(Seal)
  /\ WF_logVars(Finish)

LogSafety == LogInit /\ [][LogNext]_logVars
LogSpec == LogSafety /\ LogFairness
=============================================================================

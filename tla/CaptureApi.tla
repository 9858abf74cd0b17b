----------------------------- MODULE CaptureApi -----------------------------
(***************************************************************************)
(* How clients of the API follow the captures table: the event stream      *)
(* (internal/api handleStream) and the pages of the list                   *)
(* (handleListCaptures), over the queries of internal/store (LastID,       *)
(* ListSince, List), while sessions insert rows.                           *)
(*                                                                         *)
(* Ids are given out in the order in which rows become visible (SQLite has *)
(* one writer at a time) and rows are never removed: the table is 1..rows. *)
(* A query sees one snapshot of it. The client that reads a list asks for  *)
(* pages until one is empty; it is external. "start", "sent", "seen" and   *)
(* "heard" are history.                                                    *)
(***************************************************************************)
EXTENDS Integers, Sequences, SequencesExt

CONSTANTS
  Streams,       \* connections to /api/stream
  Readers,       \* clients that page through /api/captures
  StreamPage,    \* the 100 of ListSince in handleStream
  DefaultLimit,  \* the 50 of handleListCaptures
  MaxLimit,      \* its 200
  AskedLimits,   \* the values of "limit" asked for; 0 for none, or not a number
  MaxRows        \* bound on rows

ASSUME CaptureApiAssumption ==
  /\ StreamPage \in Nat \ {0}
  /\ DefaultLimit \in Nat \ {0} /\ MaxLimit \in Nat \ {0}
  /\ AskedLimits \subseteq Int
  /\ MaxRows \in Nat

VARIABLES
  rows,    \* how many rows the table has
  conn,    \* where each stream is
  cursor,  \* its cursor
  page,    \* what is left of the page it is sending
  start,   \* how many rows there were when it was opened
  sent,    \* the ids it has sent
  asked,   \* where each reader is
  before,  \* before_id of its next request
  seen,    \* the ids it has read
  heard    \* the streams that were open when it read its first page

streamVars == <<conn, cursor, page, start, sent>>
readerVars == <<asked, before, seen, heard>>
vars == <<rows, conn, cursor, page, start, sent, asked, before, seen, heard>>

Open == {"waiting", "sending"}

CaptureApiTypeOK ==
  /\ rows \in 0..MaxRows
  /\ conn \in [Streams -> {"new", "gone"} \cup Open]
  /\ cursor \in [Streams -> 0..rows] /\ start \in [Streams -> 0..rows]
  /\ page \in [Streams -> Seq(Nat)] /\ sent \in [Streams -> Seq(Nat)]
  /\ asked \in [Readers -> {"new", "more", "done"}]
  /\ before \in [Readers -> 0..rows]
  /\ seen \in [Readers -> Seq(Nat)]
  /\ heard \in [Readers -> SUBSET Streams]

-----------------------------------------------------------------------------
(* The queries                                                             *)

Least(a, b) == IF a <= b THEN a ELSE b

(* ListSince: ids above the cursor, the lowest first.                      *)
ListSince(since, limit) ==
  [i \in 1..Least(limit, rows - since) |-> since + i]

(* A plausible mistake; no specification uses it: below beforeID - 1.      *)
ListSkipping(beforeID, limit) ==
  LET top == IF beforeID > 1 THEN beforeID - 2 ELSE IF beforeID = 1 THEN 0 ELSE rows
  IN  [i \in 1..Least(limit, top) |-> top - i + 1]

(* List: ids below beforeID if that is positive, the highest first.        *)
List(beforeID, limit) ==
  LET top == IF beforeID > 0 THEN beforeID - 1 ELSE rows
  IN  [i \in 1..Least(limit, top) |-> top - i + 1]

Clamped(limit) == IF limit <= 0 THEN DefaultLimit ELSE Least(limit, MaxLimit)

-----------------------------------------------------------------------------

CaptureApiInit ==
  /\ rows \in 0..MaxRows
  /\ conn = [c \in Streams |-> "new"]
  /\ cursor = [c \in Streams |-> 0] /\ start = [c \in Streams |-> 0]
  /\ page = [c \in Streams |-> <<>>] /\ sent = [c \in Streams |-> <<>>]
  /\ asked = [r \in Readers |-> "new"]
  /\ before = [r \in Readers |-> 0]
  /\ seen = [r \in Readers |-> <<>>]
  /\ heard = [r \in Readers |-> {}]

\* A session writes a capture.
Insert ==
  /\ rows < MaxRows
  /\ rows' = rows + 1
  /\ UNCHANGED <<streamVars, readerVars>>

-----------------------------------------------------------------------------
(* handleStream                                                            *)

Connected(c, from) ==
  /\ conn[c] = "new"
  /\ conn' = [conn EXCEPT ![c] = "waiting"]
  /\ cursor' = [cursor EXCEPT ![c] = from]
  /\ start' = [start EXCEPT ![c] = rows]
  /\ UNCHANGED <<rows, page, sent, readerVars>>

Connect(c) == Connected(c, rows)

\* LastID fails: a warning, and the cursor is 0, so that the whole history is
\* sent as new.
ConnectBlindly(c) == Connected(c, 0)

(* A plausible mistake; no specification uses it: newest first.            *)
TickNewest(c) ==
  /\ conn[c] = "waiting" /\ cursor[c] < rows
  /\ page' = [page EXCEPT ![c] = Reverse(
       [i \in 1..Least(StreamPage, rows - cursor[c]) |-> rows - i + 1])]
  /\ conn' = [conn EXCEPT ![c] = "sending"]
  /\ UNCHANGED <<rows, cursor, start, sent, readerVars>>

(* A tick with something to send. One whose query fails, or finds nothing, *)
(* changes nothing: the next tick tries again.                             *)
Tick(c) ==
  /\ conn[c] = "waiting" /\ cursor[c] < rows
  /\ page' = [page EXCEPT ![c] = ListSince(cursor[c], StreamPage)]
  /\ conn' = [conn EXCEPT ![c] = "sending"]
  /\ UNCHANGED <<rows, cursor, start, sent, readerVars>>

Send(c) ==
  /\ conn[c] = "sending"
  /\ sent' = [sent EXCEPT ![c] = Append(@, Head(page[c]))]
  /\ cursor' = [cursor EXCEPT ![c] = Head(page[c])]
  /\ page' = [page EXCEPT ![c] = Tail(@)]
  /\ conn' = [conn EXCEPT ![c] = IF Len(page[c]) = 1 THEN "waiting" ELSE @]
  /\ UNCHANGED <<rows, start, readerVars>>

\* The client goes away; the rest of the page is written to no one.
Disconnect(c) ==
  /\ conn[c] \in Open
  /\ conn' = [conn EXCEPT ![c] = "gone"]
  /\ UNCHANGED <<rows, cursor, page, start, sent, readerVars>>

-----------------------------------------------------------------------------
(* handleListCaptures, asked page after page                               *)

ReadPage(r, limit) ==
  /\ asked[r] # "done"
  /\ LET items == List(before[r], Clamped(limit))
     IN  IF items = <<>>
         THEN asked' = [asked EXCEPT ![r] = "done"] /\ UNCHANGED <<before, seen>>
         ELSE /\ asked' = [asked EXCEPT ![r] = "more"]
              /\ before' = [before EXCEPT ![r] = items[Len(items)]]
              /\ seen' = [seen EXCEPT ![r] = @ \o items]
  /\ heard' = IF asked[r] = "new"
              THEN [heard EXCEPT ![r] = {c \in Streams : conn[c] \in Open}]
              ELSE heard
  /\ UNCHANGED <<rows, streamVars>>

-----------------------------------------------------------------------------

StreamStep(c) ==
  Connect(c) \/ ConnectBlindly(c) \/ Tick(c) \/ Send(c) \/ Disconnect(c)

CaptureApiNext ==
  \/ Insert
  \/ \E c \in Streams : StreamStep(c)
  \/ \E r \in Readers, limit \in AskedLimits : ReadPage(r, limit)

CaptureApiSpec == CaptureApiInit /\ [][CaptureApiNext]_vars

-----------------------------------------------------------------------------
(* Properties                                                              *)

Origin(c) == cursor[c] - Len(sent[c])

(* store.go:177 "push new captures in the order they were recorded": a     *)
(* stream sends every id from where it began up to its cursor, in order    *)
(* and once, whatever is inserted while it reads and sends its pages.      *)
StreamIsExact ==
  \A c \in Streams :
    /\ Origin(c) \in {0, start[c]}
    /\ \A i \in 1..Len(sent[c]) : sent[c][i] = Origin(c) + i
    /\ \A i \in 1..Len(page[c]) : page[c][i] = cursor[c] + i

(* store.go:151 "cursor pagination": following before_id gives every row   *)
(* from the newest one of the first page down, each once, and all of them  *)
(* when the pages end, whatever limits are asked for and rows inserted.    *)
PagesAreExact ==
  \A r \in Readers :
    /\ \A i \in 1..Len(seen[r]) : seen[r][i] = before[r] + Len(seen[r]) - i
    /\ asked[r] = "done" => seen[r] = <<>> \/ before[r] = 1

(* A client that opens the stream before it reads the list misses nothing: *)
(* what the pages do not have comes over the stream.                       *)
NothingMissed ==
  \A r \in Readers : asked[r] = "done" =>
    \A c \in heard[r] : 1..cursor[c] \subseteq Range(seen[r]) \cup Range(sent[c])

(* What the three rest on: where a page fits in, and that a reader's first *)
(* row is not below the origin of a stream it heard.                       *)
Newest(r) == IF seen[r] = <<>> THEN 0 ELSE before[r] + Len(seen[r]) - 1

CaptureApiInv ==
  /\ CaptureApiTypeOK /\ StreamIsExact /\ PagesAreExact
  /\ \A c \in Streams :
       /\ conn[c] = "new" => sent[c] = <<>> /\ cursor[c] = 0
       /\ conn[c] \in {"new", "waiting"} => page[c] = <<>>
       /\ conn[c] = "sending" => page[c] # <<>>
       /\ cursor[c] + Len(page[c]) <= rows
  /\ \A r \in Readers :
       /\ asked[r] = "new" => seen[r] = <<>> /\ before[r] = 0 /\ heard[r] = {}
       /\ seen[r] # <<>> <=> before[r] > 0
       /\ asked[r] = "more" => seen[r] # <<>>
       /\ Newest(r) <= rows
       /\ \A c \in heard[r] : conn[c] # "new" /\ Origin(c) <= Newest(r)
=============================================================================

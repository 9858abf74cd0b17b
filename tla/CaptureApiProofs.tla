-------------------------- MODULE CaptureApiProofs --------------------------
(***************************************************************************)
(* The event stream and the pages of the list give every capture once and  *)
(* in order, for any sizes of pages, limits, clients and rows.             *)
(***************************************************************************)
EXTENDS ApiServer, SequenceTheorems, TLAPS

(* A function on 1..n into the numbers is a sequence of length n.          *)
LEMMA FunctionIsSeq ==
  ASSUME NEW n \in Nat, NEW f \in [1..n -> Nat]
  PROVE  f \in Seq(Nat) /\ Len(f) = n
<1>1. f \in Seq(Nat)
  <2>1. Seq(Nat) = UNION {[1..k -> Nat] : k \in Nat}
    BY SeqDef, Zenon
  <2> QED
    BY <2>1, Zenon
<1>2. Len(f) \in Nat /\ DOMAIN f = 1..Len(f)
  BY <1>1, LenProperties, Zenon
<1>3. DOMAIN f = 1..n
  OBVIOUS
<1>4. ASSUME NEW k \in Nat, 1..k = 1..n PROVE k = n
  <2>1. (k \in 1..k \/ k = 0) /\ (n \in 1..n \/ n = 0)
    OBVIOUS
  <2> QED
    BY <1>4, <2>1
<1> QED
  BY <1>1, <1>2, <1>3, <1>4, Zenon

(* The pages of the two queries.                                           *)
LEMMA ListSincePage ==
  ASSUME CaptureApiTypeOK, NEW since \in Nat, since < rows, NEW limit \in Nat \ {0}
  PROVE  LET p == ListSince(since, limit)
         IN  /\ p \in Seq(Nat) /\ p # <<>>
             /\ since + Len(p) <= rows
             /\ \A i \in 1..Len(p) : p[i] = since + i
<1> DEFINE n == Least(limit, rows - since)
           p == ListSince(since, limit)
<1>1. rows \in Nat
  BY CaptureApiAssumption DEF CaptureApiTypeOK
<1>2. n \in Nat \ {0} /\ n <= rows - since
  BY <1>1 DEF Least
<1> HIDE DEF n
<1>3. p = [i \in 1..n |-> since + i]
  BY DEF ListSince, n
<1>4. p \in [1..n -> Nat]
  BY <1>2, <1>3
<1>5. p \in Seq(Nat) /\ Len(p) = n
  BY <1>2, <1>4, FunctionIsSeq
<1>6. p # <<>>
  BY <1>2, <1>5, EmptySeq
<1>7. \A i \in 1..Len(p) : p[i] = since + i
  BY <1>3, <1>5
<1> QED
  BY <1>1, <1>2, <1>5, <1>6, <1>7

LEMMA ListPage ==
  ASSUME CaptureApiTypeOK, NEW beforeID \in Nat, NEW limit \in Nat \ {0}
  PROVE  LET p   == List(beforeID, limit)
             top == IF beforeID > 0 THEN beforeID - 1 ELSE rows
         IN  /\ p \in Seq(Nat) /\ Len(p) <= top
             /\ \A i \in 1..Len(p) : p[i] = top - i + 1
             /\ p = <<>> <=> top = 0
<1> DEFINE top == IF beforeID > 0 THEN beforeID - 1 ELSE rows
           n == Least(limit, top)
           p == List(beforeID, limit)
<1>1. top \in Nat
  BY CaptureApiAssumption DEF CaptureApiTypeOK
<1> HIDE DEF top
<1>2. n \in Nat /\ n <= top /\ (n = 0 <=> top = 0)
  BY <1>1 DEF Least
<1>3. p = [i \in 1..n |-> top - i + 1]
  BY DEF List, top
<1> HIDE DEF n, p
<1>4. p \in [1..n -> Nat]
  BY <1>1, <1>2, <1>3
<1>5. p \in Seq(Nat) /\ Len(p) = n
  BY <1>2, <1>4, FunctionIsSeq
<1>6. p = <<>> <=> n = 0
  BY <1>2, <1>5, EmptySeq
<1>7. \A i \in 1..Len(p) : p[i] = top - i + 1
  BY <1>3, <1>5
<1> QED
  BY <1>2, <1>5, <1>6, <1>7 DEF p, top

(* What Send does to the page and to what has been sent.                   *)
LEMMA SentOne ==
  ASSUME NEW cur \in Nat, NEW p \in Seq(Nat), p # <<>>, NEW s \in Seq(Nat),
         \A i \in 1..Len(p) : p[i] = cur + i,
         \A i \in 1..Len(s) : s[i] = cur - Len(s) + i
  PROVE  LET t == Append(s, Head(p))
             q == Tail(p)
         IN  /\ Head(p) = cur + 1
             /\ q \in Seq(Nat) /\ Len(q) = Len(p) - 1 /\ Len(p) \in Nat
             /\ Len(p) = 1 <=> q = <<>>
             /\ \A i \in 1..Len(q) : q[i] = cur + 1 + i
             /\ t \in Seq(Nat) /\ Len(t) = Len(s) + 1 /\ Len(s) \in Nat
             /\ \A i \in 1..Len(t) : t[i] = cur - Len(s) + i
<1> DEFINE t == Append(s, Head(p))
           q == Tail(p)
<1>1. Len(p) \in Nat /\ Len(p) >= 1 /\ Head(p) = p[1] /\ Len(s) \in Nat
  OBVIOUS
<1>2. Head(p) = cur + 1
  BY <1>1
<1>3. q \in Seq(Nat) /\ Len(q) = Len(p) - 1 /\ \A i \in 1..Len(q) : q[i] = p[i + 1]
  BY HeadTailProperties, Zenon
<1>4. \A i \in 1..Len(q) : q[i] = cur + 1 + i
  <2> TAKE i \in 1..Len(q)
  <2>1. q[i] = p[i + 1]
    BY <1>3, Zenon
  <2>2. i + 1 \in 1..Len(p)
    BY <1>1, <1>3
  <2>3. p[i + 1] = cur + (i + 1)
    BY <2>2, Zenon
  <2> QED
    BY <2>1, <2>3
<1>5. Len(p) = 1 <=> q = <<>>
  <2>1. q = <<>> <=> Len(q) = 0
    BY <1>3, EmptySeq, Zenon
  <2> HIDE DEF q
  <2> QED
    BY <1>1, <1>3, <2>1
<1>6. /\ t \in Seq(Nat) /\ Len(t) = Len(s) + 1
      /\ \A i \in 1..Len(s) : t[i] = s[i]
      /\ t[Len(s) + 1] = Head(p)
  <2>1. Head(p) \in Nat
    BY <1>2
  <2> DEFINE h == Head(p)
  <2> HIDE DEF h
  <2>2. /\ Append(s, h) \in Seq(Nat) /\ Len(Append(s, h)) = Len(s) + 1
        /\ \A i \in 1..Len(s) : Append(s, h)[i] = s[i]
        /\ Append(s, h)[Len(s) + 1] = h
    BY <2>1 DEF h
  <2> QED
    BY <2>2 DEF h
<1>7. \A i \in 1..Len(t) : t[i] = cur - Len(s) + i
  <2> HIDE DEF t
  <2> TAKE i \in 1..Len(t)
  <2>1. CASE i \in 1..Len(s)
    BY <1>6, <2>1
  <2>2. CASE i = Len(s) + 1
    BY <1>1, <1>2, <1>6, <2>2
  <2> QED
    BY <1>1, <1>6, <2>1, <2>2
<1> QED
  BY <1>1, <1>2, <1>3, <1>4, <1>5, <1>6, <1>7

(* What a page that is not empty adds to what a reader has seen.           *)
LEMMA PageRead ==
  ASSUME NEW s \in Seq(Nat), NEW top \in Nat,
         NEW p \in Seq(Nat), p # <<>>, Len(p) <= top,
         \A i \in 1..Len(p) : p[i] = top - i + 1,
         \A i \in 1..Len(s) : s[i] = top + Len(s) - i + 1
  PROVE  /\ Len(p) \in 1..top /\ Len(s) \in Nat
         /\ p[Len(p)] = top - Len(p) + 1
         /\ s \o p \in Seq(Nat) /\ Len(s \o p) = Len(s) + Len(p)
         /\ \A i \in 1..Len(s \o p) : (s \o p)[i] = top + Len(s) - i + 1
<1> DEFINE n == Len(p)
           k == Len(s)
           t == s \o p
<1>1. n \in Nat /\ n >= 1 /\ k \in Nat
  OBVIOUS
<1>2. t \in Seq(Nat) /\ Len(t) = k + n
      /\ \A i \in 1..k + n : t[i] = IF i <= k THEN s[i] ELSE p[i - k]
  BY ConcatProperties, Zenon
<1> HIDE DEF n, k, t
<1>3. \A i \in 1..Len(t) : t[i] = top + k - i + 1
  <2> TAKE i \in 1..Len(t)
  <2>1. i \in 1..k + n
    BY <1>2
  <2>2. t[i] = IF i <= k THEN s[i] ELSE p[i - k]
    BY <1>2, <2>1, Zenon
  <2>3. CASE i <= k
    <3>1. i \in 1..k
      BY <1>1, <2>1, <2>3
    <3>2. s[i] = top + k - i + 1
      BY <3>1 DEF k
    <3> QED
      BY <2>2, <2>3, <3>2
  <2>4. CASE ~(i <= k)
    <3>1. i - k \in 1..n
      BY <1>1, <2>1, <2>4
    <3>2. p[i - k] = top - (i - k) + 1
      BY <3>1 DEF n
    <3> QED
      BY <1>1, <2>1, <2>2, <2>4, <3>2
  <2> QED
    BY <2>3, <2>4
<1>4. p[n] = top - n + 1
  BY <1>1 DEF n
<1> QED
  BY <1>1, <1>2, <1>3, <1>4 DEF n, k, t

-----------------------------------------------------------------------------
(* The steps. A step of one stream leaves the other streams alone, and the *)
(* origin of a stream never moves once it is open.                         *)

StreamOK(c) ==
  /\ Origin(c) \in {0, start[c]}
  /\ \A i \in 1..Len(sent[c]) : sent[c][i] = Origin(c) + i
  /\ \A i \in 1..Len(page[c]) : page[c][i] = cursor[c] + i
  /\ conn[c] = "new" => sent[c] = <<>> /\ cursor[c] = 0
  /\ conn[c] \in {"new", "waiting"} => page[c] = <<>>
  /\ conn[c] = "sending" => page[c] # <<>>
  /\ cursor[c] + Len(page[c]) <= rows

ReaderOK(r) ==
  /\ \A i \in 1..Len(seen[r]) : seen[r][i] = before[r] + Len(seen[r]) - i
  /\ asked[r] = "done" => seen[r] = <<>> \/ before[r] = 1
  /\ asked[r] = "new" => seen[r] = <<>> /\ before[r] = 0 /\ heard[r] = {}
  /\ seen[r] # <<>> <=> before[r] > 0
  /\ asked[r] = "more" => seen[r] # <<>>
  /\ Newest(r) <= rows

Heard(r, c) == conn[c] # "new" /\ Origin(c) <= Newest(r)

LEMMA InvParts ==
  CaptureApiInv <=> /\ CaptureApiTypeOK
                    /\ \A c \in Streams : StreamOK(c)
                    /\ \A r \in Readers : ReaderOK(r)
                    /\ \A r \in Readers : \A c \in heard[r] : Heard(r, c)
  BY DEF CaptureApiInv, StreamIsExact, PagesAreExact, StreamOK, ReaderOK, Heard

LEMMA InvPartsNext ==
  ASSUME CaptureApiTypeOK',
         \A c \in Streams : StreamOK(c)',
         \A r \in Readers : ReaderOK(r)',
         \A r \in Readers : \A c \in heard'[r] : Heard(r, c)'
  PROVE  CaptureApiInv'
  BY DEF CaptureApiInv, StreamIsExact, PagesAreExact, StreamOK, ReaderOK, Heard

LEMMA StreamKeepsInv ==
  ASSUME CaptureApiInv, NEW c \in Streams, StreamStep(c)
  PROVE  CaptureApiInv'
<1>1. /\ CaptureApiTypeOK /\ \A d \in Streams : StreamOK(d)
      /\ \A r \in Readers : ReaderOK(r) /\ \A d \in heard[r] : Heard(r, d)
  BY InvParts
<1>2. /\ UNCHANGED <<rows, asked, before, seen, heard>>
      /\ \A d \in Streams : d # c => /\ conn'[d] = conn[d] /\ cursor'[d] = cursor[d]
                                     /\ page'[d] = page[d] /\ start'[d] = start[d]
                                     /\ sent'[d] = sent[d]
  BY <1>1 DEF StreamStep, Connect, ConnectBlindly, Connected, Tick, Send, Disconnect, readerVars,
              CaptureApiTypeOK
<1>3. rows \in Nat /\ cursor[c] \in Nat /\ cursor[c] <= rows
  BY <1>1, CaptureApiAssumption DEF CaptureApiTypeOK
<1>4. CaptureApiTypeOK' /\ StreamOK(c)' /\ (conn[c] # "new" => conn'[c] # "new" /\ Origin(c)' = Origin(c))
  <2>1. CASE Connect(c) \/ ConnectBlindly(c)
    <3>1. PICK from \in {0, rows} : Connected(c, from)
      BY <2>1 DEF Connect, ConnectBlindly
    <3>2. CaptureApiTypeOK'
      BY <1>1, <1>3, <3>1 DEF Connected, CaptureApiTypeOK, readerVars, Open
    <3>3. /\ conn[c] = "new" /\ conn'[c] = "waiting" /\ cursor'[c] = from /\ start'[c] = rows
          /\ sent' = sent /\ page' = page /\ rows' = rows
      BY <1>1, <3>1 DEF Connected, CaptureApiTypeOK
    <3>4. sent[c] = <<>> /\ page[c] = <<>>
      BY <1>1, <3>3 DEF StreamOK
    <3>5. StreamOK(c)'
      BY <1>3, <3>3, <3>4, EmptySeq DEF StreamOK, Origin
    <3> QED
      BY <3>2, <3>3, <3>5
  <2>2. CASE Tick(c)
    <3> DEFINE p == ListSince(cursor[c], StreamPage)
    <3>1. /\ conn[c] = "waiting" /\ cursor[c] < rows /\ page' = [page EXCEPT ![c] = p]
          /\ conn' = [conn EXCEPT ![c] = "sending"] /\ UNCHANGED <<rows, cursor, start, sent>>
      BY <2>2 DEF Tick
    <3>2. /\ p \in Seq(Nat) /\ p # <<>> /\ cursor[c] + Len(p) <= rows
          /\ \A i \in 1..Len(p) : p[i] = cursor[c] + i
      BY <1>1, <1>3, <3>1, ListSincePage, CaptureApiAssumption
    <3> HIDE DEF p
    <3>3. CaptureApiTypeOK'
      BY <1>1, <1>2, <3>1, <3>2 DEF CaptureApiTypeOK, Open
    <3>4. page'[c] = p /\ conn'[c] = "sending"
      BY <1>1, <3>1 DEF CaptureApiTypeOK
    <3> QED
      BY <1>1, <3>1, <3>2, <3>3, <3>4 DEF StreamOK, Origin
  <2>3. CASE Send(c)
    <3>1. /\ conn[c] = "sending" /\ sent' = [sent EXCEPT ![c] = Append(@, Head(page[c]))]
          /\ cursor' = [cursor EXCEPT ![c] = Head(page[c])] /\ page' = [page EXCEPT ![c] = Tail(@)]
          /\ conn' = [conn EXCEPT ![c] = IF Len(page[c]) = 1 THEN "waiting" ELSE @]
          /\ UNCHANGED <<rows, start>>
      BY <2>3 DEF Send
    <3>2. /\ page[c] \in Seq(Nat) /\ page[c] # <<>> /\ sent[c] \in Seq(Nat)
          /\ cursor[c] + Len(page[c]) <= rows
      BY <1>1, <3>1 DEF StreamOK, CaptureApiTypeOK
    <3> DEFINE p == page[c]
               s == sent[c]
               cur == cursor[c]
               t == Append(s, Head(p))
               q == Tail(p)
    <3>3. /\ \A i \in 1..Len(p) : p[i] = cur + i
          /\ \A i \in 1..Len(s) : s[i] = cur - Len(s) + i
          /\ cur - Len(s) \in {0, start[c]}
      BY <1>1 DEF StreamOK, Origin
    <3>4. /\ sent' = [sent EXCEPT ![c] = t] /\ cursor' = [cursor EXCEPT ![c] = Head(p)]
          /\ page' = [page EXCEPT ![c] = q]
          /\ conn' = [conn EXCEPT ![c] = IF Len(p) = 1 THEN "waiting" ELSE "sending"]
      BY <1>1, <3>1 DEF CaptureApiTypeOK
    <3>5. p \in Seq(Nat) /\ p # <<>> /\ s \in Seq(Nat) /\ cur \in Nat /\ cur + Len(p) <= rows
      BY <1>3, <3>2
    <3>6. /\ sent'[c] = t /\ cursor'[c] = Head(p) /\ page'[c] = q /\ start'[c] = start[c]
          /\ conn'[c] = IF Len(p) = 1 THEN "waiting" ELSE "sending"
      BY <1>1, <3>1, <3>4 DEF CaptureApiTypeOK
    <3> HIDE DEF p, s, cur
    <3>7. /\ Head(p) = cur + 1
          /\ q \in Seq(Nat) /\ Len(q) = Len(p) - 1 /\ Len(p) \in Nat
          /\ Len(p) = 1 <=> q = <<>>
          /\ \A i \in 1..Len(q) : q[i] = cur + 1 + i
          /\ t \in Seq(Nat) /\ Len(t) = Len(s) + 1 /\ Len(s) \in Nat
          /\ \A i \in 1..Len(t) : t[i] = cur - Len(s) + i
      BY <3>3, <3>5, SentOne, ZenonT(40)
    <3> HIDE DEF t, q
    <3>8. CaptureApiTypeOK'
      <4>1. Head(p) \in 0..rows /\ rows' = rows
        <5>1. Len(p) # 0
          BY <3>5, EmptySeq, Zenon
        <5>2. Head(p) = cur + 1 /\ Len(p) \in Nat
          BY <3>7, Zenon
        <5>3. rows \in Nat /\ rows' = rows
          BY <1>1, <3>1 DEF CaptureApiTypeOK
        <5>4. cur \in Nat /\ cur + Len(p) <= rows
          BY <3>5, Zenon
        <5>5. cur + 1 \in 0..rows
          BY <5>1, <5>2, <5>3, <5>4
        <5> QED
          BY <5>2, <5>3, <5>5, Zenon
      <4>2. cursor' \in [Streams -> 0..rows'] /\ start' \in [Streams -> 0..rows']
        BY <1>1, <3>1, <3>4, <4>1 DEF CaptureApiTypeOK
      <4>3. page' \in [Streams -> Seq(Nat)] /\ sent' \in [Streams -> Seq(Nat)]
        BY <1>1, <3>4, <3>7 DEF CaptureApiTypeOK
      <4>4. conn' \in [Streams -> {"new", "gone"} \cup Open]
        BY <1>1, <3>4 DEF CaptureApiTypeOK, Open
      <4> QED
        BY <1>1, <1>2, <4>1, <4>2, <4>3, <4>4 DEF CaptureApiTypeOK
    <3>9. cur + 1 - (Len(s) + 1) = cur - Len(s) /\ cur + 1 + (Len(p) - 1) = cur + Len(p)
      BY <3>5, <3>7
    <3>10. Origin(c)' = cur - Len(s)
      <4>2. cursor'[c] = cur + 1
        BY <3>6, <3>7
      <4>3. Len(sent'[c]) = Len(s) + 1
        <5>1. sent'[c] = t
          BY <3>6
        <5>2. Len(t) = Len(s) + 1
          BY <3>7
        <5> QED
          BY <5>1, <5>2
      <4>4. cur \in Nat /\ Len(s) \in Nat
        BY <3>5, <3>7
      <4>5. cursor'[c] - Len(sent'[c]) = cur - Len(s)
        BY <4>2, <4>3, <4>4
      <4> QED
        BY <4>5 DEF Origin
    <3>11. StreamOK(c)'
      <4>1. /\ Origin(c)' \in {0, start'[c]}
            /\ \A i \in 1..Len(sent'[c]) : sent'[c][i] = Origin(c)' + i
        BY <3>3, <3>6, <3>7, <3>10
      <4>2. \A i \in 1..Len(page'[c]) : page'[c][i] = cursor'[c] + i
        BY <3>6, <3>7
      <4>3. /\ conn'[c] # "new"
            /\ conn'[c] = "waiting" => page'[c] = <<>>
            /\ conn'[c] = "sending" => page'[c] # <<>>
        BY <3>6, <3>7
      <4>4. cursor'[c] + Len(page'[c]) <= rows'
        BY <1>2, <3>5, <3>6, <3>7, <3>9
      <4> QED
        BY <4>1, <4>2, <4>3, <4>4 DEF StreamOK
    <3>12. Origin(c)' = Origin(c) /\ conn'[c] # "new"
      BY <3>6, <3>10 DEF Origin, cur, s
    <3> QED
      BY <3>8, <3>11, <3>12
  <2>4. CASE Disconnect(c)
    <3>1. /\ conn[c] \in Open /\ conn' = [conn EXCEPT ![c] = "gone"]
          /\ UNCHANGED <<rows, cursor, page, start, sent>>
      BY <2>4 DEF Disconnect
    <3>2. conn'[c] = "gone"
      BY <1>1, <3>1 DEF CaptureApiTypeOK
    <3>3. CaptureApiTypeOK'
      BY <1>1, <1>2, <3>1 DEF CaptureApiTypeOK
    <3>4. conn[c] # "new" /\ page[c] = page'[c] /\ Origin(c)' = Origin(c)
      BY <1>1, <3>1 DEF Open, Origin
    <3>5. StreamOK(c)'
      BY <1>1, <1>3, <3>1, <3>2, <3>4 DEF StreamOK, Open
    <3> QED
      BY <3>2, <3>3, <3>4, <3>5
  <2> QED
    BY <2>1, <2>2, <2>3, <2>4 DEF StreamStep
<1>5. \A d \in Streams : StreamOK(d)'
  BY <1>1, <1>2, <1>4 DEF StreamOK, Origin
<1>6. \A r \in Readers : ReaderOK(r)'
  BY <1>1, <1>2 DEF ReaderOK, Newest
<1>7. \A r \in Readers : \A d \in heard'[r] : Heard(r, d)'
  <2> SUFFICES ASSUME NEW r \in Readers, NEW d \in heard[r] PROVE Heard(r, d)'
    BY <1>2
  <2>1. Heard(r, d) /\ d \in Streams
    BY <1>1 DEF CaptureApiTypeOK
  <2> QED
    BY <1>2, <1>4, <2>1 DEF Heard, Newest, Origin
<1> QED
  BY <1>4, <1>5, <1>6, <1>7, InvPartsNext

LEMMA InsertKeepsInv ==
  ASSUME CaptureApiInv, Insert
  PROVE  CaptureApiInv'
<1>1. /\ CaptureApiTypeOK /\ \A d \in Streams : StreamOK(d)
      /\ \A r \in Readers : ReaderOK(r) /\ \A d \in heard[r] : Heard(r, d)
  BY InvParts
<1>2. /\ rows \in Nat /\ rows < MaxRows /\ rows' = rows + 1
      /\ UNCHANGED <<conn, cursor, page, start, sent, asked, before, seen, heard>>
  BY <1>1, CaptureApiAssumption DEF Insert, CaptureApiTypeOK, streamVars, readerVars
<1>3. rows' \in 0..MaxRows /\ 0..rows \subseteq 0..rows'
  BY <1>2, CaptureApiAssumption
<1>4. CaptureApiTypeOK'
  <2>1. /\ cursor \in [Streams -> 0..rows'] /\ start \in [Streams -> 0..rows']
        /\ before \in [Readers -> 0..rows']
    BY <1>1, <1>3 DEF CaptureApiTypeOK
  <2> QED
    BY <1>1, <1>2, <1>3, <2>1 DEF CaptureApiTypeOK
<1>5. \A d \in Streams : StreamOK(d)'
  <2> SUFFICES ASSUME NEW d \in Streams PROVE StreamOK(d)'
    OBVIOUS
  <2>1. cursor[d] \in Nat /\ Len(page[d]) \in Nat
    BY <1>1, <1>2 DEF CaptureApiTypeOK
  <2>2. cursor[d] + Len(page[d]) <= rows'
    BY <1>1, <1>2, <2>1 DEF StreamOK
  <2> QED
    BY <1>1, <1>2, <2>2 DEF StreamOK, Origin
<1>6. \A r \in Readers : ReaderOK(r)'
  <2> SUFFICES ASSUME NEW r \in Readers PROVE ReaderOK(r)'
    OBVIOUS
  <2>1. before[r] \in Nat /\ Len(seen[r]) \in Nat
    BY <1>1, <1>2 DEF CaptureApiTypeOK
  <2>2. Newest(r)' = Newest(r) /\ Newest(r) \in Int
    BY <1>2, <2>1 DEF Newest
  <2>3. Newest(r)' <= rows'
    BY <1>1, <1>2, <2>2 DEF ReaderOK
  <2> QED
    BY <1>1, <1>2, <2>3 DEF ReaderOK
<1>7. \A r \in Readers : \A d \in heard'[r] : Heard(r, d)'
  BY <1>1, <1>2 DEF Heard, Newest, Origin
<1> QED
  BY <1>4, <1>5, <1>6, <1>7, InvPartsNext

LEMMA ReadKeepsInv ==
  ASSUME CaptureApiInv, NEW r \in Readers, NEW limit \in AskedLimits, ReadPage(r, limit)
  PROVE  CaptureApiInv'
<1>1. /\ CaptureApiTypeOK /\ \A d \in Streams : StreamOK(d)
      /\ \A x \in Readers : ReaderOK(x) /\ \A d \in heard[x] : Heard(x, d)
  BY InvParts
<1> DEFINE b == before[r]
           s == seen[r]
           top == IF b > 0 THEN b - 1 ELSE rows
           p == List(b, Clamped(limit))
<1>2. /\ rows \in Nat /\ b \in Nat /\ b <= rows /\ s \in Seq(Nat) /\ Len(s) \in Nat
      /\ Clamped(limit) \in Nat \ {0}
  BY <1>1, CaptureApiAssumption DEF CaptureApiTypeOK, Clamped, Least
<1>3. top \in Nat /\ top <= rows
  BY <1>2
<1>4. /\ p \in Seq(Nat) /\ Len(p) <= top
      /\ \A i \in 1..Len(p) : p[i] = top - i + 1
      /\ p = <<>> <=> top = 0
  BY <1>1, <1>2, ListPage
<1>5. /\ \A i \in 1..Len(s) : s[i] = b + Len(s) - i
      /\ s # <<>> <=> b > 0
      /\ asked[r] = "new" => s = <<>>
      /\ asked[r] # "done" /\ asked[r] # "new" => s # <<>>
  BY <1>1 DEF ReaderOK, CaptureApiTypeOK
<1>6. /\ UNCHANGED <<rows, conn, cursor, page, start, sent>> /\ asked[r] # "done"
      /\ heard' = IF asked[r] = "new" THEN [heard EXCEPT ![r] = {c \in Streams : conn[c] \in Open}]
                                      ELSE heard
      /\ p = <<>> => asked' = [asked EXCEPT ![r] = "done"] /\ UNCHANGED <<before, seen>>
      /\ p # <<>> => /\ asked' = [asked EXCEPT ![r] = "more"]
                     /\ before' = [before EXCEPT ![r] = p[Len(p)]]
                     /\ seen' = [seen EXCEPT ![r] = s \o p]
  BY Zenon DEF ReadPage, streamVars
<1>7. /\ heard' \in [Readers -> SUBSET Streams]
      /\ \A x \in Readers : x # r => heard'[x] = heard[x]
      /\ heard'[r] = IF asked[r] = "new" THEN {c \in Streams : conn[c] \in Open} ELSE heard[r]
  BY <1>1, <1>6 DEF CaptureApiTypeOK
<1>8. \A c \in Streams : Origin(c) \in Int /\ Origin(c) <= rows
  <2> SUFFICES ASSUME NEW c \in Streams PROVE Origin(c) \in Int /\ Origin(c) <= rows
    OBVIOUS
  <2>1. cursor[c] \in Nat /\ cursor[c] <= rows /\ Len(sent[c]) \in Nat
    BY <1>1, <1>2 DEF CaptureApiTypeOK
  <2> QED
    BY <1>2, <2>1 DEF Origin
<1>9. \A c \in Streams : StreamOK(c)'
  BY <1>1, <1>6 DEF StreamOK, Origin
<1>10. /\ CaptureApiTypeOK' /\ ReaderOK(r)'
       /\ \A x \in Readers : x # r => asked'[x] = asked[x] /\ before'[x] = before[x] /\ seen'[x] = seen[x]
       /\ IF asked[r] = "new" THEN Newest(r)' = rows ELSE Newest(r)' = Newest(r)
  <2> HIDE DEF p, top
  <2>1. CASE p = <<>>
    <3>1. asked' = [asked EXCEPT ![r] = "done"] /\ UNCHANGED <<before, seen>>
      BY <1>6, <2>1
    <3>2. CaptureApiTypeOK'
      BY <1>1, <1>6, <1>7, <3>1 DEF CaptureApiTypeOK
    <3>3. s = <<>> \/ b = 1
      BY <1>2, <1>4, <1>5, <2>1 DEF top
    <3>4. asked'[r] = "done" /\ before'[r] = b /\ seen'[r] = s /\ rows' = rows
      BY <1>1, <1>6, <3>1 DEF CaptureApiTypeOK
    <3>5. ReaderOK(r)'
      BY <1>1, <1>6, <3>1, <3>3, <3>4 DEF ReaderOK, Newest
    <3>6. asked[r] = "new" => rows = 0 /\ s = <<>>
      BY <1>2, <1>4, <1>5, <2>1 DEF top
    <3>7. Newest(r)' = Newest(r) /\ (s = <<>> => Newest(r) = 0)
      BY <3>1 DEF Newest
    <3> QED
      BY <1>1, <3>1, <3>2, <3>5, <3>6, <3>7 DEF CaptureApiTypeOK
  <2>2. CASE p # <<>>
    <3> DEFINE b2 == p[Len(p)]
               s2 == s \o p
    <3>1. /\ asked' = [asked EXCEPT ![r] = "more"] /\ before' = [before EXCEPT ![r] = b2]
          /\ seen' = [seen EXCEPT ![r] = s2]
      BY <1>6, <2>2
    <3>2. Len(s) = 0 \/ top = b - 1
      BY <1>2, <1>5, EmptySeq DEF top
    <3> HIDE DEF s, b
    <3>3. /\ Len(p) \in 1..top /\ b2 = top - Len(p) + 1
          /\ s2 \in Seq(Nat) /\ Len(s2) = Len(s) + Len(p)
          /\ \A i \in 1..Len(s2) : s2[i] = top + Len(s) - i + 1
      <4>1. /\ s \in Seq(Nat) /\ b \in Nat /\ top \in Nat /\ p \in Seq(Nat) /\ p # <<>>
            /\ Len(p) <= top
            /\ \A i \in 1..Len(p) : p[i] = top - i + 1
        BY <1>2, <1>3, <1>4, <2>2, Zenon
      <4>2. \A i \in 1..Len(s) : s[i] = top + Len(s) - i + 1
        <5> TAKE i \in 1..Len(s)
        <5>1. Len(s) # 0 /\ i \in Int
          BY <1>2
        <5>2. s[i] = b + Len(s) - i
          BY <1>5, Zenon
        <5> QED
          BY <1>2, <1>3, <3>2, <5>1, <5>2
      <4> QED
        BY <4>1, <4>2, PageRead, ZenonT(40)
    <3> HIDE DEF b2, s2
    <3>4. b2 \in Nat /\ b2 > 0 /\ b2 <= rows
      BY <1>2, <1>3, <3>3
    <3>5. CaptureApiTypeOK'
      <4>1. before' \in [Readers -> 0..rows']
        BY <1>1, <1>2, <1>6, <3>1, <3>4 DEF CaptureApiTypeOK
      <4>2. seen' \in [Readers -> Seq(Nat)] /\ asked' \in [Readers -> {"new", "more", "done"}]
        BY <1>1, <3>1, <3>3 DEF CaptureApiTypeOK
      <4> QED
        BY <1>1, <1>6, <1>7, <4>1, <4>2 DEF CaptureApiTypeOK
    <3>6. asked'[r] = "more" /\ before'[r] = b2 /\ seen'[r] = s2 /\ rows' = rows
      BY <1>1, <1>6, <3>1 DEF CaptureApiTypeOK
    <3>7. Len(s2) # 0 /\ s2 # <<>>
      <4>1. Len(s2) # 0
        BY <1>2, <1>3, <3>3
      <4> QED
        BY <3>3, <4>1, EmptySeq, Zenon
    <3>8. b2 + Len(s2) = top + Len(s) + 1
      BY <1>2, <1>3, <3>3
    <3>9. Newest(r)' = top + Len(s)
      <4>1. Newest(r)' = b2 + Len(s2) - 1
        BY <3>6, <3>7 DEF Newest
      <4> QED
        BY <1>2, <1>3, <3>3, <3>4, <3>8, <4>1
    <3>10. IF asked[r] = "new" THEN top + Len(s) = rows ELSE top + Len(s) = Newest(r)
      <4>1. CASE asked[r] = "new"
        BY <1>2, <1>5, <4>1, EmptySeq DEF top
      <4>2. CASE asked[r] # "new"
        BY <1>2, <1>5, <1>6, <4>2 DEF top, Newest, s, b
      <4> QED
        BY <4>1, <4>2
    <3>11. top + Len(s) <= rows
      <4>1. Newest(r) <= rows
        BY <1>1 DEF ReaderOK
      <4> QED
        BY <1>2, <3>10, <4>1
    <3>12. \A i \in 1..Len(s2) : s2[i] = b2 + Len(s2) - i
      <4> TAKE i \in 1..Len(s2)
      <4>1. Len(s2) \in Nat /\ i \in Int /\ s2[i] = top + Len(s) - i + 1
        BY <1>2, <1>3, <3>3
      <4> DEFINE k == Len(s)
                 l == Len(s2)
      <4>2. k \in Nat /\ l \in Nat /\ b2 + l = top + k + 1 /\ s2[i] = top + k - i + 1
        BY <1>2, <3>8, <4>1, Zenon
      <4> HIDE DEF k, l
      <4>3. s2[i] = b2 + l - i
        BY <1>3, <3>4, <4>1, <4>2
      <4> QED
        BY <4>3 DEF l
    <3>13. ReaderOK(r)'
      BY <3>4, <3>6, <3>7, <3>9, <3>11, <3>12 DEF ReaderOK
    <3> QED
      BY <1>1, <3>1, <3>5, <3>9, <3>10, <3>13 DEF CaptureApiTypeOK
  <2> QED
    BY <2>1, <2>2
<1>11. \A x \in Readers : ReaderOK(x)'
  BY SMTT(30), <1>1, <1>6, <1>7, <1>10 DEF ReaderOK, Newest
<1>12. \A x \in Readers : \A c \in heard'[x] : Heard(x, c)'
  <2> SUFFICES ASSUME NEW x \in Readers, NEW c \in heard'[x] PROVE Heard(x, c)'
    OBVIOUS
  <2>1. c \in Streams
    BY <1>7
  <2>2. UNCHANGED <<conn, cursor, sent>>
    BY <1>6
  <2>3. CASE x # r
    BY <1>1, <1>7, <1>10, <2>2, <2>3 DEF Heard, Newest, Origin
  <2>4. CASE x = r /\ asked[r] = "new"
    <3>1. conn[c] \in Open /\ Origin(c) <= Newest(r)'
      BY <1>7, <1>8, <1>10, <2>1, <2>4
    <3> QED
      BY <2>2, <2>4, <3>1 DEF Heard, Origin, Open
  <2>5. CASE x = r /\ asked[r] # "new"
    <3>1. Heard(r, c) /\ Newest(r)' = Newest(r)
      BY <1>1, <1>7, <1>10, <2>5
    <3> QED
      BY <2>2, <2>5, <3>1 DEF Heard, Origin
  <2> QED
    BY <2>3, <2>4, <2>5
<1> QED
  BY <1>9, <1>10, <1>11, <1>12, InvPartsNext

-----------------------------------------------------------------------------

(* The inductive invariant of streams and pages (handleStream,             *)
(* handleListCaptures), for any page sizes, limits, clients and rows.      *)
THEOREM CaptureApiCorrect == CaptureApiSpec => []CaptureApiInv
<1>1. CaptureApiInit => CaptureApiInv
  <2> SUFFICES ASSUME CaptureApiInit PROVE CaptureApiInv
    OBVIOUS
  <2>1. rows \in Nat
    BY CaptureApiAssumption DEF CaptureApiInit
  <2>2. <<>> \in Seq(Nat) /\ Len(<<>>) = 0
    OBVIOUS
  <2>3. CaptureApiTypeOK
    BY <2>1, <2>2 DEF CaptureApiInit, CaptureApiTypeOK
  <2>4. \A c \in Streams : StreamOK(c)
    BY <2>1, <2>2 DEF CaptureApiInit, StreamOK, Origin
  <2>5. \A r \in Readers : ReaderOK(r) /\ heard[r] = {}
    BY <2>1, <2>2 DEF CaptureApiInit, ReaderOK, Newest
  <2> QED
    BY <2>3, <2>4, <2>5, InvParts
<1>2. CaptureApiInv /\ [CaptureApiNext]_vars => CaptureApiInv'
  <2> SUFFICES ASSUME CaptureApiInv, [CaptureApiNext]_vars PROVE CaptureApiInv'
    OBVIOUS
  <2>1. CASE Insert
    BY <2>1, InsertKeepsInv
  <2>2. CASE \E c \in Streams : StreamStep(c)
    BY <2>2, StreamKeepsInv
  <2>3. CASE \E r \in Readers, limit \in AskedLimits : ReadPage(r, limit)
    BY <2>3, ReadKeepsInv
  <2>4. CASE UNCHANGED vars
    <3>1. /\ CaptureApiTypeOK /\ \A c \in Streams : StreamOK(c)
          /\ \A r \in Readers : ReaderOK(r) /\ \A c \in heard[r] : Heard(r, c)
      BY InvParts
    <3>2. CaptureApiTypeOK'
      BY <2>4, <3>1 DEF vars, CaptureApiTypeOK
    <3>3. \A c \in Streams : StreamOK(c)'
      BY <2>4, <3>1 DEF vars, StreamOK, Origin
    <3>4. \A r \in Readers : ReaderOK(r)' /\ \A c \in heard'[r] : Heard(r, c)'
      BY <2>4, <3>1 DEF vars, ReaderOK, Newest, Heard, Origin
    <3> QED
      BY <3>2, <3>3, <3>4, InvPartsNext
  <2> QED
    BY <2>1, <2>2, <2>3, <2>4 DEF CaptureApiNext
<1> QED
  BY <1>1, <1>2, PTL DEF CaptureApiSpec

(* Every stream sends each id from its origin on once and in order,        *)
(* whatever is inserted between its queries (handleStream, ListSince).     *)
THEOREM StreamsAreExact == CaptureApiSpec => []StreamIsExact
<1>1. CaptureApiInv => StreamIsExact
  BY DEF CaptureApiInv
<1> QED
  BY <1>1, CaptureApiCorrect, PTL

(* Pages cut by before_id give each row once and end at the first          *)
(* (handleListCaptures, List).                                             *)
THEOREM PagesAlwaysExact == CaptureApiSpec => []PagesAreExact
<1>1. CaptureApiInv => PagesAreExact
  BY DEF CaptureApiInv
<1> QED
  BY <1>1, CaptureApiCorrect, PTL

(* A client that opens the stream before it reads the list has every       *)
(* capture up to the cursor of the stream when the pages end.              *)
THEOREM NothingIsMissed == CaptureApiSpec => []NothingMissed
<1>1. CaptureApiInv => NothingMissed
  <2> SUFFICES ASSUME CaptureApiInv, NEW r \in Readers, asked[r] = "done",
                      NEW c \in heard[r], NEW n \in 1..cursor[c]
               PROVE  n \in Range(seen[r]) \/ n \in Range(sent[c])
    BY Zenon DEF NothingMissed
  <2>1. /\ CaptureApiTypeOK /\ c \in Streams /\ StreamOK(c) /\ ReaderOK(r) /\ Heard(r, c)
    BY InvParts DEF CaptureApiTypeOK
  <2> DEFINE s == sent[c]
             k == Len(s)
             q == seen[r]
             l == Len(q)
             cur == cursor[c]
  <2>2. /\ s \in Seq(Nat) /\ q \in Seq(Nat) /\ k \in Nat /\ l \in Nat /\ cur \in Nat
        /\ n \in Nat /\ n >= 1 /\ n <= cur
    BY <2>1, CaptureApiAssumption DEF CaptureApiTypeOK
  <2>3. \A i \in 1..k : s[i] = cur - k + i
    BY <2>1 DEF StreamOK, Origin
  <2>4. cur - k \in {0, start[c]} /\ start[c] \in Nat /\ cur - k <= Newest(r)
    BY <2>1, CaptureApiAssumption DEF StreamOK, Origin, Heard, CaptureApiTypeOK
  <2>5. Newest(r) = l /\ \A i \in 1..l : q[i] = l + 1 - i
    <3>1. CASE q = <<>>
      BY <3>1, EmptySeq DEF Newest
    <3>2. CASE q # <<>>
      <4>1. before[r] = 1 /\ \A i \in 1..l : q[i] = before[r] + l - i
        BY <2>1, <3>2 DEF ReaderOK
      <4> QED
        BY <2>2, <3>2, <4>1 DEF Newest
    <3> QED
      BY <3>1, <3>2
  <2> HIDE DEF s, k, q, l, cur
  <2>6. CASE n <= l
    <3>1. l + 1 - n \in 1..l /\ l + 1 - (l + 1 - n) = n
      BY <2>2, <2>6
    <3>2. q[l + 1 - n] = n
      BY <2>5, <3>1
    <3>3. l + 1 - n \in DOMAIN q
      BY <2>2, <3>1 DEF l
    <3> QED
      BY <3>2, <3>3, Zenon DEF Range, q
  <2>7. CASE n > l
    <3>1. n - (cur - k) \in 1..k /\ cur - k + (n - (cur - k)) = n
      BY <2>2, <2>4, <2>5, <2>7
    <3>2. s[n - (cur - k)] = n
      BY <2>3, <3>1
    <3>3. n - (cur - k) \in DOMAIN s
      BY <2>2, <3>1 DEF k
    <3> QED
      BY <3>2, <3>3, Zenon DEF Range, s
  <2> QED
    BY <2>2, <2>6, <2>7
<1> QED
  BY <1>1, CaptureApiCorrect, PTL

(* The serving process, with its shutdown, does nothing to streams, pages  *)
(* and rows that CaptureApi does not: its steps are those of CaptureApi,   *)
(* and those of its main goroutine leave them alone.                       *)
THEOREM ServeImplementsApi == ServeSpec => CaptureApiSpec
<1>1. ServeInit => CaptureApiInit
  BY DEF ServeInit
<1>2. ASSUME ServeNext PROVE CaptureApiNext \/ UNCHANGED vars
  <2>1. CASE Step
    BY <2>1 DEF Step, CaptureApiNext, StreamStep
  <2>2. CASE Signal \/ ServeFails
    BY <2>2 DEF Signal, ServeFails, To
  <2>3. CASE Stop
    BY <2>3 DEF Stop, ShutdownCompletes, DeadlinePasses, CloseStore, Exit, To
  <2> QED
    BY <1>2, <2>1, <2>2, <2>3 DEF ServeNext
<1>3. UNCHANGED serveVars => UNCHANGED vars
  BY DEF serveVars
<1> QED
  BY <1>1, <1>2, <1>3, PTL DEF ServeSpec, CaptureApiSpec
=============================================================================

------------------------- MODULE ConversationProofs -------------------------
(***************************************************************************)
(* ConversationInv is inductive when every turn adds one message of the    *)
(* user; what proxy.go:300 takes for granted follows from it.              *)
(***************************************************************************)
EXTENDS Conversation, SequenceTheorems, TLAPS

(* One more item: what AddItems and Answer do to the history.              *)
LEMMA AppendedItem ==
  ASSUME NEW h \in Seq(Items), NEW e \in Items
  PROVE  /\ Append(h, e) \in Seq(Items)
         /\ Len(Append(h, e)) = Len(h) + 1
         /\ \A i \in 1..Len(h) : Append(h, e)[i] = h[i]
         /\ Append(h, e)[Len(h) + 1] = e
  OBVIOUS

(* Where the scan looks while a turn is open: at its last item.            *)
LEMMA ScannedIsLast ==
  ASSUME NEW h \in Seq(Items), Len(h) \in UserItems(h)
  PROVE  /\ Scanned(h) = {Len(h)}
         /\ Ids(h, Scanned(h)) = {h[Len(h)].id}
         /\ Blocks(h, Scanned(h)) <=> TextBlocks(h[Len(h)].text)
<1>1. Len(h) \in Nat /\ UserItems(h) \subseteq 1..Len(h)
  BY DEF UserItems
<1>2. Scanned(h) = {Len(h)}
  <2>1. \A i \in UserItems(h) : i <= Len(h)
    BY <1>1
  <2>2. \A i \in UserItems(h) : Len(h) <= i => i = Len(h)
    BY <1>1
  <2> QED
    BY <2>1, <2>2 DEF Scanned
<1>3. UNION {h[i].text : i \in {Len(h)}} = h[Len(h)].text
  OBVIOUS
<1> QED
  BY <1>2, <1>3 DEF Ids, Blocks

LEMMA IdsAreNumbers ==
  ASSUME ConversationTypeOK, IdsMade
  PROVE  \A i \in 1..Len(history) :
           history[i].id \in Nat /\ history[i].id \in 1..made
<1> SUFFICES ASSUME NEW i \in 1..Len(history)
             PROVE  history[i].id \in Nat /\ history[i].id \in 1..made
  OBVIOUS
<1>1. history[i] \in Items
  BY ElementOfSeq DEF ConversationTypeOK
<1>2. history[i].id \in 1..MaxItems
  BY <1>1 DEF Items
<1>3. made \in Nat /\ MaxItems \in Nat /\ history[i].id <= made
  BY ConversationAssumption DEF ConversationTypeOK, IdsMade
<1> QED
  BY <1>2, <1>3

(* With one call at a time, results come one at a time.                    *)
LEMMA OneItem ==
  ASSUME ConversationTypeOK, Texts \subseteq SUBSET Rules,
         NEW kind \in {"user", "result"}, NEW texts \in Seq(SUBSET Rules),
         Len(texts) = 1, AddItems(kind, texts)
  PROVE  LET item == [id |-> made + 1, kind |-> kind, text |-> texts[1]]
         IN  /\ item \in Items
             /\ history' = Append(history, item)
             /\ made' = made + 1 /\ made' <= MaxItems
<1> DEFINE item == [id |-> made + 1, kind |-> kind, text |-> texts[1]]
           added == [i \in 1..Len(texts) |->
                       [id |-> made + i, kind |-> kind, text |-> texts[i]]]
<1>1. added = <<item>>
  BY DEF ConversationTypeOK
<1>2. made' = made + 1 /\ made' <= MaxItems
  BY DEF AddItems, ConversationTypeOK
<1>3. item \in Items
  <2>1. texts[1] \in SUBSET Rules
    BY ElementOfSeq
  <2>2. made + 1 \in 1..MaxItems
    BY <1>2, ConversationAssumption DEF ConversationTypeOK
  <2> QED
    BY <2>1, <2>2 DEF Items, Kinds
<1>4. history' = history \o <<item>>
  BY <1>1 DEF AddItems
<1>5. history \o <<item>> = Append(history, item)
  BY <1>3, AppendIsConcat DEF ConversationTypeOK
<1> QED
  BY <1>2, <1>3, <1>4, <1>5

-----------------------------------------------------------------------------
(* The steps                                                               *)

(* The agent appends one message of the user and sends.                    *)
LEMMA AddKeepsInv ==
  ASSUME ConversationInv, NEW e \in Items,
         e.id = made + 1, e.kind \in {"user", "result"},
         phase = "compose", history' = Append(history, e), made' = made + 1, made' <= MaxItems,
         calls' = 0, phase' = "send", UNCHANGED <<api, kept, evaluated, refused, forwarded, resumed>>
  PROVE  ConversationInv'
<1> USE DEF ConversationInv
<1>1. /\ history' \in Seq(Items) /\ Len(history') = Len(history) + 1
      /\ \A i \in 1..Len(history) : history'[i] = history[i]
      /\ history'[Len(history) + 1] = e
      /\ Len(history) \in Nat /\ made \in Nat
  BY AppendedItem, LenProperties, ConversationAssumption DEF ConversationTypeOK
<1>2. UserItems(history)' = UserItems(history) \cup {Len(history')}
  BY <1>1 DEF UserItems
<1>3. UserItems(history) \subseteq 1..Len(history)
  BY DEF UserItems
<1>4. e.id \notin evaluated /\ e.id \notin refused
  BY <1>1 DEF ConversationTypeOK
<1>5. ConversationTypeOK'
  BY <1>1, ConversationAssumption DEF ConversationTypeOK, Phases
<1>6. IdsIncrease' /\ IdsMade'
  <2>1. \A i \in 1..Len(history) : history[i].id \in Nat /\ history[i].id <= made
    BY IdsAreNumbers DEF IdsMade
  <2>2. \A i \in 1..Len(history') : i \in 1..Len(history) \/ i = Len(history) + 1
    BY <1>1
  <2>3. IdsMade'
    BY <1>1, <2>1, <2>2 DEF IdsMade
  <2>4. IdsIncrease'
    BY <1>1, <2>1, <2>2 DEF IdsIncrease
  <2> QED
    BY <2>3, <2>4
<1>7. TurnIsOpen'
  BY <1>1, <1>2 DEF TurnIsOpen, ConversationTypeOK
<1>8. \A i \in UserItems(history) : Settled(i)'
  BY <1>1, <1>3 DEF OnlyTheLastIsOpen, Settled
<1>9. OnlyTheLastIsOpen' /\ KeptIsSettled'
  <2>1. OnlyTheLastIsOpen'
    BY <1>2, <1>8 DEF OnlyTheLastIsOpen
  <2>2. kept' \in Nat /\ kept' <= Len(history)
    BY DEF ConversationTypeOK
  <2>3. \A i \in 1..kept' : i # Len(history')
    BY <1>1, <2>2
  <2> QED
    BY <1>2, <1>8, <2>1, <2>3 DEF KeptIsSettled
<1>10. VerdictsStand'
  BY <1>1, <1>2, <1>3, <1>4 DEF VerdictsStand
<1> QED
  BY <1>5, <1>6, <1>7, <1>9, <1>10

(* Upstream's answer ends the turn; no item of the user is open then.      *)
LEMMA AnswerKeepsInv ==
  ASSUME ConversationInv, Texts \subseteq SUBSET Rules, Answer
  PROVE  ConversationInv'
<1> USE DEF ConversationInv
<1>1. PICK t \in Texts, n \in 0..MaxParallel[api] :
        /\ history' = Append(history, [id |-> made + 1, kind |-> "assistant", text |-> t])
        /\ calls' = n
  BY DEF Answer
<1> DEFINE e == [id |-> made + 1, kind |-> "assistant", text |-> t]
<1>2. /\ phase = "await" /\ phase' = "compose" /\ made' = made + 1 /\ made < MaxItems
      /\ kept' = Len(history') /\ UNCHANGED <<api, evaluated, refused, forwarded, resumed>>
  BY DEF Answer
<1>3. e \in Items
  BY <1>2, ConversationAssumption DEF Items, Kinds, ConversationTypeOK
<1>4. /\ history' \in Seq(Items) /\ Len(history') = Len(history) + 1
      /\ \A i \in 1..Len(history) : history'[i] = history[i]
      /\ history'[Len(history) + 1] = e
      /\ Len(history) \in Nat /\ made \in Nat
  BY <1>1, <1>3, AppendedItem, LenProperties, ConversationAssumption DEF ConversationTypeOK
<1> HIDE DEF e
<1>5. e.id = made + 1 /\ e.kind = "assistant"
  BY DEF e
<1>6. UserItems(history)' = UserItems(history)
  BY <1>4, <1>5 DEF UserItems
<1>7. UserItems(history) \subseteq 1..Len(history)
  BY DEF UserItems
<1>8. ConversationTypeOK'
  BY <1>1, <1>2, <1>4, ConversationAssumption DEF ConversationTypeOK, Phases
<1>9. IdsIncrease' /\ IdsMade'
  <2>1. \A i \in 1..Len(history) : history[i].id \in Nat /\ history[i].id <= made
    BY IdsAreNumbers DEF IdsMade
  <2>2. \A i \in 1..Len(history') : i \in 1..Len(history) \/ i = Len(history) + 1
    BY <1>4
  <2>3. IdsMade'
    BY <1>2, <1>4, <1>5, <2>1, <2>2 DEF IdsMade
  <2>4. IdsIncrease'
    BY SMTT(30), <1>4, <1>5, <2>1, <2>2 DEF IdsIncrease
  <2> QED
    BY <2>3, <2>4
<1>10. \A i \in UserItems(history) : Settled(i)'
  BY <1>2, <1>4, <1>7 DEF OnlyTheLastIsOpen, Settled
<1>11. TurnIsOpen' /\ OnlyTheLastIsOpen' /\ KeptIsSettled'
  BY <1>2, <1>6, <1>10 DEF TurnIsOpen, OnlyTheLastIsOpen, KeptIsSettled
<1>12. VerdictsStand'
  BY <1>2, <1>4, <1>6, <1>7 DEF VerdictsStand
<1> QED
  BY <1>2, <1>8, <1>9, <1>11, <1>12

(* The agent takes the turn back: what is left was settled before it.      *)
LEMMA ForgetKeepsInv ==
  ASSUME ConversationInv, Forget
  PROVE  ConversationInv'
<1> USE DEF ConversationInv
<1>1. /\ phase' = "compose" /\ history' = SubSeq(history, 1, kept)
      /\ UNCHANGED <<api, made, kept, calls, evaluated, refused, forwarded, resumed>>
  BY DEF Forget
<1>2. kept \in Nat /\ kept <= Len(history) /\ Len(history) \in Nat
  BY DEF ConversationTypeOK
<1>3. /\ history' \in Seq(Items) /\ Len(history') = kept
      /\ \A i \in 1..kept : history'[i] = history[i]
  BY <1>1, <1>2, SubSeqProperties DEF ConversationTypeOK
<1>4. 1..kept \subseteq 1..Len(history)
  BY <1>2
<1>5. UserItems(history)' = UserItems(history) \cap 1..kept
  BY <1>3, <1>4 DEF UserItems
<1>6. ConversationTypeOK'
  BY <1>1, <1>2, <1>3 DEF ConversationTypeOK, Phases
<1>7. IdsIncrease' /\ IdsMade' /\ VerdictsStand'
  BY <1>1, <1>3, <1>4, <1>5 DEF IdsIncrease, IdsMade, VerdictsStand
<1>8. TurnIsOpen' /\ OnlyTheLastIsOpen' /\ KeptIsSettled'
  BY <1>1, <1>3, <1>5 DEF TurnIsOpen, OnlyTheLastIsOpen, KeptIsSettled, Settled
<1> QED
  BY <1>1, <1>6, <1>7, <1>8

(* A refusal records the verdict on the last item.                         *)
LEMMA RefuseKeepsInv ==
  ASSUME ConversationInv, RefuseTurn
  PROVE  ConversationInv'
<1> USE DEF ConversationInv, agentVars
<1> DEFINE last == Len(history)
           id == history[last].id
<1>1. /\ phase = "send" /\ phase' = "refused"
      /\ UNCHANGED <<agentVars, forwarded>>
      /\ last \in UserItems(history) /\ last > kept /\ history \in Seq(Items)
  BY DEF RefuseTurn, agentVars, TurnIsOpen, ConversationTypeOK
<1>2. /\ evaluated' = evaluated \cup {id} /\ refused' = refused \cup {id}
      /\ TextBlocks(history[last].text)
  BY <1>1, ScannedIsLast DEF RefuseTurn
<1>3. /\ last \in 1..Len(history) /\ UserItems(history) \subseteq 1..Len(history)
      /\ id \in 1..made
  BY <1>1, IdsAreNumbers DEF UserItems
<1>4. \A i \in UserItems(history) : i # last => history[i].id # id
  <2> SUFFICES ASSUME NEW i \in UserItems(history), i # last PROVE history[i].id # id
    OBVIOUS
  <2>1. i \in 1..Len(history) /\ i < last
    BY <1>3
  <2>2. history[i].id < id /\ history[i].id \in Nat /\ id \in Nat
    BY <1>3, <2>1, IdsAreNumbers DEF IdsIncrease
  <2> QED
    BY <2>2
<1>5. ConversationTypeOK' /\ IdsIncrease' /\ IdsMade'
  BY <1>1, <1>2, <1>3 DEF ConversationTypeOK, IdsIncrease, IdsMade, Phases
<1>6. TurnIsOpen'
  BY <1>1 DEF TurnIsOpen, UserItems
<1>7. UserItems(history)' = UserItems(history)
  BY <1>1 DEF UserItems
<1> HIDE DEF id
<1>8. \A i \in UserItems(history) : i # last => Settled(i)'
  BY <1>1, <1>2, <1>4 DEF OnlyTheLastIsOpen, Settled
<1>9. OnlyTheLastIsOpen'
  BY <1>1, <1>2, <1>7, <1>8 DEF OnlyTheLastIsOpen, id
<1>10. KeptIsSettled'
  <2>1. \A i \in 1..kept : i # last
    BY <1>1 DEF ConversationTypeOK
  <2> QED
    BY <1>1, <1>7, <1>8, <2>1 DEF KeptIsSettled
<1>11. VerdictsStand'
  BY <1>1, <1>2, <1>4, <1>7 DEF VerdictsStand, id
<1>12. forwarded' \subseteq evaluated'
  BY <1>1, <1>2
<1>13. ASSUME ~resumed' PROVE forwarded' \cap refused' = {}
  <2>1. id \notin forwarded
    BY <1>1, <1>2, <1>13 DEF VerdictsStand, id
  <2> QED
    BY <1>1, <1>2, <1>13, <2>1
<1> QED
  BY <1>5, <1>6, <1>9, <1>10, <1>11, <1>12, <1>13

(* A request that leaves settles its last item.                            *)
LEMMA ForwardKeepsInv ==
  ASSUME ConversationInv, ForwardTurn
  PROVE  ConversationInv'
<1> USE DEF ConversationInv, agentVars
<1> DEFINE last == Len(history)
           id == history[last].id
<1>1. /\ phase = "send" /\ phase' = "await"
      /\ UNCHANGED <<agentVars, refused>>
      /\ last \in UserItems(history) /\ last > kept /\ history \in Seq(Items)
      /\ forwarded' = forwarded \cup Ids(history, UserItems(history))
  BY DEF ForwardTurn, agentVars, TurnIsOpen, ConversationTypeOK
<1>2. evaluated' = evaluated \cup {id} /\ ~TextBlocks(history[last].text)
  BY <1>1, ScannedIsLast DEF ForwardTurn
<1>3. /\ last \in 1..Len(history) /\ UserItems(history) \subseteq 1..Len(history)
      /\ \A i \in 1..Len(history) : history[i].id \in 1..made
  BY <1>1, IdsAreNumbers DEF UserItems
<1>4. \A i \in UserItems(history) : i # last => history[i].id # id
  <2> SUFFICES ASSUME NEW i \in UserItems(history), i # last PROVE history[i].id # id
    OBVIOUS
  <2>1. i \in 1..Len(history) /\ i < last
    BY <1>3
  <2>2. history[i].id < id /\ history[i].id \in Nat /\ id \in Nat
    BY <1>3, <2>1, IdsAreNumbers DEF IdsIncrease
  <2> QED
    BY <2>2
<1>5. Ids(history, UserItems(history)) \subseteq 1..made
  BY <1>3 DEF Ids
<1>6. ConversationTypeOK' /\ IdsIncrease' /\ IdsMade'
  BY <1>1, <1>2, <1>3, <1>5 DEF ConversationTypeOK, IdsIncrease, IdsMade, Phases
<1>7. UserItems(history)' = UserItems(history)
  BY <1>1 DEF UserItems
<1>8. TurnIsOpen'
  BY <1>1, <1>7 DEF TurnIsOpen
<1>9. id \notin refused
  BY <1>1, <1>2 DEF VerdictsStand
<1> HIDE DEF id
<1>10. \A i \in UserItems(history) : Settled(i)'
  BY <1>1, <1>2, <1>4, <1>9 DEF OnlyTheLastIsOpen, Settled, id
<1>11. OnlyTheLastIsOpen' /\ KeptIsSettled'
  BY <1>1, <1>7, <1>10 DEF OnlyTheLastIsOpen, KeptIsSettled
<1>12. VerdictsStand'
  BY <1>1, <1>2, <1>4, <1>7, <1>9 DEF VerdictsStand, id
<1>13. forwarded' \subseteq evaluated'
  BY <1>1, <1>2, <1>10 DEF Ids, Settled
<1>14. ASSUME ~resumed' PROVE forwarded' \cap refused' = {}
  BY <1>1, <1>10, <1>14 DEF Ids, Settled
<1> QED
  BY <1>6, <1>8, <1>11, <1>12, <1>13, <1>14

-----------------------------------------------------------------------------
(* The theorems                                                            *)

(* One call at a time is what the invariant rests on.                      *)
LEMMA InvIsInductive ==
  ASSUME OneAtATime, ConversationInv, [ConversationNext]_vars
  PROVE  ConversationInv'
<1>1. Texts \subseteq SUBSET Rules /\ MaxParallel \in [Apis -> Nat \ {0}]
  BY ConversationAssumption
<1>2. ASSUME NEW kind \in {"user", "result"}, NEW texts \in Seq(SUBSET Rules),
             Len(texts) = 1, AddItems(kind, texts)
      PROVE  ConversationInv'
  <2> DEFINE item == [id |-> made + 1, kind |-> kind, text |-> texts[1]]
  <2>1. /\ item \in Items /\ history' = Append(history, item)
        /\ made' = made + 1 /\ made' <= MaxItems
    BY <1>1, <1>2, OneItem DEF ConversationInv
  <2>2. item.id = made + 1 /\ item.kind \in {"user", "result"}
    OBVIOUS
  <2> HIDE DEF item
  <2> QED
    BY <1>2, <2>1, <2>2, AddKeepsInv DEF AddItems
<1>3. CASE Prompt
  <2>1. PICK t \in Texts : AddItems("user", <<t>>)
    BY <1>3 DEF Prompt
  <2>2. <<t>> \in Seq(SUBSET Rules) /\ Len(<<t>>) = 1
    BY <1>1
  <2> QED
    BY <1>2, <2>1, <2>2
<1>4. CASE ToolResults
  <2>1. PICK ts \in [1..calls -> Texts] :
          IF api = "anthropic"
          THEN AddItems("user", <<UNION {ts[i] : i \in 1..calls}>>)
          ELSE AddItems("result", ts)
    BY <1>4 DEF ToolResults
  <2>2. CASE api = "anthropic"
    <3>1. UNION {ts[i] : i \in 1..calls} \in SUBSET Rules
      BY <1>1, <2>1
    <3>2. /\ <<UNION {ts[i] : i \in 1..calls}>> \in Seq(SUBSET Rules)
          /\ Len(<<UNION {ts[i] : i \in 1..calls}>>) = 1
      BY <3>1
    <3> QED
      BY <1>2, <2>1, <2>2, <3>2
  <2>3. CASE api # "anthropic"
    <3>1. calls = 1
      BY <1>1, <1>4, <2>3 DEF OneAtATime, ToolResults, ConversationInv, ConversationTypeOK
    <3>2. ts \in [1..1 -> SUBSET Rules]
      BY <1>1, <2>1, <3>1
    <3>3. ts \in Seq(SUBSET Rules)
      <4>1. Seq(SUBSET Rules) = UNION {[1..n -> SUBSET Rules] : n \in Nat}
        BY SeqDef, Zenon
      <4> QED
        BY <3>2, <4>1, Zenon
    <3>4. Len(ts) = 1
      <4>1. Len(ts) \in Nat /\ DOMAIN ts = 1..Len(ts)
        BY <3>3, LenProperties, Zenon
      <4>2. DOMAIN ts = 1..1
        BY <3>2, Zenon
      <4>3. \A n \in Nat : 1..n = 1..1 => n = 1
        <5> SUFFICES ASSUME NEW n \in Nat, 1..n = 1..1 PROVE n = 1
          OBVIOUS
        <5>1. 1 \in 1..n /\ (n \in 1..n \/ n = 0)
          OBVIOUS
        <5> QED
          BY <5>1
      <4> QED
        BY <4>1, <4>2, <4>3, Zenon
    <3> QED
      BY <1>2, <2>1, <2>3, <3>3, <3>4
  <2> QED
    BY <2>2, <2>3
<1>5. CASE Answer
  BY <1>1, <1>5, AnswerKeepsInv
<1>6. CASE Forget
  BY <1>6, ForgetKeepsInv
<1>7. CASE RefuseTurn
  BY <1>7, RefuseKeepsInv
<1>8. CASE ForwardTurn
  BY <1>8, ForwardKeepsInv
<1>9. CASE AnswerFails \/ Retry \/ GoOn
  <2>1. /\ UNCHANGED <<api, history, made, kept, calls, evaluated, refused, forwarded>>
        /\ \/ phase = "await" /\ phase' = "broken"
           \/ phase \in {"refused", "broken"} /\ phase' = "send"
           \/ phase = "broken" /\ phase' = "compose"
           \/ phase = "refused" /\ phase' = "compose" /\ resumed'
        /\ resumed \in BOOLEAN /\ resumed' \in BOOLEAN /\ (resumed => resumed')
    BY <1>9 DEF AnswerFails, Retry, GoOn, agentVars, ConversationInv, ConversationTypeOK
  <2>2. UserItems(history)' = UserItems(history)
    BY <2>1 DEF UserItems
  <2>3. ConversationTypeOK' /\ IdsIncrease' /\ IdsMade' /\ VerdictsStand'
    BY <2>1, <2>2 DEF ConversationInv, ConversationTypeOK, IdsIncrease, IdsMade, VerdictsStand, Phases
  <2>4. TurnIsOpen' /\ KeptIsSettled'
    BY <2>1, <2>2 DEF ConversationInv, TurnIsOpen, KeptIsSettled, Settled
  <2>5. OnlyTheLastIsOpen'
    BY <2>1, <2>2 DEF ConversationInv, OnlyTheLastIsOpen, Settled
  <2> QED
    BY <2>1, <2>3, <2>4, <2>5 DEF ConversationInv
<1>10. CASE UNCHANGED vars
  BY <1>10 DEF vars, ConversationInv, ConversationTypeOK, IdsIncrease, IdsMade, TurnIsOpen,
               OnlyTheLastIsOpen, KeptIsSettled, VerdictsStand, Settled, UserItems
<1> QED
  BY <1>3, <1>4, <1>5, <1>6, <1>7, <1>8, <1>9, <1>10 DEF ConversationNext

LEMMA InitEstablishesInv ==
  ASSUME ConversationInit
  PROVE  ConversationInv
<1>1. PICK t \in Texts :
        /\ history \in {<<>>, <<[id |-> 1, kind |-> "system", text |-> t]>>}
        /\ made = Len(history) /\ made <= MaxItems
  BY DEF ConversationInit
<1>2. /\ api \in Apis /\ resumed = FALSE
      /\ kept = Len(history) /\ calls = 0 /\ phase = "compose"
      /\ evaluated = {} /\ refused = {} /\ forwarded = {}
  BY DEF ConversationInit
<1>3. history \in Seq(Items)
  <2>1. CASE history = <<>>
    BY <2>1
  <2>2. CASE history = <<[id |-> 1, kind |-> "system", text |-> t]>>
    <3>1. Len(history) = 1
      BY <2>2
    <3>2. [id |-> 1, kind |-> "system", text |-> t] \in Items
      BY <1>1, <3>1, ConversationAssumption DEF Items, Kinds
    <3> QED
      BY <2>2, <3>2
  <2> QED
    BY <1>1, <2>1, <2>2
<1>4. ConversationTypeOK
  <2>1. 0 \in 0..MaxParallel[api]
    BY <1>2, ConversationAssumption
  <2>2. made \in 0..MaxItems
    BY <1>1, <1>3, LenProperties, ConversationAssumption
  <2>3. kept \in 0..Len(history)
    BY <1>2, <1>3, LenProperties
  <2>4. calls \in 0..MaxParallel[api] /\ phase \in Phases /\ resumed \in BOOLEAN
    BY <1>2, <2>1 DEF Phases
  <2> QED
    BY <1>2, <1>3, <2>2, <2>3, <2>4 DEF ConversationTypeOK
<1>5. UserItems(history) = {}
  BY <1>1 DEF UserItems
<1>6. IdsIncrease /\ IdsMade
  BY <1>1 DEF IdsIncrease, IdsMade
<1> QED
  BY <1>2, <1>4, <1>5, <1>6 DEF ConversationInv, TurnIsOpen, OnlyTheLastIsOpen, KeptIsSettled, VerdictsStand

(* The inductive invariant holds of every conversation whose turns add one *)
(* message of the user, whatever its length, texts, rules and failures.    *)
THEOREM ConversationCorrect ==
  ASSUME OneAtATime
  PROVE  ConversationSpec => []ConversationInv
<1>1. ConversationInv /\ [ConversationNext]_vars => ConversationInv'
  BY InvIsInductive
<1>2. ConversationInit => ConversationInv
  BY InitEstablishesInv
<1> QED
  BY <1>1, <1>2, PTL DEF ConversationSpec

(* proxy.go:300: a message of the user that leaves the machine was scanned *)
(* when it was the latest, if turns add one message of the user.           *)
THEOREM HistoryWasEvaluated ==
  ASSUME OneAtATime
  PROVE  ConversationSpec => []EvaluatedBeforeSent
<1>1. ConversationInv => EvaluatedBeforeSent
  BY DEF ConversationInv, EvaluatedBeforeSent
<1> QED
  BY <1>1, ConversationCorrect, PTL

(* scanner.go:40: while the agent retries refused turns or takes them      *)
(* back, what blocked a request is in no request that leaves, earlier or   *)
(* later.                                                                  *)
THEOREM RefusedStaysOnMachine ==
  ASSUME OneAtATime
  PROVE  ConversationSpec => []RefusedNeverSent
<1>1. ConversationInv => RefusedNeverSent
  BY DEF ConversationInv, RefusedNeverSent
<1> QED
  BY <1>1, ConversationCorrect, PTL
=============================================================================

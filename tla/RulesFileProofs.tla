-------------------------- MODULE RulesFileProofs ---------------------------
(***************************************************************************)
(* Unless an edit overlaps with another one or with the seeding of a       *)
(* session, the rules file holds what the acknowledged edits and the       *)
(* seeding have made of it.                                                *)
(***************************************************************************)
EXTENDS RulesFile, SequenceTheorems, WellFoundedInduction, TLAPS

(* A rule that is there has a first place.                                 *)
LEMMA FirstExists ==
  ASSUME NEW rs \in Seq(Rule), NEW id, Has(rs, id)
  PROVE  \E i \in 1..Len(rs) : IsFirst(i, id, rs)
<1> DEFINE T == {n \in 1..Len(rs) : rs[n].id = id}
<1>1. T # {} /\ T \subseteq Nat
  BY DEF Has
<1>2. PICK n \in T : \A k \in T : ~(<<k, n>> \in OpToRel(<, Nat))
  BY <1>1, WFMin, NatLessThanWellFounded
<1>3. \A k \in T : ~(k < n)
  BY <1>1, <1>2 DEF OpToRel
<1> QED
  BY <1>3 DEF IsFirst

(* An edit of rules gives rules.                                           *)
LEMMA EditedIsRules ==
  ASSUME NEW rs \in Seq(Rule), NEW o \in Edits, Has(rs, o.id)
  PROVE  Edited(rs, o) \in Seq(Rule)
<1> DEFINE i == CHOOSE n \in 1..Len(rs) : IsFirst(n, o.id, rs)
<1>1. i \in 1..Len(rs)
  BY FirstExists
<1> HIDE DEF i
<1>2. RemoveAt(rs, i) \in Seq(Rule)
  <2>1. SubSeq(rs, 1, i - 1) \in Seq(Rule)
    BY <1>1
  <2>2. SubSeq(rs, i + 1, Len(rs)) \in Seq(Rule)
    BY <1>1
  <2> QED
    BY <2>1, <2>2, ConcatProperties DEF RemoveAt
<1>3. rs[i] \in Rule
  BY <1>1
<1>4. o.kind # "delete" => Changed(rs[i], o) \in Rule
  BY <1>3 DEF Changed, Edits, Rule
<1>5. o.kind # "delete" => [rs EXCEPT ![i] = Changed(@, o)] \in Seq(Rule)
  BY <1>1, <1>4, ExceptSeq
<1> QED
  BY <1>2, <1>5 DEF Edited, i

LEMMA StarterIsRules == Starter \in Seq(Rule)
<1>1. Len(StarterIds) \in Nat /\ \A i \in 1..Len(StarterIds) : StarterIds[i] \in RuleIds
  BY RulesFileAssumption
<1>2. Starter \in [1..Len(StarterIds) -> Rule]
  BY <1>1 DEF Starter, Rule, RuleActions
<1> QED
  <2>1. Seq(Rule) = UNION {[1..n -> Rule] : n \in Nat}
    BY SeqDef, Zenon
  <2> QED
    BY <1>1, <1>2, <2>1, Zenon

(* Who writes into an empty file, or over what he wants to write, leaves   *)
(* exactly that.                                                           *)
LEMMA WriteGoesThrough ==
  ASSUME NEW x, buf[x] \in Seq(Rule), form = "rules", rules \in {<<>>, buf[x]}, Overwrite(x)
  PROVE  form' = "rules" /\ rules' = buf[x]
<1>1. SubSeq(rules, Len(buf[x]) + 1, Len(rules)) = <<>>
  <2>1. Len(buf[x]) \in Nat /\ Len(<<>>) = 0
    OBVIOUS
  <2>2. Len(buf[x]) < Len(buf[x]) + 1 /\ Len(<<>>) < Len(buf[x]) + 1
    BY <2>1
  <2>3. CASE rules = <<>>
    BY <2>1, <2>2, <2>3, SubSeqEmpty
  <2>4. CASE rules = buf[x]
    BY <2>1, <2>2, <2>4, SubSeqEmpty
  <2> QED
    BY <2>3, <2>4
<1>2. buf[x] \o <<>> = buf[x]
  BY ConcatEmptySeq
<1> QED
  BY <1>1, <1>2 DEF Overwrite

-----------------------------------------------------------------------------
(* The steps                                                               *)

LEMMA EditLoadKeepsInv ==
  ASSUME RulesFileInv, NEW e \in Editors, NEW o \in Edits, EditLoad(e, o)
  PROVE  RulesFileInv'
<1> USE DEF RulesFileInv
<1>1. /\ mixed' = (mixed \/ ~NoEdit \/ ~NoSeeding) /\ at[e] = "idle" /\ form = "rules" /\ Has(rules, o.id)
      /\ edit' = [edit EXCEPT ![e] = o] /\ buf' = [buf EXCEPT ![e] = Edited(rules, o)]
      /\ at' = [at EXCEPT ![e] = "truncate"] /\ edits' = edits + 1 /\ edits < MaxEdits
      /\ UNCHANGED <<form, rules, loaded, book, lost>> /\ e \in Actors
  BY DEF EditLoad, Goto, file, Actors
<1>2. Edited(rules, o) \in Seq(Rule)
  BY <1>1, EditedIsRules DEF RulesFileTypeOK, Places, Done
<1>3. RulesFileTypeOK'
  <2>1. /\ at' \in [Actors -> Places]
        /\ edit' \in [Editors -> Edits]
    BY <1>1 DEF RulesFileTypeOK, Places, Done
  <2>2. buf' \in [Actors -> Seq(Rule)]
    BY <1>1, <1>2 DEF RulesFileTypeOK, Places, Done
  <2>3. edits' \in 0..MaxEdits
    BY <1>1, RulesFileAssumption DEF RulesFileTypeOK, Places, Done
  <2>4. mixed' \in BOOLEAN
    BY <1>1 DEF RulesFileTypeOK
  <2> QED
    BY <1>1, <2>1, <2>2, <2>3, <2>4 DEF RulesFileTypeOK, Places, Done
<1>4. ~mixed' => EditsAreAlone'
  <2> SUFFICES ASSUME ~mixed', NEW f \in Editors, NEW y \in Actors,
                      at'[f] \notin Done, at'[y] \in {"truncate", "write"}
               PROVE  y = f
    BY DEF EditsAreAlone
  <2>1. /\ \A x \in Editors : at[x] \in Done
        /\ \A x \in Actors : at[x] \notin {"truncate", "write"}
    BY <1>1 DEF NoEdit, NoSeeding, Actors, Done
  <2>2. \A x \in Actors : x # e => at'[x] = at[x]
    BY <1>1 DEF RulesFileTypeOK
  <2> QED
    BY <2>1, <2>2 DEF Actors
<1>5. ASSUME ~lost' /\ ~mixed'
      PROVE  /\ rules' = book'
             /\ \A x \in Actors :
                  /\ at'[x] # "write"
                  /\ at'[x] = "truncate" => Written(x)'
  <2>1. ~mixed /\ \A x \in Actors : at[x] \notin {"truncate", "write"}
    BY <1>1, <1>5 DEF NoEdit, NoSeeding, Actors, Done
  <2>2. \A x \in Actors : x # e => at'[x] = at[x]
    BY <1>1 DEF RulesFileTypeOK, Places, Done
  <2>3. at'[e] = "truncate" /\ edit'[e] = o /\ buf'[e] = Edited(rules, o)
    BY <1>1 DEF RulesFileTypeOK, Places, Done
  <2>4. rules = book
    BY <1>1, <1>5, <2>1
  <2>5. Written(e)'
    BY <1>1, <2>3, <2>4 DEF Written
  <2> QED
    BY <1>1, <2>1, <2>2, <2>3, <2>4, <2>5
<1> QED
  BY <1>3, <1>4, <1>5

(* The truncation of the file: who may be at it writes over nothing else.  *)
LEMMA TruncateKeepsInv ==
  ASSUME RulesFileInv, NEW x \in Actors, Truncate(x)
  PROVE  RulesFileInv'
<1> USE DEF RulesFileInv
<1>1. /\ at[x] = "truncate" /\ form' = "rules" /\ rules' = <<>>
      /\ at' = [at EXCEPT ![x] = "write"]
      /\ UNCHANGED <<buf, edit, loaded, edits, book, lost, mixed>>
  BY DEF Truncate, Goto, history
<1>2. at'[x] = "write" /\ \A y \in Actors : y # x => at'[y] = at[y]
  BY <1>1 DEF RulesFileTypeOK
<1>3. RulesFileTypeOK'
  <2>1. at' \in [Actors -> Places]
    BY <1>1 DEF RulesFileTypeOK, Places, Done
  <2>2. rules' \in Seq(Rule) /\ form' \in Forms
    BY <1>1, EmptySeq DEF Forms
  <2> QED
    BY <1>1, <2>1, <2>2 DEF RulesFileTypeOK, Places, Done
<1>4. ~mixed' => EditsAreAlone'
  BY <1>1, <1>2 DEF EditsAreAlone, Done
<1>5. \A y \in Actors : Written(y)' <=> Written(y)
  BY <1>1 DEF Written
<1>6. \A y \in Actors : rules' \in Overwritten(y)'
  BY <1>1 DEF Overwritten
<1> QED
  BY <1>1, <1>2, <1>3, <1>4, <1>5, <1>6

(* A completed write: the next book is in the file.                        *)
LEMMA WriteKeepsInv ==
  ASSUME RulesFileInv, NEW x \in Actors,
         (x \in Editors /\ EditWrite(x)) \/ (x \in Sessions /\ SeedWrite(x))
  PROVE  RulesFileInv'
<1> USE DEF RulesFileInv
<1>1. /\ at[x] = "write" /\ Overwrite(x) /\ at' = [at EXCEPT ![x] = AfterWrite(x)]
      /\ UNCHANGED <<buf, edit, loaded, edits, lost, mixed>>
  BY RulesFileAssumption DEF EditWrite, SeedWrite, Goto, AfterWrite, Actors
<1>2. /\ at'[x] = AfterWrite(x) /\ AfterWrite(x) \in {"idle", "load"}
      /\ \A y \in Actors : y # x => at'[y] = at[y]
  BY <1>1 DEF RulesFileTypeOK, AfterWrite
<1>3. buf[x] \in Seq(Rule) /\ rules \in Seq(Rule) /\ book \in Seq(Rule)
  BY DEF RulesFileTypeOK, Places, Done
<1>4. form' \in Forms /\ rules' \in Seq(Rule) /\ (form' # "rules" => rules' = <<>>)
  <2>1. SubSeq(rules, Len(buf[x]) + 1, Len(rules)) \in Seq(Rule)
    BY <1>3
  <2>2. buf[x] \o SubSeq(rules, Len(buf[x]) + 1, Len(rules)) \in Seq(Rule)
    BY <1>3, <2>1, ConcatProperties
  <2>3. <<>> \in Seq(Rule)
    BY EmptySeq
  <2> QED
    BY <1>1, <2>2, <2>3 DEF Overwrite, Forms
<1>5. book' \in Seq(Rule)
  <2>1. CASE x \in Editors /\ EditWrite(x)
    <3>1. edit[x] \in Edits
      BY <2>1 DEF RulesFileTypeOK
    <3> QED
      BY <1>3, <2>1, <3>1, EditedIsRules DEF EditWrite
  <2>2. CASE x \in Sessions /\ SeedWrite(x)
    BY <1>3, <2>2, StarterIsRules DEF SeedWrite, RulesFileTypeOK
  <2> QED
    BY <2>1, <2>2
<1>6. RulesFileTypeOK'
  BY <1>1, <1>2, <1>4, <1>5 DEF RulesFileTypeOK, Places, Done
<1>7. ~mixed' => EditsAreAlone'
  BY <1>1, <1>2 DEF EditsAreAlone, Done
<1>8. ASSUME ~lost', ~mixed'
      PROVE  /\ form' = "rules" /\ rules' = buf[x] /\ book' = buf[x]
             /\ x \in Sessions => buf[x] = Starter
  <2>1. Written(x) /\ form = "rules" /\ rules \in Overwritten(x)
    BY <1>1, <1>8
  <2>2. x \in Sessions => x \notin Editors /\ buf[x] = Starter
    BY <2>1, RulesFileAssumption DEF Written
  <2>3. form' = "rules" /\ rules' = buf[x]
    <3>1. rules \in {<<>>, buf[x]}
      BY <2>1, <2>2 DEF Overwritten, Written
    <3> QED
      BY <1>1, <1>3, <2>1, <3>1, WriteGoesThrough
  <2>4. book' = buf[x]
    <3>1. CASE x \in Editors /\ EditWrite(x)
      BY <2>1, <3>1 DEF EditWrite, Written
    <3>2. CASE x \in Sessions /\ SeedWrite(x)
      BY <2>1, <2>2, <3>2 DEF SeedWrite, Written
    <3> QED
      BY <3>1, <3>2
  <2> QED
    BY <2>2, <2>3, <2>4
<1>9. ASSUME ~lost', ~mixed', NEW y \in Actors, y # x, at[y] \in {"truncate", "write"}
      PROVE  Written(y)' /\ rules' \in Overwritten(y)'
  <2>1. x \notin Editors /\ y \notin Editors /\ x \in Sessions /\ y \in Sessions
    BY <1>1, <1>9 DEF EditsAreAlone, Done, Actors
  <2>2. Written(y)
    BY <1>1, <1>9
  <2> QED
    BY <1>1, <1>8, <1>9, <2>1, <2>2 DEF Written, Overwritten
<1>10. \A y \in Actors : at'[y] \in {"truncate", "write"} => y # x /\ at'[y] = at[y]
  BY <1>2
<1> QED
  BY <1>6, <1>7, <1>8, <1>9, <1>10 DEF Overwritten

(* A failed write is the end of what the invariant promises.               *)
LEMMA WriteFailsKeepsInv ==
  ASSUME RulesFileInv, NEW x \in Actors, WriteFails(x)
  PROVE  RulesFileInv'
<1> USE DEF RulesFileInv
<1>1. /\ at[x] = "write" /\ lost' = TRUE /\ at' = [at EXCEPT ![x] = AfterWrite(x)]
      /\ UNCHANGED <<buf, edit, loaded, edits, book, mixed>>
      /\ \/ /\ form' = "rules"
            /\ \E n \in 0..Len(buf[x]) :
                 rules' = SubSeq(buf[x], 1, n) \o SubSeq(rules, n + 1, Len(rules))
         \/ form' = "malformed" /\ rules' = <<>>
  BY DEF WriteFails, Goto
<1>2. rules' \in Seq(Rule)
  <2>1. buf[x] \in Seq(Rule) /\ rules \in Seq(Rule)
    BY DEF RulesFileTypeOK, Places, Done
  <2>2. ASSUME NEW n \in 0..Len(buf[x])
        PROVE  SubSeq(buf[x], 1, n) \o SubSeq(rules, n + 1, Len(rules)) \in Seq(Rule)
    <3>1. SubSeq(buf[x], 1, n) \in Seq(Rule) /\ SubSeq(rules, n + 1, Len(rules)) \in Seq(Rule)
      BY <2>1
    <3> QED
      BY <3>1, ConcatProperties
  <2>3. <<>> \in Seq(Rule)
    BY EmptySeq
  <2> QED
    BY <1>1, <2>2, <2>3
<1>3. RulesFileTypeOK'
  BY <1>1, <1>2 DEF RulesFileTypeOK, Places, Done, Forms, AfterWrite
<1>4. ~mixed' => EditsAreAlone'
  BY <1>1 DEF EditsAreAlone, Done, AfterWrite, RulesFileTypeOK
<1> QED
  BY <1>1, <1>3, <1>4

(* Steps that leave the file, the book and every buffer but one's own.     *)
LEMMA OpenFailsKeepsInv ==
  ASSUME RulesFileInv, NEW x \in Actors, OpenFails(x)
  PROVE  RulesFileInv'
<1> USE DEF RulesFileInv
<1>1. /\ at[x] = "truncate" /\ lost' = (lost \/ x \in Sessions)
      /\ at' = [at EXCEPT ![x] = AfterWrite(x)]
      /\ UNCHANGED <<form, rules, buf, edit, loaded, edits, book, mixed>>
  BY DEF OpenFails, Goto, file
<1>2. at'[x] \in {"idle", "load"} /\ \A y \in Actors : y # x => at'[y] = at[y]
  BY <1>1 DEF RulesFileTypeOK, AfterWrite
<1>3. RulesFileTypeOK'
  BY <1>1 DEF RulesFileTypeOK, Places, Done, AfterWrite
<1>4. ~mixed' => EditsAreAlone'
  BY <1>1, <1>2 DEF EditsAreAlone, Done
<1>5. \A y \in Actors : Written(y)' <=> Written(y)
  BY <1>1 DEF Written
<1>6. /\ \A y \in Actors : at'[y] \in {"truncate", "write"} => at'[y] = at[y]
      /\ (\A y \in Actors : at'[y] # "write") => (\A y \in Actors : at[y] # "write")
  BY <1>1, <1>2
<1>7. ~lost' => ~lost
  BY <1>1
<1> QED
  BY <1>1, <1>3, <1>4, <1>5, <1>6, <1>7 DEF Overwritten

LEMMA SeedingKeepsInv ==
  ASSUME RulesFileInv, NEW s \in Sessions, SeedStat(s) \/ SeedRead(s)
  PROVE  RulesFileInv'
<1> USE DEF RulesFileInv
<1>1. s \in Actors /\ s \notin Editors /\ at \in [Actors -> Places] /\ mixed \in BOOLEAN
  BY RulesFileAssumption DEF Actors, RulesFileTypeOK
<1>2. /\ at[s] \in {"idle", "read"}
      /\ UNCHANGED <<form, rules, edit, loaded, edits, book, lost>>
  BY <1>1 DEF SeedStat, SeedRead, file
<1>3. \/ /\ rules = <<>> /\ mixed' = (mixed \/ ~NoEdit)
         /\ at' = [at EXCEPT ![s] = "truncate"] /\ buf' = [buf EXCEPT ![s] = Starter]
      \/ /\ at' = [at EXCEPT ![s] = "read"] \/ at' = [at EXCEPT ![s] = "load"]
         /\ buf' = buf /\ mixed' = mixed
  BY DEF SeedStat, SeedRead, Seed, Skip, Goto, RulesFileTypeOK
<1>4. mixed' \in BOOLEAN /\ (mixed => mixed')
  BY <1>1, <1>3
<1>5. /\ \A y \in Actors : y # s => at'[y] = at[y] /\ buf'[y] = buf[y]
      /\ at'[s] \in {"truncate", "read", "load"}
  BY <1>1, <1>3 DEF RulesFileTypeOK
<1>6. RulesFileTypeOK'
  <2>1. at \in [Actors -> Places] /\ buf \in [Actors -> Seq(Rule)]
    BY DEF RulesFileTypeOK
  <2>2. at' \in [Actors -> Places]
    BY <1>3, <2>1 DEF Places
  <2>3. buf' \in [Actors -> Seq(Rule)]
    BY <1>3, <2>1, StarterIsRules
  <2> QED
    BY <1>2, <1>4, <2>2, <2>3 DEF RulesFileTypeOK
<1>7. ~mixed' => EditsAreAlone'
  <2> SUFFICES ASSUME ~mixed', NEW e \in Editors, at'[e] \notin Done,
                      NEW y \in Actors, at'[y] \in {"truncate", "write"}
               PROVE  y = e
    BY DEF EditsAreAlone
  <2>1. e \in Actors /\ e # s /\ at[e] \notin Done
    BY <1>1, <1>5 DEF Actors
  <2>2. y # s
    BY <1>1, <1>3, <2>1 DEF NoEdit
  <2>3. EditsAreAlone /\ at[y] \in {"truncate", "write"}
    BY <1>4, <1>5, <2>2
  <2> QED
    BY <2>1, <2>3 DEF EditsAreAlone
<1>8. ASSUME ~lost', ~mixed', at'[s] = "truncate" PROVE Written(s)'
  <2>1. ~lost /\ ~mixed
    BY <1>2, <1>4, <1>8
  <2>2. rules = <<>> /\ buf'[s] = Starter /\ NoEdit
    BY <1>1, <1>3, <1>8, <2>1 DEF RulesFileTypeOK
  <2>3. book \in {<<>>, Starter}
    <3>1. CASE \A x \in Actors : at[x] # "write"
      BY <2>1, <2>2, <3>1
    <3>2. CASE \E x \in Actors : at[x] = "write"
      <4>1. PICK x \in Actors : at[x] = "write"
        BY <3>2
      <4>2. x \notin Editors
        BY <2>2, <4>1 DEF NoEdit, Done
      <4> QED
        BY <2>1, <4>1, <4>2 DEF Written
    <3> QED
      BY <3>1, <3>2
  <2> QED
    BY <1>1, <1>2, <2>2, <2>3 DEF Written
<1>9. \A y \in Actors : y # s => (Written(y)' <=> Written(y))
  BY <1>2, <1>5 DEF Written
<1>10. (\A y \in Actors : at'[y] # "write") => (\A y \in Actors : at[y] # "write")
  BY <1>2, <1>5
<1> QED
  BY <1>2, <1>4, <1>5, <1>6, <1>7, <1>8, <1>9, <1>10 DEF Overwritten

LEMMA LoadKeepsInv ==
  ASSUME RulesFileInv, NEW s \in Sessions, Load(s)
  PROVE  RulesFileInv'
<1> USE DEF RulesFileInv
<1>1. /\ s \in Actors /\ at[s] = "load"
      /\ at' = [at EXCEPT ![s] = "failed"] \/ at' = [at EXCEPT ![s] = "running"]
      /\ loaded' = loaded \/ loaded' = [loaded EXCEPT ![s] = Compiled(rules)]
      /\ UNCHANGED <<form, rules, buf, edit, edits, book, lost, mixed>>
  BY DEF Load, Goto, file, history, Actors
<1>2. Compiled(rules) \in SUBSET [id : RuleIds, action : RuleActions]
  <2>1. \A i \in 1..Len(rules) : rules[i] \in Rule
    BY DEF RulesFileTypeOK, Places, Done
  <2>2. ASSUME NEW i \in 1..Len(rules)
        PROVE  [id |-> rules[i].id,
                action |-> IF rules[i].action = "" THEN "warn" ELSE rules[i].action]
                 \in [id : RuleIds, action : RuleActions]
    BY <2>1 DEF Rule, RuleActions
  <2> QED
    BY <2>2 DEF Compiled
<1>3. at'[s] \in {"failed", "running"} /\ \A y \in Actors : y # s => at'[y] = at[y]
  BY <1>1 DEF RulesFileTypeOK, Places, Done
<1>4. RulesFileTypeOK'
  <2>1. loaded' \in [Sessions -> SUBSET [id : RuleIds, action : RuleActions]]
    BY <1>1, <1>2 DEF RulesFileTypeOK, Places, Done
  <2> QED
    BY <1>1, <2>1 DEF RulesFileTypeOK, Places, Done
<1>5. ~mixed' => EditsAreAlone'
  <2>1. \A y \in Actors :
          /\ at'[y] \notin Done => at[y] \notin Done
          /\ at'[y] \in {"truncate", "write"} => at[y] \in {"truncate", "write"}
    BY <1>1, <1>3 DEF Done
  <2>2. Editors \subseteq Actors
    BY DEF Actors
  <2> QED
    BY <1>1, <2>1, <2>2 DEF EditsAreAlone
<1>6. \A y \in Actors : Written(y)' <=> Written(y)
  BY <1>1 DEF Written
<1>7. /\ \A y \in Actors : at'[y] \in {"truncate", "write"} => at'[y] = at[y]
      /\ (\A y \in Actors : at'[y] # "write") => (\A y \in Actors : at[y] # "write")
  BY <1>1, <1>3
<1> QED
  BY <1>1, <1>4, <1>5, <1>6, <1>7 DEF Overwritten

-----------------------------------------------------------------------------
(* The theorems                                                            *)

LEMMA RulesFileInvIsInductive ==
  ASSUME RulesFileInv, [RulesFileNext]_vars
  PROVE  RulesFileInv'
<1>1. \A x \in Editors \cup Sessions : x \in Actors
  BY DEF Actors
<1>2. ASSUME NEW e \in Editors, EditStep(e) PROVE RulesFileInv'
  <2>1. CASE \E o \in Edits : EditLoad(e, o)
    BY <2>1, EditLoadKeepsInv
  <2>2. CASE \E o \in Edits : EditRefused(e, o)
    <3>1. /\ edits < MaxEdits /\ edits' = edits + 1
          /\ UNCHANGED <<form, rules, at, buf, edit, loaded, book, lost, mixed>>
      BY <2>2 DEF EditRefused, file, history
    <3>2. edits' \in 0..MaxEdits
      BY <3>1, RulesFileAssumption DEF RulesFileInv, RulesFileTypeOK
    <3> QED
      BY <3>1, <3>2 DEF RulesFileInv, RulesFileTypeOK, EditsAreAlone, Written, Overwritten
  <2> QED
    BY <1>1, <1>2, <2>1, <2>2, TruncateKeepsInv, OpenFailsKeepsInv, WriteKeepsInv,
       WriteFailsKeepsInv DEF EditStep
<1>3. ASSUME NEW s \in Sessions, SessionStep(s) PROVE RulesFileInv'
  BY <1>1, <1>3, SeedingKeepsInv, TruncateKeepsInv, OpenFailsKeepsInv, WriteKeepsInv,
     WriteFailsKeepsInv, LoadKeepsInv DEF SessionStep
<1>4. CASE UNCHANGED vars
  BY <1>4 DEF vars, RulesFileInv, RulesFileTypeOK, EditsAreAlone, Written, Overwritten
<1> QED
  BY <1>2, <1>3, <1>4 DEF RulesFileNext

LEMMA RulesFileInitInv ==
  ASSUME RulesFileInit
  PROVE  RulesFileInv
<1>1. PICK f \in InitialFiles : form = f.form /\ rules = f.rules /\ book = f.rules
  BY DEF RulesFileInit
<1>2. /\ form \in Forms /\ rules \in Seq(Rule) /\ book \in Seq(Rule)
      /\ (form # "rules" => rules = <<>>)
  BY <1>1, RulesFileAssumption
<1>3. edit \in [Editors -> Edits]
  <2>1. \E i \in 1..Len(StarterIds) : StarterIds[i] \in RuleIds
    BY RulesFileAssumption, EmptySeq
  <2>2. PICK id \in RuleIds : TRUE
    BY <2>1
  <2>3. [kind |-> "toggle", id |-> id] \in Edits
    BY <2>2 DEF Edits
  <2> QED
    BY <2>3 DEF RulesFileInit
<1>4. buf \in [Actors -> Seq(Rule)]
  BY EmptySeq DEF RulesFileInit
<1>5. RulesFileTypeOK
  <2>1. at \in [Actors -> Places]
    BY DEF RulesFileInit, Places, Done
  <2>2. loaded \in [Sessions -> SUBSET [id : RuleIds, action : RuleActions]]
    BY DEF RulesFileInit
  <2>3. edits \in 0..MaxEdits /\ lost \in BOOLEAN /\ mixed \in BOOLEAN
    <3>1. edits = 0 /\ lost = FALSE /\ mixed = FALSE
      BY DEF RulesFileInit
    <3>2. MaxEdits \in Nat
      BY RulesFileAssumption, Zenon
    <3>3. edits \in 0..MaxEdits
      BY <3>1, <3>2
    <3>4. lost \in BOOLEAN /\ mixed \in BOOLEAN
      BY <3>1, Zenon
    <3> QED
      BY <3>1, <3>3, <3>4, Zenon
  <2> QED
    BY <1>2, <1>3, <1>4, <2>1, <2>2, <2>3 DEF RulesFileTypeOK
<1> QED
  BY <1>1, <1>5 DEF RulesFileInit, RulesFileInv, EditsAreAlone, Done

(* The inductive invariant, for any file, rules, edits, starts of sessions *)
(* and failures.                                                           *)
THEOREM RulesFileCorrect ==
  RulesFileSpec => []RulesFileInv
<1>1. RulesFileInv /\ [RulesFileNext]_vars => RulesFileInv'
  BY RulesFileInvIsInductive
<1>2. RulesFileInit => RulesFileInv
  BY RulesFileInitInv
<1> QED
  BY <1>1, <1>2, PTL DEF RulesFileSpec

(* Edits that overlap neither with one another nor with a seeding take     *)
(* effect one after the other, and seeding, also by several sessions at    *)
(* once, undoes none of them.                                              *)
THEOREM EditsAlwaysStand ==
  RulesFileSpec => []EditsStand
<1>1. RulesFileInv => EditsStand
  BY DEF RulesFileInv, EditsStand, Quiet, Done
<1> QED
  BY <1>1, RulesFileCorrect, PTL

(* A session runs the rules as the last acknowledged edit left them, or    *)
(* none if it reads while an edit or another session has it truncated.     *)
THEOREM SessionsRunTheBook ==
  RulesFileSpec => SessionRunsTheBook
<1> DEFINE Loads ==
      \A s \in Sessions :
        at[s] = "load" /\ at'[s] = "running" /\ ~lost /\ ~mixed =>
          \/ loaded'[s] = Compiled(book)
          \/ loaded'[s] = {} /\ \E x \in Actors : at[x] = "write"
<1>1. RulesFileInv /\ [RulesFileNext]_vars => [Loads]_vars
  <2> SUFFICES ASSUME RulesFileInv, [RulesFileNext]_vars, NEW s \in Sessions,
                      at[s] = "load", at'[s] = "running", ~lost, ~mixed
               PROVE  \/ loaded'[s] = Compiled(book)
                      \/ loaded'[s] = {} /\ \E x \in Actors : at[x] = "write"
    OBVIOUS
  <2>1. s \in Actors /\ s \notin Editors /\ at \in [Actors -> Places]
    BY RulesFileAssumption DEF Actors, RulesFileInv, RulesFileTypeOK
  <2>2. ASSUME NEW t \in Actors, at[t] = "write"
        PROVE  rules \in {<<>>, book}
    BY <2>2 DEF RulesFileInv, Overwritten
  <2>3. Load(s)
    <3>1. at' # at
      OBVIOUS
    <3>3. ASSUME NEW e \in Editors, EditStep(e) PROVE FALSE
      <4>1. e # s /\ e \in Actors
        BY <2>1 DEF Actors
      <4> QED
        BY <2>1, <3>3, <4>1 DEF EditStep, EditLoad, EditRefused, Truncate, OpenFails,
                                EditWrite, WriteFails, Goto
    <3>4. ASSUME NEW q \in Sessions, SessionStep(q), q # s PROVE FALSE
      <4>1. q \in Actors
        BY DEF Actors
      <4> QED
        BY <2>1, <3>4, <4>1 DEF SessionStep, SeedStat, SeedRead, Seed, Skip, Truncate,
                                OpenFails, SeedWrite, WriteFails, Load, Goto
    <3>5. SessionStep(s)
      BY <3>1, <3>3, <3>4 DEF RulesFileNext, vars
    <3> QED
      BY <2>1, <3>5 DEF SessionStep, SeedStat, SeedRead, Truncate, OpenFails, SeedWrite, WriteFails
  <2>4. loaded'[s] = Compiled(rules)
    BY <2>1, <2>3 DEF Load, Goto, RulesFileInv, RulesFileTypeOK
  <2>5. CASE \A y \in Actors : at[y] # "write"
    BY <2>4, <2>5 DEF RulesFileInv
  <2>6. ASSUME NEW t \in Actors, at[t] = "write"
        PROVE  loaded'[s] = {} \/ loaded'[s] = Compiled(book)
    <3>1. Compiled(<<>>) = {}
      BY DEF Compiled
    <3> QED
      BY <2>2, <2>4, <2>6, <3>1
  <2> QED
    BY <2>2, <2>5, <2>6
<1> QED
  BY <1>1, RulesFileCorrect, PTL DEF RulesFileSpec, SessionRunsTheBook
=============================================================================

----------------------------- MODULE RulesFile ------------------------------
(***************************************************************************)
(* rules.yaml and those who use it: the editing requests of the API        *)
(* (internal/scanner/load.go: ToggleRule, SetRuleAction, DeleteRule, called *)
(* by internal/api) and the start of a session (cmd/aig/scanner.go), which *)
(* seeds the file and compiles it.                                         *)
(*                                                                         *)
(* An edit reads the whole file, changes its copy, and writes the whole    *)
(* file with os.WriteFile, which truncates it and writes from offset 0;    *)
(* there is no lock, and the API and the sessions are processes of their   *)
(* own. The file is a sequence of rules; an empty file and an empty list   *)
(* of rules read the same. "book", "lost" and "mixed" are history.         *)
(***************************************************************************)
EXTENDS Integers, Sequences, SequencesExt

CONSTANTS
  RuleIds,        \* the ids of rules
  BrokenPatterns, \* those whose regular expression does not compile
  StarterIds,     \* scanner.StarterConfig: the ids of its rules, in order
  InitialFiles,   \* the files found at first
  Editors,        \* concurrent editing requests
  Sessions,       \* starts of "aig run"
  MaxEdits        \* bound on edits

RuleActions == {"", "allow", "warn", "block"}
Rule  == [id : RuleIds, enabled : BOOLEAN, action : RuleActions]
Forms == {"missing", "rules", "malformed"}
(* SetRuleAction turns any other action away before it reads the file.    *)
Edits == [kind : {"toggle", "delete"}, id : RuleIds]
           \cup [kind : {"action"}, id : RuleIds, action : RuleActions]

Starter == [i \in 1..Len(StarterIds) |->
              [id |-> StarterIds[i], enabled |-> TRUE, action |-> ""]]

ASSUME RulesFileAssumption ==
  /\ BrokenPatterns \subseteq RuleIds
  /\ StarterIds \in Seq(RuleIds) /\ StarterIds # <<>>
  /\ InitialFiles \subseteq [form : Forms, rules : Seq(Rule)]
  /\ \A f \in InitialFiles : f.form # "rules" => f.rules = <<>>
  /\ Editors \cap Sessions = {}
  /\ MaxEdits \in Nat

VARIABLES
  form,     \* whether there is a file, and whether YAML can read it
  rules,    \* its rules, if it has any
  at,       \* where each edit and each session is
  buf,      \* what it is about to write
  edit,     \* the edit of each editor
  loaded,   \* the rules each session compiled
  edits,    \* how many edits were begun
  book,     \* what the acknowledged edits and the seeding make of the rules
  lost,     \* a write failed that took rules away or should have seeded them
  mixed     \* an edit has overlapped with another edit or with a seeding

file == <<form, rules>>
history == <<book, lost, mixed>>
vars == <<form, rules, at, buf, edit, loaded, edits, book, lost, mixed>>

Actors == Editors \cup Sessions

Done   == {"idle", "running", "failed"}
Places == Done \cup {"read", "truncate", "write", "load"}

RulesFileTypeOK ==
  /\ form \in Forms
  /\ rules \in Seq(Rule) /\ (form # "rules" => rules = <<>>)
  /\ at \in [Actors -> Places]
  /\ buf \in [Actors -> Seq(Rule)]
  /\ edit \in [Editors -> Edits]
  /\ loaded \in [Sessions -> SUBSET [id : RuleIds, action : RuleActions]]
  /\ edits \in 0..MaxEdits
  /\ book \in Seq(Rule) /\ lost \in BOOLEAN /\ mixed \in BOOLEAN

Quiet == \A x \in Actors : at[x] \in Done

NoEdit == \A e \in Editors : at[e] \in Done

NoSeeding == \A s \in Sessions : at[s] \notin {"truncate", "write"}

Goto(x, place) == at' = [at EXCEPT ![x] = place]

-----------------------------------------------------------------------------
(* What is computed from the rules                                         *)

\* The place of the first rule with that id.
IsFirst(i, id, rs) == rs[i].id = id /\ \A j \in 1..i-1 : rs[j].id # id

\* A disabled rule becomes enabled again by dropping the field.
Changed(rule, e) ==
  IF e.kind = "toggle" THEN [rule EXCEPT !.enabled = ~@]
                       ELSE [rule EXCEPT !.action = e.action]

Has(rs, id) == \E i \in 1..Len(rs) : rs[i].id = id

Edited(rs, e) ==
  LET place == CHOOSE i \in 1..Len(rs) : IsFirst(i, e.id, rs)
  IN  IF e.kind = "delete" THEN RemoveAt(rs, place)
                           ELSE [rs EXCEPT ![place] = Changed(@, e)]

(* LoadConfig: disabled rules and patterns that do not compile are left    *)
(* out; an omitted action is "warn".                                       *)
Compiled(rs) ==
  {[id |-> r.id, action |-> IF r.action = "" THEN "warn" ELSE r.action] :
     r \in {rs[i] : i \in {j \in 1..Len(rs) :
                           rs[j].enabled /\ rs[j].id \notin BrokenPatterns}}}

-----------------------------------------------------------------------------

RulesFileInit ==
  /\ \E f \in InitialFiles : form = f.form /\ rules = f.rules /\ book = f.rules
  /\ at = [x \in Actors |-> "idle"]
  /\ buf = [x \in Actors |-> <<>>]
  /\ edit = [e \in Editors |-> CHOOSE o \in Edits : TRUE]
  /\ loaded = [s \in Sessions |-> {}]
  /\ edits = 0 /\ lost = FALSE /\ mixed = FALSE

-----------------------------------------------------------------------------
(* Edits                                                                   *)

(* LoadConfigRaw and the change of the copy.                               *)
EditLoad(e, o) ==
  /\ at[e] = "idle" /\ edits < MaxEdits
  /\ form = "rules" /\ Has(rules, o.id)
  /\ edit' = [edit EXCEPT ![e] = o]
  /\ buf' = [buf EXCEPT ![e] = Edited(rules, o)]
  /\ edits' = edits + 1
  /\ mixed' = (mixed \/ ~NoEdit \/ ~NoSeeding)
  /\ Goto(e, "truncate")
  /\ UNCHANGED <<file, loaded, book, lost>>

(* No such rule, or no readable file: 404.                                 *)
EditRefused(e, o) ==
  /\ at[e] = "idle" /\ edits < MaxEdits
  /\ form # "rules" \/ ~Has(rules, o.id)
  /\ edits' = edits + 1
  /\ UNCHANGED <<file, at, buf, edit, loaded, history>>

-----------------------------------------------------------------------------
(* os.WriteFile, by whoever writes                                         *)

AfterWrite(x) == IF x \in Editors THEN "idle" ELSE "load"

(* O_TRUNC, O_CREATE.                                                      *)
Truncate(x) ==
  /\ at[x] = "truncate"
  /\ form' = "rules" /\ rules' = <<>>
  /\ Goto(x, "write")
  /\ UNCHANGED <<buf, edit, loaded, edits, history>>

OpenFails(x) ==
  /\ at[x] = "truncate"
  /\ lost' = (lost \/ x \in Sessions)
  /\ Goto(x, AfterWrite(x))
  /\ UNCHANGED <<file, buf, edit, loaded, edits, book, mixed>>

(* A plausible mistake; no specification uses it: O_APPEND.                *)
Appended(x) == form' = "rules" /\ rules' = rules \o buf[x]

(* A write goes over what another one has put there meanwhile; what        *)
(* sticks out at the end may start in the middle of a line.                *)
Overwrite(x) ==
  \/ /\ form' = "rules"
     /\ rules' = buf[x] \o SubSeq(rules, Len(buf[x]) + 1, Len(rules))
  \/ /\ form = "malformed" \/ rules \notin {<<>>, buf[x]}
     /\ form' = "malformed" /\ rules' = <<>>

EditWrite(e) ==
  /\ at[e] = "write"
  /\ Overwrite(e)
  /\ book' = IF Has(book, edit[e].id) THEN Edited(book, edit[e]) ELSE book
  /\ Goto(e, "idle")
  /\ UNCHANGED <<buf, edit, loaded, edits, lost, mixed>>

SeedWrite(s) ==
  /\ at[s] = "write"
  /\ Overwrite(s)
  /\ book' = IF book = <<>> THEN Starter ELSE book
  /\ Goto(s, "load")
  /\ UNCHANGED <<buf, edit, loaded, edits, lost, mixed>>

(* The disk is full or the process is killed; an edit answers 404, a start *)
(* logs a warning.                                                         *)
WriteFails(x) ==
  /\ at[x] = "write"
  /\ \/ /\ form' = "rules"
        /\ \E n \in 0..Len(buf[x]) :
             rules' = SubSeq(buf[x], 1, n) \o SubSeq(rules, n + 1, Len(rules))
     \/ form' = "malformed" /\ rules' = <<>>
  /\ lost' = TRUE
  /\ Goto(x, AfterWrite(x))
  /\ UNCHANGED <<buf, edit, loaded, edits, book, mixed>>

-----------------------------------------------------------------------------
(* The start of a session: seedIfMissingOrEmpty, then LoadConfig           *)

Seed(s) ==
  /\ Goto(s, "truncate")
  /\ buf' = [buf EXCEPT ![s] = Starter]
  /\ mixed' = (mixed \/ ~NoEdit)

Skip(s, place) == Goto(s, place) /\ UNCHANGED <<buf, mixed>>

SeedStat(s) ==
  /\ at[s] = "idle"
  /\ IF form = "missing" THEN Seed(s) ELSE Skip(s, "read")
  /\ UNCHANGED <<file, edit, loaded, edits, book, lost>>

(* A plausible mistake; no specification uses it: no check for emptiness.  *)
SeedReadAlways(s) ==
  /\ at[s] = "read"
  /\ Seed(s)
  /\ UNCHANGED <<file, edit, loaded, edits, book, lost>>

\* An edit that has truncated the file makes it look empty, too.
SeedRead(s) ==
  /\ at[s] = "read"
  /\ IF form = "rules" /\ rules = <<>> THEN Seed(s) ELSE Skip(s, "load")
  /\ UNCHANGED <<file, edit, loaded, edits, book, lost>>

(* A file that is missing is an empty set of rules, one that YAML cannot   *)
(* read keeps the session from starting.                                   *)
Load(s) ==
  /\ at[s] = "load"
  /\ IF form = "malformed"
     THEN Goto(s, "failed") /\ loaded' = loaded
     ELSE Goto(s, "running") /\ loaded' = [loaded EXCEPT ![s] = Compiled(rules)]
  /\ UNCHANGED <<file, buf, edit, edits, history>>

-----------------------------------------------------------------------------

EditStep(e) ==
  \/ \E o \in Edits : EditLoad(e, o) \/ EditRefused(e, o)
  \/ Truncate(e) \/ OpenFails(e) \/ EditWrite(e) \/ WriteFails(e)

SessionStep(s) ==
  \/ SeedStat(s) \/ SeedRead(s)
  \/ Truncate(s) \/ OpenFails(s) \/ SeedWrite(s) \/ WriteFails(s)
  \/ Load(s)

RulesFileNext ==
  \/ \E e \in Editors : EditStep(e)
  \/ \E s \in Sessions : SessionStep(s)

RulesFileSpec == RulesFileInit /\ [][RulesFileNext]_vars

-----------------------------------------------------------------------------
(* Properties                                                              *)

(* load.go:130 "edits are rare": whenever nobody is at the file, it holds  *)
(* what the acknowledged edits and the seeding have made of it, unless a   *)
(* write failed or an edit overlapped with another edit or with a seeding. *)
(* Sessions may seed at the same time, and read while an edit is under way.*)
EditsStand == Quiet /\ ~lost /\ ~mixed => rules = book

(* load.go:36 "whatever is in the YAML is what runs": a session compiles   *)
(* exactly the enabled rules, with all edits acknowledged before its start *)
(* and none undone by its own seeding. The one exception: a session that   *)
(* reads the file between the truncation and the write of an edit or of    *)
(* another session has no rule at all; it never has a part of them. (One   *)
(* that looks for rules to seed at that point of an edit sets "mixed".)    *)
SessionRunsTheBook ==
  [][\A s \in Sessions :
       at[s] = "load" /\ at'[s] = "running" /\ ~lost /\ ~mixed =>
         \/ loaded'[s] = Compiled(book)
         \/ loaded'[s] = {} /\ \E x \in Actors : at[x] = "write"]_vars

(* The inductive invariant behind them: beside an edit there are only      *)
(* sessions that read, and what an actor is about to write is the next     *)
(* book. Sessions that seed at the same time all write the starter rules.  *)
EditsAreAlone ==
  \A e \in Editors, y \in Actors :
    at[e] \notin Done /\ at[y] \in {"truncate", "write"} => y = e

Written(x) ==
  IF x \in Editors
  THEN Has(book, edit[x].id) /\ buf[x] = Edited(book, edit[x])
  ELSE book \in {<<>>, Starter} /\ buf[x] = Starter

Overwritten(x) == {<<>>} \cup (IF x \in Sessions THEN {book} ELSE {})

RulesFileInv ==
  /\ RulesFileTypeOK
  /\ ~mixed => EditsAreAlone
  /\ ~lost /\ ~mixed =>
       /\ (\A x \in Actors : at[x] # "write") => rules = book
       /\ \A x \in Actors :
            /\ at[x] \in {"truncate", "write"} => Written(x)
            /\ at[x] = "write" => form = "rules" /\ rules \in Overwritten(x)
=============================================================================

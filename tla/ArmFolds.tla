-------------------------------- MODULE ArmFolds --------------------------------
(***************************************************************************)
(* verif/formal/fold_equiv/folds.py: the twelve folds of default arms, as  *)
(* edits of case statements, and applying them to the repository.          *)
(*                                                                         *)
(* A case statement is its arms, a function from values of the selector to *)
(* what the arm drives, and its default. What is driven is named, never    *)
(* computed: two names differ for some operand.                            *)
(***************************************************************************)
EXTENDS Decoder, Sequences

CaseOf(arms, default) == [arms |-> arms, default |-> default]

(* The arms of consecutive values, from first on. *)
Case(first, outcomes, default) ==
  CaseOf([v \in first .. first + Len(outcomes) - 1 |-> outcomes[v - first + 1]], default)

Select(c, v) == IF v \in DOMAIN c.arms THEN c.arms[v] ELSE c.default

(* The arm of v goes, default carries its behaviour. *)
Folded(c, v) ==
  CaseOf([x \in DOMAIN c.arms \ {v} |-> c.arms[x]], c.arms[v])

(* The enumerations of rv32_pkg as their encodings. *)
AluBits ==
  [op \in AluOps |->
     CASE op = "ADD" -> 0 [] op = "SUB" -> 1 [] op = "SLL" -> 2
       [] op = "SRL" -> 3 [] op = "SRA" -> 4 [] op = "SLT" -> 5
       [] op = "SLTU" -> 6 [] op = "XOR" -> 7 [] op = "OR" -> 8
       [] op = "AND" -> 9 [] op = "PASS_B" -> 10]

SizeBits ==
  [size \in MemSizes |-> CASE size = "B" -> 0 [] size = "H" -> 1 [] size = "W" -> 2]

-----------------------------------------------------------------------------
Edit(cls, file, gold, arm, reach) ==
  [cls |-> cls, file |-> file, gold |-> gold, arm |-> arm, reach |-> reach]

(* Before the folds; the arm that is folded; the values the selector can   *)
(* take there. A58 and A58b are the two halves of one fold.                *)
D90 == Edit("A", "decoder",
  Case(0, << "ADD_SUB", "SLL", "SLT", "SLTU", "XOR", "SRL_SRA", "OR", "AND" >>,
       "illegal"), 7, 0 .. 7)

D119 == Edit("A", "decoder",
  Case(0, << "ADD", "SLL_checked", "SLT", "SLTU", "XOR", "SRL_SRA_checked", "OR",
             "AND" >>, "illegal"), 5, 0 .. 7)

(* funct3[1:0] inside an arm that excludes 000 and 100. *)
D295 == Edit("B", "decoder", Case(1, << "RW", "RS", "RC" >>, "NONE"), 3, 1 .. 3)

L59 == Edit("C", "lsu", Case(0, << "byte", "half", "word" >>, "word"), 2, 0 .. 3)

L71 == Edit("A", "lsu",
  Case(0, << "[7:0]", "[15:8]", "[23:16]", "[31:24]" >>, "[7:0]"), 3, 0 .. 3)

L83 == Edit("C", "lsu", Case(0, << "byte", "half", "word" >>, "word"), 2, 0 .. 3)

L50 == Edit("D", "lsu", Case(0, << "lane", "lanes", "1111" >>, "0000"), 2, 0 .. 2)

A58 == Edit("C", "alu",
  Case(0, << "0", "eq", "ne", "lt", "ge", "ltu", "geu" >>, "0"), 0, 0 .. 7)

A45 == Edit("D", "alu",
  Case(0, << "ADD", "SUB", "SLL", "SRL", "SRA", "SLT", "SLTU", "XOR", "OR", "AND", "b" >>,
       "0"), 10, 0 .. 10)

R103 == Edit("A", "regfile", Case(0, << "q0", "q1", "q2", "q3" >>, "0"), 3, 0 .. 3)

R115 == Edit("A", "regfile",
  Case(0, << "s0", "s1", "s2", "s3", "s4", "s5", "s6", "s7" >>, "0"), 7, 0 .. 7)

W890 == Edit("C", "rv32_core",
  Case(0, << "alu_result", "mem_data", "pc_plus4" >>, "alu_result"), 0, 0 .. 3)

Ids == {"D90", "D119", "D295", "L59", "L71", "L83", "L50", "A58", "A45", "R103",
        "R115", "W890"}

EDITS ==
  [id \in Ids |->
     CASE id = "D90" -> D90 [] id = "D119" -> D119 [] id = "D295" -> D295
       [] id = "L59" -> L59 [] id = "L71" -> L71 [] id = "L83" -> L83
       [] id = "L50" -> L50 [] id = "A58" -> A58 [] id = "A45" -> A45
       [] id = "R103" -> R103 [] id = "R115" -> R115 [] id = "W890" -> W890]

FILES == {"decoder", "lsu", "alu", "regfile", "rv32_core"}

Gold(id) == EDITS[id].gold
Fold(id) == Folded(Gold(id), EDITS[id].arm)

(* The wrong folds: what default drives instead of the arm that is folded. *)
Mutated(id, default) == CaseOf(Fold(id).arms, default)

MUTANTS ==
  {[edit |-> "D90", default |-> "OR"],        [edit |-> "L71", default |-> "[23:16]"],
   [edit |-> "A58", default |-> "1"],         [edit |-> "R103", default |-> "q2"],
   [edit |-> "W890", default |-> "mem_data"], [edit |-> "A45", default |-> "a"],
   [edit |-> "L50", default |-> "0011"]}

-----------------------------------------------------------------------------
VARIABLES rtl,            \* the case statement of each edit, as it is now
          todo            \* files folds.py apply has still to write

vars == << rtl, todo >>

(* The folds of the given classes, the others not; "ABCD" is all. *)
fold(classes) ==
  [id \in Ids |-> IF EDITS[id].cls \in classes THEN Fold(id) ELSE Gold(id)]

(* The file is written, the others stay. *)
Written(f, new) == [id \in Ids |-> IF EDITS[id].file = f THEN new[id] ELSE rtl[id]]

Init == rtl = fold({}) /\ todo = {}

(* Every anchor is looked for before the first file is written. *)
ApplyStart ==
  /\ todo = {}
  /\ rtl = fold({})
  /\ todo' = FILES
  /\ UNCHANGED rtl

WriteFile ==
  \E f \in todo :
    /\ rtl' = Written(f, fold({"A", "B", "C", "D"}))
    /\ todo' = todo \ {f}

(* folds.py is killed between two files. *)
Crash == todo # {} /\ todo' = {} /\ UNCHANGED rtl

(* git checkout of one file. *)
Restore ==
  /\ todo = {}
  /\ \E f \in FILES : rtl' = Written(f, fold({}))
  /\ UNCHANGED todo

Next == ApplyStart \/ WriteFile \/ Crash \/ Restore

Spec == Init /\ [][Next]_vars

-----------------------------------------------------------------------------
(* The repository computes what it did before the folds for every value a  *)
(* selector can take, with all folds, none, or those of some files because *)
(* folds.py was killed (folds.py:5-15).                                    *)
SameFunction ==
  \A id \in Ids : \A v \in EDITS[id].reach : Select(rtl[id], v) = Select(Gold(id), v)

(* Class D changes what encodings do that the decoder never emits, and     *)
(* each wrong fold changes what some encoding that it emits does: neither  *)
(* the controls nor the mutants of run_fold_equiv.sh are vacuous.          *)
ControlsDiffer ==
  /\ \E v \in 0 .. 3  : Select(Fold("L50"), v) # Select(Gold("L50"), v)
  /\ \E v \in 0 .. 15 : Select(Fold("A45"), v) # Select(Gold("A45"), v)
  /\ \A m \in MUTANTS : \E v \in EDITS[m.edit].reach :
       Select(Mutated(m.edit, m.default), v) # Select(Gold(m.edit), v)
=============================================================================

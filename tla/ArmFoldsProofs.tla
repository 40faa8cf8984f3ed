----------------------------- MODULE ArmFoldsProofs -----------------------------
(***************************************************************************)
(* Folds changes no function of the repository, whatever part of it has    *)
(* been applied; the controls and the mutants do.                          *)
(***************************************************************************)
EXTENDS ArmFolds, TLAPS

(* An edit folds an arm that exists, and either every value the selector   *)
(* can take has an arm or default drives what the folded arm drives.       *)
Sound(e) ==
  /\ e.arm \in DOMAIN e.gold.arms
  /\ \/ e.reach \subseteq DOMAIN e.gold.arms
     \/ e.gold.default = e.gold.arms[e.arm]

(* Classes A, B and D are the first kind, class C is the second. *)
LEMMA EditsAreSound == \A id \in Ids : Sound(EDITS[id])
  <1>1. Sound(D90)
    BY SMT DEF D90, Sound, Edit, Case, CaseOf
  <1>2. Sound(D119)
    BY SMT DEF D119, Sound, Edit, Case, CaseOf
  <1>3. Sound(D295)
    BY SMT DEF D295, Sound, Edit, Case, CaseOf
  <1>4. Sound(L59)
    BY SMT DEF L59, Sound, Edit, Case, CaseOf
  <1>5. Sound(L71)
    BY SMT DEF L71, Sound, Edit, Case, CaseOf
  <1>6. Sound(L83)
    BY SMT DEF L83, Sound, Edit, Case, CaseOf
  <1>7. Sound(L50)
    BY SMT DEF L50, Sound, Edit, Case, CaseOf
  <1>8. Sound(A58)
    BY SMT DEF A58, Sound, Edit, Case, CaseOf
  <1>9. Sound(A45)
    BY SMT DEF A45, Sound, Edit, Case, CaseOf
  <1>10. Sound(R103)
    BY SMT DEF R103, Sound, Edit, Case, CaseOf
  <1>11. Sound(R115)
    BY SMT DEF R115, Sound, Edit, Case, CaseOf
  <1>12. Sound(W890)
    BY SMT DEF W890, Sound, Edit, Case, CaseOf
  <1>. QED
    BY <1>1, <1>2, <1>3, <1>4, <1>5, <1>6, <1>7, <1>8, <1>9, <1>10, <1>11, <1>12 DEF EDITS, Ids

(* Folding an arm of a sound edit is invisible. *)
LEMMA FoldIsInvisible ==
  ASSUME NEW id \in Ids, NEW v \in EDITS[id].reach
  PROVE  Select(Fold(id), v) = Select(Gold(id), v)
  <1>. Sound(EDITS[id])
    BY EditsAreSound
  <1>1. CASE v = EDITS[id].arm
    BY <1>1, Zenon DEF Sound, Select, Fold, Gold, Folded, CaseOf
  <1>2. CASE v # EDITS[id].arm
    BY <1>2, Zenon DEF Sound, Select, Fold, Gold, Folded, CaseOf
  <1>. QED  BY <1>1, <1>2

(* Every case statement is folded or as it was. *)
GoldOrFolded == \A id \in Ids : rtl[id] \in {Gold(id), Fold(id)}

(* No step leaves a case statement in between. *)
LEMMA FoldsInductive == Spec => []GoldOrFolded
  <1>1. Init => GoldOrFolded
    BY DEF Init, fold, GoldOrFolded
  <1>2. GoldOrFolded /\ [Next]_vars => GoldOrFolded'
    <2>. SUFFICES ASSUME GoldOrFolded, [Next]_vars PROVE GoldOrFolded'
      OBVIOUS
    <2>1. CASE ApplyStart
      BY <2>1 DEF ApplyStart, GoldOrFolded
    <2>2. CASE WriteFile
      BY <2>2 DEF WriteFile, Written, fold, GoldOrFolded
    <2>3. CASE Crash
      BY <2>3 DEF Crash, GoldOrFolded
    <2>4. CASE Restore
      BY <2>4 DEF Restore, Written, fold, GoldOrFolded
    <2>5. CASE UNCHANGED vars
      BY <2>5 DEF vars, GoldOrFolded
    <2>. QED  BY <2>1, <2>2, <2>3, <2>4, <2>5 DEF Next
  <1>. QED  BY <1>1, <1>2, PTL DEF Spec

(* folds.py:5-15: A, B and C preserve behaviour for all inputs, D for the  *)
(* decoded range, also where apply was killed between two files.           *)
THEOREM FoldsPreserve == Spec => []SameFunction
  <1>1. GoldOrFolded => SameFunction
    BY FoldIsInvisible, Zenon DEF GoldOrFolded, SameFunction
  <1>. QED  BY <1>1, FoldsInductive, PTL

(* Class D relies on this: for every instruction, the decoder drives       *)
(* selectors inside the range the class assumes (decoder_legal).           *)
THEOREM DecodedRange ==
  \A i \in Instr : /\ SizeBits[Decode(i).mem_size] \in EDITS["L50"].reach
                  /\ AluBits[Decode(i).alu_op] \in EDITS["A45"].reach
  <1>. SUFFICES ASSUME NEW i \in Instr
                PROVE  /\ SizeBits[Decode(i).mem_size] \in EDITS["L50"].reach
                       /\ AluBits[Decode(i).alu_op] \in EDITS["A45"].reach
    OBVIOUS
  <1>1. Decode(i).mem_size \in MemSizes
    BY DEF Decode, MemSizeOf, MemSizes
  <1>2. Decode(i).alu_op \in AluOps
    BY DEF Decode, AluOpOf, ArithOp, AluOps
  <1>3. SizeBits[Decode(i).mem_size] \in 0 .. 2
    BY <1>1 DEF SizeBits, MemSizes
  <1>4. AluBits[Decode(i).alu_op] \in 0 .. 10
    BY <1>2 DEF AluBits, AluOps
  <1>. QED  BY <1>3, <1>4 DEF EDITS, Ids, L50, A45, Edit

(* run_fold_equiv.sh:26-30: every check of the equivalence script that     *)
(* passes has a control or a mutant that fails it.                         *)
THEOREM ControlsAreNotVacuous == ControlsDiffer
  <1>1. Select(Fold("L50"), 3) # Select(Gold("L50"), 3)
    BY DEF Select, Fold, Gold, Folded, EDITS, Ids, L50, Edit, Case, CaseOf
  <1>2. Select(Fold("A45"), 11) # Select(Gold("A45"), 11)
    BY DEF Select, Fold, Gold, Folded, EDITS, Ids, A45, Edit, Case, CaseOf
  <1>3. /\ 7 \in EDITS["D90"].reach
        /\ Select(Mutated("D90", "OR"), 7) # Select(Gold("D90"), 7)
    BY DEF Mutated, Select, Fold, Gold, Folded, EDITS, Ids, D90, Edit, Case, CaseOf
  <1>4. /\ 3 \in EDITS["L71"].reach
        /\ Select(Mutated("L71", "[23:16]"), 3) # Select(Gold("L71"), 3)
    BY DEF Mutated, Select, Fold, Gold, Folded, EDITS, Ids, L71, Edit, Case, CaseOf
  <1>5. /\ 0 \in EDITS["A58"].reach
        /\ Select(Mutated("A58", "1"), 0) # Select(Gold("A58"), 0)
    BY DEF Mutated, Select, Fold, Gold, Folded, EDITS, Ids, A58, Edit, Case, CaseOf
  <1>6. /\ 3 \in EDITS["R103"].reach
        /\ Select(Mutated("R103", "q2"), 3) # Select(Gold("R103"), 3)
    BY DEF Mutated, Select, Fold, Gold, Folded, EDITS, Ids, R103, Edit, Case, CaseOf
  <1>7. /\ 0 \in EDITS["W890"].reach
        /\ Select(Mutated("W890", "mem_data"), 0) # Select(Gold("W890"), 0)
    BY DEF Mutated, Select, Fold, Gold, Folded, EDITS, Ids, W890, Edit, Case, CaseOf
  <1>8. /\ 10 \in EDITS["A45"].reach
        /\ Select(Mutated("A45", "a"), 10) # Select(Gold("A45"), 10)
    BY DEF Mutated, Select, Fold, Gold, Folded, EDITS, Ids, A45, Edit, Case, CaseOf
  <1>9. /\ 2 \in EDITS["L50"].reach
        /\ Select(Mutated("L50", "0011"), 2) # Select(Gold("L50"), 2)
    BY DEF Mutated, Select, Fold, Gold, Folded, EDITS, Ids, L50, Edit, Case, CaseOf
  <1>10. \A m \in MUTANTS : \E v \in EDITS[m.edit].reach :
           Select(Mutated(m.edit, m.default), v) # Select(Gold(m.edit), v)
    BY <1>3, <1>4, <1>5, <1>6, <1>7, <1>8, <1>9 DEF MUTANTS
  <1>. QED  BY <1>1, <1>2, <1>10 DEF ControlsDiffer
=============================================================================

---------------------------- MODULE MCRegression ----------------------------
(***************************************************************************)
(* Two programs, one that ends SUCCESS under Sail and one that stores a    *)
(* checksum; four RTL files; three of the classification rules. The trees  *)
(* differ from a good one in one or two respects.                          *)
(***************************************************************************)
EXTENDS Regression, TLC

MCProgs     == << "t01", "t07" >>
MCResetProg == "t07"

(* The programs as they are, another version of t07, and one of it without *)
(* the symbol.                                                             *)
MCBinaries  == {"t01", "t07", "t07_other", "t07_bare"}
MCHandler   == [b \in MCBinaries |-> CASE b = "t07" -> 4 [] b = "t07_other" -> 8 [] OTHER -> -1]
MCLeftovers == {<< >>, [p \in {"t07"} |-> "t07_other"], [p \in {"t07"} |-> "t07_bare"]}

Ret(pc, rd, val) == [pc |-> pc, rd |-> rd, val |-> val]

Good1 == << Ret(0, 5, 7), Ret(4, 0, 0), Ret(8, 6, 1) >>
Good7 == << Ret(0, 9, 3), Ret(4, 9, 4) >>
Other7 == << Ret(0, 9, 5), Ret(4, 9, 6), Ret(8, 0, 0) >>
Halt  == << Ret(12, 0, 0) >>

SailEnds(run, out, rc) == [run |-> run, out |-> out, rc |-> rc]
CoreEnds(run, rc)      == [run |-> run, rc |-> rc]

(* Sail stops early, crashes, prints no or two verdicts, a wrong exit code. *)
SailOf1 ==
  { SailEnds(SubSeq(Good1, 1, 2), << "SUCCESS" >>, 0),
    SailEnds(Good1 \o Halt, << >>, 137),
    SailEnds(Good1 \o Halt, << "FAILURE" >>, 1),
    SailEnds(Good1 \o Halt, << "SUCCESS", "FAILURE" >>, 0),
    SailEnds(Good1 \o Halt, << "SUCCESS" >>, 1),
    SailEnds(<< >>, << "SUCCESS" >>, 0) }

(* The core prints a void write, stops early, retires nothing or too much, *)
(* or differs in the address, the register or the value.                   *)
CoreOf1 ==
  { CoreEnds([Good1 EXCEPT ![2].val = 9], 0), CoreEnds(SubSeq(Good1, 1, 2), 0),
    CoreEnds(<< >>, 0), CoreEnds(Good1 \o Halt \o Halt, 0),
    CoreEnds([Good1 EXCEPT ![3].pc = 4], 0), CoreEnds([Good1 EXCEPT ![3].rd = 0], 0),
    CoreEnds([Good1 EXCEPT ![1].val = 8], 0), CoreEnds(Good1, 1) }

-----------------------------------------------------------------------------
F(dir, name) == [dir |-> dir, name |-> name]
IfStage == F("rtl/core/", "if_stage.sv")
Core    == F("rtl/core/", "rv32_core.sv")
DecFile == F("rtl/core/", "decoder.sv")
Tcm     == F("rtl/mem/", "tcm.sv")

Pt(f, l, h, t, o, n) ==
  CovLine([f |-> f, l |-> l, h |-> h, t |-> t, o |-> o, S |-> "1"], n)
Stmt == [sig |-> "block", bit |-> Scalar, dir |-> "none"]
Tog(sig, bit, dir) == [sig |-> sig, bit |-> bit, dir |-> dir]

(* The core harness: if_stage, rv32_core, one instance of decoder, tcm. *)
OfCore(n) ==
  << Pt(IfStage, 1, "core", "line", Stmt, n),
     Pt(IfStage, 2, "core", "branch", Stmt, n),
     Pt(DecFile, 1, "core", "line", Stmt, 0),
     Pt(Tcm, 1, "core", "line", Stmt, n),
     Pt(IfStage, 3, "core", "toggle", Tog("pc", 0, "0->1"), 0),
     Pt(IfStage, 3, "core", "toggle", Tog("pc", 20, "0->1"), 0),
     Pt(IfStage, 3, "core", "toggle", Tog("pc", 5, "0->1"), n),
     Pt(Core, 4, "core", "toggle", Tog("ex_jalr_target", 0, "1->0"), 0),
     Pt(Core, 4, "core", "toggle", Tog("ex_jalr_target", 3, "1->0"), n),
     Pt(Core, 4, "core", "toggle", Tog("ex_jalr_target", 4, "1->0"), 1) >>

(* The decoder harness: the other instance of decoder. *)
OfDecoder(n) == << Pt(DecFile, 1, "decode_top", "line", Stmt, n) >>

GoodData == [r \in {"t01", "t07", "reset", "decoder", "act4"} |->
               CASE r = "decoder" -> OfDecoder(2)
                 [] r = "t01"     -> OfCore(1)
                 [] OTHER         -> OfCore(0)]

With(r, lines) == [GoodData EXCEPT ![r] = @ \o lines]

Lacking(line, key) == [line EXCEPT !.key = [k \in DOMAIN @ \ {key} |-> @[k]]]

DataSets ==
  { [GoodData EXCEPT !["decoder"] = OfDecoder(0)],
    [GoodData EXCEPT !["t01"] = OfCore(0)],
    [GoodData EXCEPT !["t01"] = OfCore(0), !["act4"] = OfCore(3)],
    [GoodData EXCEPT !["decoder"] = << >>],
    [r \in DOMAIN GoodData |-> << >>],
    [r \in DOMAIN GoodData |-> SelectSeq(GoodData[r], LAMBDA l : l.key["t"] # "branch")],
    [r \in DOMAIN GoodData |-> SelectSeq(GoodData[r], LAMBDA l : l.key["f"] # Tcm)],
    With("act4", << Junk >>),
    With("act4", << Lacking(OfDecoder(1)[1], "h") >>),
    With("act4", << [OfCore(1)[1] EXCEPT !.key["S"] = "2"] >>),
    With("act4", << [OfCore(1)[1] EXCEPT !.key["S"] = "2", !.count = 0] >>),
    With("act4", << Pt(IfStage, 3, "core", "toggle", Tog("pc", 0, "0->1"), 1) >>),
    With("act4", << Pt(IfStage, 3, "core", "toggle", Tog("pc", 19, "0->1"), 0),
                    Pt(IfStage, 3, "core", "toggle", Tog("pc", 6, "1->0"), 1) >>),
    With("act4", << Pt(IfStage, 3, "core", "toggle", Tog("pc_q", 7, "0->1"), 0),
                    Pt(IfStage, 3, "core", "toggle", Tog("pc_q", 8, "0->1"), 1) >>),
    With("act4", << Pt(IfStage, 9, "core", "line", Stmt, 0) >>) }

-----------------------------------------------------------------------------
(* Plausible immediate generators: bit 11 of a branch or a jump from the   *)
(* sign, a sign that is not extended, an offset read where a load has it,  *)
(* the low bits of an upper immediate from rd, a branch's sign from bit    *)
(* 11, a jump's bit 12 lost; and one that no case tells from the design's, *)
(* bits 4 and 5 of a branch exchanged.                                     *)
Rewired(f, bits, w) == [imm_gen EXCEPT ![f] = [j \in 0 .. 31 |-> IF j \in bits THEN w ELSE @[j]]]

MCImmGens ==
  { Rewired("B", {11}, 31), Rewired("J", {11}, 31), Rewired("I", 12 .. 31, 0),
    [imm_gen EXCEPT !["S"] = imm_gen["I"]],
    [imm_gen EXCEPT !["U"] = [j \in 0 .. 31 |-> IF j \in 7 .. 11 THEN j ELSE @[j]]],
    Rewired("B", 12 .. 31, 7), Rewired("J", {12}, 0),
    [imm_gen EXCEPT !["B"] = [@ EXCEPT ![4] = 25, ![5] = 11]] }

-----------------------------------------------------------------------------
MCFiles == {IfStage, Core, DecFile, Tcm}

ThreeRules == {r \in RULES : r.name \in {"PC_ALIGN", "PC_HIGH", "JALR_LSB"}}

GoodTree ==
  [sail    |-> [b \in MCBinaries |->
                  CASE b = "t01"       -> SailEnds(Good1 \o Halt, << "SUCCESS" >>, 0)
                    [] b = "t07_other" -> SailEnds(Other7 \o Halt, << "FAILURE" >>, 1)
                    [] OTHER           -> SailEnds(Good7 \o Halt, << "FAILURE" >>, 1)],
   source  |-> [p \in {"t01", "t07"} |-> p], reached |-> {0, 4},
   model   |-> "pinned",
   core    |-> [p \in {"t01", "t07"} |-> CoreEnds(IF p = "t01" THEN Good1 ELSE Good7, 0)],
   drift   |-> {}, elfs |-> "intact", imm |-> imm_gen, failing |-> {},
   data    |-> GoodData, target |-> 50, rules |-> ThreeRules]

(* t07 is edited: its source only, its .hex only, both; in the first two   *)
(* the .elf may be that of the .hex, of the source, or of neither.         *)
Hex7(t) == [t EXCEPT !.core["t07"] = CoreEnds(Other7, 0), !.reached = {0, 4, 8}]

EditedTrees ==
  { [GoodTree EXCEPT !.source["t07"] = "t07_other", !.drift = {"t07"}],
    [GoodTree EXCEPT !.source["t07"] = "t07_bare", !.drift = {"t07"}],
    [Hex7(GoodTree) EXCEPT !.drift = {"t07"}],
    [Hex7(GoodTree) EXCEPT !.source["t07"] = "t07_other"],
    [GoodTree EXCEPT !.source["t07"] = "t07_bare"] }

MCTrees ==
  {GoodTree} \cup EditedTrees
    \cup {[GoodTree EXCEPT !.sail["t01"] = s, !.core["t01"] = c] :
            s \in SailOf1 \cup {GoodTree.sail["t01"]},
            c \in CoreOf1 \cup {GoodTree.core["t01"]}}
    \cup {[GoodTree EXCEPT !.core["t07"] = CoreEnds(Good7, 1)],
          [GoodTree EXCEPT !.model = "untraced"],
          [GoodTree EXCEPT !.failing = {"reset"}], [GoodTree EXCEPT !.target = 40],
          [GoodTree EXCEPT !.failing = {"act4"}],
          [GoodTree EXCEPT !.rules = ThreeRules \cup {r \in RULES : r.name = "MIP"}]}
    \cup {[GoodTree EXCEPT !.elfs = e] : e \in {"edited", "missing"}}
    \cup {[GoodTree EXCEPT !.imm = g] : g \in MCImmGens}
    \cup {[GoodTree EXCEPT !.data = d] : d \in DataSets}
=============================================================================

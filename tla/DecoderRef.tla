----------------------------- MODULE DecoderRef -----------------------------
(***************************************************************************)
(* verif/verilator/decoder/gen_ref.py: the reference cases the decoder     *)
(* harness compares imm_gen with, and the immediates it expects.           *)
(*                                                                         *)
(* An encoding is the record of its fields, as in Decoder; an immediate is *)
(* the signed integer its 32 bits encode. Of the registers drawn with the  *)
(* script's seed, one of each operand stands for all.                      *)
(***************************************************************************)
EXTENDS Decoder, Sequences

(* The fields the assembler spreads an immediate over. *)
Bits(v, low, n) == (v \div low) % n         \* n values from bit log2(low)

Enc(op, f3, rd, rs1, rs2, f7) ==
  [opcode |-> op, rd |-> rd, funct3 |-> f3, rs1 |-> rs1, rs2 |-> rs2, funct7 |-> f7]

EncI(op, f3, v) == Enc(op, f3, 17, 26, Bits(v, 1, 32), Bits(v, 32, 128))
EncS(f3, v)     == Enc("STORE", f3, Bits(v, 1, 32), 16, 30, Bits(v, 32, 128))
EncB(f3, v)     == Enc("BRANCH", f3, Bits(v, 2, 16) * 2 + Bits(v, 2048, 2), 1, 2,
                       Bits(v, 4096, 2) * 64 + Bits(v, 32, 64))
EncU(op, v)     == Enc(op, Bits(v, 1, 8), 23, Bits(v, 8, 32), Bits(v, 256, 32),
                       Bits(v, 8192, 128))
EncJ(v)         == Enc("JAL", Bits(v, 4096, 8), 12, Bits(v, 32768, 32),
                       Bits(v, 2, 16) * 2 + Bits(v, 2048, 2),
                       Bits(v, 1048576, 2) * 64 + Bits(v, 32, 64))

-----------------------------------------------------------------------------
(* expected_imm: the value the format tables give.                         *)

sx(v, size) == IF 2 * v >= size THEN v - size ELSE v

expected_imm(e) ==
  CASE e.opcode \in {"LOAD", "OPIMM", "JALR", "MISCMEM", "SYSTEM"} ->
         sx(e.funct7 * 32 + e.rs2, 4096)
    [] e.opcode = "STORE" -> sx(e.funct7 * 32 + e.rd, 4096)
    [] e.opcode = "BRANCH" ->
         sx((e.funct7 \div 64) * 4096 + (e.rd % 2) * 2048 + (e.funct7 % 64) * 32
              + (e.rd \div 2) * 2, 8192)
    [] e.opcode \in {"LUI", "AUIPC"} ->
         sx(e.funct7 * 8192 + e.rs2 * 256 + e.rs1 * 8 + e.funct3, 1048576) * 4096
    [] e.opcode = "JAL" ->
         sx((e.funct7 \div 64) * 1048576 + (e.rs1 * 8 + e.funct3) * 4096
              + (e.rs2 % 2) * 2048 + (e.funct7 % 64) * 32 + (e.rs2 \div 2) * 2, 2097152)
    [] OTHER -> 0

-----------------------------------------------------------------------------
(* main: the operands, format by format.                                   *)

Imms   == {0, 1, -1, 2047, -2048, 5, -5}
Shamts == {0, 1, 15, 31}
Uppers == {0, 1, 1048575, 74565}
Offs   == {0, 4, -4, 2047, -2048}

(* A slip: the offsets before bit 11 was told apart from the sign. *)
BranchOffsSameSign == {4, 8, -4, 2044, -2048}

BranchOffs == {4, 8, -4, 2044, -2048, 2048, 3000, 4094, -2050, -4096}
JalOffs    == {4, 8, -4, 1048572, -1048576, 2048, 4096, -2050, 524288, -524290}

(* The CSR address of each form, its immediate: mscratch, mcycle, mhartid, *)
(* mtvec. 000: ecall, ebreak, mret.                                        *)
System == {EncI("SYSTEM", f3, 832) : f3 \in {1, 2, 3, 5, 6, 7}}
            \cup {EncI("SYSTEM", 2, a) : a \in {2816, 3860}}
            \cup {EncI("SYSTEM", 1, 773)}
            \cup {EncI("SYSTEM", 0, a) : a \in {0, 1, 770}}

RefCases ==
  {Enc("OP", f3, 11, 17, 28, 0) : f3 \in 0 .. 7}
    \cup {Enc("OP", f3, 3, 8, 12, 32) : f3 \in {0, 5}}
    \cup {EncI("OPIMM", f3, v) : f3 \in {0, 2, 3, 4, 6, 7}, v \in Imms}
    \cup {EncI("OPIMM", f3, s) : f3 \in {1, 5}, s \in Shamts}
    \cup {EncI("OPIMM", 5, 1024 + s) : s \in Shamts}
    \cup {EncU(op, v) : op \in {"LUI", "AUIPC"}, v \in Uppers}
    \cup {EncI("LOAD", f3, v) : f3 \in {0, 1, 2, 4, 5}, v \in Offs}
    \cup {EncS(f3, v) : f3 \in {0, 1, 2}, v \in Offs}
    \cup {EncB(f3, v) : f3 \in {0, 1, 4, 5, 6, 7}, v \in BranchOffs}
    \cup {EncJ(v) : v \in JalOffs}
    \cup {EncI("JALR", 0, v) : v \in Offs}
    \cup System
    \cup {EncI("MISCMEM", 0, 255), EncI("MISCMEM", 1, 0)}

-----------------------------------------------------------------------------
(* imm_gen.sv, as a design may have it: in each format, each bit of the    *)
(* immediate is a wire, one of instr[31:7] or tied to 0 or to 1. A format  *)
(* without immediates drives 0.                                            *)
ImmFormats == {"I", "S", "B", "U", "J"}
Wires      == {0, 1} \cup 7 .. 31

Weight ==
  << 1, 2, 4, 8, 16, 32, 64, 128, 256, 512, 1024, 2048, 4096, 8192, 16384, 32768, 65536,
     131072, 262144, 524288, 1048576, 2097152, 4194304, 8388608, 16777216, 33554432,
     67108864, 134217728, 268435456, 536870912, 1073741824 >>

(* Bit j of the 32 bits that encode v. *)
BitOf(v, j) ==
  IF j = 31 THEN (IF v < 0 THEN 1 ELSE 0) ELSE (v \div Weight[j + 1]) % 2

Wire(e, w) ==
  IF w <= 1 THEN w
  ELSE IF w <= 11 THEN BitOf(e.rd, w - 7)
  ELSE IF w <= 14 THEN BitOf(e.funct3, w - 12)
  ELSE IF w <= 19 THEN BitOf(e.rs1, w - 15)
  ELSE IF w <= 24 THEN BitOf(e.rs2, w - 20)
  ELSE BitOf(e.funct7, w - 25)

Driven(g, e, j) ==
  IF FormatOf(e) \in ImmFormats THEN Wire(e, g[FormatOf(e)][j]) ELSE 0

(* The wires of imm_gen.sv. *)
imm_gen ==
  [f \in ImmFormats |-> [j \in 0 .. 31 |->
     CASE f = "I" -> IF j <= 10 THEN j + 20 ELSE 31
       [] f = "S" -> IF j <= 4 THEN j + 7 ELSE IF j <= 10 THEN j + 20 ELSE 31
       [] f = "B" -> IF j = 0 THEN 0 ELSE IF j <= 4 THEN j + 7
                     ELSE IF j <= 10 THEN j + 20 ELSE IF j = 11 THEN 7 ELSE 31
       [] f = "U" -> IF j <= 11 THEN 0 ELSE j
       [] f = "J" -> IF j = 0 THEN 0 ELSE IF j <= 10 THEN j + 20
                     ELSE IF j = 11 THEN 20 ELSE IF j <= 19 THEN j ELSE 31]]

(* ref_cases.h: every case with the bits of its immediate. *)
ref_cases == [e \in RefCases |-> [j \in 0 .. 31 |-> BitOf(expected_imm(e), j)]]

(* tb_decoder.cpp: every case's immediate, as the design drives it. *)
HarnessPasses(g) ==
  \A e \in RefCases : \A j \in 0 .. 31 : Driven(g, e, j) = ref_cases[e][j]
=============================================================================

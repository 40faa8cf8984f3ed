------------------------------ MODULE Decoder ------------------------------
(***************************************************************************)
(* decoder.sv and imm_gen.sv: the combinational decode of one instruction. *)
(*                                                                         *)
(* An instruction is the record of its fields.  The major opcode is        *)
(* symbolic ("OTHER" is every encoding rv32_pkg.sv has no name for, the    *)
(* 16-bit ones included); the other fields are the numbers the code reads. *)
(***************************************************************************)
EXTENDS Integers

Opcode == {"LOAD", "OPIMM", "AUIPC", "STORE", "OP", "LUI", "BRANCH",
           "JALR", "JAL", "SYSTEM", "MISCMEM", "OTHER"}

RegIdx == 0 .. 31

Instr == [opcode : Opcode, rd : RegIdx, funct3 : 0 .. 7,
          rs1 : RegIdx, rs2 : RegIdx, funct7 : 0 .. 127]

(* instr[31:20], the I-type immediate and the CSR address. *)
Imm12(i) == i.funct7 * 32 + i.rs2

(* 32'h0000_0013: addi x0, x0, 0. *)
Nop == [opcode |-> "OPIMM", rd |-> 0, funct3 |-> 0,
        rs1 |-> 0, rs2 |-> 0, funct7 |-> 0]

AluOps    == {"ADD", "SUB", "SLL", "SRL", "SRA", "SLT", "SLTU",
              "XOR", "OR", "AND", "PASS_B"}
BranchOps == {"NONE", "EQ", "NE", "LT", "GE", "LTU", "GEU"}
CsrOps    == {"NONE", "RW", "RS", "RC"}
MemSizes  == {"B", "H", "W"}
WbSels    == {"ALU", "MEM", "PC4"}
Formats   == {"R", "I", "S", "B", "U", "J", "NONE"}

CtrlType ==
  [is_fencei : BOOLEAN, rs1_addr : RegIdx, rs2_addr : RegIdx,
   rd_addr : RegIdx, rs1_used : BOOLEAN, rs2_used : BOOLEAN,
   alu_op : AluOps, branch_op : BranchOps,
   alu_src_a_pc : BOOLEAN, alu_src_b_imm : BOOLEAN,
   mem_read : BOOLEAN, mem_write : BOOLEAN,
   mem_size : MemSizes, mem_signed : BOOLEAN,
   reg_write : BOOLEAN, wb_sel : WbSels,
   is_branch : BOOLEAN, is_jal : BOOLEAN, is_jalr : BOOLEAN,
   csr_op : CsrOps, csr_read : BOOLEAN, csr_write : BOOLEAN,
   csr_imm : BOOLEAN,
   is_ecall : BOOLEAN, is_ebreak : BOOLEAN, is_mret : BOOLEAN,
   illegal : BOOLEAN]

(* A pipeline register cleared to '0: every enumeration takes the value    *)
(* its zero encodes (MEM_B, WB_ALU, CSR_NONE, ALU_ADD, BR_NONE).           *)
CtrlZero ==
  [is_fencei |-> FALSE, rs1_addr |-> 0, rs2_addr |-> 0, rd_addr |-> 0,
   rs1_used |-> FALSE, rs2_used |-> FALSE,
   alu_op |-> "ADD", branch_op |-> "NONE",
   alu_src_a_pc |-> FALSE, alu_src_b_imm |-> FALSE,
   mem_read |-> FALSE, mem_write |-> FALSE,
   mem_size |-> "B", mem_signed |-> FALSE,
   reg_write |-> FALSE, wb_sel |-> "ALU",
   is_branch |-> FALSE, is_jal |-> FALSE, is_jalr |-> FALSE,
   csr_op |-> "NONE", csr_read |-> FALSE, csr_write |-> FALSE,
   csr_imm |-> FALSE,
   is_ecall |-> FALSE, is_ebreak |-> FALSE, is_mret |-> FALSE,
   illegal |-> FALSE]

-----------------------------------------------------------------------------
(* SYSTEM: funct3 000 is the privileged group, 100 is reserved, and the    *)
(* other six are the CSR forms.                                            *)
IsPrivileged(i) == i.opcode = "SYSTEM" /\ i.funct3 = 0
IsCsrForm(i)    == i.opcode = "SYSTEM" /\ i.funct3 \notin {0, 4}

(* The privileged group requires rs1 = x0 and rd = x0. *)
Privileged(i, imm12) ==
  IsPrivileged(i) /\ i.rs1 = 0 /\ i.rd = 0 /\ Imm12(i) = imm12

Ecall(i)  == Privileged(i, 0)
Ebreak(i) == Privileged(i, 1)
Mret(i)   == Privileged(i, 770)          \* 12'h302
Wfi(i)    == Privileged(i, 261)          \* 12'h105, a legal no-op

ArithShift(i) == (i.funct7 \div 32) % 2 = 1          \* funct7[5]
ShamtValid(i) == i.funct7 \in {0, 32}

Illegal(i) ==
  \/ /\ i.opcode = "OP"
     /\ ~ (i.funct7 = 0 \/ (i.funct7 = 32 /\ i.funct3 \in {0, 5}))
  \/ /\ i.opcode = "OPIMM"
     /\ \/ i.funct3 = 1 /\ i.funct7 # 0
        \/ i.funct3 = 5 /\ ~ ShamtValid(i)
  \/ i.opcode = "JALR"    /\ i.funct3 # 0
  \/ i.opcode = "BRANCH"  /\ i.funct3 \in {2, 3}
  \/ i.opcode = "LOAD"    /\ i.funct3 \in {3, 6, 7}
  \/ i.opcode = "STORE"   /\ i.funct3 \notin {0, 1, 2}
  \/ i.opcode = "MISCMEM" /\ i.funct3 \notin {0, 1}
  \/ /\ i.opcode = "SYSTEM"
     /\ ~ (IsCsrForm(i) \/ Ecall(i) \/ Ebreak(i) \/ Mret(i) \/ Wfi(i))
  \/ i.opcode = "OTHER"

(* The operation funct3 selects; shared by OP and OPIMM but for SUB. *)
ArithOp(i) ==
  CASE i.funct3 = 0 -> IF i.opcode = "OP" /\ i.funct7 = 32 THEN "SUB" ELSE "ADD"
    [] i.funct3 = 1 -> "SLL"
    [] i.funct3 = 2 -> "SLT"
    [] i.funct3 = 3 -> "SLTU"
    [] i.funct3 = 4 -> "XOR"
    [] i.funct3 = 5 -> IF ArithShift(i) THEN "SRA" ELSE "SRL"
    [] i.funct3 = 6 -> "OR"
    [] OTHER -> "AND"

AluOpOf(i) ==
  CASE i.opcode \in {"OP", "OPIMM"} -> ArithOp(i)
    [] i.opcode = "LUI" -> "PASS_B"
    [] OTHER -> "ADD"

BranchOpOf(i) ==
  IF i.opcode # "BRANCH" THEN "NONE"
  ELSE CASE i.funct3 = 0 -> "EQ"
         [] i.funct3 = 1 -> "NE"
         [] i.funct3 = 4 -> "LT"
         [] i.funct3 = 5 -> "GE"
         [] i.funct3 = 6 -> "LTU"
         [] i.funct3 = 7 -> "GEU"
         [] OTHER -> "NONE"

MemSizeOf(i) ==
  CASE i.opcode = "LOAD"  /\ i.funct3 \in {0, 4} -> "B"
    [] i.opcode = "LOAD"  /\ i.funct3 \in {1, 5} -> "H"
    [] i.opcode = "STORE" /\ i.funct3 = 0 -> "B"
    [] i.opcode = "STORE" /\ i.funct3 = 1 -> "H"
    [] OTHER -> "W"

CsrOpOf(i) ==
  IF ~ IsCsrForm(i) THEN "NONE"
  ELSE CASE i.funct3 \in {1, 5} -> "RW"
         [] i.funct3 \in {2, 6} -> "RS"
         [] OTHER -> "RC"

WbSelOf(i) ==
  CASE i.opcode \in {"JAL", "JALR"} -> "PC4"
    [] i.opcode = "LOAD" -> "MEM"
    [] OTHER -> "ALU"

(* The bundle decoder.sv drives; an illegal instruction keeps the fields   *)
(* its opcode sets, exactly as the code's trailing `illegal = 1` does.     *)
Decode(i) ==
  [is_fencei     |-> i.opcode = "MISCMEM" /\ i.funct3 = 1,
   rs1_addr      |-> i.rs1,
   rs2_addr      |-> i.rs2,
   rd_addr       |-> i.rd,
   rs1_used      |-> \/ i.opcode \in {"OP", "OPIMM", "JALR", "BRANCH",
                                      "LOAD", "STORE"}
                     \/ IsCsrForm(i) /\ i.funct3 < 4,
   rs2_used      |-> i.opcode \in {"OP", "BRANCH", "STORE"},
   alu_op        |-> AluOpOf(i),
   branch_op     |-> BranchOpOf(i),
   alu_src_a_pc  |-> i.opcode = "AUIPC",
   alu_src_b_imm |-> i.opcode \in {"OPIMM", "LUI", "AUIPC", "JALR",
                                   "LOAD", "STORE"},
   mem_read      |-> i.opcode = "LOAD",
   mem_write     |-> i.opcode = "STORE",
   mem_size      |-> MemSizeOf(i),
   mem_signed    |-> i.opcode = "LOAD" /\ i.funct3 \in {0, 1, 2},
   reg_write     |-> \/ i.opcode \in {"OP", "OPIMM", "LUI", "AUIPC", "JAL",
                                      "JALR", "LOAD"}
                     \/ IsCsrForm(i),
   wb_sel        |-> WbSelOf(i),
   is_branch     |-> i.opcode = "BRANCH",
   is_jal        |-> i.opcode = "JAL",
   is_jalr       |-> i.opcode = "JALR",
   csr_op        |-> CsrOpOf(i),
   csr_read      |-> IsCsrForm(i) /\ i.rd # 0,
   csr_write     |-> IsCsrForm(i) /\ (i.funct3 \in {1, 5} \/ i.rs1 # 0),
   csr_imm       |-> IsCsrForm(i) /\ i.funct3 >= 4,
   is_ecall      |-> Ecall(i),
   is_ebreak     |-> Ebreak(i),
   is_mret       |-> Mret(i),
   illegal       |-> Illegal(i)]

FormatOf(i) ==
  CASE i.opcode = "OP" -> "R"
    [] i.opcode \in {"OPIMM", "JALR", "LOAD", "MISCMEM", "SYSTEM"} -> "I"
    [] i.opcode = "STORE" -> "S"
    [] i.opcode = "BRANCH" -> "B"
    [] i.opcode \in {"LUI", "AUIPC"} -> "U"
    [] i.opcode = "JAL" -> "J"
    [] OTHER -> "NONE"

-----------------------------------------------------------------------------
(* imm_gen.sv.  Immediates are kept as the signed integers they encode;    *)
(* the datapath reduces them modulo 2^XLEN where it uses them.             *)
SignBit(i) == i.funct7 \div 64                       \* instr[31]

ImmI(i) == Imm12(i) - 4096 * SignBit(i)
ImmS(i) == i.funct7 * 32 + i.rd - 4096 * SignBit(i)
ImmB(i) == - 4096 * SignBit(i) + 2048 * (i.rd % 2)
             + 32 * (i.funct7 % 64) + 2 * (i.rd \div 2)
ImmU(i) == 4096 * (i.funct7 * 8192 + i.rs2 * 256 + i.rs1 * 8 + i.funct3
                     - 1048576 * SignBit(i))
ImmJ(i) == - 1048576 * SignBit(i) + 4096 * (i.rs1 * 8 + i.funct3)
             + 2048 * (i.rs2 % 2) + 32 * (i.funct7 % 64)
             + 2 * (i.rs2 \div 2)

ImmGen(i, fmt) ==
  CASE fmt = "I" -> ImmI(i)
    [] fmt = "S" -> ImmS(i)
    [] fmt = "B" -> ImmB(i)
    [] fmt = "U" -> ImmU(i)
    [] fmt = "J" -> ImmJ(i)
    [] OTHER -> 0

Immediate(i) == ImmGen(i, FormatOf(i))

=============================================================================

----------------------------- MODULE MCLockstep -----------------------------
(***************************************************************************)
(* Small instances of Lockstep: an 8-bit machine (ByteSize 4), a TCM of    *)
(* sixteen words, counters with 1-bit halves, and every program that can   *)
(* be put together from a menu of instructions.                            *)
(*                                                                         *)
(*   word 0      csrwi mtvec, 28                                           *)
(*   word 1      li x1, 48                                                 *)
(*   words 2-5   any four words of the run's menu                          *)
(*   word 6      j .                                                       *)
(*   words 7-10  trap handler: mepc := mepc + 4; mret                      *)
(*   words 12-15 data                                                      *)
(***************************************************************************)
EXTENDS Lockstep, Sequences

(* Assembler: operands to the fields of each format. *)
RType(f3, f7, d, s1, s2) ==
  [opcode |-> "OP", rd |-> d, funct3 |-> f3, rs1 |-> s1, rs2 |-> s2,
   funct7 |-> f7]
IType(op, f3, d, s1, imm) ==
  LET u == imm % 4096 IN
  [opcode |-> op, rd |-> d, funct3 |-> f3, rs1 |-> s1, rs2 |-> u % 32,
   funct7 |-> u \div 32]
SType(f3, s2, imm, s1) ==
  LET u == imm % 4096 IN
  [opcode |-> "STORE", rd |-> u % 32, funct3 |-> f3, rs1 |-> s1, rs2 |-> s2,
   funct7 |-> u \div 32]
BType(f3, s1, s2, off) ==
  LET u == off % 8192 IN
  [opcode |-> "BRANCH", rd |-> 2 * ((u \div 2) % 16) + ((u \div 2048) % 2),
   funct3 |-> f3, rs1 |-> s1, rs2 |-> s2,
   funct7 |-> 64 * (u \div 4096) + ((u \div 32) % 64)]
UType(op, d, u) ==
  [opcode |-> op, rd |-> d, funct3 |-> u % 8, rs1 |-> (u \div 8) % 32,
   rs2 |-> (u \div 256) % 32, funct7 |-> u \div 8192]
JType(d, off) ==
  LET u == off % 2097152 IN
  [opcode |-> "JAL", rd |-> d, funct3 |-> (u \div 4096) % 8,
   rs1 |-> (u \div 32768) % 32,
   rs2 |-> 2 * ((u \div 2) % 16) + ((u \div 2048) % 2),
   funct7 |-> 64 * (u \div 1048576) + ((u \div 32) % 64)]

(* The encoding: the word k stands for the k-th instruction. *)
Menu == <<
  Nop,                                            \*  1 nop
  IType("OPIMM", 0, 1, 0, 48),                    \*  2 li    x1, 48
  IType("OPIMM", 0, 1, 1, 1),                     \*  3 addi  x1, x1, 1
  RType(0, 0, 2, 1, 2),                           \*  4 add   x2, x1, x2
  IType("LOAD", 2, 2, 1, 0),                      \*  5 lw    x2, 0(x1)
  SType(2, 2, 0, 1),                              \*  6 sw    x2, 0(x1)
  IType("LOAD", 2, 1, 1, 0),                      \*  7 lw    x1, 0(x1)
  SType(1, 1, 2, 1),                              \*  8 sh    x1, 2(x1)
  JType(2, 8),                                    \*  9 jal   x2, +8
  IType("JALR", 0, 2, 2, 0),                      \* 10 jalr  x2, 0(x2)
  BType(0, 1, 2, 8),                              \* 11 beq   x1, x2, +8
  BType(1, 2, 0, -4),                             \* 12 bne   x2, x0, -4
  IType("SYSTEM", 1, 2, 1, 832),                  \* 13 csrrw x2, mscratch, x1
  IType("SYSTEM", 2, 2, 0, 2818),                 \* 14 csrr  x2, minstret
  IType("SYSTEM", 5, 0, 28, 773),                 \* 15 csrwi mtvec, 28
  IType("SYSTEM", 0, 0, 0, 0),                    \* 16 ecall
  IType("SYSTEM", 0, 0, 0, 1),                    \* 17 ebreak
  IType("SYSTEM", 0, 0, 0, 770),                  \* 18 mret
  IType("MISCMEM", 1, 0, 0, 0),                   \* 19 fence.i
  IType("JALR", 0, 0, 1, 0),                      \* 20 jr    x1
  IType("SYSTEM", 2, 4, 0, 833),                  \* 21 csrr  x4, mepc
  IType("OPIMM", 0, 4, 4, 4),                     \* 22 addi  x4, x4, 4
  IType("SYSTEM", 1, 0, 4, 833),                  \* 23 csrw  mepc, x4
  JType(0, 0),                                    \* 24 j     .
  IType("SYSTEM", 6, 0, 8, 768),                  \* 25 csrsi mstatus, 8
  UType("AUIPC", 2, 0),                           \* 26 auipc x2, 0
  IType("OPIMM", 0, 0, 1, 1),                     \* 27 addi  x0, x1, 1
  RType(0, 0, 1, 0, 0),                           \* 28 add   x1, x0, x0
  IType("SYSTEM", 2, 1, 0, 2816),                 \* 29 csrr  x1, mcycle
  SType(2, 1, -128, 0),                           \* 30 sw    x1, -128(x0)
  IType("LOAD", 4, 1, 1, 1),                      \* 31 lbu   x1, 1(x1)
  IType("SYSTEM", 1, 2, 1, 2818),                 \* 32 csrrw x2, minstret, x1
  BType(4, 0, 1, 8),                              \* 33 blt   x0, x1, +8
  IType("OPIMM", 0, 1, 0, 3),                     \* 34 li    x1, 3
  SType(2, 1, 16, 0),                             \* 35 sw    x1, 16(x0)
  SType(2, 1, 20, 0),                             \* 36 sw    x1, 20(x0)
  IType("SYSTEM", 3, 2, 1, 768),                  \* 37 csrrc x2, mstatus, x1
  IType("SYSTEM", 1, 1, 0, 3860),                 \* 38 csrw  mhartid (illegal)
  IType("JALR", 1, 0, 1, 2),                      \* 39 jalr with funct3 = 1
  IType("OPIMM", 0, 1, 0, 50)                     \* 40 li    x1, 50
>>

(* Every other word is no instruction at all. *)
NoInstr == [opcode |-> "OTHER", rd |-> 0, funct3 |-> 0, rs1 |-> 0,
            rs2 |-> 0, funct7 |-> 0]

MCInstrOf == [w \in Word |-> IF w \in DOMAIN Menu THEN Menu[w] ELSE NoInstr]

Image(a, b, c, d) ==
  [k \in TcmIndex |-> CASE k = 0 -> 15  [] k = 1 -> 2
                        [] k = 2 -> a   [] k = 3 -> b
                        [] k = 4 -> c   [] k = 5 -> d
                        [] k = 6 -> 24
                        [] k = 7 -> 21  [] k = 8 -> 22
                        [] k = 9 -> 23  [] k = 10 -> 18
                        [] OTHER -> 49 + k]

Programs(menu) == {Image(a, b, c, d) : a, b, c, d \in menu}

(* Register and memory dependences at every distance; x0 as source and     *)
(* destination, sub-word and peripheral accesses; CSR accesses and the     *)
(* trap entries and returns around them.                                   *)
DataPrograms == Programs({3, 4, 5, 6, 7, 8, 13})
                  \cup Programs({8, 26, 27, 28, 30, 31, 40})
                  \cup Programs({14, 16, 18, 25, 32, 37, 38})

(* Jumps, branches and traps next to each other, some with a misaligned    *)
(* target; stores into the program, with and without a fence.i; memory     *)
(* accesses of every size.                                                 *)
ControlPrograms == Programs({3, 5, 9, 10, 11, 12, 16})
                     \cup Programs({3, 9, 19, 34, 35, 36})
                     \cup Programs({4, 5, 6, 8, 31})

(* No backward transfer but the final loop: every run comes to word 6. *)
StraightPrograms == Programs({4, 5, 7, 11, 17, 19})

BranchPrograms == Programs({1, 9, 11})

=============================================================================

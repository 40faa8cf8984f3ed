------------------------------ MODULE Pipeline ------------------------------
(***************************************************************************)
(* rv32_core.sv with if_stage.sv, regfile.sv and tcm.sv: the five-stage    *)
(* in-order core and its tightly-coupled memory, one Tick per clock edge.  *)
(*                                                                         *)
(* The memory holds words.  InstrOf gives the instruction a word encodes,  *)
(* so that a store can modify the program as it can in the unified TCM.    *)
(***************************************************************************)
EXTENDS Decoder, Alu, Lsu, HazardUnit, CsrFile

CONSTANTS TcmWords,   \* words of the TCM, SIZE_BYTES / 4
          InstrOf,    \* [Word -> Instr], the instruction encoding
          NopWord,    \* 32'h0000_0013
          Images      \* the memory images a program can be loaded as

TcmIndex == 0 .. (TcmWords - 1)

ASSUME TcmAssumption     == TcmWords \in Nat \ {0}
ASSUME InstrOfAssumption == InstrOf \in [Word -> Instr]
ASSUME NopAssumption     == NopWord \in Word /\ InstrOf[NopWord] = Nop
ASSUME ImagesAssumption  == Images \subseteq [TcmIndex -> Word]

VARIABLES pc,         \* if_stage pc_q
          if_id,      \* IF/ID pipeline register
          id_ex,      \* id_ex_q
          ex_mem,     \* ex_mem_q
          mem_wb,     \* mem_wb_q
          redirect,   \* redirect_valid, redirect_pc
          regs,       \* regfile: x1 .. x31
          mem,        \* tcm
          csr,        \* the flops of csr.sv
          trace       \* mem_wb_pc, mem_wb_mem_we, _addr, _wdata

flops == <<pc, if_id, id_ex, ex_mem, mem_wb, redirect, regs, csr, trace>>
vars  == <<flops, mem>>

-----------------------------------------------------------------------------
(* Address decoding of the TCM: the upper address bits are ignored.        *)
Index(addr) == (addr \div 4) % TcmWords

IfIdBubble  == [valid |-> FALSE, pc |-> 0, instr |-> NopWord]
IdExZero    == [valid |-> FALSE, pc |-> 0, instr |-> 0, ctrl |-> CtrlZero,
                imm |-> 0, rs1_data |-> 0, rs2_data |-> 0]
ExMemZero   == [valid |-> FALSE, pc |-> 0, ctrl |-> CtrlZero,
                alu_result |-> 0, rs2_data |-> 0]
MemWbZero   == [valid |-> FALSE, ctrl |-> CtrlZero, alu_result |-> 0,
                mem_data |-> 0, pc_plus4 |-> 0]
RegsZero    == [r \in 1 .. 31 |-> 0]
NoRedirect  == [valid |-> FALSE, pc |-> 0]
TraceZero   == [pc |-> 0, mem_we |-> FALSE, mem_addr |-> 0, mem_wdata |-> 0]
NoTrap      == [valid |-> FALSE, cause |-> 0, tval |-> 0]

-----------------------------------------------------------------------------
(* WB: the write-back multiplexer and the register file's write port.      *)
WbData == CASE mem_wb.ctrl.wb_sel = "MEM" -> mem_wb.mem_data
            [] mem_wb.ctrl.wb_sel = "PC4" -> mem_wb.pc_plus4
            [] OTHER -> mem_wb.alu_result

WbWe == mem_wb.valid /\ mem_wb.ctrl.reg_write

RegsNext == IF WbWe /\ mem_wb.ctrl.rd_addr # 0
              THEN [regs EXCEPT ![mem_wb.ctrl.rd_addr] = WbData]
              ELSE regs

-----------------------------------------------------------------------------
(* MEM: the data port and the peripheral port, both combinational from     *)
(* ex_mem.                                                                 *)
IsPeriph == TopBit(ex_mem.alu_result)
Offset   == ex_mem.alu_result % 4

DmemWeAnywhere == ex_mem.valid /\ ex_mem.ctrl.mem_write \* mutant: no decode

DmemWe   == ex_mem.valid /\ ex_mem.ctrl.mem_write /\ ~ IsPeriph
PeriphWe == ex_mem.valid /\ ex_mem.ctrl.mem_write /\ IsPeriph

MemNext ==
  IF DmemWe
    THEN [mem EXCEPT ![Index(ex_mem.alu_result)] =
            WriteLanes(@, ByteEnable(Offset, ex_mem.ctrl.mem_size),
                       StoreAligned(ex_mem.ctrl.mem_size, ex_mem.rs2_data))]
    ELSE mem

LoadedData == LoadData(Offset, ex_mem.ctrl.mem_size, ex_mem.ctrl.mem_signed,
                       mem[Index(ex_mem.alu_result)])

(* mem_misaligned_o, routed to the boundary and not consumed. *)
MemMisaligned == /\ ex_mem.valid
                 /\ IsMisaligned(Offset, ex_mem.ctrl.mem_size)
                 /\ ex_mem.ctrl.mem_read \/ ex_mem.ctrl.mem_write

MemWbNext == [valid      |-> ex_mem.valid,
              ctrl       |-> ex_mem.ctrl,
              alu_result |-> ex_mem.alu_result,
              mem_data   |-> LoadedData,
              pc_plus4   |-> ToWord(ex_mem.pc + 4)]

TraceNext == [pc        |-> ex_mem.pc,
              mem_we    |-> ex_mem.valid /\ ex_mem.ctrl.mem_write,
              mem_addr  |-> ex_mem.alu_result,
              mem_wdata |-> ex_mem.rs2_data]

-----------------------------------------------------------------------------
(* ID: decode, register read with WB->ID forwarding.                       *)
IdCtrl == Decode(InstrOf[if_id.instr])

RegRead(r)   == IF r = 0 THEN 0 ELSE regs[r]
IdOperand(r) == IF FwdId(r, mem_wb) THEN WbData ELSE RegRead(r)

IdExLoad ==
  LET instr == InstrOf[if_id.instr]
      ctrl  == Decode(instr)
  IN  [valid    |-> if_id.valid,
       pc       |-> if_id.pc,
       instr    |-> if_id.instr,
       ctrl     |-> ctrl,
       imm      |-> Immediate(instr),
       rs1_data |-> IdOperand(ctrl.rs1_addr),
       rs2_data |-> IdOperand(ctrl.rs2_addr)]

Stall == LoadUse(id_ex, IdCtrl)

-----------------------------------------------------------------------------
(* EX: operands after forwarding, targets, CSR access, traps, redirect.    *)
Operand(sel, data) == CASE sel = "MEM" -> ex_mem.alu_result
                        [] sel = "WB"  -> WbData
                        [] OTHER       -> data

Rs1 == Operand(FwdSel(id_ex.ctrl.rs1_used, id_ex.ctrl.rs1_addr,
                      ex_mem, mem_wb), id_ex.rs1_data)
Rs2 == Operand(FwdSel(id_ex.ctrl.rs2_used, id_ex.ctrl.rs2_addr,
                      ex_mem, mem_wb), id_ex.rs2_data)

AluA(rs1) == IF id_ex.ctrl.alu_src_a_pc  THEN id_ex.pc ELSE rs1
AluB(rs2) == IF id_ex.ctrl.alu_src_b_imm THEN ToWord(id_ex.imm) ELSE rs2

AluOut(rs1, rs2) == Alu(id_ex.ctrl.alu_op, AluA(rs1), AluB(rs2))

(* The control transfer this instruction makes unless it traps. *)
Taken(rs1, rs2) ==
  /\ id_ex.valid
  /\ \/ /\ id_ex.ctrl.is_branch
        /\ BranchTaken(id_ex.ctrl.branch_op, AluA(rs1), AluB(rs2))
     \/ id_ex.ctrl.is_jal
     \/ id_ex.ctrl.is_jalr

ClearBit0(w) == w - (w % 2)

TargetKeepsBit0(rs1) ==                  \* mutant: jalr does not clear bit 0
  ToWord((IF id_ex.ctrl.is_jalr THEN rs1 ELSE id_ex.pc) + id_ex.imm)

Target(rs1)  == IF id_ex.ctrl.is_jalr THEN ClearBit0(ToWord(rs1 + id_ex.imm))
                                      ELSE ToWord(id_ex.pc + id_ex.imm)

(* csr_addr is imm[11:0]. *)
CsrAddr     == id_ex.imm % 4096
CsrWriteReq == id_ex.ctrl.csr_write /\ id_ex.valid
CsrFault    == CsrIllegal(CsrAddr, id_ex.ctrl.csr_op, CsrWriteReq)
CsrRead     == IF id_ex.ctrl.csr_read THEN CsrRdata(csr, CsrAddr, NoIrq) ELSE 0

(* The trap encoder: the first condition that holds names the cause.       *)
Trap(rs1, rs2) ==
  LET addr == AluOut(rs1, rs2)
      misaligned == IsMisaligned(addr % 4, id_ex.ctrl.mem_size)
      cause(n, tval) == [valid |-> TRUE, cause |-> n, tval |-> tval]
  IN  IF ~ id_ex.valid THEN NoTrap
      ELSE IF Taken(rs1, rs2) /\ (Target(rs1) \div 2) % 2 # 0
             THEN cause(0, Target(rs1))
      ELSE IF id_ex.ctrl.illegal \/ CsrFault THEN cause(2, id_ex.instr)
      ELSE IF id_ex.ctrl.is_ebreak THEN cause(3, id_ex.pc)
      ELSE IF id_ex.ctrl.is_ecall  THEN cause(11, 0)
      ELSE IF id_ex.ctrl.mem_write /\ misaligned THEN cause(6, addr)
      ELSE IF id_ex.ctrl.mem_read  /\ misaligned THEN cause(4, addr)
      ELSE NoTrap

MretInEx   == id_ex.valid /\ id_ex.ctrl.is_mret
FenceiInEx == id_ex.valid /\ id_ex.ctrl.is_fencei

ExRedirectNoFence(rs1, rs2, trap) ==     \* mutant: fence.i flushes nothing
  [valid |-> trap.valid \/ MretInEx \/ Taken(rs1, rs2),
   pc    |-> IF trap.valid THEN csr.mtvec
             ELSE IF MretInEx THEN csr.mepc
             ELSE Target(rs1)]

ExRedirectSticky(rs1, rs2, trap) ==      \* mutant: the flag is never cleared
  [valid |-> \/ redirect.valid \/ trap.valid \/ MretInEx \/ FenceiInEx
             \/ Taken(rs1, rs2),
   pc    |-> IF redirect.valid THEN redirect.pc
             ELSE IF trap.valid THEN csr.mtvec
             ELSE IF MretInEx THEN csr.mepc
             ELSE IF FenceiInEx THEN ToWord(id_ex.pc + 4)
             ELSE Target(rs1)]

ExRedirect(rs1, rs2, trap) ==
  [valid |-> trap.valid \/ MretInEx \/ FenceiInEx \/ Taken(rs1, rs2),
   pc    |-> IF trap.valid THEN csr.mtvec
             ELSE IF MretInEx THEN csr.mepc
             ELSE IF FenceiInEx THEN ToWord(id_ex.pc + 4)
             ELSE Target(rs1)]

(* A trapping instruction is not counted. *)
InstrRetiredOnTrap(trap) == id_ex.valid      \* mutant: it is counted
InstrRetired(trap) == id_ex.valid /\ ~ trap.valid

CsrPorts(rs1, trap) ==
  [addr          |-> CsrAddr,
   op            |-> id_ex.ctrl.csr_op,
   wdata         |-> IF id_ex.ctrl.csr_imm THEN id_ex.ctrl.rs1_addr ELSE rs1,
   write         |-> CsrWriteReq,
   trap_valid    |-> trap.valid,
   trap_epc      |-> id_ex.pc,
   trap_cause    |-> trap.cause,
   trap_tval     |-> trap.tval,
   mret          |-> MretInEx /\ ~ trap.valid,
   instr_retired |-> InstrRetired(trap),
   irq           |-> NoIrq]

PoisonMemory(ctrl, trapped) ==           \* mutant: the register is written
  [ctrl EXCEPT !.mem_read  = @ /\ ~ trapped,
               !.mem_write = @ /\ ~ trapped]

PoisonWrites(ctrl, trapped) ==           \* mutant: the load still happens
  [ctrl EXCEPT !.reg_write = @ /\ ~ trapped,
               !.mem_write = @ /\ ~ trapped]

(* Poisoned, not squashed: a trapping instruction keeps valid and pc and   *)
(* loses its write enables.                                                *)
Poison(ctrl, trapped) ==
  [ctrl EXCEPT !.reg_write = @ /\ ~ trapped,
               !.mem_read  = @ /\ ~ trapped,
               !.mem_write = @ /\ ~ trapped]

ExMemLoad(rs1, rs2, trap) ==
  [valid      |-> id_ex.valid,
   pc         |-> id_ex.pc,
   ctrl       |-> Poison(id_ex.ctrl, trap.valid),
   alu_result |-> IF id_ex.ctrl.csr_op # "NONE" THEN CsrRead
                                                ELSE AluOut(rs1, rs2),
   rs2_data   |-> rs2]

-----------------------------------------------------------------------------
(* IF: the program counter and the IF/ID register, flushed in both cycles  *)
(* of a redirect.                                                          *)
PcNext == IF redirect.valid THEN redirect.pc
          ELSE IF Stall THEN pc
          ELSE ToWord(pc + 4)

IfIdNextFlushOnce(flush) ==              \* mutant: one flush cycle of the two
  IF redirect.valid THEN IfIdBubble
  ELSE IF Stall THEN if_id
  ELSE [valid |-> TRUE, pc |-> pc, instr |-> mem[Index(pc)]]

IfIdNextKeepsWord(flush) ==              \* mutant: only the valid bit clears
  IF Stall /\ ~ flush THEN if_id
  ELSE [valid |-> ~ flush, pc |-> pc, instr |-> mem[Index(pc)]]

IfIdNext(flush) ==
  IF flush THEN IfIdBubble
  ELSE IF Stall THEN if_id
  ELSE [valid |-> TRUE, pc |-> pc, instr |-> mem[Index(pc)]]

IdExNextHeld(squash) ==                  \* mutant: a stall freezes EX as well
  IF squash THEN IdExZero ELSE IF Stall THEN id_ex ELSE IdExLoad

IdExNext(squash) == IF squash \/ Stall THEN IdExZero ELSE IdExLoad

-----------------------------------------------------------------------------
Init ==
  /\ pc = 0                                            \* RESET_VECTOR
  /\ if_id = IfIdBubble
  /\ id_ex = IdExZero
  /\ ex_mem = ExMemZero
  /\ mem_wb = MemWbZero
  /\ redirect = NoRedirect
  /\ regs = RegsZero
  /\ csr = CsrReset
  /\ trace = TraceZero
  /\ mem \in Images

(* posedge clk with rst_n high: every register samples its input. *)
Tick ==
  LET rs1  == Rs1
      rs2  == Rs2
      trap == Trap(rs1, rs2)
      exr  == ExRedirect(rs1, rs2, trap)
  IN  /\ pc'       = PcNext
      /\ if_id'    = IfIdNext(exr.valid \/ redirect.valid)
      /\ id_ex'    = IdExNext(exr.valid)
      /\ ex_mem'   = ExMemLoad(rs1, rs2, trap)
      /\ mem_wb'   = MemWbNext
      /\ redirect' = exr
      /\ regs'     = RegsNext
      /\ mem'      = MemNext
      /\ csr'      = CsrNext(csr, CsrPorts(rs1, trap))
      /\ trace'    = TraceNext

(* negedge rst_n, at any time: the flops clear asynchronously, the TCM     *)
(* keeps its contents, and a store still in MEM does not reach it.         *)
Reset ==
  /\ pc' = 0
  /\ if_id' = IfIdBubble
  /\ id_ex' = IdExZero
  /\ ex_mem' = ExMemZero
  /\ mem_wb' = MemWbZero
  /\ redirect' = NoRedirect
  /\ regs' = RegsZero
  /\ csr' = CsrReset
  /\ trace' = TraceZero
  /\ UNCHANGED mem

Next == Tick \/ Reset

Spec == Init /\ [][Next]_vars

-----------------------------------------------------------------------------
(***************************************************************************)
(* Types of the pipeline registers.                                        *)
(***************************************************************************)
IfIdType  == [valid : BOOLEAN, pc : Word, instr : Word]
IdExType  == [valid : BOOLEAN, pc : Word, instr : Word, ctrl : CtrlType,
              imm : Int, rs1_data : Word, rs2_data : Word]
ExMemType == [valid : BOOLEAN, pc : Word, ctrl : CtrlType,
              alu_result : Word, rs2_data : Word]
MemWbType == [valid : BOOLEAN, ctrl : CtrlType, alu_result : Word,
              mem_data : Word, pc_plus4 : Word]
RedirectType == [valid : BOOLEAN, pc : Word]
TraceType == [pc : Word, mem_we : BOOLEAN, mem_addr : Word, mem_wdata : Word]

(* Every register of the core and every word of the TCM holds a value of   *)
(* the width its declaration gives it.                                     *)
TypeOK ==
  /\ pc \in Word
  /\ if_id \in IfIdType
  /\ id_ex \in IdExType
  /\ ex_mem \in ExMemType
  /\ mem_wb \in MemWbType
  /\ redirect \in RedirectType
  /\ regs \in [1 .. 31 -> Word]
  /\ mem \in [TcmIndex -> Word]
  /\ csr \in CsrType
  /\ trace \in TraceType

(* The fetch address and every address that can become it are word-aligned *)
(* (the assertions of if_stage.sv and csr.sv): a misaligned target, mtvec  *)
(* or mepc never reaches the PC, whatever the program computes.            *)
FetchAligned ==
  /\ Aligned(pc)
  /\ redirect.valid => Aligned(redirect.pc)
  /\ Aligned(csr.mtvec)
  /\ Aligned(csr.mepc)

(* An invalid instruction does nothing wherever it is: the valid gates     *)
(* rv32_core.sv keeps as defence are never what stops a bubble.            *)
BubblesAreInert ==
  /\ ~ if_id.valid  => if_id.instr = NopWord
  /\ ~ id_ex.valid  => id_ex.ctrl \in {CtrlZero, Decode(Nop)}
  /\ ~ ex_mem.valid => ex_mem.ctrl \in {CtrlZero, Decode(Nop)}
  /\ ~ mem_wb.valid => mem_wb.ctrl \in {CtrlZero, Decode(Nop)}

(* No misaligned access ever reaches the memory: the trap taken in EX and  *)
(* the poison applied on the way to MEM cover what MEM would report.       *)
NoMisalignedAccess == ~ MemMisaligned

(* alu_result is forwarded from MEM only when it is the value the producer *)
(* writes back: the interlock keeps loads, and the redirect keeps JAL and  *)
(* JALR, from having a consumer in EX while they are in MEM.               *)
ForwardsFinalValue ==
  \A operand \in {<<id_ex.ctrl.rs1_used, id_ex.ctrl.rs1_addr>>,
                  <<id_ex.ctrl.rs2_used, id_ex.ctrl.rs2_addr>>} :
    FwdSel(operand[1], operand[2], ex_mem, mem_wb) = "MEM"
      => ex_mem.ctrl.wb_sel = "ALU"

-----------------------------------------------------------------------------
(***************************************************************************)
(* What makes the properties above inductive.                              *)
(***************************************************************************)
(* What is in EX is a bubble or the decode of the word beside it. *)
ExIsDecoded ==
  \/ id_ex.ctrl = CtrlZero /\ id_ex.imm = 0
  \/ LET i == InstrOf[id_ex.instr]
     IN  id_ex.ctrl = Decode(i) /\ id_ex.imm = Immediate(i)

(* The address of an instruction is aligned as long as it can reach mepc.  *)
StagesAligned == Aligned(if_id.pc) /\ Aligned(id_ex.pc)

SafetyInv ==
  /\ TypeOK
  /\ ExIsDecoded
  /\ StagesAligned
  /\ FetchAligned
  /\ BubblesAreInert
  /\ NoMisalignedAccess
  /\ ForwardsFinalValue

=============================================================================

--------------------------- MODULE LockstepProofs ---------------------------
(***************************************************************************)
(* Theorems of the core, for every word size, every memory size, every     *)
(* instruction encoding and every program image: of the pipeline itself,   *)
(* and then of the pipeline beside the sequential machine, which it is.    *)
(***************************************************************************)
EXTENDS Lockstep, DatapathProofs

-----------------------------------------------------------------------------
(* The values that move between the stages.                                *)
LEMMA IndexType ==
  ASSUME NEW a \in Word
  PROVE  Index(a) \in TcmIndex
<1>1. a \in Int /\ a \div 4 \in Int
  BY DEF Word
<1>2. QED
  BY <1>1, TcmAssumption DEF Index, TcmIndex

LEMMA WbDataType ==
  ASSUME TypeOK
  PROVE  WbData \in Word
  BY SMT DEF TypeOK, MemWbType, WbData

LEMMA MemNextType ==
  ASSUME TypeOK
  PROVE  MemNext \in [TcmIndex -> Word]
<1> DEFINE k == Index(ex_mem.alu_result)
<1>1. k \in TcmIndex /\ mem[k] \in Word
  BY IndexType DEF TypeOK, ExMemType
<1>2. StoreAligned(ex_mem.ctrl.mem_size, ex_mem.rs2_data) \in Word
  BY StoreAlignedType DEF TypeOK, ExMemType
<1>3. WriteLanes(mem[k], ByteEnable(Offset, ex_mem.ctrl.mem_size),
                 StoreAligned(ex_mem.ctrl.mem_size, ex_mem.rs2_data)) \in Word
  BY <1>1, <1>2, WriteLanesType
<1>4. QED
  BY <1>1, <1>3 DEF MemNext, TypeOK

LEMMA LoadedDataType ==
  ASSUME TypeOK
  PROVE  LoadedData \in Word
<1>1. mem[Index(ex_mem.alu_result)] \in Word
  BY IndexType DEF TypeOK, ExMemType
<1>2. QED
  BY <1>1, LoadDataType DEF LoadedData

LEMMA RegReadType ==
  ASSUME TypeOK, NEW r \in RegIdx
  PROVE  RegRead(r) \in Word /\ IdOperand(r) \in Word
<1>1. RegRead(r) \in Word
  BY WordSizeFacts DEF RegRead, TypeOK, RegIdx
<1>2. QED
  BY <1>1, WbDataType DEF IdOperand

LEMMA FetchedInstr ==
  ASSUME NEW w \in Word
  PROVE  InstrOf[w] \in Instr
  BY InstrOfAssumption

LEMMA IdExLoadType ==
  ASSUME TypeOK
  PROVE  IdExLoad \in IdExType
<1> DEFINE i == InstrOf[if_id.instr]
           c == Decode(i)
<1>1. if_id.valid \in BOOLEAN /\ if_id.pc \in Word /\ if_id.instr \in Word
  BY DEF TypeOK, IfIdType
<1>2. i \in Instr
  BY <1>1, FetchedInstr
<1>3. c \in CtrlType /\ Immediate(i) \in Int
  BY <1>2, DecodeType, ImmediateType
<1>4. c.rs1_addr \in RegIdx /\ c.rs2_addr \in RegIdx
  BY <1>3 DEF CtrlType
<1>5. IdOperand(c.rs1_addr) \in Word /\ IdOperand(c.rs2_addr) \in Word
  BY <1>4, RegReadType
<1>6. IdExLoad = [valid |-> if_id.valid, pc |-> if_id.pc,
                  instr |-> if_id.instr, ctrl |-> c, imm |-> Immediate(i),
                  rs1_data |-> IdOperand(c.rs1_addr),
                  rs2_data |-> IdOperand(c.rs2_addr)]
  BY DEF IdExLoad
<1> HIDE DEF c, i
<1>7. QED
  BY <1>1, <1>3, <1>5, <1>6 DEF IdExType

LEMMA OperandType ==
  ASSUME TypeOK
  PROVE  Rs1 \in Word /\ Rs2 \in Word
<1>1. WbData \in Word
  BY WbDataType
<1>2. \A sel, data : data \in Word => Operand(sel, data) \in Word
  BY <1>1, SMT DEF Operand, TypeOK, ExMemType
<1>3. QED
  BY <1>2 DEF Rs1, Rs2, TypeOK, IdExType

LEMMA AluOutType ==
  ASSUME TypeOK, NEW rs1 \in Word, NEW rs2 \in Word
  PROVE  AluOut(rs1, rs2) \in Word
<1>1. id_ex.pc \in Word /\ id_ex.imm \in Int
  BY DEF TypeOK, IdExType
<1>2. ToWord(id_ex.imm) \in Word
  BY <1>1, ToWordType
<1>3. AluA(rs1) \in Word /\ AluB(rs2) \in Word
  BY <1>1, <1>2, Zenon DEF AluA, AluB
<1>4. id_ex.ctrl.alu_op \in AluOps
  BY DEF TypeOK, IdExType, CtrlType
<1>5. QED
  BY <1>3, <1>4, AluType DEF AluOut

LEMMA TargetType ==
  ASSUME TypeOK, NEW rs1 \in Word
  PROVE  Target(rs1) \in Word
<1>1. id_ex.pc \in Int /\ id_ex.imm \in Int /\ rs1 \in Int
  BY DEF TypeOK, IdExType, Word
<1>2. rs1 + id_ex.imm \in Int /\ id_ex.pc + id_ex.imm \in Int
  BY <1>1
<1>3. ToWord(rs1 + id_ex.imm) \in Word /\ ToWord(id_ex.pc + id_ex.imm) \in Word
  BY <1>2, ToWordType
<1>4. \A w \in Word : ClearBit0(w) \in Word
  BY WordSizeFacts DEF ClearBit0, Word
<1>5. QED
  BY <1>3, <1>4 DEF Target

LEMMA TrapType ==
  ASSUME TypeOK, NEW rs1 \in Word, NEW rs2 \in Word
  PROVE  /\ Trap(rs1, rs2).valid \in BOOLEAN
         /\ Trap(rs1, rs2).cause \in Word
         /\ Trap(rs1, rs2).tval \in Word
<1>1. Target(rs1) \in Word /\ AluOut(rs1, rs2) \in Word
  BY TargetType, AluOutType
<1>2. id_ex.instr \in Word /\ id_ex.pc \in Word
  BY DEF TypeOK, IdExType
<1>3. QED
  BY <1>1, <1>2, WordSizeFacts, SMT DEF Trap, NoTrap

LEMMA ExRedirectType ==
  ASSUME TypeOK, NEW rs1 \in Word, NEW rs2 \in Word, NEW trap,
         trap.valid \in BOOLEAN
  PROVE  ExRedirect(rs1, rs2, trap) \in RedirectType
<1>1. Target(rs1) \in Word
  BY TargetType
<1>2. ToWord(id_ex.pc + 4) \in Word
  BY ToWordType DEF TypeOK, IdExType, Word
<1>3. csr.mtvec \in Word /\ csr.mepc \in Word
  BY DEF TypeOK, CsrType
<1>4. QED
  BY <1>1, <1>2, <1>3, SMT DEF ExRedirect, RedirectType

LEMMA CsrPortsType ==
  ASSUME TypeOK, NEW rs1 \in Word, NEW trap,
         trap.valid \in BOOLEAN, trap.cause \in Word, trap.tval \in Word
  PROVE  CsrPorts(rs1, trap) \in PortType
<1>1. CsrAddr \in 0 .. 4095
  <2>1. id_ex.imm \in Int
    BY DEF TypeOK, IdExType
  <2> DEFINE imm == id_ex.imm
  <2>2. CsrAddr = imm % 4096
    BY <2>1 DEF CsrAddr
  <2> HIDE DEF imm
  <2>3. imm \in Int
    BY <2>1 DEF imm
  <2>4. QED
    BY <2>2, <2>3
<1>2. /\ id_ex.ctrl.rs1_addr \in Word /\ id_ex.ctrl.csr_op \in CsrOps
      /\ id_ex.valid \in BOOLEAN /\ id_ex.pc \in Word
      /\ id_ex.ctrl.csr_write \in BOOLEAN /\ id_ex.ctrl.is_mret \in BOOLEAN
  BY WordSizeFacts DEF TypeOK, IdExType, CtrlType, RegIdx, Word
<1>3. CsrWriteReq \in BOOLEAN /\ MretInEx \in BOOLEAN
  BY <1>2 DEF CsrWriteReq, MretInEx
<1>4. NoIrq \in IrqPins
  BY DEF NoIrq, IrqPins
<1>5. QED
  BY <1>1, <1>2, <1>3, <1>4, SMT DEF CsrPorts, InstrRetired, PortType, CsrOps

LEMMA PoisonType ==
  ASSUME NEW c \in CtrlType, NEW t \in BOOLEAN
  PROVE  Poison(c, t) \in CtrlType
<1>1. \A d \in CtrlType, b \in BOOLEAN :
        /\ [d EXCEPT !.reg_write = b] \in CtrlType
        /\ [d EXCEPT !.mem_read = b] \in CtrlType
        /\ [d EXCEPT !.mem_write = b] \in CtrlType
  BY SMT DEF CtrlType
<1> DEFINE d1 == [c EXCEPT !.reg_write = @ /\ ~ t]
           d2 == [d1 EXCEPT !.mem_read = @ /\ ~ t]
           d3 == [d2 EXCEPT !.mem_write = @ /\ ~ t]
<1>2. d1 \in CtrlType
  BY <1>1, Zenon
<1>3. d2 \in CtrlType
  <2> HIDE DEF d1
  <2>1. QED
    BY <1>1, <1>2, Zenon
<1>4. d3 \in CtrlType
  <2> HIDE DEF d2
  <2>1. QED
    BY <1>1, <1>3, Zenon
<1>5. QED
  BY <1>4 DEF Poison

-----------------------------------------------------------------------------
(* Type correctness.                                                       *)
LEMMA BubbleTypes ==
  /\ IfIdBubble \in IfIdType
  /\ IdExZero \in IdExType
  /\ ExMemZero \in ExMemType
  /\ MemWbZero \in MemWbType
  /\ RegsZero \in [1 .. 31 -> Word]
  /\ NoRedirect \in RedirectType
  /\ TraceZero \in TraceType
  BY WordSizeFacts, CtrlZeroType, NopAssumption
  DEF IfIdBubble, IdExZero, ExMemZero, MemWbZero, RegsZero, NoRedirect,
      TraceZero, IfIdType, IdExType, ExMemType, MemWbType, RedirectType,
      TraceType

LEMMA InitTypeOK == Init => TypeOK
  BY BubbleTypes, CsrResetType, WordSizeFacts, ImagesAssumption
  DEF Init, TypeOK

LEMMA ResetTypeOK == TypeOK /\ Reset => TypeOK'
  BY BubbleTypes, CsrResetType, WordSizeFacts DEF Reset, TypeOK

LEMMA TickTypeOK == TypeOK /\ Tick => TypeOK'
<1> SUFFICES ASSUME TypeOK, Tick
             PROVE  TypeOK'
  OBVIOUS
<1> DEFINE trap == Trap(Rs1, Rs2)
           exr  == ExRedirect(Rs1, Rs2, trap)
<1>1. Rs1 \in Word /\ Rs2 \in Word
  BY OperandType
<1>2. /\ trap.valid \in BOOLEAN
      /\ trap.cause \in Word
      /\ trap.tval \in Word
  BY <1>1, TrapType
<1>3. exr \in RedirectType
  BY <1>1, <1>2, ExRedirectType
<1>4. CsrPorts(Rs1, trap) \in PortType
  BY <1>1, <1>2, CsrPortsType
<1> HIDE DEF trap, exr
<1>5. /\ pc' = PcNext
      /\ if_id' = IfIdNext(exr.valid \/ redirect.valid)
      /\ id_ex' = IdExNext(exr.valid)
      /\ ex_mem' = ExMemLoad(Rs1, Rs2, trap)
      /\ mem_wb' = MemWbNext
      /\ redirect' = exr
      /\ regs' = RegsNext
      /\ mem' = MemNext
      /\ csr' = CsrNext(csr, CsrPorts(Rs1, trap))
      /\ trace' = TraceNext
  BY DEF Tick, trap, exr
<1>6. pc' \in Word
  <2>1. ToWord(pc + 4) \in Word
    BY ToWordType DEF TypeOK, Word
  <2>2. QED
    BY <1>5, <2>1 DEF PcNext, TypeOK, RedirectType
<1>7. if_id' \in IfIdType
  <2>1. mem[Index(pc)] \in Word
    BY IndexType DEF TypeOK
  <2>2. [valid |-> TRUE, pc |-> pc, instr |-> mem[Index(pc)]] \in IfIdType
    BY <2>1 DEF IfIdType, TypeOK
  <2>3. QED
    BY <1>5, <2>2, BubbleTypes DEF IfIdNext, TypeOK
<1>8. id_ex' \in IdExType
  BY <1>5, IdExLoadType, BubbleTypes DEF IdExNext
<1>9. ex_mem' \in ExMemType
  <2>1. /\ id_ex.valid \in BOOLEAN /\ id_ex.pc \in Word
        /\ id_ex.ctrl \in CtrlType
    BY DEF TypeOK, IdExType
  <2>2. Poison(id_ex.ctrl, trap.valid) \in CtrlType
    BY <1>2, <2>1, PoisonType
  <2>3. CsrRead \in Word
    BY CsrRdataType, WordSizeFacts DEF CsrRead, TypeOK
  <2>4. AluOut(Rs1, Rs2) \in Word
    BY <1>1, AluOutType
  <2>5. QED
    BY <1>1, <1>5, <2>1, <2>2, <2>3, <2>4, SMT DEF ExMemLoad, ExMemType
<1>10. mem_wb' \in MemWbType
  <2>1. /\ ex_mem.valid \in BOOLEAN /\ ex_mem.ctrl \in CtrlType
        /\ ex_mem.alu_result \in Word /\ ex_mem.pc \in Word
    BY DEF TypeOK, ExMemType
  <2>2. ToWord(ex_mem.pc + 4) \in Word
    BY <2>1, ToWordType DEF Word
  <2>3. QED
    BY <1>5, <2>1, <2>2, LoadedDataType DEF MemWbNext, MemWbType
<1>11. redirect' \in RedirectType
  BY <1>3, <1>5
<1>12. regs' \in [1 .. 31 -> Word]
  <2>1. mem_wb.ctrl.rd_addr \in RegIdx
    BY DEF TypeOK, MemWbType, CtrlType
  <2>2. QED
    BY <1>5, <2>1, WbDataType DEF RegsNext, TypeOK, RegIdx
<1>13. mem' \in [TcmIndex -> Word]
  BY <1>5, MemNextType
<1>14. csr' \in CsrType
  BY <1>4, <1>5, CsrNextType DEF TypeOK
<1>15. trace' \in TraceType
  <2>1. /\ ex_mem.valid \in BOOLEAN /\ ex_mem.ctrl.mem_write \in BOOLEAN
        /\ ex_mem.alu_result \in Word /\ ex_mem.pc \in Word
        /\ ex_mem.rs2_data \in Word
    BY DEF TypeOK, ExMemType, CtrlType
  <2>2. QED
    BY <1>5, <2>1, SMT DEF TraceNext, TraceType
<1>16. QED
  BY <1>6, <1>7, <1>8, <1>9, <1>10, <1>11, <1>12, <1>13, <1>14, <1>15
  DEF TypeOK

(* Every register keeps its declared width whatever runs, and every access *)
(* to the TCM and to the register file is within it.                       *)
THEOREM TypeCorrect == Spec => []TypeOK
<1>1. TypeOK /\ [Next]_vars => TypeOK'
  <2> SUFFICES ASSUME TypeOK, [Next]_vars
               PROVE  TypeOK'
    OBVIOUS
  <2>1. CASE Tick
    BY <2>1, TickTypeOK
  <2>2. CASE Reset
    BY <2>2, ResetTypeOK
  <2>3. CASE UNCHANGED vars
    BY <2>3 DEF vars, flops, TypeOK
  <2>4. QED
    BY <2>1, <2>2, <2>3 DEF Next
<1>2. QED
  BY <1>1, InitTypeOK, PTL DEF Spec

-----------------------------------------------------------------------------
(* The safety invariant.  One lemma for each property and the clock edge.  *)
LEMMA ExFacts ==
  ASSUME TypeOK, ExIsDecoded
  PROVE  /\ id_ex.ctrl.is_branch \/ id_ex.ctrl.is_jal => id_ex.imm % 2 = 0
         /\ id_ex.ctrl.mem_read \/ id_ex.ctrl.mem_write
              => id_ex.ctrl.csr_op = "NONE"
         /\ id_ex.ctrl.wb_sel = "MEM" => id_ex.ctrl.mem_read
         /\ id_ex.ctrl.wb_sel = "PC4" => id_ex.ctrl.is_jal \/ id_ex.ctrl.is_jalr
<1>1. CASE id_ex.ctrl = CtrlZero /\ id_ex.imm = 0
  BY <1>1 DEF CtrlZero
<1>2. CASE LET i == InstrOf[id_ex.instr]
           IN  id_ex.ctrl = Decode(i) /\ id_ex.imm = Immediate(i)
  <2>1. InstrOf[id_ex.instr] \in Instr
    BY FetchedInstr DEF TypeOK, IdExType
  <2>2. QED
    BY <1>2, <2>1, DecodeFacts
<1>3. QED
  BY <1>1, <1>2 DEF ExIsDecoded

LEMMA TickExIsDecoded == TypeOK /\ Tick => ExIsDecoded'
<1> SUFFICES ASSUME TypeOK, Tick
             PROVE  ExIsDecoded'
  OBVIOUS
<1>1. id_ex' = IdExZero \/ id_ex' = IdExLoad
  BY DEF Tick, IdExNext
<1>2. CASE id_ex' = IdExZero
  BY <1>2 DEF ExIsDecoded, IdExZero
<1>3. CASE id_ex' = IdExLoad
  BY <1>3 DEF ExIsDecoded, IdExLoad
<1>4. QED
  BY <1>1, <1>2, <1>3

LEMMA PlusFourAligned ==
  ASSUME NEW w \in Word, Aligned(w)
  PROVE  Aligned(ToWord(w + 4))
<1>1. w \in Int /\ w + 4 \in Int
  BY DEF Word
<1>2. (w + 4) % 4 = 0
  BY <1>1 DEF Aligned
<1>3. QED
  BY <1>1, <1>2, ToWordMod4 DEF Aligned

LEMMA TickStagesAligned ==
  TypeOK /\ StagesAligned /\ FetchAligned /\ Tick => StagesAligned'
<1> SUFFICES ASSUME TypeOK, StagesAligned, FetchAligned, Tick
             PROVE  StagesAligned'
  OBVIOUS
<1>1. Aligned(0)
  BY DEF Aligned
<1>2. if_id'.pc \in {0, if_id.pc, pc}
  BY DEF Tick, IfIdNext, IfIdBubble
<1>3. id_ex'.pc \in {0, if_id.pc}
  BY DEF Tick, IdExNext, IdExZero, IdExLoad
<1>4. QED
  BY <1>1, <1>2, <1>3 DEF StagesAligned, FetchAligned

LEMMA EvenSum ==
  ASSUME NEW p \in Int, NEW m \in Int, p % 4 = 0, m % 2 = 0
  PROVE  (p + m) % 2 = 0
<1>1. p % 2 = 0
  OBVIOUS
<1>2. QED
  BY <1>1

LEMMA TargetIsEven ==
  ASSUME TypeOK, ExIsDecoded, StagesAligned,
         NEW rs1 \in Word, NEW rs2, Taken(rs1, rs2)
  PROVE  Target(rs1) \in Int /\ Target(rs1) % 2 = 0
<1> DEFINE t == Target(rs1)
<1>1. id_ex.pc \in Int /\ id_ex.pc % 4 = 0 /\ id_ex.imm \in Int /\ rs1 \in Int
  BY DEF TypeOK, IdExType, StagesAligned, Aligned, Word
<1>2. t \in Int
  BY TargetType DEF Word
<1>3. CASE id_ex.ctrl.is_jalr
  <2>1. ToWord(rs1 + id_ex.imm) \in Int
    BY <1>1, ToWordType DEF Word
  <2>2. \A w \in Int : ClearBit0(w) % 2 = 0
    BY DEF ClearBit0
  <2>3. QED
    BY <1>2, <1>3, <2>1, <2>2 DEF Target
<1>4. CASE ~ id_ex.ctrl.is_jalr
  <2>1. id_ex.imm % 2 = 0
    BY <1>4, ExFacts DEF Taken
  <2>2. (id_ex.pc + id_ex.imm) % 2 = 0
    BY <1>1, <2>1, EvenSum
  <2>3. id_ex.pc + id_ex.imm \in Int
    BY <1>1
  <2>4. ToWord(id_ex.pc + id_ex.imm) % 4 = (id_ex.pc + id_ex.imm) % 4
    BY <2>3, ToWordMod4
  <2>5. t = ToWord(id_ex.pc + id_ex.imm)
    BY <1>4 DEF Target
  <2> DEFINE u == id_ex.pc + id_ex.imm
  <2>6. u \in Int /\ u % 2 = 0 /\ t % 4 = u % 4
    BY <2>2, <2>3, <2>4, <2>5
  <2> HIDE DEF u, t
  <2>7. t \in Int /\ t % 2 = 0
    BY <1>2, <2>6
  <2>8. QED
    BY <2>7 DEF t
<1>5. QED
  BY <1>3, <1>4

(* A transfer that does not trap goes to an aligned address. *)
LEMMA TargetAligned ==
  ASSUME TypeOK, ExIsDecoded, StagesAligned,
         NEW rs1 \in Word, NEW rs2,
         Taken(rs1, rs2), ~ Trap(rs1, rs2).valid
  PROVE  Aligned(Target(rs1))
<1> DEFINE t == Target(rs1)
<1>1. t \in Int /\ t % 2 = 0
  BY TargetIsEven
<1>2. (t \div 2) % 2 = 0
  <2>1. id_ex.valid
    BY DEF Taken
  <2>2. (t \div 2) % 2 # 0 => Trap(rs1, rs2).valid
    BY <2>1, SMT DEF Trap
  <2>3. QED
    BY <2>2
<1> HIDE DEF t
<1>3. t % 4 = 0
  BY <1>1, <1>2
<1>4. QED
  BY <1>3 DEF t, Aligned

LEMMA TickFetchAligned ==
  TypeOK /\ ExIsDecoded /\ StagesAligned /\ FetchAligned /\ Tick
    => FetchAligned'
<1> SUFFICES ASSUME TypeOK, ExIsDecoded, StagesAligned, FetchAligned, Tick
             PROVE  FetchAligned'
  OBVIOUS
<1> DEFINE trap == Trap(Rs1, Rs2)
           exr  == ExRedirect(Rs1, Rs2, trap)
<1>1. Rs1 \in Word /\ Rs2 \in Word
  BY OperandType
<1>2. trap.valid \in BOOLEAN /\ trap.cause \in Word /\ trap.tval \in Word
  BY <1>1, TrapType
<1>3. Aligned(pc')
  <2>1. Aligned(ToWord(pc + 4))
    BY PlusFourAligned DEF TypeOK, FetchAligned
  <2>2. QED
    BY <2>1 DEF Tick, PcNext, FetchAligned
<1>4. exr.valid => Aligned(exr.pc)
  <2>1. Aligned(ToWord(id_ex.pc + 4))
    BY PlusFourAligned DEF TypeOK, IdExType, StagesAligned
  <2>2. Taken(Rs1, Rs2) /\ ~ trap.valid => Aligned(Target(Rs1))
    BY <1>1, TargetAligned
  <2>3. exr.valid = (trap.valid \/ MretInEx \/ FenceiInEx \/ Taken(Rs1, Rs2))
    BY DEF ExRedirect
  <2>4. exr.pc = IF trap.valid THEN csr.mtvec
                 ELSE IF MretInEx THEN csr.mepc
                 ELSE IF FenceiInEx THEN ToWord(id_ex.pc + 4)
                 ELSE Target(Rs1)
    BY DEF ExRedirect
  <2> HIDE DEF trap, exr
  <2>5. QED
    BY <2>1, <2>2, <2>3, <2>4, Zenon DEF FetchAligned
<1>5. Aligned(csr'.mtvec) /\ Aligned(csr'.mepc)
  <2>1. CsrPorts(Rs1, trap) \in PortType
    BY <1>1, <1>2, CsrPortsType
  <2>2. csr' = CsrNext(csr, CsrPorts(Rs1, trap))
    BY DEF Tick
  <2> HIDE DEF trap
  <2>3. QED
    BY <2>1, <2>2, CsrNextAligned DEF TypeOK, FetchAligned
<1>6. redirect' = exr
  BY DEF Tick
<1> HIDE DEF exr, trap
<1>7. QED
  BY <1>3, <1>4, <1>5, <1>6 DEF FetchAligned

LEMMA PoisonFields ==
  ASSUME NEW c \in CtrlType, NEW t \in BOOLEAN
  PROVE  /\ ~ t => Poison(c, t) = c
         /\ Poison(c, t).mem_size = c.mem_size
         /\ Poison(c, t).wb_sel = c.wb_sel
         /\ Poison(c, t).rd_addr = c.rd_addr
         /\ Poison(c, t).mem_read => c.mem_read /\ ~ t
         /\ Poison(c, t).mem_write => c.mem_write /\ ~ t
         /\ Poison(c, t).reg_write => c.reg_write /\ ~ t
<1>1. c.reg_write \in BOOLEAN /\ c.mem_read \in BOOLEAN /\ c.mem_write \in BOOLEAN
  BY DEF CtrlType
<1>2. Poison(c, t) = [c EXCEPT !.reg_write = c.reg_write /\ ~ t,
                               !.mem_read = c.mem_read /\ ~ t,
                               !.mem_write = c.mem_write /\ ~ t]
  BY SMT DEF Poison, CtrlType
<1>3. ~ t => Poison(c, t) = c
  <2>1. /\ [c EXCEPT !.reg_write = c.reg_write] = c
        /\ [c EXCEPT !.mem_read = c.mem_read] = c
        /\ [c EXCEPT !.mem_write = c.mem_write] = c
    BY SMT DEF CtrlType
  <2>2. SUFFICES ASSUME ~ t
                 PROVE  Poison(c, t) = c
    OBVIOUS
  <2>3. /\ (c.reg_write /\ ~ t) = c.reg_write
        /\ (c.mem_read /\ ~ t) = c.mem_read
        /\ (c.mem_write /\ ~ t) = c.mem_write
    BY <1>1, <2>2
  <2>4. Poison(c, t) = [[[c EXCEPT !.reg_write = c.reg_write]
                            EXCEPT !.mem_read = c.mem_read]
                            EXCEPT !.mem_write = c.mem_write]
    BY <1>2, <2>3, Zenon
  <2>5. QED
    BY <2>1, <2>4, Zenon
<1>4. /\ Poison(c, t).mem_size = c.mem_size
      /\ Poison(c, t).wb_sel = c.wb_sel
      /\ Poison(c, t).rd_addr = c.rd_addr
  BY SMT DEF Poison, CtrlType
<1>5. /\ Poison(c, t).mem_read => c.mem_read /\ ~ t
      /\ Poison(c, t).mem_write => c.mem_write /\ ~ t
      /\ Poison(c, t).reg_write => c.reg_write /\ ~ t
  <2>1. /\ Poison(c, t).mem_read = (c.mem_read /\ ~ t)
        /\ Poison(c, t).mem_write = (c.mem_write /\ ~ t)
        /\ Poison(c, t).reg_write = (c.reg_write /\ ~ t)
    BY <1>2, SMT DEF CtrlType
  <2>2. QED
    BY <2>1
<1>6. QED
  BY <1>3, <1>4, <1>5

LEMMA TickBubblesAreInert ==
  TypeOK /\ BubblesAreInert /\ Tick => BubblesAreInert'
<1> SUFFICES ASSUME TypeOK, BubblesAreInert, Tick
             PROVE  BubblesAreInert'
  OBVIOUS
<1> DEFINE inert == {CtrlZero, Decode(Nop)}
<1>1. ~ if_id'.valid => if_id'.instr = NopWord
  BY DEF Tick, IfIdNext, IfIdBubble, BubblesAreInert
<1>2. ~ id_ex'.valid => id_ex'.ctrl \in inert
  <2>1. CASE id_ex' = IdExZero
    BY <2>1 DEF IdExZero
  <2>2. CASE id_ex' = IdExLoad
    BY <2>2, NopAssumption DEF IdExLoad, BubblesAreInert
  <2>3. QED
    BY <2>1, <2>2 DEF Tick, IdExNext
<1>3. ~ ex_mem'.valid => ex_mem'.ctrl \in inert
  <2> DEFINE trap == Trap(Rs1, Rs2)
  <2>1. ex_mem'.valid = id_ex.valid /\ ex_mem'.ctrl = Poison(id_ex.ctrl, trap.valid)
    BY DEF Tick, ExMemLoad
  <2>2. ~ id_ex.valid => ~ trap.valid
    BY DEF Trap, NoTrap
  <2>3. trap.valid \in BOOLEAN
    BY OperandType, TrapType
  <2> HIDE DEF trap
  <2>4. ~ id_ex.valid => Poison(id_ex.ctrl, trap.valid) = id_ex.ctrl
    BY <2>2, <2>3, PoisonFields DEF TypeOK, IdExType
  <2>5. QED
    BY <2>1, <2>4 DEF BubblesAreInert
<1>4. ~ mem_wb'.valid => mem_wb'.ctrl \in inert
  BY DEF Tick, MemWbNext, BubblesAreInert
<1>5. QED
  BY <1>1, <1>2, <1>3, <1>4 DEF BubblesAreInert

LEMMA TickNoMisalignedAccess ==
  TypeOK /\ ExIsDecoded /\ Tick => NoMisalignedAccess'
<1> SUFFICES ASSUME TypeOK, ExIsDecoded, Tick
             PROVE  NoMisalignedAccess'
  OBVIOUS
<1> DEFINE trap == Trap(Rs1, Rs2)
           addr == AluOut(Rs1, Rs2)
<1>1. Rs1 \in Word /\ Rs2 \in Word
  BY OperandType
<1>2. trap.valid \in BOOLEAN
  BY <1>1, TrapType
<1>3. /\ ex_mem'.valid = id_ex.valid
      /\ ex_mem'.ctrl = Poison(id_ex.ctrl, trap.valid)
      /\ id_ex.ctrl.csr_op = "NONE" => ex_mem'.alu_result = addr
  BY DEF Tick, ExMemLoad
<1>4. id_ex.valid /\ (id_ex.ctrl.mem_read \/ id_ex.ctrl.mem_write)
        /\ IsMisaligned(addr % 4, id_ex.ctrl.mem_size)
        => trap.valid
  BY SMT DEF Trap
<1>5. id_ex.ctrl \in CtrlType
  BY DEF TypeOK, IdExType
<1> HIDE DEF trap, addr
<1>6. /\ ex_mem'.ctrl.mem_size = id_ex.ctrl.mem_size
      /\ ex_mem'.ctrl.mem_read => id_ex.ctrl.mem_read /\ ~ trap.valid
      /\ ex_mem'.ctrl.mem_write => id_ex.ctrl.mem_write /\ ~ trap.valid
  BY <1>2, <1>3, <1>5, PoisonFields
<1>7. QED
  BY <1>3, <1>4, <1>6, ExFacts DEF NoMisalignedAccess, MemMisaligned, Offset

(* A load in EX holds its consumer back one cycle; jal and jalr kill it.   *)
LEMMA TickForwardsFinalValue ==
  TypeOK /\ ExIsDecoded /\ Tick => ForwardsFinalValue'
<1> SUFFICES ASSUME TypeOK, ExIsDecoded, Tick,
                    NEW used, NEW addr,
                    \/ used = id_ex'.ctrl.rs1_used /\ addr = id_ex'.ctrl.rs1_addr
                    \/ used = id_ex'.ctrl.rs2_used /\ addr = id_ex'.ctrl.rs2_addr,
                    used, Produces(ex_mem'), ex_mem'.ctrl.rd_addr = addr
             PROVE  ex_mem'.ctrl.wb_sel = "ALU"
  BY SMT DEF ForwardsFinalValue, FwdSel
<1> DEFINE trap == Trap(Rs1, Rs2)
           exr  == ExRedirect(Rs1, Rs2, trap)
<1>1. Rs1 \in Word /\ Rs2 \in Word
  BY OperandType
<1>2. trap.valid \in BOOLEAN
  BY <1>1, TrapType
<1>3. id_ex.ctrl \in CtrlType
  BY DEF TypeOK, IdExType
<1>4. /\ ex_mem'.valid = id_ex.valid
      /\ ex_mem'.ctrl = Poison(id_ex.ctrl, trap.valid)
  BY DEF Tick, ExMemLoad
<1>5. id_ex' = IdExNext(exr.valid)
  BY DEF Tick
<1>6. exr.valid = (trap.valid \/ MretInEx \/ FenceiInEx \/ Taken(Rs1, Rs2))
  BY DEF ExRedirect
<1> HIDE DEF trap, exr
<1>7. /\ id_ex.valid
      /\ ex_mem'.ctrl.wb_sel = id_ex.ctrl.wb_sel
      /\ addr = id_ex.ctrl.rd_addr
      /\ addr # 0
      /\ ~ trap.valid
  BY <1>2, <1>3, <1>4, PoisonFields DEF Produces
<1>8. ~ (exr.valid \/ Stall) /\ id_ex' = IdExLoad
  <2>1. SUFFICES ASSUME exr.valid \/ Stall
                 PROVE  FALSE
    BY <1>5 DEF IdExNext
  <2>2. id_ex' = IdExZero
    BY <1>5, <2>1 DEF IdExNext
  <2>3. QED
    BY <2>2 DEF IdExZero, CtrlZero
<1>9. id_ex'.ctrl = IdCtrl
  BY <1>8 DEF IdExLoad, IdCtrl
<1>10. ~ id_ex.ctrl.mem_read
  BY <1>7, <1>8, <1>9 DEF Stall, LoadUse
<1>11. ~ id_ex.ctrl.is_jal /\ ~ id_ex.ctrl.is_jalr
  BY <1>6, <1>7, <1>8 DEF Taken
<1>12. QED
  BY <1>3, <1>7, <1>10, <1>11, ExFacts DEF CtrlType, WbSels

LEMMA InitSafety == Init => SafetyInv
<1> SUFFICES ASSUME Init
             PROVE  SafetyInv
  OBVIOUS
<1>1. TypeOK
  BY InitTypeOK
<1>2. ExIsDecoded /\ StagesAligned /\ FetchAligned
  BY DEF Init, ExIsDecoded, StagesAligned, FetchAligned, Aligned,
         IfIdBubble, IdExZero, NoRedirect, CsrReset
<1>3. BubblesAreInert /\ NoMisalignedAccess /\ ForwardsFinalValue
  BY DEF Init, BubblesAreInert, NoMisalignedAccess, MemMisaligned,
         ForwardsFinalValue, FwdSel, Produces, IfIdBubble, IdExZero,
         ExMemZero, MemWbZero, CtrlZero
<1>4. QED
  BY <1>1, <1>2, <1>3 DEF SafetyInv

LEMMA ResetSafety == SafetyInv /\ Reset => SafetyInv'
<1> SUFFICES ASSUME SafetyInv, Reset
             PROVE  SafetyInv'
  OBVIOUS
<1>1. TypeOK'
  BY ResetTypeOK DEF SafetyInv
<1>2. ExIsDecoded' /\ StagesAligned' /\ FetchAligned'
  BY DEF Reset, ExIsDecoded, StagesAligned, FetchAligned, Aligned,
         IfIdBubble, IdExZero, NoRedirect, CsrReset
<1>3. BubblesAreInert' /\ NoMisalignedAccess' /\ ForwardsFinalValue'
  BY DEF Reset, BubblesAreInert, NoMisalignedAccess, MemMisaligned,
         ForwardsFinalValue, FwdSel, Produces, IfIdBubble, IdExZero,
         ExMemZero, MemWbZero, CtrlZero
<1>4. QED
  BY <1>1, <1>2, <1>3 DEF SafetyInv

LEMMA SafetyInvariant == Spec => []SafetyInv
<1>1. SafetyInv /\ [Next]_vars => SafetyInv'
  <2> SUFFICES ASSUME SafetyInv, [Next]_vars
               PROVE  SafetyInv'
    OBVIOUS
  <2>1. CASE Tick
    BY <2>1, TickTypeOK, TickExIsDecoded, TickStagesAligned, TickFetchAligned,
       TickBubblesAreInert, TickNoMisalignedAccess, TickForwardsFinalValue
    DEF SafetyInv
  <2>2. CASE Reset
    BY <2>2, ResetSafety
  <2>3. CASE UNCHANGED vars
    BY <2>3 DEF vars, flops, SafetyInv, TypeOK, ExIsDecoded, StagesAligned,
                FetchAligned, BubblesAreInert, NoMisalignedAccess,
                MemMisaligned, Offset, ForwardsFinalValue
  <2>4. QED
    BY <2>1, <2>2, <2>3 DEF Next
<1>2. QED
  BY <1>1, InitSafety, PTL DEF Spec

(* No program can bring a misaligned address to the PC. *)
THEOREM FetchesAreAligned == Spec => []FetchAligned
  BY SafetyInvariant, PTL DEF SafetyInv

(* A bubble carries no side effect in any stage. *)
THEOREM BubblesStayInert == Spec => []BubblesAreInert
  BY SafetyInvariant, PTL DEF SafetyInv

(* A misaligned access is always stopped in EX. *)
THEOREM MemoryIsAligned == Spec => []NoMisalignedAccess
  BY SafetyInvariant, PTL DEF SafetyInv

(* The forwarding network never delivers a value that is not the one the   *)
(* producer will write back.                                               *)
THEOREM ForwardingIsFinal == Spec => []ForwardsFinalValue
  BY SafetyInvariant, PTL DEF SafetyInv

-----------------------------------------------------------------------------
(* The order of the stages: an instruction in ID or EX is followed by the  *)
(* next sequential one, and a redirect finds both of them empty.           *)
StagesInOrder ==
  /\ redirect.valid => ~ if_id.valid /\ ~ id_ex.valid
  /\ if_id.valid => pc = ToWord(if_id.pc + 4)
  /\ id_ex.valid => if_id.valid /\ if_id.pc = ToWord(id_ex.pc + 4)

(* How many edges EX can have been empty, by how far the refill has come.  *)
BubblesByRefill ==
  /\ bubbles \in 0 .. 3
  /\ redirect.valid => bubbles = 0
  /\ ~ redirect.valid /\ ~ id_ex.valid =>
       bubbles <= IF if_id.valid THEN 2 ELSE 1

FlowInv == SafetyInv /\ StagesInOrder /\ BubblesByRefill

(* An empty EX neither redirects nor stalls. *)
LEMMA EmptyEx ==
  ASSUME ~ id_ex.valid, NEW rs1, NEW rs2
  PROVE  /\ ~ Stall
         /\ Trap(rs1, rs2) = NoTrap
         /\ ~ ExRedirect(rs1, rs2, Trap(rs1, rs2)).valid
<1>1. Trap(rs1, rs2) = NoTrap
  BY DEF Trap
<1>2. ~ Stall
  BY DEF Stall, LoadUse
<1>3. /\ ~ Taken(rs1, rs2) /\ ~ MretInEx /\ ~ FenceiInEx
      /\ ~ NoTrap.valid
  BY DEF Taken, MretInEx, FenceiInEx, NoTrap
<1>4. ~ ExRedirect(rs1, rs2, NoTrap).valid
  BY <1>3 DEF ExRedirect
<1>5. QED
  BY <1>1, <1>2, <1>4

LEMMA TickFlow ==
  ASSUME TypeOK, StagesInOrder, Tick
  PROVE  StagesInOrder'
<1> DEFINE exr == ExRedirect(Rs1, Rs2, Trap(Rs1, Rs2))
<1>1. /\ pc' = PcNext
      /\ if_id' = IfIdNext(exr.valid \/ redirect.valid)
      /\ id_ex' = IdExNext(exr.valid)
      /\ redirect' = exr
  BY DEF Tick
<1>2. ~ id_ex.valid => ~ exr.valid /\ ~ Stall
  BY EmptyEx
<1> HIDE DEF exr
<1>3. exr.valid => ~ if_id'.valid /\ ~ id_ex'.valid
  BY <1>1 DEF IfIdNext, IdExNext, IfIdBubble, IdExZero
<1>4. CASE redirect.valid
  <2>1. ~ if_id'.valid /\ ~ id_ex'.valid
    BY <1>1, <1>4 DEF IfIdNext, IfIdBubble, IdExNext, IdExZero, IdExLoad,
                      StagesInOrder
  <2>2. QED
    BY <2>1, <1>1, <1>3 DEF StagesInOrder
<1>5. CASE ~ redirect.valid /\ ~ exr.valid /\ Stall
  <2>1. if_id' = if_id /\ pc' = pc /\ ~ id_ex'.valid
    BY <1>1, <1>5 DEF IfIdNext, PcNext, IdExNext, IdExZero
  <2>2. QED
    BY <2>1, <1>1, <1>5 DEF StagesInOrder
<1>6. CASE ~ redirect.valid /\ ~ exr.valid /\ ~ Stall
  <2>1. /\ if_id'.valid /\ if_id'.pc = pc
        /\ pc' = ToWord(pc + 4)
        /\ id_ex'.valid = if_id.valid /\ id_ex'.pc = if_id.pc
    BY <1>1, <1>6 DEF IfIdNext, PcNext, IdExNext, IdExLoad
  <2>2. QED
    BY <2>1, <1>1, <1>6 DEF StagesInOrder
<1>7. QED
  BY <1>1, <1>3, <1>4, <1>5, <1>6 DEF StagesInOrder

LEMMA TickBubbles ==
  ASSUME TypeOK, StagesInOrder, BubblesByRefill, LockstepTick
  PROVE  BubblesByRefill'
<1> DEFINE exr == ExRedirect(Rs1, Rs2, Trap(Rs1, Rs2))
<1>1. /\ if_id' = IfIdNext(exr.valid \/ redirect.valid)
      /\ id_ex' = IdExNext(exr.valid)
      /\ redirect' = exr
      /\ bubbles' = IF id_ex.valid THEN 0 ELSE bubbles + 1
  BY DEF LockstepTick, Tick, Observe
<1>2. ~ id_ex.valid => ~ exr.valid /\ ~ Stall
  BY EmptyEx
<1> HIDE DEF exr
<1>3. CASE id_ex.valid
  BY <1>1, <1>3 DEF BubblesByRefill
<1>4. CASE ~ id_ex.valid /\ redirect.valid
  BY <1>1, <1>2, <1>4 DEF BubblesByRefill
<1>5. CASE ~ id_ex.valid /\ ~ redirect.valid
  <2>1. id_ex'.valid = if_id.valid /\ if_id'.valid
    BY <1>1, <1>2, <1>5 DEF IfIdNext, IdExNext, IdExLoad
  <2>2. QED
    BY <2>1, <1>1, <1>2, <1>5 DEF BubblesByRefill
<1>6. QED
  BY <1>3, <1>4, <1>5

LEMMA InitFlow == LockstepInit => FlowInv
<1> SUFFICES ASSUME LockstepInit
             PROVE  FlowInv
  OBVIOUS
<1>1. SafetyInv
  BY InitSafety DEF LockstepInit
<1>2. QED
  BY <1>1 DEF LockstepInit, Init, FlowInv, StagesInOrder, BubblesByRefill,
              NoRedirect, IfIdBubble, IdExZero

LEMMA TickSafety == SafetyInv /\ Tick => SafetyInv'
  BY TickTypeOK, TickExIsDecoded, TickStagesAligned, TickFetchAligned,
     TickBubblesAreInert, TickNoMisalignedAccess, TickForwardsFinalValue
  DEF SafetyInv

LEMMA NextFlow == FlowInv /\ [LockstepNext]_allVars => FlowInv'
<1> SUFFICES ASSUME FlowInv, [LockstepNext]_allVars
             PROVE  FlowInv'
  OBVIOUS
<1>1. CASE LockstepTick
  <2>1. SafetyInv'
    BY <1>1, TickSafety DEF LockstepTick, FlowInv
  <2>2. TypeOK /\ StagesInOrder /\ BubblesByRefill
    BY DEF FlowInv, SafetyInv
  <2>3. StagesInOrder' /\ BubblesByRefill'
    BY <1>1, <2>2, TickFlow, TickBubbles DEF LockstepTick
  <2>4. QED
    BY <2>1, <2>3 DEF FlowInv
<1>2. CASE LockstepReset
  <2>1. SafetyInv'
    BY <1>2, ResetSafety DEF LockstepReset, FlowInv
  <2>2. QED
    BY <2>1, <1>2 DEF LockstepReset, Reset, FlowInv, StagesInOrder,
       BubblesByRefill, NoRedirect, IfIdBubble, IdExZero
<1>3. CASE UNCHANGED allVars
  <2>1. UNCHANGED vars /\ UNCHANGED bubbles
    BY <1>3 DEF allVars
  <2>2. SafetyInv'
    BY <2>1 DEF vars, flops, FlowInv, SafetyInv, TypeOK, ExIsDecoded,
       StagesAligned, FetchAligned, BubblesAreInert, NoMisalignedAccess,
       ForwardsFinalValue, MemMisaligned, Offset
  <2>3. QED
    BY <2>1, <2>2 DEF vars, flops, FlowInv, StagesInOrder, BubblesByRefill
<1>4. QED
  BY <1>1, <1>2, <1>3 DEF LockstepNext

LEMMA FlowInvariant == LockstepSpec => []FlowInv
  BY InitFlow, NextFlow, PTL DEF LockstepSpec

(* EX is never empty for more than three edges: a load-use stall and a     *)
(* redirect do not add up.                                                 *)
THEOREM AtMostThreeBubblesEver == LockstepSpec => []AtMostThreeBubbles
<1>1. FlowInv => AtMostThreeBubbles
  BY DEF FlowInv, BubblesByRefill, AtMostThreeBubbles
<1>2. QED
  BY <1>1, FlowInvariant, PTL

-----------------------------------------------------------------------------
(* ISA and Pipeline extend the same modules: an operator of the instance   *)
(* Arch that reads no state is the operator of its name here.              *)
LEMMA SameWords ==
  /\ Arch!WordSize = WordSize /\ Arch!HalfSize = HalfSize /\ Arch!Word = Word
  /\ \A x : /\ Arch!ToWord(x) = ToWord(x)
            /\ Arch!ToSigned(x) = ToSigned(x)
            /\ Arch!TopBit(x) = TopBit(x)
            /\ Arch!Aligned(x) = Aligned(x)
            /\ Arch!AlignDown(x) = AlignDown(x)
            /\ Arch!BitNot(x) = BitNot(x)
            /\ Arch!Pow2(x) = Pow2(x)
<1>1. Arch!HalfSize = HalfSize
  BY DEF Arch!HalfSize, HalfSize
<1>2. Arch!WordSize = WordSize
  BY <1>1 DEF Arch!WordSize, WordSize
<1>3. ASSUME NEW x
      PROVE  /\ Arch!ToWord(x) = ToWord(x)
             /\ Arch!ToSigned(x) = ToSigned(x)
             /\ Arch!TopBit(x) = TopBit(x)
             /\ Arch!BitNot(x) = BitNot(x)
  BY <1>2 DEF Arch!ToWord, ToWord, Arch!ToSigned, ToSigned, Arch!TopBit,
              TopBit, Arch!BitNot, BitNot
<1>4. ASSUME NEW x
      PROVE  /\ Arch!Aligned(x) = Aligned(x)
             /\ Arch!AlignDown(x) = AlignDown(x)
             /\ Arch!Pow2(x) = Pow2(x)
  BY DEF Arch!Aligned, Aligned, Arch!AlignDown, AlignDown, Arch!Pow2, Pow2
<1>5. Arch!Word = Word
  BY <1>2 DEF Arch!Word, Word
<1>6. QED
  BY <1>1, <1>2, <1>3, <1>4, <1>5

LEMMA SameBitOps ==
  ASSUME NEW a, NEW b
  PROVE  /\ Arch!BitAnd(a, b) = BitAnd(a, b)
         /\ Arch!BitOr(a, b) = BitOr(a, b)
         /\ Arch!BitXor(a, b) = BitXor(a, b)
<1>1. \A x, y : Arch!And1(x, y) = And1(x, y)
  BY DEF Arch!And1, And1
<1>2. \A x, y : Arch!And2(x, y) = And2(x, y)
  BY <1>1 DEF Arch!And2, And2
<1>3. \A x, y : Arch!And4(x, y) = And4(x, y)
  BY <1>2 DEF Arch!And4, And4
<1>4. \A x, y : Arch!And8(x, y) = And8(x, y)
  BY <1>3 DEF Arch!And8, And8
<1>5. \A x, y : Arch!And16(x, y) = And16(x, y)
  BY <1>4 DEF Arch!And16, And16
<1>6. \A x, y : Arch!And32(x, y) = And32(x, y)
  BY <1>5 DEF Arch!And32, And32
<1>7. QED
  BY <1>6, SameWords
  DEF Arch!BitAnd, BitAnd, Arch!BitOr, BitOr, Arch!BitXor, BitXor

LEMMA SameAlu ==
  ASSUME NEW op, NEW a, NEW b
  PROVE  /\ Arch!Alu(op, a, b) = Alu(op, a, b)
         /\ Arch!BranchTaken(op, a, b) = BranchTaken(op, a, b)
<1>1. Arch!Xlen = Xlen
  BY DEF Arch!Xlen, Xlen
<1>2. /\ Arch!Shamt(b) = Shamt(b)
      /\ \A p : Arch!Flag(p) = Flag(p)
  BY <1>1 DEF Arch!Shamt, Shamt, Arch!Flag, Flag
<1>3. /\ Arch!Eq(a, b) = Eq(a, b)
      /\ Arch!LtSigned(a, b) = LtSigned(a, b)
      /\ Arch!LtUnsigned(a, b) = LtUnsigned(a, b)
  BY SameWords DEF Arch!Eq, Eq, Arch!LtSigned, LtSigned,
                   Arch!LtUnsigned, LtUnsigned
<1>4. Arch!BranchTaken(op, a, b) = BranchTaken(op, a, b)
  BY <1>3, Zenon DEF Arch!BranchTaken, BranchTaken
<1>5. Arch!Alu(op, a, b) = Alu(op, a, b)
  BY <1>2, <1>3, SameWords, SameBitOps, Zenon DEF Arch!Alu, Alu
<1>6. QED
  BY <1>4, <1>5

LEMMA SameLanes ==
  /\ \A off, size, sgn, raw :
       Arch!LoadData(off, size, sgn, raw) = LoadData(off, size, sgn, raw)
  /\ \A off, size : Arch!ByteEnable(off, size) = ByteEnable(off, size)
  /\ \A size, data : Arch!StoreAligned(size, data) = StoreAligned(size, data)
  /\ \A old, be, data :
       Arch!WriteLanes(old, be, data) = WriteLanes(old, be, data)
<1>1. \A w, k : /\ Arch!ByteOf(w, k) = ByteOf(w, k)
                /\ Arch!HalfOf(w, k) = HalfOf(w, k)
  BY SameWords DEF Arch!ByteOf, ByteOf, Arch!HalfOf, HalfOf
<1>2. \A a, b, c, d : Arch!FromBytes(a, b, c, d) = FromBytes(a, b, c, d)
  BY DEF Arch!FromBytes, FromBytes
<1>3. ASSUME NEW off, NEW size
      PROVE  Arch!ByteEnable(off, size) = ByteEnable(off, size)
  BY DEF Arch!ByteEnable, ByteEnable, Arch!Lane, Lane
<1>4. ASSUME NEW size, NEW data
      PROVE  Arch!StoreAligned(size, data) = StoreAligned(size, data)
  BY <1>1, <1>2, SameWords, Zenon DEF Arch!StoreAligned, StoreAligned
<1>5. ASSUME NEW old, NEW be, NEW data
      PROVE  Arch!WriteLanes(old, be, data) = WriteLanes(old, be, data)
  BY <1>1, <1>2, Zenon DEF Arch!WriteLanes, WriteLanes
<1>6. ASSUME NEW off, NEW size, NEW sgn, NEW raw
      PROVE  Arch!LoadData(off, size, sgn, raw) = LoadData(off, size, sgn, raw)
  BY <1>1, SameWords, Zenon DEF Arch!LoadData, LoadData
<1>7. QED
  BY <1>3, <1>4, <1>5, <1>6

LEMMA SameCsrs ==
  /\ Arch!Implemented = Implemented
  /\ Arch!Counter = Counter
  /\ Arch!CsrReset = CsrReset
  /\ \A w : /\ Arch!MaskMie(w) = MaskMie(w)
            /\ Arch!Bit3(w) = Bit3(w)
            /\ Arch!Bit7(w) = Bit7(w)
  /\ \A n : Arch!Increment(n) = Increment(n)
  /\ \A c, a : Arch!CsrRdata(c, a, Arch!NoIrq) = CsrRdata(c, a, NoIrq)
<1>1. Arch!Implemented = Implemented
  BY DEF Arch!Implemented, Implemented, Arch!InfoCsrs, InfoCsrs,
     Arch!CSR_MSTATUS, CSR_MSTATUS, Arch!CSR_MISA, CSR_MISA,
     Arch!CSR_MIE, CSR_MIE, Arch!CSR_MTVEC, CSR_MTVEC,
     Arch!CSR_MSTATUSH, CSR_MSTATUSH, Arch!CSR_MSCRATCH, CSR_MSCRATCH,
     Arch!CSR_MEPC, CSR_MEPC, Arch!CSR_MCAUSE, CSR_MCAUSE,
     Arch!CSR_MTVAL, CSR_MTVAL, Arch!CSR_MIP, CSR_MIP,
     Arch!CSR_MCYCLE, CSR_MCYCLE, Arch!CSR_MCYCLEH, CSR_MCYCLEH,
     Arch!CSR_MINSTRET, CSR_MINSTRET, Arch!CSR_MINSTRETH, CSR_MINSTRETH
<1>2. Arch!Counter = Counter
  BY DEF Arch!Counter, Counter, Arch!Half, Half
<1>3. Arch!CsrReset = CsrReset
  BY DEF Arch!CsrReset, CsrReset
<1>4. ASSUME NEW w
      PROVE  /\ Arch!MaskMie(w) = MaskMie(w)
             /\ Arch!Bit3(w) = Bit3(w)
             /\ Arch!Bit7(w) = Bit7(w)
  BY SameBitOps DEF Arch!MaskMie, MaskMie, Arch!MieWritable, MieWritable,
     Arch!Bit3, Bit3, Arch!Bit7, Bit7
<1>5. ASSUME NEW n
      PROVE  Arch!Increment(n) = Increment(n)
  BY DEF Arch!Increment, Increment
<1>6. ASSUME NEW c, NEW a
      PROVE  Arch!CsrRdata(c, a, Arch!NoIrq) = CsrRdata(c, a, NoIrq)
  <2>1. Arch!NoIrq = NoIrq /\ Arch!Misa = Misa
    BY SameWords DEF Arch!NoIrq, NoIrq, Arch!Misa, Misa
  <2>2. \A p, n : Arch!Bit(p, n) = Bit(p, n)
    BY DEF Arch!Bit, Bit
  <2>3. \A irq : Arch!Mip(irq) = Mip(irq)
    BY <2>2, SameWords, Zenon DEF Arch!Mip, Mip
  <2>4. Arch!Mstatus(c) = Mstatus(c)
    BY <2>2, SameWords DEF Arch!Mstatus, Mstatus
  <2>5. QED
    BY <2>1, <2>3, <2>4, Zenon DEF Arch!CsrRdata, CsrRdata,
     Arch!CSR_MSTATUS, CSR_MSTATUS, Arch!CSR_MISA, CSR_MISA,
     Arch!CSR_MIE, CSR_MIE, Arch!CSR_MTVEC, CSR_MTVEC,
     Arch!CSR_MSCRATCH, CSR_MSCRATCH,
     Arch!CSR_MEPC, CSR_MEPC, Arch!CSR_MCAUSE, CSR_MCAUSE,
     Arch!CSR_MTVAL, CSR_MTVAL, Arch!CSR_MIP, CSR_MIP,
     Arch!CSR_MCYCLE, CSR_MCYCLE, Arch!CSR_MCYCLEH, CSR_MCYCLEH,
     Arch!CSR_MINSTRET, CSR_MINSTRET, Arch!CSR_MINSTRETH, CSR_MINSTRETH
<1>7. QED
  BY <1>1, <1>2, <1>3, <1>4, <1>5, <1>6

LEMMA SameDecode ==
  ASSUME NEW i
  PROVE  /\ Arch!Imm12(i) = Imm12(i)
         /\ Arch!ImmI(i) = ImmI(i) /\ Arch!ImmS(i) = ImmS(i)
         /\ Arch!ImmB(i) = ImmB(i) /\ Arch!ImmU(i) = ImmU(i)
         /\ Arch!ImmJ(i) = ImmJ(i)
         /\ Arch!IsCsrForm(i) = IsCsrForm(i)
         /\ Arch!Illegal(i) = Illegal(i)
         /\ Arch!Ecall(i) = Ecall(i) /\ Arch!Ebreak(i) = Ebreak(i)
         /\ Arch!Mret(i) = Mret(i)
         /\ Arch!ArithOp(i) = ArithOp(i)
         /\ Arch!BranchOpOf(i) = BranchOpOf(i)
         /\ Arch!MemSizeOf(i) = MemSizeOf(i)
         /\ Arch!CsrOpOf(i) = CsrOpOf(i)
<1>1. Arch!Imm12(i) = Imm12(i) /\ Arch!SignBit(i) = SignBit(i)
  BY DEF Arch!Imm12, Imm12, Arch!SignBit, SignBit
<1>2. /\ Arch!ImmI(i) = ImmI(i) /\ Arch!ImmS(i) = ImmS(i)
      /\ Arch!ImmB(i) = ImmB(i) /\ Arch!ImmU(i) = ImmU(i)
      /\ Arch!ImmJ(i) = ImmJ(i)
  BY <1>1, SMT DEF Arch!ImmI, ImmI, Arch!ImmS, ImmS, Arch!ImmB, ImmB,
                     Arch!ImmU, ImmU, Arch!ImmJ, ImmJ
<1>3. \A n : Arch!Privileged(i, n) = Privileged(i, n)
  BY <1>1, Zenon DEF Arch!Privileged, Privileged, Arch!IsPrivileged, IsPrivileged
<1>4. /\ Arch!IsCsrForm(i) = IsCsrForm(i)
      /\ Arch!Ecall(i) = Ecall(i) /\ Arch!Ebreak(i) = Ebreak(i)
      /\ Arch!Mret(i) = Mret(i) /\ Arch!Wfi(i) = Wfi(i)
  BY <1>3, Zenon DEF Arch!IsCsrForm, IsCsrForm, Arch!Ecall, Ecall,
     Arch!Ebreak, Ebreak, Arch!Mret, Mret, Arch!Wfi, Wfi
<1>5. /\ Arch!ArithShift(i) = ArithShift(i)
      /\ Arch!ShamtValid(i) = ShamtValid(i)
  BY DEF Arch!ArithShift, ArithShift, Arch!ShamtValid, ShamtValid
<1>6. Arch!Illegal(i) = Illegal(i)
  BY <1>4, <1>5, Zenon DEF Arch!Illegal, Illegal
<1>7. /\ Arch!ArithOp(i) = ArithOp(i)
      /\ Arch!BranchOpOf(i) = BranchOpOf(i)
      /\ Arch!MemSizeOf(i) = MemSizeOf(i)
      /\ Arch!CsrOpOf(i) = CsrOpOf(i)
  <2>1. Arch!ArithOp(i) = ArithOp(i)
    BY <1>5, SMT DEF Arch!ArithOp, ArithOp
  <2>2. Arch!BranchOpOf(i) = BranchOpOf(i)
    BY SMT DEF Arch!BranchOpOf, BranchOpOf
  <2>3. Arch!MemSizeOf(i) = MemSizeOf(i)
    BY SMT DEF Arch!MemSizeOf, MemSizeOf
  <2>4. Arch!CsrOpOf(i) = CsrOpOf(i)
    BY <1>4, SMT DEF Arch!CsrOpOf, CsrOpOf
  <2>5. QED
    BY <2>1, <2>2, <2>3, <2>4
<1>8. QED
  BY <1>1, <1>2, <1>4, <1>6, <1>7

-----------------------------------------------------------------------------
(* The instruction in EX is the decode of its word, and the operands it    *)
(* latched in ID are those the register file holds now.                    *)
ExHoldsInstr ==
  id_ex.valid =>
    LET i == InstrOf[id_ex.instr]
    IN  /\ id_ex.ctrl = Decode(i) /\ id_ex.imm = Immediate(i)
        /\ id_ex.rs1_data = RegRead(i.rs1)
        /\ id_ex.rs2_data = RegRead(i.rs2)

(* What has been fetched, or can be, is among the words a fetch of its     *)
(* address may return.                                                     *)
FetchesSeen ==
  /\ \A k \in TcmIndex : mem[k] \in seen[k] /\ MemNext[k] \in seen[k]
  /\ if_id.valid => if_id.instr \in seen[Index(if_id.pc)]
  /\ id_ex.valid => id_ex.instr \in seen[Index(id_ex.pc)]

(* The record expected in MEM is what ex_mem will retire. *)
MemMatchesISA ==
  LET r == expected.in_mem
  IN  /\ ex_mem.valid = r.valid
      /\ r.valid =>
           /\ ex_mem.pc = r.pc
           /\ (IF ex_mem.ctrl.reg_write THEN ex_mem.ctrl.rd_addr ELSE 0) = r.rd
           /\ r.rd # 0 => MemResult = r.value
           /\ ex_mem.ctrl.mem_write = r.stores
           /\ r.stores =>
                ex_mem.alu_result = r.addr /\ ex_mem.rs2_data = r.data

LockstepInv ==
  FlowInv /\ ExHoldsInstr /\ FetchesSeen /\ MemMatchesISA /\ TraceMatchesISA

-----------------------------------------------------------------------------
(* Registers.  The architectural value of a register is the youngest one   *)
(* among the stages past EX, which is what EX reads.                       *)
LEMMA WbDataNext ==
  ASSUME Tick
  PROVE  /\ WbData' = MemResult
         /\ Produces(mem_wb)' = Produces(ex_mem)
         /\ mem_wb'.ctrl.rd_addr = ex_mem.ctrl.rd_addr
<1>1. mem_wb' = MemWbNext
  BY DEF Tick
<1>2. /\ mem_wb'.valid = ex_mem.valid
      /\ mem_wb'.ctrl = ex_mem.ctrl
      /\ mem_wb'.alu_result = ex_mem.alu_result
      /\ mem_wb'.mem_data = LoadedData
      /\ mem_wb'.pc_plus4 = ToWord(ex_mem.pc + 4)
  BY <1>1 DEF MemWbNext
<1>3. WbData' = MemResult
  BY <1>2 DEF WbData, MemResult
<1>4. QED
  BY <1>2, <1>3 DEF Produces

LEMMA RegsNextAt ==
  ASSUME TypeOK, Tick, NEW r \in 1 .. 31
  PROVE  regs'[r] = IF Produces(mem_wb) /\ mem_wb.ctrl.rd_addr = r
                      THEN WbData ELSE regs[r]
<1>1. regs' = RegsNext /\ regs \in [1 .. 31 -> Word]
  BY DEF Tick, TypeOK
<1>2. mem_wb.ctrl.rd_addr \in 0 .. 31
  BY DEF TypeOK, MemWbType, CtrlType, RegIdx
<1>3. QED
  BY <1>1, <1>2 DEF RegsNext, WbWe, Produces

LEMMA ArchRegNext ==
  ASSUME TypeOK, Tick, NEW r \in 1 .. 31
  PROVE  ArchReg(r)' = IF (Produces(ex_mem) /\ ex_mem.ctrl.rd_addr = r)'
                         THEN MemResult' ELSE ArchReg(r)
  BY WbDataNext, RegsNextAt DEF ArchReg

LEMMA IdOperandIsNext ==
  ASSUME TypeOK, Tick, NEW r \in RegIdx
  PROVE  IdOperand(r) = IF r = 0 THEN 0 ELSE regs'[r]
<1>1. CASE r = 0
  BY <1>1 DEF IdOperand, RegRead, FwdId, Produces
<1>2. CASE r # 0
  <2>1. r \in 1 .. 31
    BY <1>2 DEF RegIdx
  <2>2. regs'[r] = IF Produces(mem_wb) /\ mem_wb.ctrl.rd_addr = r
                     THEN WbData ELSE regs[r]
    BY <2>1, RegsNextAt
  <2>3. QED
    BY <1>2, <2>2 DEF IdOperand, RegRead, FwdId
<1>3. QED
  BY <1>1, <1>2

LEMMA TickExHoldsInstr == TypeOK /\ Tick => ExHoldsInstr'
<1> SUFFICES ASSUME TypeOK, Tick, id_ex'.valid
             PROVE  LET i == InstrOf[id_ex'.instr]
                    IN  /\ id_ex'.ctrl = Decode(i) /\ id_ex'.imm = Immediate(i)
                        /\ id_ex'.rs1_data = IF i.rs1 = 0 THEN 0 ELSE regs'[i.rs1]
                        /\ id_ex'.rs2_data = IF i.rs2 = 0 THEN 0 ELSE regs'[i.rs2]
  BY DEF ExHoldsInstr, RegRead
<1> DEFINE i == InstrOf[if_id.instr]
<1>1. id_ex' = IdExLoad
  BY DEF Tick, IdExNext, IdExZero
<1>2. /\ id_ex'.instr = if_id.instr
      /\ id_ex'.ctrl = Decode(i)
      /\ id_ex'.imm = Immediate(i)
      /\ id_ex'.rs1_data = IdOperand(Decode(i).rs1_addr)
      /\ id_ex'.rs2_data = IdOperand(Decode(i).rs2_addr)
  BY <1>1 DEF IdExLoad
<1>3. Decode(i).rs1_addr = i.rs1 /\ Decode(i).rs2_addr = i.rs2
  BY DEF Decode
<1>4. i \in Instr
  BY FetchedInstr DEF TypeOK, IfIdType
<1>5. i.rs1 \in RegIdx /\ i.rs2 \in RegIdx
  BY <1>4 DEF Instr
<1>6. i = InstrOf[id_ex'.instr]
  BY <1>2
<1> HIDE DEF i
<1>7. /\ IdOperand(i.rs1) = IF i.rs1 = 0 THEN 0 ELSE regs'[i.rs1]
      /\ IdOperand(i.rs2) = IF i.rs2 = 0 THEN 0 ELSE regs'[i.rs2]
  BY <1>5, IdOperandIsNext
<1>8. QED
  BY <1>2, <1>3, <1>6, <1>7

(* An operand after forwarding is the architectural value. *)
LEMMA ForwardedValue ==
  ASSUME NEW used, used, NEW r \in RegIdx,
         FwdSel(used, r, ex_mem, mem_wb) = "MEM" => ex_mem.ctrl.wb_sel = "ALU"
  PROVE  Operand(FwdSel(used, r, ex_mem, mem_wb), RegRead(r)) = Arch!Reg(r)
<1>1. CASE r = 0
  <2>1. FwdSel(used, r, ex_mem, mem_wb) = "NONE"
    BY <1>1, SMT DEF FwdSel, Produces
  <2>2. QED
    BY <1>1, <2>1 DEF Operand, RegRead, Arch!Reg
<1>2. CASE r # 0
  <2>1. Arch!Reg(r) = ArchReg(r)
    BY <1>2 DEF Arch!Reg, RegIdx
  <2>2. RegRead(r) = regs[r]
    BY <1>2 DEF RegRead
  <2>3. CASE Produces(ex_mem) /\ ex_mem.ctrl.rd_addr = r
    <3>1. FwdSel(used, r, ex_mem, mem_wb) = "MEM"
      BY <2>3 DEF FwdSel
    <3>2. ArchReg(r) = ex_mem.alu_result
      BY <2>3, <3>1 DEF ArchReg, MemResult
    <3>3. QED
      BY <2>1, <3>1, <3>2 DEF Operand
  <2>4. CASE ~ (Produces(ex_mem) /\ ex_mem.ctrl.rd_addr = r)
    BY <2>1, <2>2, <2>4, SMT DEF FwdSel, Operand, ArchReg
  <2>5. QED
    BY <2>3, <2>4
<1>3. QED
  BY <1>1, <1>2

LEMMA OperandsAreArchitectural ==
  ASSUME TypeOK, ForwardsFinalValue, ExHoldsInstr, id_ex.valid,
         NEW i, i = InstrOf[id_ex.instr]
  PROVE  /\ Decode(i).rs1_used => Rs1 = Arch!Reg(i.rs1)
         /\ Decode(i).rs2_used => Rs2 = Arch!Reg(i.rs2)
<1>1. /\ id_ex.ctrl = Decode(i)
      /\ id_ex.rs1_data = RegRead(i.rs1) /\ id_ex.rs2_data = RegRead(i.rs2)
  BY DEF ExHoldsInstr
<1>2. i \in Instr
  BY FetchedInstr DEF TypeOK, IdExType
<1>3. i.rs1 \in RegIdx /\ i.rs2 \in RegIdx
  BY <1>2 DEF Instr
<1>4. Decode(i).rs1_addr = i.rs1 /\ Decode(i).rs2_addr = i.rs2
  BY DEF Decode
<1> DEFINE c == Decode(i)
<1> HIDE DEF c
<1>5. /\ FwdSel(c.rs1_used, i.rs1, ex_mem, mem_wb) = "MEM"
           => ex_mem.ctrl.wb_sel = "ALU"
      /\ FwdSel(c.rs2_used, i.rs2, ex_mem, mem_wb) = "MEM"
           => ex_mem.ctrl.wb_sel = "ALU"
  BY <1>1, <1>4 DEF ForwardsFinalValue, c
<1>6. /\ Rs1 = Operand(FwdSel(c.rs1_used, i.rs1, ex_mem, mem_wb), RegRead(i.rs1))
      /\ Rs2 = Operand(FwdSel(c.rs2_used, i.rs2, ex_mem, mem_wb), RegRead(i.rs2))
  BY <1>1, <1>4 DEF Rs1, Rs2, c
<1>7. c.rs1_used => Rs1 = Arch!Reg(i.rs1)
  BY <1>3, <1>5, <1>6, ForwardedValue
<1>8. c.rs2_used => Rs2 = Arch!Reg(i.rs2)
  BY <1>3, <1>5, <1>6, ForwardedValue
<1>9. QED
  BY <1>7, <1>8 DEF c

-----------------------------------------------------------------------------
(* EX: the instruction i leaves it at the next edge.                       *)
InEx(i) == /\ SafetyInv /\ ExHoldsInstr
           /\ id_ex.valid /\ i = InstrOf[id_ex.instr]

LEMMA ToWordAdd ==
  ASSUME NEW a \in Int, NEW x \in Int
  PROVE  ToWord(a + ToWord(x)) = ToWord(a + x)
  BY WordSizeValues DEF ToWord

LEMMA ImmediateOf ==
  ASSUME NEW i
  PROVE  /\ i.opcode \in {"OPIMM", "JALR", "LOAD", "MISCMEM", "SYSTEM"}
              => Immediate(i) = ImmI(i)
         /\ i.opcode = "STORE"  => Immediate(i) = ImmS(i)
         /\ i.opcode = "BRANCH" => Immediate(i) = ImmB(i)
         /\ i.opcode \in {"LUI", "AUIPC"} => Immediate(i) = ImmU(i)
         /\ i.opcode = "JAL"    => Immediate(i) = ImmJ(i)
<1>1. /\ i.opcode \in {"OPIMM", "JALR", "LOAD", "MISCMEM", "SYSTEM"}
           => FormatOf(i) = "I"
      /\ i.opcode = "STORE"  => FormatOf(i) = "S"
      /\ i.opcode = "BRANCH" => FormatOf(i) = "B"
      /\ i.opcode \in {"LUI", "AUIPC"} => FormatOf(i) = "U"
      /\ i.opcode = "JAL"    => FormatOf(i) = "J"
  BY DEF FormatOf
<1>2. /\ ImmGen(i, "I") = ImmI(i) /\ ImmGen(i, "S") = ImmS(i)
      /\ ImmGen(i, "B") = ImmB(i) /\ ImmGen(i, "U") = ImmU(i)
      /\ ImmGen(i, "J") = ImmJ(i)
  BY DEF ImmGen
<1>3. QED
  BY <1>1, <1>2, Zenon DEF Immediate

LEMMA InExFacts ==
  ASSUME NEW i, InEx(i)
  PROVE  /\ i \in Instr /\ id_ex.instr \in Word
         /\ id_ex.ctrl = Decode(i) /\ id_ex.imm = Immediate(i)
         /\ Immediate(i) \in Int
         /\ id_ex.pc \in Word /\ Aligned(id_ex.pc)
         /\ ArchPc = id_ex.pc
         /\ Rs1 \in Word /\ Rs2 \in Word
         /\ Decode(i).rs1_used => Rs1 = Arch!Reg(i.rs1)
         /\ Decode(i).rs2_used => Rs2 = Arch!Reg(i.rs2)
<1>1. TypeOK /\ ForwardsFinalValue /\ StagesAligned
  BY DEF InEx, SafetyInv
<1>2. i \in Instr /\ id_ex.instr \in Word
  BY <1>1, FetchedInstr DEF InEx, TypeOK, IdExType
<1>3. id_ex.ctrl = Decode(i) /\ id_ex.imm = Immediate(i)
  BY DEF InEx, ExHoldsInstr
<1>4. id_ex.pc \in Word /\ Aligned(id_ex.pc) /\ ArchPc = id_ex.pc
  BY <1>1 DEF InEx, TypeOK, IdExType, StagesAligned, ArchPc
<1>5. Rs1 \in Word /\ Rs2 \in Word
  BY <1>1, OperandType
<1>6. /\ Decode(i).rs1_used => Rs1 = Arch!Reg(i.rs1)
      /\ Decode(i).rs2_used => Rs2 = Arch!Reg(i.rs2)
  BY <1>1, OperandsAreArchitectural DEF InEx
<1>7. Immediate(i) \in Int
  BY <1>2, ImmediateType
<1>8. QED
  BY <1>2, <1>3, <1>4, <1>5, <1>6, <1>7

(* What the decoder says of an instruction, by its opcode. *)
LEMMA DecodeUses ==
  ASSUME NEW i
  PROVE  /\ i.opcode \in {"OP", "OPIMM", "JALR", "BRANCH", "LOAD", "STORE"}
              => Decode(i).rs1_used
         /\ i.opcode \in {"OP", "BRANCH", "STORE"} => Decode(i).rs2_used
         /\ IsCsrForm(i) /\ i.funct3 < 4 => Decode(i).rs1_used
         /\ Decode(i).alu_src_a_pc = (i.opcode = "AUIPC")
         /\ Decode(i).alu_src_b_imm =
              (i.opcode \in {"OPIMM", "LUI", "AUIPC", "JALR", "LOAD", "STORE"})
         /\ Decode(i).is_branch = (i.opcode = "BRANCH")
         /\ Decode(i).is_jal = (i.opcode = "JAL")
         /\ Decode(i).is_jalr = (i.opcode = "JALR")
         /\ Decode(i).branch_op = BranchOpOf(i)
         /\ Decode(i).alu_op = AluOpOf(i)
  BY DEF Decode

LEMMA TransferIsArchitectural ==
  ASSUME NEW i, InEx(i)
  PROVE  /\ Taken(Rs1, Rs2) = Arch!Transfers(i)
         /\ Taken(Rs1, Rs2) => Target(Rs1) = Arch!Destination(i)
<1>1. /\ id_ex.valid /\ id_ex.ctrl = Decode(i) /\ id_ex.imm = Immediate(i)
      /\ ArchPc = id_ex.pc
  BY InExFacts DEF InEx
<1>2. CASE i.opcode = "BRANCH"
  <2>1. AluA(Rs1) = Arch!Reg(i.rs1) /\ AluB(Rs2) = Arch!Reg(i.rs2)
    BY <1>1, <1>2, InExFacts, DecodeUses DEF AluA, AluB
  <2>2. id_ex.ctrl.branch_op = BranchOpOf(i) /\ id_ex.ctrl.is_branch
        /\ ~ id_ex.ctrl.is_jal /\ ~ id_ex.ctrl.is_jalr
    BY <1>1, <1>2, DecodeUses
  <2> DEFINE taken == BranchTaken(BranchOpOf(i), Arch!Reg(i.rs1), Arch!Reg(i.rs2))
  <2>3. Taken(Rs1, Rs2) = taken
    <3>1. BranchTaken(id_ex.ctrl.branch_op, AluA(Rs1), AluB(Rs2)) = taken
      BY <2>1, <2>2
    <3>2. taken \in BOOLEAN
      BY BranchTakenType
    <3> HIDE DEF taken
    <3>3. QED
      BY <1>1, <2>2, <3>1, <3>2 DEF Taken
  <2>4. Arch!Transfers(i) = taken
    <3>1. Arch!BranchTaken(Arch!BranchOpOf(i), Arch!Reg(i.rs1), Arch!Reg(i.rs2))
            = taken
      BY SameAlu, SameDecode, Zenon
    <3>2. taken \in BOOLEAN
      BY BranchTakenType
    <3> HIDE DEF taken
    <3>3. QED
      BY <1>2, <3>1, <3>2 DEF Arch!Transfers
  <2>5. Target(Rs1) = ToWord(id_ex.pc + ImmB(i))
    BY <1>1, <1>2, <2>2, ImmediateOf, Zenon DEF Target
  <2>6. Arch!Destination(i) = Arch!ToWord(ArchPc + Arch!ImmB(i))
    BY <1>2, SMT DEF Arch!Destination
  <2>7. QED
    BY <1>1, <2>3, <2>4, <2>5, <2>6, SameWords, SameDecode, Zenon
<1>3. CASE i.opcode = "JALR"
  <2>1. id_ex.ctrl.is_jalr /\ Rs1 = Arch!Reg(i.rs1)
    BY <1>1, <1>3, InExFacts, DecodeUses
  <2>2. Taken(Rs1, Rs2) /\ Arch!Transfers(i)
    BY <1>1, <1>3, <2>1 DEF Taken, Arch!Transfers
  <2>3. Target(Rs1) = ClearBit0(ToWord(Arch!Reg(i.rs1) + ImmI(i)))
    BY <1>1, <1>3, <2>1, ImmediateOf, Zenon DEF Target
  <2>4. Arch!Destination(i)
          = ClearBit0(Arch!ToWord(Arch!Reg(i.rs1) + Arch!ImmI(i)))
    BY <1>3 DEF Arch!Destination, ClearBit0
  <2>5. QED
    BY <2>2, <2>3, <2>4, SameWords, SameDecode, Zenon
<1>4. CASE i.opcode = "JAL"
  <2>1. id_ex.ctrl.is_jal /\ ~ id_ex.ctrl.is_jalr
    BY <1>1, <1>4, DecodeUses
  <2>2. Taken(Rs1, Rs2) /\ Arch!Transfers(i)
    BY <1>1, <1>4, <2>1 DEF Taken, Arch!Transfers
  <2>3. Target(Rs1) = ToWord(id_ex.pc + ImmJ(i))
    BY <1>1, <1>4, <2>1, ImmediateOf, Zenon DEF Target
  <2>4. Arch!Destination(i) = Arch!ToWord(ArchPc + Arch!ImmJ(i))
    BY <1>4 DEF Arch!Destination
  <2>5. QED
    BY <1>1, <2>2, <2>3, <2>4, SameWords, SameDecode, Zenon
<1>5. CASE i.opcode \notin {"BRANCH", "JALR", "JAL"}
  <2>1. /\ ~ id_ex.ctrl.is_branch /\ ~ id_ex.ctrl.is_jal
        /\ ~ id_ex.ctrl.is_jalr
    BY <1>1, <1>5, DecodeUses
  <2>2. ~ Taken(Rs1, Rs2) /\ ~ Arch!Transfers(i)
    BY <1>5, <2>1 DEF Taken, Arch!Transfers
  <2>3. Taken(Rs1, Rs2) \in BOOLEAN /\ Arch!Transfers(i) \in BOOLEAN
    BY Zenon DEF Taken, Arch!Transfers
  <2>4. QED
    BY <2>2, <2>3
<1>6. QED
  BY <1>2, <1>3, <1>4, <1>5

LEMMA FieldBounds ==
  ASSUME NEW i \in Instr
  PROVE  /\ Imm12(i) \in 0 .. 4095
         /\ ImmI(i) \in Int /\ ImmI(i) % 4096 = Imm12(i)
<1>1. i.funct7 \in 0 .. 127 /\ i.rs2 \in 0 .. 31
  BY DEF Instr, RegIdx
<1> DEFINE f == i.funct7
           r == i.rs2
<1>2. Imm12(i) = f * 32 + r /\ SignBit(i) = f \div 64
  BY DEF Imm12, SignBit
<1> HIDE DEF f, r
<1>3. Imm12(i) \in 0 .. 4095 /\ SignBit(i) \in Int
  <2>1. f \in 0 .. 127 /\ r \in 0 .. 31
    BY <1>1 DEF f, r
  <2>2. f * 32 + r \in 0 .. 4095 /\ f \div 64 \in Int
    BY <2>1
  <2>3. QED
    BY <1>2, <2>2
<1> DEFINE x == Imm12(i)
           s == SignBit(i)
<1>4. ImmI(i) = x - 4096 * s
  BY DEF ImmI
<1> HIDE DEF x, s
<1>5. x \in 0 .. 4095 /\ s \in Int
  BY <1>3 DEF x, s
<1>6. x - 4096 * s \in Int /\ (x - 4096 * s) % 4096 = x
  BY <1>5
<1>7. QED
  BY <1>4, <1>5, <1>6 DEF x

LEMMA CsrOpFacts ==
  ASSUME NEW i \in Instr
  PROVE  /\ (CsrOpOf(i) # "NONE") = IsCsrForm(i)
         /\ IsCsrForm(i) => (CsrOpOf(i) = "RW") = (i.funct3 \in {1, 5})
         /\ IsCsrForm(i) => i.opcode = "SYSTEM"
         /\ Decode(i).csr_op = CsrOpOf(i)
         /\ Decode(i).csr_write = Arch!WritesCsr(i)
<1>1. (CsrOpOf(i) # "NONE") = IsCsrForm(i)
  BY SMT DEF CsrOpOf, IsCsrForm
<1>2. IsCsrForm(i) => (CsrOpOf(i) = "RW") = (i.funct3 \in {1, 5})
  BY SMT DEF CsrOpOf
<1>3. Decode(i).csr_op = CsrOpOf(i)
  BY DEF Decode
<1>4. Decode(i).csr_write = (IsCsrForm(i) /\ (i.funct3 \in {1, 5} \/ i.rs1 # 0))
  BY DEF Decode
<1>5. Arch!WritesCsr(i) = (IsCsrForm(i) /\ (CsrOpOf(i) = "RW" \/ i.rs1 # 0))
  BY SameDecode, SMT DEF Arch!WritesCsr
<1>6. Decode(i).csr_write = Arch!WritesCsr(i)
  BY <1>2, <1>4, <1>5
<1>7. QED
  BY <1>1, <1>2, <1>3, <1>6 DEF IsCsrForm

LEMMA CsrFaultIsArchitectural ==
  ASSUME NEW i, InEx(i)
  PROVE  /\ IsCsrForm(i) => CsrAddr = Imm12(i)
         /\ CsrFault = Arch!BadCsr(i)
<1>1. /\ id_ex.valid /\ id_ex.ctrl = Decode(i) /\ id_ex.imm = Immediate(i)
      /\ i \in Instr
  BY InExFacts DEF InEx
<1>2. IsCsrForm(i) => CsrAddr = Imm12(i)
  <2>1. IsCsrForm(i) => i.opcode = "SYSTEM"
    BY <1>1, CsrOpFacts
  <2>2. IsCsrForm(i) => id_ex.imm = ImmI(i)
    BY <1>1, <2>1, ImmediateOf
  <2>3. ImmI(i) % 4096 = Imm12(i)
    BY <1>1, FieldBounds
  <2> DEFINE m == ImmI(i)
  <2>4. id_ex.imm = m => CsrAddr = m % 4096
    BY DEF CsrAddr
  <2> HIDE DEF m
  <2>5. QED
    BY <2>2, <2>3, <2>4 DEF m
<1>3. CASE ~ IsCsrForm(i)
  <2>1. Arch!BadCsr(i) = FALSE
    <3>1. ~ Arch!BadCsr(i)
      BY <1>3, SameDecode DEF Arch!BadCsr
    <3>2. Arch!BadCsr(i) \in BOOLEAN
      BY SMT DEF Arch!BadCsr
    <3>3. QED
      BY <3>1, <3>2
  <2>2. CsrFault = FALSE
    <3>1. id_ex.ctrl.csr_op = "NONE"
      BY <1>1, <1>3, CsrOpFacts
    <3>2. ~ CsrFault /\ CsrFault \in BOOLEAN
      BY <3>1, Zenon DEF CsrFault, CsrIllegal
    <3>3. QED
      BY <3>2
  <2>3. QED
    BY <1>2, <2>1, <2>2
<1>4. CASE IsCsrForm(i)
  <2> DEFINE a == Imm12(i)
             w == Arch!WritesCsr(i)
  <2>1. w \in BOOLEAN
    BY Zenon DEF Arch!WritesCsr
  <2>2. CsrWriteReq = w
    BY <1>1, <2>1, CsrOpFacts DEF CsrWriteReq
  <2>3. id_ex.ctrl.csr_op # "NONE"
    BY <1>1, <1>4, CsrOpFacts
  <2> DEFINE ro == a >= 3072
  <2>4. ReadOnly(a) = ro /\ ro \in BOOLEAN
    <3>1. a \in 0 .. 4095
      BY <1>1, FieldBounds
    <3> HIDE DEF a
    <3>2. QED
      BY <3>1 DEF ReadOnly
  <2>5. Arch!Imm12(i) = a /\ Arch!Implemented = Implemented /\ Arch!IsCsrForm(i)
    BY <1>4, SameDecode, SameCsrs
  <2>6. CsrAddr = a
    BY <1>2, <1>4
  <2> DEFINE missing == a \notin Implemented
  <2>7. Arch!BadCsr(i) <=> missing \/ (w /\ ro)
    BY <2>5, SMT DEF Arch!BadCsr
  <2>8. CsrFault <=> missing \/ (w /\ ro)
    <3> HIDE DEF w, ro, a
    <3>1. QED
      BY <2>2, <2>3, <2>4, <2>6, Zenon DEF CsrFault, CsrIllegal
  <2>9. CsrFault \in BOOLEAN /\ Arch!BadCsr(i) \in BOOLEAN
    BY SMT DEF CsrFault, CsrIllegal, Arch!BadCsr
  <2> HIDE DEF missing, w, ro, a
  <2>10. CsrFault = Arch!BadCsr(i)
    BY <2>7, <2>8, <2>9
  <2>11. QED
    BY <1>2, <2>10
<1>5. QED
  BY <1>3, <1>4

LEMMA AddressIsArchitectural ==
  ASSUME NEW i, InEx(i), i.opcode \in {"LOAD", "STORE"}
  PROVE  /\ AluOut(Rs1, Rs2) = Arch!Address(i)
         /\ Arch!Address(i) \in Word
         /\ IsMisaligned(Arch!Address(i) % 4, id_ex.ctrl.mem_size)
              = Arch!MisalignedData(i)
<1>1. /\ id_ex.ctrl = Decode(i) /\ id_ex.imm = Immediate(i)
      /\ Rs1 \in Word /\ Rs1 = Arch!Reg(i.rs1) /\ Immediate(i) \in Int
  BY InExFacts, DecodeUses
<1> DEFINE base == Arch!Reg(i.rs1)
           imm  == IF i.opcode = "STORE" THEN ImmS(i) ELSE ImmI(i)
           addr == Arch!Address(i)
<1>2. imm = Immediate(i) /\ imm \in Int /\ base \in Int
  BY <1>1, ImmediateOf DEF Word
<1>3. AluA(Rs1) = base /\ AluB(Rs2) = ToWord(imm)
  BY <1>1, <1>2, DecodeUses DEF AluA, AluB
<1>4. id_ex.ctrl.alu_op = "ADD"
  BY <1>1, DecodeUses DEF AluOpOf
<1>5. addr = ToWord(base + imm)
  BY SameWords, SameDecode DEF Arch!Address
<1> HIDE DEF base, imm, addr
<1>6. AluOut(Rs1, Rs2) = ToWord(base + ToWord(imm))
  BY <1>3, <1>4 DEF AluOut, Alu
<1>7. AluOut(Rs1, Rs2) = addr
  BY <1>2, <1>5, <1>6, ToWordAdd
<1>8. base + imm \in Int
  BY <1>2
<1>9. addr \in Word /\ addr \in Int
  BY <1>5, <1>8, ToWordType DEF Word
<1>10. id_ex.ctrl.mem_size = MemSizeOf(i)
  BY <1>1 DEF Decode
<1>11. Arch!MisalignedData(i) =
         (addr % (CASE MemSizeOf(i) = "B" -> 1
                    [] MemSizeOf(i) = "H" -> 2
                    [] OTHER -> 4) # 0)
  BY SameDecode DEF Arch!MisalignedData, addr
<1>12. IsMisaligned(addr % 4, MemSizeOf(i)) = Arch!MisalignedData(i)
  <2>1. MemSizeOf(i) \in {"B", "H", "W"}
    BY MemSizeOfType DEF MemSizes
  <2>2. QED
    <3>1. CASE MemSizeOf(i) = "B"
      <4>1. addr % 1 = 0
        BY <1>9
      <4>2. QED
        BY <1>11, <3>1, <4>1 DEF IsMisaligned
    <3>2. CASE MemSizeOf(i) = "H"
      <4>1. ((addr % 4) % 2 = 1) = (addr % 2 # 0)
        BY <1>9
      <4>2. QED
        BY <1>11, <3>2, <4>1 DEF IsMisaligned
    <3>3. CASE MemSizeOf(i) = "W"
      BY <1>9, <1>11, <3>3 DEF IsMisaligned
    <3>4. QED
      BY <2>1, <3>1, <3>2, <3>3
<1>13. QED
  BY <1>7, <1>9, <1>10, <1>12 DEF addr

LEMMA MisalignedTarget ==
  ASSUME NEW i, InEx(i)
  PROVE  (Taken(Rs1, Rs2) /\ (Target(Rs1) \div 2) % 2 # 0)
           <=> Arch!Transfers(i) /\ ~ Arch!Aligned(Arch!Destination(i))
<1>1. /\ Taken(Rs1, Rs2) = Arch!Transfers(i)
      /\ Taken(Rs1, Rs2) => Target(Rs1) = Arch!Destination(i)
  BY TransferIsArchitectural
<1>2. CASE Taken(Rs1, Rs2)
  <2> DEFINE t == Target(Rs1)
  <2>1. TypeOK /\ ExIsDecoded /\ StagesAligned /\ Rs1 \in Word
    BY InExFacts DEF InEx, SafetyInv
  <2>2. t \in Int /\ t % 2 = 0
    BY <1>2, <2>1, TargetIsEven
  <2>3. Arch!Aligned(Arch!Destination(i)) <=> t % 4 = 0
    BY <1>1, <1>2, SameWords, Zenon DEF Aligned
  <2> HIDE DEF t
  <2>4. (t \div 2) % 2 # 0 <=> t % 4 # 0
    BY <2>2
  <2>5. QED
    BY <1>1, <1>2, <2>3, <2>4 DEF t
<1>3. QED
  BY <1>1, <1>2

(* The trap encoder raises the exception of the sequential machine. *)
LEMMA TrapIsException ==
  ASSUME NEW i, InEx(i)
  PROVE  Trap(Rs1, Rs2) = Arch!Exception(id_ex.instr, i)
<1> DEFINE addr   == AluOut(Rs1, Rs2)
           target == Target(Rs1)
           size   == id_ex.ctrl.mem_size
           cause(n, tval) == [valid |-> TRUE, cause |-> n, tval |-> tval]
           odd == Taken(Rs1, Rs2) /\ (target \div 2) % 2 # 0
           bad == id_ex.ctrl.illegal \/ CsrFault
           mis == IsMisaligned(addr % 4, size)
           exc == Arch!Exception(id_ex.instr, i)
<1>1. /\ id_ex.valid /\ id_ex.ctrl = Decode(i) /\ ArchPc = id_ex.pc
  BY InExFacts DEF InEx
<1>2. Trap(Rs1, Rs2) =
        IF odd THEN cause(0, target)
        ELSE IF bad THEN cause(2, id_ex.instr)
        ELSE IF id_ex.ctrl.is_ebreak THEN cause(3, id_ex.pc)
        ELSE IF id_ex.ctrl.is_ecall  THEN cause(11, 0)
        ELSE IF id_ex.ctrl.mem_write /\ mis THEN cause(6, addr)
        ELSE IF id_ex.ctrl.mem_read  /\ mis THEN cause(4, addr)
        ELSE NoTrap
  BY <1>1 DEF Trap
<1>3. exc =
        IF Arch!Transfers(i) /\ ~ Arch!Aligned(Arch!Destination(i))
          THEN cause(0, Arch!Destination(i))
        ELSE IF Arch!Illegal(i) \/ Arch!BadCsr(i) THEN cause(2, id_ex.instr)
        ELSE IF Arch!Ebreak(i) THEN cause(3, ArchPc)
        ELSE IF Arch!Ecall(i)  THEN cause(11, 0)
        ELSE IF Arch!MisalignedData(i)
          THEN cause(IF i.opcode = "STORE" THEN 6 ELSE 4, Arch!Address(i))
        ELSE NoTrap
  BY DEF Arch!Exception, NoTrap
<1>4. /\ odd <=> Arch!Transfers(i) /\ ~ Arch!Aligned(Arch!Destination(i))
      /\ odd => target = Arch!Destination(i)
  BY MisalignedTarget, TransferIsArchitectural
<1>5. /\ id_ex.ctrl.illegal = Arch!Illegal(i) /\ CsrFault = Arch!BadCsr(i)
      /\ id_ex.ctrl.is_ebreak = Arch!Ebreak(i)
      /\ id_ex.ctrl.is_ecall = Arch!Ecall(i)
      /\ id_ex.ctrl.mem_write = (i.opcode = "STORE")
      /\ id_ex.ctrl.mem_read = (i.opcode = "LOAD")
  BY <1>1, SameDecode, CsrFaultIsArchitectural DEF Decode
<1>6. i.opcode \in {"LOAD", "STORE"} =>
        addr = Arch!Address(i) /\ mis = Arch!MisalignedData(i)
  BY AddressIsArchitectural
<1>7. Arch!MisalignedData(i) => i.opcode \in {"LOAD", "STORE"}
  BY DEF Arch!MisalignedData
<1> HIDE DEF addr, target, odd, mis, exc, size
<1>8. CASE odd
  BY <1>2, <1>3, <1>4, <1>8, Zenon DEF exc
<1>9. CASE ~ odd /\ (Arch!Illegal(i) \/ Arch!BadCsr(i))
  BY <1>2, <1>3, <1>4, <1>5, <1>9, Zenon DEF exc
<1>10. CASE ~ odd /\ ~ Arch!Illegal(i) /\ ~ Arch!BadCsr(i)
  <2> DEFINE rest == IF id_ex.ctrl.is_ebreak THEN cause(3, id_ex.pc)
                     ELSE IF id_ex.ctrl.is_ecall  THEN cause(11, 0)
                     ELSE IF id_ex.ctrl.mem_write /\ mis THEN cause(6, addr)
                     ELSE IF id_ex.ctrl.mem_read  /\ mis THEN cause(4, addr)
                     ELSE NoTrap
  <2>1. Trap(Rs1, Rs2) = rest
    BY <1>2, <1>5, <1>10, Zenon
  <2>2. exc = IF Arch!Ebreak(i) THEN cause(3, ArchPc)
              ELSE IF Arch!Ecall(i)  THEN cause(11, 0)
              ELSE IF Arch!MisalignedData(i)
                THEN cause(IF i.opcode = "STORE" THEN 6 ELSE 4, Arch!Address(i))
              ELSE NoTrap
    BY <1>3, <1>4, <1>10, Zenon
  <2>3. CASE Arch!Ebreak(i)
    BY <1>1, <1>5, <2>1, <2>2, <2>3 DEF exc
  <2>4. CASE ~ Arch!Ebreak(i) /\ Arch!Ecall(i)
    BY <1>1, <1>5, <2>1, <2>2, <2>4 DEF exc
  <2>5. CASE ~ Arch!Ebreak(i) /\ ~ Arch!Ecall(i) /\ i.opcode = "STORE"
    BY <1>5, <1>6, <1>7, <2>1, <2>2, <2>5 DEF exc
  <2>6. CASE ~ Arch!Ebreak(i) /\ ~ Arch!Ecall(i) /\ i.opcode # "STORE"
    BY <1>5, <1>6, <1>7, <2>1, <2>2, <2>6 DEF exc
  <2>7. QED
    BY <2>3, <2>4, <2>5, <2>6
<1>11. QED
  BY <1>8, <1>9, <1>10

-----------------------------------------------------------------------------
(* MEM: what the instruction i holds there after the edge.                 *)
LEMMA InMem ==
  ASSUME NEW i, InEx(i), Tick,
         NEW trapped, trapped = Arch!Exception(id_ex.instr, i).valid
  PROVE  /\ trapped \in BOOLEAN
         /\ ex_mem'.valid = TRUE /\ ex_mem'.pc = ArchPc
         /\ ~ trapped => ex_mem'.ctrl = Decode(i)
         /\ ex_mem'.ctrl.rd_addr = i.rd
         /\ ex_mem'.ctrl.reg_write = (Decode(i).reg_write /\ ~ trapped)
         /\ ex_mem'.ctrl.mem_write = (i.opcode = "STORE" /\ ~ trapped)
         /\ ex_mem'.alu_result = IF IsCsrForm(i) THEN CsrRead
                                                 ELSE AluOut(Rs1, Rs2)
         /\ ex_mem'.rs2_data = Rs2
         /\ mem' = MemNext
<1> DEFINE c == Decode(i)
<1>1. /\ i \in Instr /\ id_ex.valid = TRUE /\ id_ex.ctrl = c
      /\ ArchPc = id_ex.pc /\ Rs1 \in Word /\ Rs2 \in Word /\ TypeOK
  <2>1. id_ex.valid \in BOOLEAN /\ id_ex.valid
    BY DEF InEx, SafetyInv, TypeOK, IdExType
  <2>2. QED
    BY <2>1, InExFacts DEF InEx, SafetyInv
<1>2. trapped = Trap(Rs1, Rs2).valid /\ trapped \in BOOLEAN
  BY <1>1, TrapIsException, TrapType
<1>3. ex_mem' = ExMemLoad(Rs1, Rs2, Trap(Rs1, Rs2)) /\ mem' = MemNext
  BY DEF Tick
<1>4. /\ ex_mem'.valid = id_ex.valid /\ ex_mem'.pc = id_ex.pc
      /\ ex_mem'.ctrl = Poison(c, trapped)
      /\ ex_mem'.alu_result = IF id_ex.ctrl.csr_op # "NONE" THEN CsrRead
                                                            ELSE AluOut(Rs1, Rs2)
      /\ ex_mem'.rs2_data = Rs2
  BY <1>1, <1>2, <1>3 DEF ExMemLoad
<1>5. (id_ex.ctrl.csr_op # "NONE") = IsCsrForm(i)
  BY <1>1, CsrOpFacts
<1>6. c \in CtrlType
  BY <1>1, DecodeType
<1>7. c.rd_addr = i.rd /\ c.mem_write = (i.opcode = "STORE")
  BY DEF Decode
<1> HIDE DEF c
<1>8. /\ ~ trapped => Poison(c, trapped) = c
      /\ Poison(c, trapped).rd_addr = i.rd
      /\ Poison(c, trapped).reg_write => c.reg_write /\ ~ trapped
      /\ Poison(c, trapped).mem_write => c.mem_write /\ ~ trapped
  BY <1>2, <1>6, <1>7, PoisonFields
<1>9. /\ Poison(c, trapped).reg_write \in BOOLEAN /\ c.reg_write \in BOOLEAN
      /\ Poison(c, trapped).mem_write \in BOOLEAN /\ c.mem_write \in BOOLEAN
  BY <1>2, <1>6, PoisonType DEF CtrlType
<1>10. /\ Poison(c, trapped).reg_write = (c.reg_write /\ ~ trapped)
       /\ Poison(c, trapped).mem_write = (c.mem_write /\ ~ trapped)
  BY <1>2, <1>8, <1>9
<1>11. QED
  BY <1>1, <1>2, <1>3, <1>4, <1>5, <1>7, <1>8, <1>10 DEF c

LEMMA CounterRestored ==
  ASSUME TypeOK
  PROVE  [[csr EXCEPT !.mcycle = [lo |-> 0, hi |-> 0]]
             EXCEPT !.mcycle = csr.mcycle] = csr
  BY DEF TypeOK, CsrType

(* The value that will be written back is the one the machine predicts. *)
LEMMA ResultIsArchitectural ==
  ASSUME NEW i, InEx(i), Tick,
         ~ Arch!Exception(id_ex.instr, i).valid, Arch!WritesRd(i)
  PROVE  MemResult' = Arch!Result(i, csr.mcycle)
<1> DEFINE result == Arch!Result(i, csr.mcycle)
<1>1. /\ i \in Instr /\ id_ex.ctrl = Decode(i) /\ id_ex.imm = Immediate(i)
      /\ ArchPc = id_ex.pc /\ Rs1 \in Word /\ Rs2 \in Word /\ TypeOK
      /\ id_ex.pc \in Int /\ Immediate(i) \in Int
  BY InExFacts DEF InEx, SafetyInv, Word
<1>2. /\ ex_mem'.ctrl = Decode(i) /\ ex_mem'.pc = ArchPc
      /\ ex_mem'.alu_result = IF IsCsrForm(i) THEN CsrRead
                                              ELSE AluOut(Rs1, Rs2)
      /\ mem' = MemNext
  BY InMem
<1>3. ex_mem'.ctrl.wb_sel = WbSelOf(i)
  BY <1>2 DEF Decode
<1>4. MemResult' = CASE WbSelOf(i) = "MEM" -> LoadedData'
                     [] WbSelOf(i) = "PC4" -> ToWord(ArchPc + 4)
                     [] OTHER -> ex_mem'.alu_result
  BY <1>2, <1>3 DEF MemResult
<1>5. IsCsrForm(i) => i.opcode = "SYSTEM"
  BY DEF IsCsrForm
<1>6. CASE i.opcode \in {"OP", "OPIMM", "LUI", "AUIPC"}
  <2>1. MemResult' = AluOut(Rs1, Rs2)
    BY <1>2, <1>4, <1>5, <1>6 DEF WbSelOf
  <2>2. AluOut(Rs1, Rs2) = Alu(AluOpOf(i), AluA(Rs1), AluB(Rs2))
    BY <1>1, DecodeUses DEF AluOut
  <2>3. CASE i.opcode = "OP"
    <3>1. AluA(Rs1) = Arch!Reg(i.rs1) /\ AluB(Rs2) = Arch!Reg(i.rs2)
      BY <1>1, <2>3, InExFacts, DecodeUses DEF AluA, AluB
    <3>2. result = Arch!Alu(Arch!ArithOp(i), Arch!Reg(i.rs1), Arch!Reg(i.rs2))
      BY <2>3 DEF Arch!Result
    <3>3. AluOpOf(i) = ArithOp(i)
      BY <2>3 DEF AluOpOf
    <3>4. QED
      BY <2>1, <2>2, <3>1, <3>2, <3>3, SameAlu, SameDecode, Zenon
  <2>4. CASE i.opcode = "OPIMM"
    <3>1. AluA(Rs1) = Arch!Reg(i.rs1) /\ AluB(Rs2) = ToWord(ImmI(i))
      BY <1>1, <2>4, InExFacts, DecodeUses, ImmediateOf DEF AluA, AluB
    <3>2. result = Arch!Alu(Arch!ArithOp(i), Arch!Reg(i.rs1),
                            Arch!ToWord(Arch!ImmI(i)))
      BY <2>4 DEF Arch!Result
    <3>3. AluOpOf(i) = ArithOp(i)
      BY <2>4 DEF AluOpOf
    <3>4. QED
      BY <2>1, <2>2, <3>1, <3>2, <3>3, SameAlu, SameDecode, SameWords, Zenon
  <2>5. CASE i.opcode = "LUI"
    <3>1. AluB(Rs2) = ToWord(ImmU(i))
      BY <1>1, <2>5, DecodeUses, ImmediateOf DEF AluB
    <3>2. result = Arch!ToWord(Arch!ImmU(i))
      BY <2>5 DEF Arch!Result
    <3>3. AluOpOf(i) = "PASS_B"
      BY <2>5 DEF AluOpOf
    <3>4. Alu("PASS_B", AluA(Rs1), AluB(Rs2)) = AluB(Rs2)
      BY DEF Alu
    <3>5. QED
      BY <2>1, <2>2, <3>1, <3>2, <3>3, <3>4, SameDecode, SameWords, Zenon
  <2>6. CASE i.opcode = "AUIPC"
    <3>1. /\ AluA(Rs1) = id_ex.pc /\ AluB(Rs2) = ToWord(ImmU(i))
          /\ ImmU(i) = Immediate(i)
      BY <1>1, <2>6, DecodeUses, ImmediateOf DEF AluA, AluB
    <3>2. result = Arch!ToWord(ArchPc + Arch!ImmU(i))
      BY <2>6 DEF Arch!Result
    <3>3. AluOpOf(i) = "ADD"
      BY <2>6 DEF AluOpOf
    <3>4. Alu("ADD", AluA(Rs1), AluB(Rs2)) = ToWord(AluA(Rs1) + AluB(Rs2))
      BY DEF Alu
    <3>5. ToWord(id_ex.pc + ToWord(ImmU(i))) = ToWord(id_ex.pc + ImmU(i))
      BY <1>1, <3>1, ToWordAdd
    <3>6. QED
      BY <1>1, <2>1, <2>2, <3>1, <3>2, <3>3, <3>4, <3>5, SameDecode, SameWords,
         Zenon
  <2>7. QED
    BY <1>6, <2>3, <2>4, <2>5, <2>6
<1>7. CASE i.opcode \in {"JAL", "JALR"}
  <2>1. MemResult' = ToWord(ArchPc + 4)
    BY <1>4, <1>7 DEF WbSelOf
  <2>2. result = Arch!ToWord(ArchPc + 4)
    BY <1>7 DEF Arch!Result
  <2>3. QED
    BY <2>1, <2>2, SameWords
<1>8. CASE i.opcode = "LOAD"
  <2> DEFINE addr == Arch!Address(i)
             word == MemNext[Index(addr)]
             size == MemSizeOf(i)
  <2>1. ex_mem'.alu_result = addr
    BY <1>2, <1>5, <1>8, AddressIsArchitectural
  <2>2. /\ ex_mem'.ctrl.mem_size = size
        /\ ex_mem'.ctrl.mem_signed = (i.funct3 \in {0, 1, 2})
    BY <1>2, <1>8 DEF Decode
  <2>3. i.funct3 \in {0, 1, 2, 4, 5}
    <3>1. ~ Arch!Illegal(i)
      BY SMT DEF Arch!Exception
    <3>2. i.funct3 \notin {3, 6, 7}
      BY <1>8, <3>1, SameDecode DEF Illegal
    <3>3. QED
      BY <1>1, <3>2 DEF Instr
  <2>4. (i.funct3 < 4) = (i.funct3 \in {0, 1, 2})
    BY <2>3
  <2>5. MemResult' = LoadedData'
    BY <1>4, <1>8 DEF WbSelOf
  <2>6. LoadedData' = LoadData(addr % 4, size, i.funct3 \in {0, 1, 2}, word)
    BY <1>2, <2>1, <2>2, Zenon DEF LoadedData, Offset
  <2>7. result = Arch!LoadData(addr % 4, Arch!MemSizeOf(i), i.funct3 < 4,
                               MemNext[Arch!Index(addr)])
    BY <1>8 DEF Arch!Result
  <2>8. Arch!Index(addr) = Index(addr)
    BY DEF Arch!Index, Index
  <2>9. QED
    BY <2>4, <2>5, <2>6, <2>7, <2>8, SameLanes, SameDecode, Zenon
<1>9. CASE IsCsrForm(i)
  <2>1. i.opcode = "SYSTEM" /\ i.rd # 0
    BY <1>5, <1>9 DEF Arch!WritesRd
  <2>2. MemResult' = CsrRead
    BY <1>2, <1>4, <1>9, <2>1 DEF WbSelOf
  <2>3. id_ex.ctrl.csr_read
    <3>1. Decode(i).csr_read = (IsCsrForm(i) /\ i.rd # 0)
      BY DEF Decode
    <3>2. QED
      BY <1>1, <1>9, <2>1, <3>1
  <2>4. CsrRead = CsrRdata(csr, Imm12(i), NoIrq)
    BY <1>9, <2>3, CsrFaultIsArchitectural, Zenon DEF CsrRead
  <2>5. result = Arch!CsrRdata([[csr EXCEPT !.mcycle = [lo |-> 0, hi |-> 0]]
                                  EXCEPT !.mcycle = csr.mcycle],
                               Arch!Imm12(i), Arch!NoIrq)
    BY <2>1, SMT DEF Arch!Result
  <2>6. QED
    BY <1>1, <2>2, <2>4, <2>5, CounterRestored, SameCsrs, SameDecode, Zenon
<1>10. QED
  <2>1. \/ i.opcode \in {"OP", "OPIMM", "LUI", "AUIPC", "JAL", "JALR", "LOAD"}
        \/ IsCsrForm(i)
    BY SameDecode DEF Arch!WritesRd
  <2>2. QED
    BY <1>6, <1>7, <1>8, <1>9, <2>1

(* A store reaches the memory of the sequential machine as it enters MEM. *)
LEMMA StoreIsArchitectural ==
  ASSUME NEW i, InEx(i), Tick,
         NEW stores,
         stores = (~ Arch!Exception(id_ex.instr, i).valid /\ i.opcode = "STORE")
  PROVE  MemNext' = IF stores THEN Arch!Stored(i) ELSE MemNext
<1> DEFINE addr == Arch!Address(i)
           size == MemSizeOf(i)
<1>1. /\ ex_mem'.valid = TRUE /\ ex_mem'.ctrl.mem_write = stores
      /\ stores => ex_mem'.ctrl = Decode(i)
      /\ ex_mem'.rs2_data = Rs2
      /\ mem' = MemNext
  BY InMem
<1>2. CASE ~ stores
  <2>1. ~ DmemWe'
    BY <1>1, <1>2 DEF DmemWe
  <2>2. QED
    BY <1>1, <1>2, <2>1 DEF MemNext
<1>3. CASE stores
  <2>1. i.opcode = "STORE" /\ ~ IsCsrForm(i)
    BY <1>3 DEF IsCsrForm
  <2>2. ex_mem'.alu_result = addr
    BY <2>1, InMem, AddressIsArchitectural
  <2>3. ex_mem'.ctrl.mem_size = size
    BY <1>1, <1>3 DEF Decode
  <2>4. Rs2 = Arch!Reg(i.rs2)
    BY <2>1, InExFacts, DecodeUses
  <2>5. DmemWe' = ~ TopBit(addr)
    <3>1. TopBit(addr) \in BOOLEAN
      BY DEF TopBit
    <3>2. QED
      BY <1>1, <1>3, <2>2, <3>1 DEF DmemWe, IsPeriph
  <2>6. MemNext' =
          IF TopBit(addr) THEN MemNext
          ELSE [MemNext EXCEPT ![Index(addr)] =
                  WriteLanes(@, ByteEnable(addr % 4, size),
                             StoreAligned(size, Rs2))]
    BY <1>1, <2>2, <2>3, <2>5, Zenon DEF MemNext, Offset
  <2>7. Arch!Stored(i) =
          IF Arch!TopBit(addr) THEN MemNext
          ELSE [MemNext EXCEPT ![Arch!Index(addr)] =
                  Arch!WriteLanes(@, Arch!ByteEnable(addr % 4, Arch!MemSizeOf(i)),
                                  Arch!StoreAligned(Arch!MemSizeOf(i),
                                                    Arch!Reg(i.rs2)))]
    BY Zenon DEF Arch!Stored
  <2>8. Arch!Index(addr) = Index(addr)
    BY DEF Arch!Index, Index
  <2>9. QED
    BY <1>3, <2>4, <2>6, <2>7, <2>8, SameWords, SameLanes, SameDecode, Zenon
<1>4. QED
  <2>1. stores \in BOOLEAN
    OBVIOUS
  <2>2. QED
    BY <1>2, <1>3

-----------------------------------------------------------------------------
(* The CSR file, with the cycle counter hidden.                            *)
CsrSeen(en, prev, mie, mtvec, mscratch, mepc, mcause, mtval, minstret) ==
  [mstatus_mie |-> en, mstatus_mpie |-> prev, mie |-> mie, mtvec |-> mtvec,
   mscratch |-> mscratch, mepc |-> mepc, mcause |-> mcause, mtval |-> mtval,
   mcycle |-> [lo |-> 0, hi |-> 0], minstret |-> minstret]

ArchCsr == [csr EXCEPT !.mcycle = [lo |-> 0, hi |-> 0]]

LEMMA HideMcycle ==
  ASSUME NEW c \in CsrType
  PROVE  [c EXCEPT !.mcycle = [lo |-> 0, hi |-> 0]] =
           CsrSeen(c.mstatus_mie, c.mstatus_mpie, c.mie, c.mtvec, c.mscratch,
                   c.mepc, c.mcause, c.mtval, c.minstret)
  BY DEF CsrType, CsrSeen

LEMMA CsrNextSeen ==
  ASSUME NEW c, NEW p
  PROVE  LET wval == CsrWval(c, p)
         IN  [CsrNext(c, p) EXCEPT !.mcycle = [lo |-> 0, hi |-> 0]] =
               CsrSeen(MieNext(c, p), MpieNext(c, p),
                 Written(c, p, CSR_MIE, c.mie, MaskMie(wval), c.mie),
                 Written(c, p, CSR_MTVEC, c.mtvec, AlignDown(wval), c.mtvec),
                 Written(c, p, CSR_MSCRATCH, c.mscratch, wval, c.mscratch),
                 Written(c, p, CSR_MEPC, c.mepc, AlignDown(wval),
                         AlignDown(p.trap_epc)),
                 Written(c, p, CSR_MCAUSE, c.mcause, wval, p.trap_cause),
                 Written(c, p, CSR_MTVAL, c.mtval, wval, p.trap_tval),
                 WriteHalves(CountedMinstret(c, p), c, p,
                             CSR_MINSTRET, CSR_MINSTRETH))
  BY DEF CsrNext, CsrSeen

LEMMA AlignedStays ==
  ASSUME NEW w \in Word, Aligned(w)
  PROVE  AlignDown(w) = w
  BY DEF AlignDown, Aligned, Word

LEMMA HalvesUnwritten ==
  ASSUME NEW n, n \in Counter, NEW c, NEW p,
         ~ SoftwareWrite(p, CSR_MINSTRET), ~ SoftwareWrite(p, CSR_MINSTRETH)
  PROVE  WriteHalves(n, c, p, CSR_MINSTRET, CSR_MINSTRETH) = n
<1>1. n = [lo |-> n.lo, hi |-> n.hi]
  BY DEF Counter
<1>2. QED
  BY <1>1, Zenon DEF WriteHalves

(* What the ports of csr.sv carry for the instruction i. *)
LEMMA PortsOf ==
  ASSUME NEW i, InEx(i), NEW exc, exc = Arch!Exception(id_ex.instr, i),
         NEW p, p = CsrPorts(Rs1, exc)
  PROVE  /\ p.trap_valid = exc.valid /\ p.trap_epc = ArchPc
         /\ p.trap_cause = exc.cause /\ p.trap_tval = exc.tval
         /\ p.mret <=> Arch!Mret(i) /\ ~ exc.valid
         /\ p.instr_retired <=> ~ exc.valid
         /\ p.irq = NoIrq /\ p.op = CsrOpOf(i)
         /\ IsCsrForm(i) => p.addr = Imm12(i)
         /\ ~ exc.valid => (DoWrite(p) <=> Arch!WritesCsr(i))
         /\ IsCsrForm(i) =>
              p.wdata = IF i.funct3 >= 4 THEN i.rs1 ELSE Arch!Reg(i.rs1)
<1>1. /\ i \in Instr /\ id_ex.valid /\ id_ex.ctrl = Decode(i)
      /\ ArchPc = id_ex.pc
  BY InExFacts DEF InEx
<1>2. /\ p.trap_valid = exc.valid /\ p.trap_epc = ArchPc
      /\ p.trap_cause = exc.cause /\ p.trap_tval = exc.tval
      /\ p.irq = NoIrq /\ p.op = id_ex.ctrl.csr_op /\ p.addr = CsrAddr
      /\ p.wdata = IF id_ex.ctrl.csr_imm THEN id_ex.ctrl.rs1_addr ELSE Rs1
  BY <1>1 DEF CsrPorts
<1>3. p.op = CsrOpOf(i)
  BY <1>1, <1>2, CsrOpFacts
<1>4. p.mret <=> Arch!Mret(i) /\ ~ exc.valid
  <2>1. id_ex.ctrl.is_mret = Arch!Mret(i)
    BY <1>1, SameDecode DEF Decode
  <2>2. QED
    BY <1>1, <2>1 DEF CsrPorts, MretInEx
<1>5. p.instr_retired <=> ~ exc.valid
  BY <1>1 DEF CsrPorts, InstrRetired
<1>6. IsCsrForm(i) => p.addr = Imm12(i)
  BY <1>2, CsrFaultIsArchitectural
<1>7. p.write <=> Arch!WritesCsr(i)
  <2>1. id_ex.ctrl.csr_write = Arch!WritesCsr(i)
    BY <1>1, CsrOpFacts
  <2>2. QED
    BY <1>1, <2>1 DEF CsrPorts, CsrWriteReq
<1>8. ASSUME ~ exc.valid
      PROVE  DoWrite(p) <=> Arch!WritesCsr(i)
  <2>1. DoWrite(p) => Arch!WritesCsr(i)
    BY <1>7 DEF DoWrite
  <2>2. ASSUME Arch!WritesCsr(i)
        PROVE  DoWrite(p)
    <3>1. IsCsrForm(i)
      BY <2>2, SameDecode DEF Arch!WritesCsr
    <3>2. ~ Arch!BadCsr(i)
      BY <1>8, SMT DEF Arch!Exception
    <3>3. Imm12(i) \in Implemented /\ ~ (Imm12(i) >= 3072)
      BY <2>2, <3>1, <3>2, SameDecode, SameCsrs DEF Arch!BadCsr
    <3>4. ~ ReadOnly(Imm12(i))
      <4> DEFINE a == Imm12(i)
      <4>1. a \in 0 .. 4095 /\ ~ (a >= 3072)
        BY <1>1, <3>3, FieldBounds
      <4> HIDE DEF a
      <4>2. ~ ReadOnly(a)
        BY <4>1 DEF ReadOnly
      <4>3. QED
        BY <4>2 DEF a
    <3>5. p.op # "NONE"
      BY <1>1, <1>3, <3>1, CsrOpFacts
    <3>6. QED
      BY <1>6, <1>7, <2>2, <3>1, <3>3, <3>4, <3>5 DEF DoWrite
  <2>3. QED
    BY <2>1, <2>2
<1>9. ASSUME IsCsrForm(i)
      PROVE  p.wdata = IF i.funct3 >= 4 THEN i.rs1 ELSE Arch!Reg(i.rs1)
  <2>1. /\ Decode(i).csr_imm = (IsCsrForm(i) /\ i.funct3 >= 4)
        /\ Decode(i).rs1_addr = i.rs1
    BY DEF Decode
  <2>2. i.funct3 \in 0 .. 7
    BY <1>1 DEF Instr
  <2>3. CASE i.funct3 >= 4
    BY <1>1, <1>2, <1>9, <2>1, <2>3
  <2>4. CASE ~ (i.funct3 >= 4)
    <3>1. i.funct3 < 4
      BY <2>2, <2>4
    <3>2. Rs1 = Arch!Reg(i.rs1)
      BY <1>9, <3>1, InExFacts, DecodeUses
    <3>3. ~ id_ex.ctrl.csr_imm
      BY <1>1, <2>1, <2>4
    <3>4. QED
      BY <1>2, <2>4, <3>2, <3>3
  <2>5. QED
    BY <2>3, <2>4
<1>10. QED
  BY <1>2, <1>3, <1>4, <1>5, <1>6, <1>8, <1>9

(* A CSR write, as csr.sv and as ISA make it: v to the CSR of address a.    *)
CsrWriteSeen(c, a, v) ==
  CsrSeen(IF a = CSR_MSTATUS  THEN Bit3(v) ELSE c.mstatus_mie,
          IF a = CSR_MSTATUS  THEN Bit7(v) ELSE c.mstatus_mpie,
          IF a = CSR_MIE      THEN MaskMie(v) ELSE c.mie,
          IF a = CSR_MTVEC    THEN AlignDown(v) ELSE c.mtvec,
          IF a = CSR_MSCRATCH THEN v ELSE c.mscratch,
          IF a = CSR_MEPC     THEN AlignDown(v) ELSE c.mepc,
          IF a = CSR_MCAUSE   THEN v ELSE c.mcause,
          IF a = CSR_MTVAL    THEN v ELSE c.mtval,
          IF a = CSR_MINSTRET
            THEN [lo |-> v % CounterSize, hi |-> c.minstret.hi]
          ELSE IF a = CSR_MINSTRETH
            THEN [lo |-> c.minstret.lo, hi |-> v % CounterSize]
          ELSE Increment(c.minstret))

LEMMA CsrNextWrite ==
  ASSUME NEW c \in CsrType, NEW p,
         ~ p.trap_valid, ~ p.mret, DoWrite(p), p.instr_retired
  PROVE  [CsrNext(c, p) EXCEPT !.mcycle = [lo |-> 0, hi |-> 0]]
           = CsrWriteSeen(c, p.addr, CsrWval(c, p))
<1> DEFINE v == CsrWval(c, p)
           a == p.addr
           en == IF a = CSR_MSTATUS THEN Bit3(v) ELSE c.mstatus_mie
           prev == IF a = CSR_MSTATUS THEN Bit7(v) ELSE c.mstatus_mpie
           mie == IF a = CSR_MIE THEN MaskMie(v) ELSE c.mie
           mtvec == IF a = CSR_MTVEC THEN AlignDown(v) ELSE c.mtvec
           mscratch == IF a = CSR_MSCRATCH THEN v ELSE c.mscratch
           mepc == IF a = CSR_MEPC THEN AlignDown(v) ELSE c.mepc
           mcause == IF a = CSR_MCAUSE THEN v ELSE c.mcause
           mtval == IF a = CSR_MTVAL THEN v ELSE c.mtval
           count == IF a = CSR_MINSTRET
                        THEN [lo |-> v % CounterSize, hi |-> c.minstret.hi]
                      ELSE IF a = CSR_MINSTRETH
                        THEN [lo |-> c.minstret.lo, hi |-> v % CounterSize]
                      ELSE Increment(c.minstret)
<1>1. \A x : SoftwareWrite(p, x) <=> a = x
  BY DEF SoftwareWrite
<1>3. /\ MieNext(c, p) = en
      /\ MpieNext(c, p) = prev
  BY <1>1, Zenon DEF MieNext, MpieNext
<1>4. CSR_MINSTRET # CSR_MINSTRETH
  BY DEF CSR_MINSTRET, CSR_MINSTRETH
<1>5. WriteHalves(CountedMinstret(c, p), c, p, CSR_MINSTRET, CSR_MINSTRETH)
        = count
  <2>1. CASE a \in {CSR_MINSTRET, CSR_MINSTRETH}
    <3>1. CountedMinstret(c, p) = c.minstret
      BY <2>1 DEF CountedMinstret, WritesMinstret
    <3>2. QED
      BY <1>1, <1>4, <2>1, <3>1, Zenon DEF WriteHalves
  <2>2. CASE a \notin {CSR_MINSTRET, CSR_MINSTRETH}
    <3>1. CountedMinstret(c, p) = Increment(c.minstret)
      BY <2>2 DEF CountedMinstret, WritesMinstret
    <3>2. Increment(c.minstret) \in Counter
      BY IncrementType DEF CsrType
    <3>3. QED
      BY <1>1, <2>2, <3>1, <3>2, HalvesUnwritten
  <2>3. QED
    BY <2>1, <2>2
<1>6. [CsrNext(c, p) EXCEPT !.mcycle = [lo |-> 0, hi |-> 0]] =
        CsrSeen(MieNext(c, p), MpieNext(c, p),
          Written(c, p, CSR_MIE, c.mie, MaskMie(v), c.mie),
          Written(c, p, CSR_MTVEC, c.mtvec, AlignDown(v), c.mtvec),
          Written(c, p, CSR_MSCRATCH, c.mscratch, v, c.mscratch),
          Written(c, p, CSR_MEPC, c.mepc, AlignDown(v), AlignDown(p.trap_epc)),
          Written(c, p, CSR_MCAUSE, c.mcause, v, p.trap_cause),
          Written(c, p, CSR_MTVAL, c.mtval, v, p.trap_tval),
          WriteHalves(CountedMinstret(c, p), c, p, CSR_MINSTRET, CSR_MINSTRETH))
  BY CsrNextSeen, Zenon
<1>7. Written(c, p, CSR_MIE, c.mie, MaskMie(v), c.mie)
        = mie
  BY <1>1, Zenon DEF Written
<1>8. Written(c, p, CSR_MTVEC, c.mtvec, AlignDown(v), c.mtvec)
        = mtvec
  BY <1>1, Zenon DEF Written
<1>9. Written(c, p, CSR_MSCRATCH, c.mscratch, v, c.mscratch)
        = mscratch
  BY <1>1, Zenon DEF Written
<1>10. Written(c, p, CSR_MEPC, c.mepc, AlignDown(v), AlignDown(p.trap_epc))
         = mepc
  BY <1>1, Zenon DEF Written
<1>11. Written(c, p, CSR_MCAUSE, c.mcause, v, p.trap_cause)
         = mcause
  BY <1>1, Zenon DEF Written
<1>12. Written(c, p, CSR_MTVAL, c.mtval, v, p.trap_tval)
         = mtval
  BY <1>1, Zenon DEF Written
<1>13. CsrWriteSeen(c, a, v) =
         CsrSeen(en, prev, mie, mtvec, mscratch, mepc, mcause, mtval, count)
  BY DEF CsrWriteSeen
<1> HIDE DEF v, en, prev, mie, mtvec, mscratch, mepc, mcause, mtval, count
<1>14. CsrSeen(MieNext(c, p), MpieNext(c, p),
          Written(c, p, CSR_MIE, c.mie, MaskMie(v), c.mie),
          Written(c, p, CSR_MTVEC, c.mtvec, AlignDown(v), c.mtvec),
          Written(c, p, CSR_MSCRATCH, c.mscratch, v, c.mscratch),
          Written(c, p, CSR_MEPC, c.mepc, AlignDown(v), AlignDown(p.trap_epc)),
          Written(c, p, CSR_MCAUSE, c.mcause, v, p.trap_cause),
          Written(c, p, CSR_MTVAL, c.mtval, v, p.trap_tval),
          WriteHalves(CountedMinstret(c, p), c, p, CSR_MINSTRET, CSR_MINSTRETH))
        = CsrSeen(en, prev, mie, mtvec, mscratch, mepc, mcause, mtval, count)
  BY <1>3, <1>5, <1>7, <1>8, <1>9, <1>10, <1>11, <1>12, Zenon
<1>15. QED
  BY <1>6, <1>13, <1>14, Zenon DEF v

(* Replacing one field after another. *)
CsrRecord(en, prev, mie, mtvec, mscratch, mepc, mcause, mtval,
          mcycle, minstret) ==
  [mstatus_mie |-> en, mstatus_mpie |-> prev, mie |-> mie, mtvec |-> mtvec,
   mscratch |-> mscratch, mepc |-> mepc, mcause |-> mcause, mtval |-> mtval,
   mcycle |-> mcycle, minstret |-> minstret]

Hidden(c, minstret) == [[c EXCEPT !.minstret = minstret]
                          EXCEPT !.mcycle = [lo |-> 0, hi |-> 0]]

LEMMA HiddenRecord ==
  ASSUME NEW en, NEW prev, NEW mie, NEW mtvec, NEW mscratch, NEW mepc,
         NEW mcause, NEW mtval, NEW mcycle, NEW minstret, NEW n
  PROVE  Hidden(CsrRecord(en, prev, mie, mtvec, mscratch, mepc, mcause, mtval,
                          mcycle, minstret), n)
           = CsrSeen(en, prev, mie, mtvec, mscratch, mepc, mcause, mtval, n)
<1> DEFINE r == CsrRecord(en, prev, mie, mtvec, mscratch, mepc, mcause, mtval,
                          mcycle, minstret)
<1>1. [r EXCEPT !.minstret = n]
        = CsrRecord(en, prev, mie, mtvec, mscratch, mepc, mcause, mtval,
                    mcycle, n)
  BY SMT DEF CsrRecord
<1>2. ASSUME NEW d,
             d = CsrRecord(en, prev, mie, mtvec, mscratch, mepc, mcause, mtval,
                           mcycle, n)
      PROVE  [d EXCEPT !.mcycle = [lo |-> 0, hi |-> 0]]
               = CsrRecord(en, prev, mie, mtvec, mscratch, mepc, mcause, mtval,
                           [lo |-> 0, hi |-> 0], n)
  BY <1>2, SMT DEF CsrRecord
<1>3. Hidden(r, n) = CsrRecord(en, prev, mie, mtvec, mscratch, mepc, mcause,
                               mtval, [lo |-> 0, hi |-> 0], n)
  BY <1>1, <1>2, Zenon DEF Hidden
<1>4. QED
  BY <1>3, Zenon DEF CsrRecord, CsrSeen

LEMMA HideStays ==
  ASSUME NEW c \in CsrType, NEW n
  PROVE  Hidden(c, n) = CsrSeen(c.mstatus_mie, c.mstatus_mpie, c.mie, c.mtvec,
                c.mscratch, c.mepc, c.mcause, c.mtval, n)
<1>1. c = CsrRecord(c.mstatus_mie, c.mstatus_mpie, c.mie, c.mtvec,
                c.mscratch, c.mepc, c.mcause, c.mtval,
                c.mcycle, c.minstret)
  BY SMT DEF CsrType, CsrRecord
<1>2. QED
  BY <1>1, HiddenRecord, SMT

LEMMA HideMie ==
  ASSUME NEW c \in CsrType, NEW x, NEW n, NEW e, e = [c EXCEPT !.mie = x]
  PROVE  /\ e.minstret = c.minstret
         /\ Hidden(e, n) = CsrSeen(c.mstatus_mie, c.mstatus_mpie, x, c.mtvec,
                c.mscratch, c.mepc, c.mcause, c.mtval, n)
<1>1. e = CsrRecord(c.mstatus_mie, c.mstatus_mpie, x, c.mtvec,
                c.mscratch, c.mepc, c.mcause, c.mtval,
                c.mcycle, c.minstret)
  BY SMT DEF CsrType, CsrRecord
<1>2. e.minstret = c.minstret
  BY <1>1, SMT DEF CsrRecord
<1>3. QED
  BY <1>1, <1>2, HiddenRecord, SMT

LEMMA HideMtvec ==
  ASSUME NEW c \in CsrType, NEW x, NEW n, NEW e, e = [c EXCEPT !.mtvec = x]
  PROVE  /\ e.minstret = c.minstret
         /\ Hidden(e, n) = CsrSeen(c.mstatus_mie, c.mstatus_mpie, c.mie, x,
                c.mscratch, c.mepc, c.mcause, c.mtval, n)
<1>1. e = CsrRecord(c.mstatus_mie, c.mstatus_mpie, c.mie, x,
                c.mscratch, c.mepc, c.mcause, c.mtval,
                c.mcycle, c.minstret)
  BY SMT DEF CsrType, CsrRecord
<1>2. e.minstret = c.minstret
  BY <1>1, SMT DEF CsrRecord
<1>3. QED
  BY <1>1, <1>2, HiddenRecord, SMT

LEMMA HideMscratch ==
  ASSUME NEW c \in CsrType, NEW x, NEW n, NEW e, e = [c EXCEPT !.mscratch = x]
  PROVE  /\ e.minstret = c.minstret
         /\ Hidden(e, n)
           = CsrSeen(c.mstatus_mie, c.mstatus_mpie, c.mie, c.mtvec,
                x, c.mepc, c.mcause, c.mtval, n)
<1>1. e = CsrRecord(c.mstatus_mie, c.mstatus_mpie, c.mie, c.mtvec,
                x, c.mepc, c.mcause, c.mtval,
                c.mcycle, c.minstret)
  BY SMT DEF CsrType, CsrRecord
<1>2. e.minstret = c.minstret
  BY <1>1, SMT DEF CsrRecord
<1>3. QED
  BY <1>1, <1>2, HiddenRecord, SMT

LEMMA HideMepc ==
  ASSUME NEW c \in CsrType, NEW x, NEW n, NEW e, e = [c EXCEPT !.mepc = x]
  PROVE  /\ e.minstret = c.minstret
         /\ Hidden(e, n)
           = CsrSeen(c.mstatus_mie, c.mstatus_mpie, c.mie, c.mtvec,
                c.mscratch, x, c.mcause, c.mtval, n)
<1>1. e = CsrRecord(c.mstatus_mie, c.mstatus_mpie, c.mie, c.mtvec,
                c.mscratch, x, c.mcause, c.mtval,
                c.mcycle, c.minstret)
  BY SMT DEF CsrType, CsrRecord
<1>2. e.minstret = c.minstret
  BY <1>1, SMT DEF CsrRecord
<1>3. QED
  BY <1>1, <1>2, HiddenRecord, SMT

LEMMA HideMcause ==
  ASSUME NEW c \in CsrType, NEW x, NEW n, NEW e, e = [c EXCEPT !.mcause = x]
  PROVE  /\ e.minstret = c.minstret
         /\ Hidden(e, n)
           = CsrSeen(c.mstatus_mie, c.mstatus_mpie, c.mie, c.mtvec,
                c.mscratch, c.mepc, x, c.mtval, n)
<1>1. e = CsrRecord(c.mstatus_mie, c.mstatus_mpie, c.mie, c.mtvec,
                c.mscratch, c.mepc, x, c.mtval,
                c.mcycle, c.minstret)
  BY SMT DEF CsrType, CsrRecord
<1>2. e.minstret = c.minstret
  BY <1>1, SMT DEF CsrRecord
<1>3. QED
  BY <1>1, <1>2, HiddenRecord, SMT

LEMMA HideMtval ==
  ASSUME NEW c \in CsrType, NEW x, NEW n, NEW e, e = [c EXCEPT !.mtval = x]
  PROVE  /\ e.minstret = c.minstret
         /\ Hidden(e, n)
           = CsrSeen(c.mstatus_mie, c.mstatus_mpie, c.mie, c.mtvec,
                c.mscratch, c.mepc, c.mcause, x, n)
<1>1. e = CsrRecord(c.mstatus_mie, c.mstatus_mpie, c.mie, c.mtvec,
                c.mscratch, c.mepc, c.mcause, x,
                c.mcycle, c.minstret)
  BY SMT DEF CsrType, CsrRecord
<1>2. e.minstret = c.minstret
  BY <1>1, SMT DEF CsrRecord
<1>3. QED
  BY <1>1, <1>2, HiddenRecord, SMT

(* The CSR file after a write, as ISA gives it. *)
CsrWritten(c, a, v) ==
  CASE a = CSR_MSTATUS   -> [c EXCEPT !.mstatus_mie  = Bit3(v),
                                      !.mstatus_mpie = Bit7(v)]
    [] a = CSR_MIE       -> [c EXCEPT !.mie = MaskMie(v)]
    [] a = CSR_MTVEC     -> [c EXCEPT !.mtvec = AlignDown(v)]
    [] a = CSR_MSCRATCH  -> [c EXCEPT !.mscratch = v]
    [] a = CSR_MEPC      -> [c EXCEPT !.mepc = AlignDown(v)]
    [] a = CSR_MCAUSE    -> [c EXCEPT !.mcause = v]
    [] a = CSR_MTVAL     -> [c EXCEPT !.mtval = v]
    [] a = CSR_MINSTRET  -> [c EXCEPT !.minstret.lo = v % CounterSize]
    [] a = CSR_MINSTRETH -> [c EXCEPT !.minstret.hi = v % CounterSize]
    [] OTHER -> c

LEMMA CsrWrittenWrite ==
  ASSUME NEW c \in CsrType, NEW a, NEW v, NEW d, d = CsrWritten(c, a, v)
  PROVE  /\ a \in {CSR_MINSTRET, CSR_MINSTRETH} =>
              [d EXCEPT !.mcycle = [lo |-> 0, hi |-> 0]] = CsrWriteSeen(c, a, v)
         /\ a \notin {CSR_MINSTRET, CSR_MINSTRETH} =>
              [[d EXCEPT !.minstret = Increment(@)]
                 EXCEPT !.mcycle = [lo |-> 0, hi |-> 0]] = CsrWriteSeen(c, a, v)
<1> DEFINE count == Increment(c.minstret)
           half  == v % CounterSize
<1>1. ASSUME NEW r, r.minstret = c.minstret
      PROVE  [[r EXCEPT !.minstret = Increment(@)]
                EXCEPT !.mcycle = [lo |-> 0, hi |-> 0]] = Hidden(r, count)
  BY <1>1, Zenon DEF Hidden
<1>2. /\ CSR_MSTATUS = 768 /\ CSR_MIE = 772 /\ CSR_MTVEC = 773
      /\ CSR_MSCRATCH = 832 /\ CSR_MEPC = 833 /\ CSR_MCAUSE = 834
      /\ CSR_MTVAL = 835 /\ CSR_MINSTRET = 2818 /\ CSR_MINSTRETH = 2946
  BY DEF CSR_MSTATUS, CSR_MIE, CSR_MTVEC, CSR_MSCRATCH, CSR_MEPC, CSR_MCAUSE,
         CSR_MTVAL, CSR_MINSTRET, CSR_MINSTRETH
<1>3. CASE a = CSR_MSTATUS
  <2> DEFINE x == Bit3(v)
             y == Bit7(v)
  <2>1. d = [c EXCEPT !.mstatus_mie = x, !.mstatus_mpie = y]
    BY <1>2, <1>3 DEF CsrWritten
  <2>2. a \notin {CSR_MINSTRET, CSR_MINSTRETH}
    BY <1>2, <1>3
  <2>3. CsrWriteSeen(c, a, v) = CsrSeen(x, y, c.mie, c.mtvec,
                  c.mscratch, c.mepc, c.mcause, c.mtval, count)
    BY <1>2, <1>3, SMT DEF CsrWriteSeen
  <2> HIDE DEF x, y, count
  <2>4. [c EXCEPT !.mstatus_mie = x] = CsrRecord(x, c.mstatus_mpie, c.mie,
                  c.mtvec, c.mscratch, c.mepc, c.mcause, c.mtval,
                  c.mcycle, c.minstret)
    BY SMT DEF CsrType, CsrRecord
  <2>5. ASSUME NEW f,
               f = CsrRecord(x, c.mstatus_mpie, c.mie, c.mtvec,
                  c.mscratch, c.mepc, c.mcause, c.mtval,
                  c.mcycle, c.minstret)
        PROVE  [f EXCEPT !.mstatus_mpie = y] = CsrRecord(x, y, c.mie, c.mtvec,
                  c.mscratch, c.mepc, c.mcause, c.mtval,
                  c.mcycle, c.minstret)
    BY <2>5, SMT DEF CsrRecord
  <2>6. d = CsrRecord(x, y, c.mie, c.mtvec, c.mscratch, c.mepc, c.mcause,
                  c.mtval, c.mcycle, c.minstret)
    BY <2>1, <2>4, <2>5, Zenon
  <2>7. d.minstret = c.minstret
    BY <2>6, SMT DEF CsrRecord
  <2>8. Hidden(d, count) = CsrSeen(x, y, c.mie, c.mtvec,
                  c.mscratch, c.mepc, c.mcause, c.mtval, count)
    BY <2>6, HiddenRecord, SMT
  <2>9. [[d EXCEPT !.minstret = Increment(@)]
           EXCEPT !.mcycle = [lo |-> 0, hi |-> 0]] = Hidden(d, count)
    BY <1>1, <2>7, Zenon DEF count
  <2>10. QED
    BY <2>2, <2>3, <2>8, <2>9, Zenon
<1>4. CASE a = CSR_MIE
  <2> DEFINE e == [c EXCEPT !.mie = MaskMie(v)]
  <2>1. d = e /\ a \notin {CSR_MINSTRET, CSR_MINSTRETH}
    BY <1>2, <1>4 DEF CsrWritten
  <2>2. e.minstret = c.minstret
    BY HideMie, Zenon
  <2>3. Hidden(e, count)
          = CsrSeen(c.mstatus_mie, c.mstatus_mpie, MaskMie(v), c.mtvec, c.mscratch,
                  c.mepc, c.mcause, c.mtval, count)
    BY HideMie, Zenon
  <2>4. CsrWriteSeen(c, a, v)
          = CsrSeen(c.mstatus_mie, c.mstatus_mpie, MaskMie(v), c.mtvec, c.mscratch,
                  c.mepc, c.mcause, c.mtval, count)
    BY <1>2, <1>4, SMT DEF CsrWriteSeen
  <2>5. QED
    BY <1>1, <2>1, <2>2, <2>3, <2>4, Zenon
<1>5. CASE a = CSR_MTVEC
  <2> DEFINE e == [c EXCEPT !.mtvec = AlignDown(v)]
  <2>1. d = e /\ a \notin {CSR_MINSTRET, CSR_MINSTRETH}
    BY <1>2, <1>5 DEF CsrWritten
  <2>2. e.minstret = c.minstret
    BY HideMtvec, Zenon
  <2>3. Hidden(e, count)
          = CsrSeen(c.mstatus_mie, c.mstatus_mpie, c.mie, AlignDown(v), c.mscratch,
                  c.mepc, c.mcause, c.mtval, count)
    BY HideMtvec, Zenon
  <2>4. CsrWriteSeen(c, a, v)
          = CsrSeen(c.mstatus_mie, c.mstatus_mpie, c.mie, AlignDown(v), c.mscratch,
                  c.mepc, c.mcause, c.mtval, count)
    BY <1>2, <1>5, SMT DEF CsrWriteSeen
  <2>5. QED
    BY <1>1, <2>1, <2>2, <2>3, <2>4, Zenon
<1>6. CASE a = CSR_MSCRATCH
  <2> DEFINE e == [c EXCEPT !.mscratch = v]
  <2>1. d = e /\ a \notin {CSR_MINSTRET, CSR_MINSTRETH}
    BY <1>2, <1>6 DEF CsrWritten
  <2>2. e.minstret = c.minstret
    BY HideMscratch, Zenon
  <2>3. Hidden(e, count)
          = CsrSeen(c.mstatus_mie, c.mstatus_mpie, c.mie, c.mtvec, v,
                  c.mepc, c.mcause, c.mtval, count)
    BY HideMscratch, Zenon
  <2>4. CsrWriteSeen(c, a, v)
          = CsrSeen(c.mstatus_mie, c.mstatus_mpie, c.mie, c.mtvec, v,
                  c.mepc, c.mcause, c.mtval, count)
    BY <1>2, <1>6, SMT DEF CsrWriteSeen
  <2>5. QED
    BY <1>1, <2>1, <2>2, <2>3, <2>4, Zenon
<1>7. CASE a = CSR_MEPC
  <2> DEFINE e == [c EXCEPT !.mepc = AlignDown(v)]
  <2>1. d = e /\ a \notin {CSR_MINSTRET, CSR_MINSTRETH}
    BY <1>2, <1>7 DEF CsrWritten
  <2>2. e.minstret = c.minstret
    BY HideMepc, Zenon
  <2>3. Hidden(e, count)
          = CsrSeen(c.mstatus_mie, c.mstatus_mpie, c.mie, c.mtvec, c.mscratch,
                  AlignDown(v), c.mcause, c.mtval, count)
    BY HideMepc, Zenon
  <2>4. CsrWriteSeen(c, a, v)
          = CsrSeen(c.mstatus_mie, c.mstatus_mpie, c.mie, c.mtvec, c.mscratch,
                  AlignDown(v), c.mcause, c.mtval, count)
    BY <1>2, <1>7, SMT DEF CsrWriteSeen
  <2>5. QED
    BY <1>1, <2>1, <2>2, <2>3, <2>4, Zenon
<1>8. CASE a = CSR_MCAUSE
  <2> DEFINE e == [c EXCEPT !.mcause = v]
  <2>1. d = e /\ a \notin {CSR_MINSTRET, CSR_MINSTRETH}
    BY <1>2, <1>8 DEF CsrWritten
  <2>2. e.minstret = c.minstret
    BY HideMcause, Zenon
  <2>3. Hidden(e, count)
          = CsrSeen(c.mstatus_mie, c.mstatus_mpie, c.mie, c.mtvec, c.mscratch,
                  c.mepc, v, c.mtval, count)
    BY HideMcause, Zenon
  <2>4. CsrWriteSeen(c, a, v)
          = CsrSeen(c.mstatus_mie, c.mstatus_mpie, c.mie, c.mtvec, c.mscratch,
                  c.mepc, v, c.mtval, count)
    BY <1>2, <1>8, SMT DEF CsrWriteSeen
  <2>5. QED
    BY <1>1, <2>1, <2>2, <2>3, <2>4, Zenon
<1>9. CASE a = CSR_MTVAL
  <2> DEFINE e == [c EXCEPT !.mtval = v]
  <2>1. d = e /\ a \notin {CSR_MINSTRET, CSR_MINSTRETH}
    BY <1>2, <1>9 DEF CsrWritten
  <2>2. e.minstret = c.minstret
    BY HideMtval, Zenon
  <2>3. Hidden(e, count)
          = CsrSeen(c.mstatus_mie, c.mstatus_mpie, c.mie, c.mtvec, c.mscratch,
                  c.mepc, c.mcause, v, count)
    BY HideMtval, Zenon
  <2>4. CsrWriteSeen(c, a, v)
          = CsrSeen(c.mstatus_mie, c.mstatus_mpie, c.mie, c.mtvec, c.mscratch,
                  c.mepc, c.mcause, v, count)
    BY <1>2, <1>9, SMT DEF CsrWriteSeen
  <2>5. QED
    BY <1>1, <2>1, <2>2, <2>3, <2>4, Zenon
<1>10. CASE a = CSR_MINSTRET
  <2>1. d = [c EXCEPT !.minstret.lo = half]
    BY <1>2, <1>10 DEF CsrWritten
  <2>2. [c.minstret EXCEPT !.lo = half] = [lo |-> half, hi |-> c.minstret.hi]
    BY DEF CsrType, Counter
  <2>3. d = [c EXCEPT !.minstret = [lo |-> half, hi |-> c.minstret.hi]]
    BY <2>1, <2>2
  <2>4. CsrWriteSeen(c, a, v)
          = CsrSeen(c.mstatus_mie, c.mstatus_mpie, c.mie, c.mtvec, c.mscratch,
                  c.mepc, c.mcause, c.mtval, [lo |-> half, hi |-> c.minstret.hi])
    BY <1>2, <1>10, SMT DEF CsrWriteSeen
  <2>5. [d EXCEPT !.mcycle = [lo |-> 0, hi |-> 0]]
          = Hidden(c, [lo |-> half, hi |-> c.minstret.hi])
    BY <2>3, Zenon DEF Hidden
  <2>6. Hidden(c, [lo |-> half, hi |-> c.minstret.hi])
          = CsrSeen(c.mstatus_mie, c.mstatus_mpie, c.mie, c.mtvec, c.mscratch,
                  c.mepc, c.mcause, c.mtval, [lo |-> half, hi |-> c.minstret.hi])
    BY HideStays, Zenon
  <2>7. a \in {CSR_MINSTRET, CSR_MINSTRETH}
    BY <1>10
  <2>8. QED
    BY <2>4, <2>5, <2>6, <2>7, Zenon
<1>11. CASE a = CSR_MINSTRETH
  <2>1. d = [c EXCEPT !.minstret.hi = half]
    BY <1>2, <1>11 DEF CsrWritten
  <2>2. [c.minstret EXCEPT !.hi = half] = [lo |-> c.minstret.lo, hi |-> half]
    BY DEF CsrType, Counter
  <2>3. d = [c EXCEPT !.minstret = [lo |-> c.minstret.lo, hi |-> half]]
    BY <2>1, <2>2
  <2>4. CsrWriteSeen(c, a, v)
          = CsrSeen(c.mstatus_mie, c.mstatus_mpie, c.mie, c.mtvec, c.mscratch,
                  c.mepc, c.mcause, c.mtval, [lo |-> c.minstret.lo, hi |-> half])
    BY <1>2, <1>11, SMT DEF CsrWriteSeen
  <2>5. [d EXCEPT !.mcycle = [lo |-> 0, hi |-> 0]]
          = Hidden(c, [lo |-> c.minstret.lo, hi |-> half])
    BY <2>3, Zenon DEF Hidden
  <2>6. Hidden(c, [lo |-> c.minstret.lo, hi |-> half])
          = CsrSeen(c.mstatus_mie, c.mstatus_mpie, c.mie, c.mtvec, c.mscratch,
                  c.mepc, c.mcause, c.mtval, [lo |-> c.minstret.lo, hi |-> half])
    BY HideStays, Zenon
  <2>7. a \in {CSR_MINSTRET, CSR_MINSTRETH}
    BY <1>11
  <2>8. QED
    BY <2>4, <2>5, <2>6, <2>7, Zenon
<1>12. CASE a \notin {CSR_MSTATUS, CSR_MIE, CSR_MTVEC, CSR_MSCRATCH, CSR_MEPC,
                      CSR_MCAUSE, CSR_MTVAL, CSR_MINSTRET, CSR_MINSTRETH}
  <2>1. d = c
    BY <1>2, <1>12 DEF CsrWritten
  <2>2. Hidden(c, count)
          = CsrSeen(c.mstatus_mie, c.mstatus_mpie, c.mie, c.mtvec, c.mscratch,
                  c.mepc, c.mcause, c.mtval, count)
    BY HideStays, Zenon
  <2>3. CsrWriteSeen(c, a, v)
          = CsrSeen(c.mstatus_mie, c.mstatus_mpie, c.mie, c.mtvec, c.mscratch,
                  c.mepc, c.mcause, c.mtval, count)
    BY <1>12 DEF CsrWriteSeen
  <2>4. QED
    BY <1>1, <1>12, <2>1, <2>2, <2>3, Zenon
<1>13. QED
  BY <1>3, <1>4, <1>5, <1>6, <1>7, <1>8, <1>9, <1>10, <1>11, <1>12

(* The other three things one edge can do to the CSR file. *)
LEMMA CsrNextTrap ==
  ASSUME NEW c \in CsrType, NEW p,
         p.trap_valid, ~ p.instr_retired
  PROVE  [CsrNext(c, p) EXCEPT !.mcycle = [lo |-> 0, hi |-> 0]]
           = CsrSeen(FALSE, c.mstatus_mie, c.mie, c.mtvec, c.mscratch,
                     AlignDown(p.trap_epc), p.trap_cause, p.trap_tval, c.minstret)
<1> DEFINE v == CsrWval(c, p)
<1>1. \A x : ~ SoftwareWrite(p, x)
  BY DEF SoftwareWrite
<1>2. MieNext(c, p) = FALSE /\ MpieNext(c, p) = c.mstatus_mie
  BY <1>1, Zenon DEF MieNext, MpieNext
<1>3. Written(c, p, CSR_MIE, c.mie, MaskMie(v), c.mie) = c.mie
  BY <1>1, Zenon DEF Written
<1>4. Written(c, p, CSR_MTVEC, c.mtvec, AlignDown(v), c.mtvec) = c.mtvec
  BY <1>1, Zenon DEF Written
<1>5. Written(c, p, CSR_MSCRATCH, c.mscratch, v, c.mscratch) = c.mscratch
  BY <1>1, Zenon DEF Written
<1>6. Written(c, p, CSR_MEPC, c.mepc, AlignDown(v), AlignDown(p.trap_epc))
        = AlignDown(p.trap_epc)
  BY <1>1, Zenon DEF Written
<1>7. Written(c, p, CSR_MCAUSE, c.mcause, v, p.trap_cause) = p.trap_cause
  BY <1>1, Zenon DEF Written
<1>8. Written(c, p, CSR_MTVAL, c.mtval, v, p.trap_tval) = p.trap_tval
  BY <1>1, Zenon DEF Written
<1>9. CountedMinstret(c, p) = c.minstret
  BY DEF CountedMinstret, WritesMinstret
<1>10. c.minstret \in Counter
  BY IncrementType DEF CsrType
<1>11. WriteHalves(CountedMinstret(c, p), c, p, CSR_MINSTRET, CSR_MINSTRETH)
         = c.minstret
  BY <1>1, <1>9, <1>10, HalvesUnwritten
<1>12. [CsrNext(c, p) EXCEPT !.mcycle = [lo |-> 0, hi |-> 0]] =
        CsrSeen(MieNext(c, p), MpieNext(c, p),
          Written(c, p, CSR_MIE, c.mie, MaskMie(v), c.mie),
          Written(c, p, CSR_MTVEC, c.mtvec, AlignDown(v), c.mtvec),
          Written(c, p, CSR_MSCRATCH, c.mscratch, v, c.mscratch),
          Written(c, p, CSR_MEPC, c.mepc, AlignDown(v), AlignDown(p.trap_epc)),
          Written(c, p, CSR_MCAUSE, c.mcause, v, p.trap_cause),
          Written(c, p, CSR_MTVAL, c.mtval, v, p.trap_tval),
          WriteHalves(CountedMinstret(c, p), c, p, CSR_MINSTRET, CSR_MINSTRETH))
  BY CsrNextSeen, Zenon
<1> HIDE DEF v
<1>13. QED
  BY <1>2, <1>3, <1>4, <1>5, <1>6, <1>7, <1>8, <1>11, <1>12, Zenon

LEMMA CsrNextMret ==
  ASSUME NEW c \in CsrType, NEW p,
         ~ p.trap_valid, p.mret, ~ DoWrite(p), p.instr_retired
  PROVE  [CsrNext(c, p) EXCEPT !.mcycle = [lo |-> 0, hi |-> 0]]
           = CsrSeen(c.mstatus_mpie, TRUE, c.mie, c.mtvec, c.mscratch,
                     c.mepc, c.mcause, c.mtval, Increment(c.minstret))
<1> DEFINE v == CsrWval(c, p)
<1>1. \A x : ~ SoftwareWrite(p, x)
  BY DEF SoftwareWrite
<1>2. MieNext(c, p) = c.mstatus_mpie /\ MpieNext(c, p) = TRUE
  BY <1>1, Zenon DEF MieNext, MpieNext
<1>3. Written(c, p, CSR_MIE, c.mie, MaskMie(v), c.mie) = c.mie
  BY <1>1, Zenon DEF Written
<1>4. Written(c, p, CSR_MTVEC, c.mtvec, AlignDown(v), c.mtvec) = c.mtvec
  BY <1>1, Zenon DEF Written
<1>5. Written(c, p, CSR_MSCRATCH, c.mscratch, v, c.mscratch) = c.mscratch
  BY <1>1, Zenon DEF Written
<1>6. Written(c, p, CSR_MEPC, c.mepc, AlignDown(v), AlignDown(p.trap_epc)) = c.mepc
  BY <1>1, Zenon DEF Written
<1>7. Written(c, p, CSR_MCAUSE, c.mcause, v, p.trap_cause) = c.mcause
  BY <1>1, Zenon DEF Written
<1>8. Written(c, p, CSR_MTVAL, c.mtval, v, p.trap_tval) = c.mtval
  BY <1>1, Zenon DEF Written
<1>9. CountedMinstret(c, p) = Increment(c.minstret)
  BY DEF CountedMinstret, WritesMinstret
<1>10. Increment(c.minstret) \in Counter
  BY IncrementType DEF CsrType
<1>11. WriteHalves(CountedMinstret(c, p), c, p, CSR_MINSTRET, CSR_MINSTRETH)
         = Increment(c.minstret)
  BY <1>1, <1>9, <1>10, HalvesUnwritten
<1>12. [CsrNext(c, p) EXCEPT !.mcycle = [lo |-> 0, hi |-> 0]] =
        CsrSeen(MieNext(c, p), MpieNext(c, p),
          Written(c, p, CSR_MIE, c.mie, MaskMie(v), c.mie),
          Written(c, p, CSR_MTVEC, c.mtvec, AlignDown(v), c.mtvec),
          Written(c, p, CSR_MSCRATCH, c.mscratch, v, c.mscratch),
          Written(c, p, CSR_MEPC, c.mepc, AlignDown(v), AlignDown(p.trap_epc)),
          Written(c, p, CSR_MCAUSE, c.mcause, v, p.trap_cause),
          Written(c, p, CSR_MTVAL, c.mtval, v, p.trap_tval),
          WriteHalves(CountedMinstret(c, p), c, p, CSR_MINSTRET, CSR_MINSTRETH))
  BY CsrNextSeen, Zenon
<1> HIDE DEF v
<1>13. QED
  BY <1>2, <1>3, <1>4, <1>5, <1>6, <1>7, <1>8, <1>11, <1>12, Zenon

LEMMA CsrNextPlain ==
  ASSUME NEW c \in CsrType, NEW p,
         ~ p.trap_valid, ~ p.mret, ~ DoWrite(p), p.instr_retired
  PROVE  [CsrNext(c, p) EXCEPT !.mcycle = [lo |-> 0, hi |-> 0]]
           = CsrSeen(c.mstatus_mie, c.mstatus_mpie, c.mie, c.mtvec, c.mscratch,
                     c.mepc, c.mcause, c.mtval, Increment(c.minstret))
<1> DEFINE v == CsrWval(c, p)
<1>1. \A x : ~ SoftwareWrite(p, x)
  BY DEF SoftwareWrite
<1>2. MieNext(c, p) = c.mstatus_mie /\ MpieNext(c, p) = c.mstatus_mpie
  BY <1>1, Zenon DEF MieNext, MpieNext
<1>3. Written(c, p, CSR_MIE, c.mie, MaskMie(v), c.mie) = c.mie
  BY <1>1, Zenon DEF Written
<1>4. Written(c, p, CSR_MTVEC, c.mtvec, AlignDown(v), c.mtvec) = c.mtvec
  BY <1>1, Zenon DEF Written
<1>5. Written(c, p, CSR_MSCRATCH, c.mscratch, v, c.mscratch) = c.mscratch
  BY <1>1, Zenon DEF Written
<1>6. Written(c, p, CSR_MEPC, c.mepc, AlignDown(v), AlignDown(p.trap_epc)) = c.mepc
  BY <1>1, Zenon DEF Written
<1>7. Written(c, p, CSR_MCAUSE, c.mcause, v, p.trap_cause) = c.mcause
  BY <1>1, Zenon DEF Written
<1>8. Written(c, p, CSR_MTVAL, c.mtval, v, p.trap_tval) = c.mtval
  BY <1>1, Zenon DEF Written
<1>9. CountedMinstret(c, p) = Increment(c.minstret)
  BY DEF CountedMinstret, WritesMinstret
<1>10. Increment(c.minstret) \in Counter
  BY IncrementType DEF CsrType
<1>11. WriteHalves(CountedMinstret(c, p), c, p, CSR_MINSTRET, CSR_MINSTRETH)
         = Increment(c.minstret)
  BY <1>1, <1>9, <1>10, HalvesUnwritten
<1>12. [CsrNext(c, p) EXCEPT !.mcycle = [lo |-> 0, hi |-> 0]] =
        CsrSeen(MieNext(c, p), MpieNext(c, p),
          Written(c, p, CSR_MIE, c.mie, MaskMie(v), c.mie),
          Written(c, p, CSR_MTVEC, c.mtvec, AlignDown(v), c.mtvec),
          Written(c, p, CSR_MSCRATCH, c.mscratch, v, c.mscratch),
          Written(c, p, CSR_MEPC, c.mepc, AlignDown(v), AlignDown(p.trap_epc)),
          Written(c, p, CSR_MCAUSE, c.mcause, v, p.trap_cause),
          Written(c, p, CSR_MTVAL, c.mtval, v, p.trap_tval),
          WriteHalves(CountedMinstret(c, p), c, p, CSR_MINSTRET, CSR_MINSTRETH))
  BY CsrNextSeen, Zenon
<1> HIDE DEF v
<1>13. QED
  BY <1>2, <1>3, <1>4, <1>5, <1>6, <1>7, <1>8, <1>11, <1>12, Zenon

LEMMA CsrNextIdle ==
  ASSUME NEW c \in CsrType, NEW p,
         ~ p.trap_valid, ~ p.mret, ~ DoWrite(p), ~ p.instr_retired
  PROVE  [CsrNext(c, p) EXCEPT !.mcycle = [lo |-> 0, hi |-> 0]]
           = CsrSeen(c.mstatus_mie, c.mstatus_mpie, c.mie, c.mtvec, c.mscratch,
                     c.mepc, c.mcause, c.mtval, c.minstret)
<1> DEFINE v == CsrWval(c, p)
<1>1. \A x : ~ SoftwareWrite(p, x)
  BY DEF SoftwareWrite
<1>2. MieNext(c, p) = c.mstatus_mie /\ MpieNext(c, p) = c.mstatus_mpie
  BY <1>1, Zenon DEF MieNext, MpieNext
<1>3. Written(c, p, CSR_MIE, c.mie, MaskMie(v), c.mie) = c.mie
  BY <1>1, Zenon DEF Written
<1>4. Written(c, p, CSR_MTVEC, c.mtvec, AlignDown(v), c.mtvec) = c.mtvec
  BY <1>1, Zenon DEF Written
<1>5. Written(c, p, CSR_MSCRATCH, c.mscratch, v, c.mscratch) = c.mscratch
  BY <1>1, Zenon DEF Written
<1>6. Written(c, p, CSR_MEPC, c.mepc, AlignDown(v), AlignDown(p.trap_epc)) = c.mepc
  BY <1>1, Zenon DEF Written
<1>7. Written(c, p, CSR_MCAUSE, c.mcause, v, p.trap_cause) = c.mcause
  BY <1>1, Zenon DEF Written
<1>8. Written(c, p, CSR_MTVAL, c.mtval, v, p.trap_tval) = c.mtval
  BY <1>1, Zenon DEF Written
<1>9. CountedMinstret(c, p) = c.minstret
  BY DEF CountedMinstret, WritesMinstret
<1>10. c.minstret \in Counter
  BY IncrementType DEF CsrType
<1>11. WriteHalves(CountedMinstret(c, p), c, p, CSR_MINSTRET, CSR_MINSTRETH)
         = c.minstret
  BY <1>1, <1>9, <1>10, HalvesUnwritten
<1>12. [CsrNext(c, p) EXCEPT !.mcycle = [lo |-> 0, hi |-> 0]] =
        CsrSeen(MieNext(c, p), MpieNext(c, p),
          Written(c, p, CSR_MIE, c.mie, MaskMie(v), c.mie),
          Written(c, p, CSR_MTVEC, c.mtvec, AlignDown(v), c.mtvec),
          Written(c, p, CSR_MSCRATCH, c.mscratch, v, c.mscratch),
          Written(c, p, CSR_MEPC, c.mepc, AlignDown(v), AlignDown(p.trap_epc)),
          Written(c, p, CSR_MCAUSE, c.mcause, v, p.trap_cause),
          Written(c, p, CSR_MTVAL, c.mtval, v, p.trap_tval),
          WriteHalves(CountedMinstret(c, p), c, p, CSR_MINSTRET, CSR_MINSTRETH))
  BY CsrNextSeen, Zenon
<1> HIDE DEF v
<1>13. QED
  BY <1>2, <1>3, <1>4, <1>5, <1>6, <1>7, <1>8, <1>11, <1>12, Zenon

(* What a trap, an mret and a retirement replace. *)
TrapTaken(r, off, en, epc, cause, tval) ==
  [r EXCEPT !.mepc = epc, !.mcause = cause, !.mtval = tval,
            !.mstatus_mpie = en, !.mstatus_mie = off]

MretTaken(r, prev, on) == [r EXCEPT !.mstatus_mie = prev, !.mstatus_mpie = on]

Retired(r) == [r EXCEPT !.minstret = Increment(@)]

LEMMA TrapRecord ==
  ASSUME NEW en, NEW prev, NEW mie, NEW mtvec, NEW mscratch, NEW mepc,
         NEW mcause, NEW mtval, NEW mcycle, NEW minstret,
         NEW off, NEW epc, NEW cause, NEW tval
  PROVE  TrapTaken(CsrRecord(en, prev, mie, mtvec, mscratch, mepc, mcause,
                             mtval, mcycle, minstret),
                   off, en, epc, cause, tval)
           = CsrRecord(off, en, mie, mtvec, mscratch, epc, cause, tval,
                       mcycle, minstret)
<1> DEFINE r == CsrRecord(en, prev, mie, mtvec, mscratch, mepc, mcause,
                          mtval, mcycle, minstret)
<1>1. ASSUME NEW d,
             d = CsrRecord(en, prev, mie, mtvec, mscratch,
                          mepc, mcause, mtval, mcycle, minstret)
      PROVE  [d EXCEPT !.mepc = epc]
               = CsrRecord(en, prev, mie, mtvec, mscratch,
                          epc, mcause, mtval, mcycle, minstret)
  BY <1>1, SMT DEF CsrRecord
<1>2. ASSUME NEW d,
             d = CsrRecord(en, prev, mie, mtvec, mscratch,
                          epc, mcause, mtval, mcycle, minstret)
      PROVE  [d EXCEPT !.mcause = cause]
               = CsrRecord(en, prev, mie, mtvec, mscratch,
                          epc, cause, mtval, mcycle, minstret)
  BY <1>2, SMT DEF CsrRecord
<1>3. ASSUME NEW d,
             d = CsrRecord(en, prev, mie, mtvec, mscratch,
                          epc, cause, mtval, mcycle, minstret)
      PROVE  [d EXCEPT !.mtval = tval]
               = CsrRecord(en, prev, mie, mtvec, mscratch,
                          epc, cause, tval, mcycle, minstret)
  BY <1>3, SMT DEF CsrRecord
<1>4. ASSUME NEW d,
             d = CsrRecord(en, prev, mie, mtvec, mscratch,
                          epc, cause, tval, mcycle, minstret)
      PROVE  [d EXCEPT !.mstatus_mpie = en]
               = CsrRecord(en, en, mie, mtvec, mscratch,
                          epc, cause, tval, mcycle, minstret)
  BY <1>4, SMT DEF CsrRecord
<1>5. ASSUME NEW d,
             d = CsrRecord(en, en, mie, mtvec, mscratch,
                          epc, cause, tval, mcycle, minstret)
      PROVE  [d EXCEPT !.mstatus_mie = off]
               = CsrRecord(off, en, mie, mtvec, mscratch,
                          epc, cause, tval, mcycle, minstret)
  BY <1>5, SMT DEF CsrRecord
<1>6. [r EXCEPT !.mepc = epc]
       
          = CsrRecord(en, prev, mie, mtvec, mscratch, epc, mcause, mtval, mcycle, minstret)
  BY <1>1, Zenon
<1>7. [r EXCEPT !.mepc = epc, !.mcause = cause]
       
          = CsrRecord(en, prev, mie, mtvec, mscratch, epc, cause, mtval, mcycle, minstret)
  BY <1>2, <1>6, Zenon
<1>8. [r EXCEPT !.mepc = epc, !.mcause = cause, 
                  !.mtval = tval]
       
          = CsrRecord(en, prev, mie, mtvec, mscratch, epc, cause, tval, mcycle, minstret)
  BY <1>3, <1>7, Zenon
<1>9. [r EXCEPT !.mepc = epc, !.mcause = cause, 
                  !.mtval = tval, !.mstatus_mpie = en]
       
          = CsrRecord(en, en, mie, mtvec, mscratch, epc, cause, tval, mcycle, minstret)
  BY <1>4, <1>8, Zenon
<1>10. QED
  BY <1>5, <1>9, Zenon DEF TrapTaken

LEMMA MretRecord ==
  ASSUME NEW en, NEW prev, NEW mie, NEW mtvec, NEW mscratch, NEW mepc,
         NEW mcause, NEW mtval, NEW mcycle, NEW minstret, NEW on
  PROVE  MretTaken(CsrRecord(en, prev, mie, mtvec, mscratch, mepc, mcause,
                             mtval, mcycle, minstret), prev, on)
           = CsrRecord(prev, on, mie, mtvec, mscratch, mepc, mcause, mtval,
                       mcycle, minstret)
<1> DEFINE r == CsrRecord(en, prev, mie, mtvec, mscratch, mepc, mcause,
                          mtval, mcycle, minstret)
<1>1. ASSUME NEW d,
             d = CsrRecord(en, prev, mie, mtvec, mscratch,
                          mepc, mcause, mtval, mcycle, minstret)
      PROVE  [d EXCEPT !.mstatus_mie = prev]
               = CsrRecord(prev, prev, mie, mtvec, mscratch,
                          mepc, mcause, mtval, mcycle, minstret)
  BY <1>1, SMT DEF CsrRecord
<1>2. ASSUME NEW d,
             d = CsrRecord(prev, prev, mie, mtvec, mscratch,
                          mepc, mcause, mtval, mcycle, minstret)
      PROVE  [d EXCEPT !.mstatus_mpie = on]
               = CsrRecord(prev, on, mie, mtvec, mscratch,
                          mepc, mcause, mtval, mcycle, minstret)
  BY <1>2, SMT DEF CsrRecord
<1>3. QED
  BY <1>1, <1>2, Zenon DEF MretTaken

LEMMA CountedRecord ==
  ASSUME NEW en, NEW prev, NEW mie, NEW mtvec, NEW mscratch, NEW mepc,
         NEW mcause, NEW mtval, NEW mcycle, NEW minstret
  PROVE  Retired(CsrRecord(en, prev, mie, mtvec, mscratch, mepc, mcause,
                           mtval, mcycle, minstret))
           = CsrRecord(en, prev, mie, mtvec, mscratch, mepc, mcause, mtval,
                       mcycle, Increment(minstret))
<1> DEFINE r == CsrRecord(en, prev, mie, mtvec, mscratch, mepc, mcause,
                          mtval, mcycle, minstret)
<1>1. r.minstret = minstret
  BY SMT DEF CsrRecord
<1>2. ASSUME NEW n
      PROVE  [r EXCEPT !.minstret = n]
               = CsrRecord(en, prev, mie, mtvec, mscratch, mepc, mcause, mtval,
                       mcycle, n)
  BY SMT DEF CsrRecord
<1>3. QED
  BY <1>1, <1>2, Zenon DEF Retired

(* The CSR file after an instruction is the one the machine predicts. *)
LEMMA CsrIsArchitectural ==
  ASSUME NEW i, InEx(i), NEW exc, exc = Arch!Exception(id_ex.instr, i),
         NEW p, p = CsrPorts(Rs1, exc)
  PROVE  [CsrNext(csr, p) EXCEPT !.mcycle = [lo |-> 0, hi |-> 0]]
           = Arch!CsrAfter(i, exc, csr.mcycle)
<1> DEFINE c == ArchCsr
           next == [CsrNext(csr, p) EXCEPT !.mcycle = [lo |-> 0, hi |-> 0]]
           zero == [lo |-> 0, hi |-> 0]
           off  == FALSE
           on   == TRUE
<1>1. /\ i \in Instr /\ id_ex.pc \in Word /\ Aligned(id_ex.pc)
      /\ ArchPc = id_ex.pc /\ csr \in CsrType
  BY InExFacts DEF InEx, SafetyInv, TypeOK
<1>2. /\ p.trap_valid = exc.valid /\ p.trap_epc = ArchPc
      /\ p.trap_cause = exc.cause /\ p.trap_tval = exc.tval
      /\ p.mret <=> Arch!Mret(i) /\ ~ exc.valid
      /\ p.instr_retired <=> ~ exc.valid
      /\ ~ exc.valid => (DoWrite(p) <=> Arch!WritesCsr(i))
  BY PortsOf
<1>3. c = CsrSeen(csr.mstatus_mie, csr.mstatus_mpie, csr.mie, csr.mtvec,
            csr.mscratch, csr.mepc, csr.mcause, csr.mtval, csr.minstret)
  BY <1>1, HideMcycle DEF ArchCsr
<1>4. c = CsrRecord(csr.mstatus_mie, csr.mstatus_mpie, csr.mie, csr.mtvec,
            csr.mscratch, csr.mepc, csr.mcause, csr.mtval, zero, csr.minstret)
  BY <1>3, Zenon DEF CsrSeen, CsrRecord
<1>5. /\ c.mstatus_mie = csr.mstatus_mie /\ c.mstatus_mpie = csr.mstatus_mpie
      /\ c.minstret = csr.minstret
  BY <1>3, Zenon DEF CsrSeen
<1>6. CASE exc.valid
  <2>1. Arch!CsrAfter(i, exc, csr.mcycle) =
          TrapTaken(c, off, c.mstatus_mie, ArchPc, exc.cause, exc.tval)
    BY <1>6, Zenon DEF Arch!CsrAfter, ArchCsr, TrapTaken
  <2> HIDE DEF c, next, zero, off, on
  <2>2. TrapTaken(CsrRecord(csr.mstatus_mie, csr.mstatus_mpie, csr.mie, csr.mtvec,
            csr.mscratch, csr.mepc, csr.mcause, csr.mtval, zero, csr.minstret),
            off, csr.mstatus_mie, ArchPc, exc.cause, exc.tval)
          = CsrRecord(off, csr.mstatus_mie, csr.mie, csr.mtvec, csr.mscratch,
              ArchPc, exc.cause, exc.tval, zero, csr.minstret)
    BY TrapRecord, SMT
  <2>3. next = CsrSeen(off, csr.mstatus_mie, csr.mie, csr.mtvec, csr.mscratch,
                 AlignDown(p.trap_epc), p.trap_cause, p.trap_tval, csr.minstret)
    BY <1>1, <1>2, <1>6, CsrNextTrap, Zenon DEF next, off
  <2>4. AlignDown(p.trap_epc) = ArchPc
    BY <1>1, <1>2, AlignedStays
  <2>5. next = CsrRecord(off, csr.mstatus_mie, csr.mie, csr.mtvec,
                 csr.mscratch, ArchPc, exc.cause, exc.tval, zero, csr.minstret)
    BY <1>2, <2>3, <2>4, Zenon DEF CsrSeen, CsrRecord, zero
  <2>6. QED
    BY <1>4, <1>5, <2>1, <2>2, <2>5, Zenon DEF next
<1>7. CASE ~ exc.valid /\ Arch!Mret(i)
  <2>1. ~ Arch!WritesCsr(i)
    BY <1>7, SMT DEF Arch!WritesCsr, Arch!IsCsrForm, Arch!Mret, Arch!Privileged,
       Arch!IsPrivileged
  <2>6. \A n : Arch!Increment(n) = Increment(n)
    BY SameCsrs
  <2>2. Arch!CsrAfter(i, exc, csr.mcycle) =
          Retired(MretTaken(c, c.mstatus_mpie, on))
    BY <1>7, <2>1, <2>6, Zenon DEF Arch!CsrAfter, Arch!Counted, ArchCsr,
       Retired, MretTaken
  <2>3. next = CsrSeen(csr.mstatus_mpie, on, csr.mie, csr.mtvec, csr.mscratch,
                 csr.mepc, csr.mcause, csr.mtval, Increment(csr.minstret))
    BY <1>1, <1>2, <1>7, <2>1, CsrNextMret, Zenon
  <2> HIDE DEF c, next, zero, off, on
  <2>4. MretTaken(CsrRecord(csr.mstatus_mie, csr.mstatus_mpie, csr.mie, csr.mtvec,
            csr.mscratch, csr.mepc, csr.mcause, csr.mtval, zero, csr.minstret),
            csr.mstatus_mpie, on) =
          CsrRecord(csr.mstatus_mpie, on, csr.mie, csr.mtvec, csr.mscratch,
            csr.mepc, csr.mcause, csr.mtval, zero, csr.minstret)
    BY MretRecord, SMT
  <2>5. Retired(CsrRecord(csr.mstatus_mpie, on, csr.mie, csr.mtvec, csr.mscratch,
            csr.mepc, csr.mcause, csr.mtval, zero, csr.minstret)) =
          CsrRecord(csr.mstatus_mpie, on, csr.mie, csr.mtvec, csr.mscratch,
            csr.mepc, csr.mcause, csr.mtval, zero, Increment(csr.minstret))
    BY CountedRecord, SMT
  <2>7. next =
          CsrRecord(csr.mstatus_mpie, on, csr.mie, csr.mtvec, csr.mscratch,
            csr.mepc, csr.mcause, csr.mtval, zero, Increment(csr.minstret))
    BY <2>3, Zenon DEF CsrSeen, CsrRecord, zero
  <2>8. QED
    BY <1>4, <1>5, <2>2, <2>4, <2>5, <2>7, Zenon DEF next
<1>8. CASE ~ exc.valid /\ ~ Arch!Mret(i) /\ ~ Arch!WritesCsr(i)
  <2>6. \A n : Arch!Increment(n) = Increment(n)
    BY SameCsrs
  <2>2. Arch!CsrAfter(i, exc, csr.mcycle) =
          Retired(c)
    BY <1>8, <2>6, Zenon DEF Arch!CsrAfter, Arch!Counted, ArchCsr, Retired
  <2>3. next = CsrSeen(csr.mstatus_mie, csr.mstatus_mpie, csr.mie, csr.mtvec,
                 csr.mscratch, csr.mepc, csr.mcause, csr.mtval,
                 Increment(csr.minstret))
    BY <1>1, <1>2, <1>8, CsrNextPlain, Zenon
  <2> HIDE DEF c, next, zero, off, on
  <2>5. Retired(CsrRecord(csr.mstatus_mie, csr.mstatus_mpie, csr.mie, csr.mtvec,
            csr.mscratch, csr.mepc, csr.mcause, csr.mtval, zero, csr.minstret)) =
          CsrRecord(csr.mstatus_mie, csr.mstatus_mpie, csr.mie, csr.mtvec,
            csr.mscratch, csr.mepc, csr.mcause, csr.mtval, zero,
            Increment(csr.minstret))
    BY CountedRecord, SMT
  <2>7. next =
          CsrRecord(csr.mstatus_mie, csr.mstatus_mpie, csr.mie, csr.mtvec,
            csr.mscratch, csr.mepc, csr.mcause, csr.mtval, zero,
            Increment(csr.minstret))
    BY <2>3, Zenon DEF CsrSeen, CsrRecord, zero
  <2>8. QED
    BY <1>4, <2>2, <2>5, <2>7, Zenon DEF next
<1>9. CASE ~ exc.valid /\ ~ Arch!Mret(i) /\ Arch!WritesCsr(i)
  <2> DEFINE v == CsrWval(csr, p)
             a == Imm12(i)
             d == CsrWritten(csr, a, v)
  <2>1. Arch!IsCsrForm(i) /\ IsCsrForm(i)
    BY <1>9, SameDecode, Zenon DEF Arch!WritesCsr
  <2>2. /\ p.addr = a /\ p.op = CsrOpOf(i) /\ p.irq = NoIrq
        /\ p.wdata = IF i.funct3 >= 4 THEN i.rs1 ELSE Arch!Reg(i.rs1)
    BY <2>1, PortsOf
  <2>3. Arch!CsrAfter(i, exc, csr.mcycle) =
          [Arch!Counted(i, Arch!CsrWritten(i, [c EXCEPT !.mcycle = csr.mcycle]))
             EXCEPT !.mcycle = Arch!ZeroCounter]
    BY <1>9, Zenon DEF Arch!CsrAfter, ArchCsr
  <2>4. [c EXCEPT !.mcycle = csr.mcycle] = csr
    BY CounterRestored DEF InEx, SafetyInv, ArchCsr
  <2>5. Arch!CsrWritten(i, csr) = d
    <3> DEFINE src == IF i.funct3 >= 4 THEN i.rs1 ELSE Arch!Reg(i.rs1)
               old == CsrRdata(csr, a, NoIrq)
               w == CASE CsrOpOf(i) = "RW" -> src
                      [] CsrOpOf(i) = "RS" -> BitOr(old, src)
                      [] OTHER -> BitAnd(old, BitNot(src))
    <3>1. /\ Arch!Imm12(i) = a /\ Arch!CsrOpOf(i) = CsrOpOf(i)
          /\ Arch!CsrRdata(csr, a, Arch!NoIrq) = old
      BY SameDecode, SameCsrs, Zenon
    <3>2. Arch!CsrWritten(i, csr) = CsrWritten(csr, a, w)
      <4>1. /\ \A x : /\ Arch!MaskMie(x) = MaskMie(x) /\ Arch!Bit3(x) = Bit3(x)
                      /\ Arch!Bit7(x) = Bit7(x) /\ Arch!AlignDown(x) = AlignDown(x)
                      /\ Arch!BitNot(x) = BitNot(x)
            /\ \A x, y : /\ Arch!BitAnd(x, y) = BitAnd(x, y)
                         /\ Arch!BitOr(x, y) = BitOr(x, y)
        BY SameWords, SameBitOps, SameCsrs
      <4> HIDE DEF a
      <4>2. QED
        BY <3>1, <4>1, Zenon DEF Arch!CsrWritten, CsrWritten,
           Arch!CSR_MSTATUS, CSR_MSTATUS, Arch!CSR_MIE, CSR_MIE,
           Arch!CSR_MTVEC, CSR_MTVEC, Arch!CSR_MSCRATCH, CSR_MSCRATCH,
           Arch!CSR_MEPC, CSR_MEPC, Arch!CSR_MCAUSE, CSR_MCAUSE,
           Arch!CSR_MTVAL, CSR_MTVAL, Arch!CSR_MINSTRET, CSR_MINSTRET,
           Arch!CSR_MINSTRETH, CSR_MINSTRETH
    <3>3. w = v
      <4> DEFINE op == CsrOpOf(i)
      <4>1. op \in {"RW", "RS", "RC"}
        BY <2>1, <1>1, CsrOpOfType, CsrOpFacts DEF CsrOps
      <4>2. CsrRdata(csr, p.addr, p.irq) = old /\ p.wdata = src /\ p.op = op
        BY <2>2
      <4> HIDE DEF op, old, src
      <4>3. QED
        BY <4>1, <4>2, SMT DEF CsrWval, op
    <3>4. QED
      BY <3>2, <3>3, Zenon
  <2>6. next = CsrWriteSeen(csr, a, v)
    <3>1. ~ p.trap_valid /\ ~ p.mret /\ DoWrite(p) /\ p.instr_retired
      BY <1>2, <1>9, Zenon
    <3>2. next = CsrWriteSeen(csr, p.addr, v)
      BY <1>1, <3>1, CsrNextWrite, Zenon
    <3>3. QED
      BY <2>2, <3>2, Zenon
  <2>7. (Arch!Imm12(i) \in {Arch!CSR_MINSTRET, Arch!CSR_MINSTRETH})
          <=> a \in {CSR_MINSTRET, CSR_MINSTRETH}
    <3>1. /\ Arch!CSR_MINSTRET = CSR_MINSTRET
          /\ Arch!CSR_MINSTRETH = CSR_MINSTRETH
      BY DEF Arch!CSR_MINSTRET, CSR_MINSTRET, Arch!CSR_MINSTRETH, CSR_MINSTRETH
    <3>2. QED
      BY <3>1, SameDecode, Zenon
  <2>8. Arch!Counted(i, d) =
          IF a \in {CSR_MINSTRET, CSR_MINSTRETH} THEN d
          ELSE [d EXCEPT !.minstret = Increment(@)]
    BY <1>9, <2>7, SameCsrs, Zenon DEF Arch!Counted
  <2>9. Arch!ZeroCounter = zero
    BY DEF Arch!ZeroCounter
  <2>10. Arch!CsrAfter(i, exc, csr.mcycle) =
           [Arch!Counted(i, d) EXCEPT !.mcycle = zero]
    BY <2>3, <2>4, <2>5, <2>9, Zenon
  <2> HIDE DEF a, v
  <2>11. /\ a \in {CSR_MINSTRET, CSR_MINSTRETH} =>
              [d EXCEPT !.mcycle = [lo |-> 0, hi |-> 0]] = CsrWriteSeen(csr, a, v)
         /\ a \notin {CSR_MINSTRET, CSR_MINSTRETH} =>
              [[d EXCEPT !.minstret = Increment(@)]
                 EXCEPT !.mcycle = [lo |-> 0, hi |-> 0]] = CsrWriteSeen(csr, a, v)
    BY <1>1, CsrWrittenWrite, Zenon
  <2>12. CASE a \in {CSR_MINSTRET, CSR_MINSTRETH}
    BY <2>6, <2>8, <2>10, <2>11, <2>12, Zenon
  <2>13. CASE a \notin {CSR_MINSTRET, CSR_MINSTRETH}
    BY <2>6, <2>8, <2>10, <2>11, <2>13, Zenon
  <2>14. QED
    BY <2>12, <2>13
<1>10. QED
  BY <1>6, <1>7, <1>8, <1>9

-----------------------------------------------------------------------------
(* The program counter of the sequential machine.                          *)
LEMMA PcIsArchitectural ==
  ASSUME NEW i, InEx(i), StagesInOrder, Tick,
         NEW exc, exc = Arch!Exception(id_ex.instr, i)
  PROVE  ArchPc' = Arch!PcAfter(i, exc)
<1> DEFINE taken == Taken(Rs1, Rs2)
           exr   == ExRedirect(Rs1, Rs2, exc)
<1>1. /\ i \in Instr /\ id_ex.ctrl = Decode(i) /\ id_ex.valid
      /\ ArchPc = id_ex.pc
  BY InExFacts DEF InEx
<1>2. exc = Trap(Rs1, Rs2)
  BY TrapIsException
<1>3. /\ pc' = PcNext /\ if_id' = IfIdNext(exr.valid \/ redirect.valid)
      /\ id_ex' = IdExNext(exr.valid) /\ redirect' = exr
  BY <1>2 DEF Tick
<1>4. /\ MretInEx <=> Arch!Mret(i)
      /\ FenceiInEx <=> i.opcode = "MISCMEM" /\ i.funct3 = 1
      /\ taken <=> Arch!Transfers(i)
      /\ taken => Target(Rs1) = Arch!Destination(i)
  <2>1. Decode(i).is_mret = Mret(i) /\ Arch!Mret(i) = Mret(i)
    BY SameDecode DEF Decode
  <2>2. Decode(i).is_fencei = (i.opcode = "MISCMEM" /\ i.funct3 = 1)
    BY DEF Decode
  <2>3. QED
    BY <1>1, <2>1, <2>2, TransferIsArchitectural DEF MretInEx, FenceiInEx
<1>5. Arch!Mret(i) => i.opcode = "SYSTEM"
  BY DEF Arch!Mret, Arch!Privileged, Arch!IsPrivileged
<1>6. Arch!Transfers(i) => i.opcode \in {"JAL", "JALR", "BRANCH"}
  BY DEF Arch!Transfers
<1>7. /\ exr.valid <=> exc.valid \/ MretInEx \/ FenceiInEx \/ taken
      /\ exc.valid => exr.pc = csr.mtvec
      /\ ~ exc.valid /\ MretInEx => exr.pc = csr.mepc
      /\ ~ exc.valid /\ ~ MretInEx /\ FenceiInEx => exr.pc = ToWord(id_ex.pc + 4)
      /\ ~ exc.valid /\ ~ MretInEx /\ ~ FenceiInEx => exr.pc = Target(Rs1)
  BY DEF ExRedirect
<1>8. Arch!PcAfter(i, exc) =
        IF exc.valid THEN csr.mtvec
        ELSE IF Arch!Mret(i) THEN csr.mepc
        ELSE IF Arch!Transfers(i) THEN Arch!Destination(i)
        ELSE ToWord(ArchPc + 4)
  <2>1. csr \in CsrType
    BY DEF InEx, SafetyInv, TypeOK
  <2>2. /\ [csr EXCEPT !.mcycle = [lo |-> 0, hi |-> 0]].mtvec = csr.mtvec
        /\ [csr EXCEPT !.mcycle = [lo |-> 0, hi |-> 0]].mepc = csr.mepc
    BY <2>1 DEF CsrType
  <2>3. ~ (Arch!Mret(i) /\ Arch!Transfers(i))
    BY <1>5, <1>6
  <2>4. Arch!ToWord(ArchPc + 4) = ToWord(ArchPc + 4)
    BY SameWords
  <2>5. CASE exc.valid
    BY <2>2, <2>5, Zenon DEF Arch!PcAfter
  <2>6. CASE ~ exc.valid /\ Arch!Mret(i)
    BY <2>2, <2>3, <2>6, Zenon DEF Arch!PcAfter
  <2>7. CASE ~ exc.valid /\ Arch!Transfers(i)
    BY <2>2, <2>3, <2>7, Zenon DEF Arch!PcAfter
  <2>8. CASE ~ exc.valid /\ ~ Arch!Mret(i) /\ ~ Arch!Transfers(i)
    BY <2>4, <2>8, Zenon DEF Arch!PcAfter
  <2>9. QED
    BY <2>5, <2>6, <2>7, <2>8, Zenon
<1>9. CASE exr.valid
  <2>1. ArchPc' = exr.pc
    BY <1>3, <1>9, Zenon DEF ArchPc, IdExNext, IdExZero
  <2> HIDE DEF exr, taken
  <2>2. exr.pc = IF exc.valid THEN csr.mtvec
                 ELSE IF MretInEx THEN csr.mepc
                 ELSE IF taken THEN Target(Rs1)
                 ELSE ToWord(id_ex.pc + 4)
    BY <1>4, <1>6, <1>7, <1>9
  <2>3. QED
    BY <1>1, <1>4, <1>8, <2>1, <2>2, Zenon
<1>10. CASE ~ exr.valid
  <2> HIDE DEF exr, taken
  <2>1. Arch!PcAfter(i, exc) = ToWord(id_ex.pc + 4)
    BY <1>1, <1>4, <1>7, <1>8, <1>10, Zenon
  <2>2. if_id.valid /\ if_id.pc = ToWord(id_ex.pc + 4) /\ ~ redirect.valid
    BY <1>1 DEF StagesInOrder
  <2>3. CASE Stall
    <3>1. ~ id_ex'.valid /\ if_id' = if_id
      BY <1>3, <1>10, <2>2, <2>3, Zenon DEF IdExNext, IfIdNext, IdExZero
    <3>2. QED
      BY <1>3, <1>10, <2>1, <2>2, <3>1, Zenon DEF ArchPc
  <2>4. CASE ~ Stall
    <3>1. id_ex'.valid /\ id_ex'.pc = if_id.pc
      BY <1>3, <1>10, <2>2, <2>4, Zenon DEF IdExNext, IdExLoad
    <3>2. QED
      BY <2>1, <2>2, <3>1, Zenon DEF ArchPc
  <2>5. QED
    BY <2>3, <2>4
<1>11. QED
  BY <1>9, <1>10

(* An empty EX leaves the machine where it is. *)
LEMMA EmptyIsNothing ==
  ASSUME TypeOK, StagesInOrder, ~ id_ex.valid, Tick
  PROVE  /\ ArchPc' = ArchPc
         /\ ~ ex_mem'.valid
         /\ mem' = MemNext /\ MemNext' = MemNext
         /\ ~ redirect'.valid
         /\ if_id' = IF redirect.valid THEN IfIdBubble
                     ELSE [valid |-> TRUE, pc |-> pc, instr |-> mem[Index(pc)]]
         /\ id_ex' = IdExLoad
<1> DEFINE exr == ExRedirect(Rs1, Rs2, Trap(Rs1, Rs2))
<1>1. /\ pc' = PcNext /\ if_id' = IfIdNext(exr.valid \/ redirect.valid)
      /\ id_ex' = IdExNext(exr.valid) /\ redirect' = exr
      /\ ex_mem' = ExMemLoad(Rs1, Rs2, Trap(Rs1, Rs2)) /\ mem' = MemNext
  BY DEF Tick
<1>2. ~ exr.valid /\ ~ Stall
  BY EmptyEx
<1> HIDE DEF exr
<1>3. /\ ~ redirect'.valid /\ ~ ex_mem'.valid
      /\ id_ex' = IdExLoad
      /\ if_id' = IF redirect.valid THEN IfIdBubble
                  ELSE [valid |-> TRUE, pc |-> pc, instr |-> mem[Index(pc)]]
  BY <1>1, <1>2, Zenon DEF ExMemLoad, IdExNext, IfIdNext
<1>4. MemNext' = MemNext
  BY <1>1, <1>3 DEF MemNext, DmemWe
<1>5. id_ex'.valid = if_id.valid /\ id_ex'.pc = if_id.pc
  BY <1>3 DEF IdExLoad
<1>6. ArchPc' = ArchPc
  <2>1. CASE redirect.valid
    <3>1. ~ if_id.valid /\ ~ if_id'.valid /\ pc' = redirect.pc
      BY <1>1, <1>3, <2>1 DEF StagesInOrder, PcNext, IfIdBubble
    <3>2. QED
      BY <1>3, <1>5, <2>1, <3>1, Zenon DEF ArchPc
  <2>2. CASE ~ redirect.valid
    <3>1. if_id'.valid /\ if_id'.pc = pc
      BY <1>3, <2>2
    <3>2. QED
      BY <1>3, <1>5, <2>2, <3>1, Zenon DEF ArchPc
  <2>3. QED
    BY <2>1, <2>2
<1>7. QED
  BY <1>1, <1>3, <1>4, <1>6

(* A bubble changes nothing the machine can see of the CSRs. *)
LEMMA EmptyCsr ==
  ASSUME TypeOK, ~ id_ex.valid, Tick
  PROVE  ArchCsr' = ArchCsr
<1> DEFINE p == CsrPorts(Rs1, NoTrap)
<1>1. csr' = CsrNext(csr, p)
  BY EmptyEx DEF Tick
<1>2. /\ ~ p.trap_valid /\ ~ p.mret /\ ~ p.write /\ ~ p.instr_retired
  BY DEF CsrPorts, NoTrap, MretInEx, CsrWriteReq, InstrRetired
<1>3. ~ DoWrite(p)
  BY <1>2 DEF DoWrite
<1>4. csr \in CsrType
  BY DEF TypeOK
<1> HIDE DEF p
<1>5. [CsrNext(csr, p) EXCEPT !.mcycle = [lo |-> 0, hi |-> 0]]
        = CsrSeen(csr.mstatus_mie, csr.mstatus_mpie, csr.mie, csr.mtvec,
            csr.mscratch, csr.mepc, csr.mcause, csr.mtval, csr.minstret)
  BY <1>2, <1>3, <1>4, CsrNextIdle, Zenon
<1>6. QED
  BY <1>1, <1>4, <1>5, HideMcycle, Zenon DEF ArchCsr

-----------------------------------------------------------------------------
(* The words a fetch may return.                                           *)
LEMMA TickFetchesSeen ==
  ASSUME SafetyInv, ExHoldsInstr, FetchesSeen, StagesInOrder, LockstepTick
  PROVE  FetchesSeen'
<1> DEFINE i   == InstrOf[id_ex.instr]
           exr == ExRedirect(Rs1, Rs2, Trap(Rs1, Rs2))
           fence == i.opcode = "MISCMEM" /\ i.funct3 = 1
<1>1. /\ TypeOK /\ Tick
      /\ if_id' = IfIdNext(exr.valid \/ redirect.valid)
      /\ id_ex' = IdExNext(exr.valid) /\ mem' = MemNext
      /\ seen' = IF id_ex.valid THEN Arch!SeenAfter(i, MemNext') ELSE seen
  BY DEF LockstepTick, Tick, SafetyInv, Observe
<1>2. Arch!TcmIndex = TcmIndex
  BY DEF Arch!TcmIndex, TcmIndex
<1>3. \A k \in TcmIndex : mem[k] \in seen[k] /\ MemNext[k] \in seen[k]
  BY DEF FetchesSeen
<1>4. Index(pc) \in TcmIndex /\ Index(if_id.pc) \in TcmIndex
  BY <1>1, IndexType DEF TypeOK, IfIdType
<1>5. if_id'.valid => Index(if_id'.pc) \in TcmIndex
                        /\ if_id'.instr \in seen[Index(if_id'.pc)]
  <2>1. if_id' \in {IfIdBubble, if_id,
                    [valid |-> TRUE, pc |-> pc, instr |-> mem[Index(pc)]]}
    BY <1>1 DEF IfIdNext
  <2>2. CASE if_id' = IfIdBubble
    BY <2>2 DEF IfIdBubble
  <2>3. CASE if_id' = if_id
    BY <1>4, <2>3, Zenon DEF FetchesSeen
  <2>4. CASE if_id' = [valid |-> TRUE, pc |-> pc, instr |-> mem[Index(pc)]]
    <3>1. if_id'.pc = pc /\ if_id'.instr = mem[Index(pc)]
      BY <2>4
    <3>2. QED
      BY <1>3, <1>4, <3>1, Zenon
  <2>5. QED
    BY <2>1, <2>2, <2>3, <2>4
<1>6. id_ex'.valid => Index(id_ex'.pc) \in TcmIndex
                        /\ id_ex'.instr \in seen[Index(id_ex'.pc)]
  <2>1. id_ex' = IdExZero \/ id_ex' = IdExLoad
    BY <1>1 DEF IdExNext
  <2>2. CASE id_ex' = IdExZero
    BY <2>2 DEF IdExZero
  <2>3. CASE id_ex' = IdExLoad
    <3>1. /\ id_ex'.valid = if_id.valid /\ id_ex'.pc = if_id.pc
          /\ id_ex'.instr = if_id.instr
      BY <2>3 DEF IdExLoad
    <3>2. QED
      BY <1>4, <3>1, Zenon DEF FetchesSeen
  <2>4. QED
    BY <2>1, <2>2, <2>3
<1>7. CASE ~ id_ex.valid
  <2>1. MemNext' = MemNext /\ seen' = seen
    BY <1>1, <1>7, EmptyIsNothing
  <2>2. QED
    BY <1>1, <1>3, <1>5, <1>6, <2>1, Zenon DEF FetchesSeen
<1>8. CASE id_ex.valid /\ fence
  <2>1. InEx(i) /\ id_ex.ctrl = Decode(i)
    BY <1>8, InExFacts DEF InEx
  <2>2. FenceiInEx
    <3>1. Decode(i).is_fencei = fence
      BY DEF Decode
    <3>2. QED
      BY <1>8, <2>1, <3>1 DEF FenceiInEx
  <2>3. exr.valid
    BY <2>2 DEF ExRedirect
  <2>4. ~ if_id'.valid /\ ~ id_ex'.valid
    BY <1>1, <2>3, Zenon DEF IfIdNext, IfIdBubble, IdExNext, IdExZero
  <2>5. MemNext' = MemNext
    <3>1. (~ Arch!Exception(id_ex.instr, i).valid /\ i.opcode = "STORE") = FALSE
      BY <1>8
    <3>2. QED
      BY <1>1, <2>1, <3>1, StoreIsArchitectural
  <2>6. seen' = [k \in TcmIndex |-> {MemNext'[k]}]
    BY <1>1, <1>2, <1>8 DEF Arch!SeenAfter, Arch!Synced
  <2>7. \A k \in TcmIndex : mem'[k] \in seen'[k] /\ MemNext'[k] \in seen'[k]
    BY <1>1, <2>5, <2>6
  <2>8. QED
    BY <2>4, <2>7, Zenon DEF FetchesSeen
<1>9. CASE id_ex.valid /\ ~ fence
  <2>1. seen' = [k \in TcmIndex |-> seen[k] \cup {MemNext'[k]}]
    BY <1>1, <1>2, <1>9 DEF Arch!SeenAfter
  <2>2. \A k \in TcmIndex : seen'[k] = seen[k] \cup {MemNext'[k]}
    BY <2>1
  <2>3. \A k \in TcmIndex : mem'[k] \in seen'[k] /\ MemNext'[k] \in seen'[k]
    BY <1>1, <1>3, <2>2
  <2>4. \A k \in TcmIndex : \A w : w \in seen[k] => w \in seen'[k]
    BY <2>2
  <2>5. QED
    BY <1>5, <1>6, <2>3, <2>4, Zenon DEF FetchesSeen
<1>10. QED
  BY <1>7, <1>8, <1>9

-----------------------------------------------------------------------------
(* The retirement records.                                                 *)
LEMMA TickTrace ==
  ASSUME TypeOK, MemMatchesISA, LockstepTick
  PROVE  TraceMatchesISA'
<1>1. Tick /\ expected'.in_wb = expected.in_mem
  BY DEF LockstepTick, Observe
<1>2. /\ WbData' = MemResult
      /\ mem_wb'.ctrl.rd_addr = ex_mem.ctrl.rd_addr
  BY <1>1, WbDataNext
<1>3. /\ mem_wb'.valid = ex_mem.valid /\ mem_wb'.ctrl = ex_mem.ctrl
      /\ trace' = TraceNext
  BY <1>1 DEF Tick, MemWbNext
<1>4. WbWe' = (ex_mem.valid /\ ex_mem.ctrl.reg_write)
  BY <1>3 DEF WbWe
<1>5. /\ trace'.pc = ex_mem.pc
      /\ trace'.mem_we = (ex_mem.valid /\ ex_mem.ctrl.mem_write)
      /\ trace'.mem_addr = ex_mem.alu_result
      /\ trace'.mem_wdata = ex_mem.rs2_data
  BY <1>3 DEF TraceNext
<1>6. ex_mem.valid \in BOOLEAN /\ ex_mem.ctrl.mem_write \in BOOLEAN
      /\ ex_mem.ctrl.reg_write \in BOOLEAN
  BY DEF TypeOK, ExMemType, CtrlType
<1> DEFINE r == expected.in_mem
<1>7. /\ ex_mem.valid = r.valid
      /\ r.valid =>
           /\ ex_mem.pc = r.pc
           /\ (IF ex_mem.ctrl.reg_write THEN ex_mem.ctrl.rd_addr ELSE 0) = r.rd
           /\ r.rd # 0 => MemResult = r.value
           /\ ex_mem.ctrl.mem_write = r.stores
           /\ r.stores =>
                ex_mem.alu_result = r.addr /\ ex_mem.rs2_data = r.data
  BY DEF MemMatchesISA
<1> HIDE DEF r
<1>8. expected'.in_wb = r
  BY <1>1 DEF r
<1>9. mem_wb'.valid = r.valid
  BY <1>3, <1>7
<1>10. ASSUME r.valid
       PROVE  /\ trace'.pc = r.pc
              /\ (IF WbWe' THEN mem_wb'.ctrl.rd_addr ELSE 0) = r.rd
              /\ r.rd # 0 => WbData' = r.value
              /\ trace'.mem_we = r.stores
              /\ r.stores => trace'.mem_addr = r.addr /\ trace'.mem_wdata = r.data
  <2>1. /\ ex_mem.valid /\ WbWe' = ex_mem.ctrl.reg_write
        /\ trace'.mem_we = ex_mem.ctrl.mem_write
    BY <1>4, <1>5, <1>6, <1>7, <1>10
  <2>2. QED
    BY <1>2, <1>5, <1>7, <1>10, <2>1, Zenon
<1>11. QED
  BY <1>8, <1>9, <1>10, Zenon DEF TraceMatchesISA

LEMMA TickMemMatches ==
  ASSUME SafetyInv, ExHoldsInstr, LockstepTick,
         NEW i, i = InstrOf[id_ex.instr],
         NEW exc, exc = Arch!Exception(id_ex.instr, i)
  PROVE  MemMatchesISA'
<1>1. Tick /\ expected'.in_mem = IF id_ex.valid
                                   THEN Arch!Record(id_ex.instr, csr.mcycle)
                                   ELSE Arch!NoRecord
  BY DEF LockstepTick, Observe
<1>2. CASE ~ id_ex.valid
  <2>1. ex_mem'.valid = id_ex.valid /\ id_ex.valid \in BOOLEAN
    BY <1>1 DEF Tick, ExMemLoad, SafetyInv, TypeOK, IdExType
  <2>2. expected'.in_mem.valid = FALSE
    BY <1>1, <1>2 DEF Arch!NoRecord
  <2>3. QED
    BY <1>2, <2>1, <2>2 DEF MemMatchesISA
<1>3. CASE id_ex.valid
  <2> DEFINE wr == ~ exc.valid /\ Arch!WritesRd(i)
             st == ~ exc.valid /\ i.opcode = "STORE"
             r  == expected'.in_mem
  <2>1. InEx(i)
    BY <1>3 DEF InEx
  <2>2. /\ r.valid = TRUE /\ r.pc = ArchPc
        /\ r.rd = IF wr THEN i.rd ELSE 0
        /\ r.value = IF wr THEN Arch!Result(i, csr.mcycle) ELSE 0
        /\ r.stores = st
        /\ r.addr = IF st THEN Arch!Address(i) ELSE 0
        /\ r.data = IF st THEN Arch!Reg(i.rs2) ELSE 0
    <3>1. r = [valid  |-> TRUE,
               pc     |-> ArchPc,
               rd     |-> IF wr THEN i.rd ELSE 0,
               value  |-> IF wr THEN Arch!Result(i, csr.mcycle) ELSE 0,
               stores |-> st,
               addr   |-> IF st THEN Arch!Address(i) ELSE 0,
               data   |-> IF st THEN Arch!Reg(i.rs2) ELSE 0]
      BY <1>1, <1>3, Zenon DEF Arch!Record
    <3> HIDE DEF r, wr, st
    <3>2. QED
      BY <3>1, Zenon
  <2>3. /\ ex_mem'.valid = TRUE /\ ex_mem'.pc = ArchPc
        /\ ex_mem'.ctrl.rd_addr = i.rd
        /\ ex_mem'.ctrl.reg_write <=> Decode(i).reg_write /\ ~ exc.valid
        /\ ex_mem'.ctrl.mem_write = st
        /\ ex_mem'.alu_result = IF IsCsrForm(i) THEN CsrRead
                                                ELSE AluOut(Rs1, Rs2)
        /\ ex_mem'.rs2_data = Rs2
    <3>1. Tick
      BY <1>1
    <3>2. /\ ex_mem'.valid = TRUE /\ ex_mem'.pc = ArchPc
          /\ ex_mem'.ctrl.rd_addr = i.rd
          /\ ex_mem'.alu_result = IF IsCsrForm(i) THEN CsrRead
                                                  ELSE AluOut(Rs1, Rs2)
          /\ ex_mem'.rs2_data = Rs2
      BY <2>1, <3>1, InMem
    <3>3. ex_mem'.ctrl.mem_write = st
      BY <2>1, <3>1, InMem
    <3>4. ex_mem'.ctrl.reg_write <=> Decode(i).reg_write /\ ~ exc.valid
      BY <2>1, <3>1, InMem
    <3>5. QED
      BY <3>2, <3>3, <3>4
  <2>4. wr => MemResult' = Arch!Result(i, csr.mcycle)
    BY <1>1, <2>1, ResultIsArchitectural
  <2>5. Arch!WritesRd(i) <=> i.rd # 0 /\ Decode(i).reg_write
    BY SameDecode, Zenon DEF Arch!WritesRd, Decode
  <2>6. st => ex_mem'.alu_result = Arch!Address(i) /\ Rs2 = Arch!Reg(i.rs2)
    <3>1. i.opcode = "STORE" => ~ IsCsrForm(i)
      BY DEF IsCsrForm
    <3>2. QED
      BY <2>1, <2>3, <3>1, AddressIsArchitectural, InExFacts, DecodeUses
  <2> HIDE DEF r
  <2>7. (IF ex_mem'.ctrl.reg_write THEN ex_mem'.ctrl.rd_addr ELSE 0) = r.rd
    BY <2>2, <2>3, <2>5
  <2>8. r.rd # 0 => MemResult' = r.value
    BY <2>2, <2>4
  <2>9. ex_mem'.ctrl.mem_write = r.stores
    BY <2>2, <2>3
  <2>10. r.stores => ex_mem'.alu_result = r.addr /\ ex_mem'.rs2_data = r.data
    BY <2>2, <2>3, <2>6
  <2>11. QED
    BY <2>2, <2>3, <2>7, <2>8, <2>9, <2>10, Zenon DEF MemMatchesISA, r
<1>4. QED
  BY <1>2, <1>3

-----------------------------------------------------------------------------
(* After a reset, and at the start. *)
Fresh ==
  /\ pc = 0 /\ if_id = IfIdBubble /\ id_ex = IdExZero /\ ex_mem = ExMemZero
  /\ mem_wb = MemWbZero /\ redirect = NoRedirect /\ regs = RegsZero
  /\ csr = CsrReset
  /\ seen = Arch!Synced(mem)
  /\ expected = [in_mem |-> Arch!NoRecord, in_wb |-> Arch!NoRecord]

LEMMA FreshMatches ==
  Fresh => ExHoldsInstr /\ FetchesSeen /\ MemMatchesISA /\ TraceMatchesISA
<1> SUFFICES ASSUME Fresh
             PROVE  ExHoldsInstr /\ FetchesSeen /\ MemMatchesISA /\ TraceMatchesISA
  OBVIOUS
<1>1. /\ if_id.valid = FALSE /\ id_ex.valid = FALSE /\ ex_mem.valid = FALSE
      /\ mem_wb.valid = FALSE
      /\ expected.in_mem.valid = FALSE /\ expected.in_wb.valid = FALSE
  BY DEF Fresh, IfIdBubble, IdExZero, ExMemZero, MemWbZero, Arch!NoRecord
<1>2. MemNext = mem
  BY <1>1 DEF MemNext, DmemWe
<1>3. \A k \in TcmIndex : seen[k] = {mem[k]}
  BY DEF Fresh, Arch!Synced, Arch!TcmIndex, TcmIndex
<1>4. FetchesSeen
  BY <1>1, <1>2, <1>3, Zenon DEF FetchesSeen
<1>5. ExHoldsInstr /\ MemMatchesISA /\ TraceMatchesISA
  BY <1>1 DEF ExHoldsInstr, MemMatchesISA, TraceMatchesISA
<1>6. QED
  BY <1>4, <1>5

LEMMA FreshMachine ==
  Fresh => /\ ArchPc = 0 /\ MemNext = mem /\ ArchCsr = CsrReset
           /\ [r \in 1 .. 31 |-> ArchReg(r)] = [r \in 1 .. 31 |-> 0]
<1> SUFFICES ASSUME Fresh
             PROVE  /\ ArchPc = 0 /\ MemNext = mem /\ ArchCsr = CsrReset
                    /\ [r \in 1 .. 31 |-> ArchReg(r)] = [r \in 1 .. 31 |-> 0]
  OBVIOUS
<1>1. /\ ~ if_id.valid /\ ~ id_ex.valid /\ ~ ex_mem.valid
      /\ ~ mem_wb.valid /\ ~ redirect.valid
  BY DEF Fresh, IfIdBubble, IdExZero, ExMemZero, MemWbZero, NoRedirect
<1>2. MemNext = mem
  BY <1>1 DEF MemNext, DmemWe
<1>3. ArchPc = 0
  BY <1>1 DEF ArchPc, Fresh
<1>4. ArchCsr = CsrReset
  BY DEF ArchCsr, Fresh, CsrReset
<1>5. \A r \in 1 .. 31 : ArchReg(r) = 0
  BY <1>1 DEF ArchReg, Produces, Fresh, RegsZero
<1>6. QED
  BY <1>2, <1>3, <1>4, <1>5

LEMMA InitFresh == LockstepInit => Fresh
  BY DEF LockstepInit, Init, Fresh

LEMMA ResetFresh == LockstepReset => Fresh'
  BY DEF LockstepReset, Reset, Fresh, Arch!Synced

LEMMA InitLockstep == LockstepInit => LockstepInv
  BY InitFlow, InitFresh, FreshMatches DEF LockstepInv

LEMMA NextLockstep == LockstepInv /\ [LockstepNext]_allVars => LockstepInv'
<1> SUFFICES ASSUME LockstepInv, [LockstepNext]_allVars
             PROVE  LockstepInv'
  OBVIOUS
<1>1. /\ FlowInv' /\ SafetyInv /\ StagesInOrder /\ TypeOK
      /\ ExHoldsInstr /\ FetchesSeen /\ MemMatchesISA
  BY NextFlow DEF LockstepInv, FlowInv, SafetyInv
<1>2. CASE LockstepTick
  <2>1. ExHoldsInstr'
    BY <1>1, <1>2, TickExHoldsInstr DEF LockstepTick
  <2>2. FetchesSeen' /\ MemMatchesISA' /\ TraceMatchesISA'
    BY <1>1, <1>2, TickFetchesSeen, TickMemMatches, TickTrace
  <2>3. QED
    BY <1>1, <2>1, <2>2 DEF LockstepInv
<1>3. CASE LockstepReset
  <2>1. Fresh'
    BY <1>3, ResetFresh
  <2>2. (ExHoldsInstr /\ FetchesSeen /\ MemMatchesISA /\ TraceMatchesISA)'
    BY <2>1, FreshMatches, PTL
  <2>3. QED
    BY <1>1, <2>2 DEF LockstepInv
<1>4. CASE UNCHANGED allVars
  <2>1. /\ UNCHANGED <<pc, if_id, id_ex, ex_mem, mem_wb, redirect, regs, csr>>
        /\ UNCHANGED <<trace, mem, seen, expected>>
    BY <1>4 DEF allVars, vars, flops
  <2>2. /\ UNCHANGED MemNext /\ UNCHANGED MemResult /\ UNCHANGED WbData
        /\ UNCHANGED WbWe
    BY <2>1 DEF MemNext, DmemWe, IsPeriph, Offset, MemResult, LoadedData,
       WbData, WbWe
  <2>3. ExHoldsInstr' /\ FetchesSeen'
    BY <1>1, <2>1, <2>2, Zenon DEF ExHoldsInstr, FetchesSeen, RegRead
  <2>4. MemMatchesISA' /\ TraceMatchesISA'
    BY <2>1, <2>2, Zenon DEF LockstepInv, MemMatchesISA, TraceMatchesISA
  <2>5. QED
    BY <1>1, <2>3, <2>4 DEF LockstepInv
<1>5. QED
  BY <1>2, <1>3, <1>4 DEF LockstepNext

LEMMA LockstepInvariant == LockstepSpec => []LockstepInv
  BY InitLockstep, NextLockstep, PTL DEF LockstepSpec

(* Each retirement carries the record the sequential machine predicts for  *)
(* the instruction that executed three edges before: nothing is retired    *)
(* twice, dropped, or retired from the wrong path, and a trapping          *)
(* instruction retires once and writes nothing.                            *)
THEOREM TraceIsArchitectural == LockstepSpec => []TraceMatchesISA
  BY LockstepInvariant, PTL DEF LockstepInv

-----------------------------------------------------------------------------
(* The refinement.                                                         *)
LEMMA InitImplements == LockstepInit => Arch!Init
<1> SUFFICES ASSUME LockstepInit
             PROVE  Arch!Init
  OBVIOUS
<1>1. Fresh
  BY InitFresh
<1>2. mem \in [Arch!TcmIndex -> Arch!Word]
  BY ImagesAssumption, SameWords
  DEF LockstepInit, Init, Arch!TcmIndex, TcmIndex
<1>3. Arch!CsrReset = CsrReset
  BY SameCsrs
<1>4. /\ ArchPc = 0 /\ MemNext = mem /\ ArchCsr = CsrReset
      /\ [r \in 1 .. 31 |-> ArchReg(r)] = [r \in 1 .. 31 |-> 0]
      /\ seen = Arch!Synced(mem)
  BY <1>1, FreshMachine DEF Fresh
<1>5. QED
  BY <1>2, <1>3, <1>4, Zenon DEF Arch!Init, ArchCsr

LEMMA ResetImplements == LockstepReset => Arch!Reset
<1> SUFFICES ASSUME LockstepReset
             PROVE  Arch!Reset
  OBVIOUS
<1>1. Fresh'
  BY ResetFresh
<1>2. (/\ ArchPc = 0 /\ MemNext = mem /\ ArchCsr = CsrReset
       /\ [r \in 1 .. 31 |-> ArchReg(r)] = [r \in 1 .. 31 |-> 0])'
  BY <1>1, FreshMachine, PTL
<1>3. Arch!CsrReset = CsrReset
  BY SameCsrs
<1>4. mem' = mem /\ seen' = Arch!Synced(mem)
  BY DEF LockstepReset, Reset
<1>5. QED
  BY <1>2, <1>3, <1>4, Zenon DEF Arch!Reset, ArchCsr

LEMMA DrainImplements ==
  ASSUME LockstepInv, LockstepTick, ~ id_ex.valid
  PROVE  Arch!Drain
<1>1. TypeOK /\ StagesInOrder /\ Tick /\ seen' = seen
  BY DEF LockstepInv, FlowInv, SafetyInv, LockstepTick, Observe
<1>2. /\ ArchPc' = ArchPc /\ ~ ex_mem'.valid
      /\ mem' = MemNext /\ MemNext' = MemNext
  BY <1>1, EmptyIsNothing
<1>3. ArchCsr' = ArchCsr
  BY <1>1, EmptyCsr
<1>4. ASSUME NEW r \in 1 .. 31
      PROVE  ArchReg(r)' = ArchReg(r)
  BY <1>1, <1>2, ArchRegNext DEF Produces
<1>5. [r \in 1 .. 31 |-> ArchReg(r)]' = [r \in 1 .. 31 |-> ArchReg(r)]
  BY <1>4
<1>6. QED
  BY <1>1, <1>2, <1>3, <1>5, Zenon DEF Arch!Drain, ArchCsr

LEMMA StepImplements ==
  ASSUME LockstepInv, LockstepTick, id_ex.valid,
         NEW i, i = InstrOf[id_ex.instr],
         NEW exc, exc = Arch!Exception(id_ex.instr, i)
  PROVE  Arch!Step
<1> DEFINE w == id_ex.instr
           stores == ~ exc.valid /\ i.opcode = "STORE"
           wr == ~ exc.valid /\ Arch!WritesRd(i)
           archRegs == [r \in 1 .. 31 |-> ArchReg(r)]
<1>1. /\ InEx(i) /\ StagesInOrder /\ Tick /\ TypeOK
      /\ mem' = MemNext
      /\ seen' = Arch!SeenAfter(i, MemNext')
  BY DEF LockstepInv, FlowInv, SafetyInv, LockstepTick, Observe, InEx, Tick
<1>2. ArchPc' = Arch!PcAfter(i, exc)
  BY <1>1, PcIsArchitectural
<1>3. MemNext' = IF stores THEN Arch!Stored(i) ELSE MemNext
  BY <1>1, StoreIsArchitectural
<1>4. ArchCsr' = Arch!CsrAfter(i, exc, csr.mcycle)
  <2>1. exc = Trap(Rs1, Rs2)
    BY <1>1, TrapIsException
  <2>2. csr' = CsrNext(csr, CsrPorts(Rs1, exc))
    BY <1>1, <2>1 DEF Tick
  <2>3. [CsrNext(csr, CsrPorts(Rs1, exc)) EXCEPT !.mcycle = [lo |-> 0, hi |-> 0]]
          = Arch!CsrAfter(i, exc, csr.mcycle)
    BY <1>1, CsrIsArchitectural, Zenon
  <2>4. QED
    BY <2>2, <2>3, Zenon DEF ArchCsr
<1>5. archRegs' = IF wr THEN [archRegs EXCEPT ![i.rd] = Arch!Result(i, csr.mcycle)]
                        ELSE archRegs
  <2>1. /\ ex_mem'.valid = TRUE /\ ex_mem'.ctrl.rd_addr = i.rd
    BY <1>1, InMem
  <2>2. ex_mem'.ctrl.reg_write <=> Decode(i).reg_write /\ ~ exc.valid
    BY <1>1, InMem
  <2>3. Arch!WritesRd(i) <=> i.rd # 0 /\ Decode(i).reg_write
    BY SameDecode, Zenon DEF Arch!WritesRd, Decode
  <2>4. Produces(ex_mem)' <=> wr
    BY <2>1, <2>2, <2>3 DEF Produces
  <2>5. wr => MemResult' = Arch!Result(i, csr.mcycle)
    BY <1>1, ResultIsArchitectural
  <2> HIDE DEF wr
  <2>6. ASSUME NEW r \in 1 .. 31
        PROVE  ArchReg(r)' = IF wr /\ i.rd = r THEN Arch!Result(i, csr.mcycle)
                             ELSE ArchReg(r)
    <3>1. ArchReg(r)' = IF (Produces(ex_mem) /\ ex_mem.ctrl.rd_addr = r)'
                          THEN MemResult' ELSE ArchReg(r)
      BY <1>1, ArchRegNext
    <3>2. QED
      BY <2>1, <2>4, <2>5, <3>1, Zenon
  <2> DEFINE x == Arch!Result(i, csr.mcycle)
  <2> HIDE DEF x
  <2>7. archRegs' = [r \in 1 .. 31 |-> IF wr /\ i.rd = r THEN x ELSE ArchReg(r)]
    BY <2>6, Zenon DEF x
  <2>8. [archRegs EXCEPT ![i.rd] = x]
          = [r \in 1 .. 31 |-> IF i.rd = r THEN x ELSE ArchReg(r)]
    OBVIOUS
  <2>9. CASE wr
    BY <2>7, <2>8, <2>9, Zenon DEF x
  <2>10. CASE ~ wr
    BY <2>7, <2>10, Zenon
  <2>11. QED
    BY <2>9, <2>10
<1>6. w \in seen[Arch!Index(ArchPc)]
  <2>1. ArchPc = id_ex.pc
    BY <1>1, InExFacts
  <2>2. Arch!Index(ArchPc) = Index(ArchPc)
    BY DEF Arch!Index, Index
  <2>3. QED
    BY <2>1, <2>2, Zenon DEF LockstepInv, FetchesSeen
<1>7. csr.mcycle \in Arch!Counter
  BY <1>1, SameCsrs DEF TypeOK, CsrType
<1>8. Arch!Execute(w, csr.mcycle)
  <2> HIDE DEF stores, wr
  <2>1. /\ ArchPc' = Arch!PcAfter(i, exc)
        /\ archRegs' = IF wr THEN [archRegs EXCEPT ![i.rd] = Arch!Result(i, csr.mcycle)]
                             ELSE archRegs
        /\ MemNext' = IF stores THEN Arch!Stored(i) ELSE MemNext
        /\ ArchCsr' = Arch!CsrAfter(i, exc, csr.mcycle)
        /\ mem' = MemNext
        /\ seen' = Arch!SeenAfter(i, IF stores THEN Arch!Stored(i) ELSE MemNext)
    BY <1>1, <1>2, <1>3, <1>4, <1>5, Zenon
  <2>2. QED
    BY <2>1, Zenon DEF Arch!Execute, ArchCsr, stores, wr
<1>9. QED
  BY <1>6, <1>7, <1>8, Zenon DEF Arch!Step

(* The five-stage core, with forwarding, the interlock, flushes, the       *)
(* poison and the CSRs accessed in EX, implements the machine that         *)
(* executes one instruction at a time (rv32_core.sv).                      *)
THEOREM CoreImplementsISA == LockstepSpec => ImplementsISA
<1>1. LockstepInit => Arch!Init
  BY InitImplements
<1>2. LockstepInv /\ [LockstepNext]_allVars => [Arch!Next]_(Arch!archVars)
  <2> SUFFICES ASSUME LockstepInv, [LockstepNext]_allVars
               PROVE  [Arch!Next]_(Arch!archVars)
    OBVIOUS
  <2>1. CASE LockstepTick /\ id_ex.valid
    BY <2>1, StepImplements DEF Arch!Next
  <2>2. CASE LockstepTick /\ ~ id_ex.valid
    BY <2>2, DrainImplements DEF Arch!Next
  <2>3. CASE LockstepReset
    BY <2>3, ResetImplements DEF Arch!Next
  <2>4. CASE UNCHANGED allVars
    <3>1. UNCHANGED <<pc, if_id, id_ex, ex_mem, mem_wb, redirect, regs, csr, mem, seen>>
      BY <2>4 DEF allVars, vars, flops
    <3>2. /\ UNCHANGED MemNext /\ UNCHANGED MemResult /\ UNCHANGED WbData
          /\ UNCHANGED ArchPc
      BY <3>1 DEF MemNext, DmemWe, IsPeriph, Offset, MemResult, LoadedData,
         WbData, ArchPc
    <3>3. \A r : ArchReg(r)' = ArchReg(r)
      BY <3>1, <3>2, Zenon DEF ArchReg
    <3>4. [r \in 1 .. 31 |-> ArchReg(r)]' = [r \in 1 .. 31 |-> ArchReg(r)]
      BY <3>3
    <3>5. UNCHANGED Arch!archVars
      BY <3>1, <3>2, <3>4 DEF Arch!archVars
    <3>6. QED
      BY <3>5
  <2>5. QED
    BY <2>1, <2>2, <2>3, <2>4 DEF LockstepNext
<1>3. QED
  BY <1>1, <1>2, LockstepInvariant, PTL DEF LockstepSpec, ImplementsISA, Arch!Spec

=============================================================================

--------------------------- MODULE DatapathProofs ---------------------------
(***************************************************************************)
(* What the combinational blocks return, for every width of the byte:      *)
(* lemmas the proofs about Pipeline cite, and that the lanes of loads and  *)
(* stores agree.                                                           *)
(***************************************************************************)
EXTENDS Decoder, Alu, Lsu, CsrFile, TLAPS

(* The word of every machine the parameter allows: four bytes of a power   *)
(* of two, so that alignment to 4 survives the wrap-around.                *)
LEMMA WordSizeValues ==
  WordSize \in {256, 4096, 65536, 1048576, 16777216, 268435456, 4294967296}
  BY ByteSizeAssumption DEF WordSize, HalfSize

LEMMA WordSizeFacts ==
  /\ WordSize \in Nat
  /\ WordSize >= 256
  /\ WordSize % 4 = 0
  /\ 0 \in Word /\ 1 \in Word /\ 2 \in Word /\ 3 \in Word /\ 4 \in Word
  /\ 6 \in Word /\ 11 \in Word
  /\ Word \subseteq Nat
  BY WordSizeValues DEF Word

LEMMA ToWordType ==
  ASSUME NEW x \in Int
  PROVE  ToWord(x) \in Word
  BY WordSizeValues DEF ToWord, Word

LEMMA ToWordOfWord ==
  ASSUME NEW w \in Word
  PROVE  ToWord(w) = w
  BY WordSizeValues DEF ToWord, Word

(* Wrapping around keeps the residue modulo 4. *)
LEMMA ToWordMod4 ==
  ASSUME NEW x \in Int
  PROVE  ToWord(x) % 4 = x % 4
  BY WordSizeValues DEF ToWord

LEMMA ToSignedType ==
  ASSUME NEW w \in Word
  PROVE  ToSigned(w) \in Int
  BY WordSizeFacts DEF ToSigned

LEMMA AlignDownType ==
  ASSUME NEW w \in Word
  PROVE  AlignDown(w) \in Word /\ Aligned(AlignDown(w))
  BY WordSizeFacts DEF AlignDown, Aligned, Word

LEMMA BitOpsType ==
  ASSUME NEW a \in Int, NEW b \in Int
  PROVE  /\ BitAnd(a, b) \in Word
         /\ BitOr(a, b) \in Word
         /\ BitXor(a, b) \in Word
<1>1. \A x, y \in Int : And1(x, y) \in Int
  BY DEF And1
<1>2. ASSUME NEW x \in Int, NEW y \in Int
      PROVE  And2(x, y) \in Int
  <2>1. /\ x \div 2 \in Int /\ y \div 2 \in Int
        /\ x % 2 \in Int /\ y % 2 \in Int
    OBVIOUS
  <2>2. /\ And1(x \div 2, y \div 2) \in Int
        /\ And1(x % 2, y % 2) \in Int
    BY <2>1, <1>1
  <2>3. QED
    BY <2>2 DEF And2
<1>3. ASSUME NEW x \in Int, NEW y \in Int
      PROVE  And4(x, y) \in Int
  <2>1. /\ x \div 4 \in Int /\ y \div 4 \in Int
        /\ x % 4 \in Int /\ y % 4 \in Int
    OBVIOUS
  <2>2. /\ And2(x \div 4, y \div 4) \in Int
        /\ And2(x % 4, y % 4) \in Int
    BY <2>1, <1>2
  <2>3. QED
    BY <2>2 DEF And4
<1>4. ASSUME NEW x \in Int, NEW y \in Int
      PROVE  And8(x, y) \in Int
  <2>1. /\ x \div 16 \in Int /\ y \div 16 \in Int
        /\ x % 16 \in Int /\ y % 16 \in Int
    OBVIOUS
  <2>2. /\ And4(x \div 16, y \div 16) \in Int
        /\ And4(x % 16, y % 16) \in Int
    BY <2>1, <1>3
  <2>3. QED
    BY <2>2 DEF And8
<1>5. ASSUME NEW x \in Int, NEW y \in Int
      PROVE  And16(x, y) \in Int
  <2>1. /\ x \div 256 \in Int /\ y \div 256 \in Int
        /\ x % 256 \in Int /\ y % 256 \in Int
    OBVIOUS
  <2>2. /\ And8(x \div 256, y \div 256) \in Int
        /\ And8(x % 256, y % 256) \in Int
    BY <2>1, <1>4
  <2>3. QED
    BY <2>2 DEF And16
<1>6. ASSUME NEW x \in Int, NEW y \in Int
      PROVE  And32(x, y) \in Int
  <2>1. /\ x \div 65536 \in Int /\ y \div 65536 \in Int
        /\ x % 65536 \in Int /\ y % 65536 \in Int
    OBVIOUS
  <2>2. /\ And16(x \div 65536, y \div 65536) \in Int
        /\ And16(x % 65536, y % 65536) \in Int
    BY <2>1, <1>5
  <2>3. QED
    BY <2>2 DEF And32
<1>7. And32(a, b) \in Int
  BY <1>6
<1>8. QED
  BY <1>7, ToWordType DEF BitAnd, BitOr, BitXor

LEMMA BitNotType ==
  ASSUME NEW a \in Word
  PROVE  BitNot(a) \in Word
  BY WordSizeFacts DEF BitNot, Word

LEMMA Pow2Type ==
  ASSUME NEW n \in Nat
  PROVE  Pow2(n) \in Nat \ {0}
<1> DEFINE p1 == IF n % 2 = 1 THEN 2 ELSE 1
           p2 == IF (n \div 2) % 2 = 1 THEN 4 ELSE 1
           p4 == IF (n \div 4) % 2 = 1 THEN 16 ELSE 1
           p8 == IF (n \div 8) % 2 = 1 THEN 256 ELSE 1
           p16 == IF (n \div 16) % 2 = 1 THEN 65536 ELSE 1
<1>1. p1 \in {1, 2} /\ p2 \in {1, 4} /\ p4 \in {1, 16} /\ p8 \in {1, 256}
        /\ p16 \in {1, 65536}
  OBVIOUS
<1>2. Pow2(n) = p1 * p2 * p4 * p8 * p16
  BY DEF Pow2
<1> HIDE DEF p1, p2, p4, p8, p16
<1>3. p1 * p2 * p4 \in {1, 2, 4, 8, 16, 32, 64, 128}
  BY <1>1
<1>4. p8 * p16 \in {1, 256, 65536, 16777216}
  BY <1>1
<1> DEFINE low == p1 * p2 * p4
           high == p8 * p16
<1>5. Pow2(n) = low * high
  BY <1>1, <1>2
<1>6. low \in Nat \ {0} /\ high \in Nat \ {0}
  BY <1>3, <1>4
<1> HIDE DEF low, high
<1>7. QED
  BY <1>5, <1>6

(* The ALU returns a word for every operation and operands. *)
LEMMA AluType ==
  ASSUME NEW op \in AluOps, NEW a \in Word, NEW b \in Word
  PROVE  Alu(op, a, b) \in Word
<1>1. a \in Int /\ b \in Int /\ ToSigned(a) \in Int
  BY ToSignedType DEF Word
<1>2. Shamt(b) \in Nat
  BY <1>1, ByteSizeAssumption DEF Shamt, Xlen
<1>3. Pow2(Shamt(b)) \in Nat \ {0}
  BY <1>2, Pow2Type
<1>4. \A x \in Int : ToWord(x) \in Word
  BY ToWordType
<1>5. ToWord(a + b) \in Word /\ ToWord(a - b) \in Word
  BY <1>1, <1>4
<1>6. ToWord(a * Pow2(Shamt(b))) \in Word
  BY <1>1, <1>3, <1>4
<1>7. /\ ToWord(a \div Pow2(Shamt(b))) \in Word
      /\ ToWord(ToSigned(a) \div Pow2(Shamt(b))) \in Word
  BY <1>1, <1>3, <1>4
<1>8. BitAnd(a, b) \in Word /\ BitOr(a, b) \in Word /\ BitXor(a, b) \in Word
  BY <1>1, BitOpsType
<1>9. \A p \in BOOLEAN : Flag(p) \in Word
  BY WordSizeFacts DEF Flag
<1>10. LtSigned(a, b) \in BOOLEAN /\ LtUnsigned(a, b) \in BOOLEAN
  BY DEF LtSigned, LtUnsigned
<1>11. CASE op \in {"ADD", "SUB"}
  BY <1>5, <1>11 DEF Alu
<1>12. CASE op \in {"SLL", "SRL", "SRA"}
  BY <1>6, <1>7, <1>12 DEF Alu
<1>13. CASE op \in {"SLT", "SLTU"}
  BY <1>9, <1>10, <1>13 DEF Alu
<1>14. CASE op \in {"XOR", "OR", "AND"}
  BY <1>8, <1>14 DEF Alu
<1>15. CASE op = "PASS_B"
  BY <1>15 DEF Alu
<1>16. QED
  BY <1>11, <1>12, <1>13, <1>14, <1>15 DEF AluOps

LEMMA BranchTakenType ==
  ASSUME NEW op, NEW a, NEW b
  PROVE  BranchTaken(op, a, b) \in BOOLEAN
  BY DEF BranchTaken, Eq, LtSigned, LtUnsigned

-----------------------------------------------------------------------------
(* Lanes of a word. *)
Byte == 0 .. (ByteSize - 1)

LEMMA ByteOfType ==
  ASSUME NEW w \in Word, NEW k
  PROVE  ByteOf(w, k) \in Byte
<1>1. w \in Nat
  BY DEF Word
<1>2. \A x \in Int : x % ByteSize \in Byte
  BY ByteSizeAssumption DEF Byte
<1>3. HalfSize \in Nat \ {0} /\ HalfSize * ByteSize \in Nat \ {0}
  BY ByteSizeAssumption DEF HalfSize
<1>4. /\ w \div ByteSize \in Int
      /\ w \div HalfSize \in Int
      /\ w \div (HalfSize * ByteSize) \in Int
  BY <1>1, <1>3, ByteSizeAssumption
<1>5. QED
  BY <1>1, <1>2, <1>4 DEF ByteOf

LEMMA FromBytesType ==
  ASSUME NEW b0 \in Byte, NEW b1 \in Byte, NEW b2 \in Byte, NEW b3 \in Byte
  PROVE  FromBytes(b0, b1, b2, b3) \in Word
  BY ByteSizeAssumption DEF FromBytes, Byte, Word, WordSize, HalfSize

LEMMA HalfOfType ==
  ASSUME NEW w \in Word, NEW k
  PROVE  HalfOf(w, k) \in 0 .. (HalfSize - 1)
<1>1. w \in Int
  BY DEF Word
<1>2. HalfSize \in Nat \ {0}
  BY ByteSizeAssumption DEF HalfSize
<1>3. \A x \in Int : x % HalfSize \in 0 .. (HalfSize - 1)
  BY <1>2
<1>4. w \div HalfSize \in Int
  BY <1>1, <1>2
<1>5. QED
  BY <1>1, <1>3, <1>4 DEF HalfOf

(* The value of a lane is a word, and so is its sign extension. *)
LEMMA LanesAreWords ==
  /\ Byte \subseteq Word
  /\ 0 .. (HalfSize - 1) \subseteq Word
  BY ByteSizeAssumption DEF Byte, Word, WordSize, HalfSize

LEMMA LoadDataType ==
  ASSUME NEW offset, NEW size, NEW signed, NEW raw \in Word
  PROVE  LoadData(offset, size, signed, raw) \in Word
<1> DEFINE b == ByteOf(raw, offset)
           h == HalfOf(raw, offset \div 2)
<1>1. b \in Byte /\ b \in Word /\ b \in Int
  <2>1. b \in Byte
    BY ByteOfType
  <2>2. b \in Word
    BY <2>1, LanesAreWords
  <2>3. QED
    BY <2>1, <2>2 DEF Word
<1>2. h \in 0 .. (HalfSize - 1) /\ h \in Word /\ h \in Int
  BY HalfOfType, LanesAreWords DEF Word
<1>3. ByteSize \in Int /\ HalfSize \in Int
  BY ByteSizeAssumption DEF HalfSize
<1> HIDE DEF b, h
<1>4. ToWord(b - ByteSize) \in Word /\ ToWord(h - HalfSize) \in Word
  BY <1>1, <1>2, <1>3, ToWordType
<1>5. LoadData(offset, size, signed, raw) =
        CASE size = "B" -> IF signed /\ 2 * b >= ByteSize
                             THEN ToWord(b - ByteSize) ELSE b
          [] size = "H" -> IF signed /\ 2 * h >= HalfSize
                             THEN ToWord(h - HalfSize) ELSE h
          [] OTHER      -> raw
  BY DEF LoadData, b, h
<1>6. CASE size = "B"
  BY <1>1, <1>4, <1>5, <1>6
<1>7. CASE size = "H"
  BY <1>2, <1>4, <1>5, <1>7
<1>8. CASE size \notin {"B", "H"}
  BY <1>5, <1>8
<1>9. QED
  BY <1>6, <1>7, <1>8

LEMMA StoreAlignedType ==
  ASSUME NEW size, NEW data \in Word
  PROVE  StoreAligned(size, data) \in Word
<1> DEFINE b == ByteOf(data, 0)
           h == HalfOf(data, 0)
<1>1. FromBytes(b, b, b, b) \in Word
  BY ByteOfType, FromBytesType
<1>2. h \in 0 .. (HalfSize - 1)
  BY HalfOfType
<1> HIDE DEF h
<1>3. h * HalfSize + h \in Word
  BY <1>2, ByteSizeAssumption DEF Word, WordSize, HalfSize
<1>4. QED
  BY <1>1, <1>3 DEF StoreAligned, h

LEMMA WriteLanesType ==
  ASSUME NEW old \in Word, NEW be, NEW data \in Word
  PROVE  WriteLanes(old, be, data) \in Word
<1> DEFINE lane(k) == IF k \in be THEN ByteOf(data, k) ELSE ByteOf(old, k)
<1>1. lane(0) \in Byte /\ lane(1) \in Byte /\ lane(2) \in Byte /\ lane(3) \in Byte
  BY ByteOfType
<1> HIDE DEF lane
<1>2. FromBytes(lane(0), lane(1), lane(2), lane(3)) \in Word
  BY <1>1, FromBytesType
<1>3. QED
  BY <1>2 DEF WriteLanes, lane

-----------------------------------------------------------------------------
(* Decode. *)
LEMMA CtrlZeroType == CtrlZero \in CtrlType
  BY DEF CtrlZero, CtrlType, RegIdx, AluOps, BranchOps, MemSizes, WbSels, CsrOps

LEMMA AluOpOfType ==
  ASSUME NEW i
  PROVE  AluOpOf(i) \in AluOps
  BY DEF AluOpOf, ArithOp, AluOps

LEMMA BranchOpOfType ==
  ASSUME NEW i
  PROVE  BranchOpOf(i) \in BranchOps
  BY DEF BranchOpOf, BranchOps

LEMMA MemSizeOfType ==
  ASSUME NEW i
  PROVE  MemSizeOf(i) \in MemSizes
  BY DEF MemSizeOf, MemSizes

LEMMA CsrOpOfType ==
  ASSUME NEW i
  PROVE  CsrOpOf(i) \in CsrOps
  BY DEF CsrOpOf, CsrOps

LEMMA DecodeType ==
  ASSUME NEW i \in Instr
  PROVE  Decode(i) \in CtrlType
<1>1. i.rs1 \in RegIdx /\ i.rs2 \in RegIdx /\ i.rd \in RegIdx
  BY DEF Instr
<1>2. Decode(i).wb_sel \in WbSels
  BY SMT DEF Decode, WbSelOf, WbSels
<1>3. /\ Illegal(i) \in BOOLEAN /\ Ecall(i) \in BOOLEAN
      /\ Ebreak(i) \in BOOLEAN /\ Mret(i) \in BOOLEAN
      /\ IsCsrForm(i) \in BOOLEAN
  BY SMT DEF Illegal, Ecall, Ebreak, Mret, Privileged, IsCsrForm
<1>4. QED
  BY <1>1, <1>2, <1>3, AluOpOfType, BranchOpOfType, MemSizeOfType, CsrOpOfType, SMT
     DEF Decode, CtrlType

LEMMA ImmediateType ==
  ASSUME NEW i \in Instr
  PROVE  Immediate(i) \in Int
<1> DEFINE f7 == i.funct7
           r2 == i.rs2
           r1 == i.rs1
           r0 == i.rd
           f3 == i.funct3
           sg == SignBit(i)
<1>1. f7 \in Int /\ r2 \in Int /\ r1 \in Int /\ r0 \in Int /\ f3 \in Int
  BY SMT DEF Instr, RegIdx
<1>2. sg \in Int
  BY <1>1, SMT DEF SignBit
<1>3. ImmI(i) = f7 * 32 + r2 - 4096 * sg /\ ImmS(i) = f7 * 32 + r0 - 4096 * sg
  BY <1>1, <1>2, SMT DEF ImmI, ImmS, Imm12
<1>4. /\ ImmU(i) = 4096 * (f7 * 8192 + r2 * 256 + r1 * 8 + f3 - 1048576 * sg)
      /\ ImmB(i) = - 4096 * sg + 2048 * (r0 % 2) + 32 * (f7 % 64)
                     + 2 * (r0 \div 2)
      /\ ImmJ(i) = - 1048576 * sg + 4096 * (r1 * 8 + f3) + 2048 * (r2 % 2)
                     + 32 * (f7 % 64) + 2 * (r2 \div 2)
  BY <1>1, <1>2, SMT DEF ImmU, ImmB, ImmJ
<1> HIDE DEF f7, r2, r1, r0, f3, sg
<1>5. r0 % 2 \in Int /\ r0 \div 2 \in Int /\ r2 % 2 \in Int /\ r2 \div 2 \in Int
      /\ f7 % 64 \in Int
  BY <1>1
<1>6. ImmI(i) \in Int /\ ImmS(i) \in Int
  BY <1>1, <1>2, <1>3, <1>4, SMT
<1>7. ImmU(i) \in Int
  BY <1>1, <1>2, <1>3, <1>4, SMT
<1>8. ImmB(i) \in Int /\ ImmJ(i) \in Int
  BY <1>1, <1>2, <1>4, <1>5, SMT
<1>9. \A fmt : ImmGen(i, fmt) \in Int
  BY <1>6, <1>7, <1>8, SMT DEF ImmGen
<1>10. QED
  BY <1>9 DEF Immediate

(* The offsets of branches and of jal are even. *)
LEMMA OffsetsAreEven ==
  ASSUME NEW i \in Instr
  PROVE  ImmB(i) % 2 = 0 /\ ImmJ(i) % 2 = 0
<1> DEFINE h == i.funct7 % 64
           sg == SignBit(i)
           b0 == i.rd % 2
           b1 == i.rd \div 2
           j0 == i.rs2 % 2
           j1 == i.rs2 \div 2
           k  == i.rs1 * 8 + i.funct3
<1>1. /\ i.funct7 \in Int /\ i.rs2 \in Int /\ i.rs1 \in Int /\ i.rd \in Int
      /\ i.funct3 \in Int
  BY SMT DEF Instr, RegIdx
<1>2. sg \in Int
  BY <1>1, SMT DEF SignBit
<1>3. /\ h \in Int /\ b0 \in Int /\ b1 \in Int /\ j0 \in Int /\ j1 \in Int
      /\ k \in Int
  BY <1>1
<1>4. /\ ImmB(i) = - 4096 * sg + 2048 * b0 + 32 * h + 2 * b1
      /\ ImmJ(i) = - 1048576 * sg + 4096 * k + 2048 * j0 + 32 * h + 2 * j1
  BY <1>1, <1>2, SMT DEF ImmB, ImmJ
<1> HIDE DEF h, sg, b0, b1, j0, j1, k
<1>5. QED
  BY <1>2, <1>3, <1>4, SMT

(* What the datapath relies on the decoder never to drive. *)
LEMMA DecodeFacts ==
  ASSUME NEW i \in Instr
  PROVE  LET c == Decode(i) IN
         /\ c.is_branch \/ c.is_jal => Immediate(i) % 2 = 0
         /\ c.mem_read \/ c.mem_write => c.csr_op = "NONE"
         /\ c.wb_sel = "MEM" => c.mem_read
         /\ c.wb_sel = "PC4" => c.is_jal \/ c.is_jalr
<1> DEFINE c == Decode(i)
<1>1. /\ c.is_branch = (i.opcode = "BRANCH")
      /\ c.is_jal = (i.opcode = "JAL")
      /\ c.is_jalr = (i.opcode = "JALR")
      /\ c.mem_read = (i.opcode = "LOAD")
      /\ c.mem_write = (i.opcode = "STORE")
      /\ c.wb_sel = WbSelOf(i)
      /\ c.csr_op = CsrOpOf(i)
  BY Zenon DEF Decode
<1> HIDE DEF c
<1>2. c.is_branch \/ c.is_jal => Immediate(i) % 2 = 0
  <2>1. i.opcode = "BRANCH" => Immediate(i) = ImmB(i)
    BY SMT DEF Immediate, FormatOf, ImmGen
  <2>2. i.opcode = "JAL" => Immediate(i) = ImmJ(i)
    BY SMT DEF Immediate, FormatOf, ImmGen
  <2>3. QED
    BY <1>1, <2>1, <2>2, OffsetsAreEven
<1>3. c.mem_read \/ c.mem_write => c.csr_op = "NONE"
  <2>1. i.opcode \in {"LOAD", "STORE"} => CsrOpOf(i) = "NONE"
    BY DEF CsrOpOf, IsCsrForm
  <2>2. QED
    BY <1>1, <2>1
<1>4. c.wb_sel = "MEM" => c.mem_read
  <2>1. WbSelOf(i) = "MEM" => i.opcode = "LOAD"
    BY DEF WbSelOf
  <2>2. QED
    BY <1>1, <2>1
<1>5. c.wb_sel = "PC4" => c.is_jal \/ c.is_jalr
  <2>1. WbSelOf(i) = "PC4" => i.opcode \in {"JAL", "JALR"}
    BY DEF WbSelOf
  <2>2. QED
    BY <1>1, <2>1
<1>6. QED
  BY <1>2, <1>3, <1>4, <1>5 DEF c

-----------------------------------------------------------------------------
(* The CSR file. *)
LEMMA CsrResetType == CsrReset \in CsrType
  BY WordSizeFacts, CounterSizeAssumption
  DEF CsrReset, CsrType, Counter, Half

LEMMA HalfIsWord == Half \subseteq Word
  BY CounterSizeAssumption, WordSizeFacts DEF Half, Word

LEMMA CsrRdataType ==
  ASSUME NEW c \in CsrType, NEW addr, NEW irq
  PROVE  CsrRdata(c, addr, irq) \in Word
<1>1. Mstatus(c) \in Word /\ Mip(irq) \in Word /\ Misa \in Word
  <2>1. \A p : Bit(p, 8) \in Int /\ Bit(p, 128) \in Int /\ Bit(p, 2048) \in Int
    BY DEF Bit
  <2>2. QED
    BY <2>1, ToWordType DEF Mstatus, Mip, Misa
<1>2. /\ c.mie \in Word /\ c.mtvec \in Word /\ c.mscratch \in Word
      /\ c.mepc \in Word /\ c.mcause \in Word /\ c.mtval \in Word
      /\ c.mcycle.lo \in Word /\ c.mcycle.hi \in Word
      /\ c.minstret.lo \in Word /\ c.minstret.hi \in Word
  BY HalfIsWord DEF CsrType, Counter
<1>3. 0 \in Word
  BY WordSizeFacts
<1>4. QED
  BY <1>1, <1>2, <1>3 DEF CsrRdata

LEMMA CsrWvalType ==
  ASSUME NEW c \in CsrType, NEW p \in PortType
  PROVE  CsrWval(c, p) \in Word
<1> DEFINE r == CsrRdata(c, p.addr, p.irq)
<1>1. r \in Word /\ r \in Int
  BY CsrRdataType DEF Word
<1>2. p.wdata \in Word /\ p.wdata \in Int /\ BitNot(p.wdata) \in Int
  BY BitNotType DEF PortType, Word
<1>3. BitOr(r, p.wdata) \in Word /\ BitAnd(r, BitNot(p.wdata)) \in Word
  BY <1>1, <1>2, BitOpsType
<1> HIDE DEF r
<1>4. CsrWval(c, p) = CASE p.op = "RW" -> p.wdata
                        [] p.op = "RS" -> BitOr(r, p.wdata)
                        [] p.op = "RC" -> BitAnd(r, BitNot(p.wdata))
                        [] OTHER       -> r
  BY DEF CsrWval, r
<1>5. QED
  BY <1>1, <1>2, <1>3, <1>4

LEMMA IncrementType ==
  ASSUME NEW n \in Counter
  PROVE  Increment(n) \in Counter
  BY CounterSizeAssumption, WordSizeFacts DEF Increment, Counter, Half

LEMMA CsrNextType ==
  ASSUME NEW c \in CsrType, NEW p \in PortType
  PROVE  CsrNext(c, p) \in CsrType
<1> DEFINE w == CsrWval(c, p)
<1>1. w \in Word /\ w \in Int
  BY CsrWvalType DEF Word
<1>2. MaskMie(w) \in Word /\ AlignDown(w) \in Word
  BY <1>1, BitOpsType, AlignDownType DEF MaskMie, MieWritable
<1>3. Bit3(w) \in BOOLEAN /\ Bit7(w) \in BOOLEAN
  BY DEF Bit3, Bit7
<1>4. w % CounterSize \in Half
  BY <1>1, CounterSizeAssumption, WordSizeFacts DEF Half
<1>5. /\ c.mcycle \in Counter /\ c.minstret \in Counter
      /\ Increment(c.mcycle) \in Counter
      /\ CountedMinstret(c, p) \in Counter
  BY IncrementType DEF CsrType, CountedMinstret
<1>6. /\ p.trap_epc \in Word /\ p.trap_cause \in Word /\ p.trap_tval \in Word
      /\ AlignDown(p.trap_epc) \in Word
  BY AlignDownType DEF PortType
<1>7. /\ c.mie \in Word /\ c.mtvec \in Word /\ c.mscratch \in Word
      /\ c.mepc \in Word /\ c.mcause \in Word /\ c.mtval \in Word
      /\ c.mstatus_mie \in BOOLEAN /\ c.mstatus_mpie \in BOOLEAN
  BY DEF CsrType
<1>8. \A lo, hi : \A m \in Counter : WriteHalves(m, c, p, lo, hi) \in Counter
  BY <1>4 DEF WriteHalves, Counter
<1>9. \A addr, old, new, trapped :
        old \in Word /\ new \in Word /\ trapped \in Word
          => Written(c, p, addr, old, new, trapped) \in Word
  BY DEF Written
<1> HIDE DEF w
<1> DEFINE n == CsrNext(c, p)
<1>10. n.mstatus_mie \in BOOLEAN
  <2>1. n.mstatus_mie = MieNext(c, p)
    BY SMT DEF CsrNext
  <2> HIDE DEF n
  <2>2. QED
    BY <1>3, <1>7, <2>1, Zenon DEF MieNext, w
<1>11. n.mstatus_mpie \in BOOLEAN
  <2>1. n.mstatus_mpie = MpieNext(c, p)
    BY SMT DEF CsrNext
  <2> HIDE DEF n
  <2>2. QED
    BY <1>3, <1>7, <2>1, Zenon DEF MpieNext, w
<1>12. /\ n.mie \in Word /\ n.mtvec \in Word /\ n.mscratch \in Word
       /\ n.mepc \in Word /\ n.mcause \in Word /\ n.mtval \in Word
  BY <1>1, <1>2, <1>6, <1>7, <1>9, SMT DEF CsrNext, w
<1>13. n.mcycle \in Counter /\ n.minstret \in Counter
  BY <1>5, <1>8, SMT DEF CsrNext
<1>14. n = [mstatus_mie |-> n.mstatus_mie, mstatus_mpie |-> n.mstatus_mpie,
            mie |-> n.mie, mtvec |-> n.mtvec, mscratch |-> n.mscratch,
            mepc |-> n.mepc, mcause |-> n.mcause, mtval |-> n.mtval,
            mcycle |-> n.mcycle, minstret |-> n.minstret]
  BY SMT DEF CsrNext
<1> HIDE DEF n
<1>15. n \in CsrType
  BY <1>10, <1>11, <1>12, <1>13, <1>14, Zenon DEF CsrType
<1>16. QED
  BY <1>15 DEF n

(* mepc and mtvec stay aligned whatever is written and whatever traps. *)
LEMMA CsrNextAligned ==
  ASSUME NEW c \in CsrType, NEW p \in PortType,
         Aligned(c.mepc), Aligned(c.mtvec)
  PROVE  Aligned(CsrNext(c, p).mepc) /\ Aligned(CsrNext(c, p).mtvec)
<1>1. /\ Aligned(AlignDown(CsrWval(c, p)))
      /\ Aligned(AlignDown(p.trap_epc))
  BY CsrWvalType, AlignDownType DEF PortType
<1>2. QED
  BY <1>1, SMT DEF CsrNext, Written

-----------------------------------------------------------------------------
(* A word is its four lanes, and its halves are two of them each.          *)
LEMMA DivideOnce ==
  ASSUME NEW B \in {4, 8, 16, 32, 64, 128, 256}, NEW y \in Int, NEW r \in 0 .. B - 1
  PROVE  (y * B + r) \div B = y /\ (y * B + r) % B = r
<1>1. CASE B = 4
  BY <1>1, SMT
<1>2. CASE B = 8
  BY <1>2, SMT
<1>3. CASE B = 16
  BY <1>3, SMT
<1>4. CASE B = 32
  BY <1>4, SMT
<1>5. CASE B = 64
  BY <1>5, SMT
<1>6. CASE B = 128
  BY <1>6, SMT
<1>7. CASE B = 256
  BY <1>7, SMT
<1>8. QED
  BY <1>1, <1>2, <1>3, <1>4, <1>5, <1>6, <1>7

LEMMA DivideTwice ==
  ASSUME NEW B \in {4, 8, 16, 32, 64, 128, 256}, NEW x \in Int
  PROVE  x \div (B * B) = (x \div B) \div B /\ x \div (B * B * B) = (x \div (B * B)) \div B
<1>1. CASE B = 4
  BY <1>1, SMT
<1>2. CASE B = 8
  BY <1>2, SMT
<1>3. CASE B = 16
  BY <1>3, SMT
<1>4. CASE B = 32
  BY <1>4, SMT
<1>5. CASE B = 64
  BY <1>5, SMT
<1>6. CASE B = 128
  BY <1>6, SMT
<1>7. CASE B = 256
  BY <1>7, SMT
<1>8. QED
  BY <1>1, <1>2, <1>3, <1>4, <1>5, <1>6, <1>7

LEMMA LanesOfBytes ==
  ASSUME NEW b0 \in Byte, NEW b1 \in Byte, NEW b2 \in Byte, NEW b3 \in Byte
  PROVE  LET w == FromBytes(b0, b1, b2, b3) IN
         /\ ByteOf(w, 0) = b0 /\ ByteOf(w, 1) = b1 /\ ByteOf(w, 2) = b2 /\ ByteOf(w, 3) = b3
         /\ HalfOf(w, 0) = b1 * ByteSize + b0 /\ HalfOf(w, 1) = b3 * ByteSize + b2
<1> DEFINE B  == ByteSize
           y2 == b3 * B + b2
           y1 == y2 * B + b1
           w  == y1 * B + b0
<1>1. /\ B \in {4, 8, 16, 32, 64, 128, 256}
      /\ b0 \in 0 .. B - 1 /\ b1 \in 0 .. B - 1 /\ b2 \in 0 .. B - 1 /\ b3 \in 0 .. B - 1
  BY ByteSizeAssumption DEF Byte
<1>2. w = FromBytes(b0, b1, b2, b3)
  BY DEF FromBytes
<1>3. HalfSize = B * B /\ HalfSize * ByteSize = B * B * B
  BY DEF HalfSize
<1> HIDE DEF B
<1>4. b3 \in Int /\ y2 \in Int /\ y1 \in Int /\ w \in Int
  BY <1>1
<1> HIDE DEF w, y1, y2
<1>5. w \div B = y1 /\ w % B = b0
  BY <1>1, <1>4, DivideOnce DEF w
<1>6. w \div (B * B) = y2 /\ y1 % B = b1
  <2>1. y1 \div B = y2 /\ y1 % B = b1
    BY <1>1, <1>4, DivideOnce DEF y1
  <2>2. QED
    BY <1>1, <1>4, <1>5, <2>1, DivideTwice
<1>7. w \div (B * B * B) = b3 /\ y2 % B = b2
  <2>1. y2 \div B = b3 /\ y2 % B = b2
    BY <1>1, <1>4, DivideOnce DEF y2
  <2>2. QED
    BY <1>1, <1>4, <1>6, <2>1, DivideTwice
<1>8. b3 % B = b3
  BY <1>1, SMT
<1>9. w % (B * B) = b1 * B + b0 /\ y2 % (B * B) = y2
  <2>1. \A P \in {4, 8, 16, 32, 64, 128, 256} : B = P =>
          w % (P * P) = b1 * P + b0 /\ y2 % (P * P) = y2
    BY <1>1, <1>4, SMT DEF w, y1, y2
  <2>2. QED
    BY <1>1, <2>1
<1>10. QED
  BY <1>2, <1>3, <1>5, <1>6, <1>7, <1>8, <1>9 DEF ByteOf, HalfOf, B, y2

LEMMA BytesOfWord ==
  ASSUME NEW w \in Word
  PROVE  w = FromBytes(ByteOf(w, 0), ByteOf(w, 1), ByteOf(w, 2), ByteOf(w, 3))
<1> DEFINE B  == ByteSize
           y1 == w \div B
           y2 == y1 \div B
           y3 == y2 \div B
<1>1. B \in {4, 8, 16, 32, 64, 128, 256} /\ w \in 0 .. B * B * (B * B) - 1
  BY ByteSizeAssumption DEF Word, WordSize, HalfSize
<1>2. HalfSize = B * B /\ HalfSize * ByteSize = B * B * B
  BY DEF HalfSize
<1> HIDE DEF B
<1>3. w \in Int /\ y1 \in Int /\ y2 \in Int /\ y3 \in Int
  BY <1>1
<1>4. w = y1 * B + (w % B) /\ y1 = y2 * B + (y1 % B) /\ y2 = y3 * B + (y2 % B)
  <2>1. ASSUME NEW P \in {4, 8, 16, 32, 64, 128, 256}, NEW x \in Int
        PROVE  x = (x \div P) * P + (x % P)
    BY <2>1, SMT
  <2>2. QED
    BY <1>1, <1>3, <2>1
<1>5. w \div (B * B) = y2 /\ w \div (B * B * B) = y3
  BY <1>1, <1>3, DivideTwice
<1>6. y3 % B = y3
  <2>1. y3 \in 0 .. B - 1
    <3>1. \A P \in {4, 8, 16, 32, 64, 128, 256} : B = P => y3 \in 0 .. P - 1
      BY <1>1, SMT
    <3>2. QED
      BY <1>1, <3>1
  <2> HIDE DEF y3
  <2>2. QED
    BY <1>1, <2>1, SMT
<1> HIDE DEF y1, y2, y3
<1>7. w = ((y3 * B + (y2 % B)) * B + (y1 % B)) * B + (w % B)
  BY <1>4
<1>8. QED
  BY <1>2, <1>5, <1>6, <1>7 DEF ByteOf, FromBytes, B, y1

LEMMA HalvesAreLanes ==
  ASSUME NEW w \in Word
  PROVE  /\ HalfOf(w, 0) = ByteOf(w, 1) * ByteSize + ByteOf(w, 0)
         /\ HalfOf(w, 1) = ByteOf(w, 3) * ByteSize + ByteOf(w, 2)
BY ByteOfType, LanesOfBytes, BytesOfWord

(* A write replaces the lanes it enables and no other.                     *)
LEMMA LanesWritten ==
  ASSUME NEW old \in Word, NEW be, NEW data \in Word, NEW k \in Lane
  PROVE  ByteOf(WriteLanes(old, be, data), k) = IF k \in be THEN ByteOf(data, k) ELSE ByteOf(old, k)
<1> DEFINE lane(m) == IF m \in be THEN ByteOf(data, m) ELSE ByteOf(old, m)
<1>1. lane(0) \in Byte /\ lane(1) \in Byte /\ lane(2) \in Byte /\ lane(3) \in Byte
  BY ByteOfType
<1>2. WriteLanes(old, be, data) = FromBytes(lane(0), lane(1), lane(2), lane(3))
  BY DEF WriteLanes
<1>3. k \in {0, 1, 2, 3}
  BY DEF Lane
<1> HIDE DEF lane
<1>4. ByteOf(FromBytes(lane(0), lane(1), lane(2), lane(3)), k) = lane(k)
  BY <1>1, <1>3, LanesOfBytes
<1>5. QED
  BY <1>2, <1>4 DEF lane

(* What a load returns depends on the lanes a store of its size would      *)
(* write, and on nothing else of the word (lsu.sv:64-84).                  *)
THEOREM LoadReadsItsLanes ==
  ASSUME NEW offset \in Lane, NEW size \in MemSizes, ~ IsMisaligned(offset, size), NEW signed,
         NEW v \in Word, NEW w \in Word,
         \A k \in ByteEnable(offset, size) : ByteOf(v, k) = ByteOf(w, k)
  PROVE  LoadData(offset, size, signed, v) = LoadData(offset, size, signed, w)
<1>1. CASE size = "B"
  <2>1. ByteOf(v, offset) = ByteOf(w, offset)
    BY <1>1 DEF ByteEnable
  <2>2. QED
    BY <1>1, <2>1 DEF LoadData
<1>2. CASE size = "H"
  <2>1. offset \in {0, 2}
    BY <1>2 DEF IsMisaligned, Lane
  <2>2. HalfOf(v, offset \div 2) = HalfOf(w, offset \div 2)
    <3>1. CASE offset = 0
      BY <1>2, <3>1, HalvesAreLanes DEF ByteEnable
    <3>2. CASE offset = 2
      BY <1>2, <3>2, HalvesAreLanes DEF ByteEnable
    <3>3. QED
      BY <2>1, <3>1, <3>2
  <2>3. QED
    BY <1>2, <2>2 DEF LoadData
<1>3. CASE size = "W"
  <2>1. \A k \in {0, 1, 2, 3} : ByteOf(v, k) = ByteOf(w, k)
    BY <1>3 DEF ByteEnable, Lane
  <2>2. v = w
    BY <2>1, BytesOfWord
  <2>3. QED
    BY <2>2
<1>4. QED
  BY <1>1, <1>2, <1>3 DEF MemSizes

(* The replicated data has the low part of the register in every place the *)
(* store may write.                                                        *)
LEMMA ReplicatedIsLow ==
  ASSUME NEW offset \in Lane, NEW size \in MemSizes, ~ IsMisaligned(offset, size), NEW signed,
         NEW data \in Word
  PROVE  LoadData(offset, size, signed, StoreAligned(size, data)) = LoadData(0, size, signed, data)
<1> DEFINE b0 == ByteOf(data, 0)
           b1 == ByteOf(data, 1)
           h  == HalfOf(data, 0)
<1>1. b0 \in Byte /\ b1 \in Byte
  BY ByteOfType
<1>2. CASE size = "B"
  <2>1. StoreAligned(size, data) = FromBytes(b0, b0, b0, b0)
    BY <1>2 DEF StoreAligned
  <2>2. offset \in {0, 1, 2, 3}
    BY DEF Lane
  <2>3. ByteOf(StoreAligned(size, data), offset) = b0
    BY <1>1, <2>1, <2>2, LanesOfBytes
  <2>4. QED
    BY <1>2, <2>3 DEF LoadData
<1>3. CASE size = "H"
  <2>1. h = b1 * ByteSize + b0
    BY HalvesAreLanes
  <2>2. StoreAligned(size, data) = h * HalfSize + h
    BY <1>3 DEF StoreAligned
  <2> HIDE DEF b0, b1
  <2>3. h * HalfSize + h = FromBytes(b0, b1, b0, b1)
    BY <1>1, <2>1, ByteSizeAssumption, SMT DEF FromBytes, HalfSize, Byte
  <2>4. offset \in {0, 2} /\ 0 \div 2 = 0 /\ 2 \div 2 = 1
    BY <1>3 DEF IsMisaligned, Lane
  <2>5. HalfOf(StoreAligned(size, data), offset \div 2) = h
    BY <1>1, <2>1, <2>2, <2>3, <2>4, LanesOfBytes
  <2>6. QED
    BY <1>3, <2>4, <2>5 DEF LoadData
<1>4. CASE size = "W"
  BY <1>4 DEF StoreAligned, LoadData
<1>5. QED
  BY <1>2, <1>3, <1>4 DEF MemSizes

(* lsu.sv and the write port of tcm.sv agree on the lanes: an aligned load *)
(* returns the low part of what a store of its size has put there, sign or *)
(* zero extended, and the store changes no other byte of the word.         *)
THEOREM LoadReturnsStored ==
  ASSUME NEW offset \in Lane, NEW size \in MemSizes, ~ IsMisaligned(offset, size), NEW signed,
         NEW old \in Word, NEW data \in Word
  PROVE  LET new == WriteLanes(old, ByteEnable(offset, size), StoreAligned(size, data)) IN
         /\ LoadData(offset, size, signed, new) = LoadData(0, size, signed, data)
         /\ \A k \in Lane \ ByteEnable(offset, size) : ByteOf(new, k) = ByteOf(old, k)
<1> DEFINE be  == ByteEnable(offset, size)
           out == StoreAligned(size, data)
           new == WriteLanes(old, be, out)
<1>1. out \in Word
  BY StoreAlignedType
<1>2. new \in Word
  BY <1>1, WriteLanesType
<1>3. be \subseteq Lane
  BY DEF ByteEnable, Lane
<1> HIDE DEF be, out
<1>4. \A k \in Lane : ByteOf(new, k) = IF k \in be THEN ByteOf(out, k) ELSE ByteOf(old, k)
  BY <1>1, LanesWritten
<1> HIDE DEF new
<1>5. LoadData(offset, size, signed, new) = LoadData(offset, size, signed, out)
  <2>1. \A k \in ByteEnable(offset, size) : ByteOf(new, k) = ByteOf(out, k)
    BY <1>3, <1>4 DEF be
  <2>2. QED
    BY <1>1, <1>2, <2>1, LoadReadsItsLanes
<1>6. LoadData(offset, size, signed, out) = LoadData(0, size, signed, data)
  BY ReplicatedIsLow DEF out
<1>7. \A k \in Lane \ be : ByteOf(new, k) = ByteOf(old, k)
  BY <1>4
<1>8. QED
  BY <1>5, <1>6, <1>7 DEF new, out, be

=============================================================================

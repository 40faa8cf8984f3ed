-------------------------------- MODULE ISA --------------------------------
(***************************************************************************)
(* What the core promises a program: the RV32I_Zicsr_Zifencei machine that *)
(* executes one instruction at a time, which the repository's lockstep     *)
(* against Sail compares the core with.                                    *)
(*                                                                         *)
(* Three things a sequential machine cannot pretend not to see are part of *)
(* the promise.  The cycle counter may read as anything.  A fetch may      *)
(* return a word that a store has since replaced, until a fence.i          *)
(* (variable seen).  And the youngest store may be lost by a reset, until  *)
(* it has drained (variable settled).                                      *)
(***************************************************************************)
EXTENDS Decoder, Alu, Lsu, CsrFile

CONSTANTS TcmWords, InstrOf

VARIABLES pc, regs, mem, csr,
          settled,   \* the memory a reset would leave
          seen       \* the words a fetch of each address may still return

archVars == <<pc, regs, mem, csr, settled, seen>>

TcmIndex     == 0 .. (TcmWords - 1)
Index(addr)  == (addr \div 4) % TcmWords
Reg(r)       == IF r = 0 THEN 0 ELSE regs[r]
Synced(m)    == [k \in TcmIndex |-> {m[k]}]
ZeroCounter  == [lo |-> 0, hi |-> 0]

-----------------------------------------------------------------------------
(* The control transfer an instruction asks for. *)
Transfers(i) ==
  \/ i.opcode \in {"JAL", "JALR"}
  \/ i.opcode = "BRANCH" /\ BranchTaken(BranchOpOf(i), Reg(i.rs1), Reg(i.rs2))

Destination(i) ==
  CASE i.opcode = "JALR" -> LET t == ToWord(Reg(i.rs1) + ImmI(i)) IN t - (t % 2)
    [] i.opcode = "JAL"  -> ToWord(pc + ImmJ(i))
    [] OTHER             -> ToWord(pc + ImmB(i))

Address(i) == ToWord(Reg(i.rs1) + (IF i.opcode = "STORE" THEN ImmS(i) ELSE ImmI(i)))

MisalignedData(i) ==
  /\ i.opcode \in {"LOAD", "STORE"}
  /\ Address(i) % (CASE MemSizeOf(i) = "B" -> 1
                     [] MemSizeOf(i) = "H" -> 2
                     [] OTHER -> 4) # 0

(* A write to a CSR: always for the RW forms, only with a nonzero source   *)
(* field for the others.                                                   *)
WritesCsr(i) == IsCsrForm(i) /\ (CsrOpOf(i) = "RW" \/ i.rs1 # 0)

BadCsr(i) == /\ IsCsrForm(i)
             /\ \/ Imm12(i) \notin Implemented
                \/ WritesCsr(i) /\ Imm12(i) >= 3072

(* The exception an instruction raises, highest priority first, in the     *)
(* order rv32_core.sv states; tval as measured on Sail (0018-traps.md).    *)
Exception(w, i) ==
  LET raise(c, tval) == [valid |-> TRUE, cause |-> c, tval |-> tval]
  IN  IF Transfers(i) /\ ~ Aligned(Destination(i)) THEN raise(0, Destination(i))
      ELSE IF Illegal(i) \/ BadCsr(i) THEN raise(2, w)
      ELSE IF Ebreak(i) THEN raise(3, pc)
      ELSE IF Ecall(i)  THEN raise(11, 0)
      ELSE IF MisalignedData(i)
        THEN raise(IF i.opcode = "STORE" THEN 6 ELSE 4, Address(i))
      ELSE [valid |-> FALSE, cause |-> 0, tval |-> 0]

-----------------------------------------------------------------------------
(* The value an instruction writes to rd. *)
Result(i, cyc) ==
  CASE i.opcode = "OP"    -> Alu(ArithOp(i), Reg(i.rs1), Reg(i.rs2))
    [] i.opcode = "OPIMM" -> Alu(ArithOp(i), Reg(i.rs1), ToWord(ImmI(i)))
    [] i.opcode = "LUI"   -> ToWord(ImmU(i))
    [] i.opcode = "AUIPC" -> ToWord(pc + ImmU(i))
    [] i.opcode \in {"JAL", "JALR"} -> ToWord(pc + 4)
    [] i.opcode = "LOAD"  -> LoadData(Address(i) % 4, MemSizeOf(i),
                                      i.funct3 < 4, mem[Index(Address(i))])
    [] OTHER -> CsrRdata([csr EXCEPT !.mcycle = cyc], Imm12(i), NoIrq)

WritesRd(i) == /\ i.rd # 0
               /\ \/ i.opcode \in {"OP", "OPIMM", "LUI", "AUIPC", "JAL",
                                   "JALR", "LOAD"}
                  \/ IsCsrForm(i)

(* A store updates the lanes its size and address select; peripherals lie  *)
(* in the upper half of the address space and are not memory.              *)
Stored(i) ==
  IF TopBit(Address(i)) THEN mem
  ELSE [mem EXCEPT ![Index(Address(i))] =
          WriteLanes(@, ByteEnable(Address(i) % 4, MemSizeOf(i)),
                     StoreAligned(MemSizeOf(i), Reg(i.rs2)))]

(* The CSR a write leaves, every field legalised (WARL). *)
CsrWritten(i, c) ==
  LET old == CsrRdata(c, Imm12(i), NoIrq)
      src == IF i.funct3 >= 4 THEN i.rs1 ELSE Reg(i.rs1)
      v   == CASE CsrOpOf(i) = "RW" -> src
               [] CsrOpOf(i) = "RS" -> BitOr(old, src)
               [] OTHER -> BitAnd(old, BitNot(src))
      a   == Imm12(i)
  IN  CASE a = CSR_MSTATUS   -> [c EXCEPT !.mstatus_mie  = Bit3(v),
                                          !.mstatus_mpie = Bit7(v)]
        [] a = CSR_MIE       -> [c EXCEPT !.mie = MaskMie(v)]
        [] a = CSR_MTVEC     -> [c EXCEPT !.mtvec = AlignDown(v)]
        [] a = CSR_MSCRATCH  -> [c EXCEPT !.mscratch = v]
        [] a = CSR_MEPC      -> [c EXCEPT !.mepc = AlignDown(v)]
        [] a = CSR_MCAUSE    -> [c EXCEPT !.mcause = v]
        [] a = CSR_MTVAL     -> [c EXCEPT !.mtval = v]
        [] a = CSR_MINSTRET  -> [c EXCEPT !.minstret.lo = v % CounterSize]
        [] a = CSR_MINSTRETH -> [c EXCEPT !.minstret.hi = v % CounterSize]
        [] OTHER -> c

(* minstret counts every instruction that retires without writing it. *)
Counted(i, c) ==
  IF WritesCsr(i) /\ Imm12(i) \in {CSR_MINSTRET, CSR_MINSTRETH} THEN c
  ELSE [c EXCEPT !.minstret = Increment(@)]

CsrAfter(i, exc, cyc) ==
  IF exc.valid
    THEN [csr EXCEPT !.mepc = pc, !.mcause = exc.cause, !.mtval = exc.tval,
                     !.mstatus_mpie = csr.mstatus_mie, !.mstatus_mie = FALSE]
  ELSE IF Mret(i)
    THEN Counted(i, [csr EXCEPT !.mstatus_mie = csr.mstatus_mpie,
                                !.mstatus_mpie = TRUE])
  ELSE IF WritesCsr(i)
    THEN [Counted(i, CsrWritten(i, [csr EXCEPT !.mcycle = cyc]))
            EXCEPT !.mcycle = ZeroCounter]
  ELSE Counted(i, csr)

PcAfter(i, exc) ==
  CASE exc.valid -> csr.mtvec
    [] ~ exc.valid /\ Mret(i) -> csr.mepc
    [] ~ exc.valid /\ Transfers(i) -> Destination(i)
    [] OTHER -> ToWord(pc + 4)

(* What the trace of the machine says of one instruction. *)
NoRecord == [valid |-> FALSE, pc |-> 0, rd |-> 0, value |-> 0,
             stores |-> FALSE, addr |-> 0, data |-> 0]

Record(w, cyc) ==
  LET i   == InstrOf[w]
      exc == Exception(w, i)
      wr  == ~ exc.valid /\ WritesRd(i)
      st  == ~ exc.valid /\ i.opcode = "STORE"
  IN  [valid  |-> TRUE,
       pc     |-> pc,
       rd     |-> IF wr THEN i.rd ELSE 0,
       value  |-> IF wr THEN Result(i, cyc) ELSE 0,
       stores |-> st,
       addr   |-> IF st THEN Address(i) ELSE 0,
       data   |-> IF st THEN Reg(i.rs2) ELSE 0]

SeenAfter(i, m) ==
  IF i.opcode = "MISCMEM" /\ i.funct3 = 1 THEN Synced(m)
  ELSE [k \in TcmIndex |-> seen[k] \cup {m[k]}]

-----------------------------------------------------------------------------
Init ==
  /\ pc = 0
  /\ regs = [r \in 1 .. 31 |-> 0]
  /\ mem \in [TcmIndex -> Word]
  /\ csr = CsrReset
  /\ settled = mem
  /\ seen = Synced(mem)

(* Execute the instruction w, fetched from pc. *)
Execute(w, cyc) ==
  LET i   == InstrOf[w]
      exc == Exception(w, i)
      m   == IF ~ exc.valid /\ i.opcode = "STORE" THEN Stored(i) ELSE mem
  IN  /\ pc' = PcAfter(i, exc)
      /\ regs' = IF ~ exc.valid /\ WritesRd(i)
                   THEN [regs EXCEPT ![i.rd] = Result(i, cyc)] ELSE regs
      /\ mem' = m
      /\ csr' = CsrAfter(i, exc, cyc)
      /\ settled' = mem
      /\ seen' = SeenAfter(i, m)

Step == \E w \in seen[Index(pc)], cyc \in Counter : Execute(w, cyc)

(* The youngest store is now safe from a reset. *)
Drain == settled' = mem /\ UNCHANGED <<pc, regs, mem, csr, seen>>

Reset ==
  /\ pc' = 0
  /\ regs' = [r \in 1 .. 31 |-> 0]
  /\ mem' = settled
  /\ csr' = CsrReset
  /\ settled' = settled
  /\ seen' = Synced(settled)

Next == Step \/ Drain \/ Reset

Spec == Init /\ [][Next]_archVars

=============================================================================

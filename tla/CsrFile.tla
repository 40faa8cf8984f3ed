------------------------------ MODULE CsrFile ------------------------------
(***************************************************************************)
(* csr.sv: the machine-mode CSR file, as functions of its flops and of its *)
(* ports.  Pipeline.tla holds the flops in its variable csr; CsrUnit.tla   *)
(* drives the file on its own with every combination of its inputs.        *)
(*                                                                         *)
(* A 64-bit counter is a pair of halves.  CounterSize is the number of     *)
(* values of one half, WordSize in the real core: a smaller value brings   *)
(* the carry between the halves within reach of the model checker.         *)
(***************************************************************************)
EXTENDS Words

CONSTANT CounterSize

ASSUME CounterSizeAssumption == CounterSize \in 2 .. WordSize

(* Addresses, csr.sv's case labels. *)
CSR_MSTATUS   == 768      \* 12'h300
CSR_MISA      == 769      \* 12'h301
CSR_MIE       == 772      \* 12'h304
CSR_MTVEC     == 773      \* 12'h305
CSR_MSTATUSH  == 784      \* 12'h310
CSR_MSCRATCH  == 832      \* 12'h340
CSR_MEPC      == 833      \* 12'h341
CSR_MCAUSE    == 834      \* 12'h342
CSR_MTVAL     == 835      \* 12'h343
CSR_MIP       == 836      \* 12'h344
CSR_MCYCLE    == 2816     \* 12'hB00
CSR_MINSTRET  == 2818     \* 12'hB02
CSR_MCYCLEH   == 2944     \* 12'hB80
CSR_MINSTRETH == 2946     \* 12'hB82
InfoCsrs      == 3857 .. 3860      \* mvendorid, marchid, mimpid, mhartid

Implemented ==
  {CSR_MSTATUS, CSR_MISA, CSR_MIE, CSR_MTVEC, CSR_MSTATUSH, CSR_MSCRATCH,
   CSR_MEPC, CSR_MCAUSE, CSR_MTVAL, CSR_MIP, CSR_MCYCLE, CSR_MCYCLEH,
   CSR_MINSTRET, CSR_MINSTRETH} \cup InfoCsrs

Half    == 0 .. (CounterSize - 1)
Counter == [lo : Half, hi : Half]

CsrType ==
  [mstatus_mie : BOOLEAN, mstatus_mpie : BOOLEAN,
   mie : Word, mtvec : Word, mscratch : Word, mepc : Word,
   mcause : Word, mtval : Word,
   mcycle : Counter, minstret : Counter]

CsrReset ==
  [mstatus_mie |-> FALSE, mstatus_mpie |-> FALSE,
   mie |-> 0, mtvec |-> 0, mscratch |-> 0, mepc |-> 0,
   mcause |-> 0, mtval |-> 0,
   mcycle |-> [lo |-> 0, hi |-> 0], minstret |-> [lo |-> 0, hi |-> 0]]

(* The interrupt pins; rv32_core ties all three low. *)
IrqPins == [software : BOOLEAN, timer : BOOLEAN, external : BOOLEAN]
NoIrq   == [software |-> FALSE, timer |-> FALSE, external |-> FALSE]

Bit(p, weight) == IF p THEN weight ELSE 0

(* Bits 3 and 7 of a word: MIE and MPIE of mstatus. *)
Bit3(w) == (w \div 8) % 2 = 1
Bit7(w) == (w \div 128) % 2 = 1

Mip(irq) == ToWord(Bit(irq.software, 8) + Bit(irq.timer, 128)
                     + Bit(irq.external, 2048))

(* MPP, bits 12:11, is hardwired to M-mode. *)
Mstatus(c) == ToWord(6144 + Bit(c.mstatus_mie, 8) + Bit(c.mstatus_mpie, 128))

(* MISA_VALUE: MXL = 1 and the I bit. *)
Misa == ToWord(1073741824 + 256)

(* MIE_WRITABLE masks a write to mie to the three implemented enables. *)
MieWritable == 2184
MaskMie(w)  == BitAnd(w, MieWritable)

CsrRdata(c, addr, irq) ==
  CASE addr = CSR_MSTATUS   -> Mstatus(c)
    [] addr = CSR_MISA      -> Misa
    [] addr = CSR_MIE       -> c.mie
    [] addr = CSR_MTVEC     -> c.mtvec
    [] addr = CSR_MSCRATCH  -> c.mscratch
    [] addr = CSR_MEPC      -> c.mepc
    [] addr = CSR_MCAUSE    -> c.mcause
    [] addr = CSR_MTVAL     -> c.mtval
    [] addr = CSR_MIP       -> Mip(irq)
    [] addr = CSR_MCYCLE    -> c.mcycle.lo
    [] addr = CSR_MCYCLEH   -> c.mcycle.hi
    [] addr = CSR_MINSTRET  -> c.minstret.lo
    [] addr = CSR_MINSTRETH -> c.minstret.hi
    [] OTHER                -> 0

ReadOnly(addr) == addr \div 1024 = 3

(***************************************************************************)
(* The ports of one cycle: the access of the instruction in EX, the trap   *)
(* entry, mret, and whether the instruction retires.                       *)
(***************************************************************************)
PortType ==
  [addr : 0 .. 4095, op : {"NONE", "RW", "RS", "RC"}, wdata : Word,
   write : BOOLEAN, trap_valid : BOOLEAN, trap_epc : Word,
   trap_cause : Word, trap_tval : Word, mret : BOOLEAN,
   instr_retired : BOOLEAN, irq : IrqPins]

CsrWval(c, p) ==
  LET rdata == CsrRdata(c, p.addr, p.irq)
  IN  CASE p.op = "RW" -> p.wdata
        [] p.op = "RS" -> BitOr(rdata, p.wdata)
        [] p.op = "RC" -> BitAnd(rdata, BitNot(p.wdata))
        [] OTHER       -> rdata

DoWrite(p) == /\ p.write
              /\ p.op # "NONE"
              /\ p.addr \in Implemented
              /\ ~ ReadOnly(p.addr)

CsrIllegal(addr, op, write) ==
  op # "NONE" /\ (addr \notin Implemented \/ (write /\ ReadOnly(addr)))

(* The written value is final: a write to either half of minstret is not   *)
(* counted on top of itself.                                               *)
WritesMinstretNever(p) == FALSE          \* mutant: the write is counted too
WritesMinstret(p) == DoWrite(p) /\ p.addr \in {CSR_MINSTRET, CSR_MINSTRETH}

IncrementUnbounded(n) ==                 \* mutant: the high half never wraps
  IF n.lo < CounterSize - 1 THEN [lo |-> n.lo + 1, hi |-> n.hi]
  ELSE [lo |-> 0, hi |-> n.hi + 1]

IncrementNoCarry(n) ==                   \* mutant: the halves do not connect
  [lo |-> (n.lo + 1) % CounterSize, hi |-> n.hi]

Increment(n) ==
  IF n.lo < CounterSize - 1 THEN [lo |-> n.lo + 1, hi |-> n.hi]
  ELSE IF n.hi < CounterSize - 1 THEN [lo |-> 0, hi |-> n.hi + 1]
  ELSE [lo |-> 0, hi |-> 0]

(* Trap entry outranks mret, which outranks a software write. *)
SoftwareWrite(p, addr) ==
  ~ p.trap_valid /\ ~ p.mret /\ DoWrite(p) /\ p.addr = addr

(* A register with no side but software writes (and trap entry). *)
Written(c, p, addr, old, new, trapped) ==
  IF p.trap_valid THEN trapped
  ELSE IF SoftwareWrite(p, addr) THEN new
  ELSE old

(* The half that is written takes the value, the other one the count: the  *)
(* later nonblocking assignment wins for the bits it names.                *)
WriteHalves(n, c, p, lo, hi) ==
  [lo |-> IF SoftwareWrite(p, lo) THEN CsrWval(c, p) % CounterSize ELSE n.lo,
   hi |-> IF SoftwareWrite(p, hi) THEN CsrWval(c, p) % CounterSize ELSE n.hi]

CountedMinstret(c, p) ==
  IF p.instr_retired /\ ~ WritesMinstret(p) THEN Increment(c.minstret)
  ELSE c.minstret

(* The two-level interrupt-enable stack. *)
MieNext(c, p) ==
  IF p.trap_valid THEN FALSE
  ELSE IF p.mret THEN c.mstatus_mpie
  ELSE IF SoftwareWrite(p, CSR_MSTATUS) THEN Bit3(CsrWval(c, p))
  ELSE c.mstatus_mie

MpieNextNotPushed(c, p) ==         \* mutant: trap entry does not push MIE
  IF p.mret THEN TRUE
  ELSE IF SoftwareWrite(p, CSR_MSTATUS) THEN Bit7(CsrWval(c, p))
  ELSE c.mstatus_mpie

MpieNext(c, p) ==
  IF p.trap_valid THEN c.mstatus_mie
  ELSE IF p.mret THEN TRUE
  ELSE IF SoftwareWrite(p, CSR_MSTATUS) THEN Bit7(CsrWval(c, p))
  ELSE c.mstatus_mpie

(* The flops after one clock edge. *)
CsrNext(c, p) ==
  LET wval == CsrWval(c, p)
  IN
  [mstatus_mie  |-> MieNext(c, p),
   mstatus_mpie |-> MpieNext(c, p),
   mie      |-> Written(c, p, CSR_MIE, c.mie, MaskMie(wval), c.mie),
   mtvec    |-> Written(c, p, CSR_MTVEC, c.mtvec, AlignDown(wval), c.mtvec),
   mscratch |-> Written(c, p, CSR_MSCRATCH, c.mscratch, wval, c.mscratch),
   mepc     |-> Written(c, p, CSR_MEPC, c.mepc, AlignDown(wval),
                        AlignDown(p.trap_epc)),
   mcause   |-> Written(c, p, CSR_MCAUSE, c.mcause, wval, p.trap_cause),
   mtval    |-> Written(c, p, CSR_MTVAL, c.mtval, wval, p.trap_tval),
   mcycle   |-> WriteHalves(Increment(c.mcycle), c, p,
                            CSR_MCYCLE, CSR_MCYCLEH),
   minstret |-> WriteHalves(CountedMinstret(c, p), c, p,
                            CSR_MINSTRET, CSR_MINSTRETH)]

(* irq_pending, an output of the core until interrupts are taken. *)
IrqPending(c, irq) == c.mstatus_mie /\ BitAnd(c.mie, Mip(irq)) # 0

=============================================================================

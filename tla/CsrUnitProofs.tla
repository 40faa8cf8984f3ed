--------------------------- MODULE CsrUnitProofs ---------------------------
(***************************************************************************)
(* csr.sv counts and nests as software is told, for every word size, every *)
(* width of a counter and every set of inputs its contract allows: proofs  *)
(* about CsrUnit.                                                          *)
(***************************************************************************)
EXTENDS CsrUnit, DatapathProofs

(***************************************************************************)
(* Counters.                                                               *)
(***************************************************************************)
(* The quotient and the remainder of q * b + r are q and r.                *)
LEMMA DivModUnique ==
  ASSUME NEW b \in Nat, b > 0, NEW q \in Nat, NEW r \in 0 .. (b - 1)
  PROVE  /\ (q * b + r) \div b = q
         /\ (q * b + r) % b = r
<1> DEFINE a == q * b + r
           s == a \div b
           t == a % b
<1>1. s \in Int /\ t \in 0 .. (b - 1) /\ a = s * b + t
  OBVIOUS
<1>2. (q - s) * b = t - r
  BY <1>1
<1>3. q = s
  BY <1>1, <1>2
<1>4. QED
  BY <1>1, <1>3

(* A pair of halves is a number below Modulus, and the halves are its      *)
(* digits.                                                                 *)
LEMMA NumberDigits ==
  ASSUME NEW n \in Counter
  PROVE  /\ Number(n) \in 0 .. (Modulus - 1)
         /\ Number(n) \div CounterSize = n.hi
         /\ Number(n) % CounterSize = n.lo
<1>1. /\ n.hi \in Nat /\ n.lo \in 0 .. (CounterSize - 1)
      /\ n.hi <= CounterSize - 1
      /\ CounterSize \in Nat /\ CounterSize > 0
  BY CounterSizeAssumption, WordSizeFacts DEF Counter, Half
<1>2. n.hi * CounterSize <= (CounterSize - 1) * CounterSize
  BY <1>1
<1>3. n.hi * CounterSize \in Nat /\ CounterSize * CounterSize \in Nat
  BY <1>1
<1>4. Number(n) \in 0 .. (Modulus - 1)
  BY <1>1, <1>2, <1>3 DEF Number, Modulus
<1>5. QED
  BY <1>1, <1>4, DivModUnique DEF Number

(* The carry between the halves: counting a pair counts its number.        *)
LEMMA IncrementCounts ==
  ASSUME NEW n \in Counter
  PROVE  /\ Increment(n) \in Counter
         /\ Number(Increment(n)) = (Number(n) + 1) % Modulus
<1>1. /\ n.hi \in 0 .. (CounterSize - 1) /\ n.lo \in 0 .. (CounterSize - 1)
      /\ CounterSize \in Nat /\ CounterSize >= 2
  BY CounterSizeAssumption, WordSizeFacts DEF Counter, Half
<1>2. Increment(n) \in Counter
  BY IncrementType
<1>3. Number(n) \in 0 .. (Modulus - 1) /\ Modulus \in Nat
  BY <1>1, NumberDigits DEF Modulus
<1>4. CASE n.lo < CounterSize - 1
  <2>1. Number(Increment(n)) = Number(n) + 1
    BY <1>1, <1>4 DEF Increment, Number
  <2>2. Number(n) + 1 < Modulus
    BY <1>2, <2>1, NumberDigits, <1>3
  <2>3. QED
    BY <1>2, <1>3, <2>1, <2>2
<1>5. CASE n.lo = CounterSize - 1 /\ n.hi < CounterSize - 1
  <2>1. Number(Increment(n)) = (n.hi + 1) * CounterSize
    BY <1>1, <1>5 DEF Increment, Number
  <2>2. Number(Increment(n)) = Number(n) + 1
    BY <1>1, <1>5, <2>1 DEF Number
  <2>3. Number(n) + 1 < Modulus
    BY <1>2, <2>2, NumberDigits, <1>3
  <2>4. QED
    BY <1>2, <1>3, <2>2, <2>3
<1>6. CASE n.lo = CounterSize - 1 /\ n.hi = CounterSize - 1
  <2>1. Number(Increment(n)) = 0
    BY <1>1, <1>6 DEF Increment, Number
  <2>2. Number(n) + 1 = Modulus
    BY <1>1, <1>6 DEF Number, Modulus
  <2>3. QED
    BY <1>2, <1>3, <2>1, <2>2
<1>7. QED
  BY <1>1, <1>4, <1>5, <1>6

(* Writing a half of a counter writes that digit of the number.            *)
LEMMA WriteHalvesCounts ==
  ASSUME NEW n \in Counter, NEW c \in CsrType, NEW p \in PortType,
         NEW lo, NEW hi, lo # hi
  PROVE  /\ WriteHalves(n, c, p, lo, hi) \in Counter
         /\ Number(WriteHalves(n, c, p, lo, hi))
              = WrittenTo(Number(n), CsrWval(c, p) % CounterSize, p, lo, hi)
<1> DEFINE v == CsrWval(c, p) % CounterSize
           w == WriteHalves(n, c, p, lo, hi)
<1>1. v \in Half
  <2>1. CsrWval(c, p) \in Nat
    BY CsrWvalType, WordSizeFacts, Zenon
  <2>2. CounterSize \in Nat /\ CounterSize > 0
    BY WordSizeFacts, CounterSizeAssumption
  <2>3. QED
    BY <2>1, <2>2 DEF Half
<1>2. n.hi \in Half /\ n.lo \in Half
  BY DEF Counter
<1>3. w.lo = (IF SoftwareWrite(p, lo) THEN v ELSE n.lo)
      /\ w.hi = (IF SoftwareWrite(p, hi) THEN v ELSE n.hi)
  BY DEF WriteHalves
<1>4. w \in Counter
  BY <1>1, <1>2 DEF WriteHalves, Counter
<1>5. ~ (SoftwareWrite(p, lo) /\ SoftwareWrite(p, hi))
  BY DEF SoftwareWrite
<1>6. Number(w) = WrittenTo(Number(n), v, p, lo, hi)
  <2> HIDE DEF v, w
  <2>1. CASE SoftwareWrite(p, lo)
    BY <1>3, <1>5, <2>1, NumberDigits DEF WrittenTo, Number
  <2>2. CASE SoftwareWrite(p, hi)
    BY <1>3, <1>5, <2>2, NumberDigits DEF WrittenTo, Number
  <2>3. CASE ~ SoftwareWrite(p, lo) /\ ~ SoftwareWrite(p, hi)
    BY <1>3, <2>3 DEF WrittenTo, Number
  <2>4. QED
    BY <2>1, <2>2, <2>3
<1>7. QED
  BY <1>4, <1>6

(***************************************************************************)
(* The inductive invariant.                                                *)
(***************************************************************************)
HandlerType ==
  handler \in [phase : {"none", "running", "returned"}, mie : BOOLEAN]

(* A running handler has interrupts disabled in mstatus itself, and the    *)
(* stack below it holds what the trap interrupted.                         *)
TrapStack ==
  /\ handler.phase = "running" =>
       csr.mstatus_mie = FALSE /\ csr.mstatus_mpie = handler.mie
  /\ handler.phase = "returned" => csr.mstatus_mie = handler.mie

CsrUnitInv == /\ csr \in CsrType
              /\ HandlerType
              /\ MinstretCounts
              /\ McycleCounts
              /\ TrapStack

LEMMA InitCsrUnitInv == Init => CsrUnitInv
<1> SUFFICES ASSUME csr = CsrReset, instret = 0, cycles = 0,
                    handler = [phase |-> "none", mie |-> FALSE]
             PROVE  CsrUnitInv
  BY DEF Init
<1>1. csr \in CsrType
  BY CsrResetType
<1>2. Number([lo |-> 0, hi |-> 0]) = 0
  BY CounterSizeAssumption, WordSizeFacts DEF Number
<1>3. MinstretCounts /\ McycleCounts
  BY <1>2 DEF MinstretCounts, McycleCounts, CsrReset
<1>4. HandlerType /\ TrapStack
  BY DEF HandlerType, TrapStack
<1>5. QED
  BY <1>1, <1>3, <1>4 DEF CsrUnitInv

(* The two counters of the next flops, apart from the rest of CsrNext.     *)
LEMMA CountersNext ==
  ASSUME NEW c, NEW p
  PROVE  /\ CsrNext(c, p).mcycle
              = WriteHalves(Increment(c.mcycle), c, p, CSR_MCYCLE, CSR_MCYCLEH)
         /\ CsrNext(c, p).minstret
              = WriteHalves(CountedMinstret(c, p), c, p,
                            CSR_MINSTRET, CSR_MINSTRETH)
         /\ CsrNext(c, p).mstatus_mie = MieNext(c, p)
         /\ CsrNext(c, p).mstatus_mpie = MpieNext(c, p)
  BY DEF CsrNext

(* mcycle counts every cycle, the cycle of a write included.               *)
LEMMA McycleStep ==
  ASSUME csr \in CsrType, McycleCounts, NEW p \in Ports,
         csr' = CsrNext(csr, p), Observe(p)
  PROVE  McycleCounts'
<1>1. p \in PortType /\ csr.mcycle \in Counter
  BY PortsAssumption DEF CsrType
<1> DEFINE n == Increment(csr.mcycle)
<1>2. n \in Counter /\ Number(n) = (cycles + 1) % Modulus
  BY <1>1, IncrementCounts DEF McycleCounts
<1>3. CSR_MCYCLE # CSR_MCYCLEH
  BY DEF CSR_MCYCLE, CSR_MCYCLEH
<1> HIDE DEF n
<1>4. Number(WriteHalves(n, csr, p, CSR_MCYCLE, CSR_MCYCLEH))
        = WrittenTo(Number(n), CsrWval(csr, p) % CounterSize, p,
                    CSR_MCYCLE, CSR_MCYCLEH)
  BY <1>1, <1>2, <1>3, WriteHalvesCounts
<1>5. csr'.mcycle = WriteHalves(n, csr, p, CSR_MCYCLE, CSR_MCYCLEH)
  BY CountersNext DEF n
<1>6. cycles' = WrittenTo((cycles + 1) % Modulus, CsrWval(csr, p) % CounterSize,
                          p, CSR_MCYCLE, CSR_MCYCLEH)
  BY DEF Observe
<1>7. QED
  BY <1>2, <1>4, <1>5, <1>6 DEF McycleCounts

(* minstret: an instruction that writes a half of it is not counted, a     *)
(* trapping one neither counts nor writes.                                 *)
LEMMA MinstretStep ==
  ASSUME csr \in CsrType, MinstretCounts, NEW p \in Ports,
         csr' = CsrNext(csr, p), Observe(p)
  PROVE  MinstretCounts'
<1>1. p \in PortType /\ Drivable(p) /\ csr.minstret \in Counter
  BY PortsAssumption DEF CsrType
<1> DEFINE n == CountedMinstret(csr, p)
           v == CsrWval(csr, p) % CounterSize
           touches == \/ SoftwareWrite(p, CSR_MINSTRET)
                      \/ SoftwareWrite(p, CSR_MINSTRETH)
<1>2. n \in Counter
  BY <1>1, IncrementCounts DEF CountedMinstret
<1>3. CSR_MINSTRET # CSR_MINSTRETH
  BY DEF CSR_MINSTRET, CSR_MINSTRETH
<1>4. csr'.minstret = WriteHalves(n, csr, p, CSR_MINSTRET, CSR_MINSTRETH)
  BY CountersNext
<1>5. instret' = IF touches
                   THEN WrittenTo(instret, v, p, CSR_MINSTRET, CSR_MINSTRETH)
                 ELSE IF p.instr_retired THEN (instret + 1) % Modulus
                 ELSE instret
  BY DEF Observe
<1>6. Number(WriteHalves(n, csr, p, CSR_MINSTRET, CSR_MINSTRETH))
        = WrittenTo(Number(n), v, p, CSR_MINSTRET, CSR_MINSTRETH)
  <2> HIDE DEF n
  <2>1. QED
    BY <1>1, <1>2, <1>3, WriteHalvesCounts
<1>7. CASE touches
  <2>1. WritesMinstret(p)
    BY <1>7 DEF SoftwareWrite, WritesMinstret
  <2>2. Number(n) = instret
    BY <2>1 DEF CountedMinstret, MinstretCounts
  <2>3. QED
    BY <1>4, <1>5, <1>6, <1>7, <2>2 DEF MinstretCounts
<1>8. CASE ~ touches
  <2>1. WrittenTo(Number(n), v, p, CSR_MINSTRET, CSR_MINSTRETH) = Number(n)
    BY <1>8 DEF WrittenTo
  <2>2. p.instr_retired => ~ WritesMinstret(p)
    BY <1>1, <1>8 DEF Drivable, WritesMinstret, SoftwareWrite, DoWrite
  <2>3. Number(n) = IF p.instr_retired THEN (instret + 1) % Modulus ELSE instret
    BY <1>1, <2>2, IncrementCounts DEF CountedMinstret, MinstretCounts
  <2>4. QED
    BY <1>4, <1>5, <1>6, <1>8, <2>1, <2>3 DEF MinstretCounts
<1>9. QED
  BY <1>7, <1>8

(* The interrupt-enable stack over one cycle.                              *)
LEMMA TrapStackStep ==
  ASSUME csr \in CsrType, HandlerType, TrapStack, NEW p \in Ports,
         csr' = CsrNext(csr, p), Observe(p)
  PROVE  HandlerType' /\ TrapStack'
<1>1. /\ p.trap_valid \in BOOLEAN /\ p.mret \in BOOLEAN /\ Drivable(p)
      /\ csr.mstatus_mie \in BOOLEAN /\ csr.mstatus_mpie \in BOOLEAN
  BY PortsAssumption DEF CsrType, PortType
<1>2. /\ csr'.mstatus_mie = MieNext(csr, p)
      /\ csr'.mstatus_mpie = MpieNext(csr, p)
  BY CountersNext
<1>3. /\ handler.phase \in {"none", "running", "returned"}
      /\ handler.mie \in BOOLEAN
      /\ handler = [phase |-> handler.phase, mie |-> handler.mie]
  BY DEF HandlerType
<1>4. CASE p.trap_valid
  <2>1. handler' = [phase |-> "running", mie |-> csr.mstatus_mie]
    BY <1>4 DEF Observe
  <2>2. csr'.mstatus_mie = FALSE /\ csr'.mstatus_mpie = csr.mstatus_mie
    BY <1>2, <1>4, Zenon DEF MieNext, MpieNext
  <2>3. QED
    BY <1>1, <2>1, <2>2 DEF HandlerType, TrapStack
<1>5. CASE ~ p.trap_valid /\ p.mret /\ handler.phase = "running"
  <2>1. handler' = [phase |-> "returned", mie |-> handler.mie]
    BY <1>3, <1>5 DEF Observe
  <2>2. csr'.mstatus_mie = csr.mstatus_mpie
    BY <1>2, <1>5, Zenon DEF MieNext
  <2>3. csr'.mstatus_mie = handler.mie
    BY <1>5, <2>2, Zenon DEF TrapStack
  <2>4. QED
    BY <1>3, <2>1, <2>3 DEF HandlerType, TrapStack
<1>6. CASE /\ ~ p.trap_valid
           /\ ~ (p.mret /\ handler.phase = "running")
           /\ p.mret \/ SoftwareWrite(p, CSR_MSTATUS)
  <2>1. handler' = [phase |-> "none", mie |-> handler.mie]
    BY <1>3, <1>6 DEF Observe
  <2>2. QED
    BY <1>3, <2>1 DEF HandlerType, TrapStack
<1>7. CASE ~ p.trap_valid /\ ~ p.mret /\ ~ SoftwareWrite(p, CSR_MSTATUS)
  <2>1. handler' = handler
    BY <1>7 DEF Observe
  <2>2. /\ csr'.mstatus_mie = csr.mstatus_mie
        /\ csr'.mstatus_mpie = csr.mstatus_mpie
    BY <1>2, <1>7, Zenon DEF MieNext, MpieNext
  <2>3. QED
    BY <2>1, <2>2, Zenon DEF HandlerType, TrapStack
<1>8. QED
  BY <1>4, <1>5, <1>6, <1>7

LEMMA NextCsrUnitInv == CsrUnitInv /\ [Next]_vars => CsrUnitInv'
<1> SUFFICES ASSUME CsrUnitInv, [Next]_vars PROVE CsrUnitInv'
  OBVIOUS
<1> USE DEF CsrUnitInv
<1>1. CASE Clock
  <2>1. PICK p \in Ports : csr' = CsrNext(csr, p) /\ Observe(p)
    BY <1>1 DEF Clock
  <2>2. csr' \in CsrType
    BY <2>1, CsrNextType, PortsAssumption
  <2>3. QED
    BY <2>1, <2>2, McycleStep, MinstretStep, TrapStackStep
<1>2. CASE Reset
  <2>1. Init'
    BY <1>2 DEF Reset, Init
  <2>2. QED
    BY <2>1, InitCsrUnitInv, PTL
<1>3. CASE UNCHANGED vars
  BY <1>3 DEF vars, HandlerType, MinstretCounts, McycleCounts, TrapStack
<1>4. QED
  BY <1>1, <1>2, <1>3 DEF Next

LEMMA CsrUnitInvariant == Spec => []CsrUnitInv
  BY InitCsrUnitInv, NextCsrUnitInv, PTL DEF Spec

(* minstret is the number of instructions retired since it was last        *)
(* written, for every width of a counter and every sequence of accesses,   *)
(* traps and retirements the ports allow (csr.sv).                         *)
THEOREM MinstretIsCorrect == Spec => []MinstretCounts
  BY CsrUnitInvariant, PTL DEF CsrUnitInv

(* mcycle is the number of cycles since it was last written, the carry of  *)
(* the cycle of a write of one half included (csr.sv).                     *)
THEOREM McycleIsCorrect == Spec => []McycleCounts
  BY CsrUnitInvariant, PTL DEF CsrUnitInv

(* No interrupt is pending to a running handler, whatever mie and the pins *)
(* hold, and its mret restores the enable that the trap interrupted.       *)
THEOREM HandlersNest == Spec => []HandlerNesting
<1>1. CsrUnitInv => HandlerNesting
  BY Zenon DEF CsrUnitInv, TrapStack, HandlerNesting, IrqPending
<1>2. QED
  BY <1>1, CsrUnitInvariant, PTL

=============================================================================

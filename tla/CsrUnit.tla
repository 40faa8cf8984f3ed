------------------------------ MODULE CsrUnit ------------------------------
(***************************************************************************)
(* csr.sv clocked on its own, driven by the combinations of inputs its     *)
(* contract allows (env_csr of verif/uvm drives it this way, a trap in the *)
(* cycle of a CSR write included), observed by histories: the 64-bit       *)
(* counters as the numbers software is told they are, the interrupt enable *)
(* a trap interrupted, and the last value mepc was asked to hold.          *)
(***************************************************************************)
EXTENDS CsrFile

CONSTANTS Ports      \* the port values of a run, some of PortType

(* What the ports' contract allows: a trapping instruction does not retire *)
(* and is no mret; mret and CSR accesses exclude each other; a CSR write   *)
(* belongs to a valid instruction, which retires unless it traps.          *)
Drivable(p) ==
  /\ p.trap_valid => ~ p.mret /\ ~ p.instr_retired
  /\ p.mret => p.op = "NONE" /\ p.instr_retired
  /\ p.write => p.op # "NONE" /\ (p.instr_retired \/ p.trap_valid)
  /\ CsrIllegal(p.addr, p.op, p.write) => ~ p.instr_retired

ASSUME PortsAssumption == \A p \in Ports : p \in PortType /\ Drivable(p)

VARIABLES csr,
          instret, cycles,    \* the counters as numbers below Modulus
          handler,            \* what the trap stack should hold
          epc                 \* the last value written or trapped to mepc

vars == <<csr, instret, cycles, handler, epc>>

Modulus == CounterSize * CounterSize

(* A software write to a half of a counter, on the whole number. *)
WrittenTo(n, v, p, lo, hi) ==
  CASE SoftwareWrite(p, lo) -> (n \div CounterSize) * CounterSize + v
    [] SoftwareWrite(p, hi) -> v * CounterSize + (n % CounterSize)
    [] OTHER -> n

Init ==
  /\ csr = CsrReset
  /\ instret = 0
  /\ cycles = 0
  /\ handler = [phase |-> "none", mie |-> FALSE]
  /\ epc = 0

(* A retirement counts unless the instruction writes the counter itself;   *)
(* the cycle in which mcycle is written counts before the write.           *)
Observe(p) ==
  LET v == CsrWval(csr, p) % CounterSize
      touches == \/ SoftwareWrite(p, CSR_MINSTRET)
                 \/ SoftwareWrite(p, CSR_MINSTRETH)
  IN  /\ instret' = IF touches
                      THEN WrittenTo(instret, v, p, CSR_MINSTRET, CSR_MINSTRETH)
                    ELSE IF p.instr_retired THEN (instret + 1) % Modulus
                    ELSE instret
      /\ cycles' = WrittenTo((cycles + 1) % Modulus, v, p,
                             CSR_MCYCLE, CSR_MCYCLEH)
      /\ handler' = IF p.trap_valid
                      THEN [phase |-> "running", mie |-> csr.mstatus_mie]
                    ELSE IF p.mret /\ handler.phase = "running"
                      THEN [handler EXCEPT !.phase = "returned"]
                    ELSE IF p.mret \/ SoftwareWrite(p, CSR_MSTATUS)
                      THEN [handler EXCEPT !.phase = "none"]
                    ELSE handler
      /\ epc' = IF p.trap_valid THEN p.trap_epc
                ELSE IF SoftwareWrite(p, CSR_MEPC) THEN CsrWval(csr, p)
                ELSE epc

Clock == \E p \in Ports : csr' = CsrNext(csr, p) /\ Observe(p)

Reset == /\ csr' = CsrReset
         /\ instret' = 0
         /\ cycles' = 0
         /\ handler' = [phase |-> "none", mie |-> FALSE]
         /\ epc' = 0

Next == Clock \/ Reset

Spec == Init /\ [][Next]_vars

-----------------------------------------------------------------------------
Number(n) == n.hi * CounterSize + n.lo

(* minstret is the number of instructions retired since it was written:    *)
(* no write is counted on top of itself, and the carry between the halves  *)
(* neither escapes a write nor is lost by one.                             *)
MinstretCounts == Number(csr.minstret) = instret

(* mcycle counts every cycle and carries while one half is being written.  *)
McycleCounts == Number(csr.mcycle) = cycles

(* A handler runs with interrupts off, whatever is enabled and pending,    *)
(* and its mret restores the enable the trap interrupted.                  *)
HandlerNesting ==
  /\ handler.phase = "running" =>
       /\ \A irq \in IrqPins : ~ IrqPending(csr, irq)
       /\ csr.mstatus_mpie = handler.mie
  /\ handler.phase = "returned" => csr.mstatus_mie = handler.mie

(* csr.sv:23-25, 63-66: of what is written to mepc, or of the address that *)
(* traps, only bit 0 is forced to zero.                                    *)
MepcForcesOnlyBit0 == csr.mepc = epc - (epc % 2)

=============================================================================

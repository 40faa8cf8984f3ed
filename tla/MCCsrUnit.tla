----------------------------- MODULE MCCsrUnit -----------------------------
(***************************************************************************)
(* Instances of CsrUnit: an 8-bit word, counters of two base-4 digits, and *)
(* the port values below.                                                  *)
(***************************************************************************)
EXTENDS CsrUnit

(* An idle cycle: nothing valid in EX. *)
Idle == [addr |-> 0, op |-> "NONE", wdata |-> 0, write |-> FALSE,
         trap_valid |-> FALSE, trap_epc |-> 0, trap_cause |-> 0,
         trap_tval |-> 0, mret |-> FALSE, instr_retired |-> FALSE,
         irq |-> NoIrq]

Retire     == [Idle EXCEPT !.instr_retired = TRUE]
MretPort   == [Retire EXCEPT !.mret = TRUE]
Access(addr, op, wdata, write) ==
  [Retire EXCEPT !.addr = addr, !.op = op, !.wdata = wdata, !.write = write]

Faulting(port, from) ==
  [port EXCEPT !.instr_retired = FALSE, !.trap_valid = TRUE,
               !.trap_epc = from, !.trap_cause = 2, !.trap_tval = 0]

Writes(addrs, values) ==
  {Access(a, op, v, op = "RW" \/ v # 0) :
     a \in addrs, op \in {"RW", "RS", "RC"}, v \in values}

(* Legal writes of the counters and of mstatus, traps that meet a write in *)
(* the same cycle, returns, and instructions that do neither.              *)
CounterPorts ==
  LET writes == Writes({CSR_MINSTRET, CSR_MINSTRETH, CSR_MCYCLE, CSR_MCYCLEH},
                       {0, 3})
  IN  {Idle, Retire} \cup writes \cup {Faulting(p, 8) : p \in writes}

StackPorts ==
  LET writes == Writes({CSR_MSTATUS, CSR_MIE}, {0, 8, 128, 136})
  IN  {Idle, MretPort} \cup writes
        \cup {Faulting(p, 8) : p \in writes}

MixedPorts == CounterPorts \cup StackPorts

EpcPorts ==
  {Idle, MretPort} \cup Writes({CSR_MEPC}, 0 .. 15)
    \cup {Faulting(Retire, e) : e \in {4, 8}}

=============================================================================

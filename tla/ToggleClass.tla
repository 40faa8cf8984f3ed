---------------------------- MODULE ToggleClass -----------------------------
(***************************************************************************)
(* verif/verilator/coverage/classify_toggles.py: every uncovered toggle    *)
(* point of rtl/core must be explained by exactly one rule.                *)
(*                                                                         *)
(* A toggle point is [sig, bit, dir]: bit is the index of a vector's bit,  *)
(* Scalar for a signal that is no vector; dir is "0->1" or "1->0".         *)
(***************************************************************************)
EXTENDS CovData

Scalar == -1
BOTH   == {"0->1", "1->0"}
LO     == {0, 1}
HI     == 19 .. 31
ALL32  == 0 .. 31

In(file, sigs) == {<< file, sig >> : sig \in sigs}

PC_SIGS ==
  In("if_stage.sv", {"pc", "if_id.pc", "pc_d", "pc_plus4", "pc_q"})
    \cup In("rv32_core.sv", {"imem_addr", "if_id.pc", "id_ex_q.pc", "ex_mem_q.pc",
                             "mem_wb_q.pc_plus4", "if_pc"})
    \cup In("csr.sv", {"trap_epc"})

Rule(name, sigs, bits, dirs) == [name |-> name, sigs |-> sigs, bits |-> bits, dirs |-> dirs]

RULES ==
  { Rule("PC_ALIGN", PC_SIGS \cup In("csr.sv", {"trap_epc_lsb_unused"}), LO, BOTH),
    Rule("PC_HIGH", PC_SIGS, HI, BOTH),
    Rule("TVEC_EPC_LSB", In("csr.sv", {"mtvec_q", "mepc_q", "mtvec_o", "mepc_o"})
                           \cup In("rv32_core.sv", {"mtvec_o", "mepc_o"}), LO, BOTH),
    Rule("CAUSE_HIGH", In("csr.sv", {"trap_cause"})
                         \cup In("rv32_core.sv", {"ex_trap_cause"}), 4 .. 31, BOTH),
    Rule("IRQ_TIED", In("csr.sv", {"irq_timer", "irq_software", "irq_external",
                                   "irq_pending"})
                       \cup In("rv32_core.sv", {"irq_pending_o"}), {Scalar}, BOTH),
    Rule("MIP", In("csr.sv", {"mip"}), ALL32, BOTH),
    Rule("MIE_WARL", In("csr.sv", {"mie_q"}), ALL32 \ {3, 7, 11}, BOTH),
    Rule("MSTATUS_CONST", In("csr.sv", {"mstatus"}), ALL32 \ {3, 7, 11, 12}, BOTH),
    Rule("MSTATUS_MPP", In("csr.sv", {"mstatus"}), {11, 12}, {"1->0"}),
    Rule("IMM_ZERO", In("imm_gen.sv", {"imm_b", "imm_j"}), {0}, BOTH),
    Rule("IMM_U_LOW", In("imm_gen.sv", {"imm_u"}), 0 .. 11, BOTH),
    Rule("JALR_LSB", In("rv32_core.sv", {"ex_jalr_target"}), {0}, BOTH),
    Rule("MISALIGNED_O", In("rv32_core.sv", {"mem_misaligned_o"}), {Scalar}, BOTH) }

matches(rule, k) ==
  /\ PointOf(k).dir \in rule.dirs
  /\ << FileOf(k).name, PointOf(k).sig >> \in rule.sigs
  /\ PointOf(k).bit \in rule.bits

Uncovered(points) ==
  PointsUnder(points, "rtl/core/", "toggle") \ HitUnder(points, "rtl/core/", "toggle")

(* A slip: the first rule that matches takes the point. *)
ClassifiedFirstMatch(points, rules) ==
  /\ \A k \in Uncovered(points) : \E r \in rules : matches(r, k)
  /\ \A r \in rules : \E k \in Uncovered(points) : matches(r, k)

(* No point unmatched, none ambiguous, no rule stale. *)
Classified(points, rules) ==
  /\ \A k \in Uncovered(points) : Cardinality({r \in rules : matches(r, k)}) = 1
  /\ \A r \in rules : \E k \in Uncovered(points) : matches(r, k)
=============================================================================

---------------------------- MODULE HazardUnit -----------------------------
(***************************************************************************)
(* hazard_unit.sv: operand forwarding and the load-use interlock, as       *)
(* combinational functions of the pipeline registers.                      *)
(***************************************************************************)
EXTENDS Integers

(* A stage whose result will be written to a register other than x0:       *)
(* mem_produces and wb_produces.                                           *)
ProducesX0(stage) ==                     \* mutant: x0 counts as a result
  stage.valid /\ stage.ctrl.reg_write

Produces(stage) ==
  stage.valid /\ stage.ctrl.reg_write /\ stage.ctrl.rd_addr # 0

(* fwd_a and fwd_b: the producer in MEM is newer than the one in WB. *)
FwdSelOldestFirst(used, addr, mem, wb) ==     \* mutant: the older one wins
  CASE used /\ Produces(wb) /\ wb.ctrl.rd_addr = addr -> "WB"
    [] used /\ ~ (Produces(wb) /\ wb.ctrl.rd_addr = addr)
            /\ Produces(mem) /\ mem.ctrl.rd_addr = addr -> "MEM"
    [] OTHER -> "NONE"

FwdSel(used, addr, mem, wb) ==
  CASE used /\ Produces(mem) /\ mem.ctrl.rd_addr = addr -> "MEM"
    [] used /\ ~ (Produces(mem) /\ mem.ctrl.rd_addr = addr)
            /\ Produces(wb) /\ wb.ctrl.rd_addr = addr -> "WB"
    [] OTHER -> "NONE"

(* fwd_id_rs1 and fwd_id_rs2, forced by the read-first register file. *)
FwdId(addr, wb) == Produces(wb) /\ wb.ctrl.rd_addr = addr

LoadUseFirstSource(ex, id) ==            \* mutant: rs2 is not compared
  /\ ex.valid
  /\ ex.ctrl.mem_read
  /\ ex.ctrl.rd_addr # 0
  /\ id.rs1_used /\ id.rs1_addr = ex.ctrl.rd_addr

(* A load in EX whose data the instruction in ID needs one cycle early. *)
LoadUse(ex, id) ==
  /\ ex.valid
  /\ ex.ctrl.mem_read
  /\ ex.ctrl.rd_addr # 0
  /\ \/ id.rs1_used /\ id.rs1_addr = ex.ctrl.rd_addr
     \/ id.rs2_used /\ id.rs2_addr = ex.ctrl.rd_addr

=============================================================================

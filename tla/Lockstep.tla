------------------------------ MODULE Lockstep ------------------------------
(***************************************************************************)
(* The core beside the machine it implements.                              *)
(*                                                                         *)
(* Pipeline runs unchanged; three history variables observe it.  seen is   *)
(* the fetch window of ISA, expected the retirement records ISA predicts   *)
(* for the instructions in MEM and in WB, and bubbles the number of clock  *)
(* edges since an instruction was last in EX.                              *)
(*                                                                         *)
(* The refinement mapping places the commit point at the edge where a      *)
(* valid instruction leaves EX: whatever is in MEM or WB has happened,     *)
(* whatever is in IF or ID has not.                                        *)
(***************************************************************************)
EXTENDS Pipeline

VARIABLES seen, expected, bubbles

allVars == <<vars, seen, expected, bubbles>>

(* The value the instruction in MEM will write back. *)
MemResult == CASE ex_mem.ctrl.wb_sel = "MEM" -> LoadedData
               [] ex_mem.ctrl.wb_sel = "PC4" -> ToWord(ex_mem.pc + 4)
               [] OTHER -> ex_mem.alu_result

ArchReg(r) == IF Produces(ex_mem) /\ ex_mem.ctrl.rd_addr = r THEN MemResult
              ELSE IF Produces(mem_wb) /\ mem_wb.ctrl.rd_addr = r THEN WbData
              ELSE regs[r]

(* The next instruction to execute is the oldest that has not left EX. *)
ArchPc == IF id_ex.valid THEN id_ex.pc
          ELSE IF redirect.valid THEN redirect.pc
          ELSE IF if_id.valid THEN if_id.pc
          ELSE pc

Arch == INSTANCE ISA WITH
          pc      <- ArchPc,
          regs    <- [r \in 1 .. 31 |-> ArchReg(r)],
          mem     <- MemNext,
          csr     <- [csr EXCEPT !.mcycle = [lo |-> 0, hi |-> 0]],
          settled <- mem,
          seen    <- seen

-----------------------------------------------------------------------------
LockstepInit ==
  /\ Init
  /\ seen = Arch!Synced(mem)
  /\ expected = [in_mem |-> Arch!NoRecord, in_wb |-> Arch!NoRecord]
  /\ bubbles = 0

Observe ==
  /\ seen' = IF id_ex.valid
               THEN Arch!SeenAfter(InstrOf[id_ex.instr], MemNext')
               ELSE seen
  /\ expected' = [in_mem |-> IF id_ex.valid
                               THEN Arch!Record(id_ex.instr, csr.mcycle)
                               ELSE Arch!NoRecord,
                  in_wb  |-> expected.in_mem]
  /\ bubbles' = IF id_ex.valid THEN 0 ELSE bubbles + 1

LockstepTick == Tick /\ Observe

LockstepReset ==
  /\ Reset
  /\ seen' = Arch!Synced(mem)
  /\ expected' = [in_mem |-> Arch!NoRecord, in_wb |-> Arch!NoRecord]
  /\ bubbles' = 0

LockstepNext == LockstepTick \/ LockstepReset

LockstepSpec == LockstepInit /\ [][LockstepNext]_allVars

(* Without resets, and with a clock that never stops. *)
LockstepRun == LockstepInit /\ [][LockstepTick]_allVars /\ WF_allVars(LockstepTick)

-----------------------------------------------------------------------------
(* The core implements the sequential machine: forwarding, the interlock,  *)
(* both flush cycles, the poison and the CSR access in EX add up to        *)
(* executing one instruction at a time.                                    *)
ImplementsISA == Arch!Spec

(* The trace ports carry, for each retirement, the record the sequential   *)
(* machine predicts: nothing is retired twice, dropped, or retired from    *)
(* the wrong path, a trapping instruction retires once and writes nothing. *)
TraceMatchesISA ==
  LET r == expected.in_wb
  IN  /\ mem_wb.valid = r.valid
      /\ r.valid =>
           /\ trace.pc = r.pc
           /\ (IF WbWe THEN mem_wb.ctrl.rd_addr ELSE 0) = r.rd
           /\ r.rd # 0 => WbData = r.value
           /\ trace.mem_we = r.stores
           /\ r.stores => trace.mem_addr = r.addr /\ trace.mem_wdata = r.data

(* Never more than three edges without an instruction in EX: a load-use    *)
(* stall and a redirect do not add up.                                     *)
AtMostThreeBubbles == bubbles <= 3

(* A program that never transfers backwards but in its last word reaches   *)
(* it: stalls, flushes and trap handlers all end, in every combination.    *)
LastWord == 24
Terminates == <>[] (ArchPc = LastWord)

(* rv32_core.sv:14-15 and if_stage.sv:3-6: a taken branch costs two cycles *)
(* (in programs without loads no other bubble exists, reset apart, whose   *)
(* two cycles of filling the pipeline are the same number).                *)
TakenBranchCostsTwo == bubbles <= 2

=============================================================================

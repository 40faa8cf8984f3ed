------------------------------- MODULE MulDiv -------------------------------
(***************************************************************************)
(* muldiv.sv: the valid/ready wrapper around the multiplier and the        *)
(* divider, one clock edge per step, driven as the agent of env_muldiv     *)
(* drives it and watched by the cycle count of its monitor.                *)
(***************************************************************************)
EXTENDS MulUnit, DivUnit, MulDivRef

CONSTANTS Requests,       \* what the user asks for
          Disturbances,   \* what else the operand ports may carry meanwhile
          MaxServed       \* bound: requests accepted between two resets

ASSUME RequestsAssumption ==
  Requests \subseteq Request /\ Disturbances \subseteq Request

VARIABLES md,             \* state_q, is_div_q and result_q of muldiv.sv
          mul, div,       \* the registers of the two units
          compute_cycles, \* edges since the accept, as the monitor counts
          served          \* requests accepted since reset

vars == <<md, mul, div, compute_cycles, served>>

IsDiv(op) == op \in DivOps

MulDivReset == [state |-> "IDLE", is_div |-> FALSE, result |-> 0]

Init == /\ md = MulDivReset
        /\ mul = MulReset
        /\ div = DivReset
        /\ compute_cycles = 0
        /\ served = 0

UnitDone == IF md.is_div THEN DivDone(div) ELSE MulDone(mul)

(* A slip: which unit to wait for is read off the operand ports. *)
WrapperNextLiveOp(valid_i, ready_i, r) ==
  CASE md.state = "IDLE" /\ valid_i
         -> [md EXCEPT !.state = "BUSY", !.is_div = IsDiv(r.op)]
    [] md.state = "BUSY" /\ (IF IsDiv(r.op) THEN DivDone(div)
                                            ELSE MulDone(mul))
         -> [md EXCEPT !.state  = "HOLD",
                       !.result = IF IsDiv(r.op) THEN DivResult(div)
                                  ELSE MulResult(mul)]
    [] md.state = "HOLD" /\ ready_i -> [md EXCEPT !.state = "IDLE"]
    [] OTHER -> md

(* The next state of the wrapper. *)
WrapperNext(valid_i, ready_i, r) ==
  CASE md.state = "IDLE" /\ valid_i
         -> [md EXCEPT !.state = "BUSY", !.is_div = IsDiv(r.op)]
    [] md.state = "BUSY" /\ UnitDone
         -> [md EXCEPT !.state  = "HOLD",
                       !.result = IF md.is_div THEN DivResult(div)
                                  ELSE MulResult(mul)]
    [] md.state = "HOLD" /\ ready_i -> [md EXCEPT !.state = "IDLE"]
    [] OTHER -> md

(* One clock edge under the given inputs. *)
Edge(valid_i, ready_i, r) ==
  LET start == md.state = "IDLE" /\ valid_i
  IN  /\ md'  = WrapperNext(valid_i, ready_i, r)
      /\ mul' = MulNext(mul, start /\ ~ IsDiv(r.op), r)
      /\ div' = DivNext(div, start /\ IsDiv(r.op), r)
      /\ compute_cycles' = IF start THEN 1
                           ELSE IF md.state = "BUSY" THEN compute_cycles + 1
                           ELSE compute_cycles
      /\ served' = IF start THEN served + 1 ELSE served

(* valid_i && ready_o: a request is taken from the operand ports. *)
Accept == /\ md.state = "IDLE"
          /\ served < MaxServed
          /\ \E r \in Requests, ready_i \in BOOLEAN : Edge(TRUE, ready_i, r)

(* No request, or one that has to wait: the ports carry anything. *)
Work == \E r \in Disturbances, valid_i \in BOOLEAN, ready_i \in BOOLEAN :
          /\ valid_i => md.state # "IDLE"
          /\ Edge(valid_i, ready_i, r)

(* rst_n falls, at any time. *)
Reset == /\ md' = MulDivReset
         /\ mul' = MulReset
         /\ div' = DivReset
         /\ compute_cycles' = 0
         /\ served' = 0

Next == Accept \/ Work \/ Reset

(* The clock runs, and a user that is offered a result takes it: the       *)
(* driver withholds ready_i for a bounded number of cycles.                *)
Taken == md.state = "HOLD" /\ Work /\ md'.state = "IDLE"

Fairness == WF_vars(md.state = "BUSY" /\ Work) /\ WF_vars(Taken)

SafeSpec == Init /\ [][Next]_vars

Spec == SafeSpec /\ Fairness

-----------------------------------------------------------------------------
(* The request a unit works on. *)
Latched(u) == [op |-> u.op, a |-> u.a, b |-> u.b]

Serving == IF md.is_div THEN Latched(div) ELSE Latched(mul)

Service == INSTANCE MulDivService
             WITH phase <- md.state, request <- Serving, answer <- md.result

(* The unit keeps the promise of MulDivService: every answer is the one    *)
(* the M extension defines for the request accepted last, whatever the     *)
(* ports carry meanwhile and whatever was computed before, it is held      *)
(* until taken, and it comes.                                              *)
KeepsPromise == Service!Spec

(* An answer on offer is the one the M extension defines for the request   *)
(* accepted last.                                                          *)
AnswerIsRight == md.state = "HOLD" => md.result = MuldivRef(Serving)

MulRegisters == [state : MulStates, op : MulDivOps, a : Word, b : Word,
               acc : 0 .. (DoubleSize - 1), mcand : 0 .. (DoubleSize - 1),
               mcand3 : 0 .. (DoubleSize - 1), mplier : Word, cnt : 0 .. 31,
               res_neg : BOOLEAN, hi : BOOLEAN]

DivRegisters == [state : DivStates, op : MulDivOps, a : Word, b : Word,
               quot : Word, rem : 0 .. (2 * WordSize - 1), divd : Word,
               divr : Word, cnt : 0 .. 63, q_neg : BOOLEAN, r_neg : BOOLEAN,
               want_rem : BOOLEAN, special : BOOLEAN, special_val : Word]

(* Every register holds a value of its width. *)
MulDivTypeOK ==
  /\ md \in [state : {"IDLE", "BUSY", "HOLD"}, is_div : BOOLEAN, result : Word]
  /\ mul \in MulRegisters
  /\ div \in DivRegisters
  /\ compute_cycles \in Nat
  /\ served \in Nat

(* muldiv.sv waits for one pulse of one unit: while it is busy exactly     *)
(* that unit runs, and when it is not, both are idle and take a start.     *)
OneUnitRuns ==
  /\ md.state = "BUSY" => IF md.is_div
                            THEN div.state # "IDLE" /\ mul.state = "IDLE"
                            ELSE mul.state # "IDLE" /\ div.state = "IDLE"
  /\ md.state # "BUSY" => mul.state = "IDLE" /\ div.state = "IDLE"

(* Below, mul_unit.sv and div_unit.sv in a state of their own. *)
MulLoop(m) ==
  /\ m.state = "RUN" =>
       /\ m.cnt < MulIterations
       /\ m.mplier < Pow2(XLEN - 2 * m.cnt)
       /\ m.mplier >= 3 => m.mcand3 = 3 * m.mcand
       /\ m.mplier > 0 =>
            m.acc + m.mcand * m.mplier = MulMagA(m) * MulMagB(m)
       /\ m.mplier = 0 => m.acc = MulMagA(m) * MulMagB(m)
  /\ m.state = "DONE" => m.acc = MulMagA(m) * MulMagB(m)

DivLoop(d) ==
  /\ d.state = "RUN" =>
       /\ d.cnt < XLEN
       /\ d.divr = DivMagB(d)
       /\ d.rem < d.divr
       /\ (d.quot + 1) * Pow2(XLEN - d.cnt) <= WordSize
       /\ DivMagA(d) * Pow2(d.cnt)
            = (d.quot * d.divr + d.rem) * WordSize + d.divd
  /\ d.state = "DONE" /\ ~ d.special =>
       /\ d.rem < DivMagB(d)
       /\ DivMagA(d) = d.quot * DivMagB(d) + d.rem

(* The radix-4 loop of mul_unit.sv: what is accumulated and what is still  *)
(* to be added make up the product of the magnitudes, no shift or add      *)
(* having lost a bit that counts, and nothing is left after the last       *)
(* iteration.                                                              *)
PartialProduct == MulLoop(mul)

(* The restoring loop of div_unit.sv: quotient and remainder so far are    *)
(* those of the dividend bits consumed so far, the remainder stays below   *)
(* the divisor, and after the last iteration they are those of the         *)
(* magnitudes.                                                             *)
PartialQuotient == DivLoop(div)

(* cp_latency and x_op_latency of env_muldiv: a multiplication takes half  *)
(* as many iterations as the word has bits, a division all of them or,     *)
(* exactly for a zero divisor and the signed overflow, none.               *)
LatencyByClass ==
  md.state = "HOLD" =>
    compute_cycles = IF ~ md.is_div THEN MulIterations + 3
                     ELSE IF \/ Serving.b = 0
                             \/ /\ Serving.op \in {"DIV", "REM"}
                                /\ Overflow(Serving.a, Serving.b)
                       THEN 3
                     ELSE XLEN + 3

=============================================================================

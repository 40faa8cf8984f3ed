------------------------------ MODULE DivUnit ------------------------------
(***************************************************************************)
(* div_unit.sv: the restoring divider, one quotient bit per cycle.  A      *)
(* state d is the record of its registers; DivNext is one clock edge.      *)
(***************************************************************************)
EXTENDS MulDivWords

DivStates == {"IDLE", "LOAD", "RUN", "DONE"}

DivReset == [state |-> "IDLE", op |-> "MUL", a |-> 0, b |-> 0,
             quot |-> 0, rem |-> 0, divd |-> 0, divr |-> 0, cnt |-> 0,
             q_neg |-> FALSE, r_neg |-> FALSE, want_rem |-> FALSE,
             special |-> FALSE, special_val |-> 0]

(* All computed from the registered operands, not from the input ports. *)
IsSigned(d)     == d.op \in {"DIV", "REM"}
WantRem(d)      == d.op \in {"REM", "REMU"}
NegDividend(d)  == IsSigned(d) /\ Msb(d.a)
NegDivisor(d)   == IsSigned(d) /\ Msb(d.b)
DivMagA(d)      == IF NegDividend(d) THEN Negate(d.a, WordSize) ELSE d.a
DivMagB(d)      == IF NegDivisor(d) THEN Negate(d.b, WordSize) ELSE d.b
DivByZero(d)    == d.b = 0
(* A slip: the overflow pattern looked for in unsigned divisions too. *)
SignOverflowAnyOp(d) == 2 * d.a = WordSize /\ d.b = WordSize - 1

SignOverflow(d) == IsSigned(d) /\ 2 * d.a = WordSize /\ d.b = WordSize - 1

(* The early exit of DIV_LOAD. *)
DivSpecial(d, val) ==
  [d EXCEPT !.state = "DONE", !.want_rem = WantRem(d),
            !.special = TRUE, !.special_val = val]

(* A slip: the flag of an earlier special case survives. *)
DivStartKeepsSpecial(d) ==
  [d EXCEPT !.state    = "RUN",
            !.want_rem = WantRem(d),
            !.rem      = 0,
            !.quot     = 0,
            !.divd     = DivMagA(d),
            !.divr     = DivMagB(d),
            !.cnt      = 0,
            !.q_neg    = (NegDividend(d) # NegDivisor(d)),
            !.r_neg    = NegDividend(d)]

(* The start of the iterations, from the magnitudes. *)
DivStart(d) ==
  [d EXCEPT !.state    = "RUN",
            !.want_rem = WantRem(d),
            !.special  = FALSE,
            !.rem      = 0,
            !.quot     = 0,
            !.divd     = DivMagA(d),
            !.divr     = DivMagB(d),
            !.cnt      = 0,
            !.q_neg    = (NegDividend(d) # NegDivisor(d)),
            !.r_neg    = NegDividend(d)]

(* DIV_LOAD. *)
DivLoad(d) ==
  IF DivByZero(d)
    THEN DivSpecial(d, IF WantRem(d) THEN d.a ELSE WordSize - 1)
  ELSE IF SignOverflow(d)
    THEN DivSpecial(d, IF WantRem(d) THEN 0 ELSE WordSize \div 2)
  ELSE DivStart(d)

(* {rem_q[31:0], divd_q[31]} on XLEN+1 bits. *)
RemShifted(d) == 2 * (d.rem % WordSize) + (IF Msb(d.divd) THEN 1 ELSE 0)

(* A slip: a strict comparison. *)
RemGeStrict(d) == RemShifted(d) > d.divr

RemGe(d) == RemShifted(d) >= d.divr

(* A slip: the quotient shifts into a wider register. *)
DivIterateWide(d) ==
  [d EXCEPT !.rem   = IF RemGe(d) THEN RemShifted(d) - d.divr
                      ELSE RemShifted(d),
            !.quot  = 2 * d.quot + (IF RemGe(d) THEN 1 ELSE 0),
            !.divd  = 2 * d.divd,
            !.cnt   = (d.cnt + 1) % 64,
            !.state = IF d.cnt = XLEN - 1 THEN "DONE" ELSE "RUN"]

(* DIV_RUN. *)
DivIterate(d) ==
  [d EXCEPT !.rem   = IF RemGe(d) THEN RemShifted(d) - d.divr
                      ELSE RemShifted(d),
            !.quot  = ((2 * d.quot) % WordSize) + (IF RemGe(d) THEN 1 ELSE 0),
            !.divd  = (2 * d.divd) % WordSize,
            !.cnt   = (d.cnt + 1) % 64,
            !.state = IF d.cnt = XLEN - 1 THEN "DONE" ELSE "RUN"]

(* One clock edge; the operands are registered whenever start is high. *)
DivNext(d, start, r) ==
  LET n == CASE d.state = "IDLE" -> IF start THEN [d EXCEPT !.state = "LOAD"]
                                    ELSE d
             [] d.state = "LOAD" -> DivLoad(d)
             [] d.state = "RUN"  -> DivIterate(d)
             [] d.state = "DONE" -> [d EXCEPT !.state = "IDLE"]
  IN  IF start THEN [n EXCEPT !.op = r.op, !.a = r.a, !.b = r.b] ELSE n

DivDone(d) == d.state = "DONE"

QuotFinal(d) == IF d.q_neg THEN Negate(d.quot, WordSize) ELSE d.quot
RemFinal(d)  == IF d.r_neg THEN Negate(d.rem % WordSize, WordSize)
                ELSE d.rem % WordSize

DivResult(d) == IF d.special THEN d.special_val
                ELSE IF d.want_rem THEN RemFinal(d)
                ELSE QuotFinal(d)

=============================================================================

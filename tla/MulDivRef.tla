----------------------------- MODULE MulDivRef -----------------------------
(***************************************************************************)
(* The M extension as the reference model muldiv_ref of env_muldiv states  *)
(* it, on SystemVerilog's 64-bit products and truncating division.         *)
(***************************************************************************)
EXTENDS MulDivWords

Abs(x) == IF x < 0 THEN -x ELSE x

(* Division of SystemVerilog: truncation toward zero. *)
TruncDiv(x, y) == IF (x < 0) # (y < 0) THEN -(Abs(x) \div Abs(y))
                  ELSE Abs(x) \div Abs(y)
TruncRem(x, y) == IF x < 0 THEN -(Abs(x) % Abs(y)) ELSE Abs(x) % Abs(y)

High(p) == (p % DoubleSize) \div WordSize

Overflow(a, b) == 2 * a = WordSize /\ b = WordSize - 1

MuldivRef(r) ==
  CASE r.op = "MUL"    -> (Signed(r.a) * Signed(r.b)) % WordSize
    [] r.op = "MULH"   -> High(Signed(r.a) * Signed(r.b))
    [] r.op = "MULHSU" -> High(Signed(r.a) * r.b)
    [] r.op = "MULHU"  -> High(r.a * r.b)
    [] r.op \in {"DIV", "DIVU"} /\ r.b = 0 -> WordSize - 1
    [] r.op \in {"REM", "REMU"} /\ r.b = 0 -> r.a
    [] r.op = "DIV" /\ Overflow(r.a, r.b)  -> WordSize \div 2
    [] r.op = "REM" /\ Overflow(r.a, r.b)  -> 0
    [] r.op = "DIV" /\ r.b # 0 /\ ~ Overflow(r.a, r.b)
         -> TruncDiv(Signed(r.a), Signed(r.b)) % WordSize
    [] r.op = "REM" /\ r.b # 0 /\ ~ Overflow(r.a, r.b)
         -> TruncRem(Signed(r.a), Signed(r.b)) % WordSize
    [] r.op = "DIVU" /\ r.b # 0 -> r.a \div r.b
    [] r.op = "REMU" /\ r.b # 0 -> r.a % r.b

=============================================================================

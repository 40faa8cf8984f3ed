------------------------------ MODULE MulUnit ------------------------------
(***************************************************************************)
(* mul_unit.sv: the radix-4 sequential multiplier.  A state m is the       *)
(* record of its registers; MulNext is one clock edge.                     *)
(***************************************************************************)
EXTENDS MulDivWords

MulStates == {"IDLE", "LOAD", "RUN", "DONE"}

(* The iterations of MUL_RUN, two multiplier bits each. *)
MulIterations == XLEN \div 2

MulReset == [state |-> "IDLE", op |-> "MUL", a |-> 0, b |-> 0,
             acc |-> 0, mcand |-> 0, mcand3 |-> 0, mplier |-> 0, cnt |-> 0,
             res_neg |-> FALSE, hi |-> FALSE]

MulNegA(m) == m.op \in {"MUL", "MULH", "MULHSU"} /\ Msb(m.a)
(* A slip: the sign of b taken for MULHSU as well. *)
MulNegBSignedUnsigned(m) ==
  m.op \in {"MUL", "MULH", "MULHSU"} /\ Msb(m.b)

MulNegB(m) == m.op \in {"MUL", "MULH"} /\ Msb(m.b)
MulMagA(m) == IF MulNegA(m) THEN Negate(m.a, WordSize) ELSE m.a
MulMagB(m) == IF MulNegB(m) THEN Negate(m.b, WordSize) ELSE m.b

(* MUL_LOAD: the magnitudes of the registered operands. *)
MulLoad(m) ==
  [m EXCEPT !.state   = "RUN",
            !.acc     = 0,
            !.mcand   = MulMagA(m),
            !.mcand3  = (3 * MulMagA(m)) % DoubleSize,
            !.mplier  = MulMagB(m),
            !.cnt     = 0,
            !.res_neg = (MulNegA(m) # MulNegB(m)),
            !.hi      = (m.op # "MUL")]

(* Two multiplier bits select 0, 1x, 2x or the precomputed 3x. *)
Addend(m) ==
  CASE m.mplier % 4 = 0 -> 0
    [] m.mplier % 4 = 1 -> m.mcand
    [] m.mplier % 4 = 2 -> (2 * m.mcand) % DoubleSize
    [] OTHER            -> m.mcand3

(* A slip: the precomputed triple is not moved along. *)
MulIterateStaleTriple(m) ==
  [m EXCEPT !.acc    = (m.acc + Addend(m)) % DoubleSize,
            !.mcand  = (4 * m.mcand) % DoubleSize,
            !.mplier = m.mplier \div 4,
            !.cnt    = (m.cnt + 1) % 32,
            !.state  = IF m.cnt = MulIterations - 1 THEN "DONE" ELSE "RUN"]

(* MUL_RUN. *)
MulIterate(m) ==
  [m EXCEPT !.acc    = (m.acc + Addend(m)) % DoubleSize,
            !.mcand  = (4 * m.mcand) % DoubleSize,
            !.mcand3 = (4 * m.mcand3) % DoubleSize,
            !.mplier = m.mplier \div 4,
            !.cnt    = (m.cnt + 1) % 32,
            !.state  = IF m.cnt = MulIterations - 1 THEN "DONE" ELSE "RUN"]

(* One clock edge; the operands are registered whenever start is high. *)
MulNext(m, start, r) ==
  LET d == CASE m.state = "IDLE" -> IF start THEN [m EXCEPT !.state = "LOAD"]
                                    ELSE m
             [] m.state = "LOAD" -> MulLoad(m)
             [] m.state = "RUN"  -> MulIterate(m)
             [] m.state = "DONE" -> [m EXCEPT !.state = "IDLE"]
  IN  IF start THEN [d EXCEPT !.op = r.op, !.a = r.a, !.b = r.b] ELSE d

MulDone(m) == m.state = "DONE"

Product(m) == IF m.res_neg THEN Negate(m.acc, DoubleSize) ELSE m.acc

MulResult(m) == IF m.hi THEN Product(m) \div WordSize
                ELSE Product(m) % WordSize

=============================================================================

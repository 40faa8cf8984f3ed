---------------------------- MODULE MulDivWords ----------------------------
(***************************************************************************)
(* The words of the multiply/divide unit: XLEN bits, 32 in the core, any   *)
(* even number up to 32 here, so that TLC can enumerate every operand.     *)
(***************************************************************************)
EXTENDS Integers

CONSTANT XLEN

ASSUME XlenAssumption == XLEN \in 2 .. 32 /\ XLEN % 2 = 0

(* 2^n for n in 0 .. 32, one factor for each bit of n. *)
Pow2(n) == (IF n % 2 = 1 THEN 2 ELSE 1)
         * (IF (n \div 2) % 2 = 1 THEN 4 ELSE 1)
         * (IF (n \div 4) % 2 = 1 THEN 16 ELSE 1)
         * (IF (n \div 8) % 2 = 1 THEN 256 ELSE 1)
         * (IF (n \div 16) % 2 = 1 THEN 65536 ELSE 1)
         * (IF (n \div 32) % 2 = 1 THEN 65536 * 65536 ELSE 1)

WordSize   == Pow2(XLEN)
DoubleSize == WordSize * WordSize
Word       == 0 .. (WordSize - 1)

(* Bit XLEN-1. *)
Msb(w) == 2 * w >= WordSize

(* Two's complement negation of a word of the given size: ~w + 1. *)
Negate(w, size) == (size - w) % size

(* $signed of a word. *)
Signed(w) == IF Msb(w) THEN w - WordSize ELSE w

(* muldiv_op_e. *)
MulOps == {"MUL", "MULH", "MULHSU", "MULHU"}
DivOps == {"DIV", "DIVU", "REM", "REMU"}
MulDivOps == MulOps \cup DivOps

(* What a request puts on the operand ports. *)
Request == [op : MulDivOps, a : Word, b : Word]

=============================================================================

------------------------------- MODULE Words -------------------------------
(***************************************************************************)
(* The machine word of the core (XLEN in rv32_pkg.sv), scaled.             *)
(*                                                                         *)
(* A word is four bytes.  The number of values a byte can have is the      *)
(* parameter ByteSize: 256 is the real core, 4 gives an 8-bit machine      *)
(* whose four 2-bit "bytes" TLC can enumerate.  Every wrap-around,         *)
(* byte lane, sign bit and alignment test of the code keeps its shape.     *)
(***************************************************************************)
EXTENDS Integers

CONSTANT ByteSize

ASSUME ByteSizeAssumption == ByteSize \in {4, 8, 16, 32, 64, 128, 256}

HalfSize == ByteSize * ByteSize
WordSize == HalfSize * HalfSize
Word     == 0 .. (WordSize - 1)

(* Assignment to a logic [XLEN-1:0]: keep the low bits. *)
ToWord(x) == x % WordSize

(* $signed of a word. *)
ToSigned(w) == IF 2 * w < WordSize THEN w ELSE w - WordSize

(* Bit XLEN-1: selects a peripheral in the MEM stage, and is the sign. *)
TopBit(w) == 2 * w >= WordSize

Aligned(w) == w % 4 = 0

(* Clears the two low bits: {w[XLEN-1:2], 2'b00}. *)
AlignDown(w) == w - (w % 4)

(***************************************************************************)
(* Bitwise operations on up to 32 bits, by halving: the conjunction of two *)
(* 2k-bit numbers is that of their upper and of their lower k bits.        *)
(***************************************************************************)
And1(a, b)  == a * b
And2(a, b)  == And1(a \div 2, b \div 2) * 2 + And1(a % 2, b % 2)
And4(a, b)  == And2(a \div 4, b \div 4) * 4 + And2(a % 4, b % 4)
And8(a, b)  == And4(a \div 16, b \div 16) * 16 + And4(a % 16, b % 16)
And16(a, b) == And8(a \div 256, b \div 256) * 256 + And8(a % 256, b % 256)
And32(a, b) == And16(a \div 65536, b \div 65536) * 65536
                 + And16(a % 65536, b % 65536)

BitAnd(a, b) == ToWord(And32(a, b))
BitOr(a, b)  == ToWord(a + b - And32(a, b))
BitXor(a, b) == ToWord(a + b - 2 * And32(a, b))
BitNot(a)    == WordSize - 1 - a

(* 2^n for a shift amount of five bits, as a barrel shifter applies it. *)
Pow2(n) == (IF n % 2 = 1 THEN 2 ELSE 1)
         * (IF (n \div 2) % 2 = 1 THEN 4 ELSE 1)
         * (IF (n \div 4) % 2 = 1 THEN 16 ELSE 1)
         * (IF (n \div 8) % 2 = 1 THEN 256 ELSE 1)
         * (IF (n \div 16) % 2 = 1 THEN 65536 ELSE 1)

=============================================================================

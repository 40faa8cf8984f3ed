-------------------------------- MODULE Alu --------------------------------
(***************************************************************************)
(* alu.sv: the ALU and the branch comparison that shares its comparator.   *)
(***************************************************************************)
EXTENDS Words

(* XLEN: the number of bits of a word. *)
Xlen == CASE ByteSize = 4 -> 8 [] ByteSize = 8 -> 12 [] ByteSize = 16 -> 16
          [] ByteSize = 32 -> 20 [] ByteSize = 64 -> 24
          [] ByteSize = 128 -> 28 [] OTHER -> 32

(* The shift amount is the low log2(XLEN) bits of b, b[4:0] at XLEN = 32. *)
Shamt(b) == b % Xlen

Eq(a, b)          == a = b
LtSigned(a, b)    == ToSigned(a) < ToSigned(b)
LtUnsigned(a, b)  == a < b

(* The 1-bit comparison result, zero-extended. *)
Flag(p) == IF p THEN 1 ELSE 0

Alu(op, a, b) ==
  CASE op = "ADD"  -> ToWord(a + b)
    [] op = "SUB"  -> ToWord(a - b)
    [] op = "SLL"  -> ToWord(a * Pow2(Shamt(b)))
    [] op = "SRL"  -> ToWord(a \div Pow2(Shamt(b)))
    [] op = "SRA"  -> ToWord(ToSigned(a) \div Pow2(Shamt(b)))
    [] op = "SLT"  -> Flag(LtSigned(a, b))
    [] op = "SLTU" -> Flag(LtUnsigned(a, b))
    [] op = "XOR"  -> BitXor(a, b)
    [] op = "OR"   -> BitOr(a, b)
    [] op = "AND"  -> BitAnd(a, b)
    [] OTHER       -> b                                \* ALU_PASS_B

(* BR_NONE is never taken. *)
BranchTaken(op, a, b) ==
  \/ op = "EQ"  /\ Eq(a, b)
  \/ op = "NE"  /\ ~ Eq(a, b)
  \/ op = "LT"  /\ LtSigned(a, b)
  \/ op = "GE"  /\ ~ LtSigned(a, b)
  \/ op = "LTU" /\ LtUnsigned(a, b)
  \/ op = "GEU" /\ ~ LtUnsigned(a, b)

=============================================================================

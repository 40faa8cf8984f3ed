------------------------------ MODULE MCMulDiv ------------------------------
(***************************************************************************)
(* An instance of MulDiv: operands that are special to the sign handling,  *)
(* and some that take every digit of the radix-4 loop, again and again.    *)
(***************************************************************************)
EXTENDS MulDiv

(* 0, 1, the largest and the smallest signed value, -1; 45 takes the three *)
(* digits of the radix-4 loop that add something.                          *)
Operands == {0, 1, WordSize \div 2 - 1, WordSize \div 2, WordSize - 1, 45}

MCRequests == [op : MulDivOps, a : Operands, b : Operands]

Noise == {[op |-> "REM", a |-> 1, b |-> 0],
          [op |-> "MULHU", a |-> WordSize - 1, b |-> 1]}

=============================================================================

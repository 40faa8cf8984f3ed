---------------------------- MODULE TraceCompare ----------------------------
(***************************************************************************)
(* verif/sail/compare.py, and the traces it reads.                         *)
(*                                                                         *)
(* A retirement is [pc, rd, val]; rd = 0 is "no register is written". The  *)
(* instruction word both traces carry is never compared and is left out.   *)
(* A line of a trace is a record of its kind:                              *)
(*   Sail   instr (pc), write (rd, val), other                             *)
(*   core   retire (pc, rd, val), other                                    *)
(***************************************************************************)
EXTENDS Integers, Sequences

Retirement == [pc : Int, rd : Int, val : Int]

NoWrite(pc) == [pc |-> pc, rd |-> 0, val |-> 0]

(* A write to x0 is architecturally void. *)
Record(pc, rd, val) ==
  IF rd = 0 THEN NoWrite(pc) ELSE [pc |-> pc, rd |-> rd, val |-> val]

-----------------------------------------------------------------------------
(* What the two programs print of a run, a sequence of retirements.        *)

(* Sail: the write, if there is one, on a line of its own, among others. *)
SailLines(r) ==
  << [k |-> "instr", pc |-> r.pc], [k |-> "other"] >>
    \o IF r.rd = 0 THEN << >> ELSE << [k |-> "write", rd |-> r.rd, val |-> r.val] >>

SailPrints(run) ==
  LET log[i \in 0 .. Len(run)] == IF i = 0 THEN << >> ELSE log[i - 1] \o SailLines(run[i])
  IN  log[Len(run)]

(* tb_core.cpp --trace: the write on the same line, between other output. *)
CorePrints(run) ==
  << [k |-> "other"] >>
    \o [i \in DOMAIN run |-> [k |-> "retire", pc |-> run[i].pc,
                              rd |-> run[i].rd, val |-> run[i].val]]
    \o << [k |-> "other"] >>

-----------------------------------------------------------------------------
(* An instruction line opens a record, "pending" in the code; a write to a *)
(* register completes it, and the last one before the next counts.         *)
SailLine(recs, l) ==
  CASE l.k = "instr" -> Append(recs, NoWrite(l.pc))
    [] l.k = "write" /\ recs # << >> /\ l.rd # 0 ->
         [recs EXCEPT ![Len(recs)] = Record(@.pc, l.rd, l.val)]
    [] OTHER -> recs

parse_sail(log) ==
  LET recs[i \in 0 .. Len(log)] == IF i = 0 THEN << >> ELSE SailLine(recs[i - 1], log[i])
  IN  recs[Len(log)]

CoreLine(recs, l) ==
  IF l.k = "retire" THEN Append(recs, Record(l.pc, l.rd, l.val)) ELSE recs

parse_core(log) ==
  LET recs[i \in 0 .. Len(log)] == IF i = 0 THEN << >> ELSE CoreLine(recs[i - 1], log[i])
  IN  recs[Len(log)]

Shorter(s, c) == IF Len(s) < Len(c) THEN Len(s) ELSE Len(c)

(* A slip: a Sail that stops early agrees as far as it went. *)
ResultEitherPrefix(s, c) ==
  IF \E i \in 1 .. Shorter(s, c) : s[i] # c[i] THEN "FAIL" ELSE "PASS"

(* The RESULT line. Only the core may stop first. *)
Result(s, c) ==
  IF \E i \in 1 .. Shorter(s, c) : s[i] # c[i] THEN "FAIL"
  ELSE IF Len(s) < Len(c) THEN "FAIL"
  ELSE "PASS"

(* "N instructions compared". *)
Compared(s, c) == Shorter(s, c)
=============================================================================

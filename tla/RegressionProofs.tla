-------------------------- MODULE RegressionProofs --------------------------
(***************************************************************************)
(* What the verdicts of L1 mean, for every set of programs and of working  *)
(* trees, every trace, every coverage data and every history of edits and  *)
(* interrupted runs: a passing lockstep, a passing MUTATE_L1, a passing    *)
(* coverage step with its classification of the toggles and its decoder    *)
(* harness. The immediates come last: imm_gen.sv and the reference of the  *)
(* harness, for every instruction.                                         *)
(***************************************************************************)
EXTENDS Regression, WellFoundedInduction, FiniteSetTheorems, FunctionTheorems, SequenceTheorems, TLAPS

-----------------------------------------------------------------------------
(* Induction. A property of numbers is given as the set of those that have *)
(* it; the least number outside of it, if there is one, has a predecessor. *)
LEMMA LeastNumber ==
  ASSUME NEW U \in SUBSET Nat, U # {}
  PROVE  \E x \in U : \A y \in U : x <= y
<1> DEFINE R == {ss \in Nat \X Nat : ss[1] < ss[2]}
<1>1. IsWellFoundedOn(R, Nat)
  BY NatLessThanWellFounded, Zenon DEF OpToRel
<1>2. PICK x \in U : \A y \in U : ~ (<< y, x >> \in R)
  <2>1. U \subseteq Nat /\ U # {}
    OBVIOUS
  <2> HIDE DEF R
  <2>2. QED
    BY <1>1, <2>1, WFMin, Zenon
<1>3. \A y \in U : ~ (y < x)
  BY <1>2
<1>4. QED
  BY <1>3

LEMMA Induction ==
  ASSUME NEW n \in Nat, NEW S, 0 \in S,
         \A i \in 0 .. n - 1 : i \in S => i + 1 \in S
  PROVE  \A i \in 0 .. n : i \in S
<1> DEFINE U == {i \in 0 .. n : i \notin S}
<1> SUFFICES ASSUME U # {} PROVE FALSE
  OBVIOUS
<1>1. U \in SUBSET Nat
  OBVIOUS
<1>2. PICK x \in U : \A y \in U : x <= y
  <2> HIDE DEF U
  <2> QED  BY <1>1, LeastNumber
<1>3. x \in 1 .. n /\ x - 1 \notin U
  BY <1>2
<1>4. QED
  BY <1>2, <1>3

(* A recursion with a typed step has a solution, and only typed ones.      *)
IsRun(f, St, base, n, step) ==
  /\ f \in [0 .. n -> St]
  /\ f[0] = base
  /\ \A i \in 1 .. n : f[i] = step[i][f[i - 1]]

LEMMA FoldExists ==
  ASSUME NEW St, NEW base \in St, NEW n \in Nat,
         NEW step \in [1 .. n -> [St -> St]]
  PROVE  \E f : IsRun(f, St, base, n, step)
<1> DEFINE Run(m, f) == /\ f[0] = base
                        /\ \A i \in 1 .. m : f[i] = step[i][f[i - 1]]
           S == {m \in 0 .. n : \E f \in [0 .. m -> St] : Run(m, f)}
<1>1. 0 \in S
  <2> DEFINE g == [i \in 0 .. 0 |-> base]
  <2>1. g \in [0 .. 0 -> St] /\ Run(0, g)
    OBVIOUS
  <2> HIDE DEF g
  <2>2. QED
    BY <2>1
<1>2. ASSUME NEW m \in 0 .. n - 1, m \in S
      PROVE  m + 1 \in S
  <2>1. PICK f \in [0 .. m -> St] : Run(m, f)
    BY <1>2
  <2> DEFINE g == [i \in 0 .. m + 1 |-> IF i = m + 1 THEN step[m + 1][f[m]] ELSE f[i]]
  <2>2. step[m + 1][f[m]] \in St
    OBVIOUS
  <2>3. g \in [0 .. m + 1 -> St]
    BY <2>2
  <2>4. Run(m + 1, g)
    BY <2>1
  <2> HIDE DEF g
  <2>5. QED
    BY <2>3, <2>4
<1>3. \A m \in 0 .. n : m \in S
  <2> HIDE DEF S
  <2> QED  BY <1>1, <1>2, Induction
<1>4. QED
  BY <1>3 DEF IsRun

-----------------------------------------------------------------------------
(* Traces. Reading back what Sail and the core print of a run yields the   *)
(* run, writes to x0 aside.                                                *)
SailText ==
  [k : {"instr"}, pc : Int] \cup [k : {"other"}] \cup [k : {"write"}, rd : Int, val : Int]

LEMMA RecordType ==
  ASSUME NEW pc \in Int, NEW rd \in Int, NEW val \in Int
  PROVE  /\ Record(pc, rd, val) \in Retirement
         /\ NoWrite(pc) \in Retirement /\ NoWrite(pc).pc = pc
         /\ Record(pc, 0, val) = NoWrite(pc)
BY DEF Record, NoWrite, Retirement

LEMMA SailLineType ==
  ASSUME NEW recs \in Seq(Retirement), NEW l \in SailText
  PROVE  SailLine(recs, l) \in Seq(Retirement)
<1>1. CASE l.k = "instr"
  <2>1. l.pc \in Int
    BY <1>1 DEF SailText
  <2>2. SailLine(recs, l) = Append(recs, NoWrite(l.pc))
    BY <1>1 DEF SailLine
  <2>3. QED
    BY <2>1, <2>2, RecordType
<1>2. CASE l.k = "write" /\ recs # << >> /\ l.rd # 0
  <2>1. l.rd \in Int /\ l.val \in Int
    BY <1>2 DEF SailText
  <2>2. SailLine(recs, l)
          = [recs EXCEPT ![Len(recs)] = Record(recs[Len(recs)].pc, l.rd, l.val)]
    BY <1>2 DEF SailLine
  <2>3. Len(recs) \in 1 .. Len(recs) /\ recs[Len(recs)].pc \in Int
    <3>1. Len(recs) \in Nat /\ Len(recs) # 0
      BY <1>2
    <3>2. recs[Len(recs)] \in Retirement
      BY <3>1
    <3>3. QED
      BY <3>1, <3>2 DEF Retirement
  <2>4. Record(recs[Len(recs)].pc, l.rd, l.val) \in Retirement
    BY <2>1, <2>3, RecordType
  <2> DEFINE m == Len(recs)
             r == Record(recs[Len(recs)].pc, l.rd, l.val)
  <2>5. [recs EXCEPT ![m] = r] \in Seq(Retirement)
    <3> HIDE DEF r
    <3>1. r \in Retirement
      BY <2>4 DEF r
    <3>2. QED
      BY <2>3, <3>1
  <2>6. QED
    BY <2>2, <2>5
<1>3. CASE ~ (l.k = "instr") /\ ~ (l.k = "write" /\ recs # << >> /\ l.rd # 0)
  BY <1>3 DEF SailLine
<1>4. QED
  BY <1>1, <1>2, <1>3

(* The recursion of parse_sail has a solution.                             *)
SailRead(f, log) ==
  /\ f \in [0 .. Len(log) -> Seq(Retirement)]
  /\ f[0] = << >>
  /\ \A i \in 1 .. Len(log) : f[i] = SailLine(f[i - 1], log[i])
  /\ parse_sail(log) = f[Len(log)]

LEMMA SailReadExists ==
  ASSUME NEW log \in Seq(SailText)
  PROVE  \E f : SailRead(f, log)
<1> DEFINE n     == Len(log)
           St    == Seq(Retirement)
           base  == << >>
           step  == [i \in 1 .. n |-> [recs \in St |-> SailLine(recs, log[i])]]
           Eq(f) == f = [i \in 0 .. n |-> IF i = 0 THEN base ELSE SailLine(f[i - 1], log[i])]
           f     == CHOOSE g : Eq(g)
<1>1. n \in Nat /\ base \in St
  OBVIOUS
<1>2. \A i \in 1 .. n : log[i] \in SailText
  OBVIOUS
<1>3. step \in [1 .. n -> [St -> St]]
  BY <1>2, SailLineType
<1>4. PICK g : IsRun(g, St, base, n, step)
  <2> HIDE DEF step, St, base, n
  <2> QED  BY <1>1, <1>3, FoldExists, Zenon
<1>5. Eq(f)
  <2>1. \A i \in 1 .. n : g[i] = SailLine(g[i - 1], log[i])
    <3> HIDE DEF St, base, n
    <3>1. \A i \in 1 .. n : i - 1 \in 0 .. n
      BY <1>1
    <3>2. QED
      BY <1>4, <3>1 DEF step, IsRun
  <2>2. Eq(g)
    <3> HIDE DEF St, base, n
    <3> QED  BY <1>1, <1>4, <2>1 DEF IsRun
  <2> HIDE DEF Eq
  <2>3. QED
    BY <2>2
<1>6. parse_sail(log) = f[n]
  BY DEF parse_sail
<1> HIDE DEF f
<1>7. /\ DOMAIN f = 0 .. n /\ f[0] = base
      /\ \A i \in 1 .. n : f[i] = SailLine(f[i - 1], log[i])
  BY <1>1, <1>5
<1>8. \A i \in 0 .. n : f[i] \in St
  <2> DEFINE S == {i \in 0 .. n : f[i] \in St}
  <2>1. 0 \in S
    <3> HIDE DEF St, base, n
    <3> QED  BY <1>1, <1>7
  <2>2. \A i \in 0 .. n - 1 : i \in S => i + 1 \in S
    <3>1. SUFFICES ASSUME NEW i \in 0 .. n - 1, f[i] \in St PROVE f[i + 1] \in St
      OBVIOUS
    <3>2. i + 1 \in 1 .. n /\ i + 1 - 1 = i
      OBVIOUS
    <3>3. f[i + 1] = SailLine(f[i], log[i + 1])
      BY <1>7, <3>2
    <3>4. QED
      BY <1>2, <3>1, <3>2, <3>3, SailLineType
  <2> HIDE DEF S, St, base, n
  <2>3. \A i \in 0 .. n : i \in S
    BY <1>1, <2>1, <2>2, Induction
  <2>4. QED
    BY <2>3 DEF S
<1>9. f = [i \in 0 .. n |-> f[i]]
  BY <1>1, <1>5
<1>10. QED
  BY <1>6, <1>7, <1>8, <1>9 DEF SailRead

LEMMA SailReadsOn ==
  ASSUME NEW log \in Seq(SailText), NEW l \in SailText
  PROVE  /\ parse_sail(<< >>) = << >>
         /\ parse_sail(log) \in Seq(Retirement)
         /\ parse_sail(Append(log, l)) = SailLine(parse_sail(log), l)
<1> DEFINE n == Len(log)
           more == Append(log, l)
<1>1. PICK e : SailRead(e, << >>)
  <2>1. << >> \in Seq(SailText)
    OBVIOUS
  <2>2. QED
    BY <2>1, SailReadExists, Zenon
<1>2. parse_sail(<< >>) = << >>
  BY <1>1 DEF SailRead
<1>3. PICK f : SailRead(f, log)
  BY SailReadExists
<1>4. /\ more \in Seq(SailText) /\ Len(more) = n + 1 /\ more[n + 1] = l
      /\ \A i \in 1 .. n : more[i] = log[i]
  OBVIOUS
<1> HIDE DEF more
<1>5. PICK g : SailRead(g, more)
  BY <1>4, SailReadExists
<1> DEFINE S == {i \in 0 .. n : f[i] = g[i]}
<1>6. n \in Nat
  OBVIOUS
<1>7. 0 \in S
  BY <1>3, <1>5, <1>6 DEF SailRead
<1>8. \A i \in 0 .. n - 1 : i \in S => i + 1 \in S
  <2>1. SUFFICES ASSUME NEW i \in 0 .. n - 1, f[i] = g[i] PROVE f[i + 1] = g[i + 1]
    BY <1>6
  <2>2. i + 1 \in 1 .. n /\ i + 1 \in 1 .. n + 1 /\ i + 1 - 1 = i
    BY <1>6
  <2>3. f[i + 1] = SailLine(f[i], log[i + 1]) /\ g[i + 1] = SailLine(g[i], more[i + 1])
    BY <1>3, <1>4, <1>5, <2>2 DEF SailRead
  <2>4. QED
    BY <1>4, <2>1, <2>2, <2>3
<1>9. \A i \in 0 .. n : i \in S
  <2> HIDE DEF S, n
  <2> QED  BY <1>6, <1>7, <1>8, Induction
<1>10. f[n] = g[n]
  BY <1>6, <1>9
<1>11. g[n + 1] = SailLine(g[n], more[n + 1])
  <2>1. n + 1 \in 1 .. Len(more) /\ n + 1 - 1 = n
    BY <1>4, <1>6
  <2>2. QED
    BY <1>5, <2>1 DEF SailRead
<1>12. /\ parse_sail(log) = f[n] /\ f[n] \in Seq(Retirement)
       /\ parse_sail(more) = g[n + 1]
  <2>1. parse_sail(log) = f[Len(log)] /\ f \in [0 .. Len(log) -> Seq(Retirement)]
    BY <1>3, Zenon DEF SailRead
  <2>2. parse_sail(more) = g[Len(more)]
    BY <1>5, Zenon DEF SailRead
  <2>3. QED
    BY <1>4, <1>6, <2>1, <2>2
<1>13. QED
  BY <1>2, <1>4, <1>10, <1>11, <1>12 DEF more

(* What Sail prints, one retirement after the other.                       *)
SailPrinted(f, run) ==
  /\ f \in [0 .. Len(run) -> Seq(SailText)]
  /\ f[0] = << >>
  /\ \A i \in 1 .. Len(run) : f[i] = f[i - 1] \o SailLines(run[i])
  /\ SailPrints(run) = f[Len(run)]

LEMMA SailLinesType ==
  ASSUME NEW r \in Retirement
  PROVE  SailLines(r) \in Seq(SailText)
<1>1. /\ [k |-> "instr", pc |-> r.pc] \in SailText
      /\ [k |-> "other"] \in SailText
      /\ [k |-> "write", rd |-> r.rd, val |-> r.val] \in SailText
  BY DEF SailText, Retirement
<1> DEFINE w == [k |-> "write", rd |-> r.rd, val |-> r.val]
           t == IF r.rd = 0 THEN << >> ELSE << w >>
<1>2. t \in Seq(SailText)
  BY <1>1
<1>3. << [k |-> "instr", pc |-> r.pc], [k |-> "other"] >> \in Seq(SailText)
  BY <1>1
<1>4. QED
  BY <1>2, <1>3 DEF SailLines

LEMMA SailPrintedExists ==
  ASSUME NEW run \in Seq(Retirement)
  PROVE  \E f : SailPrinted(f, run)
<1> DEFINE n     == Len(run)
           St    == Seq(SailText)
           base  == << >>
           Op(log, r) == log \o SailLines(r)
           step  == [i \in 1 .. n |-> [log \in St |-> Op(log, run[i])]]
           Eq(f) == f = [i \in 0 .. n |-> IF i = 0 THEN base ELSE Op(f[i - 1], run[i])]
           f     == CHOOSE g : Eq(g)
<1>1. n \in Nat /\ base \in St
  OBVIOUS
<1>2. \A i \in 1 .. n : SailLines(run[i]) \in St
  BY SailLinesType
<1>3. step \in [1 .. n -> [St -> St]]
  BY <1>2
<1>4. PICK g : IsRun(g, St, base, n, step)
  <2> HIDE DEF step, St, base, n
  <2> QED  BY <1>1, <1>3, FoldExists, Zenon
<1>5. Eq(f)
  <2>1. \A i \in 1 .. n : g[i] = Op(g[i - 1], run[i])
    <3> HIDE DEF St, base, n, Op
    <3>1. \A i \in 1 .. n : i - 1 \in 0 .. n
      BY <1>1
    <3>2. QED
      BY <1>4, <3>1 DEF step, IsRun
  <2>2. Eq(g)
    <3> HIDE DEF St, base, n, Op
    <3> QED  BY <1>1, <1>4, <2>1 DEF IsRun
  <2> HIDE DEF Eq
  <2>3. QED
    BY <2>2
<1>6. SailPrints(run) = f[n]
  BY DEF SailPrints
<1> HIDE DEF f
<1>7. /\ DOMAIN f = 0 .. n /\ f[0] = base
      /\ \A i \in 1 .. n : f[i] = f[i - 1] \o SailLines(run[i])
  BY <1>1, <1>5
<1>8. \A i \in 0 .. n : f[i] \in St
  <2> DEFINE S == {i \in 0 .. n : f[i] \in St}
  <2>1. 0 \in S
    <3> HIDE DEF St, base, n
    <3> QED  BY <1>1, <1>7
  <2>2. \A i \in 0 .. n - 1 : i \in S => i + 1 \in S
    <3>1. SUFFICES ASSUME NEW i \in 0 .. n - 1, f[i] \in St PROVE f[i + 1] \in St
      OBVIOUS
    <3>2. i + 1 \in 1 .. n /\ i + 1 - 1 = i
      OBVIOUS
    <3>3. f[i + 1] = f[i] \o SailLines(run[i + 1])
      BY <1>7, <3>2
    <3>4. QED
      BY <1>2, <3>1, <3>2, <3>3
  <2> HIDE DEF S, St, base, n
  <2>3. \A i \in 0 .. n : i \in S
    BY <1>1, <2>1, <2>2, Induction
  <2>4. QED
    BY <2>3 DEF S
<1>9. f = [i \in 0 .. n |-> f[i]]
  BY <1>1, <1>5
<1>10. QED
  BY <1>6, <1>7, <1>8, <1>9 DEF SailPrinted

LEMMA LastReplaced ==
  ASSUME NEW S, NEW s \in Seq(S), NEW x \in S, NEW y \in S
  PROVE  [Append(s, x) EXCEPT ![Len(s) + 1] = y] = Append(s, y)
<1> DEFINE n == Len(s)
           a == Append(s, x)
           b == Append(s, y)
           e == [a EXCEPT ![n + 1] = y]
<1>1. n \in Nat
  OBVIOUS
<1>2. /\ a \in Seq(S) /\ Len(a) = n + 1
      /\ \A i \in 1 .. n : a[i] = s[i]
  OBVIOUS
<1>3. /\ b \in Seq(S) /\ Len(b) = n + 1 /\ b[n + 1] = y
      /\ \A i \in 1 .. n : b[i] = s[i]
  OBVIOUS
<1>4. /\ e \in Seq(S) /\ Len(e) = n + 1
      /\ \A j \in 1 .. n + 1 : e[j] = IF j = n + 1 THEN y ELSE a[j]
  <2> HIDE DEF a
  <2>1. n + 1 \in 1 .. Len(a)
    BY <1>1, <1>2
  <2>2. QED
    BY <1>2, <2>1, ExceptSeq
<1> HIDE DEF a, b, e, n
<1>5. \A j \in 1 .. n + 1 : e[j] = b[j]
  BY <1>1, <1>2, <1>3, <1>4
<1>6. e = b
  BY <1>3, <1>4, <1>5, SeqEqual
<1>7. QED
  BY <1>6 DEF a, b, e, n

(* Two or three lines more are one record more.                            *)
LEMMA SailRetires ==
  ASSUME NEW log \in Seq(SailText), NEW r \in Retirement
  PROVE  parse_sail(log \o SailLines(r))
           = Append(parse_sail(log), Record(r.pc, r.rd, r.val))
<1> DEFINE a == [k |-> "instr", pc |-> r.pc]
           o == [k |-> "other"]
           w == [k |-> "write", rd |-> r.rd, val |-> r.val]
           recs == parse_sail(log)
           one == Append(recs, NoWrite(r.pc))
<1>1. /\ r.pc \in Int /\ r.rd \in Int /\ r.val \in Int
      /\ a \in SailText /\ o \in SailText /\ w \in SailText
  BY DEF SailText, Retirement
<1>2. /\ a.k = "instr" /\ a.pc = r.pc /\ o.k = "other"
      /\ w.k = "write" /\ w.rd = r.rd /\ w.val = r.val
  OBVIOUS
<1>3. SailLines(r) = IF r.rd = 0 THEN << a, o >> ELSE << a, o, w >>
  <2>1. /\ << a, o >> \o << >> = << a, o >>
        /\ << a, o >> \o << w >> = << a, o, w >>
    <3>1. << a, o >> \in Seq(SailText)
      BY <1>1
    <3>2. << a, o >> \o << >> = << a, o >>
      <4> HIDE DEF a, o, w
      <4> QED  BY <3>1, ConcatEmptySeq
    <3>3. << a, o >> \o << w >> = << a, o, w >>
      <4>1. << w >> \in Seq(SailText) /\ << a, o, w >> \in Seq(SailText)
        BY <1>1
      <4> DEFINE s == << a, o >>
                 t == << w >>
                 u == << a, o, w >>
      <4>2. /\ Len(s) = 2 /\ s[1] = a /\ s[2] = o /\ Len(t) = 1 /\ t[1] = w
            /\ Len(u) = 3 /\ u[1] = a /\ u[2] = o /\ u[3] = w
        OBVIOUS
      <4> HIDE DEF a, o, w, s, t, u
      <4>3. s \in Seq(SailText) /\ t \in Seq(SailText) /\ u \in Seq(SailText)
        BY <3>1, <4>1 DEF s, t, u
      <4>4. /\ s \o t \in Seq(SailText) /\ Len(s \o t) = 3
            /\ \A i \in 1 .. 3 : (s \o t)[i] = IF i <= 2 THEN s[i] ELSE t[i - 2]
        <5>1. /\ s \o t \in Seq(SailText) /\ Len(s \o t) = Len(s) + Len(t)
              /\ \A i \in 1 .. Len(s) + Len(t) :
                   (s \o t)[i] = IF i <= Len(s) THEN s[i] ELSE t[i - Len(s)]
          BY <4>3, ConcatProperties, Zenon
        <5>2. Len(s) + Len(t) = 3
          BY <4>2
        <5>3. QED
          BY <4>2, <5>1, <5>2
      <4>5. \A i \in 1 .. 3 : (s \o t)[i] = u[i]
        BY <4>2, <4>4
      <4>6. s \o t = u
        BY <4>2, <4>3, <4>4, <4>5, SeqEqual
      <4>7. QED
        BY <4>6 DEF s, t, u
    <3>4. QED
      BY <3>2, <3>3
  <2>2. SailLines(r) = << a, o >> \o IF r.rd = 0 THEN << >> ELSE << w >>
    BY DEF SailLines
  <2> HIDE DEF a, o, w
  <2>3. QED
    BY <2>1, <2>2
<1> HIDE DEF a, o, w
<1>4. /\ log \o << a, o >> = Append(Append(log, a), o)
      /\ log \o << a, o, w >> = Append(Append(Append(log, a), o), w)
  BY <1>1
<1>5. /\ Append(log, a) \in Seq(SailText)
      /\ Append(Append(log, a), o) \in Seq(SailText)
  BY <1>1
<1>6. recs \in Seq(Retirement) /\ parse_sail(Append(log, a)) = SailLine(recs, a)
  BY <1>1, SailReadsOn
<1>7. SailLine(recs, a) = one
  BY <1>2 DEF SailLine
<1>8. parse_sail(Append(Append(log, a), o)) = SailLine(one, o)
  BY <1>1, <1>5, <1>6, <1>7, SailReadsOn
<1>9. SailLine(one, o) = one
  BY <1>2 DEF SailLine
<1>10. NoWrite(r.pc) \in Retirement /\ NoWrite(r.pc).pc = r.pc
  BY <1>1, RecordType
<1>11. CASE r.rd = 0
  <2>1. Record(r.pc, r.rd, r.val) = NoWrite(r.pc)
    BY <1>11 DEF Record
  <2>2. QED
    BY <1>3, <1>4, <1>8, <1>9, <1>11, <2>1
<1>12. CASE r.rd # 0
  <2> HIDE DEF recs
  <2>1. /\ one \in Seq(Retirement) /\ one # << >>
        /\ Len(one) = Len(recs) + 1 /\ one[Len(recs) + 1] = NoWrite(r.pc)
    BY <1>6, <1>10
  <2>2. SailLine(one, w) = [one EXCEPT ![Len(one)] = Record(one[Len(one)].pc, r.rd, r.val)]
    <3> HIDE DEF one
    <3> QED  BY <1>2, <1>12, <2>1 DEF SailLine
  <2>3. one[Len(one)].pc = r.pc
    BY <1>10, <2>1
  <2> DEFINE rec == Record(r.pc, r.rd, r.val)
  <2>4. rec \in Retirement
    BY <1>1, RecordType
  <2>5. [one EXCEPT ![Len(one)] = rec] = Append(recs, rec)
    <3> HIDE DEF rec
    <3> HIDE DEF rec
    <3> QED  BY <1>6, <1>10, <2>1, <2>4, LastReplaced
  <2>6. parse_sail(Append(Append(Append(log, a), o), w)) = SailLine(one, w)
    BY <1>1, <1>5, <1>8, <1>9, SailReadsOn
  <2>7. QED
    BY <1>3, <1>4, <1>12, <2>2, <2>3, <2>5, <2>6 DEF recs
<1>13. QED
  BY <1>11, <1>12

LEMMA SailRoundTrip ==
  ASSUME NEW run \in Seq(Retirement)
  PROVE  /\ SailPrints(run) \in Seq(SailText)
         /\ parse_sail(SailPrints(run)) = Normal(run)
<1> DEFINE n == Len(run)
           Prefix(i) == [j \in 1 .. i |-> Record(run[j].pc, run[j].rd, run[j].val)]
<1>1. PICK f : SailPrinted(f, run)
  BY SailPrintedExists
<1> DEFINE S == {i \in 0 .. n : parse_sail(f[i]) = Prefix(i)}
<1>2. n \in Nat /\ DOMAIN run = 1 .. n /\ \A i \in 1 .. n : run[i] \in Retirement
  OBVIOUS
<1>3. 0 \in S
  <2>1. parse_sail(f[0]) = << >>
    <3>1. << >> \in Seq(SailText) /\ [k |-> "other"] \in SailText
      BY DEF SailText
    <3>2. parse_sail(<< >>) = << >>
      BY <3>1, SailReadsOn, Zenon
    <3>3. QED
      BY <1>1, <3>2 DEF SailPrinted
  <2>2. Prefix(0) = << >>
    OBVIOUS
  <2>3. QED
    BY <1>2, <2>1, <2>2
<1>4. \A i \in 0 .. n - 1 : i \in S => i + 1 \in S
  <2>1. SUFFICES ASSUME NEW i \in 0 .. n - 1, parse_sail(f[i]) = Prefix(i)
                 PROVE  parse_sail(f[i + 1]) = Prefix(i + 1)
    BY <1>2
  <2>2. i \in 0 .. n /\ i + 1 \in 1 .. n /\ i + 1 - 1 = i
    BY <1>2
  <2>3. f[i] \in Seq(SailText) /\ f[i + 1] = f[i] \o SailLines(run[i + 1])
    <3> DEFINE P(j) == f[j] = f[j - 1] \o SailLines(run[j])
    <3>1. /\ f \in [0 .. n -> Seq(SailText)]
          /\ \A j \in 1 .. n : P(j)
      BY <1>1, Zenon DEF SailPrinted
    <3>2. P(i + 1)
      <4> HIDE DEF n, P
      <4> QED  BY <2>2, <3>1
    <3>3. f[i] \in Seq(SailText)
      BY <2>2, <3>1, Zenon
    <3>4. QED
      BY <2>2, <3>2, <3>3
  <2> DEFINE r == run[i + 1]
             rec == Record(r.pc, r.rd, r.val)
  <2>4. r \in Retirement
    BY <1>2, <2>2
  <2> HIDE DEF r
  <2>5. parse_sail(f[i + 1]) = Append(Prefix(i), rec)
    <3> HIDE DEF Prefix, rec
    <3>1. parse_sail(f[i] \o SailLines(r)) = Append(parse_sail(f[i]), Record(r.pc, r.rd, r.val))
      BY <2>3, <2>4, SailRetires
    <3>2. QED
      BY <2>1, <2>3, <3>1 DEF r, rec
  <2>6. Append(Prefix(i), rec) = Prefix(i + 1)
    <3>1. /\ rec = Record(run[i + 1].pc, run[i + 1].rd, run[i + 1].val)
          /\ i \in Nat
      BY <2>2 DEF r
    <3> HIDE DEF rec
    <3>2. QED
      BY <3>1
  <2>7. QED
    BY <2>5, <2>6
<1>5. \A i \in 0 .. n : i \in S
  <2> HIDE DEF S, n
  <2> QED  BY <1>2, <1>3, <1>4, Induction
<1>6. parse_sail(f[n]) = Prefix(n)
  BY <1>2, <1>5
<1>7. Prefix(n) = Normal(run)
  BY <1>2 DEF Normal
<1>8. SailPrints(run) = f[n] /\ f[n] \in Seq(SailText)
  BY <1>1, <1>2 DEF SailPrinted
<1>9. QED
  BY <1>6, <1>7, <1>8

(* The core's trace, read back.                                            *)
CoreText == [k : {"retire"}, pc : Int, rd : Int, val : Int] \cup [k : {"other"}]

LEMMA CoreLineType ==
  ASSUME NEW recs \in Seq(Retirement), NEW l \in CoreText
  PROVE  CoreLine(recs, l) \in Seq(Retirement)
<1>1. CASE l.k = "retire"
  <2>1. l.pc \in Int /\ l.rd \in Int /\ l.val \in Int
    BY <1>1 DEF CoreText
  <2>2. Record(l.pc, l.rd, l.val) \in Retirement
    BY <2>1, RecordType
  <2>3. QED
    BY <1>1, <2>2 DEF CoreLine
<1>2. CASE l.k # "retire"
  BY <1>2 DEF CoreLine
<1>3. QED
  BY <1>1, <1>2

CoreRead(f, log) ==
  /\ f \in [0 .. Len(log) -> Seq(Retirement)]
  /\ f[0] = << >>
  /\ \A i \in 1 .. Len(log) : f[i] = CoreLine(f[i - 1], log[i])
  /\ parse_core(log) = f[Len(log)]

LEMMA CoreReadExists ==
  ASSUME NEW log \in Seq(CoreText)
  PROVE  \E f : CoreRead(f, log)
<1> DEFINE n     == Len(log)
           St    == Seq(Retirement)
           base  == << >>
           step  == [i \in 1 .. n |-> [recs \in St |-> CoreLine(recs, log[i])]]
           Eq(f) == f = [i \in 0 .. n |-> IF i = 0 THEN base ELSE CoreLine(f[i - 1], log[i])]
           f     == CHOOSE g : Eq(g)
<1>1. n \in Nat /\ base \in St
  OBVIOUS
<1>2. \A i \in 1 .. n : log[i] \in CoreText
  OBVIOUS
<1>3. step \in [1 .. n -> [St -> St]]
  BY <1>2, CoreLineType
<1>4. PICK g : IsRun(g, St, base, n, step)
  <2> HIDE DEF step, St, base, n
  <2> QED  BY <1>1, <1>3, FoldExists, Zenon
<1>5. Eq(f)
  <2>1. \A i \in 1 .. n : g[i] = CoreLine(g[i - 1], log[i])
    <3> HIDE DEF St, base, n
    <3>1. \A i \in 1 .. n : i - 1 \in 0 .. n
      BY <1>1
    <3>2. QED
      BY <1>4, <3>1 DEF step, IsRun
  <2>2. Eq(g)
    <3> HIDE DEF St, base, n
    <3> QED  BY <1>1, <1>4, <2>1 DEF IsRun
  <2> HIDE DEF Eq
  <2>3. QED
    BY <2>2
<1>6. parse_core(log) = f[n]
  BY DEF parse_core
<1> HIDE DEF f
<1>7. /\ DOMAIN f = 0 .. n /\ f[0] = base
      /\ \A i \in 1 .. n : f[i] = CoreLine(f[i - 1], log[i])
  BY <1>1, <1>5
<1>8. \A i \in 0 .. n : f[i] \in St
  <2> DEFINE S == {i \in 0 .. n : f[i] \in St}
  <2>1. 0 \in S
    <3> HIDE DEF St, base, n
    <3> QED  BY <1>1, <1>7
  <2>2. \A i \in 0 .. n - 1 : i \in S => i + 1 \in S
    <3>1. SUFFICES ASSUME NEW i \in 0 .. n - 1, f[i] \in St PROVE f[i + 1] \in St
      OBVIOUS
    <3>2. i + 1 \in 1 .. n /\ i + 1 - 1 = i
      OBVIOUS
    <3>3. f[i + 1] = CoreLine(f[i], log[i + 1])
      BY <1>7, <3>2
    <3>4. QED
      BY <1>2, <3>1, <3>2, <3>3, CoreLineType
  <2> HIDE DEF S, St, base, n
  <2>3. \A i \in 0 .. n : i \in S
    BY <1>1, <2>1, <2>2, Induction
  <2>4. QED
    BY <2>3 DEF S
<1>9. f = [i \in 0 .. n |-> f[i]]
  BY <1>1, <1>5
<1>10. QED
  BY <1>6, <1>7, <1>8, <1>9 DEF CoreRead

LEMMA CorePrintsLines ==
  ASSUME NEW run \in Seq(Retirement)
  PROVE  /\ CorePrints(run) \in Seq(CoreText)
         /\ Len(CorePrints(run)) = Len(run) + 2
         /\ CorePrints(run)[1] = [k |-> "other"]
         /\ CorePrints(run)[Len(run) + 2] = [k |-> "other"]
         /\ \A i \in 1 .. Len(run) :
              CorePrints(run)[i + 1] = [k |-> "retire", pc |-> run[i].pc,
                                        rd |-> run[i].rd, val |-> run[i].val]
<1> DEFINE n == Len(run)
           Line(i) == [k |-> "retire", pc |-> run[i].pc,
                       rd |-> run[i].rd, val |-> run[i].val]
           o == << [k |-> "other"] >>
           m == [i \in DOMAIN run |-> Line(i)]
<1>1. n \in Nat /\ DOMAIN run = 1 .. n /\ \A i \in 1 .. n : run[i] \in Retirement
  OBVIOUS
<1>2. o \in Seq(CoreText) /\ Len(o) = 1 /\ o[1] = [k |-> "other"]
  BY DEF CoreText
<1>3. m \in Seq(CoreText) /\ Len(m) = n /\ \A i \in 1 .. n : m[i] = Line(i)
  <2>1. \A i \in 1 .. n : Line(i) \in CoreText
    BY <1>1 DEF CoreText, Retirement
  <2> HIDE DEF Line
  <2>2. QED
    BY <1>1, <2>1
<1>4. CorePrints(run) = o \o m \o o
  BY DEF CorePrints
<1> DEFINE om == o \o m
<1> HIDE DEF o, m, n, Line
<1>5. /\ om \in Seq(CoreText) /\ Len(om) = n + 1
      /\ om[1] = [k |-> "other"]
      /\ \A i \in 1 .. n : om[i + 1] = Line(i)
  <2>1. /\ om \in Seq(CoreText) /\ Len(om) = Len(o) + Len(m)
        /\ \A i \in 1 .. Len(o) + Len(m) : om[i] = IF i <= Len(o) THEN o[i] ELSE m[i - Len(o)]
    BY <1>2, <1>3, ConcatProperties, Zenon
  <2> HIDE DEF om
  <2>2. QED
    BY <1>1, <1>2, <1>3, <2>1
<1> HIDE DEF om
<1>6. /\ om \o o \in Seq(CoreText) /\ Len(om \o o) = Len(om) + Len(o)
      /\ \A i \in 1 .. Len(om) + Len(o) :
           (om \o o)[i] = IF i <= Len(om) THEN om[i] ELSE o[i - Len(om)]
  BY <1>2, <1>5, ConcatProperties, Zenon
<1> DEFINE all == om \o o
<1>7. CorePrints(run) = all
  BY <1>4 DEF om
<1> HIDE DEF all
<1>8. /\ all \in Seq(CoreText) /\ Len(all) = n + 2
      /\ \A i \in 1 .. n + 2 : all[i] = IF i <= n + 1 THEN om[i] ELSE o[i - (n + 1)]
  BY <1>1, <1>2, <1>5, <1>6 DEF all
<1>9. /\ all[1] = [k |-> "other"] /\ all[n + 2] = [k |-> "other"]
      /\ \A i \in 1 .. n : all[i + 1] = Line(i)
  BY <1>1, <1>2, <1>5, <1>8
<1>10. QED
  BY <1>7, <1>8, <1>9 DEF n, Line

LEMMA CoreRoundTrip ==
  ASSUME NEW run \in Seq(Retirement)
  PROVE  parse_core(CorePrints(run)) = Normal(run)
<1> DEFINE n == Len(run)
           log == CorePrints(run)
           Prefix(i) == [j \in 1 .. i |-> Record(run[j].pc, run[j].rd, run[j].val)]
<1>1. /\ n \in Nat /\ DOMAIN run = 1 .. n
      /\ \A j \in 1 .. n : run[j] \in Retirement
  OBVIOUS
<1>2. /\ log \in Seq(CoreText) /\ Len(log) = n + 2
      /\ log[1] = [k |-> "other"] /\ log[n + 2] = [k |-> "other"]
      /\ \A i \in 1 .. n : log[i + 1] = [k |-> "retire", pc |-> run[i].pc,
                                         rd |-> run[i].rd, val |-> run[i].val]
  BY CorePrintsLines
<1> HIDE DEF log
<1>3. PICK f : CoreRead(f, log)
  BY <1>2, CoreReadExists
<1>4. /\ f[0] = << >> /\ parse_core(log) = f[n + 2]
      /\ \A i \in 1 .. n + 2 : f[i] = CoreLine(f[i - 1], log[i])
  BY <1>2, <1>3 DEF CoreRead
<1> DEFINE S == {i \in 0 .. n : f[i + 1] = Prefix(i)}
<1>5. 0 \in S
  <2>1. f[1] = CoreLine(f[0], log[1])
    <3>1. 1 \in 1 .. n + 2 /\ 1 - 1 = 0
      BY <1>1
    <3>2. QED
      BY <1>4, <3>1
  <2>2. f[1] = << >>
    BY <1>2, <1>4, <2>1 DEF CoreLine
  <2>3. Prefix(0) = << >>
    OBVIOUS
  <2>4. QED
    BY <1>1, <2>2, <2>3
<1>6. \A i \in 0 .. n - 1 : i \in S => i + 1 \in S
  <2>1. SUFFICES ASSUME NEW i \in 0 .. n - 1, f[i + 1] = Prefix(i)
                 PROVE  f[i + 2] = Prefix(i + 1)
    <3> HIDE DEF n, Prefix
    <3> QED  BY <1>1
  <2>2. i + 1 \in 1 .. n /\ i + 2 \in 1 .. n + 2 /\ (i + 1) + 1 = i + 2 /\ (i + 2) - 1 = i + 1
    BY <1>1
  <2> DEFINE rec == Record(run[i + 1].pc, run[i + 1].rd, run[i + 1].val)
             l == [k |-> "retire", pc |-> run[i + 1].pc,
                   rd |-> run[i + 1].rd, val |-> run[i + 1].val]
  <2>3. f[i + 2] = CoreLine(f[i + 1], l)
    <3>1. f[i + 2] = CoreLine(f[i + 1], log[i + 2])
      <4> HIDE DEF n
      <4> QED  BY <1>4, <2>2
    <3>2. log[(i + 1) + 1] = l
      <4> HIDE DEF n
      <4> QED  BY <1>2, <2>2
    <3>3. QED
      BY <2>2, <3>1, <3>2
  <2>4. CoreLine(f[i + 1], l) = Append(f[i + 1], rec)
    BY DEF CoreLine
  <2>5. Append(Prefix(i), rec) = Prefix(i + 1)
    <3>1. i \in Nat
      BY <2>2
    <3>2. QED
      BY <3>1
  <2>6. QED
    BY <2>1, <2>3, <2>4, <2>5
<1>7. \A i \in 0 .. n : i \in S
  <2> HIDE DEF S, n
  <2> QED  BY <1>1, <1>5, <1>6, Induction
<1>8. f[n + 1] = Prefix(n)
  BY <1>1, <1>7
<1>9. f[n + 2] = f[n + 1]
  <2>1. f[n + 2] = CoreLine(f[n + 1], log[n + 2])
    <3>1. n + 2 \in 1 .. n + 2 /\ (n + 2) - 1 = n + 1
      BY <1>1
    <3>2. QED
      BY <1>4, <3>1
  <2>2. QED
    BY <1>2, <2>1 DEF CoreLine
<1>10. Prefix(n) = Normal(run)
  BY <1>1 DEF Normal
<1>11. QED
  BY <1>4, <1>8, <1>9, <1>10 DEF log

-----------------------------------------------------------------------------
(* One program of a run of lockstep: everything run_lockstep.sh asks.      *)
LogOf(r) == IF Traced(r) THEN r.log ELSE << >>

Good(log, core, core_rc) ==
  LET s == parse_sail(log)  c == parse_core(core) IN
  Result(s, c) = "PASS" /\ core_rc = 0 /\ Compared(s, c) # 0

OkRun(t, elf, p) ==
  LET r == SailRun(t, elf, p) IN
  /\ SailOk(LogOf(r), r.out, r.rc)
  /\ Good(LogOf(r), CorePrints(t.core[p].run), t.core[p].rc)

Typed(t) ==
  /\ t.sail \in [Binaries -> SailEnd] /\ t.source \in [Programs -> Binaries]
  /\ t.core \in [Programs -> CoreEnd]
  /\ t.model \in Models /\ t.drift \subseteq Programs

(* What swbuild leaves is an .elf for each of some programs, the source's  *)
(* when nothing has drifted.                                               *)
LEMMA InstallType ==
  ASSUME NEW t, Typed(t), NEW elf, IsElfs(elf), NEW done \in SUBSET Programs
  PROVE  IsElfs(Install(elf, t, done))
BY DEF Install, IsElfs, Typed

LEMMA InstallAll ==
  ASSUME NEW t, Typed(t), NEW elf, IsElfs(elf)
  PROVE  Install(elf, t, Programs) = t.source
BY DEF Install, IsElfs, Typed

LEMMA NoElfs == IsElfs(<< >>)
BY DEF IsElfs

LEMMA SailRunFacts ==
  ASSUME NEW t, Typed(t), NEW elf, IsElfs(elf), NEW p \in Programs
  PROVE  LET r == SailRun(t, elf, p) IN
         /\ Traced(r) => p \in DOMAIN elf /\ r.log = SailPrints(t.sail[elf[p]].run)
         /\ r.out \in Seq(OutLine)
         /\ t.model \in {"missing", "true", "untraced"} => ~ Traced(r)
         /\ t.model = "silent0" => r.out = << >>
         /\ t.model = "exit1" => ~ Traced(r) \/ (r.out = t.sail[elf[p]].out /\ r.rc = 1)
         /\ t.model = "exit0" => ~ Traced(r) \/ (r.out = t.sail[elf[p]].out /\ r.rc = 0)
<1> DEFINE there == p \in DOMAIN elf
           run == t.sail[elf[p]]
           r == SailRun(t, elf, p)
           traced(out, rc) == [log |-> SailPrints(run.run), out |-> out, rc |-> rc]
           only(out, rc) == [out |-> out, rc |-> rc]
<1>1. (there => run.out \in Seq(OutLine)) /\ t.model \in Models
  BY DEF Typed, SailEnd, IsElfs
<1>2. << >> \in Seq(OutLine) /\ << "error" >> \in Seq(OutLine)
  BY DEF OutLine
<1>3. /\ t.model = "missing"  => r = only(<< >>, 127)
      /\ t.model = "true"     => r = only(<< >>, 0)
      /\ t.model = "silent0"  => (there /\ r = traced(<< >>, 0)) \/ r = only(<< >>, 0)
      /\ t.model = "exit1"    => (there /\ r = traced(run.out, 1)) \/ r = only(<< "error" >>, 1)
      /\ t.model = "exit0"    => (there /\ r = traced(run.out, 0)) \/ r = only(<< "error" >>, 0)
      /\ t.model = "untraced" => (there /\ r = only(run.out, run.rc)) \/ r = only(<< "error" >>, 1)
      /\ t.model = "pinned"   => (there /\ r = traced(run.out, run.rc)) \/ r = only(<< "error" >>, 1)
  BY DEF SailRun
<1>4. ASSUME NEW out, NEW rc
      PROVE  /\ r = traced(out, rc) =>
                   Traced(r) /\ r.log = SailPrints(run.run) /\ r.out = out /\ r.rc = rc
             /\ r = only(out, rc) => ~ Traced(r) /\ r.out = out
  <2> DEFINE log == SailPrints(run.run)
  <2> HIDE DEF r, log
  <2>1. ASSUME r = [log |-> log, out |-> out, rc |-> rc]
        PROVE  Traced(r) /\ r.log = log /\ r.out = out /\ r.rc = rc
    BY <2>1 DEF Traced
  <2>2. ASSUME r = [out |-> out, rc |-> rc]
        PROVE  ~ Traced(r) /\ r.out = out
    BY <2>2 DEF Traced
  <2>3. QED
    BY <2>1, <2>2 DEF log
<1>5. t.model \in {"missing", "true", "silent0", "exit1", "exit0", "untraced", "pinned"}
  BY <1>1 DEF Models
<1> HIDE DEF traced, only
<1>6. CASE t.model = "missing"
  <2>1. r = only(<< >>, 127) =>
         ~ Traced(r) /\ r.out = << >>
    BY <1>4, Zenon
  <2>2. r = only(<< >>, 127)
    BY <1>3, <1>6, Zenon
  <2>3. QED
    BY <1>1, <1>2, <1>6, <2>1, <2>2
<1>7. CASE t.model = "true"
  <2>1. r = only(<< >>, 0) =>
         ~ Traced(r) /\ r.out = << >>
    BY <1>4, Zenon
  <2>2. r = only(<< >>, 0)
    BY <1>3, <1>7, Zenon
  <2>3. QED
    BY <1>1, <1>2, <1>7, <2>1, <2>2
<1>8. CASE t.model = "silent0"
  <2>1. r = traced(<< >>, 0) =>
         Traced(r) /\ r.log = SailPrints(run.run) /\ r.out = << >> /\ r.rc = 0
    BY <1>4, Zenon
  <2>2. r = only(<< >>, 0) =>
         ~ Traced(r) /\ r.out = << >>
    BY <1>4, Zenon
  <2>3. (there /\ r = traced(<< >>, 0)) \/ r = only(<< >>, 0)
    BY <1>3, <1>8, Zenon
  <2>4. QED
    BY <1>1, <1>2, <1>8, <2>1, <2>2, <2>3
<1>9. CASE t.model = "exit1"
  <2>1. r = traced(run.out, 1) =>
         Traced(r) /\ r.log = SailPrints(run.run) /\ r.out = run.out /\ r.rc = 1
    BY <1>4, Zenon
  <2>2. r = only(<< "error" >>, 1) =>
         ~ Traced(r) /\ r.out = << "error" >>
    BY <1>4, Zenon
  <2>3. (there /\ r = traced(run.out, 1)) \/ r = only(<< "error" >>, 1)
    BY <1>3, <1>9, Zenon
  <2>4. QED
    BY <1>1, <1>2, <1>9, <2>1, <2>2, <2>3
<1>10. CASE t.model = "exit0"
  <2>1. r = traced(run.out, 0) =>
         Traced(r) /\ r.log = SailPrints(run.run) /\ r.out = run.out /\ r.rc = 0
    BY <1>4, Zenon
  <2>2. r = only(<< "error" >>, 0) =>
         ~ Traced(r) /\ r.out = << "error" >>
    BY <1>4, Zenon
  <2>3. (there /\ r = traced(run.out, 0)) \/ r = only(<< "error" >>, 0)
    BY <1>3, <1>10, Zenon
  <2>4. QED
    BY <1>1, <1>2, <1>10, <2>1, <2>2, <2>3
<1>11. CASE t.model = "untraced"
  <2>1. r = only(run.out, run.rc) =>
         ~ Traced(r) /\ r.out = run.out
    BY <1>4, Zenon
  <2>2. r = only(<< "error" >>, 1) =>
         ~ Traced(r) /\ r.out = << "error" >>
    BY <1>4, Zenon
  <2>3. (there /\ r = only(run.out, run.rc)) \/ r = only(<< "error" >>, 1)
    BY <1>3, <1>11, Zenon
  <2>4. QED
    BY <1>1, <1>2, <1>11, <2>1, <2>2, <2>3
<1>12. CASE t.model = "pinned"
  <2>1. r = traced(run.out, run.rc) =>
         Traced(r) /\ r.log = SailPrints(run.run) /\ r.out = run.out /\ r.rc = run.rc
    BY <1>4, Zenon
  <2>2. r = only(<< "error" >>, 1) =>
         ~ Traced(r) /\ r.out = << "error" >>
    BY <1>4, Zenon
  <2>3. (there /\ r = traced(run.out, run.rc)) \/ r = only(<< "error" >>, 1)
    BY <1>3, <1>12, Zenon
  <2>4. QED
    BY <1>1, <1>2, <1>12, <2>1, <2>2, <2>3
<1>13. QED
  BY <1>5, <1>6, <1>7, <1>8, <1>9, <1>10, <1>11, <1>12

LEMMA LinesFacts ==
  ASSUME NEW out \in Seq(OutLine), NEW line
  PROVE  /\ Lines(out, line) \in Nat
         /\ Lines(out, line) = 0 => \A i \in DOMAIN out : out[i] # line
         /\ Lines(out, line) = 1 =>
              \E i \in DOMAIN out : \A j \in DOMAIN out : out[j] = line <=> j = i
<1> DEFINE S == {i \in DOMAIN out : out[i] = line}
<1>1. IsFiniteSet(S)
  <2>1. IsFiniteSet(1 .. Len(out)) /\ DOMAIN out = 1 .. Len(out)
    BY FS_Interval
  <2>2. S \subseteq 1 .. Len(out)
    BY <2>1
  <2> HIDE DEF S
  <2>3. QED
    BY <2>1, <2>2, FS_Subset
<1>2. Lines(out, line) = Cardinality(S)
  BY DEF Lines
<1>3. Cardinality(S) \in Nat
  <2> HIDE DEF S
  <2> QED  BY <1>1, FS_CardinalityType
<1>4. Cardinality(S) = 0 => S = {}
  <2> HIDE DEF S
  <2> QED  BY <1>1, FS_EmptySet
<1>5. Cardinality(S) = 1 => \E i : S = {i}
  <2> HIDE DEF S
  <2> QED  BY <1>1, FS_Singleton
<1>6. QED
  <2>1. S = {} => \A i \in DOMAIN out : out[i] # line
    OBVIOUS
  <2>2. \A i : S = {i} =>
          i \in DOMAIN out /\ \A j \in DOMAIN out : out[j] = line <=> j = i
    OBVIOUS
  <2> HIDE DEF S
  <2>3. QED
    BY <1>2, <1>3, <1>4, <1>5, <2>1, <2>2

(* What lockstep accepts is agreement.                                     *)
LEMMA OkMeansAgreement ==
  ASSUME NEW t, Typed(t), NEW elf, IsElfs(elf), NEW p \in Programs, OkRun(t, elf, p)
  PROVE  Agrees(t, elf, p)
<1> DEFINE r == SailRun(t, elf, p)
           log == LogOf(r)
           s == Normal(t.sail[elf[p]].run)
           c == Normal(t.core[p].run)
<1>1. /\ SailOk(log, r.out, r.rc)
      /\ Result(parse_sail(log), parse_core(CorePrints(t.core[p].run))) = "PASS"
      /\ t.core[p].rc = 0
      /\ Compared(parse_sail(log), parse_core(CorePrints(t.core[p].run))) # 0
  BY Zenon DEF OkRun, Good
<1>2. p \in DOMAIN elf /\ Traced(r) /\ log = SailPrints(t.sail[elf[p]].run)
  <2>1. log # << >>
    BY <1>1, Zenon DEF SailOk
  <2>2. Traced(r) => p \in DOMAIN elf /\ r.log = SailPrints(t.sail[elf[p]].run)
    BY SailRunFacts, Zenon
  <2>3. QED
    BY <2>1, <2>2, Zenon DEF LogOf
<1>3. t.sail[elf[p]].run \in Seq(Retirement) /\ t.core[p].run \in Seq(Retirement)
  BY <1>2 DEF Typed, IsElfs, SailEnd, CoreEnd
<1>4. parse_sail(log) = s /\ parse_core(CorePrints(t.core[p].run)) = c
  BY <1>2, <1>3, SailRoundTrip, CoreRoundTrip, Zenon
<1>5. Result(s, c) = "PASS" /\ Shorter(s, c) # 0
  BY <1>1, <1>4, Zenon DEF Compared
<1>6. s \in Seq(Retirement) /\ c \in Seq(Retirement)
  <2>1. ASSUME NEW run \in Seq(Retirement) PROVE Normal(run) \in Seq(Retirement)
    <3>1. \A i \in DOMAIN run : Record(run[i].pc, run[i].rd, run[i].val) \in Retirement
      <4>1. \A i \in DOMAIN run : run[i] \in Retirement
        OBVIOUS
      <4>2. \A i \in DOMAIN run : run[i].pc \in Int /\ run[i].rd \in Int /\ run[i].val \in Int
        BY <4>1 DEF Retirement
      <4>3. QED
        BY <4>2, RecordType
    <3>2. QED
      BY <3>1 DEF Normal
  <2>2. QED
    BY <1>3, <2>1
<1>7. c # << >> /\ Len(c) <= Len(s) /\ \A i \in DOMAIN c : c[i] = s[i]
  <2> HIDE DEF s, c
  <2>1. /\ Len(s) \in Nat /\ Len(c) \in Nat /\ DOMAIN c = 1 .. Len(c)
    BY <1>6
  <2>2. ~ (\E i \in 1 .. Shorter(s, c) : s[i] # c[i]) /\ ~ (Len(s) < Len(c))
    BY <1>5 DEF Result
  <2>3. Shorter(s, c) = Len(c)
    BY <2>1, <2>2 DEF Shorter
  <2>4. QED
    BY <1>5, <1>6, <2>1, <2>2, <2>3
<1>8. \E i \in DOMAIN r.out :
        /\ r.out[i] = IF r.rc = 0 THEN "SUCCESS" ELSE "FAILURE"
        /\ \A j \in DOMAIN r.out \ {i} : r.out[j] \notin {"SUCCESS", "FAILURE"}
  <2>1. r.out \in Seq(OutLine)
    BY SailRunFacts, Zenon
  <2> HIDE DEF r, log
  <2> DEFINE a == Lines(r.out, "SUCCESS")
             b == Lines(r.out, "FAILURE")
  <2>2. a + b = 1 /\ (a = 1 => r.rc = 0) /\ (b = 1 => r.rc # 0)
    BY <1>1 DEF SailOk
  <2>3. a \in Nat /\ b \in Nat
    BY <2>1, LinesFacts, Zenon
  <2>4. \/ a = 1 /\ b = 0 /\ r.rc = 0
        \/ a = 0 /\ b = 1 /\ r.rc # 0
    <3> HIDE DEF a, b
    <3> QED  BY <2>2, <2>3
  <2>5. CASE a = 1 /\ b = 0 /\ r.rc = 0
    <3>1. PICK i \in DOMAIN r.out : \A j \in DOMAIN r.out : r.out[j] = "SUCCESS" <=> j = i
      BY <2>1, <2>5, LinesFacts, Zenon
    <3>2. \A j \in DOMAIN r.out : r.out[j] # "FAILURE"
      BY <2>1, <2>5, LinesFacts, Zenon
    <3>3. QED
      BY <2>5, <3>1, <3>2
  <2>6. CASE a = 0 /\ b = 1 /\ r.rc # 0
    <3>1. PICK i \in DOMAIN r.out : \A j \in DOMAIN r.out : r.out[j] = "FAILURE" <=> j = i
      BY <2>1, <2>6, LinesFacts, Zenon
    <3>2. \A j \in DOMAIN r.out : r.out[j] # "SUCCESS"
      BY <2>1, <2>6, LinesFacts, Zenon
    <3>3. QED
      BY <2>6, <3>1, <3>2
  <2>7. QED
    BY <2>4, <2>5, <2>6
<1>9. QED
  BY <1>1, <1>2, <1>7, <1>8, Zenon DEF Agrees

(* One program that ends well and one that does not tell every stand-in    *)
(* from Sail.                                                              *)
LEMMA StandInIsCaught ==
  ASSUME NEW t, Typed(t), NEW elf, IsElfs(elf), t.model # "pinned",
         NEW p \in Programs, t.sail[elf[p]].out = << "SUCCESS" >>,
         NEW q \in Programs, t.sail[elf[q]].out = << "FAILURE" >>
  PROVE  ~ OkRun(t, elf, p) \/ ~ OkRun(t, elf, q)
<1> DEFINE r(x) == SailRun(t, elf, x)
<1>1. ASSUME NEW x \in Programs, OkRun(t, elf, x)
      PROVE  /\ Traced(r(x))
             /\ SailOk(LogOf(r(x)), r(x).out, r(x).rc)
  <2>1. SailOk(LogOf(r(x)), r(x).out, r(x).rc)
    BY <1>1, Zenon DEF OkRun
  <2>2. LogOf(r(x)) # << >>
    BY <2>1, Zenon DEF SailOk
  <2>3. QED
    BY <2>1, <2>2, Zenon DEF LogOf
<1>2. Lines(<< >>, "SUCCESS") = 0 /\ Lines(<< >>, "FAILURE") = 0
  <2>1. \A line : {i \in DOMAIN << >> : << >>[i] = line} = {}
    OBVIOUS
  <2>2. Cardinality({}) = 0
    BY FS_EmptySet
  <2>3. QED
    BY <2>1, <2>2, Zenon DEF Lines
<1>3. \A line \in {"SUCCESS", "FAILURE"} : Lines(<< line >>, line) = 1
  <2>1. SUFFICES ASSUME NEW line PROVE Lines(<< line >>, line) = 1
    OBVIOUS
  <2>2. {i \in DOMAIN << line >> : << line >>[i] = line} = {1}
    OBVIOUS
  <2>3. Cardinality({1}) = 1
    BY FS_Singleton
  <2>4. QED
    BY <2>2, <2>3, Zenon DEF Lines
<1>4. CASE t.model \in {"missing", "true", "untraced"}
  <2>1. ~ Traced(r(p))
    BY <1>4, SailRunFacts, Zenon
  <2>2. QED
    BY <1>1, <2>1, Zenon
<1>5. CASE t.model = "silent0"
  <2>1. SUFFICES ASSUME OkRun(t, elf, p) PROVE FALSE
    OBVIOUS
  <2>2. r(p).out = << >>
    BY <1>5, SailRunFacts, Zenon
  <2>3. SailOk(LogOf(r(p)), << >>, r(p).rc)
    BY <1>1, <2>1, <2>2, Zenon
  <2> HIDE DEF r
  <2>4. QED
    BY <1>2, <2>3 DEF SailOk
<1>6. CASE t.model = "exit1"
  <2>1. SUFFICES ASSUME OkRun(t, elf, p) PROVE FALSE
    OBVIOUS
  <2>2. Traced(r(p)) /\ SailOk(LogOf(r(p)), r(p).out, r(p).rc)
    BY <1>1, <2>1, Zenon
  <2>3. r(p).out = << "SUCCESS" >> /\ r(p).rc = 1
    BY <1>6, <2>2, SailRunFacts, Zenon
  <2>4. SailOk(LogOf(r(p)), << "SUCCESS" >>, 1)
    BY <2>2, <2>3, Zenon
  <2> HIDE DEF r
  <2>5. QED
    BY <1>3, <2>4 DEF SailOk
<1>7. CASE t.model = "exit0"
  <2>1. SUFFICES ASSUME OkRun(t, elf, q) PROVE FALSE
    OBVIOUS
  <2>2. Traced(r(q)) /\ SailOk(LogOf(r(q)), r(q).out, r(q).rc)
    BY <1>1, <2>1, Zenon
  <2>3. r(q).out = << "FAILURE" >> /\ r(q).rc = 0
    BY <1>7, <2>2, SailRunFacts, Zenon
  <2>4. SailOk(LogOf(r(q)), << "FAILURE" >>, 0)
    BY <2>2, <2>3, Zenon
  <2> HIDE DEF r
  <2>5. QED
    BY <1>3, <2>4 DEF SailOk
<1>8. QED
  BY <1>4, <1>5, <1>6, <1>7 DEF Typed, Models

-----------------------------------------------------------------------------
(* The invariant. What each check has decided is a function of the copy L1 *)
(* runs in and of the programs built beside it, whatever was interrupted   *)
(* before.                                                                 *)
Loop == {"delete", "sail", "judge", "core", "compare"}
Pcs  == {"idle", "clean", "elfs", "swbuild", "count", "coverage", "classify", "summary"}
          \cup Loop

(* The checks behind a step of l1.sh.                                      *)
DecidedAt(pc) ==
  CASE pc \in {"clean", "elfs"} -> {}
    [] pc = "swbuild"           -> {"elfs"}
    [] pc \in Loop \cup {"count"} -> {"elfs", "swbuild"}
    [] pc = "coverage"          -> {"elfs", "swbuild", "lockstep"}
    [] pc = "classify"          -> {"elfs", "swbuild", "lockstep", "coverage"}
    [] pc = "summary"           -> CHECKS

LockOk(t, elf) == \A p \in Programs : OkRun(t, elf, p)

TypesInv ==
  /\ RegressionTypeOK
  /\ l1.pc \in Pcs /\ DOMAIN l1 = {"pc", "i", "rc", "compared", "fail", "results"}
  /\ DOMAIN mut = {"next", "ok_all", "started", "verdict"}
  /\ DOMAIN built = {"elf", "merged"}
  /\ DOMAIN work = Programs
  /\ \A p \in Programs : DOMAIN work[p] = {"log", "out", "core"}
  /\ tree \in Trees /\ Typed(copy)

ResultsInv ==
  /\ l1.pc # "idle" =>
       \A c \in CHECKS : l1.results[c] # "none" <=> c \in DecidedAt(l1.pc)
  /\ l1.results["elfs"] = "PASS" => copy.elfs = "intact"
  /\ l1.results["swbuild"] = "PASS" => copy.drift = {} /\ built.elf = copy.source
  /\ l1.results["lockstep"] # "none" =>
       (l1.results["lockstep"] = "PASS" <=> LockOk(copy, built.elf))
  /\ l1.results["coverage"] = "PASS" => Passing(copy, built.elf) = CovRuns

Ran(p) == SailRun(copy, built.elf, p)

LoopInv ==
  /\ l1.pc \in {"clean", "elfs", "swbuild"} => l1.i = 1 /\ l1.compared = 0 /\ ~ l1.fail
  /\ l1.pc \in Loop => l1.i \in 1 .. Len(DEFAULT_PROGS)
  /\ l1.pc = "count" => l1.i = Len(DEFAULT_PROGS) + 1
  /\ l1.pc \in Loop \cup {"count"} =>
       /\ l1.fail <=> \E j \in 1 .. l1.i - 1 : ~ OkRun(copy, built.elf, DEFAULT_PROGS[j])
       /\ l1.compared <= l1.i - 1
       /\ ~ l1.fail => l1.compared = l1.i - 1
  /\ l1.pc = "sail" => work[Prog].log = << >>
  /\ l1.pc \in {"judge", "core", "compare"} =>
       work[Prog].log = LogOf(Ran(Prog)) /\ work[Prog].out = Ran(Prog).out
  /\ l1.pc = "judge" => l1.rc = Ran(Prog).rc
  /\ l1.pc \in {"core", "compare"} => SailOk(LogOf(Ran(Prog)), Ran(Prog).out, Ran(Prog).rc)
  /\ l1.pc = "compare" =>
       work[Prog].core = CorePrints(copy.core[Prog].run) /\ l1.rc = copy.core[Prog].rc

(* What a baseline that passes says of the tree.                           *)
Baseline(t) ==
  /\ t.elfs = "intact" /\ t.drift = {}
  /\ LockOk(t, t.source) /\ Passing(t, t.source) = CovRuns

(* The .elf files of a copy of a tree that has none.                       *)
Built(t) == Install(<< >>, t, Programs \ t.drift)

Caught(t, id) ==
  LET m == Mutated(t, id) IN ~ LockOk(m, Built(m))

MutInv ==
  /\ ~ Mutating => ~ mut.started /\ mut.verdict = "none"
  /\ Mutating =>
       /\ l1.pc # "idle" => mut.started
       /\ mut.started =>
            /\ mut.next <= Len(MUTANTS)
            /\ copy = IF mut.next = 0 THEN tree ELSE Mutated(tree, MUTANTS[mut.next].id)
            /\ built.elf = IF l1.pc \in {"clean", "elfs", "swbuild"} THEN << >>
                           ELSE Built(copy)
            /\ l1.pc = "idle" => \A c \in CHECKS : l1.results[c] # "none"
       /\ mut.ok_all /\ mut.next > 0 => Baseline(tree)
       /\ mut.ok_all => \A k \in 1 .. Len(MUTANTS) :
            k < mut.next /\ MUTANTS[k].want = "lockstep" => Caught(tree, MUTANTS[k].id)
       /\ mut.verdict = "PASS" => mut.ok_all /\ mut.next = Len(MUTANTS) + 1

Inv == TypesInv /\ ResultsInv /\ LoopInv /\ MutInv

-----------------------------------------------------------------------------
(* What a step does to the fields of l1.                                   *)
SameButPc == l1'.i = l1.i /\ l1'.compared = l1.compared /\ l1'.fail = l1.fail

LEMMA GoesOn ==
  ASSUME TypesInv, NEW q, l1' = [l1 EXCEPT !.pc = q]
  PROVE  /\ l1'.pc = q /\ SameButPc /\ l1'.rc = l1.rc /\ l1'.results = l1.results
         /\ DOMAIN l1' = DOMAIN l1
BY DEF TypesInv, SameButPc

LEMMA Decides ==
  ASSUME TypesInv, NEW c \in CHECKS, NEW q, NEW passes \in BOOLEAN, Decide(c, passes, q)
  PROVE  /\ l1'.pc = q /\ SameButPc /\ l1'.rc = l1.rc /\ DOMAIN l1' = DOMAIN l1
         /\ l1'.results \in [CHECKS -> Verdict]
         /\ l1'.results[c] # "none" /\ (l1'.results[c] = "PASS" <=> passes)
         /\ \A d \in CHECKS \ {c} : l1'.results[d] = l1.results[d]
<1>1. l1.results \in [CHECKS -> Verdict] /\ DOMAIN l1 = {"pc", "i", "rc", "compared", "fail", "results"}
  BY DEF TypesInv, RegressionTypeOK
<1>2. l1' = [l1 EXCEPT !.pc = q, !.results[c] = Pass(passes)]
  BY DEF Decide
<1>3. /\ l1'.pc = q /\ SameButPc /\ l1'.rc = l1.rc /\ DOMAIN l1' = DOMAIN l1
      /\ l1'.results = [l1.results EXCEPT ![c] = Pass(passes)]
  BY <1>1, <1>2 DEF SameButPc
<1>4. Pass(passes) \in Verdict /\ Pass(passes) # "none" /\ (Pass(passes) = "PASS" <=> passes)
  BY DEF Pass, Verdict
<1>5. QED
  BY <1>1, <1>3, <1>4

LEMMA GoesToNext ==
  ASSUME TypesInv, l1.i \in Nat, l1.compared \in Nat,
         NEW fail \in BOOLEAN, NEW n \in {0, 1}, NextProgram(fail, n)
  PROVE  /\ l1'.pc = IF l1.i = Len(DEFAULT_PROGS) THEN "count" ELSE "delete"
         /\ l1'.i = l1.i + 1 /\ l1'.compared = l1.compared + n
         /\ l1'.fail \in BOOLEAN /\ (l1'.fail <=> l1.fail \/ fail)
         /\ l1'.results = l1.results /\ DOMAIN l1' = DOMAIN l1
<1>1. /\ DOMAIN l1 = {"pc", "i", "rc", "compared", "fail", "results"}
      /\ l1.fail \in BOOLEAN
  BY DEF TypesInv, RegressionTypeOK
<1>2. l1' = [l1 EXCEPT !.i = @ + 1, !.fail = @ \/ fail, !.compared = @ + n,
                      !.pc = IF l1.i = Len(DEFAULT_PROGS) THEN "count" ELSE "delete"]
  BY DEF NextProgram
<1>3. /\ l1'.pc = IF l1.i = Len(DEFAULT_PROGS) THEN "count" ELSE "delete"
      /\ l1'.i = l1.i + 1 /\ l1'.compared = l1.compared + n
      /\ l1'.results = l1.results /\ DOMAIN l1' = DOMAIN l1
  BY <1>1, <1>2
<1>4. l1'.fail = (l1.fail \/ fail)
  BY <1>1, <1>2, Zenon
<1>5. QED
  BY <1>3, <1>4, Zenon

LEMMA ProgramFacts ==
  /\ Len(DEFAULT_PROGS) \in Nat \ {0}
  /\ DOMAIN DEFAULT_PROGS = 1 .. Len(DEFAULT_PROGS)
  /\ \A i \in 1 .. Len(DEFAULT_PROGS) : DEFAULT_PROGS[i] \in Programs
  /\ \A p \in Programs : \E i \in 1 .. Len(DEFAULT_PROGS) : p = DEFAULT_PROGS[i]
<1>1. DEFAULT_PROGS \in Seq(Programs) /\ DEFAULT_PROGS # << >>
  BY RegressionAssumption
<1>2. /\ Len(DEFAULT_PROGS) \in Nat \ {0}
      /\ DOMAIN DEFAULT_PROGS = 1 .. Len(DEFAULT_PROGS)
  BY <1>1
<1>3. QED
  BY <1>2 DEF Programs

LEMMA TreesAreTyped ==
  ASSUME NEW t \in Trees
  PROVE  Typed(t)
BY RegressionAssumption DEF IsTree, Typed

MutantIds == {"R1", "X1", "S1", "S2", "S3", "S4", "S5", "H1", "T1", "K1", "K2"}

LEMMA MutantsAreTyped ==
  ASSUME NEW t \in Trees, NEW id \in MutantIds
  PROVE  /\ Typed(Mutated(t, id))
         /\ id = "S1" => Mutated(t, id) = [t EXCEPT !.model = "missing"]
         /\ id = "S2" => Mutated(t, id) = [t EXCEPT !.model = "true"]
         /\ id = "S3" => Mutated(t, id) = [t EXCEPT !.model = "exit1"]
         /\ id = "S4" => Mutated(t, id) = [t EXCEPT !.model = "exit0"]
         /\ id = "S5" => Mutated(t, id) = [t EXCEPT !.model = "silent0"]
<1> DEFINE m == Mutated(t, id)
<1>1. Typed(t) /\ {"sail", "model", "source", "core", "drift", "target", "rules"} \subseteq DOMAIN t
  BY TreesAreTyped, RegressionAssumption DEF IsTree
<1>2. First \in Programs /\ ResetProg \in Programs
  BY ProgramFacts, RegressionAssumption DEF First
<1>3. CASE id = "R1"
  <2> DEFINE c == t.core[First]
             r == IF c.run = << >> THEN c.run ELSE Wrong(c.run)
  <2>1. m = [t EXCEPT !.core[First].run = IF @ = << >> THEN @ ELSE Wrong(@)]
    BY <1>3 DEF Mutated
  <2>2. c \in CoreEnd /\ c.run \in Seq(Retirement)
    BY <1>1, <1>2 DEF Typed, CoreEnd
  <2>3. r \in Seq(Retirement)
    <3>1. CASE c.run = << >>
      BY <2>2, <3>1
    <3>2. CASE c.run # << >>
      <4> DEFINE run == c.run
                 n == Len(run)
                 v == [run[n] EXCEPT !.val = @ + 1]
      <4> HIDE DEF c
      <4>1. n \in 1 .. n /\ run[n] \in Retirement
        BY <2>2, <3>2
      <4>2. v \in Retirement
        BY <4>1 DEF Retirement
      <4>3. Wrong(run) = [run EXCEPT ![n] = v]
        BY DEF Wrong
      <4> HIDE DEF v, n, run
      <4>4. run \in Seq(Retirement)
        BY <2>2 DEF run
      <4>5. [run EXCEPT ![n] = v] \in Seq(Retirement)
        BY <4>1, <4>2, <4>4 DEF n
      <4>6. QED
        BY <3>2, <4>3, <4>5 DEF run
    <3>3. QED
      BY <3>1, <3>2
  <2> DEFINE d == [c EXCEPT !.run = r]
  <2>4. m = [t EXCEPT !.core = [t.core EXCEPT ![First] = d]]
    BY <2>1
  <2>5. d \in CoreEnd
    <3> HIDE DEF c, r
    <3> QED  BY <2>2, <2>3 DEF CoreEnd
  <2> HIDE DEF d, m
  <2>6. Typed(m)
    BY <1>1, <1>2, <2>4, <2>5 DEF Typed
  <2>7. QED
    BY <1>3, <2>6 DEF m
<1>4. CASE id = "X1"
  <2> DEFINE c == t.core[ResetProg]
             d == [c EXCEPT !.rc = 1]
  <2>1. m = [t EXCEPT !.core = [t.core EXCEPT ![ResetProg] = d]]
    BY <1>4 DEF Mutated
  <2>2. d \in CoreEnd
    BY <1>1, <1>2 DEF Typed, CoreEnd
  <2> HIDE DEF d, m
  <2>3. Typed(m)
    BY <1>1, <1>2, <2>1, <2>2 DEF Typed
  <2>4. QED
    BY <1>4, <2>3 DEF m
<1>5. CASE id \in {"S1", "S2", "S3", "S4", "S5"}
  <2>1. /\ id = "S1" => m = [t EXCEPT !.model = "missing"]
        /\ id = "S2" => m = [t EXCEPT !.model = "true"]
        /\ id = "S3" => m = [t EXCEPT !.model = "exit1"]
        /\ id = "S4" => m = [t EXCEPT !.model = "exit0"]
        /\ id = "S5" => m = [t EXCEPT !.model = "silent0"]
    BY <1>5 DEF Mutated
  <2>2. \A x \in Models : Typed([t EXCEPT !.model = x])
    BY <1>1 DEF Typed
  <2> HIDE DEF m
  <2>3. Typed(m)
    BY <1>5, <2>1, <2>2 DEF Models
  <2>4. QED
    BY <1>5, <2>1, <2>3 DEF m
<1>6. CASE id = "H1"
  <2>1. m = [t EXCEPT !.drift = @ \cup {First}]
    BY <1>6 DEF Mutated
  <2> HIDE DEF m
  <2>2. Typed(m)
    BY <1>1, <1>2, <2>1 DEF Typed
  <2>3. QED
    BY <1>6, <2>2 DEF m
<1>7. CASE id \in {"T1", "K1", "K2"}
  <2>1. \/ \E x : m = [t EXCEPT !.target = x]
        \/ \E x : m = [t EXCEPT !.rules = x]
    BY <1>7 DEF Mutated, WithRule
  <2> HIDE DEF m
  <2>2. Typed(m)
    BY <1>1, <2>1 DEF Typed
  <2>3. QED
    BY <1>7, <2>2 DEF m
<1>8. QED
  BY <1>3, <1>4, <1>5, <1>6, <1>7 DEF MutantIds

(* The mutants of $SAIL are numbers 3 to 7.                                *)
LEMMA MutantList ==
  /\ Len(MUTANTS) = 11
  /\ \A k \in 1 .. 11 : MUTANTS[k].id \in MutantIds /\ MUTANTS[k].want \in CHECKS
  /\ \A k \in 3 .. 7 : MUTANTS[k].want = "lockstep"
  /\ MUTANTS[3].id = "S1" /\ MUTANTS[4].id = "S2" /\ MUTANTS[5].id = "S3"
  /\ MUTANTS[6].id = "S4" /\ MUTANTS[7].id = "S5"
BY DEF MUTANTS, MutantIds, CHECKS

-----------------------------------------------------------------------------
(* The parts a step leaves alone.                                          *)
Early == {"clean", "elfs", "swbuild"}

LEMMA TypesKept ==
  ASSUME Inv, UNCHANGED << tree, copy, mut, changes >>,
         l1'.pc \in Pcs, DOMAIN l1' = DOMAIN l1, SameButPc,
         l1'.results \in [CHECKS -> Verdict],
         IsElfs(built'.elf), DOMAIN built' = DOMAIN built,
         DOMAIN work' = Programs,
         \A p \in Programs : DOMAIN work'[p] = {"log", "out", "core"}
  PROVE  TypesInv'
BY DEF Inv, TypesInv, RegressionTypeOK, SameButPc

LEMMA MutKept ==
  ASSUME Inv, UNCHANGED << tree, copy, mut >>, built'.elf = built.elf,
         l1.pc # "idle", l1'.pc # "idle", l1'.pc \in Early <=> l1.pc \in Early
  PROVE  MutInv'
<1>1. MutInv
  BY DEF Inv
<1>2. Mutating' <=> Mutating
  BY DEF Mutating
<1>3. (l1'.pc \in {"clean", "elfs", "swbuild"}) <=> (l1.pc \in {"clean", "elfs", "swbuild"})
  BY DEF Early
<1>4. QED
  BY <1>1, <1>2, <1>3 DEF MutInv

LEMMA ResultsKept ==
  ASSUME Inv, UNCHANGED copy, built'.elf = built.elf, l1'.results = l1.results,
         l1'.pc # "idle" => l1.pc # "idle" /\ DecidedAt(l1'.pc) = DecidedAt(l1.pc)
  PROVE  ResultsInv'
<1>1. ResultsInv
  BY DEF Inv
<1>2. \A pc : DecidedAt(pc)' = DecidedAt(pc)
  BY DEF DecidedAt, CHECKS
<1>3. QED
  BY <1>1 DEF ResultsInv

-----------------------------------------------------------------------------
(* The steps of L1.                                                        *)
LEMMA CleanStep ==
  ASSUME Inv, Clean
  PROVE  Inv'
<1>1. /\ l1.pc = "clean" /\ l1'.pc = "elfs" /\ SameButPc /\ l1'.results = l1.results
      /\ DOMAIN l1' = DOMAIN l1
      /\ UNCHANGED << tree, copy, work, mut, changes >>
  BY GoesOn DEF Inv, Clean, At
<1>2. built'.elf = built.elf /\ DOMAIN built' = DOMAIN built
  BY DEF Inv, TypesInv, Clean
<1>3. TypesInv'
  BY <1>1, <1>2, TypesKept DEF Inv, TypesInv, RegressionTypeOK, Pcs
<1>4. ResultsInv'
  BY <1>1, <1>2, ResultsKept DEF DecidedAt, Loop
<1>5. LoopInv'
  BY <1>1 DEF Inv, LoopInv, SameButPc, Loop
<1>6. MutInv'
  BY <1>1, <1>2, MutKept DEF Early
<1>7. QED
  BY <1>3, <1>4, <1>5, <1>6 DEF Inv

LEMMA CheckElfsStep ==
  ASSUME Inv, CheckElfs
  PROVE  Inv'
<1>1. /\ l1.pc = "elfs" /\ Decide("elfs", copy.elfs = "intact", "swbuild")
      /\ UNCHANGED << tree, copy, built, work, mut, changes >>
  BY DEF CheckElfs, At
<1>2. /\ l1'.pc = "swbuild" /\ SameButPc /\ DOMAIN l1' = DOMAIN l1
      /\ l1'.results \in [CHECKS -> Verdict]
      /\ l1'.results["elfs"] # "none" /\ (l1'.results["elfs"] = "PASS" <=> copy.elfs = "intact")
      /\ \A d \in CHECKS \ {"elfs"} : l1'.results[d] = l1.results[d]
  BY <1>1, Decides DEF Inv, CHECKS
<1>3. TypesInv'
  BY <1>1, <1>2, TypesKept DEF Inv, TypesInv, RegressionTypeOK, Pcs
<1>4. ResultsInv'
  BY <1>1, <1>2 DEF Inv, ResultsInv, DecidedAt, CHECKS, Loop
<1>5. LoopInv'
  BY <1>1, <1>2 DEF Inv, LoopInv, SameButPc, Loop
<1>6. MutInv'
  BY <1>1, <1>2, MutKept DEF Early
<1>7. QED
  BY <1>3, <1>4, <1>5, <1>6 DEF Inv

LEMMA SwBuildStep ==
  ASSUME Inv, SwBuild
  PROVE  Inv'
<1>1. /\ l1.pc = "swbuild" /\ Decide("swbuild", copy.drift = {}, "delete")
      /\ UNCHANGED << tree, copy, work, mut, changes >>
  BY DEF SwBuild, At
<1>2. /\ l1'.pc = "delete" /\ SameButPc /\ DOMAIN l1' = DOMAIN l1
      /\ l1'.results \in [CHECKS -> Verdict]
      /\ l1'.results["swbuild"] # "none" /\ (l1'.results["swbuild"] = "PASS" <=> copy.drift = {})
      /\ \A d \in CHECKS \ {"swbuild"} : l1'.results[d] = l1.results[d]
  BY <1>1, Decides DEF Inv, CHECKS
<1>3. /\ DOMAIN built' = DOMAIN built
      /\ built'.elf = Install(built.elf, copy, Programs \ copy.drift)
  BY DEF Inv, TypesInv, SwBuild
<1> DEFINE elf == Install(built.elf, copy, Programs \ copy.drift)
<1>a. IsElfs(elf) /\ (copy.drift = {} => elf = copy.source)
  <2>1. IsElfs(built.elf) /\ Typed(copy)
    BY DEF Inv, TypesInv, RegressionTypeOK
  <2>2. copy.drift = {} => Programs \ copy.drift = Programs
    OBVIOUS
  <2>3. QED
    BY <2>1, <2>2, InstallType, InstallAll
<1> HIDE DEF elf
<1>4. TypesInv'
  BY <1>1, <1>2, <1>3, <1>a, TypesKept DEF elf, Inv, TypesInv, RegressionTypeOK, Pcs, Loop
<1>5. ResultsInv'
  <2>1. l1'.results["lockstep"] = "none"
    BY <1>1, <1>2 DEF Inv, ResultsInv, DecidedAt, CHECKS
  <2>2. QED
    BY <1>1, <1>2, <1>3, <1>a, <2>1 DEF elf, Inv, ResultsInv, DecidedAt, CHECKS, Loop
<1>6. LoopInv'
  <2>1. l1'.i = 1 /\ l1'.compared = 0 /\ ~ l1'.fail /\ l1'.pc = "delete"
    BY <1>1, <1>2 DEF Inv, LoopInv, SameButPc
  <2>2. 1 \in 1 .. Len(DEFAULT_PROGS)
    BY ProgramFacts
  <2>3. QED
    BY <2>1, <2>2 DEF LoopInv, Loop
<1>7. MutInv'
  BY <1>1, <1>2, <1>3 DEF Inv, MutInv, Mutating, Built
<1>8. QED
  BY <1>4, <1>5, <1>6, <1>7 DEF Inv

LEMMA DeleteStep ==
  ASSUME Inv, DeleteTraces
  PROVE  Inv'
<1>1. /\ l1.pc = "delete" /\ l1'.pc = "sail" /\ SameButPc /\ l1'.results = l1.results
      /\ DOMAIN l1' = DOMAIN l1
      /\ UNCHANGED << tree, copy, built, mut, changes >>
  BY GoesOn DEF Inv, DeleteTraces, At
<1>2. Prog \in Programs /\ Prog' = Prog
  BY <1>1, ProgramFacts DEF Inv, LoopInv, Loop, Prog, SameButPc
<1>3. /\ DOMAIN work' = Programs
      /\ \A p \in Programs : DOMAIN work'[p] = {"log", "out", "core"}
      /\ work'[Prog].log = << >>
  BY <1>2 DEF Inv, TypesInv, DeleteTraces, NoTraces
<1>4. TypesInv'
  BY <1>1, <1>3, TypesKept DEF Inv, TypesInv, RegressionTypeOK, Pcs, Loop
<1>5. ResultsInv'
  BY <1>1, ResultsKept DEF DecidedAt, Loop
<1>6. LoopInv'
  BY <1>1, <1>2, <1>3 DEF Inv, LoopInv, SameButPc, Loop
<1>7. MutInv'
  BY <1>1, MutKept DEF Early
<1>8. QED
  BY <1>4, <1>5, <1>6, <1>7 DEF Inv

LEMMA RunSailStep ==
  ASSUME Inv, RunSail
  PROVE  Inv'
<1> DEFINE r == SailRun(copy, built.elf, Prog)
<1>1. l1.pc = "sail" /\ UNCHANGED << tree, copy, built, mut, changes >>
  BY DEF RunSail, At
<1>2. /\ l1' = [l1 EXCEPT !.pc = "judge", !.rc = r.rc]
      /\ work' = [work EXCEPT ![Prog].out = r.out,
                              ![Prog].log = IF Traced(r) THEN r.log ELSE @]
  BY DEF RunSail
<1>3. Prog \in Programs /\ work[Prog].log = << >>
  BY <1>1, ProgramFacts DEF Inv, LoopInv, Loop, Prog
<1> DEFINE q == [work[Prog] EXCEPT !.out = r.out,
                                   !.log = IF Traced(r) THEN r.log ELSE << >>]
<1>4. /\ l1'.pc = "judge" /\ SameButPc /\ l1'.results = l1.results
      /\ DOMAIN l1' = DOMAIN l1 /\ l1'.rc = r.rc
  <2> HIDE DEF r
  <2> QED  BY <1>2 DEF Inv, TypesInv, SameButPc
<1>5. Prog' = Prog
  BY <1>4 DEF Prog, SameButPc
<1>6. /\ DOMAIN work' = Programs
      /\ \A p \in Programs : DOMAIN work'[p] = {"log", "out", "core"}
      /\ work'[Prog].out = r.out
      /\ work'[Prog].log = IF Traced(r) THEN r.log ELSE << >>
  <2> HIDE DEF r
  <2> QED  BY <1>2, <1>3 DEF Inv, TypesInv
<1>7. TypesInv'
  BY <1>1, <1>4, <1>6, TypesKept DEF Inv, TypesInv, RegressionTypeOK, Pcs, Loop
<1>8. ResultsInv'
  BY <1>1, <1>4, ResultsKept DEF DecidedAt, Loop
<1>9. LoopInv'
  <2>1. Ran(Prog)' = r
    BY <1>1, <1>5 DEF Ran
  <2>2. /\ (work[Prog].log)' = LogOf(Ran(Prog)') /\ (work[Prog].out)' = Ran(Prog)'.out
        /\ l1'.rc = Ran(Prog)'.rc
    BY <1>4, <1>5, <1>6, <2>1, Zenon DEF LogOf
  <2>3. QED
    BY <1>1, <1>4, <2>2 DEF Inv, LoopInv, SameButPc, Loop
<1>10. MutInv'
  BY <1>1, <1>4, MutKept DEF Early
<1>11. QED
  BY <1>7, <1>8, <1>9, <1>10 DEF Inv

(* The verdict on one program.                                             *)
LEMMA ProgramJudged ==
  ASSUME Inv, l1.pc \in {"judge", "compare"},
         NEW fail \in BOOLEAN, NEW n \in {0, 1}, NextProgram(fail, n),
         fail <=> ~ OkRun(copy, built.elf, Prog), fail => n = 0, ~ fail => n = 1,
         UNCHANGED << tree, copy, built, work, mut, changes >>
  PROVE  Inv'
<1> DEFINE N == Len(DEFAULT_PROGS)
           Ok(j) == OkRun(copy, built.elf, DEFAULT_PROGS[j])
<1>1. N \in Nat \ {0}
  BY ProgramFacts
<1>2. /\ l1.i \in 1 .. N /\ l1.compared \in Nat /\ l1.fail \in BOOLEAN
      /\ l1.fail <=> \E j \in 1 .. l1.i - 1 : ~ Ok(j)
      /\ l1.compared <= l1.i - 1 /\ (~ l1.fail => l1.compared = l1.i - 1)
  BY DEF Inv, LoopInv, Loop, TypesInv, RegressionTypeOK
<1>3. /\ l1'.pc = IF l1.i = N THEN "count" ELSE "delete"
      /\ l1'.i = l1.i + 1 /\ l1'.compared = l1.compared + n
      /\ l1'.fail \in BOOLEAN /\ (l1'.fail <=> l1.fail \/ fail)
      /\ l1'.results = l1.results /\ DOMAIN l1' = DOMAIN l1
  BY <1>2, GoesToNext DEF Inv
<1>4. fail <=> ~ Ok(l1.i)
  BY DEF Prog
<1>5. l1'.fail <=> \E j \in 1 .. l1'.i - 1 : ~ Ok(j)
  <2> HIDE DEF Ok, N
  <2>1. l1'.i - 1 = l1.i
    BY <1>1, <1>2, <1>3
  <2>2. \A j : j \in 1 .. l1.i <=> j \in 1 .. l1.i - 1 \/ j = l1.i
    BY <1>1, <1>2
  <2>3. QED
    BY <1>2, <1>3, <1>4, <2>1, <2>2
<1>6. l1'.compared <= l1'.i - 1 /\ (~ l1'.fail => l1'.compared = l1'.i - 1)
  <2> HIDE DEF Ok, N
  <2> QED  BY <1>1, <1>2, <1>3
<1>7. /\ l1'.pc = "delete" => l1'.i \in 1 .. N
      /\ l1'.pc = "count" => l1'.i = N + 1
      /\ l1'.pc \in {"delete", "count"} /\ l1'.i \in 1 .. N + 1 /\ l1'.compared \in 0 .. N
  <2> HIDE DEF Ok, N
  <2> QED  BY <1>1, <1>2, <1>3, <1>6
<1> HIDE DEF Ok, N
<1>8. TypesInv'
  BY <1>3, <1>7 DEF Inv, TypesInv, RegressionTypeOK, Pcs, Loop, N
<1>9. ResultsInv'
  BY <1>3, <1>7, ResultsKept DEF DecidedAt, Loop
<1>10. LoopInv'
  <2>1. l1'.fail <=> \E j \in 1 .. l1'.i - 1 : ~ OkRun(copy', built'.elf, DEFAULT_PROGS[j])
    BY <1>5 DEF Ok
  <2>2. QED
    BY <1>6, <1>7, <2>1 DEF LoopInv, Loop, N
<1>11. MutInv'
  BY <1>3, <1>7, MutKept DEF Early
<1>12. QED
  BY <1>8, <1>9, <1>10, <1>11 DEF Inv

LEMMA JudgeStep ==
  ASSUME Inv, JudgeSail
  PROVE  Inv'
<1> DEFINE r == Ran(Prog)
           ok == SailOk(LogOf(r), r.out, r.rc)
<1>1. l1.pc = "judge" /\ UNCHANGED << tree, copy, built, work, mut, changes >>
  BY DEF JudgeSail, At
<1>2. work[Prog].log = LogOf(r) /\ work[Prog].out = r.out /\ l1.rc = r.rc
  BY <1>1 DEF Inv, LoopInv
<1>3. IF ok THEN l1' = [l1 EXCEPT !.pc = "core"] ELSE NextProgram(TRUE, 0)
  BY <1>2 DEF JudgeSail
<1>4. CASE ~ ok
  <2>1. ~ OkRun(copy, built.elf, Prog)
    BY <1>4, Zenon DEF OkRun, Ran
  <2> HIDE DEF ok
  <2>2. NextProgram(TRUE, 0)
    BY <1>3, <1>4
  <2>3. QED
    BY <1>1, <2>1, <2>2, ProgramJudged
<1>5. CASE ok
  <2>1. l1' = [l1 EXCEPT !.pc = "core"]
    <3> HIDE DEF ok
    <3> QED  BY <1>3, <1>5
  <2>2. /\ l1'.pc = "core" /\ SameButPc /\ l1'.results = l1.results
        /\ DOMAIN l1' = DOMAIN l1 /\ l1'.rc = l1.rc
    BY <2>1, GoesOn DEF Inv
  <2>3. TypesInv'
    BY <1>1, <2>2, TypesKept DEF Inv, TypesInv, RegressionTypeOK, Pcs, Loop
  <2>4. ResultsInv'
    BY <1>1, <2>2, ResultsKept DEF DecidedAt, Loop
  <2>5. LoopInv'
    <3>1. Prog' = Prog /\ Ran(Prog)' = r
      BY <1>1, <2>2 DEF Prog, SameButPc, Ran
    <3> HIDE DEF r
    <3>2. /\ (work[Prog].log)' = LogOf(Ran(Prog)') /\ (work[Prog].out)' = Ran(Prog)'.out
          /\ SailOk(LogOf(Ran(Prog)'), Ran(Prog)'.out, Ran(Prog)'.rc)
      BY <1>1, <1>2, <1>5, <3>1, Zenon
    <3>3. QED
      BY <1>1, <2>2, <3>2 DEF Inv, LoopInv, SameButPc, Loop
  <2>6. MutInv'
    BY <1>1, <2>2, MutKept DEF Early
  <2>7. QED
    BY <2>3, <2>4, <2>5, <2>6 DEF Inv
<1>6. QED
  BY <1>4, <1>5

LEMMA RunCoreStep ==
  ASSUME Inv, RunCore
  PROVE  Inv'
<1> DEFINE c == copy.core[Prog]
<1>1. l1.pc = "core" /\ UNCHANGED << tree, copy, built, mut, changes >>
  BY DEF RunCore, At
<1>2. /\ l1' = [l1 EXCEPT !.pc = "compare", !.rc = c.rc]
      /\ work' = [work EXCEPT ![Prog].core = CorePrints(c.run)]
  BY DEF RunCore
<1>3. Prog \in Programs
  BY <1>1, ProgramFacts DEF Inv, LoopInv, Loop, Prog
<1>4. /\ l1'.pc = "compare" /\ SameButPc /\ l1'.results = l1.results
      /\ DOMAIN l1' = DOMAIN l1 /\ l1'.rc = c.rc
  <2> HIDE DEF c
  <2> QED  BY <1>2 DEF Inv, TypesInv, SameButPc
<1>5. Prog' = Prog
  BY <1>4 DEF Prog, SameButPc
<1>6. /\ DOMAIN work' = Programs
      /\ \A p \in Programs : DOMAIN work'[p] = {"log", "out", "core"}
      /\ work'[Prog].out = work[Prog].out /\ work'[Prog].log = work[Prog].log
      /\ work'[Prog].core = CorePrints(c.run)
  <2> HIDE DEF c
  <2> QED  BY <1>2, <1>3 DEF Inv, TypesInv
<1>7. TypesInv'
  BY <1>1, <1>4, <1>6, TypesKept DEF Inv, TypesInv, RegressionTypeOK, Pcs, Loop
<1>8. ResultsInv'
  BY <1>1, <1>4, ResultsKept DEF DecidedAt, Loop
<1>9. LoopInv'
  <2>1. Ran(Prog)' = Ran(Prog)
    BY <1>1, <1>5 DEF Ran
  <2>2. /\ (work[Prog].log)' = LogOf(Ran(Prog)') /\ (work[Prog].out)' = Ran(Prog)'.out
        /\ SailOk(LogOf(Ran(Prog)'), Ran(Prog)'.out, Ran(Prog)'.rc)
    <3>1. /\ work[Prog].log = LogOf(Ran(Prog)) /\ work[Prog].out = Ran(Prog).out
          /\ SailOk(LogOf(Ran(Prog)), Ran(Prog).out, Ran(Prog).rc)
      BY <1>1 DEF Inv, LoopInv
    <3>2. QED
      BY <1>5, <1>6, <2>1, <3>1, Zenon
  <2>3. (work[Prog].core)' = CorePrints((copy.core[Prog].run)') /\ l1'.rc = (copy.core[Prog].rc)'
    BY <1>1, <1>4, <1>5, <1>6, Zenon
  <2>4. QED
    BY <1>1, <1>4, <2>2, <2>3 DEF Inv, LoopInv, SameButPc, Loop
<1>10. MutInv'
  BY <1>1, <1>4, MutKept DEF Early
<1>11. QED
  BY <1>7, <1>8, <1>9, <1>10 DEF Inv

LEMMA CompareStep ==
  ASSUME Inv, Compare
  PROVE  Inv'
<1> DEFINE w == work[Prog]
           s == parse_sail(w.log)
           c == parse_core(w.core)
           agrees == Result(s, c) = "PASS" /\ l1.rc = 0 /\ Compared(s, c) # 0
           n == IF agrees THEN 1 ELSE 0
<1>1. l1.pc = "compare" /\ UNCHANGED << tree, copy, built, work, mut, changes >>
  BY DEF Compare, At
<1>2. NextProgram(~ agrees, n)
  BY DEF Compare
<1>3. /\ w.log = LogOf(Ran(Prog)) /\ SailOk(LogOf(Ran(Prog)), Ran(Prog).out, Ran(Prog).rc)
      /\ w.core = CorePrints(copy.core[Prog].run) /\ l1.rc = copy.core[Prog].rc
  BY <1>1 DEF Inv, LoopInv
<1>4. agrees <=> Good(w.log, w.core, l1.rc)
  BY Zenon DEF Good
<1>5. agrees <=> OkRun(copy, built.elf, Prog)
  <2> HIDE DEF agrees
  <2> QED  BY <1>3, <1>4, Zenon DEF OkRun, Ran
<1>6. agrees \in BOOLEAN /\ n \in {0, 1}
  OBVIOUS
<1> DEFINE fail == ~ agrees
<1>7. fail \in BOOLEAN /\ (fail => n = 0) /\ (~ fail => n = 1)
  BY <1>6
<1>8. NextProgram(fail, n) /\ (fail <=> ~ OkRun(copy, built.elf, Prog))
  BY <1>2, <1>5
<1> HIDE DEF fail, n
<1>9. n \in {0, 1}
  BY <1>6
<1>10. QED
  BY <1>1, <1>7, <1>8, <1>9, ProgramJudged

LEMMA CountStep ==
  ASSUME Inv, CountPrograms
  PROVE  Inv'
<1> DEFINE N == Len(DEFAULT_PROGS)
           passes == ~ l1.fail /\ l1.compared = N
<1>1. /\ l1.pc = "count" /\ Decide("lockstep", passes, "coverage")
      /\ UNCHANGED << tree, copy, built, work, mut, changes >>
  BY DEF CountPrograms, At
<1>2. passes <=> LockOk(copy, built.elf)
  <2>1. /\ l1.i = N + 1 /\ N \in Nat
        /\ l1.fail <=> \E j \in 1 .. l1.i - 1 : ~ OkRun(copy, built.elf, DEFAULT_PROGS[j])
        /\ ~ l1.fail => l1.compared = l1.i - 1
    BY <1>1, ProgramFacts DEF Inv, LoopInv
  <2>2. LockOk(copy, built.elf) <=> \A j \in 1 .. N : OkRun(copy, built.elf, DEFAULT_PROGS[j])
    BY ProgramFacts DEF LockOk
  <2> HIDE DEF N
  <2>3. l1.i - 1 = N
    BY <2>1
  <2>4. QED
    BY <2>1, <2>2, <2>3
<1>3. passes \in BOOLEAN
  OBVIOUS
<1> HIDE DEF passes
<1>4. /\ l1'.pc = "coverage" /\ SameButPc /\ DOMAIN l1' = DOMAIN l1
      /\ l1'.results \in [CHECKS -> Verdict]
      /\ l1'.results["lockstep"] # "none" /\ (l1'.results["lockstep"] = "PASS" <=> passes)
      /\ \A d \in CHECKS \ {"lockstep"} : l1'.results[d] = l1.results[d]
  BY <1>1, <1>3, Decides DEF Inv, CHECKS
<1>5. TypesInv'
  BY <1>1, <1>4, TypesKept DEF Inv, TypesInv, RegressionTypeOK, Pcs
<1>6. ResultsInv'
  BY <1>1, <1>2, <1>4 DEF Inv, ResultsInv, DecidedAt, CHECKS, Loop
<1>7. LoopInv'
  BY <1>1, <1>4 DEF LoopInv, Loop
<1>8. MutInv'
  BY <1>1, <1>4, MutKept DEF Early
<1>9. QED
  BY <1>5, <1>6, <1>7, <1>8 DEF Inv

LEMMA CoverageStep ==
  ASSUME Inv, Coverage
  PROVE  Inv'
<1> DEFINE dies == copy.elfs = "missing" \/ RT_PC(built.elf) = NoHandler
           data == IF dies THEN NoData ELSE Merged(copy, built.elf)
           passes == ~ dies /\ Passing(copy, built.elf) = CovRuns /\ ReportPasses(copy, data)
<1>1. /\ l1.pc = "coverage" /\ Decide("coverage", passes, "classify")
      /\ UNCHANGED << tree, copy, work, mut, changes >>
  BY DEF Coverage, At
<1>2. built'.elf = built.elf /\ DOMAIN built' = DOMAIN built
  <2>1. \E x : built' = [built EXCEPT !.merged = x]
    BY DEF Coverage
  <2>2. QED
    BY <2>1 DEF Inv, TypesInv
<1>3. passes \in BOOLEAN /\ (passes => Passing(copy, built.elf) = CovRuns)
  BY Zenon DEF ReportPasses
<1> HIDE DEF passes
<1>4. /\ l1'.pc = "classify" /\ SameButPc /\ DOMAIN l1' = DOMAIN l1
      /\ l1'.results \in [CHECKS -> Verdict]
      /\ l1'.results["coverage"] # "none" /\ (l1'.results["coverage"] = "PASS" <=> passes)
      /\ \A d \in CHECKS \ {"coverage"} : l1'.results[d] = l1.results[d]
  BY <1>1, <1>3, Decides DEF Inv, CHECKS
<1>5. TypesInv'
  BY <1>1, <1>2, <1>4, TypesKept DEF Inv, TypesInv, RegressionTypeOK, Pcs
<1>6. ResultsInv'
  BY <1>1, <1>2, <1>3, <1>4 DEF Inv, ResultsInv, DecidedAt, CHECKS, Loop
<1>7. LoopInv'
  BY <1>1, <1>4 DEF LoopInv, Loop
<1>8. MutInv'
  BY <1>1, <1>2, <1>4, MutKept DEF Early
<1>9. QED
  BY <1>5, <1>6, <1>7, <1>8 DEF Inv

LEMMA ClassifyStep ==
  ASSUME Inv, Classify
  PROVE  Inv'
<1>1. /\ l1.pc = "classify"
      /\ UNCHANGED << tree, copy, built, work, mut, changes >>
      /\ \E passes \in BOOLEAN : Decide("classify", passes, "summary")
  <2>1. \A u : (u.ok /\ Classified(u.points, copy.rules)) \in BOOLEAN
    BY Zenon
  <2>2. QED
    BY <2>1, Zenon DEF Classify, At
<1>2. PICK passes \in BOOLEAN : Decide("classify", passes, "summary")
  BY <1>1
<1>3. /\ l1'.pc = "summary" /\ SameButPc /\ DOMAIN l1' = DOMAIN l1
      /\ l1'.results \in [CHECKS -> Verdict]
      /\ l1'.results["classify"] # "none"
      /\ \A d \in CHECKS \ {"classify"} : l1'.results[d] = l1.results[d]
  BY <1>1, <1>2, Decides DEF Inv, CHECKS
<1>4. TypesInv'
  BY <1>1, <1>3, TypesKept DEF Inv, TypesInv, RegressionTypeOK, Pcs
<1>5. ResultsInv'
  BY <1>1, <1>3 DEF Inv, ResultsInv, DecidedAt, CHECKS, Loop
<1>6. LoopInv'
  BY <1>1, <1>3 DEF LoopInv, Loop
<1>7. MutInv'
  BY <1>1, <1>3, MutKept DEF Early
<1>8. QED
  BY <1>4, <1>5, <1>6, <1>7 DEF Inv

LEMMA EndL1Step ==
  ASSUME Inv, EndL1
  PROVE  Inv'
<1>1. /\ l1.pc = "summary" /\ l1'.pc = "idle" /\ SameButPc /\ l1'.results = l1.results
      /\ DOMAIN l1' = DOMAIN l1
      /\ UNCHANGED << tree, copy, built, work, mut, changes >>
  BY GoesOn DEF Inv, EndL1, At
<1>2. TypesInv'
  BY <1>1, TypesKept DEF Inv, TypesInv, RegressionTypeOK, Pcs
<1>3. ResultsInv'
  BY <1>1, ResultsKept
<1>4. LoopInv'
  BY <1>1 DEF LoopInv, Loop
<1>5. MutInv'
  <2>1. \A c \in CHECKS : l1'.results[c] # "none"
    BY <1>1 DEF Inv, ResultsInv, DecidedAt, Loop
  <2>2. QED
    BY <1>1, <2>1 DEF Inv, MutInv, Mutating
<1>6. QED
  BY <1>2, <1>3, <1>4, <1>5 DEF Inv

-----------------------------------------------------------------------------
(* The developer's steps and those of mutate_l1.py.                        *)
LEMMA IdleFacts ==
  /\ Idle.pc = "idle" /\ Idle.i = 1 /\ Idle.compared = 0 /\ Idle.fail = FALSE
  /\ DOMAIN Idle = {"pc", "i", "rc", "compared", "fail", "results"}
  /\ Idle.results = [c \in CHECKS |-> "none"]
BY DEF Idle

(* A run that starts.                                                      *)
LEMMA Fresh ==
  ASSUME NEW q, l1' = [Idle EXCEPT !.pc = q] \/ (l1' = Idle /\ q = "idle")
  PROVE  /\ l1'.pc = q /\ l1'.i = 1 /\ l1'.compared = 0 /\ l1'.fail = FALSE
         /\ DOMAIN l1' = {"pc", "i", "rc", "compared", "fail", "results"}
         /\ l1'.results \in [CHECKS -> Verdict]
         /\ \A c \in CHECKS : l1'.results[c] = "none"
<1> DEFINE start == [Idle EXCEPT !.pc = q]
<1>1. /\ start.pc = q /\ start.i = 1 /\ start.compared = 0 /\ start.fail = FALSE
      /\ DOMAIN start = {"pc", "i", "rc", "compared", "fail", "results"}
      /\ start.results = [c \in CHECKS |-> "none"]
  BY IdleFacts
<1>2. /\ l1'.pc = q /\ l1'.i = 1 /\ l1'.compared = 0 /\ l1'.fail = FALSE
      /\ DOMAIN l1' = {"pc", "i", "rc", "compared", "fail", "results"}
      /\ l1'.results = [c \in CHECKS |-> "none"]
  <2>1. CASE l1' = start
    <3> HIDE DEF start
    <3> QED  BY <1>1, <2>1
  <2>2. CASE l1' = Idle /\ q = "idle"
    BY <2>2, IdleFacts
  <2>3. QED
    BY <2>1, <2>2
<1>3. QED
  BY <1>2 DEF Verdict

LEMMA FreshParts ==
  ASSUME Inv, NEW q \in {"idle", "clean"},
         l1' = [Idle EXCEPT !.pc = q] \/ (l1' = Idle /\ q = "idle")
  PROVE  ResultsInv' /\ LoopInv'
<1>1. /\ l1'.pc = q /\ l1'.i = 1 /\ l1'.compared = 0 /\ l1'.fail = FALSE
      /\ \A c \in CHECKS : l1'.results[c] = "none"
  BY Fresh
<1>2. ResultsInv'
  BY <1>1 DEF ResultsInv, DecidedAt, CHECKS, Loop
<1>3. LoopInv'
  BY <1>1 DEF LoopInv, Loop
<1>4. QED
  BY <1>2, <1>3

(* The types of a value with the fields of a fresh run.                    *)
FreshTypes(v) ==
  /\ v.results \in [CHECKS -> Verdict] /\ v.i \in 1 .. Len(DEFAULT_PROGS) + 1
  /\ v.compared \in 0 .. Len(DEFAULT_PROGS) /\ v.fail \in BOOLEAN

LEMMA FreshIsTyped ==
  ASSUME NEW v, v.i = 1, v.compared = 0, v.fail = FALSE, v.results \in [CHECKS -> Verdict]
  PROVE  FreshTypes(v)
<1>1. 1 \in 1 .. Len(DEFAULT_PROGS) + 1 /\ 0 \in 0 .. Len(DEFAULT_PROGS)
  BY ProgramFacts
<1>2. v.fail \in BOOLEAN
  BY Zenon
<1>3. QED
  BY <1>1, <1>2, Zenon DEF FreshTypes

LEMMA RunL1Step ==
  ASSUME Inv, RunL1
  PROVE  Inv'
<1>1. /\ l1' = [Idle EXCEPT !.pc = "clean"] /\ copy' = tree /\ ~ Mutating
      /\ UNCHANGED << tree, built, work, mut, changes >>
  BY DEF RunL1
<1>2. ResultsInv' /\ LoopInv'
  BY <1>1, FreshParts
<1>3. TypesInv'
  <2>1. Typed(tree)
    BY TreesAreTyped DEF Inv, TypesInv
  <2>2. /\ l1'.pc = "clean" /\ l1'.i = 1 /\ l1'.compared = 0 /\ l1'.fail = FALSE
        /\ DOMAIN l1' = {"pc", "i", "rc", "compared", "fail", "results"}
        /\ l1'.results \in [CHECKS -> Verdict]
    BY <1>1, Fresh
  <2>3. FreshTypes(l1')
    BY <2>2, FreshIsTyped, Zenon
  <2>4. QED
    BY <1>1, <2>1, <2>2, <2>3 DEF Inv, TypesInv, RegressionTypeOK, Pcs, FreshTypes
<1>4. MutInv'
  BY <1>1 DEF Inv, MutInv, Mutating
<1>5. QED
  BY <1>2, <1>3, <1>4 DEF Inv

LEMMA EditStep ==
  ASSUME Inv, Edit
  PROVE  Inv'
<1>1. /\ tree' \in Trees /\ ~ Mutating /\ changes < MaxChanges /\ changes' = changes + 1
      /\ UNCHANGED << copy, built, work, l1, mut >>
  BY DEF Edit
<1>2. MaxChanges \in Nat
  BY RegressionAssumption
<1>3. TypesInv'
  BY <1>1, <1>2 DEF Inv, TypesInv, RegressionTypeOK
<1>4. ResultsInv'
  BY <1>1 DEF Inv, ResultsInv
<1>5. LoopInv'
  BY <1>1 DEF Inv, LoopInv, Ran, Prog
<1>6. MutInv'
  BY <1>1 DEF Inv, MutInv, Mutating
<1>7. QED
  BY <1>3, <1>4, <1>5, <1>6 DEF Inv

LEMMA InterruptStep ==
  ASSUME Inv, Interrupt
  PROVE  Inv'
<1>1. /\ l1' = Idle /\ ~ Mutating /\ changes < MaxChanges /\ changes' = changes + 1
      /\ UNCHANGED << tree, copy, work, mut >>
      /\ \E done \in SUBSET (Programs \ copy.drift) :
           built' = [built EXCEPT !.elf = Install(@, copy, done)]
  BY DEF Interrupt
<1>a. IsElfs(built'.elf) /\ DOMAIN built' = {"elf", "merged"}
  <2>1. PICK done \in SUBSET (Programs \ copy.drift) :
           built' = [built EXCEPT !.elf = Install(@, copy, done)]
    BY <1>1
  <2>2. IsElfs(built.elf) /\ Typed(copy) /\ DOMAIN built = {"elf", "merged"}
    BY DEF Inv, TypesInv, RegressionTypeOK
  <2>3. IsElfs(Install(built.elf, copy, done))
    BY <2>2, InstallType
  <2>4. QED
    BY <2>1, <2>2, <2>3
<1>2. ResultsInv' /\ LoopInv'
  BY <1>1, FreshParts
<1>3. TypesInv'
  <2>1. /\ l1'.pc = "idle" /\ l1'.i = 1 /\ l1'.compared = 0 /\ l1'.fail = FALSE
        /\ DOMAIN l1' = {"pc", "i", "rc", "compared", "fail", "results"}
        /\ l1'.results \in [CHECKS -> Verdict]
    BY <1>1, Fresh
  <2>2. MaxChanges \in Nat
    BY RegressionAssumption
  <2>3. FreshTypes(l1')
    BY <2>1, FreshIsTyped, Zenon
  <2>4. QED
    BY <1>1, <1>a, <2>1, <2>2, <2>3 DEF Inv, TypesInv, RegressionTypeOK, Pcs, FreshTypes
<1>4. MutInv'
  BY <1>1 DEF Inv, MutInv, Mutating
<1>5. QED
  BY <1>2, <1>3, <1>4 DEF Inv

LEMMA StartMutantStep ==
  ASSUME Inv, StartMutant
  PROVE  Inv'
<1> DEFINE id == MUTANTS[mut.next].id
           m == IF mut.next = 0 THEN tree ELSE Mutated(tree, id)
<1>1. /\ l1.pc = "idle" /\ Mutating /\ mut.next <= 11 /\ ~ mut.started
      /\ UNCHANGED << tree, work, changes >>
  BY MutantList DEF StartMutant, At
<1>2. mut.next \in 0 .. 11 /\ MutInv /\ TypesInv
  BY <1>1, MutantList DEF Inv, TypesInv, RegressionTypeOK, Mutating
<1>3. mut.next # 0 => id \in MutantIds
  BY <1>2, MutantList
<1>4. CASE mut.next = 0 \/ Applies(tree, id)
  <2>1. /\ copy' = m /\ built' = NothingBuilt
        /\ l1' = [Idle EXCEPT !.pc = "clean"] /\ mut' = [mut EXCEPT !.started = TRUE]
    BY <1>4 DEF StartMutant
  <2>2. Typed(m)
    <3>1. tree \in Trees
      BY <1>2 DEF TypesInv
    <3>2. CASE mut.next = 0
      BY <3>1, <3>2, TreesAreTyped
    <3>3. CASE mut.next # 0
      <4>1. Typed(Mutated(tree, id))
        <5> HIDE DEF id
        <5> QED  BY <1>3, <3>1, <3>3, MutantsAreTyped
      <4>2. QED
        BY <3>3, <4>1
    <3>4. QED
      BY <3>2, <3>3
  <2>3. /\ l1'.pc = "clean" /\ l1'.i = 1 /\ l1'.compared = 0 /\ l1'.fail = FALSE
        /\ DOMAIN l1' = {"pc", "i", "rc", "compared", "fail", "results"}
        /\ l1'.results \in [CHECKS -> Verdict]
    BY <2>1, Fresh
  <2>4. /\ mut'.next = mut.next /\ mut'.started = TRUE /\ mut'.ok_all = mut.ok_all
        /\ mut'.verdict = mut.verdict /\ DOMAIN mut' = DOMAIN mut
    BY <1>2, <2>1 DEF TypesInv
  <2>5. built'.elf = << >> /\ DOMAIN built' = {"elf", "merged"} /\ IsElfs(built'.elf)
    BY <2>1, NoElfs DEF NothingBuilt
  <2> HIDE DEF m
  <2>6. ResultsInv' /\ LoopInv'
    BY <2>1, FreshParts
  <2>7. TypesInv'
    <3>1. FreshTypes(l1')
      BY <2>3, FreshIsTyped, Zenon
    <3>2. mut'.started \in BOOLEAN /\ mut'.ok_all \in BOOLEAN
      BY <1>2, <2>4, Zenon DEF TypesInv, RegressionTypeOK
    <3>3. QED
      BY <1>1, <1>2, <2>1, <2>2, <2>3, <2>4, <2>5, <3>1, <3>2
      DEF TypesInv, RegressionTypeOK, Pcs, FreshTypes
  <2>8. MutInv'
    <3>1. copy' = IF mut'.next = 0 THEN tree' ELSE Mutated(tree', MUTANTS[mut'.next].id)
      BY <1>1, <2>1, <2>4 DEF m
    <3>2. Mutating'
      BY <1>1, <2>4 DEF Mutating
    <3>3. mut'.next <= Len(MUTANTS)
      BY <1>1, <2>4, MutantList
    <3>4. QED
      BY <1>1, <1>2, <2>3, <2>4, <2>5, <3>1, <3>2, <3>3 DEF MutInv
  <2>9. QED
    BY <2>6, <2>7, <2>8 DEF Inv
<1>5. CASE ~ (mut.next = 0 \/ Applies(tree, id))
  <2>1. /\ mut' = [mut EXCEPT !.ok_all = FALSE, !.next = @ + 1]
        /\ UNCHANGED << copy, built, l1 >>
    BY <1>5 DEF StartMutant
  <2>2. /\ mut'.next = mut.next + 1 /\ mut'.started = mut.started /\ mut'.ok_all = FALSE
        /\ mut'.verdict = mut.verdict /\ DOMAIN mut' = DOMAIN mut
    BY <1>2, <2>1 DEF TypesInv
  <2>3. TypesInv'
    BY <1>1, <1>2, <2>1, <2>2, MutantList DEF TypesInv, RegressionTypeOK
  <2>4. ResultsInv'
    BY <1>1, <2>1 DEF Inv, ResultsInv
  <2>5. LoopInv'
    BY <1>1, <2>1 DEF LoopInv, Loop
  <2>6. MutInv'
    <3>1. mut.verdict # "PASS"
      BY <1>1, <1>2, MutantList DEF MutInv
    <3>2. Mutating'
      BY <1>1, <1>2, <2>2 DEF Mutating
    <3>3. QED
      BY <1>1, <1>2, <2>1, <2>2, <3>1, <3>2 DEF MutInv
  <2>7. QED
    BY <2>3, <2>4, <2>5, <2>6 DEF Inv
<1>6. QED
  BY <1>4, <1>5

LEMMA EndMutantStep ==
  ASSUME Inv, EndMutant
  PROVE  Inv'
<1> DEFINE k == mut.next
           expected == IF k = 0 THEN Failed(l1) = {} ELSE MUTANTS[k].want \in Failed(l1)
<1>1. /\ l1.pc = "idle" /\ mut.started
      /\ mut' = [mut EXCEPT !.ok_all = @ /\ expected, !.next = @ + 1, !.started = FALSE]
      /\ UNCHANGED << tree, copy, built, work, l1, changes >>
  BY DEF EndMutant, At
<1>2. /\ MutInv /\ TypesInv /\ ResultsInv /\ Mutating /\ k \in 0 .. 11
      /\ mut.ok_all \in BOOLEAN
  <2>1. MutInv /\ TypesInv /\ ResultsInv
    BY DEF Inv
  <2>2. Mutating
    BY <1>1, <2>1 DEF MutInv
  <2>3. QED
    BY <1>1, <2>1, <2>2, MutantList DEF MutInv, TypesInv, RegressionTypeOK, Mutating
<1>3. /\ copy = IF k = 0 THEN tree ELSE Mutated(tree, MUTANTS[k].id)
      /\ built.elf = Built(copy)
      /\ \A c \in CHECKS : l1.results[c] # "none"
  BY <1>1, <1>2 DEF MutInv
<1>4. mut'.ok_all <=> mut.ok_all /\ expected
  <2> HIDE DEF expected
  <2>1. mut'.ok_all = (mut.ok_all /\ expected)
    BY <1>1, <1>2, Zenon DEF TypesInv
  <2>2. QED
    BY <2>1, Zenon
<1>5. /\ mut'.next = k + 1 /\ mut'.started = FALSE /\ mut'.ok_all \in BOOLEAN
      /\ mut'.verdict = mut.verdict /\ DOMAIN mut' = DOMAIN mut
  <2>1. /\ mut'.next = k + 1 /\ mut'.started = FALSE
        /\ mut'.verdict = mut.verdict /\ DOMAIN mut' = DOMAIN mut
    <3> HIDE DEF expected
    <3> QED  BY <1>1, <1>2 DEF TypesInv
  <2>2. mut'.ok_all = (mut.ok_all /\ expected)
    <3> HIDE DEF expected
    <3> QED  BY <1>1, <1>2, Zenon DEF TypesInv
  <2>3. (mut.ok_all /\ expected) \in BOOLEAN
    OBVIOUS
  <2>4. QED
    BY <2>1, <2>2, <2>3, Zenon
<1>6. expected /\ k = 0 => Baseline(tree)
  <2>1. SUFFICES ASSUME Failed(l1) = {}, k = 0 PROVE Baseline(tree)
    OBVIOUS
  <2>2. \A c \in CHECKS : l1.results[c] = "PASS"
    <3>1. \A c \in CHECKS : l1.results[c] # "FAIL"
      BY <2>1 DEF Failed
    <3>2. \A c \in CHECKS : l1.results[c] \in Verdict
      BY <1>2 DEF TypesInv, RegressionTypeOK
    <3>3. QED
      BY <1>3, <3>1, <3>2 DEF Verdict
  <2>3. copy = tree
    BY <1>3, <2>1
  <2>4. copy.elfs = "intact" /\ copy.drift = {} /\ LockOk(copy, built.elf)
        /\ Passing(copy, built.elf) = CovRuns
    BY <1>2, <2>2 DEF ResultsInv, CHECKS
  <2>5. built.elf = copy.source
    BY <1>2, <2>2 DEF ResultsInv, CHECKS
  <2>6. QED
    BY <2>3, <2>4, <2>5, Zenon DEF Baseline
<1>7. expected /\ k # 0 /\ MUTANTS[k].want = "lockstep" => Caught(tree, MUTANTS[k].id)
  <2>1. SUFFICES ASSUME "lockstep" \in Failed(l1), k # 0, MUTANTS[k].want = "lockstep"
                 PROVE  Caught(tree, MUTANTS[k].id)
    OBVIOUS
  <2>2. l1.results["lockstep"] = "FAIL"
    BY <2>1 DEF Failed
  <2>3. ~ LockOk(copy, built.elf)
    BY <1>2, <2>2 DEF ResultsInv
  <2>4. copy = Mutated(tree, MUTANTS[k].id) /\ built.elf = Built(copy)
    BY <1>3, <2>1
  <2>5. QED
    BY <2>3, <2>4, Zenon DEF Caught
<1> HIDE DEF expected
<1>8. TypesInv'
  BY <1>1, <1>2, <1>5, MutantList DEF TypesInv, RegressionTypeOK
<1>9. ResultsInv'
  BY <1>1, <1>2 DEF ResultsInv
<1>10. LoopInv'
  BY <1>1 DEF LoopInv, Loop
<1>11. MutInv'
  <2>1. mut.verdict # "PASS"
    BY <1>1, <1>2, MutantList DEF MutInv
  <2>2. Mutating'
    BY <1>2, <1>5 DEF Mutating
  <2>3. mut'.ok_all /\ mut'.next > 0 => Baseline(tree')
    <3>1. CASE k = 0
      BY <1>1, <1>4, <1>6, <3>1
    <3>2. CASE k # 0
      <4>1. mut.ok_all /\ k > 0 => Baseline(tree)
        BY <1>2 DEF MutInv
      <4>2. QED
        BY <1>1, <1>2, <1>4, <3>2, <4>1
    <3>3. QED
      BY <3>1, <3>2
  <2>4. mut'.ok_all => \A j \in 1 .. Len(MUTANTS) :
          j < mut'.next /\ MUTANTS[j].want = "lockstep" => Caught(tree', MUTANTS[j].id)
    <3>1. SUFFICES ASSUME mut'.ok_all, NEW j \in 1 .. Len(MUTANTS), j < mut'.next,
                          MUTANTS[j].want = "lockstep"
                   PROVE  Caught(tree, MUTANTS[j].id)
      BY <1>1
    <3>2. CASE j = k
      BY <1>4, <1>7, <3>1, <3>2
    <3>3. CASE j # k
      <4>1. j < k
        BY <1>2, <1>5, <3>1, <3>3
      <4>2. mut.ok_all
        BY <1>4, <3>1
      <4>3. QED
        BY <1>2, <3>1, <4>1, <4>2 DEF MutInv
    <3>4. QED
      BY <3>2, <3>3
  <2>5. QED
    BY <1>1, <1>5, <2>1, <2>2, <2>3, <2>4 DEF MutInv
<1>12. QED
  BY <1>8, <1>9, <1>10, <1>11 DEF Inv

LEMMA SummaryStep ==
  ASSUME Inv, Summary
  PROVE  Inv'
<1>1. /\ l1.pc = "idle" /\ mut.next = Len(MUTANTS) + 1 /\ mut.verdict = "none"
      /\ mut' = [mut EXCEPT !.verdict = Pass(mut.ok_all)]
      /\ UNCHANGED << tree, copy, built, work, l1, changes >>
  BY DEF Summary, At
<1>2. MutInv /\ TypesInv /\ Mutating /\ ~ mut.started /\ mut.ok_all \in BOOLEAN
  BY <1>1, MutantList DEF Inv, MutInv, TypesInv, RegressionTypeOK, Mutating
<1>3. /\ mut'.next = mut.next /\ mut'.started = mut.started /\ mut'.ok_all = mut.ok_all
      /\ mut'.verdict = Pass(mut.ok_all) /\ DOMAIN mut' = DOMAIN mut
  BY <1>1, <1>2 DEF TypesInv
<1>4. mut'.verdict \in Verdict /\ (mut'.verdict = "PASS" => mut.ok_all)
  BY <1>2, <1>3 DEF Pass, Verdict
<1>5. TypesInv'
  BY <1>1, <1>2, <1>3, <1>4 DEF TypesInv, RegressionTypeOK
<1>6. ResultsInv'
  BY <1>1 DEF Inv, ResultsInv
<1>7. LoopInv'
  BY <1>1 DEF LoopInv, Loop
<1>8. MutInv'
  <2>1. Mutating'
    BY <1>2, <1>3 DEF Mutating
  <2>2. QED
    BY <1>1, <1>2, <1>3, <1>4, <2>1 DEF MutInv
<1>9. QED
  BY <1>5, <1>6, <1>7, <1>8 DEF Inv

-----------------------------------------------------------------------------
LEMMA Initially == Init => Inv
<1> SUFFICES ASSUME Init PROVE Inv
  OBVIOUS
<1>1. /\ tree \in Trees /\ copy = tree /\ l1 = Idle /\ changes = 0
      /\ mut \in [next : {-1, 0}, ok_all : {TRUE}, started : {FALSE}, verdict : {"none"}]
      /\ DOMAIN work = Programs
      /\ \A p \in Programs : DOMAIN work[p] = {"log", "out", "core"}
  BY DEF Init
<1>2. MaxChanges \in Nat
  BY RegressionAssumption
<1>3. /\ mut.next \in {-1, 0} /\ mut.ok_all = TRUE /\ mut.started = FALSE
      /\ mut.verdict = "none" /\ DOMAIN mut = {"next", "ok_all", "started", "verdict"}
  BY <1>1
<1>4. Typed(copy)
  BY <1>1, TreesAreTyped
<1>5. IsElfs(built.elf) /\ DOMAIN built = {"elf", "merged"}
  BY RegressionAssumption DEF Init, NothingBuilt
<1>6. /\ l1.pc = "idle" /\ l1.i = 1 /\ l1.compared = 0 /\ l1.fail = FALSE
      /\ DOMAIN l1 = {"pc", "i", "rc", "compared", "fail", "results"}
      /\ l1.results = [c \in CHECKS |-> "none"]
  BY <1>1, IdleFacts
<1>7. TypesInv
  <2>1. l1.results \in [CHECKS -> Verdict]
    BY <1>6 DEF Verdict
  <2>2. FreshTypes(l1)
    BY <1>6, <2>1, FreshIsTyped, Zenon
  <2>3. mut.ok_all \in BOOLEAN /\ mut.started \in BOOLEAN
    BY <1>3, Zenon
  <2>4. mut.next \in -1 .. Len(MUTANTS) + 1 /\ mut.verdict \in Verdict
    BY <1>3, MutantList DEF Verdict
  <2>5. QED
    BY <1>1, <1>2, <1>4, <1>5, <1>6, <1>3, <2>2, <2>3, <2>4
    DEF TypesInv, RegressionTypeOK, Pcs, FreshTypes
<1>8. ResultsInv
  BY <1>6 DEF ResultsInv, CHECKS
<1>9. LoopInv
  BY <1>6 DEF LoopInv, Loop
<1>10. MutInv
  BY <1>3, <1>6, MutantList DEF MutInv, Mutating
<1>11. QED
  BY <1>7, <1>8, <1>9, <1>10 DEF Inv

LEMMA InvIsKept == Inv /\ [Next]_vars => Inv'
<1> SUFFICES ASSUME Inv, [Next]_vars PROVE Inv'
  OBVIOUS
<1>1. CASE UNCHANGED vars
  BY <1>1 DEF vars, Inv, TypesInv, RegressionTypeOK, ResultsInv, LoopInv, MutInv,
              Mutating, Ran, Prog
<1>2. CASE L1Step
  BY <1>2, CleanStep, CheckElfsStep, SwBuildStep, DeleteStep, RunSailStep, JudgeStep,
     RunCoreStep, CompareStep, CountStep, CoverageStep, ClassifyStep, EndL1Step, Zenon
  DEF L1Step
<1>3. CASE ~ UNCHANGED vars /\ ~ L1Step
  BY <1>3, RunL1Step, EditStep, InterruptStep, StartMutantStep, EndMutantStep, SummaryStep,
     Zenon DEF Next
<1>4. QED
  BY <1>1, <1>2, <1>3

LEMMA InvHolds == Spec => []Inv
  BY Initially, InvIsKept, PTL DEF Spec

(* RegressionTypeOK for every instance.                                    *)
THEOREM RegressionTypeIsOK == Spec => []RegressionTypeOK
<1>1. Inv => RegressionTypeOK
  BY DEF Inv, TypesInv
<1>2. QED
  BY <1>1, InvHolds, PTL

LEMMA LockOkMeansAgreement ==
  ASSUME NEW t, Typed(t), NEW elf, IsElfs(elf), LockOk(t, elf)
  PROVE  \A p \in Programs : Agrees(t, elf, p)
BY OkMeansAgreement, Zenon DEF LockOk

(* LockstepMeansAgreement for every set of programs, every trace and every *)
(* history: a run of lockstep that passes has read the traces of this very *)
(* run, Sail's of the .elf that is there, and they agree                   *)
(* (run_lockstep.sh:47-129, compare.py); after a pass of swbuild that is   *)
(* the source of this tree, and its .hex (build_sw_tests.sh:25-48).        *)
THEOREM PassIsAgreement == Spec => []LockstepMeansAgreement
<1>1. Inv => LockstepMeansAgreement
  <2> SUFFICES ASSUME Inv, l1.results["lockstep"] = "PASS"
               PROVE  /\ \A p \in Programs : Agrees(copy, built.elf, p)
                      /\ l1.results["swbuild"] = "PASS" =>
                           copy.drift = {} /\ built.elf = copy.source
    BY DEF LockstepMeansAgreement
  <2>1. /\ LockOk(copy, built.elf)
        /\ l1.results["swbuild"] = "PASS" => copy.drift = {} /\ built.elf = copy.source
    BY DEF Inv, ResultsInv
  <2>2. Typed(copy) /\ IsElfs(built.elf)
    BY DEF Inv, TypesInv, RegressionTypeOK
  <2>3. QED
    BY <2>1, <2>2, LockOkMeansAgreement, Zenon
<1>2. QED
  BY <1>1, InvHolds, PTL

(* SailMutantsAreCaught for every set of programs of which one ends        *)
(* SUCCESS and one FAILURE under Sail (mutate_l1.py:50-64).                *)
THEOREM StandInsAreCaught == Spec => []SailMutantsAreCaught
<1>1. Inv => SailMutantsAreCaught
  <2> SUFFICES ASSUME Inv, copy.model # "pinned", l1.results["lockstep"] # "none",
                      NEW p \in DOMAIN built.elf,
                      copy.sail[built.elf[p]].out = << "SUCCESS" >>,
                      NEW q \in DOMAIN built.elf,
                      copy.sail[built.elf[q]].out = << "FAILURE" >>
               PROVE  l1.results["lockstep"] = "FAIL"
    BY DEF SailMutantsAreCaught
  <2>1. /\ Typed(copy) /\ l1.results["lockstep"] \in Verdict
        /\ IsElfs(built.elf) /\ p \in Programs /\ q \in Programs
    BY DEF Inv, TypesInv, RegressionTypeOK, CHECKS, IsElfs
  <2>2. ~ OkRun(copy, built.elf, p) \/ ~ OkRun(copy, built.elf, q)
    BY <2>1, StandInIsCaught, Zenon
  <2>3. ~ LockOk(copy, built.elf)
    BY <2>1, <2>2, Zenon DEF LockOk
  <2>4. QED
    BY <2>1, <2>3 DEF Inv, ResultsInv, Verdict
<1>2. QED
  BY <1>1, InvHolds, PTL

(* A mutant of $SAIL that is caught is not what the tree has already.      *)
LEMMA CaughtIsDifferent ==
  ASSUME NEW t \in Trees, Baseline(t),
         \A k \in 3 .. 7 : Caught(t, MUTANTS[k].id)
  PROVE  t.model = "pinned"
<1>1. Typed(t) /\ "model" \in DOMAIN t /\ \A x : t.model = x => t = [t EXCEPT !.model = x]
  BY TreesAreTyped, RegressionAssumption DEF IsTree
<1>2. LockOk(t, t.source) /\ t.drift = {} /\ IsElfs(t.source)
  BY <1>1 DEF Baseline, Typed, IsElfs
<1>3. ASSUME NEW id, Mutated(t, id) = t
      PROVE  ~ Caught(t, id)
  <2>1. Built(t) = t.source
    <3>1. Programs \ t.drift = Programs
      BY <1>2
    <3>2. QED
      BY <1>1, <3>1, NoElfs, InstallAll DEF Built
  <2>2. QED
    BY <1>2, <1>3, <2>1, Zenon DEF Caught
<1>4. /\ Caught(t, "S1") /\ Caught(t, "S2") /\ Caught(t, "S3")
      /\ Caught(t, "S4") /\ Caught(t, "S5")
  <2>1. /\ Caught(t, MUTANTS[3].id) /\ Caught(t, MUTANTS[4].id) /\ Caught(t, MUTANTS[5].id)
        /\ Caught(t, MUTANTS[6].id) /\ Caught(t, MUTANTS[7].id)
    OBVIOUS
  <2>2. QED
    BY <2>1, MutantList, Zenon
<1>5. /\ t.model = "missing" => Mutated(t, "S1") = t
      /\ t.model = "true"    => Mutated(t, "S2") = t
      /\ t.model = "exit1"   => Mutated(t, "S3") = t
      /\ t.model = "exit0"   => Mutated(t, "S4") = t
      /\ t.model = "silent0" => Mutated(t, "S5") = t
  <2>1. /\ Mutated(t, "S1") = [t EXCEPT !.model = "missing"]
        /\ Mutated(t, "S2") = [t EXCEPT !.model = "true"]
        /\ Mutated(t, "S3") = [t EXCEPT !.model = "exit1"]
        /\ Mutated(t, "S4") = [t EXCEPT !.model = "exit0"]
        /\ Mutated(t, "S5") = [t EXCEPT !.model = "silent0"]
    BY MutantsAreTyped DEF MutantIds
  <2>2. QED
    BY <1>1, <2>1, Zenon
<1>6. t.model # "untraced"
  <2>1. SUFFICES ASSUME t.model = "untraced" PROVE FALSE
    OBVIOUS
  <2>2. PICK p \in Programs : TRUE
    BY ProgramFacts
  <2>3. ~ Traced(SailRun(t, t.source, p))
    BY <1>1, <1>2, <2>1, SailRunFacts, Zenon
  <2>4. SailOk(LogOf(SailRun(t, t.source, p)), SailRun(t, t.source, p).out,
               SailRun(t, t.source, p).rc)
    BY <1>2, Zenon DEF LockOk, OkRun
  <2>5. QED
    BY <2>3, <2>4, Zenon DEF LogOf, SailOk
<1>7. QED
  BY <1>1, <1>3, <1>4, <1>5, <1>6 DEF Typed, Models

(* MutatePassIsHealthy for every instance: PASS of MUTATE_L1 vouches for   *)
(* the tree, and the mutants of $SAIL for $SAIL itself (mutate_l1.py).     *)
THEOREM MutatePassVouches == Spec => []MutatePassIsHealthy
<1>1. Inv => MutatePassIsHealthy
  <2> SUFFICES ASSUME Inv, mut.verdict = "PASS"
               PROVE  /\ tree.elfs = "intact" /\ tree.drift = {} /\ tree.model = "pinned"
                      /\ \A p \in Programs : Agrees(tree, tree.source, p)
                      /\ Passing(tree, tree.source) = CovRuns
    BY DEF MutatePassIsHealthy
  <2>1. Mutating /\ mut.ok_all /\ mut.next = 12
    BY MutantList DEF Inv, MutInv
  <2>2. Baseline(tree)
    BY <2>1 DEF Inv, MutInv
  <2>3. \A k \in 3 .. 7 : Caught(tree, MUTANTS[k].id)
    BY <2>1, MutantList DEF Inv, MutInv
  <2>4. tree \in Trees
    BY DEF Inv, TypesInv
  <2>5. tree.model = "pinned"
    BY <2>2, <2>3, <2>4, CaughtIsDifferent
  <2>6. \A p \in Programs : Agrees(tree, tree.source, p)
    <3>1. Typed(tree) /\ LockOk(tree, tree.source)
      BY <2>2, <2>4, TreesAreTyped DEF Baseline
    <3>2. IsElfs(tree.source)
      BY <3>1 DEF Typed, IsElfs
    <3>3. QED
      BY <3>1, <3>2, LockOkMeansAgreement, Zenon
  <2>7. QED
    BY <2>2, <2>5, <2>6 DEF Baseline
<1>2. QED
  BY <1>1, InvHolds, PTL

-----------------------------------------------------------------------------
(* Coverage data. A merged file stands for the lines it was merged from.   *)
Like(a, b) == a.k = b.k /\ (a.k = "point" => a.key = b.key)

Stands(recs, keys, S) ==
  /\ recs \in Seq(LineOf(keys))
  /\ \A l \in S : \E i \in DOMAIN recs : Like(recs[i], l)
  /\ \A i \in DOMAIN recs : \E l \in S : Like(recs[i], l)
  /\ \A i, j \in DOMAIN recs : recs[i].k = "point" /\ Like(recs[i], recs[j]) => i = j
  /\ \A i \in DOMAIN recs : recs[i].k = "point" =>
       (recs[i].count > 0 <=> \E l \in S : Like(recs[i], l) /\ l.count > 0)

LEMMA LineFacts ==
  ASSUME NEW keys, NEW l \in LineOf(keys)
  PROVE  /\ l.k \in {"junk", "point"}
         /\ l.k = "junk" <=> l = Junk
         /\ l.k = "point" => l.key \in keys /\ l.count \in Nat
BY DEF LineOf, Junk

LEMMA MergeLineStands ==
  ASSUME NEW keys, NEW S \in SUBSET LineOf(keys), NEW recs, Stands(recs, keys, S),
         NEW l \in LineOf(keys)
  PROVE  Stands(MergeLine(recs, l), keys, S \cup {l})
<1> DEFINE n    == Len(recs)
           new  == MergeLine(recs, l)
           same == {i \in DOMAIN recs : SameRecord(recs[i], l)}
           T    == S \cup {l}
<1>1. recs \in Seq(LineOf(keys)) /\ n \in Nat /\ DOMAIN recs = 1 .. n
  BY DEF Stands
<1>2. \A i \in 1 .. n : recs[i] \in LineOf(keys)
  BY <1>1
<1>3. CASE same = {}
  <2>1. new = Append(recs, l)
    BY <1>3 DEF MergeLine
  <2>2. /\ new \in Seq(LineOf(keys)) /\ DOMAIN new = 1 .. n + 1
        /\ new[n + 1] = l /\ \A i \in 1 .. n : new[i] = recs[i]
    BY <1>1, <2>1
  <2> HIDE DEF new
  <2>3. \A i \in 1 .. n : ~ (recs[i].k = "point" /\ Like(recs[i], l))
    BY <1>1, <1>3 DEF SameRecord, Like
  <2>4. \A x \in T : \E i \in DOMAIN new : Like(new[i], x)
    <3>1. SUFFICES ASSUME NEW x \in T PROVE \E i \in 1 .. n + 1 : Like(new[i], x)
      BY <2>2
    <3>2. CASE x = l
      <4>1. n + 1 \in 1 .. n + 1 /\ Like(new[n + 1], x)
        BY <1>1, <2>2, <3>2 DEF Like
      <4>2. QED
        BY <4>1
    <3>3. CASE x \in S
      <4>1. PICK i \in 1 .. n : Like(recs[i], x)
        BY <1>1, <3>3 DEF Stands
      <4>2. i \in 1 .. n + 1
        BY <1>1
      <4>3. QED
        BY <2>2, <4>1, <4>2
    <3>4. QED
      BY <3>1, <3>2, <3>3
  <2>5. \A i \in DOMAIN new : \E x \in T : Like(new[i], x)
    <3>1. SUFFICES ASSUME NEW i \in 1 .. n + 1 PROVE \E x \in T : Like(new[i], x)
      BY <2>2
    <3>2. CASE i = n + 1
      BY <2>2, <3>2 DEF Like
    <3>3. CASE i \in 1 .. n
      BY <1>1, <2>2, <3>3 DEF Stands
    <3>4. QED
      BY <1>1, <3>2, <3>3
  <2>6. \A i, j \in DOMAIN new : new[i].k = "point" /\ Like(new[i], new[j]) => i = j
    <3>1. SUFFICES ASSUME NEW i \in 1 .. n + 1, NEW j \in 1 .. n + 1,
                          new[i].k = "point", Like(new[i], new[j])
                   PROVE  i = j
      BY <2>2
    <3>2. Like(new[j], new[i]) /\ new[j].k = "point"
      BY <3>1 DEF Like
    <3>3. i \in 1 .. n /\ j \in 1 .. n => i = j
      BY <1>1, <2>2, <3>1 DEF Stands
    <3>4. ~ (i \in 1 .. n /\ j = n + 1) /\ ~ (j \in 1 .. n /\ i = n + 1)
      BY <2>2, <2>3, <3>1, <3>2
    <3>5. QED
      BY <1>1, <3>3, <3>4
  <2>7. \A i \in DOMAIN new : new[i].k = "point" =>
          (new[i].count > 0 <=> \E x \in T : Like(new[i], x) /\ x.count > 0)
    <3>1. SUFFICES ASSUME NEW i \in 1 .. n + 1, new[i].k = "point"
                   PROVE  new[i].count > 0 <=> \E x \in T : Like(new[i], x) /\ x.count > 0
      BY <2>2
    <3>2. CASE i = n + 1
      <4>1. new[i] = l /\ Like(l, l)
        BY <2>2, <3>2 DEF Like
      <4>2. \A x \in S : ~ Like(l, x)
        <5>1. SUFFICES ASSUME NEW x \in S, Like(l, x) PROVE FALSE
          OBVIOUS
        <5>2. PICK j \in 1 .. n : Like(recs[j], x)
          BY <1>1 DEF Stands
        <5>3. recs[j].k = "point" /\ Like(recs[j], l)
          BY <3>1, <4>1, <5>1, <5>2 DEF Like
        <5>4. QED
          BY <2>3, <5>3
      <4>3. QED
        BY <4>1, <4>2
    <3>3. CASE i \in 1 .. n
      <4>1. ~ Like(new[i], l)
        BY <2>2, <2>3, <3>1, <3>3
      <4>2. new[i].count > 0 <=> \E x \in S : Like(new[i], x) /\ x.count > 0
        BY <1>1, <2>2, <3>1, <3>3 DEF Stands
      <4>3. QED
        BY <4>1, <4>2
    <3>4. QED
      BY <1>1, <3>2, <3>3
  <2>8. QED
    BY <2>2, <2>4, <2>5, <2>6, <2>7 DEF Stands, new
<1>4. CASE same # {}
  <2> DEFINE c == CHOOSE i \in same : TRUE
             r == CovLine(l.key, recs[c].count + l.count)
  <2>1. c \in same
    BY <1>4
  <2> HIDE DEF c
  <2>2. /\ c \in 1 .. n /\ recs[c].k = "point" /\ l.k = "point" /\ recs[c].key = l.key
        /\ Like(recs[c], l)
    BY <1>1, <2>1 DEF SameRecord, Like
  <2>3. recs[c] \in LineOf(keys) /\ recs[c].count \in Nat /\ l.count \in Nat /\ l.key \in keys
    BY <1>2, <2>2, LineFacts
  <2>4. recs[c] \in [k : {"point"}, key : keys, count : Nat]
    BY <2>2, <2>3 DEF LineOf, Junk
  <2>5. [recs[c] EXCEPT !.count = @ + l.count] = r
    BY <2>2, <2>4 DEF CovLine
  <2>6. new = [recs EXCEPT ![c] = r]
    <3>1. new = [recs EXCEPT ![c].count = @ + l.count]
      BY <1>4 DEF MergeLine, c
    <3>2. [recs EXCEPT ![c].count = @ + l.count]
            = [recs EXCEPT ![c] = [recs[c] EXCEPT !.count = @ + l.count]]
      OBVIOUS
    <3> HIDE DEF new, r
    <3>3. QED
      BY <2>5, <3>1, <3>2
  <2>7. /\ r \in LineOf(keys) /\ r.k = "point" /\ r.key = l.key
        /\ r.count = recs[c].count + l.count
    BY <2>3 DEF LineOf, CovLine
  <2> HIDE DEF r, new
  <2>8. /\ new \in Seq(LineOf(keys)) /\ DOMAIN new = 1 .. n
        /\ \A i \in 1 .. n : new[i] = IF i = c THEN r ELSE recs[i]
    <3>1. /\ new \in Seq(LineOf(keys)) /\ Len(new) = n
          /\ \A i \in 1 .. n : new[i] = IF i = c THEN r ELSE recs[i]
      BY <1>1, <2>2, <2>6, <2>7, ExceptSeq
    <3>2. QED
      BY <3>1
  <2>9. \A i \in 1 .. n : \A x : /\ Like(new[i], x) <=> Like(recs[i], x)
                                 /\ Like(x, new[i]) <=> Like(x, recs[i])
                                 /\ new[i].k = recs[i].k
    BY <2>2, <2>7, <2>8 DEF Like
  <2>10. \A x \in T : \E i \in DOMAIN new : Like(new[i], x)
    <3>1. SUFFICES ASSUME NEW x \in T PROVE \E i \in 1 .. n : Like(recs[i], x)
      BY <2>8, <2>9
    <3>2. CASE x = l
      BY <2>2, <3>2
    <3>3. CASE x \in S
      BY <1>1, <3>3 DEF Stands
    <3>4. QED
      BY <3>1, <3>2, <3>3
  <2>11. \A i \in DOMAIN new : \E x \in T : Like(new[i], x)
    <3>1. \A i \in 1 .. n : \E x \in S : Like(recs[i], x)
      BY <1>1 DEF Stands
    <3>2. QED
      BY <2>8, <2>9, <3>1
  <2>12. \A i, j \in DOMAIN new : new[i].k = "point" /\ Like(new[i], new[j]) => i = j
    <3>1. \A i, j \in 1 .. n : recs[i].k = "point" /\ Like(recs[i], recs[j]) => i = j
      BY <1>1 DEF Stands
    <3>2. QED
      BY <2>8, <2>9, <3>1
  <2>13. \A i \in DOMAIN new : new[i].k = "point" =>
           (new[i].count > 0 <=> \E x \in T : Like(new[i], x) /\ x.count > 0)
    <3>1. SUFFICES ASSUME NEW i \in 1 .. n, recs[i].k = "point"
                   PROVE  new[i].count > 0 <=> \E x \in T : Like(recs[i], x) /\ x.count > 0
      BY <2>8, <2>9
    <3>2. recs[i].count > 0 <=> \E x \in S : Like(recs[i], x) /\ x.count > 0
      BY <1>1, <3>1 DEF Stands
    <3>3. CASE i = c
      <4>1. new[i].count = recs[c].count + l.count /\ Like(recs[i], l)
        BY <2>2, <2>7, <2>8, <3>3
      <4>2. new[i].count > 0 <=> recs[c].count > 0 \/ l.count > 0
        BY <2>3, <4>1
      <4>3. QED
        BY <3>2, <3>3, <4>1, <4>2
    <3>4. CASE i # c
      <4>1. ~ Like(recs[i], l)
        <5>1. SUFFICES ASSUME Like(recs[i], l) PROVE FALSE
          OBVIOUS
        <5>2. Like(recs[c], recs[i])
          BY <2>2, <5>1 DEF Like
        <5>3. QED
          BY <1>1, <2>2, <3>4, <5>2 DEF Stands
      <4>2. QED
        BY <2>8, <3>2, <3>4, <4>1
    <3>5. QED
      BY <3>3, <3>4
  <2>14. QED
    BY <2>8, <2>10, <2>11, <2>12, <2>13 DEF Stands, new
<1>5. QED
  BY <1>3, <1>4

RowsOf(s) == {s[i] : i \in DOMAIN s}

(* The recursion of MergeFile has a solution, which merges line by line.   *)
LEMMA MergeFileStands ==
  ASSUME NEW keys, NEW S \in SUBSET LineOf(keys), NEW recs, Stands(recs, keys, S),
         NEW lines \in Seq(LineOf(keys))
  PROVE  Stands(MergeFile(recs, lines), keys, S \cup RowsOf(lines))
<1> DEFINE n     == Len(lines)
           GoodAt(m) == {x \in Seq(LineOf(keys)) :
                         Stands(x, keys, S \cup {lines[i] : i \in 1 .. m})}
           St    == Seq(LineOf(keys))
           step  == [i \in 1 .. n |-> [x \in St |->
                       IF x \in GoodAt(i - 1) THEN MergeLine(x, lines[i]) ELSE x]]
           Eq(f) == f = [i \in 0 .. n |-> IF i = 0 THEN recs ELSE MergeLine(f[i - 1], lines[i])]
           f     == CHOOSE g : Eq(g)
<1>1. n \in Nat /\ recs \in St /\ DOMAIN lines = 1 .. n
  BY DEF Stands
<1>2. \A i \in 1 .. n : lines[i] \in LineOf(keys)
  BY <1>1
<1>3. \A i \in 1 .. n : \A x \in GoodAt(i - 1) : MergeLine(x, lines[i]) \in GoodAt(i)
  <2>1. SUFFICES ASSUME NEW i \in 1 .. n, NEW x \in GoodAt(i - 1)
                 PROVE  MergeLine(x, lines[i]) \in GoodAt(i)
    OBVIOUS
  <2> DEFINE P == S \cup {lines[j] : j \in 1 .. i - 1}
             Q == S \cup {lines[j] : j \in 1 .. i}
  <2>2. P \subseteq LineOf(keys) /\ Stands(x, keys, P) /\ lines[i] \in LineOf(keys)
    <3>1. \A j \in 1 .. i - 1 : lines[j] \in LineOf(keys)
      BY <1>1, <1>2
    <3>2. P \subseteq LineOf(keys)
      BY <3>1
    <3>3. QED
      BY <1>2, <2>1, <3>2
  <2>3. Q = P \cup {lines[i]}
    <3>1. 1 .. i = 1 .. i - 1 \cup {i}
      BY <1>1
    <3>2. QED
      BY <3>1
  <2> HIDE DEF P
  <2>4. Stands(MergeLine(x, lines[i]), keys, P \cup {lines[i]})
    BY <2>2, MergeLineStands
  <2>5. Stands(MergeLine(x, lines[i]), keys, Q)
    <3> HIDE DEF Q
    <3> QED  BY <2>3, <2>4
  <2>6. MergeLine(x, lines[i]) \in Seq(LineOf(keys))
    BY <2>4 DEF Stands
  <2>7. QED
    BY <2>5, <2>6
<1>4. step \in [1 .. n -> [St -> St]]
  <2>1. \A i \in 1 .. n : \A x \in GoodAt(i - 1) : MergeLine(x, lines[i]) \in St
    BY <1>3
  <2> HIDE DEF GoodAt, St
  <2>2. QED
    BY <2>1
<1>5. recs \in GoodAt(0)
  <2>1. S \cup {lines[i] : i \in 1 .. 0} = S
    OBVIOUS
  <2>2. QED
    BY <1>1, <2>1
<1>6. PICK g : IsRun(g, St, recs, n, step)
  <2> HIDE DEF step, St, n
  <2> QED  BY <1>1, <1>4, FoldExists, Zenon
<1> HIDE DEF GoodAt
<1>7. \A i \in 0 .. n : g[i] \in GoodAt(i)
  <2> DEFINE U == {i \in 0 .. n : g[i] \in GoodAt(i)}
  <2>1. 0 \in U
    BY <1>1, <1>5, <1>6 DEF IsRun
  <2>2. \A i \in 0 .. n - 1 : i \in U => i + 1 \in U
    <3>1. SUFFICES ASSUME NEW i \in 0 .. n - 1, g[i] \in GoodAt(i)
                   PROVE  g[i + 1] \in GoodAt(i + 1)
      OBVIOUS
    <3>2. i + 1 \in 1 .. n /\ i + 1 - 1 = i /\ i \in 0 .. n
      BY <1>1
    <3>3. g[i + 1] = step[i + 1][g[i]] /\ g[i] \in St
      <4> HIDE DEF step, St, n
      <4> QED  BY <1>6, <3>2 DEF IsRun
    <3>4. g[i + 1] = MergeLine(g[i], lines[i + 1])
      BY <3>1, <3>2, <3>3
    <3>5. QED
      BY <1>3, <3>1, <3>2, <3>4
  <2> HIDE DEF U, St, step
  <2>3. \A i \in 0 .. n : i \in U
    BY <1>1, <2>1, <2>2, Induction
  <2>4. QED
    BY <2>3 DEF U
<1>8. \A i \in 1 .. n : g[i] = MergeLine(g[i - 1], lines[i])
  <2>1. SUFFICES ASSUME NEW i \in 1 .. n PROVE g[i] = MergeLine(g[i - 1], lines[i])
    OBVIOUS
  <2>2. i - 1 \in 0 .. n
    BY <1>1
  <2>3. g[i] = step[i][g[i - 1]] /\ g[i - 1] \in St
    <3> HIDE DEF step, St, n
    <3> QED  BY <1>6, <2>1, <2>2 DEF IsRun
  <2>4. g[i - 1] \in GoodAt(i - 1)
    BY <1>7, <2>2
  <2>5. QED
    BY <2>3, <2>4
<1>9. Eq(g)
  <2> HIDE DEF step, St
  <2> QED  BY <1>1, <1>6, <1>8 DEF IsRun
<1>10. Eq(f)
  <2> HIDE DEF Eq
  <2> QED  BY <1>9
<1>11. MergeFile(recs, lines) = f[n]
  BY DEF MergeFile
<1> HIDE DEF f, step
<1>12. \A i \in 0 .. n : f[i] = g[i]
  <2> DEFINE U == {i \in 0 .. n : f[i] = g[i]}
  <2>1. 0 \in U
    BY <1>1, <1>9, <1>10
  <2>2. \A i \in 0 .. n - 1 : i \in U => i + 1 \in U
    <3>1. SUFFICES ASSUME NEW i \in 0 .. n - 1, f[i] = g[i] PROVE f[i + 1] = g[i + 1]
      OBVIOUS
    <3>2. i + 1 \in 1 .. n /\ i + 1 \in 0 .. n /\ i + 1 - 1 = i /\ i + 1 # 0
      BY <1>1
    <3>3. f[i + 1] = MergeLine(f[i], lines[i + 1]) /\ g[i + 1] = MergeLine(g[i], lines[i + 1])
      BY <1>9, <1>10, <3>2
    <3>4. QED
      BY <3>1, <3>3
  <2> HIDE DEF U, Eq
  <2>3. \A i \in 0 .. n : i \in U
    BY <1>1, <2>1, <2>2, Induction
  <2>4. QED
    BY <2>3 DEF U
<1>13. MergeFile(recs, lines) \in GoodAt(n)
  <2> HIDE DEF Eq
  <2> QED  BY <1>1, <1>7, <1>11, <1>12
<1>14. QED
  BY <1>1, <1>13 DEF GoodAt, RowsOf

(* No line is lost by the merge, and no count.                             *)
FileSets(keys, n) == [1 .. n -> Seq(LineOf(keys))]
AllRows(files, n) == UNION {RowsOf(files[r]) : r \in 1 .. n}

LEMMA MergeFilesStands ==
  ASSUME NEW keys, NEW n \in Nat, NEW files \in FileSets(keys, n)
  PROVE  Stands(MergeFiles(files), keys, AllRows(files, n))
<1> DEFINE Of(r)   == RowsOf(files[r])
           Upto(m) == UNION {Of(r) : r \in 1 .. m}
           St      == Seq(LineOf(keys))
           GoodAt(m) == {x \in St : Stands(x, keys, Upto(m))}
           step    == [i \in 1 .. n |-> [x \in St |->
                         IF x \in GoodAt(i - 1) THEN MergeFile(x, files[i]) ELSE x]]
           base    == << >>
           Eq(f) == f = [i \in 0 .. n |-> IF i = 0 THEN base ELSE MergeFile(f[i - 1], files[i])]
           f     == CHOOSE g : Eq(g)
<1>1. n \in Nat /\ base \in St /\ Len(files) = n
  <2>1. files \in Seq(St)
    BY SeqDef DEF FileSets
  <2>2. files \in [1 .. n -> St]
    BY DEF FileSets
  <2>3. QED
    BY <2>1, <2>2
<1>2. \A i \in 1 .. n : files[i] \in St /\ Of(i) \subseteq LineOf(keys)
  <2>1. SUFFICES ASSUME NEW i \in 1 .. n
                 PROVE  files[i] \in St /\ Of(i) \subseteq LineOf(keys)
    OBVIOUS
  <2> DEFINE s == files[i]
  <2>2. s \in Seq(LineOf(keys))
    BY DEF FileSets
  <2> HIDE DEF s
  <2>3. \A j \in DOMAIN s : s[j] \in LineOf(keys)
    BY <2>2
  <2>4. QED
    BY <2>2, <2>3 DEF s, RowsOf
<1>3. \A i \in 1 .. n : \A x \in GoodAt(i - 1) : MergeFile(x, files[i]) \in GoodAt(i)
  <2>1. SUFFICES ASSUME NEW i \in 1 .. n, NEW x \in GoodAt(i - 1)
                 PROVE  MergeFile(x, files[i]) \in GoodAt(i)
    OBVIOUS
  <2>2. Upto(i) = Upto(i - 1) \cup Of(i)
    <3>1. 1 .. i = 1 .. i - 1 \cup {i}
      BY <1>1
    <3> HIDE DEF Of
    <3>2. QED
      BY <3>1
  <2>3. Upto(i - 1) \subseteq LineOf(keys) /\ Stands(x, keys, Upto(i - 1))
    <3>1. \A j \in 1 .. i - 1 : j \in 1 .. n
      BY <1>1
    <3>2. \A j \in 1 .. i - 1 : Of(j) \subseteq LineOf(keys)
      BY <1>2, <3>1
    <3> HIDE DEF Of
    <3>3. QED
      BY <3>2
  <2> HIDE DEF Upto
  <2>4. Stands(MergeFile(x, files[i]), keys, Upto(i - 1) \cup Of(i))
    <3> DEFINE s == files[i]
    <3>1. s \in Seq(LineOf(keys))
      BY <1>2
    <3> HIDE DEF s
    <3>2. Stands(MergeFile(x, s), keys, Upto(i - 1) \cup RowsOf(s))
      <4> DEFINE S == Upto(i - 1)
      <4>1. S \in SUBSET LineOf(keys) /\ Stands(x, keys, S)
        BY <2>3
      <4> HIDE DEF S
      <4>2. Stands(MergeFile(x, s), keys, S \cup RowsOf(s))
        BY <3>1, <4>1, MergeFileStands, Zenon
      <4>3. QED
        BY <4>2 DEF S
    <3>3. QED
      BY <3>2 DEF s
  <2>5. MergeFile(x, files[i]) \in St
    BY <2>4 DEF Stands
  <2> HIDE DEF Of, St
  <2>6. QED
    BY <2>2, <2>4, <2>5
<1>4. step \in [1 .. n -> [St -> St]]
  <2>1. \A i \in 1 .. n : \A x \in GoodAt(i - 1) : MergeFile(x, files[i]) \in St
    BY <1>3
  <2> HIDE DEF GoodAt, St
  <2>2. QED
    BY <2>1
<1>5. base \in GoodAt(0)
  <2>1. Upto(0) = {}
    OBVIOUS
  <2> HIDE DEF Upto
  <2>2. Stands(base, keys, {})
    <3>1. DOMAIN base = {}
      OBVIOUS
    <3>2. QED
      BY <1>1, <3>1 DEF Stands
  <2>3. QED
    BY <1>1, <2>1, <2>2
<1>6. PICK g : IsRun(g, St, base, n, step)
  <2> HIDE DEF step, St, base
  <2> QED  BY <1>1, <1>4, FoldExists, Zenon
<1> HIDE DEF GoodAt, base
<1>7. \A i \in 0 .. n : g[i] \in GoodAt(i)
  <2> DEFINE U == {i \in 0 .. n : g[i] \in GoodAt(i)}
  <2>1. 0 \in U
    BY <1>1, <1>5, <1>6 DEF IsRun
  <2>2. \A i \in 0 .. n - 1 : i \in U => i + 1 \in U
    <3>1. SUFFICES ASSUME NEW i \in 0 .. n - 1, g[i] \in GoodAt(i)
                   PROVE  g[i + 1] \in GoodAt(i + 1)
      OBVIOUS
    <3>2. i + 1 \in 1 .. n /\ i + 1 - 1 = i /\ i \in 0 .. n
      BY <1>1
    <3>3. g[i + 1] = step[i + 1][g[i]] /\ g[i] \in St
      <4> HIDE DEF step, St
      <4> QED  BY <1>6, <3>2 DEF IsRun
    <3>4. g[i + 1] = MergeFile(g[i], files[i + 1])
      BY <3>1, <3>2, <3>3
    <3>5. QED
      BY <1>3, <3>1, <3>2, <3>4
  <2> HIDE DEF U, St, step
  <2>3. \A i \in 0 .. n : i \in U
    BY <1>1, <2>1, <2>2, Induction
  <2>4. QED
    BY <2>3 DEF U
<1>8. \A i \in 1 .. n : g[i] = MergeFile(g[i - 1], files[i])
  <2>1. SUFFICES ASSUME NEW i \in 1 .. n PROVE g[i] = MergeFile(g[i - 1], files[i])
    OBVIOUS
  <2>2. i - 1 \in 0 .. n
    BY <1>1
  <2>3. g[i] = step[i][g[i - 1]] /\ g[i - 1] \in St
    <3> HIDE DEF step, St
    <3> QED  BY <1>6, <2>1, <2>2 DEF IsRun
  <2>4. g[i - 1] \in GoodAt(i - 1)
    BY <1>7, <2>2
  <2>5. QED
    BY <2>3, <2>4
<1>9. Eq(g)
  <2> HIDE DEF step, St
  <2> QED  BY <1>1, <1>6, <1>8 DEF IsRun
<1>10. Eq(f)
  <2> HIDE DEF Eq
  <2> QED  BY <1>9
<1>11. MergeFiles(files) = f[n]
  BY <1>1 DEF MergeFiles, base
<1> HIDE DEF f, step
<1>12. \A i \in 0 .. n : f[i] = g[i]
  <2> DEFINE U == {i \in 0 .. n : f[i] = g[i]}
  <2>1. 0 \in U
    BY <1>1, <1>9, <1>10
  <2>2. \A i \in 0 .. n - 1 : i \in U => i + 1 \in U
    <3>1. SUFFICES ASSUME NEW i \in 0 .. n - 1, f[i] = g[i] PROVE f[i + 1] = g[i + 1]
      OBVIOUS
    <3>2. i + 1 \in 1 .. n /\ i + 1 \in 0 .. n /\ i + 1 - 1 = i /\ i + 1 # 0
      BY <1>1
    <3>3. f[i + 1] = MergeFile(f[i], files[i + 1]) /\ g[i + 1] = MergeFile(g[i], files[i + 1])
      BY <1>9, <1>10, <3>2
    <3>4. QED
      BY <3>1, <3>3
  <2> HIDE DEF U, Eq
  <2>3. \A i \in 0 .. n : i \in U
    BY <1>1, <2>1, <2>2, Induction
  <2>4. QED
    BY <2>3 DEF U
<1>13. MergeFiles(files) \in GoodAt(n)
  <2> HIDE DEF Eq
  <2> QED  BY <1>1, <1>7, <1>11, <1>12
<1>14. QED
  BY <1>13 DEF GoodAt, AllRows

(* The sum over the records of a point is positive when one of them is.    *)
LEMMA TotalCounts ==
  ASSUME NEW keys, NEW recs \in Seq(LineOf(keys)), NEW k,
         \A i \in DOMAIN recs : recs[i].k = "point"
  PROVE  Total(recs, k) > 0 <=> \E i \in DOMAIN recs : PointKey(recs[i]) = k /\ recs[i].count > 0
<1> DEFINE n       == Len(recs)
           term(i) == IF PointKey(recs[i]) = k THEN recs[i].count ELSE 0
           step    == [i \in 1 .. n |-> [x \in Nat |-> x + term(i)]]
           Eq(f) == f = [i \in 0 .. n |-> IF i = 0 THEN 0 ELSE f[i - 1] + term(i)]
           f     == CHOOSE g : Eq(g)
<1>1. n \in Nat /\ DOMAIN recs = 1 .. n /\ 0 \in Nat
  OBVIOUS
<1>2. \A i \in 1 .. n : recs[i].count \in Nat
  <2>1. \A i \in 1 .. n : recs[i] \in LineOf(keys)
    OBVIOUS
  <2>2. QED
    BY <1>1, <2>1, LineFacts
<1>3. \A i \in 1 .. n : term(i) \in Nat
  BY <1>2
<1>4. step \in [1 .. n -> [Nat -> Nat]]
  <2> HIDE DEF term
  <2> QED  BY <1>3
<1>5. PICK g : IsRun(g, Nat, 0, n, step)
  <2> HIDE DEF step, n
  <2> QED  BY <1>1, <1>4, FoldExists, Zenon
<1>6. \A i \in 1 .. n : g[i] = g[i - 1] + term(i)
  <2>1. SUFFICES ASSUME NEW i \in 1 .. n PROVE g[i] = g[i - 1] + term(i)
    OBVIOUS
  <2>2. i - 1 \in 0 .. n
    BY <1>1
  <2>3. g[i] = step[i][g[i - 1]] /\ g[i - 1] \in Nat
    <3> HIDE DEF step, n
    <3> QED  BY <1>5, <2>1, <2>2 DEF IsRun
  <2> HIDE DEF term
  <2>4. QED
    BY <2>3
<1> HIDE DEF term, step
<1>7. Eq(g)
  BY <1>1, <1>5, <1>6 DEF IsRun
<1>8. Eq(f)
  <2> HIDE DEF Eq
  <2> QED  BY <1>7
<1>9. Total(recs, k) = f[n]
  BY DEF Total, term
<1> HIDE DEF f
<1>10. \A i \in 0 .. n : f[i] = g[i]
  <2> DEFINE U == {i \in 0 .. n : f[i] = g[i]}
  <2>1. 0 \in U
    BY <1>1, <1>7, <1>8
  <2>2. \A i \in 0 .. n - 1 : i \in U => i + 1 \in U
    <3>1. SUFFICES ASSUME NEW i \in 0 .. n - 1, f[i] = g[i] PROVE f[i + 1] = g[i + 1]
      OBVIOUS
    <3>2. i + 1 \in 1 .. n /\ i + 1 \in 0 .. n /\ i + 1 - 1 = i /\ i + 1 # 0
      BY <1>1
    <3>3. f[i + 1] = f[i] + term(i + 1) /\ g[i + 1] = g[i] + term(i + 1)
      BY <1>7, <1>8, <3>2
    <3>4. QED
      BY <3>1, <3>3
  <2> HIDE DEF U, Eq, n
  <2>3. \A i \in 0 .. n : i \in U
    BY <1>1, <2>1, <2>2, Induction
  <2>4. QED
    BY <2>3 DEF U
<1> DEFINE Hit(m) == \E i \in 1 .. m : PointKey(recs[i]) = k /\ recs[i].count > 0
<1>11. \A i \in 0 .. n : g[i] > 0 <=> Hit(i)
  <2> DEFINE U == {i \in 0 .. n : g[i] > 0 <=> Hit(i)}
  <2>1. 0 \in U
    <3>1. g[0] = 0 /\ ~ Hit(0)
      BY <1>5 DEF IsRun
    <3>2. QED
      BY <1>1, <3>1
  <2>2. \A i \in 0 .. n - 1 : i \in U => i + 1 \in U
    <3>1. SUFFICES ASSUME NEW i \in 0 .. n - 1, g[i] > 0 <=> Hit(i)
                   PROVE  g[i + 1] > 0 <=> Hit(i + 1)
      OBVIOUS
    <3>2. i + 1 \in 1 .. n /\ i + 1 - 1 = i /\ 1 .. i + 1 = 1 .. i \cup {i + 1}
          /\ i \in 0 .. n
      BY <1>1
    <3>3. g[i + 1] = g[i] + term(i + 1) /\ g[i] \in Nat /\ term(i + 1) \in Nat
      <4>1. g[i] \in Nat
        BY <1>5, <3>2 DEF IsRun
      <4>2. g[i + 1] = g[i + 1 - 1] + term(i + 1) /\ term(i + 1) \in Nat
        <5> HIDE DEF n
        <5> QED  BY <1>3, <1>6, <3>2
      <4>3. QED
        BY <3>2, <4>1, <4>2
    <3>4. term(i + 1) > 0 <=> PointKey(recs[i + 1]) = k /\ recs[i + 1].count > 0
      BY <1>2, <3>2 DEF term
    <3>5. Hit(i + 1) <=> Hit(i) \/ term(i + 1) > 0
      BY <3>2, <3>4
    <3> HIDE DEF Hit
    <3>6. QED
      BY <3>1, <3>3, <3>5
  <2> HIDE DEF U, n
  <2>3. \A i \in 0 .. n : i \in U
    BY <1>1, <2>1, <2>2, Induction
  <2>4. QED
    BY <2>3 DEF U
<1> HIDE DEF Eq
<1>12. Total(recs, k) > 0 <=> Hit(n)
  <2> HIDE DEF Hit
  <2> QED  BY <1>1, <1>9, <1>10, <1>11
<1>13. QED
  BY <1>1, <1>12

LEMMA UnionFacts ==
  ASSUME NEW recs, build_union(recs).ok
  PROVE  /\ ~ ParseFails(recs) /\ Needed(recs) /\ Unique(recs)
         /\ build_union(recs).points
              = [k \in {PointKey(recs[i]) : i \in DOMAIN recs} |-> Total(recs, k)]
<1>1. ~ NoUnion.ok
  BY DEF NoUnion
<1>2. build_union(recs) # NoUnion
  BY <1>1, Zenon
<1>3. /\ ~ ParseFails(recs) /\ Needed(recs) /\ Unique(recs)
      /\ build_union(recs) = Union(recs)
  BY <1>2, Zenon DEF build_union
<1>4. QED
  BY <1>3 DEF Union

LEMMA NoDataNoUnion == ~ build_union(NoData).ok
<1>1. ParseFails(NoData)
  BY DEF ParseFails, NoData
<1>2. build_union(NoData) = NoUnion
  BY <1>1, Zenon DEF build_union
<1>3. ~ NoUnion.ok
  BY DEF NoUnion
<1>4. QED
  BY <1>2, <1>3, Zenon

(* A record is of the point its lines are of.                              *)
LEMMA PointKeyFacts ==
  /\ \A a, b : a.key = b.key => PointKey(a) = PointKey(b)
  /\ \A l : /\ FileOf(PointKey(l)) = l.key["f"] /\ TypeOf(PointKey(l)) = rtype(l)
            /\ PointOf(PointKey(l)) = l.key["o"]
<1>1. \A a, b : a.key = b.key => PointKey(a) = PointKey(b)
  BY DEF PointKey, Get, rtype
<1>2. \A l : /\ FileOf(PointKey(l)) = l.key["f"] /\ TypeOf(PointKey(l)) = rtype(l)
            /\ PointOf(PointKey(l)) = l.key["o"]
  <2> SUFFICES ASSUME NEW l
               PROVE  /\ FileOf(PointKey(l)) = l.key["f"] /\ TypeOf(PointKey(l)) = rtype(l)
                      /\ PointOf(PointKey(l)) = l.key["o"]
    OBVIOUS
  <2> QED  BY DEF PointKey, FileOf, TypeOf, PointOf
<1>3. QED
  BY <1>1, <1>2

(* One body, one point.                                                    *)
LEMMA BodyHasKey ==
  ASSUME NEW a, NEW b, Body(a) = Body(b),
         Keys \subseteq DOMAIN a.key, Keys \subseteq DOMAIN b.key
  PROVE  /\ PointKey(a) = PointKey(b)
         /\ Body(a)["f"] = a.key["f"] /\ Body(a)["o"] = a.key["o"]
<1> DEFINE A == DOMAIN a.key \ {"h"}
           B == DOMAIN b.key \ {"h"}
<1>1. Body(a) = [x \in A |-> a.key[x]] /\ Body(b) = [x \in B |-> b.key[x]]
  BY DEF Body
<1>2. A = B /\ \A x \in A : a.key[x] = b.key[x] /\ Body(a)[x] = a.key[x]
  BY <1>1
<1>3. \A x \in {"f", "l", "o", "n", "page", "t"} : x \in DOMAIN a.key <=> x \in DOMAIN b.key
  BY <1>2
<1>4. \A x \in {"f", "l", "o", "n", "page", "t"} :
        x \in DOMAIN a.key => a.key[x] = b.key[x]
  BY <1>2
<1>5. {"f", "l", "o"} \subseteq A
  BY DEF Keys
<1>6. QED
  BY <1>2, <1>3, <1>4, <1>5 DEF PointKey, Get, rtype

(* A report that is made is about every line: no two distinct points of    *)
(* the lines share a key of the union, and none of theirs is missing.      *)
SameInstances(L) ==
  \A a, b \in L :
    /\ a.k = "point" /\ b.k = "point"
    /\ Keys \subseteq DOMAIN a.key /\ Keys \subseteq DOMAIN b.key
    /\ PointKey(a) = PointKey(b) /\ a.key["h"] # b.key["h"]
    => Body(a) = Body(b)

Reports(points, L) ==
  /\ \A l \in L : l.k = "point" /\ Keys \subseteq DOMAIN l.key
  /\ \A l \in L : PointKey(l) \in DOMAIN points
  /\ \A k \in DOMAIN points : \E l \in L : PointKey(l) = k
  /\ \A k \in DOMAIN points :
       points[k] > 0 <=> \E l \in L : PointKey(l) = k /\ l.count > 0
  /\ \A a, b \in L : PointKey(a) = PointKey(b) <=> Body(a) = Body(b)
  /\ IsFiniteSet(DOMAIN points)

LEMMA UnionReports ==
  ASSUME NEW keys, NEW L, NEW recs, Stands(recs, keys, L), build_union(recs).ok,
         SameInstances(L)
  PROVE  Reports(build_union(recs).points, L)
<1> DEFINE n      == Len(recs)
           points == build_union(recs).points
<1>1. /\ ~ ParseFails(recs) /\ Needed(recs) /\ Unique(recs)
      /\ points = [k \in {PointKey(recs[i]) : i \in DOMAIN recs} |-> Total(recs, k)]
  BY UnionFacts
<1> HIDE DEF points
<1>2. recs \in Seq(LineOf(keys)) /\ n \in Nat /\ DOMAIN recs = 1 .. n
  BY DEF Stands
<1>3. \A i \in 1 .. n : recs[i].k = "point" /\ Keys \subseteq DOMAIN recs[i].key
  <2>1. SUFFICES ASSUME NEW i \in 1 .. n
                 PROVE  recs[i].k = "point" /\ Keys \subseteq DOMAIN recs[i].key
    OBVIOUS
  <2>2. recs[i] \in LineOf(keys)
    BY <1>2
  <2>3. recs[i].k # "junk"
    BY <1>1, <1>2 DEF ParseFails
  <2>4. QED
    BY <1>1, <1>2, <2>2, <2>3, LineFacts DEF Needed
<1>4. \A l \in L : \E i \in 1 .. n :
        /\ Like(recs[i], l) /\ recs[i].key = l.key /\ l.k = "point"
        /\ PointKey(recs[i]) = PointKey(l)
  <2>1. SUFFICES ASSUME NEW l \in L
                 PROVE  \E i \in 1 .. n : /\ Like(recs[i], l) /\ recs[i].key = l.key
                                          /\ l.k = "point" /\ PointKey(recs[i]) = PointKey(l)
    OBVIOUS
  <2>2. PICK i \in 1 .. n : Like(recs[i], l)
    BY <1>2 DEF Stands
  <2>3. recs[i].key = l.key /\ l.k = "point"
    BY <1>3, <2>2 DEF Like
  <2>4. PointKey(recs[i]) = PointKey(l)
    BY <2>3, PointKeyFacts, Zenon
  <2>5. QED
    BY <2>2, <2>3, <2>4
<1>5. \A i \in 1 .. n : \A l : Like(recs[i], l) =>
        recs[i].key = l.key /\ PointKey(recs[i]) = PointKey(l)
  <2>1. SUFFICES ASSUME NEW i \in 1 .. n, NEW l, Like(recs[i], l)
                 PROVE  recs[i].key = l.key /\ PointKey(recs[i]) = PointKey(l)
    OBVIOUS
  <2>2. recs[i].key = l.key
    BY <1>3, <2>1 DEF Like
  <2>3. QED
    BY <2>2, PointKeyFacts, Zenon
<1>6. \A l \in L : l.k = "point" /\ Keys \subseteq DOMAIN l.key
  <2>1. SUFFICES ASSUME NEW l \in L PROVE l.k = "point" /\ Keys \subseteq DOMAIN l.key
    OBVIOUS
  <2>2. PICK i \in 1 .. n : recs[i].key = l.key /\ l.k = "point"
    BY <1>4
  <2>3. QED
    BY <1>3, <2>2
<1>7. /\ DOMAIN points = {PointKey(recs[i]) : i \in 1 .. n}
      /\ \A k \in DOMAIN points : points[k] = Total(recs, k)
  BY <1>1, <1>2
<1>8. \A l \in L : PointKey(l) \in DOMAIN points
  BY <1>4, <1>7
<1>9. \A k \in DOMAIN points : \E l \in L : PointKey(l) = k
  <2>1. SUFFICES ASSUME NEW i \in 1 .. n PROVE \E l \in L : PointKey(l) = PointKey(recs[i])
    BY <1>7
  <2>2. PICK l \in L : Like(recs[i], l)
    BY <1>2 DEF Stands
  <2>3. QED
    BY <1>5, <2>2
<1>10. \A k \in DOMAIN points :
         points[k] > 0 <=> \E l \in L : PointKey(l) = k /\ l.count > 0
  <2>1. SUFFICES ASSUME NEW k \in DOMAIN points
                 PROVE  points[k] > 0 <=> \E l \in L : PointKey(l) = k /\ l.count > 0
    OBVIOUS
  <2>2. points[k] > 0 <=> \E i \in 1 .. n : PointKey(recs[i]) = k /\ recs[i].count > 0
    <3>1. \A i \in DOMAIN recs : recs[i].k = "point"
      BY <1>2, <1>3
    <3>2. Total(recs, k) > 0
            <=> \E i \in DOMAIN recs : PointKey(recs[i]) = k /\ recs[i].count > 0
      BY <1>2, <3>1, TotalCounts
    <3>3. points[k] = Total(recs, k)
      BY <1>7
    <3>4. QED
      BY <1>2, <3>2, <3>3
  <2>3. \A i \in 1 .. n : recs[i].count > 0 <=> \E l \in L : Like(recs[i], l) /\ l.count > 0
    BY <1>2, <1>3 DEF Stands
  <2>4. ASSUME NEW i \in 1 .. n, PointKey(recs[i]) = k, recs[i].count > 0
        PROVE  \E l \in L : PointKey(l) = k /\ l.count > 0
    <3>1. PICK l \in L : Like(recs[i], l) /\ l.count > 0
      BY <2>3, <2>4
    <3>2. QED
      BY <1>5, <2>4, <3>1
  <2>5. ASSUME NEW l \in L, PointKey(l) = k, l.count > 0
        PROVE  \E i \in 1 .. n : PointKey(recs[i]) = k /\ recs[i].count > 0
    <3>1. PICK i \in 1 .. n : Like(recs[i], l) /\ PointKey(recs[i]) = PointKey(l)
      BY <1>4
    <3>2. recs[i].count > 0
      BY <2>3, <2>5, <3>1
    <3>3. QED
      BY <2>5, <3>1, <3>2
  <2>6. QED
    BY <2>2, <2>4, <2>5
<1>11. ASSUME NEW a \in L, NEW b \in L, PointKey(a) = PointKey(b)
       PROVE  Body(a) = Body(b)
  <2>1. CASE a.key["h"] # b.key["h"]
    BY <1>6, <1>11, <2>1 DEF SameInstances
  <2>2. CASE a.key["h"] = b.key["h"]
    <3>1. PICK i \in 1 .. n : recs[i].key = a.key /\ PointKey(recs[i]) = PointKey(a)
      BY <1>4
    <3>2. PICK j \in 1 .. n : recs[j].key = b.key /\ PointKey(recs[j]) = PointKey(b)
      BY <1>4
    <3>3. i = j
      <4>1. PointKey(recs[i]) = PointKey(recs[j]) /\ recs[i].key["h"] = recs[j].key["h"]
        BY <1>11, <2>2, <3>1, <3>2
      <4>2. QED
        BY <1>1, <1>2, <4>1 DEF Unique
    <3>4. a.key = b.key
      BY <3>1, <3>2, <3>3
    <3>5. QED
      BY <3>4 DEF Body
  <2>3. QED
    BY <2>1, <2>2
<1>12. ASSUME NEW a \in L, NEW b \in L, Body(a) = Body(b)
       PROVE  PointKey(a) = PointKey(b)
  BY <1>6, <1>12, BodyHasKey
<1>13. IsFiniteSet(DOMAIN points)
  <2> DEFINE f == [i \in 1 .. n |-> PointKey(recs[i])]
             D == DOMAIN points
  <2>1. f \in Surjection(1 .. n, D)
    <3>1. f \in [1 .. n -> D]
      BY <1>7
    <3>2. \A k \in D : \E i \in 1 .. n : f[i] = k
      BY <1>7
    <3> HIDE DEF f, D
    <3>3. QED
      BY <3>1, <3>2 DEF Surjection
  <2>2. IsFiniteSet(1 .. n)
    BY <1>2, FS_Interval
  <2> HIDE DEF f, D
  <2>3. IsFiniteSet(D)
    BY <2>1, <2>2, FS_Surjection
  <2>4. QED
    BY <2>3 DEF D
<1>14. QED
  BY <1>6, <1>8, <1>9, <1>10, <1>11, <1>12, <1>13 DEF Reports, points

(* The keys of the union and the points themselves are as many.            *)
LEMMA SameCount ==
  ASSUME NEW L, NEW A, NEW B,
         \A k \in A : \E l \in L : PointKey(l) = k,
         \A b \in B : \E l \in L : Body(l) = b,
         \A l \in L : PointKey(l) \in A <=> Body(l) \in B,
         \A a, b \in L : PointKey(a) = PointKey(b) <=> Body(a) = Body(b),
         IsFiniteSet(A)
  PROVE  IsFiniteSet(B) /\ Cardinality(B) = Cardinality(A)
<1> DEFINE line(k) == CHOOSE l \in L : PointKey(l) = k
           f == [k \in A |-> Body(line(k))]
<1>1. \A k \in A : line(k) \in L /\ PointKey(line(k)) = k
  OBVIOUS
<1> HIDE DEF line
<1>2. f \in [A -> B]
  <2>1. \A k \in A : Body(line(k)) \in B
    BY <1>1
  <2>2. QED
    BY <2>1
<1>3. \A j, k \in A : f[j] = f[k] => j = k
  BY <1>1
<1>4. \A b \in B : \E k \in A : f[k] = b
  <2>1. SUFFICES ASSUME NEW b \in B PROVE \E k \in A : f[k] = b
    OBVIOUS
  <2>2. PICK l \in L : Body(l) = b
    OBVIOUS
  <2> DEFINE k == PointKey(l)
  <2>3. k \in A
    BY <2>2
  <2>4. Body(line(k)) = Body(l)
    BY <1>1, <2>3
  <2>5. QED
    BY <2>2, <2>3, <2>4
<1> HIDE DEF f
<1>5. f \in Bijection(A, B)
  BY <1>2, <1>3, <1>4 DEF Bijection, Injection, Surjection, IsInjective
<1>6. ExistsBijection(A, B)
  BY <1>5 DEF ExistsBijection
<1>7. QED
  BY <1>6, FS_Bijection

LEMMA ReportedPoints ==
  ASSUME NEW points, NEW t, NEW runs, NEW type, Reports(points, LinesOf(t, runs))
  PROVE  LET L == LinesOf(t, runs) IN
         /\ \A l \in L : /\ PointKey(l) \in PointsUnder(points, "rtl/core/", type)
                              <=> Body(l) \in TruePoints(t, runs, type)
                         /\ PointKey(l) \in HitUnder(points, "rtl/core/", type)
                              <=> Body(l) \in TrueHits(t, runs, type)
         /\ \A k \in PointsUnder(points, "rtl/core/", type) : \E l \in L : PointKey(l) = k
         /\ \A b \in TruePoints(t, runs, type) : \E l \in L : Body(l) = b
<1> DEFINE L     == LinesOf(t, runs)
           all   == PointsUnder(points, "rtl/core/", type)
           hit   == HitUnder(points, "rtl/core/", type)
           trues == TruePoints(t, runs, type)
           hits  == TrueHits(t, runs, type)
           In1(l) == l.key["f"].dir = "rtl/core/" /\ rtype(l) = type
<1>1. trues = {Body(l) : l \in {x \in L : x.k = "point" /\ In1(x)}}
  BY DEF TruePoints
<1>2. hits = {b \in trues : \E l \in L : l.k = "point" /\ l.count > 0 /\ Body(l) = b}
  BY DEF TrueHits
<1>3. \A k : k \in all <=> k \in DOMAIN points /\ FileOf(k).dir = "rtl/core/" /\ TypeOf(k) = type
  BY DEF PointsUnder
<1>4. \A k : k \in hit <=> k \in all /\ points[k] > 0
  BY DEF HitUnder
<1> HIDE DEF L, all, hit, trues, hits, In1
<1>5. Reports(points, L)
  BY DEF L
<1>6. \A l \in L : PointKey(l) \in all <=> In1(l)
  <2>1. SUFFICES ASSUME NEW l \in L PROVE PointKey(l) \in all <=> In1(l)
    OBVIOUS
  <2>2. PointKey(l) \in DOMAIN points
    BY <1>5 DEF Reports
  <2>3. FileOf(PointKey(l)) = l.key["f"] /\ TypeOf(PointKey(l)) = rtype(l)
    BY PointKeyFacts
  <2>4. QED
    BY <1>3, <2>2, <2>3 DEF In1
<1>7. \A l \in L : Body(l) \in trues <=> In1(l)
  <2>1. SUFFICES ASSUME NEW l \in L PROVE Body(l) \in trues <=> In1(l)
    OBVIOUS
  <2>2. In1(l) => Body(l) \in trues
    BY <1>1, <1>5 DEF Reports
  <2>3. ASSUME Body(l) \in trues PROVE In1(l)
    <3>1. PICK m \in L : In1(m) /\ Body(m) = Body(l)
      BY <1>1, <2>3
    <3>2. PointKey(m) = PointKey(l)
      BY <1>5, <3>1 DEF Reports
    <3>3. QED
      BY <1>6, <3>1, <3>2
  <2>4. QED
    BY <2>2, <2>3
<1>8. \A l \in L : PointKey(l) \in hit <=> Body(l) \in hits
  <2>1. SUFFICES ASSUME NEW l \in L, In1(l) PROVE PointKey(l) \in hit <=> Body(l) \in hits
    BY <1>2, <1>4, <1>6, <1>7
  <2>2. PointKey(l) \in hit <=> \E m \in L : PointKey(m) = PointKey(l) /\ m.count > 0
    BY <1>4, <1>5, <1>6, <2>1 DEF Reports
  <2>3. Body(l) \in hits <=> \E m \in L : m.k = "point" /\ m.count > 0 /\ Body(m) = Body(l)
    BY <1>2, <1>7, <2>1
  <2>4. \A m \in L : m.k = "point" /\ (PointKey(m) = PointKey(l) <=> Body(m) = Body(l))
    BY <1>5 DEF Reports
  <2>5. QED
    BY <2>2, <2>3, <2>4
<1>9. \A k \in all : \E l \in L : PointKey(l) = k
  BY <1>3, <1>5 DEF Reports
<1>10. \A b \in trues : \E l \in L : Body(l) = b
  BY <1>1
<1>11. QED
  BY <1>6, <1>7, <1>8, <1>9, <1>10 DEF L, all, hit, trues, hits

Counted(points, t, runs, type) ==
  LET all == PointsUnder(points, "rtl/core/", type)
      hit == HitUnder(points, "rtl/core/", type)
  IN  /\ Cardinality(TruePoints(t, runs, type)) = Cardinality(all)
      /\ Cardinality(TrueHits(t, runs, type)) = Cardinality(hit)
      /\ all # {} => Cardinality(all) > 0

LEMMA ReportedCounts ==
  ASSUME NEW points, NEW t, NEW runs, NEW type, Reports(points, LinesOf(t, runs))
  PROVE  Counted(points, t, runs, type)
<1> DEFINE L     == LinesOf(t, runs)
           all   == PointsUnder(points, "rtl/core/", type)
           hit   == HitUnder(points, "rtl/core/", type)
           trues == TruePoints(t, runs, type)
           hits  == TrueHits(t, runs, type)
<1>1. /\ \A l \in L : /\ PointKey(l) \in all <=> Body(l) \in trues
                      /\ PointKey(l) \in hit <=> Body(l) \in hits
      /\ \A k \in all : \E l \in L : PointKey(l) = k
      /\ \A b \in trues : \E l \in L : Body(l) = b
  BY ReportedPoints
<1>2. /\ \A a, b \in L : PointKey(a) = PointKey(b) <=> Body(a) = Body(b)
      /\ IsFiniteSet(DOMAIN points)
  BY DEF Reports
<1>3. all \subseteq DOMAIN points /\ hit \subseteq all /\ hits \subseteq trues
  BY DEF PointsUnder, HitUnder, TrueHits
<1> HIDE DEF L, all, hit, trues, hits
<1>4. IsFiniteSet(all) /\ IsFiniteSet(hit)
  <2>1. IsFiniteSet(all)
    BY <1>2, <1>3, FS_Subset
  <2>2. QED
    BY <1>3, <2>1, FS_Subset
<1>5. Cardinality(trues) = Cardinality(all)
  <2>1. \A l \in L : PointKey(l) \in all <=> Body(l) \in trues
    BY <1>1
  <2>2. QED
    BY <1>1, <1>2, <1>4, <2>1, SameCount, Zenon
<1>6. Cardinality(hits) = Cardinality(hit)
  <2>1. /\ \A l \in L : PointKey(l) \in hit <=> Body(l) \in hits
        /\ \A k \in hit : \E l \in L : PointKey(l) = k
        /\ \A b \in hits : \E l \in L : Body(l) = b
    BY <1>1, <1>3
  <2>2. /\ IsFiniteSet(hit)
        /\ \A a, b \in L : PointKey(a) = PointKey(b) <=> Body(a) = Body(b)
    BY <1>2, <1>4
  <2>3. QED
    BY <2>1, <2>2, SameCount
<1>7. all # {} => Cardinality(all) > 0
  <2>1. Cardinality(all) \in Nat
    BY <1>4, FS_CardinalityType
  <2>2. Cardinality(all) = 0 <=> all = {}
    BY <1>4, FS_EmptySet
  <2>3. QED
    BY <2>1, <2>2
<1>8. QED
  BY <1>5, <1>6, <1>7 DEF Counted, all, hit, trues, hits

(* What run_coverage.sh merges stands for the lines of the passing runs.   *)
LEMMA RunNameFacts ==
  /\ Len(RunNames) \in Nat /\ DOMAIN RunNames = 1 .. Len(RunNames)
  /\ CovRuns = {RunNames[i] : i \in 1 .. Len(RunNames)}
<1> DEFINE s == DEFAULT_PROGS
           u == << "reset", "decoder", "act4" >>
           St == CovRuns
           n == Len(DEFAULT_PROGS)
<1>1. s \in Seq(St) /\ u \in Seq(St)
  <2>1. s \in Seq(Programs) /\ Programs \subseteq St
    BY RegressionAssumption DEF CovRuns
  <2>2. s \in Seq(St)
    BY <2>1, SeqMonotonic
  <2>3. \A x \in {"reset", "decoder", "act4"} : x \in St
    BY DEF CovRuns
  <2> HIDE DEF St
  <2>4. QED
    BY <2>2, <2>3
<1>2. n \in Nat /\ DOMAIN s = 1 .. n /\ Programs = {s[i] : i \in 1 .. n}
  BY ProgramFacts DEF Programs
<1>3. Len(u) = 3 /\ u[1] = "reset" /\ u[2] = "decoder" /\ u[3] = "act4"
  OBVIOUS
<1>4. CovRuns = {s[i] : i \in 1 .. n} \cup {u[1], u[2], u[3]}
  BY <1>2, <1>3 DEF CovRuns
<1> HIDE DEF s, u, St, n
<1>5. /\ s \o u \in Seq(St) /\ Len(s \o u) = Len(s) + Len(u)
      /\ \A i \in 1 .. Len(s) + Len(u) :
           (s \o u)[i] = IF i <= Len(s) THEN s[i] ELSE u[i - Len(s)]
  BY <1>1, ConcatProperties, Zenon
<1>6. RunNames = s \o u /\ Len(s) = n
  BY DEF RunNames, s, u, n
<1>7. /\ Len(RunNames) = n + 3 /\ DOMAIN RunNames = 1 .. n + 3
      /\ \A i \in 1 .. n : RunNames[i] = s[i]
      /\ RunNames[n + 1] = u[1] /\ RunNames[n + 2] = u[2] /\ RunNames[n + 3] = u[3]
  <2> DEFINE w == s \o u
  <2>1. w \in Seq(St) /\ Len(w) = n + 3
        /\ \A i \in 1 .. n + 3 : w[i] = IF i <= n THEN s[i] ELSE u[i - n]
    <3> HIDE DEF w
    <3>1. Len(s) + Len(u) = n + 3
      BY <1>3, <1>6
    <3>2. QED
      BY <1>5, <1>6, <3>1 DEF w
  <2> HIDE DEF w
  <2>2. RunNames = w
    BY <1>6 DEF w
  <2>3. \A i \in 1 .. n : i \in 1 .. n + 3 /\ i <= n
    BY <1>2
  <2>4. \A j \in 1 .. 3 : w[n + j] = u[j]
    <3>1. SUFFICES ASSUME NEW j \in 1 .. 3 PROVE w[n + j] = u[j]
      OBVIOUS
    <3> DEFINE m == n + j
    <3>2. m \in 1 .. n + 3 /\ ~ (m <= n) /\ m - n = j
      BY <1>2
    <3> HIDE DEF m
    <3>3. w[m] = u[m - n]
      BY <2>1, <3>2
    <3>4. QED
      BY <3>2, <3>3 DEF m
  <2>5. DOMAIN w = 1 .. n + 3 /\ \A i \in 1 .. n : w[i] = s[i]
    BY <2>1, <2>3
  <2>6. QED
    BY <2>1, <2>2, <2>4, <2>5
<1>8. 1 .. n + 3 = 1 .. n \cup {n + 1, n + 2, n + 3} /\ n + 3 \in Nat
  BY <1>2
<1>9. CovRuns = {RunNames[i] : i \in 1 .. n + 3}
  BY <1>4, <1>7, <1>8
<1>10. QED
  BY <1>7, <1>8, <1>9

LEMMA MergedStands ==
  ASSUME NEW t, NEW elf, IsData(t)
  PROVE  \E keys : Stands(Merged(t, elf), keys, LinesOf(t, Passing(t, elf)))
<1> DEFINE n    == Len(RunNames)
           keys == {l.key : l \in LinesOf(t, CovRuns) \ {Junk}}
           file(r) == IF RunPasses(t, elf, r) THEN t.data[r] ELSE NoData
           files == [i \in DOMAIN RunNames |-> file(RunNames[i])]
           Of(s) == RowsOf(s)
<1>1. t.data \in [CovRuns -> Seq(LineOf(keys))]
  BY DEF IsData
<1> HIDE DEF keys
<1>2. /\ n \in Nat /\ DOMAIN RunNames = 1 .. n
      /\ CovRuns = {RunNames[i] : i \in 1 .. n}
  BY RunNameFacts
<1>3. \A r \in CovRuns : file(r) \in Seq(LineOf(keys))
  BY <1>1 DEF NoData
<1> HIDE DEF file
<1>4. files \in [1 .. n -> Seq(LineOf(keys))] /\ \A i \in 1 .. n : files[i] = file(RunNames[i])
  BY <1>2, <1>3
<1>5. Merged(t, elf) = MergeFiles(files)
  BY DEF Merged, file
<1> HIDE DEF files
<1>6. Stands(MergeFiles(files), keys, UNION {Of(files[r]) : r \in 1 .. n})
  <2>1. n \in Nat /\ files \in FileSets(keys, n)
    BY <1>2, <1>4 DEF FileSets
  <2> HIDE DEF n
  <2>2. Stands(MergeFiles(files), keys, AllRows(files, n))
    BY <2>1, MergeFilesStands, Zenon
  <2>3. QED
    BY <2>2 DEF AllRows
<1>7. \A r : Of(file(r)) = IF RunPasses(t, elf, r) THEN Of(t.data[r]) ELSE {}
  BY DEF file, NoData, RowsOf
<1> HIDE DEF Of
<1>8. UNION {Of(files[r]) : r \in 1 .. n} = UNION {Of(file(r)) : r \in CovRuns}
  BY <1>2, <1>4
<1>9. UNION {Of(file(r)) : r \in CovRuns} = UNION {Of(t.data[r]) : r \in Passing(t, elf)}
  BY <1>7 DEF Passing
<1>10. LinesOf(t, Passing(t, elf)) = UNION {Of(t.data[r]) : r \in Passing(t, elf)}
  BY DEF LinesOf, Of, RowsOf
<1>11. QED
  BY <1>5, <1>6, <1>8, <1>9, <1>10

LEMMA MergedReports ==
  ASSUME NEW t, NEW elf, IsData(t), build_union(Merged(t, elf)).ok
  PROVE  Reports(build_union(Merged(t, elf)).points, LinesOf(t, Passing(t, elf)))
<1> DEFINE L == LinesOf(t, Passing(t, elf))
           M == LinesOf(t, CovRuns)
<1>1. PICK keys : Stands(Merged(t, elf), keys, L)
  BY MergedStands
<1>2. L \subseteq M
  BY DEF LinesOf, Passing
<1>3. SameInstances(L)
  <2>1. SUFFICES ASSUME NEW a \in L, NEW b \in L, a.k = "point", b.k = "point",
                        Keys \subseteq DOMAIN a.key, Keys \subseteq DOMAIN b.key,
                        PointKey(a) = PointKey(b), a.key["h"] # b.key["h"]
                 PROVE  Body(a) = Body(b)
    BY DEF SameInstances
  <2> DEFINE full == {l \in M : l.k = "point" /\ Keys \subseteq DOMAIN l.key}
  <2> HIDE DEF L, M
  <2>2. a \in full /\ b \in full
    BY <1>2, <2>1
  <2>3. \A x, y \in full :
          PointKey(x) = PointKey(y) /\ x.key["h"] # y.key["h"] => Body(x) = Body(y)
    BY DEF IsData, InstancesAgree, M
  <2>4. QED
    BY <2>1, <2>2, <2>3
<1> HIDE DEF L
<1>4. Reports(build_union(Merged(t, elf)).points, L)
  BY <1>1, <1>3, UnionReports
<1>5. QED
  BY <1>4 DEF L

(* A report that passes is true of the lines.                              *)
MetIn(t, elf) ==
  /\ \A r \in CovRuns : RunPasses(t, elf, r)
  /\ \A l \in LinesOf(t, CovRuns) : l.k = "point"
  /\ \A type \in {"line", "branch", "toggle"} :
       LET all == Cardinality(TruePoints(t, CovRuns, type))
           hit == Cardinality(TrueHits(t, CovRuns, type))
       IN  all > 0 /\ 100 * hit >= TargetOf(t, type) * all

LEMMA ReportIsTrue ==
  ASSUME NEW t, NEW elf, IsData(t), Passing(t, elf) = CovRuns, ReportPasses(t, Merged(t, elf))
  PROVE  MetIn(t, elf)
<1> DEFINE u == build_union(Merged(t, elf))
<1>1. /\ u.ok
      /\ Met(u.points, "line", LineTarget) /\ Met(u.points, "branch", LineTarget)
      /\ Met(u.points, "toggle", t.target)
  BY Zenon DEF ReportPasses
<1>2. Reports(u.points, LinesOf(t, CovRuns))
  <2>1. Reports(u.points, LinesOf(t, Passing(t, elf)))
    BY <1>1, MergedReports, Zenon
  <2>2. QED
    BY <2>1, Zenon
<1> HIDE DEF u
<1>3. \A type \in {"line", "branch", "toggle"} : Met(u.points, type, TargetOf(t, type))
  BY <1>1 DEF TargetOf
<1>4. ASSUME NEW type \in {"line", "branch", "toggle"}
      PROVE  LET all == Cardinality(TruePoints(t, CovRuns, type))
                 hit == Cardinality(TrueHits(t, CovRuns, type))
             IN  all > 0 /\ 100 * hit >= TargetOf(t, type) * all
  <2> DEFINE all == PointsUnder(u.points, "rtl/core/", type)
             hit == HitUnder(u.points, "rtl/core/", type)
  <2>1. all # {} /\ 100 * Cardinality(hit) >= TargetOf(t, type) * Cardinality(all)
    BY <1>3 DEF Met
  <2> DEFINE P == u.points
  <2>2. Reports(P, LinesOf(t, CovRuns))
    BY <1>2
  <2> HIDE DEF P
  <2>3. Counted(P, t, CovRuns, type)
    BY <2>2, ReportedCounts, Zenon
  <2>4. /\ Cardinality(TruePoints(t, CovRuns, type)) = Cardinality(all)
        /\ Cardinality(TrueHits(t, CovRuns, type)) = Cardinality(hit)
        /\ all # {} => Cardinality(all) > 0
    BY <2>3, Zenon DEF Counted, P
  <2> HIDE DEF all, hit
  <2>5. QED
    BY <2>1, <2>4
<1>5. \A l \in LinesOf(t, CovRuns) : l.k = "point"
  BY <1>2 DEF Reports
<1>6. \A r \in CovRuns : RunPasses(t, elf, r)
  BY DEF Passing
<1>7. QED
  BY <1>4, <1>5, <1>6 DEF MetIn

(* A classification that passes explains the lines.                        *)
Explains(rule, b) ==
  /\ b["o"].dir \in rule.dirs /\ b["o"].bit \in rule.bits
  /\ << b["f"].name, b["o"].sig >> \in rule.sigs

Missed(t, elf) == TruePoints(t, Passing(t, elf), "toggle") \ TrueHits(t, Passing(t, elf), "toggle")

ExplainedIn(t, elf) ==
  /\ \A b \in Missed(t, elf) : \E rule \in t.rules : {q \in t.rules : Explains(q, b)} = {rule}
  /\ \A rule \in t.rules : \E b \in Missed(t, elf) : Explains(rule, b)

LEMMA ClassifiedIsTrue ==
  ASSUME NEW t, NEW elf, IsData(t), build_union(Merged(t, elf)).ok,
         Classified(build_union(Merged(t, elf)).points, t.rules)
  PROVE  ExplainedIn(t, elf)
<1> DEFINE points == build_union(Merged(t, elf)).points
           L      == LinesOf(t, Passing(t, elf))
           all    == PointsUnder(points, "rtl/core/", "toggle")
           hit    == HitUnder(points, "rtl/core/", "toggle")
           missed == Missed(t, elf)
<1>1. Reports(points, L)
  BY MergedReports
<1>2. /\ \A l \in L : PointKey(l) \in Uncovered(points) <=> Body(l) \in missed
      /\ \A k \in Uncovered(points) : \E l \in L : PointKey(l) = k
      /\ \A b \in missed : \E l \in L : Body(l) = b
  <2> DEFINE trues == TruePoints(t, Passing(t, elf), "toggle")
             hits  == TrueHits(t, Passing(t, elf), "toggle")
  <2> HIDE DEF points
  <2>1. /\ \A l \in L : /\ PointKey(l) \in all <=> Body(l) \in trues
                        /\ PointKey(l) \in hit <=> Body(l) \in hits
        /\ \A k \in all : \E l \in L : PointKey(l) = k
        /\ \A b \in trues : \E l \in L : Body(l) = b
    BY <1>1, ReportedPoints
  <2>2. Uncovered(points) = all \ hit /\ missed = trues \ hits
    BY DEF Uncovered, Missed
  <2> HIDE DEF L, all, hit, trues, hits, missed
  <2>3. QED
    BY <2>1, <2>2
<1>3. /\ \A k \in Uncovered(points) : Cardinality({r \in t.rules : matches(r, k)}) = 1
      /\ \A r \in t.rules : \E k \in Uncovered(points) : matches(r, k)
  BY DEF Classified
<1>4. IsFiniteSet(t.rules)
  BY DEF IsData
<1>5. \A l \in L : \A rule : matches(rule, PointKey(l)) <=> Explains(rule, Body(l))
  <2>1. SUFFICES ASSUME NEW l \in L, NEW rule
                 PROVE  matches(rule, PointKey(l)) <=> Explains(rule, Body(l))
    OBVIOUS
  <2>2. FileOf(PointKey(l)) = l.key["f"] /\ PointOf(PointKey(l)) = l.key["o"]
    BY PointKeyFacts
  <2>3. Body(l)["f"] = l.key["f"] /\ Body(l)["o"] = l.key["o"]
    <3>1. Keys \subseteq DOMAIN l.key
      BY <1>1 DEF Reports
    <3>2. QED
      BY <3>1, BodyHasKey
  <2>4. QED
    BY <2>2, <2>3 DEF matches, Explains
<1> HIDE DEF points, L, missed
<1>6. ASSUME NEW b \in missed
      PROVE  \E rule \in t.rules : {q \in t.rules : Explains(q, b)} = {rule}
  <2>1. PICK l \in L : Body(l) = b
    BY <1>2
  <2> DEFINE S == {r \in t.rules : matches(r, PointKey(l))}
  <2>2. PointKey(l) \in Uncovered(points)
    BY <1>2, <2>1
  <2>3. Cardinality(S) = 1
    BY <1>3, <2>2
  <2>4. IsFiniteSet(S)
    BY <1>4, FS_Subset
  <2> HIDE DEF S
  <2>5. PICK x : S = {x}
    BY <2>3, <2>4, FS_Singleton
  <2>6. S = {q \in t.rules : Explains(q, b)} /\ S \subseteq t.rules
    BY <1>5, <2>1 DEF S
  <2>7. QED
    BY <2>5, <2>6
<1>7. ASSUME NEW rule \in t.rules
      PROVE  \E b \in missed : Explains(rule, b)
  <2>1. PICK k \in Uncovered(points) : matches(rule, k)
    BY <1>3
  <2>2. PICK l \in L : PointKey(l) = k
    BY <1>2
  <2>3. Body(l) \in missed /\ Explains(rule, Body(l))
    BY <1>2, <1>5, <2>1, <2>2
  <2>4. QED
    BY <2>3
<1>8. QED
  BY <1>6, <1>7 DEF ExplainedIn, missed
-----------------------------------------------------------------------------
(* The invariant of the coverage: its data are those of the copy L1 runs   *)
(* in, or there are none.                                                  *)
Quiet == {"elfs", "swbuild", "count", "coverage"} \cup Loop

Alive == copy.elfs # "missing" /\ RT_PC(built.elf) # NoHandler

CovTyped(t) == IsData(t) /\ t.imm \in Generators

Reported(t, elf) == Passing(t, elf) = CovRuns /\ ReportPasses(t, Merged(t, elf))

Sorted(t, elf) ==
  /\ build_union(Merged(t, elf)).ok
  /\ Classified(build_union(Merged(t, elf)).points, t.rules)

CovInv ==
  /\ CovTyped(copy)
  /\ l1.pc \in Quiet => built.merged = NoData
  /\ l1.pc = "classify" => built.merged = IF Alive THEN Merged(copy, built.elf) ELSE NoData
  /\ l1.results["coverage"] = "PASS" => Reported(copy, built.elf)
  /\ l1.results["classify"] = "PASS" => Alive /\ Sorted(copy, built.elf)

LEMMA TreesCovTyped ==
  ASSUME NEW t \in Trees
  PROVE  CovTyped(t)
BY RegressionAssumption DEF IsTree, CovTyped, Generators

(* A mutant changes no coverage data.                                      *)
LEMMA SameDataTyped ==
  ASSUME NEW t, CovTyped(t), NEW u, u.data = t.data, u.imm = t.imm, IsFiniteSet(u.rules)
  PROVE  CovTyped(u)
BY DEF CovTyped, IsData, InstancesAgree, LinesOf

LEMMA MutantsCovTyped ==
  ASSUME NEW t \in Trees, NEW id \in MutantIds
  PROVE  CovTyped(Mutated(t, id))
<1> DEFINE m == Mutated(t, id)
<1>1. CovTyped(t) /\ IsFiniteSet(t.rules)
  BY TreesCovTyped DEF CovTyped, IsData
<1>2. t = [sail |-> t.sail, model |-> t.model, source |-> t.source, core |-> t.core,
           drift |-> t.drift, reached |-> t.reached, elfs |-> t.elfs, imm |-> t.imm,
           failing |-> t.failing, data |-> t.data, target |-> t.target,
           rules |-> t.rules]
  BY RegressionAssumption, Zenon DEF IsTree
<1>3. CASE id \in {"R1", "X1", "S1", "S2", "S3", "S4", "S5", "H1", "T1"}
  <2>1. m.data = t.data /\ m.imm = t.imm /\ m.rules = t.rules
    BY <1>2, <1>3 DEF Mutated
  <2> HIDE DEF m
  <2>2. CovTyped(m)
    BY <1>1, <2>1, SameDataTyped
  <2>3. QED
    BY <2>2 DEF m
<1>4. ASSUME NEW name, NEW rs, IsFiniteSet(rs), m = WithRule(t, name, rs)
      PROVE  CovTyped(m)
  <2> DEFINE kept == {r \in t.rules : r.name # name}
  <2>1. IsFiniteSet(kept \cup rs)
    <3>1. IsFiniteSet(kept)
      BY <1>1, FS_Subset
    <3> HIDE DEF kept
    <3>2. QED
      BY <1>4, <3>1, FS_Union
  <2>2. m = [t EXCEPT !.rules = kept \cup rs]
    BY <1>4 DEF WithRule
  <2> HIDE DEF m, kept
  <2>3. m.data = t.data /\ m.imm = t.imm /\ m.rules = kept \cup rs
    BY <1>2, <2>2
  <2>4. QED
    BY <1>1, <2>1, <2>3, SameDataTyped
<1>5. CASE id = "K1"
  <2>1. m = WithRule(t, "JALR_LSB", {})
    BY <1>5 DEF Mutated
  <2>2. IsFiniteSet({})
    BY FS_EmptySet
  <2> HIDE DEF m
  <2>3. CovTyped(m)
    BY <1>4, <2>1, <2>2
  <2>4. QED
    BY <2>3 DEF m
<1>6. CASE id = "K2"
  <2> DEFINE r == Rule("PC_HIGH", PC_SIGS, ALL32, BOTH)
  <2>1. m = WithRule(t, "PC_HIGH", {r})
    BY <1>6 DEF Mutated
  <2> HIDE DEF m, r
  <2>2. IsFiniteSet({r})
    BY FS_Singleton
  <2>3. CovTyped(m)
    BY <1>4, <2>1, <2>2
  <2>4. QED
    BY <2>3 DEF m
<1>7. QED
  BY <1>3, <1>5, <1>6 DEF MutantIds

(* Before the coverage is measured there are no data and no verdict; when  *)
(* a run starts or is cut off there is no verdict.                         *)
LEMMA NothingReported ==
  ASSUME CovTyped(copy)', ResultsInv', l1'.pc \in Quiet, built'.merged = NoData
  PROVE  CovInv'
<1>1. l1'.pc # "idle" /\ l1'.pc # "classify"
  BY DEF Quiet, Loop
<1>2. "coverage" \notin DecidedAt(l1'.pc) /\ "classify" \notin DecidedAt(l1'.pc)
  BY DEF DecidedAt, Quiet, Loop
<1>3. l1'.results["coverage"] = "none" /\ l1'.results["classify"] = "none"
  BY <1>1, <1>2 DEF ResultsInv, CHECKS
<1>4. QED
  BY <1>1, <1>3 DEF CovInv

LEMMA NothingSaid ==
  ASSUME CovTyped(copy)', NEW q \in {"idle", "clean"},
         l1' = [Idle EXCEPT !.pc = q] \/ (l1' = Idle /\ q = "idle")
  PROVE  CovInv'
<1>1. l1'.pc = q /\ \A c \in CHECKS : l1'.results[c] = "none"
  BY Fresh
<1>2. QED
  BY <1>1 DEF CovInv, Quiet, Loop, CHECKS

LEMMA QuietSteps ==
  ASSUME Inv, CovInv, Inv',
         \/ Clean \/ CheckElfs \/ SwBuild
         \/ DeleteTraces \/ RunSail \/ JudgeSail \/ RunCore \/ Compare \/ CountPrograms
  PROVE  CovInv'
<1>1. /\ DOMAIN l1 = {"pc", "i", "rc", "compared", "fail", "results"}
      /\ DOMAIN built = {"elf", "merged"}
  BY DEF Inv, TypesInv
<1>2. copy' = copy
  BY DEF Clean, CheckElfs, SwBuild, DeleteTraces, RunSail, JudgeSail, RunCore, Compare,
         CountPrograms
<1>3. built'.merged = NoData
  <2>1. CASE Clean
    BY <1>1, <2>1 DEF Clean
  <2>2. CASE ~ Clean
    <3>1. l1.pc \in Quiet
      BY <2>2 DEF CheckElfs, SwBuild, DeleteTraces, RunSail, JudgeSail, RunCore, Compare,
                  CountPrograms, At, Quiet, Loop
    <3>2. built'.merged = built.merged
      BY <1>1, <2>2 DEF CheckElfs, SwBuild, DeleteTraces, RunSail, JudgeSail, RunCore,
                        Compare, CountPrograms
    <3>3. QED
      BY <3>1, <3>2 DEF CovInv
  <2>3. QED
    BY <2>1, <2>2
<1>4. l1'.pc \in Quiet
  <2>1. CASE CheckElfs \/ SwBuild \/ CountPrograms
    BY <1>1, <2>1 DEF CheckElfs, SwBuild, CountPrograms, Decide, Quiet, Loop
  <2>2. CASE Clean \/ DeleteTraces \/ RunSail \/ RunCore
    BY <1>1, <2>2 DEF Clean, DeleteTraces, RunSail, RunCore, Quiet, Loop
  <2>3. CASE JudgeSail \/ Compare
    <3>1. \/ l1' = [l1 EXCEPT !.pc = "core"]
          \/ \E fail, n : NextProgram(fail, n)
      BY <2>3 DEF JudgeSail, Compare
    <3>2. QED
      BY <1>1, <3>1 DEF NextProgram, Quiet, Loop
  <2>4. QED
    BY <2>1, <2>2, <2>3
<1>5. CovTyped(copy)' /\ ResultsInv'
  BY <1>2 DEF CovInv, Inv, CovTyped, Generators, IsData, InstancesAgree, LinesOf
<1>6. QED
  BY <1>3, <1>4, <1>5, NothingReported

LEMMA CoverageCov ==
  ASSUME Inv, CovInv, Inv', Coverage
  PROVE  CovInv'
<1> DEFINE dies == copy.elfs = "missing" \/ RT_PC(built.elf) = NoHandler
           data == IF dies THEN NoData ELSE Merged(copy, built.elf)
           passes == ~ dies /\ Passing(copy, built.elf) = CovRuns /\ ReportPasses(copy, data)
<1>1. /\ l1.pc = "coverage" /\ Decide("coverage", passes, "classify")
      /\ built' = [built EXCEPT !.merged = IF copy.elfs = "missing" THEN @ ELSE data]
      /\ copy' = copy
  BY DEF Coverage, At
<1>2. passes \in BOOLEAN /\ (passes => Reported(copy, built.elf) /\ Alive)
  <2>1. passes \in BOOLEAN
    BY Zenon DEF ReportPasses
  <2>2. passes => Reported(copy, built.elf) /\ Alive
    BY Zenon DEF Reported, Alive
  <2>3. QED
    BY <2>1, <2>2, Zenon
<1>3. /\ built.merged = NoData /\ DOMAIN built = {"elf", "merged"}
      /\ CovTyped(copy)
  BY <1>1 DEF CovInv, Quiet, Inv, TypesInv
<1>4. built'.merged = data /\ built'.elf = built.elf
  BY <1>1, <1>3
<1> HIDE DEF passes
<1>5. /\ l1'.pc = "classify"
      /\ (l1'.results["coverage"] = "PASS" <=> passes)
      /\ l1'.results["classify"] = l1.results["classify"]
  BY <1>1, <1>2, Decides DEF Inv, CHECKS
<1>6. l1.results["classify"] = "none"
  BY <1>1 DEF Inv, ResultsInv, DecidedAt, CHECKS, Loop
<1>7. /\ CovTyped(copy)' /\ (Alive' <=> Alive)
      /\ Reported(copy, built.elf)' <=> Reported(copy, built.elf)
  <2>1. CovTyped(copy')
    BY <1>1, <1>3
  <2>2. Reported(copy', built'.elf) <=> Reported(copy, built.elf)
    BY <1>1
  <2>3. QED
    BY <1>1, <1>4, <2>1, <2>2 DEF Alive
<1>8. built'.merged = IF Alive' THEN Merged(copy', built'.elf) ELSE NoData
  BY <1>1, <1>4, <1>7 DEF Alive
<1>9. QED
  BY <1>2, <1>5, <1>6, <1>7, <1>8 DEF CovInv, Quiet, Loop

LEMMA ClassifyCov ==
  ASSUME Inv, CovInv, Inv', Classify
  PROVE  CovInv'
<1> DEFINE u      == build_union(built.merged)
           passes == u.ok /\ Classified(u.points, copy.rules)
<1>1. /\ l1.pc = "classify" /\ Decide("classify", passes, "summary")
      /\ copy' = copy /\ built' = built
  BY DEF Classify, At
<1>2. passes \in BOOLEAN
  BY Zenon
<1>3. /\ built.merged = IF Alive THEN Merged(copy, built.elf) ELSE NoData
      /\ CovTyped(copy) /\ (l1.results["coverage"] = "PASS" => Reported(copy, built.elf))
  BY <1>1 DEF CovInv
<1>4. passes => Alive /\ Sorted(copy, built.elf)
  <2>1. SUFFICES ASSUME u.ok, Classified(u.points, copy.rules) PROVE Alive /\ Sorted(copy, built.elf)
    OBVIOUS
  <2>2. Alive
    BY <1>3, <2>1, NoDataNoUnion
  <2>3. QED
    BY <1>3, <2>1, <2>2 DEF Sorted
<1> HIDE DEF passes
<1>5. /\ l1'.pc = "summary"
      /\ (l1'.results["classify"] = "PASS" <=> passes)
      /\ l1'.results["coverage"] = l1.results["coverage"]
  BY <1>1, <1>2, Decides DEF Inv, CHECKS
<1>6. /\ CovTyped(copy') /\ (Reported(copy', built'.elf) <=> Reported(copy, built.elf))
      /\ (Sorted(copy', built'.elf) <=> Sorted(copy, built.elf)) /\ (Alive' <=> Alive)
  BY <1>1, <1>3 DEF Alive
<1>7. QED
  BY <1>3, <1>4, <1>5, <1>6 DEF CovInv, Quiet, Loop

(* Nothing changes that the coverage is about.                             *)
LEMMA CovKept ==
  ASSUME CovInv, UNCHANGED << copy, built >>, l1'.results = l1.results,
         l1'.pc = l1.pc \/ l1'.pc = "idle"
  PROVE  CovInv'
<1>1. /\ CovTyped(copy)' /\ (Reported(copy, built.elf)' <=> Reported(copy, built.elf))
      /\ (Sorted(copy, built.elf)' <=> Sorted(copy, built.elf)) /\ (Alive' <=> Alive)
  BY DEF Alive, CovInv
<1>2. QED
  BY <1>1 DEF CovInv, Quiet, Loop

LEMMA StartMutantCov ==
  ASSUME Inv, CovInv, Inv', StartMutant
  PROVE  CovInv'
<1> DEFINE id == MUTANTS[mut.next].id
           m == IF mut.next = 0 THEN tree ELSE Mutated(tree, id)
<1>1. CASE mut.next = 0 \/ Applies(tree, id)
  <2>1. copy' = m /\ l1' = [Idle EXCEPT !.pc = "clean"]
    BY <1>1 DEF StartMutant
  <2>2. mut.next # 0 => id \in MutantIds
    <3>1. mut.next <= 11 /\ mut.next \in -1 .. 12 /\ mut.next >= 0
      BY MutantList DEF StartMutant, Mutating, Inv, TypesInv, RegressionTypeOK
    <3>2. QED
      BY <3>1, MutantList
  <2>3. CovTyped(m)
    <3>1. tree \in Trees
      BY DEF Inv, TypesInv
    <3> HIDE DEF id
    <3>2. mut.next # 0 => CovTyped(Mutated(tree, id))
      BY <2>2, <3>1, MutantsCovTyped
    <3>3. CovTyped(tree)
      BY <3>1, TreesCovTyped
    <3>4. QED
      BY <3>2, <3>3
  <2> HIDE DEF m
  <2>4. CovTyped(copy')
    BY <2>1, <2>3
  <2>5. QED
    BY <2>1, <2>4, NothingSaid
<1>2. CASE ~ (mut.next = 0 \/ Applies(tree, id))
  <2>1. UNCHANGED << copy, built, l1 >>
    BY <1>2 DEF StartMutant
  <2>2. QED
    BY <2>1, CovKept
<1>3. QED
  BY <1>1, <1>2

LEMMA CovInitially == Init => CovInv
<1> SUFFICES ASSUME Init PROVE CovInv
  OBVIOUS
<1>1. CovTyped(copy)
  BY TreesCovTyped DEF Init
<1>2. l1.pc = "idle" /\ l1.results = [c \in CHECKS |-> "none"]
  BY IdleFacts DEF Init
<1>3. QED
  BY <1>1, <1>2 DEF CovInv, Quiet, Loop, CHECKS

LEMMA CovInvIsKept == Inv /\ CovInv /\ [Next]_vars => CovInv'
<1> SUFFICES ASSUME Inv, CovInv, [Next]_vars PROVE CovInv'
  OBVIOUS
<1>0. Inv'
  BY InvIsKept
<1>1. CASE UNCHANGED vars
  BY <1>1, CovKept DEF vars
<1>2. CASE Coverage
  BY <1>0, <1>2, CoverageCov
<1>3. CASE Classify
  BY <1>0, <1>3, ClassifyCov
<1>4. CASE EndL1
  <2>1. l1'.pc = "idle" /\ l1'.results = l1.results /\ UNCHANGED << copy, built >>
    BY <1>4 DEF EndL1, Inv, TypesInv
  <2>2. QED
    BY <2>1, CovKept
<1>5. CASE L1Step /\ ~ Coverage /\ ~ Classify /\ ~ EndL1
  BY <1>0, <1>5, QuietSteps, Zenon DEF L1Step
<1>6. CASE RunL1
  <2>1. CovTyped(copy')
    BY <1>6, TreesCovTyped DEF RunL1, Inv, TypesInv
  <2>2. l1' = [Idle EXCEPT !.pc = "clean"]
    BY <1>6 DEF RunL1
  <2>3. QED
    BY <2>1, <2>2, NothingSaid
<1>7. CASE Interrupt
  <2>1. l1' = Idle /\ copy' = copy
    BY <1>7 DEF Interrupt
  <2>2. CovTyped(copy')
    BY <2>1 DEF CovInv
  <2>3. QED
    BY <2>1, <2>2, NothingSaid
<1>8. CASE StartMutant
  BY <1>0, <1>8, StartMutantCov
<1>9. CASE Edit \/ EndMutant \/ Summary
  <2>1. UNCHANGED << copy, built, l1 >>
    BY <1>9 DEF Edit, EndMutant, Summary
  <2>2. QED
    BY <2>1, CovKept
<1>10. QED
  BY <1>1, <1>2, <1>3, <1>4, <1>5, <1>6, <1>7, <1>8, <1>9 DEF Next

LEMMA CovInvHolds == Spec => [](Inv /\ CovInv)
<1>1. Init => Inv /\ CovInv
  BY Initially, CovInitially
<1>2. Inv /\ CovInv /\ [Next]_vars => (Inv /\ CovInv)'
  BY InvIsKept, CovInvIsKept
<1>3. QED
  BY <1>1, <1>2, PTL DEF Spec

(* CoverageMeansMet for every design, every coverage data and every        *)
(* history: the merge loses no line and no count, the union tells apart    *)
(* what Verilator counts apart, and so a report that passes is true of     *)
(* what the runs wrote (run_coverage.sh, covdat.py).                       *)
THEOREM CoverageIsMet == Spec => []CoverageMeansMet
<1>1. Inv /\ CovInv => CoverageMeansMet
  <2> SUFFICES ASSUME CovInv PROVE l1.results["coverage"] = "PASS" => MetIn(copy, built.elf)
    BY Zenon DEF CoverageMeansMet, MetIn
  <2>1. SUFFICES ASSUME l1.results["coverage"] = "PASS" PROVE MetIn(copy, built.elf)
    OBVIOUS
  <2>2. Reported(copy, built.elf) /\ IsData(copy)
    BY <2>1 DEF CovInv, CovTyped
  <2>3. QED
    BY <2>2, ReportIsTrue DEF Reported
<1>2. QED
  BY <1>1, CovInvHolds, PTL

(* ClassifiedMeansExplained for every design, every coverage data, every   *)
(* table of rules and every history (classify_toggles.py:13-19).           *)
THEOREM ClassifiedIsExplained == Spec => []ClassifiedMeansExplained
<1>1. Inv /\ CovInv => ClassifiedMeansExplained
  <2> SUFFICES ASSUME CovInv
               PROVE  l1.results["classify"] = "PASS" => Alive /\ ExplainedIn(copy, built.elf)
    BY Zenon DEF ClassifiedMeansExplained, ExplainedIn, Missed, Explains, Alive
  <2>1. SUFFICES ASSUME l1.results["classify"] = "PASS" PROVE Alive /\ ExplainedIn(copy, built.elf)
    OBVIOUS
  <2>2. Alive /\ Sorted(copy, built.elf) /\ IsData(copy)
    BY <2>1 DEF CovInv, CovTyped
  <2>3. ExplainedIn(copy, built.elf)
    BY <2>2, ClassifiedIsTrue DEF Sorted
  <2>4. QED
    BY <2>2, <2>3
<1>2. QED
  BY <1>1, CovInvHolds, PTL

-----------------------------------------------------------------------------
(* The decoder's reference cases. Bits of small numbers.                   *)
LEMMA WeightFacts ==
  /\ Weight[1] = 1 /\ Weight[2] = 2 /\ Weight[3] = 4 /\ Weight[4] = 8 /\ Weight[5] = 16
  /\ Weight[6] = 32 /\ Weight[7] = 64 /\ Weight[8] = 128 /\ Weight[9] = 256
  /\ Weight[10] = 512 /\ Weight[11] = 1024 /\ Weight[12] = 2048 /\ Weight[13] = 4096
  /\ Weight[14] = 8192 /\ Weight[15] = 16384 /\ Weight[16] = 32768 /\ Weight[17] = 65536
  /\ Weight[18] = 131072 /\ Weight[19] = 262144 /\ Weight[20] = 524288
  /\ Weight[21] = 1048576 /\ Weight[22] = 2097152 /\ Weight[23] = 4194304
  /\ Weight[24] = 8388608 /\ Weight[25] = 16777216 /\ Weight[26] = 33554432
  /\ Weight[27] = 67108864 /\ Weight[28] = 134217728 /\ Weight[29] = 268435456
  /\ Weight[30] = 536870912 /\ Weight[31] = 1073741824
BY DEF Weight

(* A number of so many bits is zero or its sign from there on.             *)
SignOf(v) == IF v < 0 THEN 1 ELSE 0

LEMMA SignExtended ==
  ASSUME NEW v \in Int, NEW j \in 11 .. 31,
         \/ -2048 <= v /\ v < 2048
         \/ -4096 <= v /\ v < 4096 /\ j >= 12
         \/ -1048576 <= v /\ v < 1048576 /\ j >= 20
  PROVE  BitOf(v, j) = SignOf(v)
<1>1. CASE j = 31
  BY <1>1 DEF BitOf, SignOf
<1>2. CASE j # 31
  <2> DEFINE W == Weight[j + 1]
  <2>1. /\ W \in {2048, 4096, 8192, 16384, 32768, 65536, 131072, 262144, 524288, 1048576,
                  2097152, 4194304, 8388608, 16777216, 33554432, 67108864, 134217728,
                  268435456, 536870912, 1073741824}
        /\ j >= 12 => W >= 4096
        /\ j >= 20 => W >= 1048576
    <3>1. j \in {11, 12, 13, 14, 15, 16, 17, 18, 19, 20, 21, 22, 23, 24, 25, 26, 27, 28, 29, 30}
      BY <1>2
    <3>2. QED
      BY <3>1, WeightFacts
  <2>2. BitOf(v, j) = (v \div W) % 2
    BY <1>2 DEF BitOf
  <2> HIDE DEF W
  <2>3. -W <= v /\ v < W
    BY <2>1
  <2>4. (v \div W) % 2 = SignOf(v)
    BY <2>1, <2>3 DEF SignOf
  <2>5. QED
    BY <2>2, <2>4
<1>3. QED
  BY <1>1, <1>2

LEMMA SmallBits ==
  /\ \A k \in 0 .. 6 : BitOf(0, k) = 0
  /\ \A k \in 0 .. 5 : BitOf(64, k) = 0
  /\ BitOf(64, 6) = 1
<1>1. \A k \in 0 .. 6 : BitOf(0, k) = 0 /\ (BitOf(64, k) = IF k = 6 THEN 1 ELSE 0)
  <2>1. SUFFICES ASSUME NEW k \in 0 .. 6
                 PROVE  BitOf(0, k) = 0 /\ (BitOf(64, k) = IF k = 6 THEN 1 ELSE 0)
    OBVIOUS
  <2>2. k \in {0, 1, 2, 3, 4, 5, 6}
    OBVIOUS
  <2>3. QED
    BY <2>2, WeightFacts DEF BitOf
<1>2. QED
  BY <1>1

(* Two cases that differ in the sign, and in one register's lowest bit.    *)
Apart(a, b) ==
  /\ a.funct7 = 64 /\ b.funct7 = 0
  /\ a.funct3 = b.funct3 /\ a.rs1 = b.rs1
  /\ a.rd = b.rd \/ a.rd = 0
  /\ a.rs2 = b.rs2 \/ a.rs2 = 0

LEMMA SignWire ==
  ASSUME NEW a, NEW b, Apart(a, b), NEW w \in Wires, Wire(a, w) = 1, Wire(b, w) = 0
  PROVE  w = 31
<1>1. CASE w \in {0, 1}
  BY <1>1 DEF Wire
<1>2. CASE w \in 7 .. 11
  <2>1. Wire(a, w) = BitOf(a.rd, w - 7) /\ Wire(b, w) = BitOf(b.rd, w - 7) /\ w - 7 \in 0 .. 6
    BY <1>2 DEF Wire
  <2>2. QED
    BY <2>1, SmallBits DEF Apart
<1>3. CASE w \in 12 .. 19
  BY <1>3 DEF Wire, Apart
<1>4. CASE w \in 20 .. 24
  <2>1. /\ Wire(a, w) = BitOf(a.rs2, w - 20) /\ Wire(b, w) = BitOf(b.rs2, w - 20)
        /\ w - 20 \in 0 .. 6
    BY <1>4 DEF Wire
  <2>2. QED
    BY <2>1, SmallBits DEF Apart
<1>5. CASE w \in 25 .. 30
  <2>1. Wire(a, w) = BitOf(a.funct7, w - 25) /\ w - 25 \in 0 .. 5
    BY <1>5 DEF Wire
  <2>2. QED
    BY <2>1, SmallBits DEF Apart
<1>6. QED
  BY <1>1, <1>2, <1>3, <1>4, <1>5 DEF Wires

LEMMA LowWire ==
  ASSUME NEW a, NEW b, Apart(a, b), NEW w \in Wires, Wire(a, w) = 0, Wire(b, w) = 1
  PROVE  \/ w \in 7 .. 11 /\ a.rd # b.rd /\ BitOf(b.rd, w - 7) = 1
         \/ w \in 20 .. 24 /\ a.rs2 # b.rs2 /\ BitOf(b.rs2, w - 20) = 1
<1>1. CASE w \in {0, 1}
  BY <1>1 DEF Wire
<1>2. CASE w \in 7 .. 11
  <2>1. Wire(a, w) = BitOf(a.rd, w - 7) /\ Wire(b, w) = BitOf(b.rd, w - 7)
    BY <1>2 DEF Wire
  <2>2. QED
    BY <1>2, <2>1
<1>3. CASE w \in 12 .. 19
  BY <1>3 DEF Wire, Apart
<1>4. CASE w \in 20 .. 24
  <2>1. Wire(a, w) = BitOf(a.rs2, w - 20) /\ Wire(b, w) = BitOf(b.rs2, w - 20)
    BY <1>4 DEF Wire
  <2>2. QED
    BY <1>4, <2>1
<1>5. CASE w \in 25 .. 31
  <2>1. Wire(b, w) = BitOf(b.funct7, w - 25) /\ w - 25 \in 0 .. 6
    BY <1>5 DEF Wire
  <2>2. QED
    BY <2>1, SmallBits DEF Apart
<1>6. QED
  BY <1>1, <1>2, <1>3, <1>4, <1>5 DEF Wires

LEMMA OneBit ==
  ASSUME NEW k \in 0 .. 4, BitOf(1, k) = 1
  PROVE  k = 0
<1>1. k \in {0, 1, 2, 3, 4}
  OBVIOUS
<1>2. QED
  BY <1>1, WeightFacts DEF BitOf

-----------------------------------------------------------------------------
(* The pairs of cases that tell the wires apart.                           *)
IsWiring(g) == g \in [ImmFormats -> [0 .. 31 -> Wires]]

LEMMA CaseDriven ==
  ASSUME NEW g, HarnessPasses(g), NEW e \in RefCases, FormatOf(e) \in ImmFormats,
         NEW j \in 0 .. 31
  PROVE  Wire(e, g[FormatOf(e)][j]) = BitOf(expected_imm(e), j)
BY DEF HarnessPasses, ref_cases, Driven

(* The fields the assembler makes of the offsets below.                    *)
LEMMA OffsetBits ==
  /\ \A v \in Int : v + 2048 = 0 => Bits(v, 1, 32) = 0 /\ Bits(v, 32, 128) = 64
  /\ \A v \in Int : v + 4096 = 0 =>
       /\ Bits(v, 2, 16) = 0 /\ Bits(v, 2048, 2) = 0
       /\ Bits(v, 4096, 2) = 1 /\ Bits(v, 32, 64) = 0
       /\ BitOf(v, 11) = 0
  /\ \A v \in Int : v + 1048576 = 0 =>
       /\ Bits(v, 4096, 8) = 0 /\ Bits(v, 32768, 32) = 0
       /\ Bits(v, 2, 16) = 0 /\ Bits(v, 2048, 2) = 0
       /\ Bits(v, 1048576, 2) = 1 /\ Bits(v, 32, 64) = 0
       /\ BitOf(v, 11) = 0
  /\ Bits(0, 1, 32) = 0 /\ Bits(0, 32, 128) = 0
  /\ Bits(2048, 4096, 8) = 0 /\ Bits(2048, 32768, 32) = 0
  /\ Bits(2048, 2, 16) = 0 /\ Bits(2048, 2048, 2) = 1
  /\ Bits(2048, 4096, 2) = 0 /\ Bits(2048, 1048576, 2) = 0
  /\ Bits(2048, 32, 64) = 0 /\ BitOf(2048, 11) = 1
<1>1. \A v \in Int : v + 2048 = 0 => Bits(v, 1, 32) = 0 /\ Bits(v, 32, 128) = 64
  BY SMT DEF Bits
<1>2. \A v \in Int : BitOf(v, 11) = Bits(v, 2048, 2)
  BY SMT, WeightFacts DEF Bits, BitOf
<1>3. ASSUME NEW v \in Int, v + 4096 = 0
      PROVE  /\ Bits(v, 2, 16) = 0 /\ Bits(v, 2048, 2) = 0
             /\ Bits(v, 4096, 2) = 1 /\ Bits(v, 32, 64) = 0
  BY <1>3, SMT DEF Bits
<1>4. ASSUME NEW v \in Int, v + 1048576 = 0
      PROVE  /\ Bits(v, 4096, 8) = 0 /\ Bits(v, 32768, 32) = 0
             /\ Bits(v, 2, 16) = 0 /\ Bits(v, 2048, 2) = 0
             /\ Bits(v, 1048576, 2) = 1 /\ Bits(v, 32, 64) = 0
  BY <1>4, SMT DEF Bits
<1>5. /\ Bits(0, 1, 32) = 0 /\ Bits(0, 32, 128) = 0
      /\ Bits(2048, 4096, 8) = 0 /\ Bits(2048, 32768, 32) = 0
      /\ Bits(2048, 2, 16) = 0 /\ Bits(2048, 2048, 2) = 1
      /\ Bits(2048, 4096, 2) = 0 /\ Bits(2048, 1048576, 2) = 0
      /\ Bits(2048, 32, 64) = 0
  BY SMT DEF Bits
<1>6. BitOf(2048, 11) = 1
  BY <1>2, <1>5, SMT
<1>7. QED
  BY <1>1, <1>2, <1>3, <1>4, <1>5, <1>6, SMT

LEMMA ICases ==
  LET a == EncI("OPIMM", 0, -2048)  b == EncI("OPIMM", 0, 0) IN
  /\ a \in RefCases /\ b \in RefCases /\ FormatOf(a) = "I" /\ FormatOf(b) = "I"
  /\ Apart(a, b) /\ expected_imm(a) = -2048 /\ expected_imm(b) = 0
<1> DEFINE a == EncI("OPIMM", 0, -2048)
           b == EncI("OPIMM", 0, 0)
<1>1. a \in RefCases /\ b \in RefCases
  BY DEF RefCases, Imms
<1>2. /\ a = Enc("OPIMM", 0, 17, 26, 0, 64)
      /\ b = Enc("OPIMM", 0, 17, 26, 0, 0)
  <2>1. /\ Bits(-2048, 1, 32) = 0 /\ Bits(-2048, 32, 128) = 64
        /\ Bits(0, 1, 32) = 0 /\ Bits(0, 32, 128) = 0
    BY OffsetBits, SMT
  <2>2. QED
    BY <2>1 DEF EncI
<1> HIDE DEF a, b
<1>3. FormatOf(a) = "I" /\ FormatOf(b) = "I" /\ Apart(a, b)
  BY <1>2 DEF Enc, FormatOf, Apart
<1>4. expected_imm(a) = -2048 /\ expected_imm(b) = 0
  BY <1>2, SMT DEF Enc, expected_imm, sx
<1>5. QED
  BY <1>1, <1>3, <1>4 DEF a, b

LEMMA SCases ==
  LET a == EncS(0, -2048)  b == EncS(0, 0) IN
  /\ a \in RefCases /\ b \in RefCases /\ FormatOf(a) = "S" /\ FormatOf(b) = "S"
  /\ Apart(a, b) /\ expected_imm(a) = -2048 /\ expected_imm(b) = 0
<1> DEFINE a == EncS(0, -2048)
           b == EncS(0, 0)
<1>1. a \in RefCases /\ b \in RefCases
  BY DEF RefCases, Offs
<1>2. /\ a = Enc("STORE", 0, 0, 16, 30, 64)
      /\ b = Enc("STORE", 0, 0, 16, 30, 0)
  <2>1. /\ Bits(-2048, 1, 32) = 0 /\ Bits(-2048, 32, 128) = 64
        /\ Bits(0, 1, 32) = 0 /\ Bits(0, 32, 128) = 0
    BY OffsetBits, SMT
  <2>2. QED
    BY <2>1 DEF EncS
<1> HIDE DEF a, b
<1>3. FormatOf(a) = "S" /\ FormatOf(b) = "S" /\ Apart(a, b)
  BY <1>2 DEF Enc, FormatOf, Apart
<1>4. expected_imm(a) = -2048 /\ expected_imm(b) = 0
  BY <1>2, SMT DEF Enc, expected_imm, sx
<1>5. QED
  BY <1>1, <1>3, <1>4 DEF a, b

LEMMA BCases ==
  LET a == EncB(0, -4096)  b == EncB(0, 2048) IN
  /\ a \in RefCases /\ b \in RefCases /\ FormatOf(a) = "B" /\ FormatOf(b) = "B"
  /\ Apart(a, b) /\ a.rd = 0 /\ b.rd = 1 /\ a.rs2 = b.rs2
  /\ expected_imm(a) = -4096 /\ expected_imm(b) = 2048
<1> DEFINE a == EncB(0, -4096)
           b == EncB(0, 2048)
<1>1. a \in RefCases /\ b \in RefCases
  BY DEF RefCases, BranchOffs
<1>2. /\ a = Enc("BRANCH", 0, 0, 1, 2, 64)
      /\ b = Enc("BRANCH", 0, 1, 1, 2, 0)
  <2>1. /\ Bits(-4096, 2, 16) = 0 /\ Bits(-4096, 2048, 2) = 0
        /\ Bits(-4096, 4096, 2) = 1 /\ Bits(-4096, 32, 64) = 0
        /\ Bits(2048, 2, 16) = 0 /\ Bits(2048, 2048, 2) = 1
        /\ Bits(2048, 4096, 2) = 0 /\ Bits(2048, 32, 64) = 0
    BY OffsetBits, SMT
  <2>2. QED
    BY <2>1 DEF EncB
<1> HIDE DEF a, b
<1>3. /\ FormatOf(a) = "B" /\ FormatOf(b) = "B" /\ Apart(a, b)
      /\ a.rd = 0 /\ b.rd = 1 /\ a.rs2 = b.rs2
  BY <1>2 DEF Enc, FormatOf, Apart
<1>4. expected_imm(a) = -4096 /\ expected_imm(b) = 2048
  BY <1>2, SMT DEF Enc, expected_imm, sx
<1>5. QED
  BY <1>1, <1>3, <1>4 DEF a, b

LEMMA JCases ==
  LET a == EncJ(-1048576)  b == EncJ(2048) IN
  /\ a \in RefCases /\ b \in RefCases /\ FormatOf(a) = "J" /\ FormatOf(b) = "J"
  /\ Apart(a, b) /\ a.rs2 = 0 /\ b.rs2 = 1 /\ a.rd = b.rd
  /\ expected_imm(a) = -1048576 /\ expected_imm(b) = 2048
<1> DEFINE a == EncJ(-1048576)
           b == EncJ(2048)
<1>1. a \in RefCases /\ b \in RefCases
  BY DEF RefCases, JalOffs
<1>2. /\ a = Enc("JAL", 0, 12, 0, 0, 64)
      /\ b = Enc("JAL", 0, 12, 0, 1, 0)
  <2>1. /\ Bits(-1048576, 4096, 8) = 0 /\ Bits(-1048576, 32768, 32) = 0
        /\ Bits(-1048576, 2, 16) = 0 /\ Bits(-1048576, 2048, 2) = 0
        /\ Bits(-1048576, 1048576, 2) = 1 /\ Bits(-1048576, 32, 64) = 0
        /\ Bits(2048, 4096, 8) = 0 /\ Bits(2048, 32768, 32) = 0
        /\ Bits(2048, 2, 16) = 0 /\ Bits(2048, 2048, 2) = 1
        /\ Bits(2048, 1048576, 2) = 0 /\ Bits(2048, 32, 64) = 0
    BY OffsetBits, SMT
  <2>2. QED
    BY <2>1 DEF EncJ
<1> HIDE DEF a, b
<1>3. /\ FormatOf(a) = "J" /\ FormatOf(b) = "J" /\ Apart(a, b)
      /\ a.rs2 = 0 /\ b.rs2 = 1 /\ a.rd = b.rd
  BY <1>2 DEF Enc, FormatOf, Apart
<1>4. expected_imm(a) = -1048576 /\ expected_imm(b) = 2048
  BY <1>2, SMT DEF Enc, expected_imm, sx
<1>5. QED
  BY <1>1, <1>3, <1>4 DEF a, b

(* The wires a passing harness pins down.                                  *)
LEMMA WiresFound ==
  ASSUME NEW g, IsWiring(g), HarnessPasses(g)
  PROVE  /\ \A j \in 11 .. 31 : g["I"][j] = 31 /\ g["S"][j] = 31
         /\ \A j \in 12 .. 31 : g["B"][j] = 31
         /\ \A j \in 20 .. 31 : g["J"][j] = 31
         /\ g["B"][11] = 7 /\ g["J"][11] = 20
<1>1. \A f \in ImmFormats : \A j \in 0 .. 31 : g[f][j] \in Wires
  BY DEF IsWiring
<1>2. {"I", "S", "B", "J"} \subseteq ImmFormats
  BY DEF ImmFormats
<1>3. ASSUME NEW f \in ImmFormats, NEW a \in RefCases, NEW b \in RefCases,
             FormatOf(a) = f, FormatOf(b) = f, Apart(a, b), NEW j \in 11 .. 31,
             expected_imm(a) \in Int, expected_imm(b) \in Int,
             expected_imm(a) < 0, 0 <= expected_imm(b),
             \/ -2048 <= expected_imm(a) /\ expected_imm(b) < 2048
             \/ -4096 <= expected_imm(a) /\ expected_imm(b) < 4096 /\ j >= 12
             \/ -1048576 <= expected_imm(a) /\ expected_imm(b) < 1048576 /\ j >= 20
      PROVE  g[f][j] = 31
  <2> DEFINE w == g[f][j]
  <2>1. j \in 0 .. 31 /\ w \in Wires
    BY <1>1
  <2>2. Wire(a, w) = BitOf(expected_imm(a), j) /\ Wire(b, w) = BitOf(expected_imm(b), j)
    BY <1>3, <2>1, CaseDriven
  <2>3. BitOf(expected_imm(a), j) = 1
    <3>1. BitOf(expected_imm(a), j) = SignOf(expected_imm(a))
      BY <1>3, SignExtended
    <3>2. QED
      BY <1>3, <3>1 DEF SignOf
  <2>4. BitOf(expected_imm(b), j) = 0
    <3>1. BitOf(expected_imm(b), j) = SignOf(expected_imm(b))
      BY <1>3, SignExtended
    <3>2. QED
      BY <1>3, <3>1 DEF SignOf
  <2> HIDE DEF w
  <2>5. w = 31
    BY <1>3, <2>1, <2>2, <2>3, <2>4, SignWire
  <2>6. QED
    BY <2>5 DEF w
<1>4. ASSUME NEW f \in ImmFormats, NEW a \in RefCases, NEW b \in RefCases,
             FormatOf(a) = f, FormatOf(b) = f, Apart(a, b),
             expected_imm(a) \in {-4096, -1048576}, expected_imm(b) = 2048
      PROVE  \/ g[f][11] \in 7 .. 11 /\ a.rd # b.rd /\ BitOf(b.rd, g[f][11] - 7) = 1
             \/ g[f][11] \in 20 .. 24 /\ a.rs2 # b.rs2 /\ BitOf(b.rs2, g[f][11] - 20) = 1
  <2> DEFINE w == g[f][11]
  <2>1. 11 \in 0 .. 31 /\ w \in Wires
    BY <1>1
  <2>2. Wire(a, w) = BitOf(expected_imm(a), 11) /\ Wire(b, w) = BitOf(expected_imm(b), 11)
    BY <1>4, <2>1, CaseDriven
  <2>3. BitOf(-4096, 11) = 0 /\ BitOf(-1048576, 11) = 0 /\ BitOf(2048, 11) = 1
    BY OffsetBits, SMT
  <2> HIDE DEF w
  <2>4. Wire(a, w) = 0 /\ Wire(b, w) = 1
    BY <1>4, <2>2, <2>3, SMT
  <2>5. \/ w \in 7 .. 11 /\ a.rd # b.rd /\ BitOf(b.rd, w - 7) = 1
        \/ w \in 20 .. 24 /\ a.rs2 # b.rs2 /\ BitOf(b.rs2, w - 20) = 1
    BY <1>4, <2>1, <2>4, LowWire
  <2>6. QED
    BY <2>5 DEF w
<1>5. \A j \in 11 .. 31 : g["I"][j] = 31
  BY <1>2, <1>3, ICases
<1>6. \A j \in 11 .. 31 : g["S"][j] = 31
  BY <1>2, <1>3, SCases
<1>7. \A j \in 12 .. 31 : g["B"][j] = 31
  BY <1>2, <1>3, BCases
<1>8. \A j \in 20 .. 31 : g["J"][j] = 31
  BY <1>2, <1>3, JCases
<1>9. g["B"][11] = 7
  <2>1. g["B"][11] \in 7 .. 11 /\ BitOf(1, g["B"][11] - 7) = 1
    BY <1>2, <1>4, BCases
  <2>2. QED
    BY <2>1, OneBit
<1>10. g["J"][11] = 20
  <2>1. g["J"][11] \in 20 .. 24 /\ BitOf(1, g["J"][11] - 20) = 1
    BY <1>2, <1>4, JCases
  <2>2. QED
    BY <2>1, OneBit
<1>11. QED
  BY <1>5, <1>6, <1>7, <1>8, <1>9, <1>10
-----------------------------------------------------------------------------
(* The bits those wires drive.                                             *)
LEMMA ImmediateRange ==
  ASSUME NEW e \in Instr
  PROVE  LET v == Immediate(e)  f == FormatOf(e) IN
         /\ v \in Int
         /\ f \in {"I", "S"} => -2048 <= v /\ v < 2048
         /\ f = "B" => -4096 <= v /\ v < 4096
         /\ f = "J" => -1048576 <= v /\ v < 1048576
         /\ f \in {"I", "S", "B", "J"} => SignOf(v) = SignBit(e)
<1> DEFINE f7 == e.funct7
           rd == e.rd
           rs1 == e.rs1
           rs2 == e.rs2
           f3 == e.funct3
           s  == SignBit(e)
<1>1. f7 \in 0 .. 127 /\ rd \in 0 .. 31 /\ rs1 \in 0 .. 31 /\ rs2 \in 0 .. 31 /\ f3 \in 0 .. 7
  BY DEF Instr, RegIdx
<1>2. s \in {0, 1} /\ f7 = 64 * s + (f7 % 64) /\ f7 % 64 \in 0 .. 63
  <2>1. s = f7 \div 64
    BY DEF SignBit
  <2> HIDE DEF s, f7
  <2>2. s \in {0, 1}
    BY <1>1, <2>1, SMT
  <2>3. f7 % 64 \in 0 .. 63
    BY <1>1, SMT
  <2>4. f7 = 64 * s + (f7 % 64)
    BY <1>1, <2>1, SMT
  <2>5. QED
    BY <2>2, <2>3, <2>4
<1>3. /\ rd % 2 \in 0 .. 1 /\ rd \div 2 \in 0 .. 15
      /\ rs2 % 2 \in 0 .. 1 /\ rs2 \div 2 \in 0 .. 15
  BY <1>1
<1>4. /\ ImmI(e) = (f7 * 32 + rs2) - 4096 * s
      /\ ImmS(e) = f7 * 32 + rd - 4096 * s
      /\ ImmB(e) = - 4096 * s + 2048 * (rd % 2) + 32 * (f7 % 64) + 2 * (rd \div 2)
      /\ ImmJ(e) = - 1048576 * s + 4096 * (rs1 * 8 + f3) + 2048 * (rs2 % 2)
                     + 32 * (f7 % 64) + 2 * (rs2 \div 2)
      /\ ImmU(e) = 4096 * (f7 * 8192 + rs2 * 256 + rs1 * 8 + f3 - 1048576 * s)
  <2>1. ImmI(e) = (f7 * 32 + rs2) - 4096 * s
    BY DEF ImmI, Imm12
  <2>6. ImmS(e) = f7 * 32 + rd - 4096 * s
    BY DEF ImmS
  <2>2. ImmB(e) = - 4096 * s + 2048 * (rd % 2) + 32 * (f7 % 64) + 2 * (rd \div 2)
    BY SMT DEF ImmB
  <2>3. ImmJ(e) = - 1048576 * s + 4096 * (rs1 * 8 + f3) + 2048 * (rs2 % 2)
                    + 32 * (f7 % 64) + 2 * (rs2 \div 2)
    BY SMT DEF ImmJ
  <2>4. ImmU(e) = 4096 * (f7 * 8192 + rs2 * 256 + rs1 * 8 + f3 - 1048576 * s)
    BY SMT DEF ImmU
  <2>5. QED
    BY <2>1, <2>2, <2>3, <2>4, <2>6
<1> DEFINE b == f7 % 64
           p == rd % 2
           q == rd \div 2
           x == rs2 % 2
           y == rs2 \div 2
<1> HIDE DEF f7, rd, rs1, rs2, f3, s, b, p, q, x, y
<1>5. ImmI(e) \in Int /\ -2048 <= ImmI(e) /\ ImmI(e) < 2048 /\ SignOf(ImmI(e)) = s
  <2>1. ImmI(e) = 32 * b + rs2 - 2048 * s
    BY <1>1, <1>2, <1>4, SMT DEF b
  <2>2. b \in 0 .. 63
    BY <1>2 DEF b
  <2>3. QED
    BY <1>1, <1>2, <2>1, <2>2, SMT DEF SignOf
<1>6. ImmS(e) \in Int /\ -2048 <= ImmS(e) /\ ImmS(e) < 2048 /\ SignOf(ImmS(e)) = s
  <2>1. ImmS(e) = 32 * b + rd - 2048 * s
    BY <1>1, <1>2, <1>4, SMT DEF b
  <2>2. b \in 0 .. 63
    BY <1>2 DEF b
  <2>3. QED
    BY <1>1, <1>2, <2>1, <2>2, SMT DEF SignOf
<1>7. ImmB(e) \in Int /\ -4096 <= ImmB(e) /\ ImmB(e) < 4096 /\ SignOf(ImmB(e)) = s
  <2>1. ImmB(e) = - 4096 * s + 2048 * p + 32 * b + 2 * q
    BY <1>4 DEF b, p, q
  <2>2. b \in 0 .. 63 /\ p \in 0 .. 1 /\ q \in 0 .. 15
    BY <1>2, <1>3 DEF b, p, q
  <2>3. QED
    BY <1>2, <2>1, <2>2, SMT DEF SignOf
<1>8. ImmJ(e) \in Int /\ -1048576 <= ImmJ(e) /\ ImmJ(e) < 1048576 /\ SignOf(ImmJ(e)) = s
  <2>1. ImmJ(e) = - 1048576 * s + 4096 * (rs1 * 8 + f3) + 2048 * x + 32 * b + 2 * y
    BY <1>4 DEF b, x, y
  <2>2. b \in 0 .. 63 /\ x \in 0 .. 1 /\ y \in 0 .. 15
    BY <1>2, <1>3 DEF b, x, y
  <2>3. QED
    BY <1>1, <1>2, <2>1, <2>2, SMT DEF SignOf
<1>9. ImmU(e) \in Int
  BY <1>1, <1>2, <1>4, SMT
<1>10. /\ Immediate(e) \in Int
       /\ FormatOf(e) = "I" => Immediate(e) = ImmI(e)
       /\ FormatOf(e) = "S" => Immediate(e) = ImmS(e)
       /\ FormatOf(e) = "B" => Immediate(e) = ImmB(e)
       /\ FormatOf(e) = "J" => Immediate(e) = ImmJ(e)
  BY <1>5, <1>6, <1>7, <1>8, <1>9 DEF Immediate, ImmGen
<1>11. QED
  BY <1>5, <1>6, <1>7, <1>8, <1>10 DEF s

(* Bit 11 of a branch and of a jump.                                       *)
LEMMA BitEleven ==
  ASSUME NEW e \in Instr
  PROVE  /\ BitOf(ImmB(e), 11) = e.rd % 2
         /\ BitOf(ImmJ(e), 11) = e.rs2 % 2
<1> DEFINE f7 == e.funct7
           rd == e.rd
           rs1 == e.rs1
           rs2 == e.rs2
           f3 == e.funct3
           s  == SignBit(e)
           b == f7 % 64
           p == rd % 2
           q == rd \div 2
           x == rs2 % 2
           y == rs2 \div 2
           h == rs1 * 8 + f3
<1>1. f7 \in 0 .. 127 /\ rd \in 0 .. 31 /\ rs1 \in 0 .. 31 /\ rs2 \in 0 .. 31 /\ f3 \in 0 .. 7
  BY DEF Instr, RegIdx
<1>2. s \in {0, 1} /\ b \in 0 .. 63 /\ p \in {0, 1} /\ q \in 0 .. 15 /\ x \in {0, 1}
      /\ y \in 0 .. 15 /\ h \in Nat
  BY <1>1 DEF SignBit
<1>3. /\ ImmB(e) = - 4096 * s + 2048 * p + 32 * b + 2 * q
      /\ ImmJ(e) = - 1048576 * s + 4096 * h + 2048 * x + 32 * b + 2 * y
  BY DEF ImmB, ImmJ
<1> HIDE DEF f7, rd, rs1, rs2, f3, s, b, p, q, x, y, h
<1>4. \A v \in Int : BitOf(v, 11) = (v \div 2048) % 2
  BY SMT, WeightFacts DEF BitOf
<1>5. BitOf(ImmB(e), 11) = p
  <2>1. ImmB(e) \in Int /\ ImmB(e) \div 2048 = p - 2 * s
    BY <1>2, <1>3, SMT
  <2>2. (p - 2 * s) % 2 = p
    BY <1>2, SMT
  <2>3. QED
    BY <1>4, <2>1, <2>2
<1>6. BitOf(ImmJ(e), 11) = x
  <2>1. ImmJ(e) \in Int /\ ImmJ(e) \div 2048 = x + 2 * (h - 256 * s)
    BY <1>2, <1>3, SMT
  <2>2. (x + 2 * (h - 256 * s)) % 2 = x
    BY <1>2, SMT
  <2>3. QED
    BY <1>4, <2>1, <2>2
<1>7. QED
  BY <1>5, <1>6 DEF p, x, rd, rs2

LEMMA WireValues ==
  ASSUME NEW e \in Instr
  PROVE  /\ Wire(e, 31) = SignBit(e)
         /\ Wire(e, 7) = e.rd % 2
         /\ Wire(e, 20) = e.rs2 % 2
<1>1. e.funct7 \in 0 .. 127 /\ e.rd \in 0 .. 31 /\ e.rs2 \in 0 .. 31
  BY DEF Instr, RegIdx
<1>2. /\ Wire(e, 31) = (e.funct7 \div 64) % 2
      /\ Wire(e, 7) = (e.rd \div 1) % 2
      /\ Wire(e, 20) = (e.rs2 \div 1) % 2
  BY WeightFacts DEF Wire, BitOf
<1>3. QED
  BY <1>1, <1>2 DEF SignBit

(* The reference cases tell the sign, its extension and bit 11 of a branch *)
(* or a jump from every other wire: a generator that passes the harness    *)
(* drives them right for every instruction (gen_ref.py:107-132).           *)
THEOREM CasesTellApart ==
  ASSUME NEW g \in [ImmFormats -> [0 .. 31 -> Wires]], HarnessPasses(g),
         NEW e \in Instr, NEW j \in ToldApart(FormatOf(e))
  PROVE  Driven(g, e, j) = BitOf(Immediate(e), j)
<1> DEFINE f == FormatOf(e)
           v == Immediate(e)
<1>1. /\ \A k \in 11 .. 31 : g["I"][k] = 31 /\ g["S"][k] = 31
      /\ \A k \in 12 .. 31 : g["B"][k] = 31
      /\ \A k \in 20 .. 31 : g["J"][k] = 31
      /\ g["B"][11] = 7 /\ g["J"][11] = 20
  BY WiresFound DEF IsWiring
<1>2. /\ v \in Int
      /\ f \in {"I", "S"} => -2048 <= v /\ v < 2048
      /\ f = "B" => -4096 <= v /\ v < 4096
      /\ f = "J" => -1048576 <= v /\ v < 1048576
      /\ f \in {"I", "S", "B", "J"} => SignOf(v) = SignBit(e)
  BY ImmediateRange
<1>3. f \in {"I", "S", "B", "J"}
  BY DEF ToldApart
<1>4. Driven(g, e, j) = Wire(e, g[f][j])
  BY <1>3 DEF Driven, ImmFormats
<1>5. CASE j = 11 /\ f \in {"B", "J"}
  <2>1. /\ f = "B" => v = ImmB(e)
        /\ f = "J" => v = ImmJ(e)
    BY DEF Immediate, ImmGen
  <2> HIDE DEF v, f
  <2>2. /\ f = "B" => Driven(g, e, j) = e.rd % 2
        /\ f = "J" => Driven(g, e, j) = e.rs2 % 2
    BY <1>1, <1>4, <1>5, WireValues
  <2>3. Driven(g, e, j) = BitOf(v, j)
    BY <1>5, <2>1, <2>2, BitEleven
  <2>4. QED
    BY <2>3 DEF v
<1>6. CASE ~ (j = 11 /\ f \in {"B", "J"})
  <2>1. /\ f \in {"I", "S"} => j \in 11 .. 31
        /\ f = "B" => j \in 12 .. 31
        /\ f = "J" => j \in 20 .. 31
    BY <1>6 DEF ToldApart
  <2> HIDE DEF v, f
  <2>2. Driven(g, e, j) = SignBit(e)
    BY <1>1, <1>3, <1>4, <2>1, WireValues
  <2>3. BitOf(v, j) = SignOf(v)
    <3>1. /\ j \in 11 .. 31
          /\ \/ -2048 <= v /\ v < 2048
             \/ -4096 <= v /\ v < 4096 /\ j >= 12
             \/ -1048576 <= v /\ v < 1048576 /\ j >= 20
      BY <1>2, <1>3, <2>1, SMT
    <3>2. QED
      BY <1>2, <3>1, SignExtended
  <2>4. Driven(g, e, j) = BitOf(v, j)
    BY <1>2, <1>3, <2>2, <2>3
  <2>5. QED
    BY <2>4 DEF v
<1>7. QED
  BY <1>5, <1>6

LEMMA EncodingsAreInstructions == Encodings \subseteq Instr
BY DEF Encodings, Enc, Instr, RegIdx

(* HarnessSeparates for every design: whatever wires its immediate         *)
(* generator takes each bit from.                                          *)
THEOREM HarnessTells == Spec => []HarnessSeparates
<1>1. Inv /\ CovInv => HarnessSeparates
  <2> SUFFICES ASSUME Inv, CovInv, l1.results["coverage"] = "PASS"
               PROVE  Right[copy.imm]
    BY DEF HarnessSeparates
  <2> DEFINE g == copy.imm
  <2>1. g \in Generators /\ Passing(copy, built.elf) = CovRuns
    BY DEF CovInv, CovTyped, Reported
  <2>2. PICK t \in Trees : g = t.imm
    BY <2>1 DEF Generators
  <2>3. g \in [ImmFormats -> [0 .. 31 -> Wires]]
    BY <2>2, RegressionAssumption DEF IsTree
  <2>4. RunPasses(copy, built.elf, "decoder") /\ "decoder" \notin Programs
    BY <2>1, RegressionAssumption DEF Passing, CovRuns
  <2>5. HarnessPasses(g)
    BY <2>1, <2>4 DEF RunPasses, DecoderPasses
  <2> HIDE DEF g
  <2>6. \A e \in Encodings : \A j \in ToldApart(FormatOf(e)) :
          Driven(g, e, j) = BitOf(Immediate(e), j)
    BY <2>3, <2>5, CasesTellApart, EncodingsAreInstructions
  <2>7. Right[g]
    BY <2>1, <2>6 DEF Right
  <2>8. QED
    BY <2>7 DEF g
<1>2. QED
  BY <1>1, CovInvHolds, PTL

-----------------------------------------------------------------------------
(* A field's bits, wherever the field stands in an immediate.              *)
LEMMA BitIs ==
  ASSUME NEW v \in Int, NEW j \in 0 .. 30
  PROVE  BitOf(v, j) = (v \div Weight[j + 1]) % 2
BY DEF BitOf

LEMMA Shifted ==
  ASSUME NEW lo \in {0, 1, 5, 12, 15, 20, 25}, NEW k \in 0 .. 5,
         NEW X \in Int, NEW L \in Nat, L < Weight[lo + 1]
  PROVE  BitOf(X * Weight[lo + 1] + L, lo + k) = BitOf(X, k)
<1>1. k \in {0, 1, 2, 3, 4, 5}
  OBVIOUS
<1> DEFINE K == Weight[k + 1]
<1>2. BitOf(X, k) = (X \div K) % 2
  BY BitIs
<1>3. ASSUME NEW P \in {1, 2, 32, 4096, 32768, 1048576, 33554432}, Weight[lo + 1] = P,
             Weight[lo + k + 1] = P * K
      PROVE  BitOf(X * Weight[lo + 1] + L, lo + k) = BitOf(X, k)
  <2>1. X * P + L \in Int /\ lo + k \in 0 .. 30 /\ lo + k + 1 = (lo + k) + 1
    BY <1>3
  <2>2. BitOf(X * P + L, lo + k) = ((X * P + L) \div (P * K)) % 2
    BY <1>3, <2>1, BitIs
  <2>3. K \in {1, 2, 4, 8, 16, 32}
    BY <1>1, WeightFacts
  <2>4. L < P
    BY <1>3
  <2> HIDE DEF K
  <2>5. (X * P + L) \div (P * K) = X \div K
    <3>1. CASE P = 1
      BY <2>3, <2>4, <3>1, SMT
    <3>2. CASE P = 2
      BY <2>3, <2>4, <3>2, SMT
    <3>3. CASE P = 32
      BY <2>3, <2>4, <3>3, SMT
    <3>4. CASE P = 4096
      BY <2>3, <2>4, <3>4, SMT
    <3>5. CASE P = 32768
      BY <2>3, <2>4, <3>5, SMT
    <3>6. CASE P = 1048576
      BY <2>3, <2>4, <3>6, SMT
    <3>7. CASE P = 33554432
      BY <2>3, <2>4, <3>7, SMT
    <3>8. QED
      BY <1>3, <3>1, <3>2, <3>3, <3>4, <3>5, <3>6, <3>7, SMT
  <2>6. QED
    BY <1>2, <1>3, <2>2, <2>5, SMT
<1>4. \E P \in {1, 2, 32, 4096, 32768, 1048576, 33554432} :
        Weight[lo + 1] = P /\ Weight[lo + k + 1] = P * K
  <2>1. CASE lo \in {0, 1}
    BY <1>1, <2>1, WeightFacts, SMT
  <2>2. CASE lo \in {5, 12}
    BY <1>1, <2>2, WeightFacts, SMT
  <2>3. CASE lo \in {15, 20}
    BY <1>1, <2>3, WeightFacts, SMT
  <2>4. CASE lo = 25
    BY <1>1, <2>4, WeightFacts, SMT
  <2>5. QED
    BY <2>1, <2>2, <2>3, <2>4, SMT
<1>5. QED
  BY <1>3, <1>4

LEMMA Masked ==
  ASSUME NEW n \in {3, 4, 5, 6}, NEW k \in 0 .. 5, k < n, NEW A \in Int, NEW F \in Int
  PROVE  BitOf(A * Weight[n + 1] + F, k) = BitOf(F, k)
<1>1. k \in {0, 1, 2, 3, 4, 5}
  OBVIOUS
<1> DEFINE K == Weight[k + 1]
<1>2. K \in {1, 2, 4, 8, 16, 32}
  BY <1>1, WeightFacts
<1>3. Weight[n + 1] \in {8, 16, 32, 64} /\ Weight[n + 1] > K
  BY <1>1, WeightFacts, SMT
<1> DEFINE N == Weight[n + 1]
<1>4. A * N + F \in Int
  BY <1>3
<1>5. BitOf(A * N + F, k) = ((A * N + F) \div K) % 2 /\ BitOf(F, k) = (F \div K) % 2
  BY <1>4, BitIs
<1> HIDE DEF K, N
<1>6. ((A * N + F) \div K) % 2 = (F \div K) % 2
  <2>0. N \in {8, 16, 32, 64} /\ N > K
    BY <1>3 DEF N
  <2>1. CASE N = 8
    BY <1>2, <2>0, <2>1, SMT
  <2>2. CASE N = 16
    BY <1>2, <2>0, <2>2, SMT
  <2>3. CASE N = 32
    BY <1>2, <2>0, <2>3, SMT
  <2>4. CASE N = 64
    BY <1>2, <2>0, <2>4, SMT
  <2>5. QED
    BY <2>0, <2>1, <2>2, <2>3, <2>4
<1>7. QED
  BY <1>5, <1>6 DEF N

(* v holds a field F of n bits from bit lo on, between others above and    *)
(* below.                                                                  *)
Field(v, lo, n, F) ==
  \E A \in Int : \E L \in Nat :
    L < Weight[lo + 1] /\ v = (A * Weight[n + 1] + F) * Weight[lo + 1] + L

LEMMA FieldBits ==
  ASSUME NEW lo \in {0, 1, 5, 12, 15, 20, 25}, NEW n \in {3, 4, 5, 6}, NEW k \in 0 .. 5,
         k < n, NEW F \in Int, NEW v, Field(v, lo, n, F)
  PROVE  BitOf(v, lo + k) = BitOf(F, k)
<1>1. PICK A \in Int : \E L \in Nat :
        L < Weight[lo + 1] /\ v = (A * Weight[n + 1] + F) * Weight[lo + 1] + L
  BY DEF Field
<1>2. PICK L \in Nat :
        L < Weight[lo + 1] /\ v = (A * Weight[n + 1] + F) * Weight[lo + 1] + L
  BY <1>1
<1>3. A * Weight[n + 1] + F \in Int
  BY WeightFacts, SMT
<1>4. BitOf(v, lo + k) = BitOf(A * Weight[n + 1] + F, k)
  BY <1>2, <1>3, Shifted
<1>5. QED
  BY <1>4, Masked

(* The fields of an instruction, and the immediates made of them.          *)
LEMMA Parts ==
  ASSUME NEW e \in Instr
  PROVE  LET s == SignBit(e)  b == e.funct7 % 64 IN
         /\ e.rd \in 0 .. 31 /\ e.rs1 \in 0 .. 31 /\ e.rs2 \in 0 .. 31 /\ e.funct3 \in 0 .. 7
         /\ s \in {0, 1} /\ b \in 0 .. 63 /\ e.funct7 = 64 * s + b
         /\ e.rd % 2 \in {0, 1} /\ e.rd \div 2 \in 0 .. 15 /\ e.rd = 2 * (e.rd \div 2) + (e.rd % 2)
         /\ e.rs2 % 2 \in {0, 1} /\ e.rs2 \div 2 \in 0 .. 15 /\ e.rs2 = 2 * (e.rs2 \div 2) + (e.rs2 % 2)
         /\ ImmI(e) = (32 * b + e.rs2) - 2048 * s
         /\ ImmS(e) = (32 * b + e.rd) - 2048 * s
         /\ ImmB(e) = (2048 * (e.rd % 2) + 32 * b + 2 * (e.rd \div 2)) - 4096 * s
         /\ ImmJ(e) = (4096 * (e.rs1 * 8 + e.funct3) + 2048 * (e.rs2 % 2) + 32 * b
                         + 2 * (e.rs2 \div 2)) - 1048576 * s
         /\ ImmU(e) = (33554432 * b + 1048576 * e.rs2 + 32768 * e.rs1 + 4096 * e.funct3)
                        - 2147483648 * s
<1> DEFINE f7 == e.funct7
           rd == e.rd
           rs1 == e.rs1
           rs2 == e.rs2
           f3 == e.funct3
           s  == SignBit(e)
           b  == f7 % 64
           p  == rd % 2
           q  == rd \div 2
           x  == rs2 % 2
           y  == rs2 \div 2
<1>1. f7 \in 0 .. 127 /\ rd \in 0 .. 31 /\ rs1 \in 0 .. 31 /\ rs2 \in 0 .. 31 /\ f3 \in 0 .. 7
  BY DEF Instr, RegIdx
<1>2. s \in {0, 1} /\ b \in 0 .. 63 /\ f7 = 64 * s + b
  <2>1. s = f7 \div 64
    BY DEF SignBit
  <2> HIDE DEF s, f7
  <2>2. s \in {0, 1}
    BY <1>1, <2>1, SMT
  <2>3. f7 % 64 \in 0 .. 63
    BY <1>1, SMT
  <2>4. f7 = 64 * s + (f7 % 64)
    BY <1>1, <2>1, SMT
  <2>5. QED
    BY <2>2, <2>3, <2>4
<1>3. p \in {0, 1} /\ q \in 0 .. 15 /\ rd = 2 * q + p
  <2> HIDE DEF rd
  <2> QED  BY <1>1, SMT
<1>4. x \in {0, 1} /\ y \in 0 .. 15 /\ rs2 = 2 * y + x
  <2> HIDE DEF rs2
  <2> QED  BY <1>1, SMT
<1>5. ImmI(e) = (f7 * 32 + rs2) - 4096 * s
  BY SMT DEF ImmI, Imm12
<1>6. ImmS(e) = f7 * 32 + rd - 4096 * s
  BY SMT DEF ImmS
<1>7. ImmB(e) = - 4096 * s + 2048 * p + 32 * b + 2 * q
  BY SMT DEF ImmB
<1>8. ImmJ(e) = - 1048576 * s + 4096 * (rs1 * 8 + f3) + 2048 * x + 32 * b + 2 * y
  BY SMT DEF ImmJ
<1>9. ImmU(e) = 4096 * (f7 * 8192 + rs2 * 256 + rs1 * 8 + f3 - 1048576 * s)
  BY SMT DEF ImmU
<1> HIDE DEF f7, rd, rs1, rs2, f3, s, b, p, q, x, y
<1>10. ImmI(e) = (32 * b + rs2) - 2048 * s /\ ImmS(e) = (32 * b + rd) - 2048 * s
  BY <1>1, <1>2, <1>5, <1>6, SMT
<1>11. ImmB(e) = (2048 * p + 32 * b + 2 * q) - 4096 * s
  BY <1>2, <1>3, <1>7, SMT
<1>12. ImmJ(e) = (4096 * (rs1 * 8 + f3) + 2048 * x + 32 * b + 2 * y) - 1048576 * s
  BY <1>1, <1>2, <1>4, <1>8, SMT
<1>13. ImmU(e) = (33554432 * b + 1048576 * rs2 + 32768 * rs1 + 4096 * f3) - 2147483648 * s
  BY <1>1, <1>2, <1>9, SMT
<1>14. QED
  BY <1>1, <1>2, <1>3, <1>4, <1>10, <1>11, <1>12, <1>13
     DEF f7, rd, rs1, rs2, f3, s, b, p, q, x, y

(* The format tables of gen_ref.py give the immediate of the architecture, *)
(* for every instruction a reference case could be (gen_ref.py:48-76).     *)
THEOREM ReferenceIsImmediate ==
  ASSUME NEW e \in Instr
  PROVE  expected_imm(e) = Immediate(e)
<1> DEFINE f7 == e.funct7
           rd == e.rd
           rs1 == e.rs1
           rs2 == e.rs2
           f3 == e.funct3
           s  == SignBit(e)
           b  == f7 % 64
           p  == rd % 2
           q  == rd \div 2
           x  == rs2 % 2
           y  == rs2 \div 2
<1>1. /\ rd \in 0 .. 31 /\ rs1 \in 0 .. 31 /\ rs2 \in 0 .. 31 /\ f3 \in 0 .. 7
      /\ s \in {0, 1} /\ b \in 0 .. 63 /\ f7 = 64 * s + b /\ s = f7 \div 64
      /\ p \in {0, 1} /\ q \in 0 .. 15 /\ x \in {0, 1} /\ y \in 0 .. 15
  BY Parts DEF SignBit
<1>2. /\ ImmI(e) = (32 * b + rs2) - 2048 * s
      /\ ImmS(e) = (32 * b + rd) - 2048 * s
      /\ ImmB(e) = (2048 * p + 32 * b + 2 * q) - 4096 * s
      /\ ImmJ(e) = (4096 * (rs1 * 8 + f3) + 2048 * x + 32 * b + 2 * y) - 1048576 * s
      /\ ImmU(e) = (33554432 * b + 1048576 * rs2 + 32768 * rs1 + 4096 * f3) - 2147483648 * s
  BY Parts
<1>3. /\ FormatOf(e) = "I" => expected_imm(e) = sx(f7 * 32 + rs2, 4096)
      /\ FormatOf(e) = "S" => expected_imm(e) = sx(f7 * 32 + rd, 4096)
      /\ FormatOf(e) \in {"R", "NONE"} => expected_imm(e) = 0
  BY DEF expected_imm, FormatOf
<1>4. FormatOf(e) = "B" =>
        expected_imm(e) = sx((f7 \div 64) * 4096 + p * 2048 + b * 32 + q * 2, 8192)
  BY DEF expected_imm, FormatOf
<1>5. FormatOf(e) = "J" =>
        expected_imm(e) = sx((f7 \div 64) * 1048576 + (rs1 * 8 + f3) * 4096 + x * 2048
                               + b * 32 + y * 2, 2097152)
  BY SMT DEF expected_imm, FormatOf
<1>6. FormatOf(e) = "U" =>
        expected_imm(e) = sx(f7 * 8192 + rs2 * 256 + rs1 * 8 + f3, 1048576) * 4096
  BY SMT DEF expected_imm, FormatOf
<1> HIDE DEF f7, rd, rs1, rs2, f3, s, b, p, q, x, y
<1>7. sx(f7 * 32 + rs2, 4096) = ImmI(e) /\ sx(f7 * 32 + rd, 4096) = ImmS(e)
  BY <1>1, <1>2, SMT DEF sx
<1>8. sx((f7 \div 64) * 4096 + p * 2048 + b * 32 + q * 2, 8192) = ImmB(e)
  BY <1>1, <1>2, SMT DEF sx
<1>9. sx((f7 \div 64) * 1048576 + (rs1 * 8 + f3) * 4096 + x * 2048 + b * 32 + y * 2, 2097152)
        = ImmJ(e)
  BY <1>1, <1>2, SMT DEF sx
<1>10. sx(f7 * 8192 + rs2 * 256 + rs1 * 8 + f3, 1048576) * 4096 = ImmU(e)
  BY <1>1, <1>2, SMT DEF sx
<1>11. FormatOf(e) \in {"I", "S", "B", "J", "U", "R", "NONE"}
  BY DEF FormatOf, Instr, Opcode
<1>12. QED
  BY <1>3, <1>4, <1>5, <1>6, <1>7, <1>8, <1>9, <1>10, <1>11, SMT DEF Immediate, ImmGen

(* The bits of the fields, as the wires carry them.                        *)
LEMMA FieldWires ==
  ASSUME NEW e \in Instr
  PROVE  LET b == e.funct7 % 64 IN
         /\ \A k \in 0 .. 5 : Wire(e, k + 25) = BitOf(b, k)
         /\ \A k \in 0 .. 4 : Wire(e, k + 7) = BitOf(e.rd, k) /\ Wire(e, k + 20) = BitOf(e.rs2, k)
         /\ \A k \in 0 .. 3 : /\ Wire(e, k + 8) = BitOf(e.rd \div 2, k)
                              /\ Wire(e, k + 21) = BitOf(e.rs2 \div 2, k)
         /\ \A k \in 0 .. 2 : Wire(e, k + 12) = BitOf(e.funct3, k)
         /\ \A k \in 0 .. 4 : Wire(e, k + 15) = BitOf(e.rs1, k)
         /\ Wire(e, 0) = 0
<1> DEFINE b == e.funct7 % 64
<1>1. /\ SignBit(e) \in {0, 1} /\ b \in 0 .. 63 /\ e.funct7 = 64 * SignBit(e) + b
      /\ e.rd % 2 \in {0, 1} /\ e.rd \div 2 \in 0 .. 15 /\ e.rd = 2 * (e.rd \div 2) + (e.rd % 2)
      /\ e.rs2 % 2 \in {0, 1} /\ e.rs2 \div 2 \in 0 .. 15 /\ e.rs2 = 2 * (e.rs2 \div 2) + (e.rs2 % 2)
  BY Parts
<1> HIDE DEF b
<1>2. ASSUME NEW k \in 0 .. 5 PROVE Wire(e, k + 25) = BitOf(b, k)
  <2>1. Wire(e, k + 25) = BitOf(e.funct7, k)
    BY DEF Wire
  <2>2. e.funct7 = SignBit(e) * Weight[6 + 1] + b
    BY <1>1, WeightFacts, SMT
  <2>3. BitOf(e.funct7, k) = BitOf(b, k)
    BY <1>1, <2>2, Masked
  <2>4. QED
    BY <2>1, <2>3
<1>3. \A k \in 0 .. 4 : Wire(e, k + 7) = BitOf(e.rd, k) /\ Wire(e, k + 20) = BitOf(e.rs2, k)
  BY DEF Wire
<1>4. ASSUME NEW r \in Nat, NEW q \in Nat, NEW p \in {0, 1}, r = 2 * q + p, NEW k \in 0 .. 3
      PROVE  BitOf(r, k + 1) = BitOf(q, k)
  <2>1. r = q * Weight[1 + 1] + p /\ p < Weight[1 + 1]
    BY <1>4, WeightFacts, SMT
  <2>2. BitOf(r, 1 + k) = BitOf(q, k)
    BY <1>4, <2>1, Shifted
  <2>3. 1 + k = k + 1
    BY <1>4
  <2>4. QED
    BY <2>2, <2>3
<1>5. ASSUME NEW k \in 0 .. 3
      PROVE  /\ Wire(e, k + 8) = BitOf(e.rd \div 2, k)
             /\ Wire(e, k + 21) = BitOf(e.rs2 \div 2, k)
  <2>1. k + 1 \in 0 .. 4 /\ (k + 1) + 7 = k + 8 /\ (k + 1) + 20 = k + 21
    BY <1>5
  <2>2. Wire(e, k + 8) = BitOf(e.rd, k + 1) /\ Wire(e, k + 21) = BitOf(e.rs2, k + 1)
    BY <1>3, <2>1
  <2>3. e.rd \in Nat /\ e.rs2 \in Nat /\ e.rd \div 2 \in Nat /\ e.rs2 \div 2 \in Nat
    <3>1. e.rd \in 0 .. 31 /\ e.rs2 \in 0 .. 31
      BY Parts
    <3>2. e.rd \in Nat /\ e.rs2 \in Nat
      BY <3>1, SMT
    <3>3. \A z \in 0 .. 15 : z \in Nat
      OBVIOUS
    <3>4. QED
      BY <1>1, <3>2, <3>3, Zenon
  <2>4. QED
    BY <1>1, <1>4, <2>2, <2>3
<1>6. /\ \A k \in 0 .. 2 : Wire(e, k + 12) = BitOf(e.funct3, k)
      /\ \A k \in 0 .. 4 : Wire(e, k + 15) = BitOf(e.rs1, k)
      /\ Wire(e, 0) = 0
  BY DEF Wire
<1>7. QED
  BY <1>2, <1>3, <1>5, <1>6 DEF b

LEMMA ImmGenWires ==
  /\ \A j \in 0 .. 31 :
       /\ imm_gen["I"][j] = IF j <= 10 THEN j + 20 ELSE 31
       /\ imm_gen["S"][j] = IF j <= 4 THEN j + 7 ELSE IF j <= 10 THEN j + 20 ELSE 31
       /\ imm_gen["B"][j] = IF j = 0 THEN 0 ELSE IF j <= 4 THEN j + 7
                            ELSE IF j <= 10 THEN j + 20 ELSE IF j = 11 THEN 7 ELSE 31
       /\ imm_gen["U"][j] = IF j <= 11 THEN 0 ELSE j
       /\ imm_gen["J"][j] = IF j = 0 THEN 0 ELSE IF j <= 10 THEN j + 20
                            ELSE IF j = 11 THEN 20 ELSE IF j <= 19 THEN j ELSE 31
BY DEF imm_gen, ImmFormats

(* The bits below an immediate's lowest are zero.                          *)
LEMMA LowBits ==
  ASSUME NEW v \in Int, NEW A \in Int
  PROVE  /\ v = 2 * A => BitOf(v, 0) = 0
         /\ v = 4096 * A => \A j \in 0 .. 11 : BitOf(v, j) = 0
<1>1. v = 2 * A => BitOf(v, 0) = 0
  BY WeightFacts, SMT DEF BitOf
<1>2. ASSUME v = 4096 * A, NEW j \in 0 .. 11 PROVE BitOf(v, j) = 0
  <2>1. j \in {0, 1, 2, 3, 4, 5, 6, 7, 8, 9, 10, 11}
    BY <1>2
  <2>2. Weight[j + 1] \in {1, 2, 4, 8, 16, 32, 64, 128, 256, 512, 1024, 2048}
    BY <2>1, WeightFacts, SMT
  <2> DEFINE W == Weight[j + 1]
  <2>3. BitOf(v, j) = (v \div W) % 2
    BY <1>2 DEF BitOf
  <2> HIDE DEF W
  <2>4. ((4096 * A) \div W) % 2 = 0
    BY <2>2, SMT DEF W
  <2>5. QED
    BY <1>2, <2>3, <2>4
<1>3. QED
  BY <1>1, <1>2

(* imm_gen.sv drives every bit of the immediate of every instruction, not  *)
(* of the reference cases alone (imm_gen.sv:30-54).                        *)
THEOREM ImmGenIsRight ==
  ASSUME NEW e \in Instr, NEW j \in 0 .. 31
  PROVE  Driven(imm_gen, e, j) = BitOf(Immediate(e), j)
<1> DEFINE rd == e.rd
           rs1 == e.rs1
           rs2 == e.rs2
           f3 == e.funct3
           s  == SignBit(e)
           b  == e.funct7 % 64
           p  == rd % 2
           q  == rd \div 2
           x  == rs2 % 2
           y  == rs2 \div 2
           f  == FormatOf(e)
           v  == Immediate(e)
           wire(w) == Wire(e, w)
<1>1. /\ rd \in 0 .. 31 /\ rs1 \in 0 .. 31 /\ rs2 \in 0 .. 31 /\ f3 \in 0 .. 7
      /\ s \in {0, 1} /\ b \in 0 .. 63
      /\ p \in {0, 1} /\ q \in 0 .. 15 /\ x \in {0, 1} /\ y \in 0 .. 15
  BY Parts
<1>2. /\ f = "I" => v = (32 * b + rs2) - 2048 * s
      /\ f = "S" => v = (32 * b + rd) - 2048 * s
      /\ f = "B" => v = (2048 * p + 32 * b + 2 * q) - 4096 * s
      /\ f = "J" => v = (4096 * (rs1 * 8 + f3) + 2048 * x + 32 * b + 2 * y) - 1048576 * s
      /\ f = "U" => v = (33554432 * b + 1048576 * rs2 + 32768 * rs1 + 4096 * f3)
                          - 2147483648 * s
      /\ f \in {"R", "NONE"} => v = 0
  BY Parts DEF Immediate, ImmGen
<1>3. /\ v \in Int
      /\ f \in {"I", "S"} => -2048 <= v /\ v < 2048
      /\ f = "B" => -4096 <= v /\ v < 4096
      /\ f = "J" => -1048576 <= v /\ v < 1048576
      /\ f \in {"I", "S", "B", "J"} => SignOf(v) = s
  BY ImmediateRange
<1>4. /\ wire(31) = s /\ wire(0) = 0
      /\ \A k \in 0 .. 5 : wire(k + 25) = BitOf(b, k)
      /\ \A k \in 0 .. 4 : wire(k + 7) = BitOf(rd, k) /\ wire(k + 20) = BitOf(rs2, k)
      /\ \A k \in 0 .. 3 : wire(k + 8) = BitOf(q, k) /\ wire(k + 21) = BitOf(y, k)
      /\ \A k \in 0 .. 2 : wire(k + 12) = BitOf(f3, k)
      /\ \A k \in 0 .. 4 : wire(k + 15) = BitOf(rs1, k)
  BY FieldWires, WireValues
<1>5. f \in ImmFormats => Driven(imm_gen, e, j) = wire(imm_gen[f][j])
  BY DEF Driven
<1>6. f \notin ImmFormats => Driven(imm_gen, e, j) = 0
  BY DEF Driven
<1>7. f \in {"I", "S", "B", "J", "U", "R", "NONE"}
  BY DEF FormatOf, Instr, Opcode
<1>8. f \in {"B", "J"} /\ j = 11 => Driven(imm_gen, e, j) = BitOf(v, j)
  <2>1. 11 \in ToldApart("B") /\ 11 \in ToldApart("J")
    BY DEF ToldApart
  <2>2. /\ f = "B" => v = ImmB(e) /\ Driven(imm_gen, e, 11) = wire(7)
        /\ f = "J" => v = ImmJ(e) /\ Driven(imm_gen, e, 11) = wire(20)
    BY ImmGenWires DEF Immediate, ImmGen, Driven, ImmFormats
  <2>3. QED
    BY <2>2, BitEleven, WireValues
<1> HIDE DEF rd, rs1, rs2, f3, s, b, p, q, x, y, f, v, wire
<1>10. ASSUME f \in {"I", "S", "B", "J"}, j >= 11, f = "B" => j >= 12, f = "J" => j >= 20
       PROVE  Driven(imm_gen, e, j) = BitOf(v, j)
  <2>1. /\ j \in 11 .. 31
        /\ \/ -2048 <= v /\ v < 2048
           \/ -4096 <= v /\ v < 4096 /\ j >= 12
           \/ -1048576 <= v /\ v < 1048576 /\ j >= 20
    BY <1>3, <1>10, SMT
  <2>2. BitOf(v, j) = s
    BY <1>3, <1>10, <2>1, SignExtended
  <2>3. imm_gen[f][j] = 31
    BY <1>10, ImmGenWires
  <2>4. QED
    BY <1>4, <1>5, <1>10, <2>2, <2>3 DEF ImmFormats
<1>11. ASSUME f = "I", j \in 0 .. 4
       PROVE  Driven(imm_gen, e, j) = BitOf(v, j)
  <2> DEFINE k == j
             A == b - 64 * s
             L == 0
  <2>1. k \in 0 .. 5 /\ k < 5 /\ j = 0 + k
    BY <1>11
  <2>2. /\ A \in Int /\ L \in Nat /\ L < Weight[0 + 1]
        /\ v = (A * Weight[5 + 1] + rs2) * Weight[0 + 1] + L
    BY <1>1, <1>2, <1>11, WeightFacts, SMT
  <2>3. imm_gen[f][j] = k + 20
    BY <1>11, ImmGenWires
  <2> HIDE DEF k, A, L
  <2>4. BitOf(v, j) = BitOf(rs2, k)
    <3>1. Field(v, 0, 5, rs2)
      BY <2>2 DEF Field
    <3>2. rs2 \in Int
      BY <1>1
    <3>3. BitOf(v, 0 + k) = BitOf(rs2, k)
      BY <2>1, <3>1, <3>2, FieldBits
    <3>4. QED
      BY <2>1, <3>3
  <2>5. wire(k + 20) = BitOf(rs2, k)
    BY <1>4, <2>1
  <2>6. QED
    BY <1>5, <1>11, <2>3, <2>4, <2>5 DEF ImmFormats
<1>12. ASSUME f = "I", j \in 5 .. 10
       PROVE  Driven(imm_gen, e, j) = BitOf(v, j)
  <2> DEFINE k == j - 5
             A == 0 - s
             L == rs2
  <2>1. k \in 0 .. 5 /\ k < 6 /\ j = 5 + k
    BY <1>12
  <2>2. /\ A \in Int /\ L \in Nat /\ L < Weight[5 + 1]
        /\ v = (A * Weight[6 + 1] + b) * Weight[5 + 1] + L
    BY <1>1, <1>2, <1>12, WeightFacts, SMT
  <2>3. imm_gen[f][j] = k + 25
    BY <1>12, ImmGenWires
  <2> HIDE DEF k, A, L
  <2>4. BitOf(v, j) = BitOf(b, k)
    <3>1. Field(v, 5, 6, b)
      BY <2>2 DEF Field
    <3>2. b \in Int
      BY <1>1
    <3>3. BitOf(v, 5 + k) = BitOf(b, k)
      BY <2>1, <3>1, <3>2, FieldBits
    <3>4. QED
      BY <2>1, <3>3
  <2>5. wire(k + 25) = BitOf(b, k)
    BY <1>4, <2>1
  <2>6. QED
    BY <1>5, <1>12, <2>3, <2>4, <2>5 DEF ImmFormats
<1>13. ASSUME f = "S", j \in 0 .. 4
       PROVE  Driven(imm_gen, e, j) = BitOf(v, j)
  <2> DEFINE k == j
             A == b - 64 * s
             L == 0
  <2>1. k \in 0 .. 5 /\ k < 5 /\ j = 0 + k
    BY <1>13
  <2>2. /\ A \in Int /\ L \in Nat /\ L < Weight[0 + 1]
        /\ v = (A * Weight[5 + 1] + rd) * Weight[0 + 1] + L
    BY <1>1, <1>2, <1>13, WeightFacts, SMT
  <2>3. imm_gen[f][j] = k + 7
    BY <1>13, ImmGenWires
  <2> HIDE DEF k, A, L
  <2>4. BitOf(v, j) = BitOf(rd, k)
    <3>1. Field(v, 0, 5, rd)
      BY <2>2 DEF Field
    <3>2. rd \in Int
      BY <1>1
    <3>3. BitOf(v, 0 + k) = BitOf(rd, k)
      BY <2>1, <3>1, <3>2, FieldBits
    <3>4. QED
      BY <2>1, <3>3
  <2>5. wire(k + 7) = BitOf(rd, k)
    BY <1>4, <2>1
  <2>6. QED
    BY <1>5, <1>13, <2>3, <2>4, <2>5 DEF ImmFormats
<1>14. ASSUME f = "S", j \in 5 .. 10
       PROVE  Driven(imm_gen, e, j) = BitOf(v, j)
  <2> DEFINE k == j - 5
             A == 0 - s
             L == rd
  <2>1. k \in 0 .. 5 /\ k < 6 /\ j = 5 + k
    BY <1>14
  <2>2. /\ A \in Int /\ L \in Nat /\ L < Weight[5 + 1]
        /\ v = (A * Weight[6 + 1] + b) * Weight[5 + 1] + L
    BY <1>1, <1>2, <1>14, WeightFacts, SMT
  <2>3. imm_gen[f][j] = k + 25
    BY <1>14, ImmGenWires
  <2> HIDE DEF k, A, L
  <2>4. BitOf(v, j) = BitOf(b, k)
    <3>1. Field(v, 5, 6, b)
      BY <2>2 DEF Field
    <3>2. b \in Int
      BY <1>1
    <3>3. BitOf(v, 5 + k) = BitOf(b, k)
      BY <2>1, <3>1, <3>2, FieldBits
    <3>4. QED
      BY <2>1, <3>3
  <2>5. wire(k + 25) = BitOf(b, k)
    BY <1>4, <2>1
  <2>6. QED
    BY <1>5, <1>14, <2>3, <2>4, <2>5 DEF ImmFormats
<1>15. ASSUME f = "B", j \in 1 .. 4
       PROVE  Driven(imm_gen, e, j) = BitOf(v, j)
  <2> DEFINE k == j - 1
             A == b + 64 * p - 128 * s
             L == 0
  <2>1. k \in 0 .. 5 /\ k < 4 /\ j = 1 + k
    BY <1>15
  <2>2. /\ A \in Int /\ L \in Nat /\ L < Weight[1 + 1]
        /\ v = (A * Weight[4 + 1] + q) * Weight[1 + 1] + L
    BY <1>1, <1>2, <1>15, WeightFacts, SMT
  <2>3. imm_gen[f][j] = k + 8
    BY <1>15, ImmGenWires
  <2> HIDE DEF k, A, L
  <2>4. BitOf(v, j) = BitOf(q, k)
    <3>1. Field(v, 1, 4, q)
      BY <2>2 DEF Field
    <3>2. q \in Int
      BY <1>1
    <3>3. BitOf(v, 1 + k) = BitOf(q, k)
      BY <2>1, <3>1, <3>2, FieldBits
    <3>4. QED
      BY <2>1, <3>3
  <2>5. wire(k + 8) = BitOf(q, k)
    BY <1>4, <2>1
  <2>6. QED
    BY <1>5, <1>15, <2>3, <2>4, <2>5 DEF ImmFormats
<1>16. ASSUME f = "B", j \in 5 .. 10
       PROVE  Driven(imm_gen, e, j) = BitOf(v, j)
  <2> DEFINE k == j - 5
             A == p - 2 * s
             L == 2 * q
  <2>1. k \in 0 .. 5 /\ k < 6 /\ j = 5 + k
    BY <1>16
  <2>2. /\ A \in Int /\ L \in Nat /\ L < Weight[5 + 1]
        /\ v = (A * Weight[6 + 1] + b) * Weight[5 + 1] + L
    BY <1>1, <1>2, <1>16, WeightFacts, SMT
  <2>3. imm_gen[f][j] = k + 25
    BY <1>16, ImmGenWires
  <2> HIDE DEF k, A, L
  <2>4. BitOf(v, j) = BitOf(b, k)
    <3>1. Field(v, 5, 6, b)
      BY <2>2 DEF Field
    <3>2. b \in Int
      BY <1>1
    <3>3. BitOf(v, 5 + k) = BitOf(b, k)
      BY <2>1, <3>1, <3>2, FieldBits
    <3>4. QED
      BY <2>1, <3>3
  <2>5. wire(k + 25) = BitOf(b, k)
    BY <1>4, <2>1
  <2>6. QED
    BY <1>5, <1>16, <2>3, <2>4, <2>5 DEF ImmFormats
<1>17. ASSUME f = "J", j \in 1 .. 4
       PROVE  Driven(imm_gen, e, j) = BitOf(v, j)
  <2> DEFINE k == j - 1
             A == b + 64 * x + 128 * (rs1 * 8 + f3) - 32768 * s
             L == 0
  <2>1. k \in 0 .. 5 /\ k < 4 /\ j = 1 + k
    BY <1>17
  <2>2. /\ A \in Int /\ L \in Nat /\ L < Weight[1 + 1]
        /\ v = (A * Weight[4 + 1] + y) * Weight[1 + 1] + L
    BY <1>1, <1>2, <1>17, WeightFacts, SMT
  <2>3. imm_gen[f][j] = k + 21
    BY <1>17, ImmGenWires
  <2> HIDE DEF k, A, L
  <2>4. BitOf(v, j) = BitOf(y, k)
    <3>1. Field(v, 1, 4, y)
      BY <2>2 DEF Field
    <3>2. y \in Int
      BY <1>1
    <3>3. BitOf(v, 1 + k) = BitOf(y, k)
      BY <2>1, <3>1, <3>2, FieldBits
    <3>4. QED
      BY <2>1, <3>3
  <2>5. wire(k + 21) = BitOf(y, k)
    BY <1>4, <2>1
  <2>6. QED
    BY <1>5, <1>17, <2>3, <2>4, <2>5 DEF ImmFormats
<1>18. ASSUME f = "J", j \in 5 .. 10
       PROVE  Driven(imm_gen, e, j) = BitOf(v, j)
  <2> DEFINE k == j - 5
             A == x + 2 * (rs1 * 8 + f3) - 512 * s
             L == 2 * y
  <2>1. k \in 0 .. 5 /\ k < 6 /\ j = 5 + k
    BY <1>18
  <2>2. /\ A \in Int /\ L \in Nat /\ L < Weight[5 + 1]
        /\ v = (A * Weight[6 + 1] + b) * Weight[5 + 1] + L
    BY <1>1, <1>2, <1>18, WeightFacts, SMT
  <2>3. imm_gen[f][j] = k + 25
    BY <1>18, ImmGenWires
  <2> HIDE DEF k, A, L
  <2>4. BitOf(v, j) = BitOf(b, k)
    <3>1. Field(v, 5, 6, b)
      BY <2>2 DEF Field
    <3>2. b \in Int
      BY <1>1
    <3>3. BitOf(v, 5 + k) = BitOf(b, k)
      BY <2>1, <3>1, <3>2, FieldBits
    <3>4. QED
      BY <2>1, <3>3
  <2>5. wire(k + 25) = BitOf(b, k)
    BY <1>4, <2>1
  <2>6. QED
    BY <1>5, <1>18, <2>3, <2>4, <2>5 DEF ImmFormats
<1>19. ASSUME f = "J", j \in 12 .. 14
       PROVE  Driven(imm_gen, e, j) = BitOf(v, j)
  <2> DEFINE k == j - 12
             A == rs1 - 32 * s
             L == 2048 * x + 32 * b + 2 * y
  <2>1. k \in 0 .. 5 /\ k < 3 /\ j = 12 + k
    BY <1>19
  <2>2. /\ A \in Int /\ L \in Nat /\ L < Weight[12 + 1]
        /\ v = (A * Weight[3 + 1] + f3) * Weight[12 + 1] + L
    BY <1>1, <1>2, <1>19, WeightFacts, SMT
  <2>3. imm_gen[f][j] = k + 12
    BY <1>19, ImmGenWires
  <2> HIDE DEF k, A, L
  <2>4. BitOf(v, j) = BitOf(f3, k)
    <3>1. Field(v, 12, 3, f3)
      BY <2>2 DEF Field
    <3>2. f3 \in Int
      BY <1>1
    <3>3. BitOf(v, 12 + k) = BitOf(f3, k)
      BY <2>1, <3>1, <3>2, FieldBits
    <3>4. QED
      BY <2>1, <3>3
  <2>5. wire(k + 12) = BitOf(f3, k)
    BY <1>4, <2>1
  <2>6. QED
    BY <1>5, <1>19, <2>3, <2>4, <2>5 DEF ImmFormats
<1>20. ASSUME f = "J", j \in 15 .. 19
       PROVE  Driven(imm_gen, e, j) = BitOf(v, j)
  <2> DEFINE k == j - 15
             A == 0 - s
             L == 4096 * f3 + 2048 * x + 32 * b + 2 * y
  <2>1. k \in 0 .. 5 /\ k < 5 /\ j = 15 + k
    BY <1>20
  <2>2. /\ A \in Int /\ L \in Nat /\ L < Weight[15 + 1]
        /\ v = (A * Weight[5 + 1] + rs1) * Weight[15 + 1] + L
    BY <1>1, <1>2, <1>20, WeightFacts, SMT
  <2>3. imm_gen[f][j] = k + 15
    BY <1>20, ImmGenWires
  <2> HIDE DEF k, A, L
  <2>4. BitOf(v, j) = BitOf(rs1, k)
    <3>1. Field(v, 15, 5, rs1)
      BY <2>2 DEF Field
    <3>2. rs1 \in Int
      BY <1>1
    <3>3. BitOf(v, 15 + k) = BitOf(rs1, k)
      BY <2>1, <3>1, <3>2, FieldBits
    <3>4. QED
      BY <2>1, <3>3
  <2>5. wire(k + 15) = BitOf(rs1, k)
    BY <1>4, <2>1
  <2>6. QED
    BY <1>5, <1>20, <2>3, <2>4, <2>5 DEF ImmFormats
<1>21. ASSUME f = "U", j \in 12 .. 14
       PROVE  Driven(imm_gen, e, j) = BitOf(v, j)
  <2> DEFINE k == j - 12
             A == 1024 * b + 32 * rs2 + rs1 - 65536 * s
             L == 0
  <2>1. k \in 0 .. 5 /\ k < 3 /\ j = 12 + k
    BY <1>21
  <2>2. /\ A \in Int /\ L \in Nat /\ L < Weight[12 + 1]
        /\ v = (A * Weight[3 + 1] + f3) * Weight[12 + 1] + L
    BY <1>1, <1>2, <1>21, WeightFacts, SMT
  <2>3. imm_gen[f][j] = k + 12
    BY <1>21, ImmGenWires
  <2> HIDE DEF k, A, L
  <2>4. BitOf(v, j) = BitOf(f3, k)
    <3>1. Field(v, 12, 3, f3)
      BY <2>2 DEF Field
    <3>2. f3 \in Int
      BY <1>1
    <3>3. BitOf(v, 12 + k) = BitOf(f3, k)
      BY <2>1, <3>1, <3>2, FieldBits
    <3>4. QED
      BY <2>1, <3>3
  <2>5. wire(k + 12) = BitOf(f3, k)
    BY <1>4, <2>1
  <2>6. QED
    BY <1>5, <1>21, <2>3, <2>4, <2>5 DEF ImmFormats
<1>22. ASSUME f = "U", j \in 15 .. 19
       PROVE  Driven(imm_gen, e, j) = BitOf(v, j)
  <2> DEFINE k == j - 15
             A == 32 * b + rs2 - 2048 * s
             L == 4096 * f3
  <2>1. k \in 0 .. 5 /\ k < 5 /\ j = 15 + k
    BY <1>22
  <2>2. /\ A \in Int /\ L \in Nat /\ L < Weight[15 + 1]
        /\ v = (A * Weight[5 + 1] + rs1) * Weight[15 + 1] + L
    BY <1>1, <1>2, <1>22, WeightFacts, SMT
  <2>3. imm_gen[f][j] = k + 15
    BY <1>22, ImmGenWires
  <2> HIDE DEF k, A, L
  <2>4. BitOf(v, j) = BitOf(rs1, k)
    <3>1. Field(v, 15, 5, rs1)
      BY <2>2 DEF Field
    <3>2. rs1 \in Int
      BY <1>1
    <3>3. BitOf(v, 15 + k) = BitOf(rs1, k)
      BY <2>1, <3>1, <3>2, FieldBits
    <3>4. QED
      BY <2>1, <3>3
  <2>5. wire(k + 15) = BitOf(rs1, k)
    BY <1>4, <2>1
  <2>6. QED
    BY <1>5, <1>22, <2>3, <2>4, <2>5 DEF ImmFormats
<1>23. ASSUME f = "U", j \in 20 .. 24
       PROVE  Driven(imm_gen, e, j) = BitOf(v, j)
  <2> DEFINE k == j - 20
             A == b - 64 * s
             L == 32768 * rs1 + 4096 * f3
  <2>1. k \in 0 .. 5 /\ k < 5 /\ j = 20 + k
    BY <1>23
  <2>2. /\ A \in Int /\ L \in Nat /\ L < Weight[20 + 1]
        /\ v = (A * Weight[5 + 1] + rs2) * Weight[20 + 1] + L
    BY <1>1, <1>2, <1>23, WeightFacts, SMT
  <2>3. imm_gen[f][j] = k + 20
    BY <1>23, ImmGenWires
  <2> HIDE DEF k, A, L
  <2>4. BitOf(v, j) = BitOf(rs2, k)
    <3>1. Field(v, 20, 5, rs2)
      BY <2>2 DEF Field
    <3>2. rs2 \in Int
      BY <1>1
    <3>3. BitOf(v, 20 + k) = BitOf(rs2, k)
      BY <2>1, <3>1, <3>2, FieldBits
    <3>4. QED
      BY <2>1, <3>3
  <2>5. wire(k + 20) = BitOf(rs2, k)
    BY <1>4, <2>1
  <2>6. QED
    BY <1>5, <1>23, <2>3, <2>4, <2>5 DEF ImmFormats
<1>24. ASSUME f = "U", j \in 25 .. 30
       PROVE  Driven(imm_gen, e, j) = BitOf(v, j)
  <2> DEFINE k == j - 25
             A == 0 - s
             L == 1048576 * rs2 + 32768 * rs1 + 4096 * f3
  <2>1. k \in 0 .. 5 /\ k < 6 /\ j = 25 + k
    BY <1>24
  <2>2. /\ A \in Int /\ L \in Nat /\ L < Weight[25 + 1]
        /\ v = (A * Weight[6 + 1] + b) * Weight[25 + 1] + L
    <3>1. v = (33554432 * b + 1048576 * rs2 + 32768 * rs1 + 4096 * f3) - 2147483648 * s
      BY <1>2, <1>24
    <3>2. Weight[6 + 1] = 64 /\ Weight[25 + 1] = 33554432
      BY WeightFacts, SMT
    <3>3. A \in Int /\ L \in Nat /\ L < 33554432
      BY <1>1, SMT
    <3>4. (A * 64 + b) * 33554432 + L = v
      BY <1>1, <3>1, SMT
    <3>5. QED
      BY <3>2, <3>3, <3>4, SMT
  <2>3. imm_gen[f][j] = k + 25
    BY <1>24, ImmGenWires
  <2> HIDE DEF k, A, L
  <2>4. BitOf(v, j) = BitOf(b, k)
    <3>1. Field(v, 25, 6, b)
      BY <2>2 DEF Field
    <3>2. b \in Int
      BY <1>1
    <3>3. BitOf(v, 25 + k) = BitOf(b, k)
      BY <2>1, <3>1, <3>2, FieldBits
    <3>4. QED
      BY <2>1, <3>3
  <2>5. wire(k + 25) = BitOf(b, k)
    BY <1>4, <2>1
  <2>6. QED
    BY <1>5, <1>24, <2>3, <2>4, <2>5 DEF ImmFormats
<1>25. ASSUME f \in {"B", "J"}, j = 0
       PROVE  Driven(imm_gen, e, j) = BitOf(v, j)
  <2>1. \E A \in Int : v = 2 * A
    <3>1. f = "B" => v = 2 * (1024 * p + 16 * b + q - 2048 * s)
      BY <1>1, <1>2, SMT
    <3>2. f = "J" => v = 2 * (2048 * (rs1 * 8 + f3) + 1024 * x + 16 * b + y - 524288 * s)
      BY <1>1, <1>2, SMT
    <3>3. /\ 1024 * p + 16 * b + q - 2048 * s \in Int
          /\ 2048 * (rs1 * 8 + f3) + 1024 * x + 16 * b + y - 524288 * s \in Int
      BY <1>1, SMT
    <3>4. QED
      BY <1>25, <3>1, <3>2, <3>3, SMT
  <2>2. imm_gen[f][j] = 0
    BY <1>25, ImmGenWires
  <2>3. QED
    BY <1>3, <1>4, <1>5, <1>25, <2>1, <2>2, LowBits DEF ImmFormats
<1>26. ASSUME f = "U", j \in 0 .. 11 \/ j = 31
       PROVE  Driven(imm_gen, e, j) = BitOf(v, j)
  <2> DEFINE A == 8192 * b + 256 * rs2 + 8 * rs1 + f3 - 524288 * s
  <2>1. A \in Int /\ v = 4096 * A
    BY <1>1, <1>2, <1>26, SMT
  <2> HIDE DEF A
  <2>2. j \in 0 .. 11 => BitOf(v, j) = 0
    BY <1>3, <2>1, LowBits
  <2>3. SignOf(v) = s
    BY <1>1, <1>2, <1>26, SMT DEF SignOf
  <2>4. j = 31 => BitOf(v, j) = s
    BY <2>3 DEF BitOf, SignOf
  <2>5. /\ j \in 0 .. 11 => imm_gen[f][j] = 0
        /\ j = 31 => imm_gen[f][j] = 31
    BY <1>26, ImmGenWires
  <2>6. QED
    BY <1>4, <1>5, <1>26, <2>2, <2>4, <2>5 DEF ImmFormats
<1>27. ASSUME f \in {"R", "NONE"}
       PROVE  Driven(imm_gen, e, j) = BitOf(v, j)
  <2>1. v = 0 /\ f \notin ImmFormats
    BY <1>2, <1>27 DEF ImmFormats
  <2>2. BitOf(0, j) = 0
    <3>1. CASE j = 31
      BY <3>1 DEF BitOf
    <3>2. CASE j # 31
      <4> DEFINE W == Weight[j + 1]
      <4>1. W \in Nat /\ W > 0
        BY <3>2 DEF Weight
      <4>2. BitOf(0, j) = (0 \div W) % 2
        BY <3>2 DEF BitOf
      <4> HIDE DEF W
      <4>3. 0 \div W = 0
        BY <4>1
      <4>4. QED
        BY <4>2, <4>3, SMT
    <3>3. QED
      BY <3>1, <3>2
  <2>3. QED
    BY <1>6, <2>1, <2>2
<1>28. Driven(imm_gen, e, j) = BitOf(v, j)
  <2>1. CASE f = "I"
    BY <1>10, <1>11, <1>12, <2>1
  <2>2. CASE f = "S"
    BY <1>10, <1>13, <1>14, <2>2
  <2>3. CASE f = "B"
    BY <1>8, <1>10, <1>15, <1>16, <1>25, <2>3
  <2>4. CASE f = "J"
    BY <1>8, <1>10, <1>17, <1>18, <1>19, <1>20, <1>25, <2>4
  <2>5. CASE f = "U"
    BY <1>21, <1>22, <1>23, <1>24, <1>26, <2>5
  <2>6. QED
    BY <1>7, <1>27, <2>1, <2>2, <2>3, <2>4, <2>5
<1>29. QED
  BY <1>28 DEF v

LEMMA CasesAreInstructions == RefCases \subseteq Instr
<1>1. \A v \in Int : /\ Bits(v, 1, 32) \in 0 .. 31 /\ Bits(v, 8, 32) \in 0 .. 31
                      /\ Bits(v, 256, 32) \in 0 .. 31 /\ Bits(v, 32768, 32) \in 0 .. 31
                      /\ Bits(v, 1, 8) \in 0 .. 7 /\ Bits(v, 4096, 8) \in 0 .. 7
                      /\ Bits(v, 32, 128) \in 0 .. 127 /\ Bits(v, 8192, 128) \in 0 .. 127
                      /\ Bits(v, 2, 16) * 2 + Bits(v, 2048, 2) \in 0 .. 31
                      /\ Bits(v, 4096, 2) * 64 + Bits(v, 32, 64) \in 0 .. 127
                      /\ Bits(v, 1048576, 2) * 64 + Bits(v, 32, 64) \in 0 .. 127
  BY SMT DEF Bits
<1>2. ASSUME NEW op \in Opcode, NEW f3 \in 0 .. 7, NEW v \in Int
      PROVE  EncI(op, f3, v) \in Instr /\ EncU(op, v) \in Instr
  BY <1>1 DEF EncI, EncU, Enc, Instr, RegIdx
<1>3. ASSUME NEW f3 \in 0 .. 7, NEW v \in Int
      PROVE  EncS(f3, v) \in Instr /\ EncB(f3, v) \in Instr /\ EncJ(v) \in Instr
  <2>1. "STORE" \in Opcode /\ "BRANCH" \in Opcode /\ "JAL" \in Opcode
    BY DEF Opcode
  <2>2. QED
    BY <1>1, <2>1 DEF EncS, EncB, EncJ, Enc, Instr, RegIdx
<1>4. /\ Imms \subseteq Int /\ Shamts \subseteq Int /\ Uppers \subseteq Int
      /\ Offs \subseteq Int /\ BranchOffs \subseteq Int /\ JalOffs \subseteq Int
      /\ \A s \in Shamts : 1024 + s \in Int
  BY DEF Imms, Shamts, Uppers, Offs, BranchOffs, JalOffs
<1>5. /\ {Enc("OP", f3, 11, 17, 28, 0) : f3 \in 0 .. 7} \subseteq Instr
      /\ {Enc("OP", f3, 3, 8, 12, 32) : f3 \in {0, 5}} \subseteq Instr
  BY DEF Enc, Instr, RegIdx, Opcode
<1>6. /\ {EncI("OPIMM", f3, v) : f3 \in {0, 2, 3, 4, 6, 7}, v \in Imms} \subseteq Instr
      /\ {EncI("OPIMM", f3, s) : f3 \in {1, 5}, s \in Shamts} \subseteq Instr
      /\ {EncI("OPIMM", 5, 1024 + s) : s \in Shamts} \subseteq Instr
      /\ {EncU(op, v) : op \in {"LUI", "AUIPC"}, v \in Uppers} \subseteq Instr
      /\ {EncI("LOAD", f3, v) : f3 \in {0, 1, 2, 4, 5}, v \in Offs} \subseteq Instr
      /\ {EncI("JALR", 0, v) : v \in Offs} \subseteq Instr
      /\ {EncI("MISCMEM", 0, 255), EncI("MISCMEM", 1, 0)} \subseteq Instr
  <2>1. {"OPIMM", "LUI", "AUIPC", "LOAD", "JALR", "MISCMEM"} \subseteq Opcode
    BY DEF Opcode
  <2>2. /\ {0, 2, 3, 4, 6, 7} \subseteq 0 .. 7 /\ {1, 5} \subseteq 0 .. 7
        /\ {0, 1, 2, 4, 5} \subseteq 0 .. 7
    OBVIOUS
  <2>3. QED
    BY <1>2, <1>4, <2>1, <2>2
<1>7. /\ {EncS(f3, v) : f3 \in {0, 1, 2}, v \in Offs} \subseteq Instr
      /\ {EncB(f3, v) : f3 \in {0, 1, 4, 5, 6, 7}, v \in BranchOffs} \subseteq Instr
      /\ {EncJ(v) : v \in JalOffs} \subseteq Instr
  <2>1. {0, 1, 2} \subseteq 0 .. 7 /\ {0, 1, 4, 5, 6, 7} \subseteq 0 .. 7
    OBVIOUS
  <2>2. QED
    BY <1>3, <1>4, <2>1
<1>8. System \subseteq Instr
  <2>1. "SYSTEM" \in Opcode
    BY DEF Opcode
  <2>2. \A f3 \in {0, 1, 2, 3, 5, 6, 7} : f3 \in 0 .. 7
    OBVIOUS
  <2>3. QED
    BY <1>2, <2>1, <2>2 DEF System
<1>9. QED
  BY <1>5, <1>6, <1>7, <1>8 DEF RefCases

(* The decoder harness passes on imm_gen.sv, on every one of its cases: it *)
(* raises no false alarm (tb_decoder.cpp:304-337).                         *)
THEOREM ImmGenPasses == HarnessPasses(imm_gen)
<1>1. ASSUME NEW e \in RefCases, NEW j \in 0 .. 31
      PROVE  Driven(imm_gen, e, j) = ref_cases[e][j]
  <2>1. e \in Instr
    BY CasesAreInstructions
  <2>2. Driven(imm_gen, e, j) = BitOf(Immediate(e), j) /\ expected_imm(e) = Immediate(e)
    BY <2>1, ImmGenIsRight, ReferenceIsImmediate
  <2>3. QED
    BY <2>2 DEF ref_cases
<1>2. QED
  BY <1>1 DEF HarnessPasses
=============================================================================

---------------------------- MODULE MulDivProofs ----------------------------
(***************************************************************************)
(* The multiply/divide unit computes the M extension, for every word size  *)
(* and every operand: proofs about MulDiv.                                 *)
(***************************************************************************)
EXTENDS MulDiv, TLAPS

-----------------------------------------------------------------------------
(* Arithmetic. *)

LEMMA Pow2Step ==
  \A n \in 0 .. 31 :
    Pow2(n) \in Nat /\ Pow2(n) >= 1 /\ Pow2(n + 1) = 2 * Pow2(n)
<1>1. SUFFICES ASSUME NEW n \in 0 .. 31
               PROVE  /\ Pow2(n) \in Nat /\ Pow2(n) >= 1
                      /\ Pow2(n + 1) = 2 * Pow2(n)
  OBVIOUS
<1>2. \/ n \in {0, 1, 2, 3, 4, 5, 6, 7}
      \/ n \in {8, 9, 10, 11, 12, 13, 14, 15}
      \/ n \in {16, 17, 18, 19, 20, 21, 22, 23}
      \/ n \in {24, 25, 26, 27, 28, 29, 30, 31}
  OBVIOUS
<1>3. CASE n \in {0, 1, 2, 3, 4, 5, 6, 7}
  BY <1>3, SMTT(30) DEF Pow2
<1>4. CASE n \in {8, 9, 10, 11, 12, 13, 14, 15}
  BY <1>4, SMTT(30) DEF Pow2
<1>5. CASE n \in {16, 17, 18, 19, 20, 21, 22, 23}
  BY <1>5, SMTT(30) DEF Pow2
<1>6. CASE n \in {24, 25, 26, 27, 28, 29, 30, 31}
  BY <1>6, SMTT(30) DEF Pow2
<1>7. QED
  BY <1>2, <1>3, <1>4, <1>5, <1>6

LEMMA BelowOne ==
  ASSUME NEW d \in Nat, NEW x \in Int, d * x < d, -d < d * x
  PROVE  x = 0
<1>1. CASE x >= 1
  <2>1. d * x = d + d * (x - 1) /\ x - 1 \in Nat
    BY <1>1
  <2>2. d * (x - 1) >= 0
    BY <2>1
  <2>3. QED
    BY <2>1, <2>2
<1>2. CASE x <= -1
  <2>1. d * x = -d - d * (-1 - x) /\ -1 - x \in Nat
    BY <1>2
  <2>2. d * (-1 - x) >= 0
    BY <2>1
  <2>3. QED
    BY <2>1, <2>2
<1>3. QED
  BY <1>1, <1>2

LEMMA DivModDef ==
  ASSUME NEW x \in Int, NEW n \in Nat, n > 0
  PROVE  /\ x \div n \in Int
         /\ x % n \in 0 .. (n - 1)
         /\ x = n * (x \div n) + (x % n)
  OBVIOUS

(* Quotient and remainder are determined by their equation. *)
LEMMA DivModUnique ==
  ASSUME NEW x \in Int, NEW n \in Nat, NEW q \in Int, NEW r \in 0 .. (n - 1),
         x = n * q + r
  PROVE  x \div n = q /\ x % n = r
<1> DEFINE p == x \div n
           s == x % n
<1>1. p \in Int /\ s \in 0 .. (n - 1) /\ x = n * p + s
  BY DivModDef
<1> HIDE DEF p, s
<1>2. n * (p - q) = r - s
  <2>1. n * (p - q) = n * p - n * q
    BY <1>1
  <2>2. QED
    BY <2>1, <1>1
<1>3. p - q = 0
  BY <1>1, <1>2, BelowOne
<1>4. p = q /\ s = r
  BY <1>1, <1>3, <1>2
<1>5. QED
  BY <1>4 DEF p, s

LEMMA ModSmall ==
  ASSUME NEW n \in Nat, NEW x \in 0 .. (n - 1)
  PROVE  x % n = x /\ x \div n = 0
  BY DivModUnique

(* What is accumulated and what is still to be added make up P.            *)
MakesUp(P, acc, mc, mc3, mp) ==
  /\ mp > 0 => acc + mc * mp = P
  /\ mp = 0 => acc = P
  /\ mp >= 3 => mc3 = 3 * mc

(* The choice of the addend, modulo n.                                     *)
Selects(add, n, mc, mc3, mp) ==
  /\ mp % 4 = 0 => add = 0
  /\ mp % 4 = 1 => add = mc
  /\ mp % 4 = 2 => add = (2 * mc) % n
  /\ mp % 4 = 3 => add = mc3

(* One iteration of the multiplier: with two bits of the multiplier gone,  *)
(* the accumulator, the multiplicand and what is left of the multiplier    *)
(* make up the same product, and no wrap-around at n has taken place where *)
(* a bit was still needed.                                                 *)
LEMMA Radix4Step ==
  ASSUME NEW n \in Nat, NEW P \in 0 .. (n - 1),
         NEW acc \in Nat, NEW mc \in Nat, NEW mc3 \in Nat, NEW mp \in Nat,
         NEW add \in Nat,
         MakesUp(P, acc, mc, mc3, mp),
         Selects(add, n, mc, mc3, mp)
  PROVE  MakesUp(P, (acc + add) % n, (4 * mc) % n, (4 * mc3) % n, mp \div 4)
<1> USE DEF MakesUp, Selects
<1> DEFINE d == mp % 4
           k == mp \div 4
<1>1. d \in 0 .. 3 /\ k \in Nat /\ mp = 4 * k + d
  OBVIOUS
<1>2. mp % 4 = d /\ mp \div 4 = k
  OBVIOUS
<1> HIDE DEF d, k
<1>3. mc * mp = 4 * (mc * k) + mc * d
  BY <1>1
<1>4. mc * k \in Nat /\ mc * d \in Nat /\ mc * mp \in Nat
  BY <1>1
<1>5. acc + mc * mp = P
  <2>1. CASE mp = 0
    BY <2>1
  <2>2. CASE mp > 0
    BY <2>2
  <2>3. QED
    BY <2>1, <2>2
<1>6. add = mc * d
  <2>1. CASE d = 0
    BY <2>1, <1>2
  <2>2. CASE d = 1
    BY <2>2, <1>2
  <2>3. CASE d = 2
    <3>1. mc * d = 2 * mc
      BY <2>3
    <3>2. 2 * mc \in 0 .. (n - 1)
      BY <3>1, <1>3, <1>4, <1>5
    <3>3. (2 * mc) % n = 2 * mc
      BY <3>2, ModSmall
    <3>4. QED
      BY <3>1, <3>3, <2>3, <1>2
  <2>4. CASE d = 3
    BY <2>4, <1>1, <1>2
  <2>5. QED
    BY <1>1, <2>1, <2>2, <2>3, <2>4
<1>7. (acc + add) % n = acc + mc * d
  <2>1. acc + mc * d \in 0 .. (n - 1)
    BY <1>3, <1>4, <1>5
  <2>2. QED
    BY <2>1, <1>6, ModSmall
<1>8. k = 0 => acc + mc * d = P
  BY <1>1, <1>5
<1>9. k > 0 => (4 * mc) % n = 4 * mc
  <2>1. SUFFICES ASSUME k > 0
                 PROVE  4 * mc \in 0 .. (n - 1)
    BY ModSmall
  <2>2. mc * k >= mc
    <3>1. mc * k = mc + mc * (k - 1) /\ mc * (k - 1) >= 0
      BY <2>1, <1>1
    <3>2. QED
      BY <3>1, <1>1, <1>4
  <2>3. QED
    BY <2>2, <1>3, <1>4, <1>5
<1>10. k > 0 => (acc + mc * d) + (4 * mc) * k = P
  BY <1>1, <1>3, <1>5
<1>11. k >= 3 => (4 * mc3) % n = 3 * (4 * mc)
  <2>1. SUFFICES ASSUME k >= 3
                 PROVE  (4 * mc3) % n = 3 * (4 * mc)
    OBVIOUS
  <2>2. 4 * mc3 = 12 * mc
    BY <2>1, <1>1
  <2>3. mc * k >= 3 * mc
    <3>1. mc * k = 3 * mc + mc * (k - 3) /\ mc * (k - 3) >= 0
      BY <2>1, <1>1
    <3>2. QED
      BY <3>1, <1>1, <1>4
  <2>4. 12 * mc \in 0 .. (n - 1)
    BY <2>3, <1>3, <1>4, <1>5
  <2>5. QED
    BY <2>2, <2>4, ModSmall
<1>12. /\ k > 0 => ((acc + add) % n) + ((4 * mc) % n) * k = P
       /\ k = 0 => (acc + add) % n = P
       /\ k >= 3 => (4 * mc3) % n = 3 * ((4 * mc) % n)
  BY <1>1, <1>7, <1>8, <1>9, <1>10, <1>11
<1>13. QED
  BY <1>2, <1>12

(* One iteration of the divider at word size n: the next dividend bit is   *)
(* brought down and the divisor is subtracted when it fits.  pw is 2^cnt   *)
(* and left is 2^(XLEN - cnt - 1).                                         *)
LEMMA RestoringStep ==
  ASSUME NEW n \in Nat, n > 0,
         NEW A \in Nat, NEW D \in 1 .. (n - 1), NEW pw \in Nat,
         NEW left \in Nat, left >= 1,
         NEW q \in 0 .. (n - 1), NEW rem \in Nat, NEW dd \in 0 .. (n - 1),
         NEW rs \in Nat,
         rem < D,
         (q + 1) * (2 * left) <= n,
         A * pw = (q * D + rem) * n + dd,
         rs = 2 * (rem % n) + (IF 2 * dd >= n THEN 1 ELSE 0)
  PROVE  LET ge == rs >= D
             q2 == ((2 * q) % n) + (IF ge THEN 1 ELSE 0)
             rem2 == IF ge THEN rs - D ELSE rs
             dd2 == (2 * dd) % n
         IN  /\ rem2 \in 0 .. (n - 1)
             /\ rem2 < D
             /\ q2 \in 0 .. (n - 1)
             /\ dd2 \in 0 .. (n - 1)
             /\ (q2 + 1) * left <= n
             /\ A * (2 * pw) = (q2 * D + rem2) * n + dd2
<1> DEFINE t == IF 2 * dd >= n THEN 1 ELSE 0
           g == IF rs >= D THEN 1 ELSE 0
<1>1. t \in 0 .. 1 /\ g \in 0 .. 1
  OBVIOUS
<1>2. (2 * dd) % n = 2 * dd - t * n
  <2>1. CASE 2 * dd >= n
    <3>1. 2 * dd = n * 1 + (2 * dd - n) /\ 2 * dd - n \in 0 .. (n - 1)
      BY <2>1
    <3>2. (2 * dd) % n = 2 * dd - n
      BY <3>1, DivModUnique
    <3>3. QED
      BY <3>2, <2>1
  <2>2. CASE 2 * dd < n
    <3>1. 2 * dd \in 0 .. (n - 1)
      BY <2>2
    <3>2. QED
      BY <3>1, <2>2, ModSmall
  <2>3. QED
    BY <2>1, <2>2
<1>3. rs = 2 * rem + t
  <2>1. rem \in 0 .. (n - 1)
    OBVIOUS
  <2>2. rem % n = rem
    BY <2>1, ModSmall
  <2>3. QED
    BY <2>2
<1>4. rs >= D <=> g = 1
  OBVIOUS
<1>5. 2 * dd - t * n \in 0 .. (n - 1)
  OBVIOUS
<1> HIDE DEF t, g
<1>6. (2 * q + 2) * left <= n /\ 2 * q + 2 <= n
  <2>1. (q + 1) * (2 * left) = (2 * q + 2) * left
    OBVIOUS
  <2>2. (2 * q + 2) * left = (2 * q + 2) + (2 * q + 2) * (left - 1)
    OBVIOUS
  <2>3. (2 * q + 2) * (left - 1) >= 0
    OBVIOUS
  <2>4. QED
    BY <2>1, <2>2, <2>3
<1>7. (2 * q) % n = 2 * q
  <2>1. 2 * q \in 0 .. (n - 1)
    BY <1>6
  <2>2. QED
    BY <2>1, ModSmall
<1>8. (2 * q + g + 1) * left <= n
  <2>1. (2 * q + 2) * left = (2 * q + g + 1) * left + (1 - g) * left
    BY <1>1
  <2>2. (1 - g) * left >= 0
    BY <1>1
  <2>3. QED
    BY <2>1, <2>2, <1>1, <1>6
<1>9. A * (2 * pw) = ((2 * q + g) * D + (rs - g * D)) * n + (2 * dd - t * n)
  <2>1. A * (2 * pw) = 2 * (A * pw)
    OBVIOUS
  <2>2. (2 * q + g) * D + (rs - g * D) = 2 * (q * D + rem) + t
    BY <1>1, <1>3
  <2>3. (2 * (q * D + rem) + t) * n = 2 * ((q * D + rem) * n) + t * n
    BY <1>1
  <2>4. QED
    BY <2>1, <2>2, <2>3, <1>1
<1>10. rs - g * D \in 0 .. (n - 1) /\ rs - g * D < D
  <2>1. CASE g = 1
    BY <2>1, <1>1, <1>3, <1>4
  <2>2. CASE g = 0
    BY <2>2, <1>1, <1>3, <1>4
  <2>3. QED
    BY <1>1, <2>1, <2>2
<1>11. /\ ((2 * q) % n) + (IF rs >= D THEN 1 ELSE 0) = 2 * q + g
       /\ (IF rs >= D THEN rs - D ELSE rs) = rs - g * D
       /\ 2 * q + g \in 0 .. (n - 1)
  BY <1>1, <1>4, <1>6, <1>7
<1>12. QED
  BY <1>2, <1>5, <1>8, <1>9, <1>10, <1>11

LEMMA ProductBound ==
  ASSUME NEW n \in Nat, NEW a \in 0 .. (n - 1), NEW b \in 0 .. (n - 1)
  PROVE  a * b \in 0 .. (n * n - 1)
<1>1. a * b \in Nat
  OBVIOUS
<1>2. n * n = a * b + a * (n - b) + (n - a) * n
  OBVIOUS
<1>3. a * (n - b) >= 0
  OBVIOUS
<1>4. (n - a) * n = n + (n - a - 1) * n
  OBVIOUS
<1>5. (n - a - 1) * n >= 0
  OBVIOUS
<1>6. QED
  BY <1>1, <1>2, <1>3, <1>4, <1>5

LEMMA NegateIs ==
  ASSUME NEW n \in Nat, n > 0, NEW w \in 0 .. (n - 1)
  PROVE  Negate(w, n) = IF w = 0 THEN 0 ELSE n - w
<1>1. CASE w = 0
  <2>1. n - w = n * 1 + 0
    BY <1>1
  <2>2. n % n = 0
    BY <2>1, DivModUnique
  <2>3. QED
    BY <1>1, <2>2 DEF Negate
<1>2. CASE w > 0
  <2>1. n - w \in 0 .. (n - 1)
    BY <1>2
  <2>2. QED
    BY <1>2, <2>1, ModSmall DEF Negate
<1>3. QED
  BY <1>1, <1>2

LEMMA WordFacts ==
  /\ WordSize \in Nat
  /\ WordSize >= 4
  /\ WordSize = 2 * (WordSize \div 2)
  /\ WordSize \div 2 \in Word
  /\ WordSize - 1 \in Word
  /\ 0 \in Word
  /\ DoubleSize = WordSize * WordSize
  /\ DoubleSize \in Nat
  /\ DoubleSize >= 4 * WordSize
<1>1. XLEN \in 2 .. 32 /\ XLEN - 1 \in 0 .. 31 /\ XLEN - 2 \in 0 .. 31
  BY XlenAssumption
<1>2. /\ Pow2(XLEN - 2) \in Nat /\ Pow2(XLEN - 2) >= 1
      /\ Pow2(XLEN - 1) = 2 * Pow2(XLEN - 2)
      /\ WordSize = 2 * Pow2(XLEN - 1)
  <2>1. Pow2((XLEN - 2) + 1) = 2 * Pow2(XLEN - 2)
    BY <1>1, Pow2Step
  <2>2. Pow2((XLEN - 1) + 1) = 2 * Pow2(XLEN - 1)
    BY <1>1, Pow2Step
  <2>3. (XLEN - 2) + 1 = XLEN - 1 /\ (XLEN - 1) + 1 = XLEN
    BY <1>1
  <2>4. QED
    BY <1>1, <2>1, <2>2, <2>3, Pow2Step DEF WordSize
<1>3. /\ WordSize \in Nat /\ WordSize >= 4
      /\ WordSize = 2 * (WordSize \div 2)
  BY <1>2
<1>4. WordSize * WordSize = 4 * WordSize + (WordSize - 4) * WordSize
  BY <1>3
<1>5. (WordSize - 4) * WordSize >= 0 /\ WordSize * WordSize \in Nat
  BY <1>3
<1>6. QED
  BY <1>3, <1>4, <1>5 DEF DoubleSize, Word

(* The magnitude of a negative word is what is missing to the next power   *)
(* of two, and fits a word.                                                *)
LEMMA MagnitudeIs ==
  ASSUME NEW w \in Word, Msb(w)
  PROVE  Negate(w, WordSize) = WordSize - w /\ WordSize - w \in Word
BY WordFacts, NegateIs DEF Word, Msb

-----------------------------------------------------------------------------
(* The multiplier. *)

LEMMA MulMagnitudes ==
  ASSUME NEW m \in MulRegisters
  PROVE  /\ MulMagA(m) \in Word /\ MulMagB(m) \in Word
         /\ MulMagA(m) * MulMagB(m) \in 0 .. (DoubleSize - 1)
<1>1. m.a \in Word /\ m.b \in Word
  BY DEF MulRegisters
<1>2. MulMagA(m) \in Word /\ MulMagB(m) \in Word
  BY <1>1, MagnitudeIs DEF MulMagA, MulMagB, MulNegA, MulNegB
<1>3. QED
  BY <1>2, WordFacts, ProductBound DEF Word

LEMMA AddendType ==
  ASSUME NEW m \in MulRegisters
  PROVE  Addend(m) \in 0 .. (DoubleSize - 1)
<1>1. /\ m.mcand \in 0 .. (DoubleSize - 1)
      /\ m.mcand3 \in 0 .. (DoubleSize - 1)
  BY DEF MulRegisters
<1>2. (2 * m.mcand) % DoubleSize \in 0 .. (DoubleSize - 1)
  BY <1>1, WordFacts
<1>3. QED
  BY <1>1, <1>2, WordFacts DEF Addend

LEMMA MulLoadType ==
  ASSUME NEW m \in MulRegisters
  PROVE  MulLoad(m) \in MulRegisters
<1>1. MulMagA(m) \in 0 .. (DoubleSize - 1) /\ MulMagB(m) \in Word
  BY MulMagnitudes, WordFacts DEF Word
<1>2. (3 * MulMagA(m)) % DoubleSize \in 0 .. (DoubleSize - 1)
  BY <1>1, WordFacts
<1>3. 0 \in 0 .. (DoubleSize - 1)
  BY WordFacts
<1>4. "RUN" \in MulStates /\ 0 \in 0 .. 31
  BY DEF MulStates
<1>5. ASSUME NEW mc \in 0 .. (DoubleSize - 1),
             NEW mc3 \in 0 .. (DoubleSize - 1), NEW mp \in Word,
             NEW neg \in BOOLEAN, NEW hi \in BOOLEAN
      PROVE  [m EXCEPT !.state   = "RUN",
                       !.acc     = 0,
                       !.mcand   = mc,
                       !.mcand3  = mc3,
                       !.mplier  = mp,
                       !.cnt     = 0,
                       !.res_neg = neg,
                       !.hi      = hi] \in MulRegisters
  BY <1>3, <1>4, Zenon DEF MulRegisters
<1>6. (MulNegA(m) # MulNegB(m)) \in BOOLEAN /\ (m.op # "MUL") \in BOOLEAN
  OBVIOUS
<1>7. QED
  BY <1>1, <1>2, <1>5, <1>6, Zenon DEF MulLoad

LEMMA MulIterateType ==
  ASSUME NEW m \in MulRegisters
  PROVE  MulIterate(m) \in MulRegisters
<1>1. /\ m.mplier \in Word /\ m.acc \in 0 .. (DoubleSize - 1)
      /\ m.mcand \in 0 .. (DoubleSize - 1)
      /\ m.mcand3 \in 0 .. (DoubleSize - 1) /\ m.cnt \in 0 .. 31
  BY DEF MulRegisters
<1>2. /\ (m.acc + Addend(m)) % DoubleSize \in 0 .. (DoubleSize - 1)
      /\ (4 * m.mcand) % DoubleSize \in 0 .. (DoubleSize - 1)
      /\ (4 * m.mcand3) % DoubleSize \in 0 .. (DoubleSize - 1)
  BY <1>1, AddendType, WordFacts
<1>3. m.mplier \div 4 \in Word /\ (m.cnt + 1) % 32 \in 0 .. 31
  BY <1>1, WordFacts DEF Word
<1>4. QED
  BY <1>2, <1>3 DEF MulIterate, MulRegisters, MulStates

LEMMA MulNextType ==
  ASSUME NEW m \in MulRegisters, NEW start \in BOOLEAN, NEW r \in Request
  PROVE  MulNext(m, start, r) \in MulRegisters
<1>1. r.op \in MulDivOps /\ r.a \in Word /\ r.b \in Word
  BY DEF Request
<1>2. m.state \in MulStates
  BY DEF MulRegisters
<1>3. CASE m.state = "LOAD"
  BY <1>1, <1>3, MulLoadType DEF MulNext, MulRegisters
<1>4. CASE m.state = "RUN"
  BY <1>1, <1>4, MulIterateType DEF MulNext, MulRegisters
<1>5. CASE m.state \in {"IDLE", "DONE"}
  BY <1>1, <1>5 DEF MulNext, MulRegisters, MulStates
<1>6. QED
  BY <1>2, <1>3, <1>4, <1>5 DEF MulStates

(* The loop invariant, and what the two correction flags stand for.        *)
MulFlags(m) ==
  m.state \in {"RUN", "DONE"} =>
    /\ m.res_neg = (MulNegA(m) # MulNegB(m))
    /\ m.hi = (m.op # "MUL")

MulGood(m) == MulLoop(m) /\ MulFlags(m)

(* The magnitudes and signs are those of the latched request.              *)
LEMMA MulSameRequest ==
  ASSUME NEW m, NEW n, n.op = m.op, n.a = m.a, n.b = m.b
  PROVE  /\ MulNegA(n) = MulNegA(m)
         /\ MulNegB(n) = MulNegB(m)
         /\ MulMagA(n) = MulMagA(m)
         /\ MulMagB(n) = MulMagB(m)
BY Zenon DEF MulMagA, MulMagB, MulNegA, MulNegB

LEMMA MulLoadFields ==
  ASSUME NEW m \in MulRegisters
  PROVE  LET l == MulLoad(m)
         IN  /\ l.op = m.op /\ l.a = m.a /\ l.b = m.b
             /\ l.state = "RUN" /\ l.acc = 0 /\ l.cnt = 0
             /\ l.mcand = MulMagA(m) /\ l.mplier = MulMagB(m)
             /\ l.mcand3 = (3 * MulMagA(m)) % DoubleSize
             /\ l.res_neg = (MulNegA(m) # MulNegB(m))
             /\ l.hi = (m.op # "MUL")
<1>1. /\ MulLoad(m).op = m.op /\ MulLoad(m).a = m.a /\ MulLoad(m).b = m.b
      /\ MulLoad(m).state = "RUN" /\ MulLoad(m).acc = 0
      /\ MulLoad(m).cnt = 0 /\ MulLoad(m).mcand = MulMagA(m)
      /\ MulLoad(m).mplier = MulMagB(m)
      /\ MulLoad(m).mcand3 = (3 * MulMagA(m)) % DoubleSize
  BY SMT DEF MulLoad, MulRegisters
<1>2. MulLoad(m).res_neg = (MulNegA(m) # MulNegB(m))
  BY Zenon DEF MulLoad, MulRegisters
<1>3. MulLoad(m).hi = (m.op # "MUL")
  BY Zenon DEF MulLoad, MulRegisters
<1>4. QED
  BY <1>1, <1>2, <1>3, Zenon

LEMMA MulLoadGood ==
  ASSUME NEW m \in MulRegisters
  PROVE  MulGood(MulLoad(m))
<1> DEFINE l == MulLoad(m)
           A == MulMagA(m)
           B == MulMagB(m)
<1>1. /\ l.op = m.op /\ l.a = m.a /\ l.b = m.b
      /\ l.state = "RUN" /\ l.acc = 0 /\ l.cnt = 0
      /\ l.mcand = A /\ l.mplier = B
      /\ l.mcand3 = (3 * A) % DoubleSize
  BY MulLoadFields, Zenon
<1>2. /\ l.res_neg = (MulNegA(m) # MulNegB(m))
      /\ l.hi = (m.op # "MUL")
  BY MulLoadFields, Zenon
<1>3. A \in Word /\ B \in Word
  BY MulMagnitudes
<1> HIDE DEF l, A, B
<1>4. /\ MulNegA(l) = MulNegA(m) /\ MulNegB(l) = MulNegB(m)
      /\ MulMagA(l) = A /\ MulMagB(l) = B
  BY <1>1, MulSameRequest, Zenon DEF A, B
<1>5. (3 * A) % DoubleSize = 3 * A
  <2>1. 3 * A \in 0 .. (DoubleSize - 1)
    BY <1>3, WordFacts DEF Word
  <2>2. QED
    BY <2>1, WordFacts, ModSmall
<1>6. 0 < MulIterations /\ XLEN - 2 * 0 = XLEN /\ B < Pow2(XLEN)
  BY <1>3, WordFacts, XlenAssumption DEF MulIterations, Word, WordSize
<1>7. 0 + A * B = A * B /\ (B = 0 => 0 = A * B)
  BY <1>3, WordFacts DEF Word
<1>8. MulLoop(l)
  BY <1>1, <1>4, <1>5, <1>6, <1>7 DEF MulLoop
<1>9. MulFlags(l)
  BY <1>1, <1>2, <1>4, Zenon DEF MulFlags
<1>10. QED
  BY <1>8, <1>9 DEF MulGood, l

LEMMA MulIterateFields ==
  ASSUME NEW m \in MulRegisters
  PROVE  LET l == MulIterate(m)
         IN  /\ l.op = m.op /\ l.a = m.a /\ l.b = m.b
             /\ l.state = IF m.cnt = MulIterations - 1 THEN "DONE" ELSE "RUN"
             /\ l.acc = (m.acc + Addend(m)) % DoubleSize
             /\ l.mcand = (4 * m.mcand) % DoubleSize
             /\ l.mcand3 = (4 * m.mcand3) % DoubleSize
             /\ l.mplier = m.mplier \div 4
             /\ l.cnt = (m.cnt + 1) % 32
             /\ l.res_neg = m.res_neg /\ l.hi = m.hi
BY SMT DEF MulIterate, MulRegisters

LEMMA MulIterateGood ==
  ASSUME NEW m \in MulRegisters, MulGood(m), m.state = "RUN"
  PROVE  MulGood(MulIterate(m))
<1> DEFINE l == MulIterate(m)
           P == MulMagA(m) * MulMagB(m)
<1>1. /\ l.op = m.op /\ l.a = m.a /\ l.b = m.b
      /\ l.state = IF m.cnt = MulIterations - 1 THEN "DONE" ELSE "RUN"
      /\ l.acc = (m.acc + Addend(m)) % DoubleSize
      /\ l.mcand = (4 * m.mcand) % DoubleSize
      /\ l.mcand3 = (4 * m.mcand3) % DoubleSize
      /\ l.mplier = m.mplier \div 4
      /\ l.cnt = (m.cnt + 1) % 32
      /\ l.res_neg = m.res_neg /\ l.hi = m.hi
  BY MulIterateFields, Zenon
<1>2. /\ MulNegA(l) = MulNegA(m) /\ MulNegB(l) = MulNegB(m)
      /\ MulMagA(l) * MulMagB(l) = P
  BY <1>1, MulSameRequest, Zenon
<1>3. /\ m.cnt < MulIterations
      /\ m.mplier < Pow2(XLEN - 2 * m.cnt)
      /\ m.mplier >= 3 => m.mcand3 = 3 * m.mcand
      /\ m.mplier > 0 => m.acc + m.mcand * m.mplier = P
      /\ m.mplier = 0 => m.acc = P
  BY DEF MulGood, MulLoop
<1>4. P \in 0 .. (DoubleSize - 1)
  BY MulMagnitudes
<1>5. /\ m.acc \in Nat /\ m.mcand \in Nat /\ m.mcand3 \in Nat
      /\ m.mplier \in Nat /\ Addend(m) \in Nat /\ m.cnt \in 0 .. 31
      /\ DoubleSize \in Nat
  BY AddendType, WordFacts DEF MulRegisters, Word
<1>6. /\ m.mplier % 4 = 0 => Addend(m) = 0
      /\ m.mplier % 4 = 1 => Addend(m) = m.mcand
      /\ m.mplier % 4 = 2 => Addend(m) = (2 * m.mcand) % DoubleSize
      /\ m.mplier % 4 = 3 => Addend(m) = m.mcand3
  BY DEF Addend
<1> HIDE DEF l, P
<1>7. MulFlags(l)
  BY <1>1, <1>2, Zenon DEF MulGood, MulFlags
<1>8. /\ l.mplier > 0 => l.acc + l.mcand * l.mplier = P
      /\ l.mplier = 0 => l.acc = P
      /\ l.mplier >= 3 => l.mcand3 = 3 * l.mcand
  <2>1. MakesUp(P, m.acc, m.mcand, m.mcand3, m.mplier)
    BY <1>3 DEF MakesUp
  <2>2. Selects(Addend(m), DoubleSize, m.mcand, m.mcand3, m.mplier)
    BY <1>6 DEF Selects
  <2>3. MakesUp(P, (m.acc + Addend(m)) % DoubleSize,
                (4 * m.mcand) % DoubleSize, (4 * m.mcand3) % DoubleSize,
                m.mplier \div 4)
    BY <1>4, <1>5, <2>1, <2>2, Radix4Step
  <2>4. MakesUp(P, l.acc, l.mcand, l.mcand3, l.mplier)
    BY <2>3, <1>1, Zenon
  <2>5. QED
    BY <2>4 DEF MakesUp
<1>9. l.mplier < Pow2(XLEN - 2 * (m.cnt + 1))
  <2>1. /\ XLEN - 2 * (m.cnt + 1) \in 0 .. 30
        /\ XLEN - 2 * m.cnt = (XLEN - 2 * (m.cnt + 1)) + 1 + 1
    BY <1>3, <1>5, XlenAssumption DEF MulIterations
  <2> DEFINE k == XLEN - 2 * (m.cnt + 1)
  <2>2. k \in 0 .. 31 /\ k + 1 \in 0 .. 31 /\ XLEN - 2 * m.cnt = k + 1 + 1
    BY <2>1
  <2> HIDE DEF k
  <2>3. /\ Pow2(k) \in Nat /\ Pow2(k + 1) = 2 * Pow2(k)
        /\ Pow2(k + 1 + 1) = 2 * Pow2(k + 1)
    BY <2>2, Pow2Step
  <2>4. m.mplier < 4 * Pow2(k)
    BY <1>3, <2>2, <2>3
  <2>5. m.mplier \div 4 < Pow2(k)
    BY <2>3, <2>4, <1>5
  <2>6. QED
    BY <2>5, <1>1 DEF k
<1>10. CASE m.cnt = MulIterations - 1
  <2>1. XLEN - 2 * (m.cnt + 1) = 0 /\ Pow2(0) = 1
    BY <1>10, XlenAssumption DEF MulIterations, Pow2
  <2>2. l.mplier = 0
    BY <2>1, <1>9, <1>1, <1>5
  <2>3. l.acc = P /\ l.state = "DONE"
    BY <2>2, <1>8, <1>10, <1>1
  <2>4. MulLoop(l)
    BY <2>3, <1>2 DEF MulLoop
  <2>5. QED
    BY <2>4, <1>7 DEF MulGood, l
<1>11. CASE m.cnt # MulIterations - 1
  <2>1. m.cnt + 1 < MulIterations /\ (m.cnt + 1) % 32 = m.cnt + 1
    BY <1>11, <1>3, <1>5, XlenAssumption DEF MulIterations
  <2>2. l.state = "RUN" /\ l.cnt = m.cnt + 1
    BY <1>11, <1>1, <2>1
  <2>3. MulLoop(l)
    BY <2>1, <2>2, <1>2, <1>8, <1>9 DEF MulLoop
  <2>4. QED
    BY <2>3, <1>7 DEF MulGood, l
<1>12. QED
  BY <1>10, <1>11

LEMMA ModMod ==
  ASSUME NEW x \in Int, NEW w \in Nat, w > 0
  PROVE  (x % (w * w)) % w = x % w
<1> DEFINE p == x \div (w * w)
           s == x % (w * w)
           t == s \div w
           u == s % w
<1>1. w * w \in Nat /\ w * w > 0
  OBVIOUS
<1>2. p \in Int /\ s \in Int /\ x = (w * w) * p + s
  BY <1>1, DivModDef
<1> HIDE DEF p, s
<1>3. t \in Int /\ u \in 0 .. (w - 1) /\ s = w * t + u
  BY <1>2, DivModDef
<1> HIDE DEF t, u
<1>4. x = w * (w * p + t) + u /\ w * p + t \in Int
  BY <1>2, <1>3
<1>5. x % w = u
  <2> DEFINE q == w * p + t
  <2>1. q \in Int /\ x = w * q + u
    BY <1>4
  <2> HIDE DEF q
  <2>2. QED
    BY <2>1, <1>3, DivModUnique
<1>6. QED
  BY <1>5 DEF u, s

(* Negating the magnitude of a product is taking the negative product      *)
(* modulo the word size.                                                   *)
LEMMA NegateMod ==
  ASSUME NEW n \in Nat, n > 0, NEW x \in 0 .. (n - 1)
  PROVE  Negate(x, n) = (-x) % n
<1>1. CASE x = 0
  <2>1. 0 \in 0 .. (n - 1)
    OBVIOUS
  <2>2. 0 % n = 0
    BY <2>1, ModSmall
  <2>3. QED
    BY <2>2, <1>1, NegateIs
<1>2. CASE x > 0
  <2>1. -x = n * (-1) + (n - x) /\ n - x \in 0 .. (n - 1)
    BY <1>2
  <2>2. (-x) % n = n - x
    BY <2>1, DivModUnique
  <2>3. QED
    BY <2>2, <1>2, NegateIs
<1>3. QED
  BY <1>1, <1>2

(* The factors as the reference model reads the operands.                  *)
FactorA(m) == IF m.op = "MULHU" THEN m.a ELSE Signed(m.a)
FactorB(m) == IF m.op \in {"MULHU", "MULHSU"} THEN m.b ELSE Signed(m.b)

LEMMA FactorIsMagnitude ==
  ASSUME NEW m \in MulRegisters, m.op \in MulOps
  PROVE  /\ FactorA(m) = IF MulNegA(m) THEN -MulMagA(m) ELSE MulMagA(m)
         /\ FactorB(m) = IF MulNegB(m) THEN -MulMagB(m) ELSE MulMagB(m)
<1>1. m.a \in Word /\ m.b \in Word
  BY DEF MulRegisters
<1>2. \A w \in Word : /\ w \in Int
                      /\ Msb(w) => /\ Signed(w) = -Negate(w, WordSize)
                                   /\ Negate(w, WordSize) \in Int
                      /\ ~ Msb(w) => Signed(w) = w
  BY WordFacts, MagnitudeIs DEF Signed, Word
<1>3. QED
  BY <1>1, <1>2
     DEF FactorA, FactorB, MulMagA, MulMagB, MulNegA, MulNegB, MulOps

LEMMA MulProduct ==
  ASSUME NEW m \in MulRegisters, MulGood(m), m.state = "DONE", m.op \in MulOps
  PROVE  /\ FactorA(m) * FactorB(m) \in Int
         /\ Product(m) = (FactorA(m) * FactorB(m)) % DoubleSize
<1> DEFINE A == MulMagA(m)
           B == MulMagB(m)
           x == FactorA(m)
           y == FactorB(m)
<1>1. /\ A \in Nat /\ B \in Nat /\ A * B \in 0 .. (DoubleSize - 1)
      /\ m.acc = A * B
  BY MulMagnitudes, WordFacts DEF Word, MulGood, MulLoop
<1>2. /\ x = IF MulNegA(m) THEN -A ELSE A
      /\ y = IF MulNegB(m) THEN -B ELSE B
  BY FactorIsMagnitude
<1>3. m.res_neg = (MulNegA(m) # MulNegB(m))
  BY Zenon DEF MulGood, MulFlags
<1> HIDE DEF A, B, x, y
<1>4. x \in Int /\ y \in Int /\ x * y \in Int
  BY <1>1, <1>2
<1>5. CASE m.res_neg
  <2>1. MulNegA(m) # MulNegB(m)
    BY <1>3, <1>5, Zenon
  <2>2. \/ MulNegA(m) /\ ~ MulNegB(m)
        \/ ~ MulNegA(m) /\ MulNegB(m)
    BY <2>1, Zenon DEF MulNegA, MulNegB
  <2>3. x * y = -(A * B)
    BY <2>2, <1>1, <1>2
  <2>4. Product(m) = Negate(A * B, DoubleSize)
    BY <1>1, <1>5 DEF Product
  <2>5. QED
    BY <2>3, <2>4, <1>1, <1>4, NegateMod, WordFacts DEF x, y
<1>6. CASE ~ m.res_neg
  <2>1. MulNegA(m) = MulNegB(m)
    BY <1>3, <1>6, Zenon
  <2>2. x * y = A * B
    BY <2>1, <1>1, <1>2
  <2>3. Product(m) = A * B
    BY <1>1, <1>6 DEF Product
  <2>4. QED
    BY <2>2, <2>3, <1>1, <1>4, ModSmall, WordFacts DEF x, y
<1>7. QED
  BY <1>5, <1>6, Zenon

(* A multiplication ends with the value the M extension defines.           *)
LEMMA MulAnswer ==
  ASSUME NEW m \in MulRegisters, MulGood(m), m.state = "DONE", m.op \in MulOps
  PROVE  MulResult(m) = MuldivRef(Latched(m))
<1> DEFINE z == FactorA(m) * FactorB(m)
<1>1. z \in Int /\ Product(m) = z % DoubleSize
  BY MulProduct
<1>2. m.hi = (m.op # "MUL")
  BY Zenon DEF MulGood, MulFlags
<1>3. CASE m.op = "MUL"
  <2>1. MulResult(m) = (z % DoubleSize) % WordSize
    BY <1>1, <1>2, <1>3 DEF MulResult
  <2>2. (z % DoubleSize) % WordSize = z % WordSize
    <3>1. /\ z \in Int /\ WordSize \in Nat /\ WordSize > 0
          /\ DoubleSize = WordSize * WordSize
      BY <1>1, WordFacts
    <3> HIDE DEF z
    <3>2. (z % (WordSize * WordSize)) % WordSize = z % WordSize
      BY <3>1, ModMod, Zenon
    <3>3. QED
      BY <3>1, <3>2, Zenon
  <2>3. MuldivRef(Latched(m)) = z % WordSize
    BY <1>3 DEF MuldivRef, Latched, FactorA, FactorB
  <2>4. QED
    BY <2>1, <2>2, <2>3
<1>4. CASE m.op # "MUL"
  <2>1. MulResult(m) = High(z)
    BY <1>1, <1>2, <1>4 DEF MulResult, High
  <2>2. MuldivRef(Latched(m)) = High(z)
    BY <1>4 DEF MuldivRef, Latched, FactorA, FactorB, MulOps
  <2>3. QED
    BY <2>1, <2>2
<1>5. QED
  BY <1>3, <1>4

-----------------------------------------------------------------------------
(* The divider. *)

DivFlags(d) ==
  /\ d.state = "RUN" => d.special = FALSE
  /\ d.state \in {"RUN", "DONE"} =>
       /\ d.want_rem = WantRem(d)
       /\ IF d.special
            THEN IF DivByZero(d)
                   THEN d.special_val = IF WantRem(d) THEN d.a
                                        ELSE WordSize - 1
                   ELSE /\ SignOverflow(d)
                        /\ d.special_val = IF WantRem(d) THEN 0
                                           ELSE WordSize \div 2
            ELSE /\ ~ DivByZero(d) /\ ~ SignOverflow(d)
                 /\ d.q_neg = (NegDividend(d) # NegDivisor(d))
                 /\ d.r_neg = NegDividend(d)

DivGood(d) == DivLoop(d) /\ DivFlags(d)

LEMMA DivSameRequest ==
  ASSUME NEW m, NEW n, n.op = m.op, n.a = m.a, n.b = m.b
  PROVE  /\ NegDividend(n) = NegDividend(m) /\ NegDivisor(n) = NegDivisor(m)
         /\ DivMagA(n) = DivMagA(m) /\ DivMagB(n) = DivMagB(m)
         /\ WantRem(n) = WantRem(m)
         /\ DivByZero(n) = DivByZero(m) /\ SignOverflow(n) = SignOverflow(m)
BY Zenon DEF NegDividend, NegDivisor, DivMagA, DivMagB, WantRem, DivByZero,
             SignOverflow, IsSigned

LEMMA DivMagnitudes ==
  ASSUME NEW d \in DivRegisters
  PROVE  /\ DivMagA(d) \in Word /\ DivMagB(d) \in Word
         /\ ~ DivByZero(d) => DivMagB(d) > 0
<1>1. d.a \in Word /\ d.b \in Word
  BY DEF DivRegisters
<1>2. DivMagA(d) \in Word /\ DivMagB(d) \in Word
  BY <1>1, MagnitudeIs DEF DivMagA, DivMagB, NegDividend, NegDivisor
<1>3. ~ DivByZero(d) => DivMagB(d) > 0
  BY <1>1, MagnitudeIs, WordFacts DEF DivMagB, NegDivisor, DivByZero, Word
<1>4. QED
  BY <1>2, <1>3

LEMMA DivSpecialType ==
  ASSUME NEW d \in DivRegisters, NEW val \in Word
  PROVE  DivSpecial(d, val) \in DivRegisters
<1>1. ASSUME NEW w \in BOOLEAN
      PROVE  [d EXCEPT !.state = "DONE", !.want_rem = w,
                       !.special = TRUE, !.special_val = val] \in DivRegisters
  BY Zenon DEF DivRegisters, DivStates
<1>2. WantRem(d) \in BOOLEAN
  BY DEF WantRem
<1>3. QED
  BY <1>1, <1>2, Zenon DEF DivSpecial

LEMMA DivStartType ==
  ASSUME NEW d \in DivRegisters
  PROVE  DivStart(d) \in DivRegisters
<1>1. /\ 0 \in Word /\ 0 \in 0 .. (2 * WordSize - 1) /\ 0 \in 0 .. 63
      /\ "RUN" \in DivStates
  BY WordFacts DEF DivStates
<1>2. ASSUME NEW w \in BOOLEAN, NEW a \in Word, NEW b \in Word,
             NEW qn \in BOOLEAN, NEW rn \in BOOLEAN
      PROVE  [d EXCEPT !.state    = "RUN",
                       !.want_rem = w,
                       !.special  = FALSE,
                       !.rem      = 0,
                       !.quot     = 0,
                       !.divd     = a,
                       !.divr     = b,
                       !.cnt      = 0,
                       !.q_neg    = qn,
                       !.r_neg    = rn] \in DivRegisters
  BY <1>1, Zenon DEF DivRegisters
<1>3. DivMagA(d) \in Word /\ DivMagB(d) \in Word
  BY DivMagnitudes
<1>4. /\ WantRem(d) \in BOOLEAN /\ NegDividend(d) \in BOOLEAN
      /\ (NegDividend(d) # NegDivisor(d)) \in BOOLEAN
  BY DEF WantRem, NegDividend
<1>5. QED
  BY <1>2, <1>3, <1>4, Zenon DEF DivStart

LEMMA DivIterateType ==
  ASSUME NEW d \in DivRegisters
  PROVE  /\ RemShifted(d) \in 0 .. (2 * WordSize - 1)
         /\ DivIterate(d) \in DivRegisters
<1>1. /\ d.rem \in 0 .. (2 * WordSize - 1) /\ d.divd \in Word
      /\ d.divr \in Word /\ d.quot \in Word /\ d.cnt \in 0 .. 63
  BY DEF DivRegisters
<1>2. RemShifted(d) \in 0 .. (2 * WordSize - 1)
  <2>1. d.rem % WordSize \in 0 .. (WordSize - 1)
    BY <1>1, WordFacts
  <2>2. QED
    BY <2>1, WordFacts DEF RemShifted
<1>3. (IF RemGe(d) THEN RemShifted(d) - d.divr ELSE RemShifted(d))
        \in 0 .. (2 * WordSize - 1)
  BY <1>1, <1>2, WordFacts DEF RemGe, Word
<1>4. ((2 * d.quot) % WordSize) + (IF RemGe(d) THEN 1 ELSE 0) \in Word
  <2> DEFINE h == WordSize \div 2
             x == (2 * d.quot) % WordSize
  <2>1. x \in 0 .. (WordSize - 1)
    BY <1>1, WordFacts DEF Word
  <2>2. x % 2 = 0
    <3> DEFINE p == (2 * d.quot) \div WordSize
    <3>1. p \in Int /\ 2 * d.quot = WordSize * p + x
      BY <1>1, DivModDef, WordFacts DEF Word
    <3> HIDE DEF p, x
    <3>2. WordSize = 2 * h /\ h \in Int
      BY WordFacts
    <3> HIDE DEF h
    <3>3. WordSize * p = 2 * (h * p) /\ h * p \in Int
      BY <3>1, <3>2
    <3>4. x = 2 * (d.quot - h * p) /\ d.quot - h * p \in Int
      BY <3>1, <3>3, <2>1, <1>1 DEF Word
    <3>5. QED
      BY <3>4
  <2>3. WordSize % 2 = 0
    BY WordFacts
  <2> HIDE DEF x, h
  <2>4. x + 1 \in Word /\ x \in Word
    BY <2>1, <2>2, <2>3, WordFacts DEF Word
  <2>5. QED
    BY <2>4, <2>1 DEF x
<1>5. (2 * d.divd) % WordSize \in Word /\ (d.cnt + 1) % 64 \in 0 .. 63
  BY <1>1, WordFacts DEF Word
<1>6. DivIterate(d) \in DivRegisters
  BY <1>3, <1>4, <1>5 DEF DivIterate, DivRegisters, DivStates
<1>7. QED
  BY <1>2, <1>6

LEMMA DivLoadType ==
  ASSUME NEW d \in DivRegisters
  PROVE  DivLoad(d) \in DivRegisters
<1>1. /\ d.a \in Word /\ 0 \in Word /\ WordSize - 1 \in Word
      /\ WordSize \div 2 \in Word
  BY WordFacts DEF DivRegisters
<1>2. /\ (IF WantRem(d) THEN d.a ELSE WordSize - 1) \in Word
      /\ (IF WantRem(d) THEN 0 ELSE WordSize \div 2) \in Word
  BY <1>1
<1>3. QED
  BY <1>2, DivSpecialType, DivStartType, Zenon DEF DivLoad

LEMMA DivNextType ==
  ASSUME NEW d \in DivRegisters, NEW start \in BOOLEAN, NEW r \in Request
  PROVE  DivNext(d, start, r) \in DivRegisters
<1>1. r.op \in MulDivOps /\ r.a \in Word /\ r.b \in Word
  BY DEF Request
<1>2. d.state \in DivStates
  BY DEF DivRegisters
<1>3. CASE d.state = "LOAD"
  BY <1>1, <1>3, DivLoadType DEF DivNext, DivRegisters
<1>4. CASE d.state = "RUN"
  BY <1>1, <1>4, DivIterateType DEF DivNext, DivRegisters
<1>5. CASE d.state \in {"IDLE", "DONE"}
  BY <1>1, <1>5 DEF DivNext, DivRegisters, DivStates
<1>6. QED
  BY <1>2, <1>3, <1>4, <1>5 DEF DivStates

LEMMA DivSpecialGood ==
  ASSUME NEW d \in DivRegisters, NEW val,
         \/ DivByZero(d) /\ val = (IF WantRem(d) THEN d.a ELSE WordSize - 1)
         \/ /\ ~ DivByZero(d) /\ SignOverflow(d)
            /\ val = (IF WantRem(d) THEN 0 ELSE WordSize \div 2)
  PROVE  DivGood(DivSpecial(d, val))
<1> DEFINE l == DivSpecial(d, val)
<1>1. /\ l.op = d.op /\ l.a = d.a /\ l.b = d.b /\ l.special_val = val
      /\ l.state = "DONE" /\ l.special = TRUE /\ l.want_rem = WantRem(d)
  BY Zenon DEF DivSpecial, DivRegisters
<1> HIDE DEF l
<1>2. /\ WantRem(l) = WantRem(d) /\ DivByZero(l) = DivByZero(d)
      /\ SignOverflow(l) = SignOverflow(d)
  BY <1>1, DivSameRequest, Zenon
<1>3. DivFlags(l)
  BY <1>1, <1>2, Zenon DEF DivFlags
<1>4. DivLoop(l)
  BY <1>1, Zenon DEF DivLoop
<1>5. QED
  BY <1>3, <1>4 DEF DivGood, l

LEMMA DivStartGood ==
  ASSUME NEW d \in DivRegisters, ~ DivByZero(d), ~ SignOverflow(d)
  PROVE  DivGood(DivStart(d))
<1> DEFINE l == DivStart(d)
           A == DivMagA(d)
           D == DivMagB(d)
<1>1. /\ l.op = d.op /\ l.a = d.a /\ l.b = d.b
      /\ l.state = "RUN" /\ l.rem = 0 /\ l.quot = 0 /\ l.cnt = 0
      /\ l.divd = A /\ l.divr = D
  BY Zenon DEF DivStart, DivRegisters
<1>2. /\ l.special = FALSE /\ l.want_rem = WantRem(d)
      /\ l.q_neg = (NegDividend(d) # NegDivisor(d))
      /\ l.r_neg = NegDividend(d)
  BY Zenon DEF DivStart, DivRegisters
<1>3. A \in Word /\ D \in Word /\ D > 0
  BY DivMagnitudes
<1> HIDE DEF l, A, D
<1>4. /\ WantRem(l) = WantRem(d) /\ DivByZero(l) = DivByZero(d)
      /\ SignOverflow(l) = SignOverflow(d)
      /\ NegDividend(l) = NegDividend(d) /\ NegDivisor(l) = NegDivisor(d)
      /\ DivMagA(l) = A /\ DivMagB(l) = D
  BY <1>1, DivSameRequest, Zenon DEF A, D
<1>5. l.state # "DONE"
  BY <1>1
<1>6. DivFlags(l)
  BY <1>1, <1>2, <1>4, <1>5, Zenon DEF DivFlags
<1>7. /\ 0 < XLEN /\ XLEN - 0 = XLEN /\ Pow2(0) = 1
      /\ (0 + 1) * Pow2(XLEN) <= WordSize
      /\ A * 1 = (0 * D + 0) * WordSize + A
  <2>1. 0 < XLEN /\ XLEN - 0 = XLEN
    BY XlenAssumption
  <2>2. Pow2(0) = 1
    BY DEF Pow2
  <2>3. (0 + 1) * Pow2(XLEN) <= WordSize
    BY WordFacts DEF WordSize
  <2>4. A * 1 = (0 * D + 0) * WordSize + A
    BY <1>3, WordFacts DEF Word
  <2>5. QED
    BY <2>1, <2>2, <2>3, <2>4
<1>8. DivLoop(l)
  BY <1>1, <1>3, <1>4, <1>7 DEF DivLoop
<1>9. QED
  BY <1>6, <1>8 DEF DivGood, l

LEMMA DivLoadGood ==
  ASSUME NEW d \in DivRegisters
  PROVE  DivGood(DivLoad(d))
<1>1. CASE DivByZero(d)
  BY <1>1, DivSpecialGood, Zenon DEF DivLoad
<1>2. CASE ~ DivByZero(d) /\ SignOverflow(d)
  BY <1>2, DivSpecialGood, Zenon DEF DivLoad
<1>3. CASE ~ DivByZero(d) /\ ~ SignOverflow(d)
  BY <1>3, DivStartGood, Zenon DEF DivLoad
<1>4. QED
  BY <1>1, <1>2, <1>3, Zenon

LEMMA DivIterateFields ==
  ASSUME NEW d \in DivRegisters
  PROVE  LET l == DivIterate(d)
         IN  /\ l.op = d.op /\ l.a = d.a /\ l.b = d.b
             /\ l.state = IF d.cnt = XLEN - 1 THEN "DONE" ELSE "RUN"
             /\ l.rem = IF RemGe(d) THEN RemShifted(d) - d.divr
                        ELSE RemShifted(d)
             /\ l.quot = ((2 * d.quot) % WordSize)
                           + (IF RemGe(d) THEN 1 ELSE 0)
             /\ l.divd = (2 * d.divd) % WordSize
             /\ l.divr = d.divr
             /\ l.cnt = (d.cnt + 1) % 64
             /\ l.q_neg = d.q_neg /\ l.r_neg = d.r_neg
             /\ l.want_rem = d.want_rem
             /\ l.special = d.special /\ l.special_val = d.special_val
BY SMT DEF DivIterate, DivRegisters

(* The numbers of the loop: what the quotient and remainder of the         *)
(* dividend bits consumed so far are.                                      *)
Consumed(A, D, pw, left, q, rem, dd) ==
  /\ rem < D
  /\ (q + 1) * left <= WordSize
  /\ A * pw = (q * D + rem) * WordSize + dd

LEMMA DivIterateConsumes ==
  ASSUME NEW d \in DivRegisters, NEW A \in Nat, d.divr > 0,
         NEW pw \in Nat, NEW left \in Nat, left >= 1,
         Consumed(A, d.divr, pw, 2 * left, d.quot, d.rem, d.divd)
  PROVE  LET l == DivIterate(d)
         IN  Consumed(A, d.divr, 2 * pw, left, l.quot, l.rem, l.divd)
<1> DEFINE n == WordSize
           D == d.divr
           q == d.quot
           rem == d.rem
           dd == d.divd
           rs == RemShifted(d)
           ge == rs >= D
           q2 == ((2 * q) % n) + (IF ge THEN 1 ELSE 0)
           rem2 == IF ge THEN rs - D ELSE rs
           dd2 == (2 * dd) % n
<1>1. /\ n \in Nat /\ n > 0 /\ D \in 1 .. (n - 1) /\ q \in 0 .. (n - 1)
      /\ rem \in Nat /\ dd \in 0 .. (n - 1) /\ rs \in Nat
  BY WordFacts, DivIterateType DEF DivRegisters, Word
<1>2. rs = 2 * (rem % n) + (IF 2 * dd >= n THEN 1 ELSE 0)
  BY DEF RemShifted, Msb
<1>3. /\ rem < D
      /\ (q + 1) * (2 * left) <= n
      /\ A * pw = (q * D + rem) * n + dd
  BY DEF Consumed
<1>4. /\ DivIterate(d).quot = q2 /\ DivIterate(d).rem = rem2
      /\ DivIterate(d).divd = dd2
  BY DivIterateFields DEF RemGe
<1> HIDE DEF n, D, q, rem, dd, rs
<1>5. /\ rem2 < D
      /\ (q2 + 1) * left <= n
      /\ A * (2 * pw) = (q2 * D + rem2) * n + dd2
  BY <1>1, <1>2, <1>3, RestoringStep
<1> HIDE DEF q2, rem2, dd2
<1>6. QED
  BY <1>4, <1>5 DEF Consumed, n, D

LEMMA DivIterateGood ==
  ASSUME NEW d \in DivRegisters, DivGood(d), d.state = "RUN"
  PROVE  DivGood(DivIterate(d))
<1> DEFINE l == DivIterate(d)
           A == DivMagA(d)
           D == DivMagB(d)
           k == XLEN - (d.cnt + 1)
<1>1. /\ l.op = d.op /\ l.a = d.a /\ l.b = d.b
      /\ l.state = IF d.cnt = XLEN - 1 THEN "DONE" ELSE "RUN"
      /\ l.divd = (2 * d.divd) % WordSize /\ l.divr = d.divr
      /\ l.cnt = (d.cnt + 1) % 64
      /\ l.q_neg = d.q_neg /\ l.r_neg = d.r_neg
      /\ l.want_rem = d.want_rem
      /\ l.special = d.special /\ l.special_val = d.special_val
  BY DivIterateFields, Zenon
<1>2. /\ l.divd \in Word /\ l.quot \in Word /\ l.rem \in Nat
  BY DivIterateType DEF DivRegisters
<1>3. /\ d.cnt < XLEN /\ d.divr = D
      /\ d.rem < d.divr
      /\ (d.quot + 1) * Pow2(XLEN - d.cnt) <= WordSize
      /\ A * Pow2(d.cnt) = (d.quot * d.divr + d.rem) * WordSize + d.divd
  BY DEF DivGood, DivLoop
<1>4. d.special = FALSE /\ ~ DivByZero(d)
  BY Zenon DEF DivGood, DivFlags
<1>5. A \in Word /\ D \in Word /\ D > 0 /\ d.cnt \in 0 .. 63
  BY <1>4, DivMagnitudes DEF DivRegisters
<1> HIDE DEF l, A, D
<1>6. /\ WantRem(l) = WantRem(d) /\ DivByZero(l) = DivByZero(d)
      /\ SignOverflow(l) = SignOverflow(d)
      /\ NegDividend(l) = NegDividend(d) /\ NegDivisor(l) = NegDivisor(d)
      /\ DivMagA(l) = A /\ DivMagB(l) = D
  BY <1>1, DivSameRequest, Zenon DEF A, D
<1>7. DivFlags(l)
  BY <1>1, <1>4, <1>6, Zenon DEF DivGood, DivFlags
<1>8. /\ k \in 0 .. 31 /\ XLEN - d.cnt = k + 1 /\ d.cnt \in 0 .. 31
  BY <1>3, <1>5, XlenAssumption
<1> HIDE DEF k
<1>9. /\ Pow2(k) \in Nat /\ Pow2(k) >= 1 /\ Pow2(k + 1) = 2 * Pow2(k)
      /\ Pow2(d.cnt) \in Nat /\ Pow2(d.cnt + 1) = 2 * Pow2(d.cnt)
  BY <1>8, Pow2Step
<1>10. Consumed(A, D, Pow2(d.cnt), 2 * Pow2(k), d.quot, d.rem, d.divd)
  BY <1>3, <1>8, <1>9 DEF Consumed
<1>11. A \in Nat
  BY <1>5, WordFacts DEF Word
<1>12. Consumed(A, D, 2 * Pow2(d.cnt), Pow2(k), l.quot, l.rem, l.divd)
  BY <1>3, <1>5, <1>9, <1>10, <1>11, DivIterateConsumes DEF l
<1>13. /\ l.rem < D
       /\ (l.quot + 1) * Pow2(k) <= WordSize
       /\ A * Pow2(d.cnt + 1) = (l.quot * D + l.rem) * WordSize + l.divd
  BY <1>9, <1>12 DEF Consumed
<1>14. CASE d.cnt = XLEN - 1
  <2>1. Pow2(d.cnt + 1) = WordSize
    BY <1>14, <1>8, XlenAssumption DEF WordSize
  <2> DEFINE y == l.quot * D + l.rem
  <2>2. y \in Nat
    BY <1>2, <1>5, WordFacts DEF Word
  <2>3. A * WordSize = y * WordSize + l.divd
    BY <2>1, <1>13
  <2> HIDE DEF y
  <2>4. WordSize * (A - y) = l.divd
    <3>1. WordSize * (A - y) = A * WordSize - y * WordSize
      BY <2>2, <1>11, WordFacts
    <3>2. A * WordSize \in Int /\ y * WordSize \in Int /\ l.divd \in Int
      BY <2>2, <1>2, <1>11, WordFacts DEF Word
    <3>3. QED
      BY <3>1, <3>2, <2>3
  <2>5. A - y = 0
    BY <2>2, <2>4, <1>2, <1>11, BelowOne, WordFacts DEF Word
  <2>6. A = l.quot * D + l.rem
    BY <2>2, <2>5, <1>11 DEF y
  <2>7. l.state = "DONE"
    BY <1>1, <1>14
  <2>8. DivLoop(l)
    BY <2>6, <2>7, <1>6, <1>13 DEF DivLoop
  <2>9. QED
    BY <2>8, <1>7 DEF DivGood, l
<1>15. CASE d.cnt # XLEN - 1
  <2>1. /\ d.cnt + 1 < XLEN /\ l.cnt = d.cnt + 1 /\ l.state = "RUN"
        /\ XLEN - l.cnt = k
    BY <1>15, <1>1, <1>3, <1>8, XlenAssumption DEF k
  <2>2. l.divr = D
    BY <1>1, <1>3
  <2>3. DivLoop(l)
    BY <2>1, <2>2, <1>6, <1>13 DEF DivLoop
  <2>4. QED
    BY <2>3, <1>7 DEF DivGood, l
<1>16. QED
  BY <1>14, <1>15

LEMMA SignOfWord ==
  ASSUME NEW w \in Word
  PROVE  /\ w \in Int /\ Signed(w) \in Int
         /\ Msb(w) <=> Signed(w) < 0
         /\ Abs(Signed(w)) = IF Msb(w) THEN Negate(w, WordSize) ELSE w
         /\ w = 0 <=> Signed(w) = 0
BY WordFacts, MagnitudeIs DEF Signed, Word, Abs, Msb

(* What the loop leaves for an operation that is neither a division by     *)
(* zero nor the signed overflow.                                           *)
LEMMA DivOrdinary ==
  ASSUME NEW d \in DivRegisters, DivGood(d), d.state = "DONE", ~ d.special
  PROVE  /\ d.quot \in Word /\ d.rem \in Word
         /\ DivMagA(d) \div DivMagB(d) = d.quot
         /\ DivMagA(d) % DivMagB(d) = d.rem
         /\ d.rem % WordSize = d.rem
         /\ ~ DivByZero(d) /\ ~ SignOverflow(d)
         /\ d.want_rem = WantRem(d)
         /\ d.q_neg = (NegDividend(d) # NegDivisor(d))
         /\ d.r_neg = NegDividend(d)
<1> DEFINE A == DivMagA(d)
           D == DivMagB(d)
<1>1. /\ ~ DivByZero(d) /\ ~ SignOverflow(d)
      /\ d.want_rem = WantRem(d)
      /\ d.q_neg = (NegDividend(d) # NegDivisor(d))
      /\ d.r_neg = NegDividend(d)
  BY Zenon DEF DivGood, DivFlags
<1>2. /\ d.rem < D /\ A = d.quot * D + d.rem
      /\ d.quot \in Word /\ d.rem \in Nat
  BY DEF DivGood, DivLoop, DivRegisters
<1>3. A \in Word /\ D \in Word /\ D > 0
  BY <1>1, DivMagnitudes
<1> HIDE DEF A, D
<1>4. /\ A \in Int /\ D \in Nat /\ d.quot \in Int /\ d.rem \in 0 .. (D - 1)
      /\ A = D * d.quot + d.rem
  BY <1>2, <1>3, WordFacts DEF Word
<1>5. A \div D = d.quot /\ A % D = d.rem
  BY <1>4, DivModUnique
<1>6. d.rem \in Word /\ d.rem % WordSize = d.rem
  <2>1. d.rem \in 0 .. (WordSize - 1)
    BY <1>2, <1>3, WordFacts DEF Word
  <2>2. QED
    BY <2>1, ModSmall, WordFacts DEF Word
<1>7. QED
  BY <1>1, <1>2, <1>5, <1>6, Zenon DEF A, D

(* A division ends with the value the M extension defines.                 *)
LEMMA DivAnswer ==
  ASSUME NEW d \in DivRegisters, DivGood(d), d.state = "DONE", d.op \in DivOps
  PROVE  DivResult(d) = MuldivRef(Latched(d))
<1>1. /\ Latched(d).op = d.op /\ Latched(d).a = d.a /\ Latched(d).b = d.b
  BY DEF Latched
<1>2. SignOverflow(d) <=> d.op \in {"DIV", "REM"} /\ Overflow(d.a, d.b)
  BY DEF SignOverflow, IsSigned, Overflow
<1>3. CASE d.special
  <2>1. IF DivByZero(d)
          THEN d.special_val = IF WantRem(d) THEN d.a ELSE WordSize - 1
          ELSE /\ SignOverflow(d)
               /\ d.special_val = IF WantRem(d) THEN 0 ELSE WordSize \div 2
    BY <1>3, Zenon DEF DivGood, DivFlags
  <2>2. DivResult(d) = d.special_val
    BY <1>3 DEF DivResult
  <2>3. CASE DivByZero(d)
    <3>1. d.b = 0 /\ ~ Overflow(d.a, d.b)
      BY <2>3, WordFacts DEF DivByZero, Overflow
    <3>2. QED
      BY <2>1, <2>2, <2>3, <3>1, <1>1 DEF MuldivRef, WantRem, DivOps
  <2>4. CASE ~ DivByZero(d)
    BY <2>1, <2>2, <2>4, <1>1, <1>2 DEF MuldivRef, DivByZero, WantRem, DivOps
  <2>5. QED
    BY <2>3, <2>4
<1>4. CASE ~ d.special
  <2>1. /\ d.quot \in Word /\ d.rem \in Word
        /\ DivMagA(d) \div DivMagB(d) = d.quot
        /\ DivMagA(d) % DivMagB(d) = d.rem
        /\ d.rem % WordSize = d.rem
    BY <1>4, DivOrdinary
  <2>2. ~ DivByZero(d) /\ ~ SignOverflow(d)
    BY <1>4, DivOrdinary
  <2>3. /\ d.want_rem = WantRem(d)
        /\ d.q_neg = (NegDividend(d) # NegDivisor(d))
        /\ d.r_neg = NegDividend(d)
    BY <1>4, DivOrdinary, Zenon
  <2>4. /\ d.q_neg <=> ~ (NegDividend(d) <=> NegDivisor(d))
        /\ d.r_neg <=> NegDividend(d)
    BY <2>3, Zenon DEF NegDividend, NegDivisor
  <2>5. d.a \in Word /\ d.b \in Word /\ d.b # 0
    BY <2>2 DEF DivRegisters, DivByZero
  <2>6. DivResult(d) = IF WantRem(d) THEN RemFinal(d) ELSE QuotFinal(d)
    BY <1>4, <2>3, Zenon DEF DivResult
  <2>7. /\ QuotFinal(d) = IF d.q_neg THEN (-d.quot) % WordSize
                          ELSE d.quot % WordSize
        /\ RemFinal(d) = IF d.r_neg THEN (-d.rem) % WordSize
                         ELSE d.rem % WordSize
    <3>1. /\ Negate(d.quot, WordSize) = (-d.quot) % WordSize
          /\ Negate(d.rem, WordSize) = (-d.rem) % WordSize
          /\ d.quot % WordSize = d.quot
      <4>1. /\ d.quot \in 0 .. (WordSize - 1)
            /\ d.rem \in 0 .. (WordSize - 1)
            /\ WordSize \in Nat /\ WordSize > 0
        BY <2>1, WordFacts DEF Word
      <4>2. QED
        BY <4>1, NegateMod, ModSmall
    <3>2. QED
      BY <3>1, <2>1 DEF QuotFinal, RemFinal
  <2>8. CASE d.op \in {"DIVU", "REMU"}
    <3>1. /\ DivMagA(d) = d.a /\ DivMagB(d) = d.b
          /\ ~ NegDividend(d) /\ ~ NegDivisor(d)
      BY <2>8 DEF DivMagA, DivMagB, NegDividend, NegDivisor, IsSigned
    <3>2. ~ d.q_neg /\ ~ d.r_neg
      BY <2>3, <3>1, <2>4, Zenon
    <3>3. QuotFinal(d) = d.quot /\ RemFinal(d) = d.rem
      BY <3>2, <2>1 DEF QuotFinal, RemFinal
    <3>4. QED
      BY <3>1, <3>3, <2>1, <2>5, <2>6, <2>8, <1>1 DEF MuldivRef, WantRem
  <2>9. CASE d.op \in {"DIV", "REM"}
    <3> DEFINE x == Signed(d.a)
               y == Signed(d.b)
    <3>1. /\ NegDividend(d) <=> x < 0
          /\ NegDivisor(d) <=> y < 0
          /\ DivMagA(d) = Abs(x) /\ DivMagB(d) = Abs(y)
      BY <2>5, <2>9, SignOfWord
         DEF DivMagA, DivMagB, NegDividend, NegDivisor, IsSigned
    <3> HIDE DEF x, y
    <3>2. /\ d.q_neg <=> ((x < 0) # (y < 0))
          /\ d.r_neg <=> x < 0
      BY <2>4, <3>1
    <3>3. /\ (IF d.q_neg THEN -d.quot ELSE d.quot) = TruncDiv(x, y)
          /\ (IF d.r_neg THEN -d.rem ELSE d.rem) = TruncRem(x, y)
      BY <3>1, <3>2, <2>1 DEF TruncDiv, TruncRem
    <3>4. QuotFinal(d) = TruncDiv(x, y) % WordSize
      BY <3>3, <2>7
    <3>5. RemFinal(d) = TruncRem(x, y) % WordSize
      BY <3>3, <2>7
    <3>6. ~ Overflow(d.a, d.b)
      BY <1>2, <2>2, <2>9
    <3>7. CASE d.op = "DIV"
      BY <3>4, <3>6, <3>7, <2>5, <2>6, <1>1 DEF MuldivRef, WantRem, x, y
    <3>8. CASE d.op = "REM"
      BY <3>5, <3>6, <3>8, <2>5, <2>6, <1>1 DEF MuldivRef, WantRem, x, y
    <3>9. QED
      BY <2>9, <3>7, <3>8
  <2>10. QED
    BY <2>8, <2>9 DEF DivOps
<1>5. QED
  BY <1>3, <1>4, Zenon

-----------------------------------------------------------------------------
(* The unit as a whole.  First, one clock edge of either half.             *)

LEMMA MulNextFacts ==
  ASSUME NEW u \in MulRegisters, NEW start \in BOOLEAN, NEW r \in Request,
         MulGood(u), start => u.state = "IDLE"
  PROVE  LET n == MulNext(u, start, r)
         IN  /\ n \in MulRegisters
             /\ MulGood(n)
             /\ start => n.state = "LOAD" /\ Latched(n) = Latched(r)
             /\ ~ start =>
                  /\ Latched(n) = Latched(u)
                  /\ u.state = "IDLE" => n.state = "IDLE"
                  /\ u.state = "DONE" => n.state = "IDLE"
                  /\ u.state \in {"LOAD", "RUN"} => n.state \in {"RUN", "DONE"}
<1> DEFINE n == MulNext(u, start, r)
<1>1. n \in MulRegisters
  BY MulNextType
<1>2. u.state \in {"IDLE", "LOAD", "RUN", "DONE"}
  BY DEF MulRegisters, MulStates
<1>3. CASE start
  <2>1. /\ n.state = "LOAD" /\ n.op = r.op /\ n.a = r.a /\ n.b = r.b
    BY <1>3 DEF MulNext, MulRegisters
  <2> HIDE DEF n
  <2>2. MulGood(n)
    BY <2>1 DEF MulGood, MulLoop, MulFlags
  <2>3. QED
    BY <1>1, <1>3, <2>1, <2>2 DEF n, Latched
<1>4. CASE ~ start /\ u.state = "IDLE"
  <2>1. n = u
    BY <1>4 DEF MulNext
  <2>2. QED
    BY <1>1, <1>4, <2>1
<1>5. CASE ~ start /\ u.state = "LOAD"
  <2>1. n = MulLoad(u)
    BY <1>5 DEF MulNext
  <2>2. MulGood(n)
    BY <2>1, MulLoadGood, Zenon
  <2>3. /\ n.state \in {"RUN", "DONE"} /\ n.op = u.op /\ n.a = u.a /\ n.b = u.b
    BY <2>1, MulLoadFields, Zenon
  <2> HIDE DEF n
  <2>4. QED
    BY <1>1, <1>5, <2>2, <2>3 DEF n, Latched
<1>6. CASE ~ start /\ u.state = "RUN"
  <2>1. n = MulIterate(u)
    BY <1>6 DEF MulNext
  <2>2. MulGood(n)
    BY <2>1, <1>6, MulIterateGood, Zenon
  <2>3. /\ n.state \in {"RUN", "DONE"} /\ n.op = u.op /\ n.a = u.a /\ n.b = u.b
    BY <2>1, MulIterateFields, Zenon
  <2> HIDE DEF n
  <2>4. QED
    BY <1>1, <1>6, <2>2, <2>3 DEF n, Latched
<1>7. CASE ~ start /\ u.state = "DONE"
  <2>1. /\ n.state = "IDLE" /\ n.op = u.op /\ n.a = u.a /\ n.b = u.b
    BY <1>7 DEF MulNext, MulRegisters
  <2> HIDE DEF n
  <2>2. MulGood(n)
    BY <2>1 DEF MulGood, MulLoop, MulFlags
  <2>3. QED
    BY <1>1, <1>7, <2>1, <2>2 DEF n, Latched
<1>8. QED
  BY <1>2, <1>3, <1>4, <1>5, <1>6, <1>7

LEMMA DivNextFacts ==
  ASSUME NEW u \in DivRegisters, NEW start \in BOOLEAN, NEW r \in Request,
         DivGood(u), start => u.state = "IDLE"
  PROVE  LET n == DivNext(u, start, r)
         IN  /\ n \in DivRegisters
             /\ DivGood(n)
             /\ start => n.state = "LOAD" /\ Latched(n) = Latched(r)
             /\ ~ start =>
                  /\ Latched(n) = Latched(u)
                  /\ u.state = "IDLE" => n.state = "IDLE"
                  /\ u.state = "DONE" => n.state = "IDLE"
                  /\ u.state \in {"LOAD", "RUN"} => n.state \in {"RUN", "DONE"}
<1> DEFINE n == DivNext(u, start, r)
<1>1. n \in DivRegisters
  BY DivNextType
<1>2. u.state \in {"IDLE", "LOAD", "RUN", "DONE"}
  BY DEF DivRegisters, DivStates
<1>3. CASE start
  <2>1. /\ n.state = "LOAD" /\ n.op = r.op /\ n.a = r.a /\ n.b = r.b
    BY <1>3 DEF DivNext, DivRegisters
  <2> HIDE DEF n
  <2>2. DivGood(n)
    BY <2>1 DEF DivGood, DivLoop, DivFlags
  <2>3. QED
    BY <1>1, <1>3, <2>1, <2>2 DEF n, Latched
<1>4. CASE ~ start /\ u.state = "IDLE"
  <2>1. n = u
    BY <1>4 DEF DivNext
  <2>2. QED
    BY <1>1, <1>4, <2>1
<1>5. CASE ~ start /\ u.state = "LOAD"
  <2>1. n = DivLoad(u)
    BY <1>5 DEF DivNext
  <2>2. DivGood(n)
    BY <2>1, DivLoadGood, Zenon
  <2>3. /\ n.state \in {"RUN", "DONE"} /\ n.op = u.op /\ n.a = u.a /\ n.b = u.b
    BY <2>1 DEF DivLoad, DivSpecial, DivStart, DivRegisters
  <2> HIDE DEF n
  <2>4. QED
    BY <1>1, <1>5, <2>2, <2>3 DEF n, Latched
<1>6. CASE ~ start /\ u.state = "RUN"
  <2>1. n = DivIterate(u)
    BY <1>6 DEF DivNext
  <2>2. DivGood(n)
    BY <2>1, <1>6, DivIterateGood, Zenon
  <2>3. /\ n.state \in {"RUN", "DONE"} /\ n.op = u.op /\ n.a = u.a /\ n.b = u.b
    BY <2>1, DivIterateFields, Zenon
  <2> HIDE DEF n
  <2>4. QED
    BY <1>1, <1>6, <2>2, <2>3 DEF n, Latched
<1>7. CASE ~ start /\ u.state = "DONE"
  <2>1. /\ n.state = "IDLE" /\ n.op = u.op /\ n.a = u.a /\ n.b = u.b
    BY <1>7 DEF DivNext, DivRegisters
  <2> HIDE DEF n
  <2>2. DivGood(n)
    BY <2>1 DEF DivGood, DivLoop, DivFlags
  <2>3. QED
    BY <1>1, <1>7, <2>1, <2>2 DEF n, Latched
<1>8. QED
  BY <1>2, <1>3, <1>4, <1>5, <1>6, <1>7

LEMMA ResultTypes ==
  /\ \A m \in MulRegisters : MulResult(m) \in Word
  /\ \A d \in DivRegisters : DivResult(d) \in Word
<1>1. ASSUME NEW m \in MulRegisters
      PROVE  MulResult(m) \in Word
  <2> DEFINE x == Product(m)
  <2>1. x \in 0 .. (DoubleSize - 1)
    <3>1. m.acc \in 0 .. (DoubleSize - 1)
      BY DEF MulRegisters
    <3>2. Negate(m.acc, DoubleSize) \in 0 .. (DoubleSize - 1)
      BY <3>1, NegateIs, WordFacts
    <3>3. QED
      BY <3>1, <3>2 DEF Product
  <2> HIDE DEF x
  <2>2. x % WordSize \in Word
    BY <2>1, WordFacts DEF Word
  <2>3. x \div WordSize \in Word
    <3> DEFINE q == x \div WordSize
               r == x % WordSize
               w == WordSize
    <3>1. q \in Int /\ r \in 0 .. (w - 1) /\ x = w * q + r
      BY <2>1, WordFacts, DivModDef
    <3>2. x \in 0 .. (w * w - 1) /\ w \in Nat /\ w > 0
      BY <2>1, WordFacts
    <3> HIDE DEF q, r, w
    <3>3. q >= 0
      <4>1. SUFFICES ASSUME q <= -1 PROVE FALSE
        BY <3>1
      <4>2. w * q = -w - w * (-1 - q) /\ w * (-1 - q) >= 0
        BY <4>1, <3>1, <3>2
      <4>3. QED
        BY <4>2, <3>1, <3>2
    <3>4. q < w
      <4>1. SUFFICES ASSUME q >= w PROVE FALSE
        BY <3>1, <3>2
      <4>2. w * q = w * w + w * (q - w) /\ w * (q - w) >= 0
        BY <4>1, <3>1, <3>2
      <4>3. QED
        BY <4>2, <3>1, <3>2
    <3>5. QED
      BY <3>1, <3>3, <3>4, <3>2 DEF q, w, Word
  <2>4. QED
    BY <2>2, <2>3 DEF MulResult, x
<1>2. ASSUME NEW d \in DivRegisters
      PROVE  DivResult(d) \in Word
  <2>1. /\ d.quot \in Word /\ d.special_val \in Word
        /\ d.rem % WordSize \in Word
    BY WordFacts DEF DivRegisters, Word
  <2>2. \A w \in Word : Negate(w, WordSize) \in Word
    BY NegateIs, WordFacts DEF Word
  <2>3. QED
    BY <2>1, <2>2 DEF DivResult, RemFinal, QuotFinal
<1>3. QED
  BY <1>1, <1>2

(* The request being served is one for the unit that serves it.            *)
RightUnit == md.state # "IDLE" => IF md.is_div THEN div.op \in DivOps
                                  ELSE mul.op \in MulOps

(* The inductive invariant.                                                *)
IInv == /\ MulDivTypeOK
        /\ MulGood(mul)
        /\ DivGood(div)
        /\ OneUnitRuns
        /\ RightUnit
        /\ AnswerIsRight

Starts(valid_i) == md.state = "IDLE" /\ valid_i

LEMMA WrapperFields ==
  ASSUME MulDivTypeOK, NEW valid_i \in BOOLEAN, NEW ready_i \in BOOLEAN,
         NEW r \in Request, Edge(valid_i, ready_i, r)
  PROVE  /\ md' \in [state : {"IDLE", "BUSY", "HOLD"}, is_div : BOOLEAN,
                      result : Word]
         /\ Starts(valid_i) => /\ md'.state = "BUSY"
                               /\ md'.is_div = IsDiv(r.op)
                               /\ md'.result = md.result
         /\ ~ Starts(valid_i) => md'.is_div = md.is_div
         /\ md.state = "IDLE" /\ ~ valid_i => md' = md
         /\ md.state = "BUSY" /\ ~ UnitDone => md' = md
         /\ md.state = "BUSY" /\ UnitDone =>
              /\ md'.state = "HOLD"
              /\ md'.result = IF md.is_div THEN DivResult(div)
                              ELSE MulResult(mul)
         /\ md.state = "HOLD" /\ ready_i => /\ md'.state = "IDLE"
                                            /\ md'.result = md.result
         /\ md.state = "HOLD" /\ ~ ready_i => md' = md
<1>1. md \in [state : {"IDLE", "BUSY", "HOLD"}, is_div : BOOLEAN,
              result : Word]
  BY DEF MulDivTypeOK
<1>2. md' = WrapperNext(valid_i, ready_i, r)
  BY DEF Edge
<1>3. CASE Starts(valid_i)
  <2>1. md' = [md EXCEPT !.state = "BUSY", !.is_div = IsDiv(r.op)]
    BY <1>2, <1>3 DEF WrapperNext, Starts
  <2>2. IsDiv(r.op) \in BOOLEAN
    BY DEF IsDiv
  <2>3. md' \in [state : {"IDLE", "BUSY", "HOLD"}, is_div : BOOLEAN,
                 result : Word]
    BY <1>1, <2>1, <2>2, Zenon
  <2>4. /\ md'.state = "BUSY" /\ md'.is_div = IsDiv(r.op)
        /\ md'.result = md.result
    BY <1>1, <2>1, Zenon
  <2>5. QED
    BY <1>3, <2>3, <2>4, Zenon DEF Starts
<1>4. CASE md.state = "BUSY" /\ UnitDone
  <2>1. md' = [md EXCEPT !.state = "HOLD",
                         !.result = IF md.is_div THEN DivResult(div)
                                    ELSE MulResult(mul)]
    BY <1>2, <1>4 DEF WrapperNext
  <2>2. (IF md.is_div THEN DivResult(div) ELSE MulResult(mul)) \in Word
    BY ResultTypes DEF MulDivTypeOK
  <2>3. QED
    BY <1>1, <1>4, <2>1, <2>2 DEF Starts
<1>5. CASE md.state = "HOLD" /\ ready_i
  <2>1. md' = [md EXCEPT !.state = "IDLE"]
    BY <1>2, <1>5 DEF WrapperNext
  <2>2. QED
    BY <1>1, <1>5, <2>1 DEF Starts
<1>6. CASE \/ md.state = "IDLE" /\ ~ valid_i
           \/ md.state = "BUSY" /\ ~ UnitDone
           \/ md.state = "HOLD" /\ ~ ready_i
  <2>1. md' = md
    BY <1>2, <1>6 DEF WrapperNext
  <2>2. QED
    BY <1>1, <1>6, <2>1 DEF Starts
<1>7. md.state \in {"IDLE", "BUSY", "HOLD"}
  BY <1>1
<1>8. QED
  BY <1>3, <1>4, <1>5, <1>6, <1>7, Zenon DEF Starts

(* What one clock edge does to the two units.                              *)
LEMMA UnitFields ==
  ASSUME IInv, NEW valid_i \in BOOLEAN, NEW ready_i \in BOOLEAN,
         NEW r \in Request, Edge(valid_i, ready_i, r)
  PROVE  LET sm == Starts(valid_i) /\ ~ IsDiv(r.op)
             sd == Starts(valid_i) /\ IsDiv(r.op)
         IN  /\ mul' \in MulRegisters /\ MulGood(mul)'
             /\ div' \in DivRegisters /\ DivGood(div)'
             /\ sm => mul'.state = "LOAD" /\ Latched(mul)' = Latched(r)
             /\ ~ sm =>
                  /\ Latched(mul)' = Latched(mul)
                  /\ mul.state \in {"IDLE", "DONE"} => mul'.state = "IDLE"
                  /\ mul.state \in {"LOAD", "RUN"}
                       => mul'.state \in {"RUN", "DONE"}
             /\ sd => div'.state = "LOAD" /\ Latched(div)' = Latched(r)
             /\ ~ sd =>
                  /\ Latched(div)' = Latched(div)
                  /\ div.state \in {"IDLE", "DONE"} => div'.state = "IDLE"
                  /\ div.state \in {"LOAD", "RUN"}
                       => div'.state \in {"RUN", "DONE"}
<1> DEFINE sm == Starts(valid_i) /\ ~ IsDiv(r.op)
           sd == Starts(valid_i) /\ IsDiv(r.op)
<1>1. mul' = MulNext(mul, sm, r) /\ div' = DivNext(div, sd, r)
  BY DEF Edge, Starts
<1>2. sm \in BOOLEAN /\ sd \in BOOLEAN
  BY DEF Starts
<1>3. (sm => mul.state = "IDLE") /\ (sd => div.state = "IDLE")
  BY DEF IInv, OneUnitRuns, Starts
<1>4. /\ mul \in MulRegisters /\ MulGood(mul)
      /\ div \in DivRegisters /\ DivGood(div)
  BY DEF IInv, MulDivTypeOK
<1> HIDE DEF sm, sd
<1>5. /\ mul' \in MulRegisters /\ MulGood(mul')
      /\ sm => mul'.state = "LOAD" /\ Latched(mul') = Latched(r)
      /\ ~ sm => /\ Latched(mul') = Latched(mul)
                 /\ mul.state = "IDLE" => mul'.state = "IDLE"
                 /\ mul.state = "DONE" => mul'.state = "IDLE"
                 /\ mul.state \in {"LOAD", "RUN"}
                      => mul'.state \in {"RUN", "DONE"}
  BY <1>1, <1>2, <1>3, <1>4, MulNextFacts
<1>6. /\ div' \in DivRegisters /\ DivGood(div')
      /\ sd => div'.state = "LOAD" /\ Latched(div') = Latched(r)
      /\ ~ sd => /\ Latched(div') = Latched(div)
                 /\ div.state = "IDLE" => div'.state = "IDLE"
                 /\ div.state = "DONE" => div'.state = "IDLE"
                 /\ div.state \in {"LOAD", "RUN"}
                      => div'.state \in {"RUN", "DONE"}
  BY <1>1, <1>2, <1>3, <1>4, DivNextFacts
<1>7. /\ Latched(mul)' = Latched(mul') /\ MulGood(mul)' = MulGood(mul')
      /\ Latched(div)' = Latched(div') /\ DivGood(div)' = DivGood(div')
  BY Zenon DEF Latched, MulGood, MulLoop, MulFlags, DivGood, DivLoop, DivFlags
<1>8. QED
  BY <1>5, <1>6, <1>7, Zenon DEF sm, sd

(* A clock edge preserves the invariant and is a step of the service, or   *)
(* none that the service sees.                                             *)
LEMMA EdgeStep ==
  ASSUME IInv, NEW valid_i \in BOOLEAN, NEW ready_i \in BOOLEAN,
         NEW r \in Request, Edge(valid_i, ready_i, r)
  PROVE  /\ IInv'
         /\ \/ /\ md.state = "IDLE" /\ md'.state = "BUSY"
               /\ Serving' = Latched(r) /\ md'.result = md.result
            \/ /\ md.state = "BUSY" /\ md'.state = "HOLD"
               /\ md'.result = MuldivRef(Serving) /\ Serving' = Serving
            \/ /\ md.state = "HOLD" /\ md'.state = "IDLE"
               /\ Serving' = Serving /\ md'.result = md.result
            \/ md' = md /\ Serving' = Serving
<1> DEFINE start == Starts(valid_i)
           sm == start /\ ~ IsDiv(r.op)
           sd == start /\ IsDiv(r.op)
<1>1. /\ md' \in [state : {"IDLE", "BUSY", "HOLD"}, is_div : BOOLEAN,
                  result : Word]
      /\ start => /\ md'.state = "BUSY" /\ md'.is_div = IsDiv(r.op)
                  /\ md'.result = md.result
      /\ ~ start => md'.is_div = md.is_div
      /\ md.state = "IDLE" /\ ~ valid_i => md' = md
      /\ md.state = "BUSY" /\ ~ UnitDone => md' = md
      /\ md.state = "BUSY" /\ UnitDone =>
           /\ md'.state = "HOLD"
           /\ md'.result = IF md.is_div THEN DivResult(div)
                           ELSE MulResult(mul)
      /\ md.state = "HOLD" /\ ready_i => /\ md'.state = "IDLE"
                                         /\ md'.result = md.result
      /\ md.state = "HOLD" /\ ~ ready_i => md' = md
  BY WrapperFields, Zenon DEF IInv
<1>2. /\ mul' \in MulRegisters /\ MulGood(mul)'
      /\ div' \in DivRegisters /\ DivGood(div)'
      /\ sm => mul'.state = "LOAD" /\ Latched(mul)' = Latched(r)
      /\ ~ sm => /\ Latched(mul)' = Latched(mul)
                 /\ mul.state \in {"IDLE", "DONE"} => mul'.state = "IDLE"
                 /\ mul.state \in {"LOAD", "RUN"}
                      => mul'.state \in {"RUN", "DONE"}
      /\ sd => div'.state = "LOAD" /\ Latched(div)' = Latched(r)
      /\ ~ sd => /\ Latched(div)' = Latched(div)
                 /\ div.state \in {"IDLE", "DONE"} => div'.state = "IDLE"
                 /\ div.state \in {"LOAD", "RUN"}
                      => div'.state \in {"RUN", "DONE"}
  BY UnitFields, Zenon
<1>3. /\ md \in [state : {"IDLE", "BUSY", "HOLD"}, is_div : BOOLEAN,
                 result : Word]
      /\ mul \in MulRegisters /\ div \in DivRegisters
      /\ mul.state \in {"IDLE", "LOAD", "RUN", "DONE"}
      /\ div.state \in {"IDLE", "LOAD", "RUN", "DONE"}
      /\ compute_cycles \in Nat /\ served \in Nat
      /\ MulGood(mul) /\ DivGood(div)
  BY DEF IInv, MulDivTypeOK, MulRegisters, DivRegisters, MulStates, DivStates
<1>4. /\ OneUnitRuns /\ RightUnit /\ AnswerIsRight
  BY DEF IInv
<1>5. compute_cycles' \in Nat /\ served' \in Nat
  BY <1>3 DEF Edge
<1>6. MulDivTypeOK'
  BY <1>1, <1>2, <1>5, Zenon DEF MulDivTypeOK
<1>7. start <=> md.state = "IDLE" /\ valid_i
  BY DEF Starts
<1>8. /\ Serving' = IF md'.is_div THEN Latched(div)' ELSE Latched(mul)'
      /\ Latched(mul)'.op = mul'.op /\ Latched(mul).op = mul.op
      /\ Latched(div)'.op = div'.op /\ Latched(div).op = div.op
      /\ Latched(r).op = r.op
  BY DEF Serving, Latched
<1> SUFFICES /\ OneUnitRuns' /\ RightUnit' /\ AnswerIsRight'
             /\ \/ /\ md.state = "IDLE" /\ md'.state = "BUSY"
                   /\ Serving' = Latched(r) /\ md'.result = md.result
                \/ /\ md.state = "BUSY" /\ md'.state = "HOLD"
                   /\ md'.result = MuldivRef(Serving) /\ Serving' = Serving
                \/ /\ md.state = "HOLD" /\ md'.state = "IDLE"
                   /\ Serving' = Serving /\ md'.result = md.result
                \/ md' = md /\ Serving' = Serving
  BY <1>2, <1>6, Zenon DEF IInv
<1> HIDE DEF start
<1>9. CASE start
  <2>1. md.state = "IDLE" /\ mul.state = "IDLE" /\ div.state = "IDLE"
    BY <1>4, <1>7, <1>9 DEF OneUnitRuns
  <2>2. r.op \in MulOps \cup DivOps
    BY DEF Request, MulDivOps
  <2>3. CASE IsDiv(r.op)
    <3>1. /\ md'.state = "BUSY" /\ md'.is_div = TRUE /\ md'.result = md.result
          /\ div'.state = "LOAD" /\ Latched(div)' = Latched(r)
          /\ mul'.state = "IDLE"
      BY <1>1, <1>2, <1>9, <2>1, <2>3
    <3>2. Serving' = Latched(r) /\ div'.op \in DivOps
      BY <3>1, <1>8, <2>3 DEF IsDiv
    <3>3. QED
      BY <2>1, <3>1, <3>2 DEF OneUnitRuns, RightUnit, AnswerIsRight
  <2>4. CASE ~ IsDiv(r.op)
    <3>1. /\ md'.state = "BUSY" /\ ~ md'.is_div /\ md'.result = md.result
          /\ mul'.state = "LOAD" /\ Latched(mul)' = Latched(r)
          /\ div'.state = "IDLE"
      BY <1>1, <1>2, <1>9, <2>1, <2>4
    <3>2. Serving' = Latched(r) /\ mul'.op \in MulOps
      BY <3>1, <1>8, <2>2, <2>4 DEF IsDiv
    <3>3. QED
      BY <2>1, <3>1, <3>2 DEF OneUnitRuns, RightUnit, AnswerIsRight
  <2>5. QED
    BY <2>3, <2>4
<1>10. CASE ~ start
  <2>1. /\ md'.is_div = md.is_div
        /\ Latched(mul)' = Latched(mul) /\ Latched(div)' = Latched(div)
        /\ mul.state \in {"IDLE", "DONE"} => mul'.state = "IDLE"
        /\ mul.state \in {"LOAD", "RUN"} => mul'.state \in {"RUN", "DONE"}
        /\ div.state \in {"IDLE", "DONE"} => div'.state = "IDLE"
        /\ div.state \in {"LOAD", "RUN"} => div'.state \in {"RUN", "DONE"}
    BY <1>1, <1>2, <1>10, Zenon
  <2>2. Serving' = Serving /\ mul'.op = mul.op /\ div'.op = div.op
    BY <1>8, <2>1, Zenon DEF Serving
  <2>3. CASE md.state = "IDLE" \/ (md.state = "HOLD" /\ ~ ready_i)
    <3>1. md' = md
      BY <1>1, <1>7, <1>10, <2>3
    <3>2. QED
      BY <1>4, <2>1, <2>2, <2>3, <3>1 DEF OneUnitRuns, RightUnit, AnswerIsRight
  <2>4. CASE md.state = "HOLD" /\ ready_i
    <3>1. md'.state = "IDLE" /\ md'.result = md.result
      BY <1>1, <2>4
    <3>2. QED
      BY <1>4, <2>1, <2>2, <2>4, <3>1 DEF OneUnitRuns, RightUnit, AnswerIsRight
  <2>5. CASE md.state = "BUSY" /\ ~ UnitDone
    <3>1. md' = md
      BY <1>1, <2>5
    <3>2. QED
      BY <1>3, <1>4, <2>1, <2>2, <2>5, <3>1
         DEF OneUnitRuns, RightUnit, AnswerIsRight, UnitDone, MulDone, DivDone
  <2>6. CASE md.state = "BUSY" /\ UnitDone
    <3>1. /\ md'.state = "HOLD"
          /\ md'.result = IF md.is_div THEN DivResult(div) ELSE MulResult(mul)
      BY <1>1, <2>6
    <3>2. /\ md.is_div => DivResult(div) = MuldivRef(Latched(div))
          /\ ~ md.is_div => MulResult(mul) = MuldivRef(Latched(mul))
      BY <1>3, <1>4, <2>6, MulAnswer, DivAnswer
         DEF UnitDone, MulDone, DivDone, RightUnit
    <3>3. md'.result = MuldivRef(Serving)
      BY <3>1, <3>2 DEF Serving
    <3>4. MuldivRef(Serving)' = MuldivRef(Serving)
      BY <2>2, Zenon DEF MuldivRef
    <3>5. AnswerIsRight'
      BY <3>3, <3>4, Zenon DEF AnswerIsRight
    <3>6. OneUnitRuns' /\ RightUnit'
      BY <1>3, <1>4, <2>1, <2>2, <2>6, <3>1
         DEF OneUnitRuns, RightUnit, UnitDone, MulDone, DivDone
    <3>7. QED
      BY <2>2, <2>6, <3>1, <3>3, <3>5, <3>6, Zenon
  <2>7. QED
    BY <1>3, <2>3, <2>4, <2>5, <2>6
<1>11. QED
  BY <1>9, <1>10

LEMMA ResetGood ==
  /\ MulDivReset \in [state : {"IDLE", "BUSY", "HOLD"}, is_div : BOOLEAN,
                      result : Word]
  /\ MulReset \in MulRegisters /\ MulGood(MulReset)
  /\ DivReset \in DivRegisters /\ DivGood(DivReset)
<1>1. /\ 0 \in Word /\ 0 \in 0 .. (DoubleSize - 1) /\ 0 \in 0 .. 31
      /\ 0 \in 0 .. 63 /\ 0 \in 0 .. (2 * WordSize - 1)
      /\ "MUL" \in MulDivOps /\ "IDLE" \in MulStates /\ "IDLE" \in DivStates
  BY WordFacts DEF MulDivOps, MulOps, MulStates, DivStates
<1>2. MulReset \in MulRegisters /\ DivReset \in DivRegisters
  BY <1>1, Zenon DEF MulReset, DivReset, MulRegisters, DivRegisters
<1>3. MulReset.state = "IDLE" /\ DivReset.state = "IDLE"
  BY DEF MulReset, DivReset
<1>4. MulGood(MulReset) /\ DivGood(DivReset)
  BY <1>3 DEF MulGood, MulLoop, MulFlags, DivGood, DivLoop, DivFlags
<1>5. QED
  BY <1>1, <1>2, <1>4 DEF MulDivReset

LEMMA InitInv == Init => IInv
<1> SUFFICES ASSUME Init PROVE IInv
  OBVIOUS
<1>1. md = MulDivReset /\ mul = MulReset /\ div = DivReset
  BY DEF Init
<1>2. md.state = "IDLE" /\ mul.state = "IDLE" /\ div.state = "IDLE"
  BY <1>1 DEF MulDivReset, MulReset, DivReset
<1>3. MulDivTypeOK /\ MulGood(mul) /\ DivGood(div)
  BY <1>1, ResetGood DEF Init, MulDivTypeOK
<1>4. QED
  BY <1>2, <1>3 DEF IInv, OneUnitRuns, RightUnit, AnswerIsRight

LEMMA ResetInv == Reset => IInv'
<1> SUFFICES ASSUME Reset PROVE IInv'
  OBVIOUS
<1>1. md' = MulDivReset /\ mul' = MulReset /\ div' = DivReset
  BY DEF Reset
<1>2. md'.state = "IDLE" /\ mul'.state = "IDLE" /\ div'.state = "IDLE"
  BY <1>1 DEF MulDivReset, MulReset, DivReset
<1>3. MulDivTypeOK' /\ MulGood(mul') /\ DivGood(div')
  BY <1>1, ResetGood DEF Reset, MulDivTypeOK
<1>4. MulGood(mul)' /\ DivGood(div)'
  BY <1>3 DEF MulGood, MulLoop, MulFlags, DivGood, DivLoop, DivFlags
<1>5. QED
  BY <1>2, <1>3, <1>4 DEF IInv, OneUnitRuns, RightUnit, AnswerIsRight

(* Every clock edge is one under inputs the ports can carry.               *)
LEMMA ClockIsEdge ==
  ASSUME Accept \/ Work
  PROVE  \E valid_i, ready_i \in BOOLEAN, r \in Request :
           Edge(valid_i, ready_i, r)
BY RequestsAssumption DEF Accept, Work

LEMMA NextInv == IInv /\ [Next]_vars => IInv'
<1> SUFFICES ASSUME IInv, [Next]_vars PROVE IInv'
  OBVIOUS
<1>1. CASE Accept \/ Work
  BY <1>1, ClockIsEdge, EdgeStep
<1>2. CASE Reset
  BY <1>2, ResetInv
<1>3. CASE UNCHANGED vars
  <2>1. /\ md' = md /\ mul' = mul /\ div' = div
        /\ compute_cycles' = compute_cycles /\ served' = served
    BY <1>3 DEF vars
  <2>2. MulDivTypeOK'
    BY <2>1, Zenon DEF IInv, MulDivTypeOK
  <2>3. MulGood(mul)' /\ DivGood(div)'
    BY <2>1, Zenon DEF IInv, MulGood, MulLoop, MulFlags, DivGood, DivLoop,
                       DivFlags
  <2>4. OneUnitRuns' /\ RightUnit'
    BY <2>1, Zenon DEF IInv, OneUnitRuns, RightUnit
  <2>5. AnswerIsRight'
    BY <2>1, Zenon DEF IInv, AnswerIsRight, Serving, Latched, MuldivRef
  <2>6. QED
    BY <2>2, <2>3, <2>4, <2>5 DEF IInv
<1>4. QED
  BY <1>1, <1>2, <1>3 DEF Next

THEOREM MulDivInvariant == SafeSpec => []IInv
BY InitInv, NextInv, PTL DEF SafeSpec

(* Every register keeps to its width: no quotient, product or remainder    *)
(* outgrows the register mul_unit.sv and div_unit.sv give it.              *)
THEOREM MulDivTypeCorrect == SafeSpec => []MulDivTypeOK
<1>1. IInv => MulDivTypeOK
  BY DEF IInv
<1>2. QED
  BY <1>1, MulDivInvariant, PTL

(* The radix-4 loop computes the product of the magnitudes, whatever the   *)
(* operands and the word size.                                             *)
THEOREM MultiplierIsExact == SafeSpec => []PartialProduct
<1>1. IInv => PartialProduct
  BY DEF IInv, MulGood, PartialProduct
<1>2. QED
  BY <1>1, MulDivInvariant, PTL

(* The restoring loop computes quotient and remainder of the magnitudes,   *)
(* whatever the operands and the word size.                                *)
THEOREM DividerIsExact == SafeSpec => []PartialQuotient
<1>1. IInv => PartialQuotient
  BY DEF IInv, DivGood, PartialQuotient
<1>2. QED
  BY <1>1, MulDivInvariant, PTL

(* The wrapper of muldiv.sv starts one unit at a time and never waits for  *)
(* one that does not run.                                                  *)
THEOREM WrapperWaitsForItsUnit == SafeSpec => []OneUnitRuns
<1>1. IInv => OneUnitRuns
  BY DEF IInv
<1>2. QED
  BY <1>1, MulDivInvariant, PTL

(* Every answer on offer is the one the M extension defines for the        *)
(* request accepted last, for all eight operations and all operands.       *)
THEOREM AnswersAreRight == SafeSpec => []AnswerIsRight
<1>1. IInv => AnswerIsRight
  BY DEF IInv
<1>2. QED
  BY <1>1, MulDivInvariant, PTL

-----------------------------------------------------------------------------
(* The latency: where a unit stands tells the edges since the accept.      *)

SpecialRequest(r) ==
  r.b = 0 \/ (r.op \in {"DIV", "REM"} /\ Overflow(r.a, r.b))

MulElapsed(m) == IF m.state = "LOAD" THEN 1
                 ELSE IF m.state = "RUN" THEN m.cnt + 2
                 ELSE MulIterations + 2

DivElapsed(d) == IF d.state = "LOAD" THEN 1
                 ELSE IF d.state = "RUN" THEN d.cnt + 2
                 ELSE IF SpecialRequest(d) THEN 2
                 ELSE XLEN + 2

(* The monitor's count agrees with the unit that runs, which iterates only *)
(* on a request that is none of the two special cases.                     *)
OnTime ==
  /\ md.state = "BUSY" =>
       compute_cycles = IF md.is_div THEN DivElapsed(div) ELSE MulElapsed(mul)
  /\ md.state = "BUSY" /\ md.is_div /\ div.state = "RUN" =>
       ~ SpecialRequest(div)
  /\ LatencyByClass

LEMMA MulElapsedStep ==
  ASSUME NEW m \in MulRegisters, MulGood(m), m.state \in {"LOAD", "RUN"},
         NEW n, n = IF m.state = "LOAD" THEN MulLoad(m) ELSE MulIterate(m)
  PROVE  MulElapsed(n) = MulElapsed(m) + 1
<1>1. MulIterations \in Nat /\ m.cnt \in 0 .. 31 /\ MulIterations <= 16
  BY XlenAssumption DEF MulIterations, MulRegisters
<1>2. CASE m.state = "LOAD"
  <2>1. n = MulLoad(m)
    BY <1>2
  <2>2. n.state = "RUN" /\ n.cnt = 0
    BY <2>1 DEF MulLoad, MulRegisters
  <2>3. QED
    <3>1. MulElapsed(m) = 1
      BY <1>2 DEF MulElapsed
    <3>2. MulElapsed(n) = n.cnt + 2
      BY <2>2 DEF MulElapsed
    <3>3. QED
      BY <2>2, <3>1, <3>2
<1>3. CASE m.state = "RUN"
  <2>1. n = MulIterate(m)
    BY <1>3
  <2>2. /\ n.state = (IF m.cnt = MulIterations - 1 THEN "DONE" ELSE "RUN")
        /\ n.cnt = (m.cnt + 1) % 32
    BY <2>1 DEF MulIterate, MulRegisters
  <2>3. m.cnt < MulIterations
    BY <1>3 DEF MulGood, MulLoop
  <2>4. MulElapsed(m) = m.cnt + 2
    BY <1>3 DEF MulElapsed
  <2>5. CASE m.cnt = MulIterations - 1
    <3>1. MulElapsed(n) = MulIterations + 2
      BY <2>2, <2>5 DEF MulElapsed
    <3>2. QED
      BY <1>1, <2>4, <2>5, <3>1
  <2>6. CASE m.cnt # MulIterations - 1
    <3>1. MulElapsed(n) = n.cnt + 2
      BY <2>2, <2>6 DEF MulElapsed
    <3>2. n.cnt = m.cnt + 1
      BY <1>1, <2>2, <2>3
    <3>3. QED
      BY <1>1, <2>4, <3>1, <3>2
  <2>7. QED
    BY <2>5, <2>6
<1>4. QED
  BY <1>2, <1>3

LEMMA DivElapsedStep ==
  ASSUME NEW d \in DivRegisters, DivGood(d), d.state \in {"LOAD", "RUN"},
         d.op \in DivOps, d.state = "RUN" => ~ SpecialRequest(d),
         NEW n, n = IF d.state = "LOAD" THEN DivLoad(d) ELSE DivIterate(d)
  PROVE  /\ DivElapsed(n) = DivElapsed(d) + 1
         /\ n.state = "RUN" => ~ SpecialRequest(n)
<1>1. XLEN \in Nat /\ XLEN <= 32 /\ d.cnt \in 0 .. 63
  BY XlenAssumption DEF DivRegisters
<1>2. ASSUME n.op = d.op, n.a = d.a, n.b = d.b
      PROVE  SpecialRequest(n) <=> SpecialRequest(d)
  BY <1>2 DEF SpecialRequest
<1>3. CASE d.state = "LOAD"
  <2>1. n = DivLoad(d)
    BY <1>3
  <2>2. SpecialRequest(d) <=> DivByZero(d) \/ SignOverflow(d)
    BY DEF SpecialRequest, DivByZero, SignOverflow, IsSigned, Overflow
  <2>3. /\ n.op = d.op /\ n.a = d.a /\ n.b = d.b
        /\ SpecialRequest(d) => n.state = "DONE"
        /\ ~ SpecialRequest(d) => n.state = "RUN" /\ n.cnt = 0
    BY <2>1, <2>2 DEF DivLoad, DivSpecial, DivStart, DivRegisters
  <2>4. SpecialRequest(n) <=> SpecialRequest(d)
    BY <1>2, <2>3
  <2>5. DivElapsed(d) = 1
    BY <1>3 DEF DivElapsed
  <2>6. CASE SpecialRequest(d)
    <3>1. n.state = "DONE" /\ SpecialRequest(n)
      BY <2>3, <2>4, <2>6
    <3>2. DivElapsed(n) = 2
      BY <3>1 DEF DivElapsed
    <3>3. QED
      BY <2>5, <3>1, <3>2
  <2>7. CASE ~ SpecialRequest(d)
    <3>1. n.state = "RUN" /\ n.cnt = 0 /\ ~ SpecialRequest(n)
      BY <2>3, <2>4, <2>7
    <3>2. DivElapsed(n) = n.cnt + 2
      BY <3>1 DEF DivElapsed
    <3>3. QED
      BY <2>5, <3>1, <3>2
  <2>8. QED
    BY <2>6, <2>7
<1>4. CASE d.state = "RUN"
  <2>1. n = DivIterate(d)
    BY <1>4
  <2>2. /\ n.op = d.op /\ n.a = d.a /\ n.b = d.b
        /\ n.state = (IF d.cnt = XLEN - 1 THEN "DONE" ELSE "RUN")
        /\ n.cnt = (d.cnt + 1) % 64
    BY <2>1 DEF DivIterate, DivRegisters
  <2>3. d.cnt < XLEN
    BY <1>4 DEF DivGood, DivLoop
  <2>4. ~ SpecialRequest(n) /\ ~ SpecialRequest(d)
    BY <1>2, <1>4, <2>2
  <2>5. DivElapsed(d) = d.cnt + 2
    BY <1>4 DEF DivElapsed
  <2>6. CASE d.cnt = XLEN - 1
    <3>1. DivElapsed(n) = XLEN + 2
      BY <2>2, <2>4, <2>6 DEF DivElapsed
    <3>2. QED
      BY <1>1, <2>4, <2>5, <2>6, <3>1
  <2>7. CASE d.cnt # XLEN - 1
    <3>1. DivElapsed(n) = n.cnt + 2
      BY <2>2, <2>7 DEF DivElapsed
    <3>2. n.cnt = d.cnt + 1
      BY <1>1, <2>2, <2>3
    <3>3. QED
      BY <1>1, <2>4, <2>5, <3>1, <3>2
  <2>8. QED
    BY <2>6, <2>7
<1>5. QED
  BY <1>3, <1>4

LEMMA EdgeOnTime ==
  ASSUME IInv, OnTime, NEW valid_i \in BOOLEAN, NEW ready_i \in BOOLEAN,
         NEW r \in Request, Edge(valid_i, ready_i, r)
  PROVE  OnTime'
<1> DEFINE start == Starts(valid_i)
<1>1. /\ start => md'.state = "BUSY" /\ md'.is_div = IsDiv(r.op)
      /\ ~ start => md'.is_div = md.is_div
      /\ md.state = "IDLE" /\ ~ valid_i => md' = md
      /\ md.state = "BUSY" /\ ~ UnitDone => md' = md
      /\ md.state = "BUSY" /\ UnitDone => md'.state = "HOLD"
      /\ md.state = "HOLD" /\ ready_i => md'.state = "IDLE"
      /\ md.state = "HOLD" /\ ~ ready_i => md' = md
  BY WrapperFields, Zenon DEF IInv
<1>2. /\ mul' = MulNext(mul, start /\ ~ IsDiv(r.op), r)
      /\ div' = DivNext(div, start /\ IsDiv(r.op), r)
      /\ compute_cycles' = IF start THEN 1
                           ELSE IF md.state = "BUSY" THEN compute_cycles + 1
                           ELSE compute_cycles
  BY DEF Edge, Starts
<1>3. /\ start /\ ~ IsDiv(r.op) => mul'.state = "LOAD"
      /\ start /\ IsDiv(r.op) => div'.state = "LOAD"
      /\ ~ start => Latched(mul)' = Latched(mul) /\ Latched(div)' = Latched(div)
  BY UnitFields, Zenon
<1>4. /\ md.state \in {"IDLE", "BUSY", "HOLD"} /\ md.is_div \in BOOLEAN
      /\ mul \in MulRegisters /\ div \in DivRegisters
      /\ MulGood(mul) /\ DivGood(div)
      /\ mul.state \in {"IDLE", "LOAD", "RUN", "DONE"}
      /\ div.state \in {"IDLE", "LOAD", "RUN", "DONE"}
      /\ compute_cycles \in Nat
      /\ OneUnitRuns /\ RightUnit
  BY DEF IInv, MulDivTypeOK, MulRegisters, DivRegisters, MulStates, DivStates
<1>5. MulIterations \in Nat /\ XLEN \in Nat
  BY XlenAssumption DEF MulIterations
<1>6. start <=> md.state = "IDLE" /\ valid_i
  BY DEF Starts
<1> HIDE DEF start
<1>7. CASE start
  BY <1>1, <1>2, <1>3, <1>7
     DEF OnTime, LatencyByClass, MulElapsed, DivElapsed
<1>8. CASE ~ start
  <2>1. Serving' = Serving /\ md'.is_div = md.is_div
    BY <1>1, <1>3, <1>8 DEF Serving
  <2>2. /\ Serving = IF md.is_div THEN Latched(div) ELSE Latched(mul)
        /\ Latched(div).op = div.op /\ Latched(div).a = div.a
        /\ Latched(div).b = div.b
    BY DEF Serving, Latched
  <2>3. CASE md.state = "IDLE" \/ md.state = "HOLD"
    <3>1. compute_cycles' = compute_cycles
      BY <1>2, <1>8, <2>3
    <3>2. md'.state # "BUSY" /\ (md'.state = "HOLD" => md.state = "HOLD")
      BY <1>1, <1>4, <1>6, <1>8, <2>3
    <3>3. LatencyByClass'
      BY <2>1, <3>1, <3>2, Zenon DEF OnTime, LatencyByClass, Overflow
    <3>4. QED
      BY <3>2, <3>3 DEF OnTime
  <2>4. CASE md.state = "BUSY" /\ UnitDone
    <3>1. /\ md'.state = "HOLD" /\ compute_cycles' = compute_cycles + 1
      BY <1>1, <1>2, <1>8, <2>4
    <3>2. CASE md.is_div
      <4>1. div.state = "DONE"
        BY <2>4, <3>2 DEF UnitDone, DivDone
      <4>2. compute_cycles' = IF SpecialRequest(div) THEN 3 ELSE XLEN + 3
        BY <1>4, <1>5, <2>4, <3>1, <3>2, <4>1 DEF OnTime, DivElapsed
      <4>3. SpecialRequest(div) <=> SpecialRequest(Serving)
        BY <2>2, <3>2 DEF SpecialRequest
      <4>4. LatencyByClass'
        BY <2>1, <3>2, <4>2, <4>3, Zenon
           DEF LatencyByClass, SpecialRequest, Overflow
      <4>5. QED
        BY <3>1, <4>4 DEF OnTime
    <3>3. CASE ~ md.is_div
      <4>1. mul.state = "DONE"
        BY <2>4, <3>3 DEF UnitDone, MulDone
      <4>2. compute_cycles' = MulIterations + 3
        BY <1>4, <1>5, <2>4, <3>1, <3>3, <4>1 DEF OnTime, MulElapsed
      <4>3. LatencyByClass'
        BY <2>1, <3>3, <4>2, Zenon DEF LatencyByClass
      <4>4. QED
        BY <3>1, <4>3 DEF OnTime
    <3>4. QED
      BY <3>2, <3>3
  <2>5. CASE md.state = "BUSY" /\ ~ UnitDone
    <3>1. md' = md /\ compute_cycles' = compute_cycles + 1
      BY <1>1, <1>2, <1>8, <2>5
    <3>2. mul' = MulNext(mul, FALSE, r) /\ div' = DivNext(div, FALSE, r)
      BY <1>2, <1>8
    <3>3. LatencyByClass'
      BY <2>5, <3>1 DEF LatencyByClass
    <3>4. CASE md.is_div
      <4>1. div.state \in {"LOAD", "RUN"} /\ div.op \in DivOps
        BY <1>4, <2>5, <3>4 DEF OneUnitRuns, RightUnit, UnitDone, DivDone
      <4>2. div.state = "RUN" => ~ SpecialRequest(div)
        BY <2>5, <3>4 DEF OnTime
      <4>3. /\ DivElapsed(div') = DivElapsed(div) + 1
            /\ div'.state = "RUN" => ~ SpecialRequest(div')
        <5>1. div' = IF div.state = "LOAD" THEN DivLoad(div)
                     ELSE DivIterate(div)
          BY <3>2, <4>1 DEF DivNext
        <5>2. QED
          BY <1>4, <4>1, <4>2, <5>1, DivElapsedStep
      <4>4. compute_cycles' = DivElapsed(div')
        BY <2>5, <3>1, <3>4, <4>3 DEF OnTime
      <4>5. QED
        BY <3>1, <3>3, <3>4, <4>3, <4>4, Zenon
           DEF OnTime, DivElapsed, SpecialRequest, Overflow
    <3>5. CASE ~ md.is_div
      <4>1. mul.state \in {"LOAD", "RUN"}
        BY <1>4, <2>5, <3>5 DEF OneUnitRuns, UnitDone, MulDone
      <4>2. MulElapsed(mul') = MulElapsed(mul) + 1
        <5>1. mul' = IF mul.state = "LOAD" THEN MulLoad(mul)
                     ELSE MulIterate(mul)
          BY <3>2, <4>1 DEF MulNext
        <5>2. QED
          BY <1>4, <4>1, <5>1, MulElapsedStep
      <4>3. compute_cycles' = MulElapsed(mul')
        BY <2>5, <3>1, <3>5, <4>2 DEF OnTime
      <4>4. QED
        BY <3>1, <3>3, <3>5, <4>3, Zenon DEF OnTime, MulElapsed
    <3>6. QED
      BY <3>4, <3>5
  <2>6. QED
    BY <1>4, <2>3, <2>4, <2>5
<1>9. QED
  BY <1>7, <1>8

LEMMA NextOnTime == IInv /\ OnTime /\ [Next]_vars => OnTime'
<1> SUFFICES ASSUME IInv, OnTime, [Next]_vars PROVE OnTime'
  OBVIOUS
<1>1. CASE Accept \/ Work
  BY <1>1, ClockIsEdge, EdgeOnTime
<1>2. CASE Reset
  BY <1>2 DEF Reset, MulDivReset, OnTime, LatencyByClass
<1>3. CASE UNCHANGED vars
  BY <1>3, Zenon DEF vars, OnTime, LatencyByClass, Serving, Latched, Overflow,
                     MulElapsed, DivElapsed, SpecialRequest
<1>4. QED
  BY <1>1, <1>2, <1>3 DEF Next

(* The latency of every operation depends on its class alone, and exactly  *)
(* a zero divisor and the signed overflow leave the divider early: the     *)
(* cycle counts env_muldiv covers, for every word size and operand.        *)
THEOREM LatencyIsByClass == SafeSpec => []LatencyByClass
<1>1. Init => OnTime
  BY DEF Init, MulDivReset, OnTime, LatencyByClass
<1>2. SafeSpec => []OnTime
  BY <1>1, NextOnTime, MulDivInvariant, PTL DEF SafeSpec
<1>3. OnTime => LatencyByClass
  BY DEF OnTime
<1>4. QED
  BY <1>2, <1>3, PTL

-----------------------------------------------------------------------------
(* The unit implements the service, its promise to answer eventually left  *)
(* to the model checker.                                                   *)

LEMMA ServiceSame ==
  /\ Service!Request = Request
  /\ \A r : Service!MuldivRef(r) = MuldivRef(r)
<1>1. /\ Service!WordSize = WordSize /\ Service!DoubleSize = DoubleSize
      /\ Service!Word = Word /\ Service!MulDivOps = MulDivOps
  <2>1. ASSUME NEW n
        PROVE  Service!Pow2(n) = Pow2(n)
    BY DEF Service!Pow2, Pow2
  <2>2. Service!WordSize = WordSize
    BY <2>1 DEF Service!WordSize, WordSize
  <2>3. Service!DoubleSize = DoubleSize /\ Service!Word = Word
    BY <2>2 DEF Service!DoubleSize, DoubleSize, Service!Word, Word
  <2>4. Service!MulDivOps = MulDivOps
    BY DEF Service!MulDivOps, MulDivOps, Service!MulOps, MulOps,
           Service!DivOps, DivOps
  <2>5. QED
    BY <2>2, <2>3, <2>4
<1>2. Service!Request = Request
  BY <1>1, Zenon DEF Service!Request, Request
<1>3. ASSUME NEW r
      PROVE  Service!MuldivRef(r) = MuldivRef(r)
  BY <1>1, Zenon DEF Service!MuldivRef, MuldivRef, Service!High, High,
     Service!Signed, Signed, Service!Msb, Msb, Service!Overflow, Overflow,
     Service!TruncDiv, TruncDiv, Service!TruncRem, TruncRem, Service!Abs, Abs
<1>4. QED
  BY <1>2, <1>3

LEMMA InitService == Init => Service!Init
BY DEF Init, MulDivReset, MulReset, Service!Init, Service!NoRequest, Serving,
       Latched

LEMMA NextService ==
  IInv /\ [Next]_vars => [Service!Next]_<<md.state, Serving, md.result>>
<1> SUFFICES ASSUME IInv, [Next]_vars
             PROVE  [Service!Next]_<<md.state, Serving, md.result>>
  OBVIOUS
<1>1. CASE Accept \/ Work
  <2>1. PICK valid_i \in BOOLEAN, ready_i \in BOOLEAN, r \in Request :
          Edge(valid_i, ready_i, r)
    BY <1>1, ClockIsEdge
  <2>2. \/ /\ md.state = "IDLE" /\ md'.state = "BUSY"
           /\ Serving' = Latched(r) /\ md'.result = md.result
        \/ /\ md.state = "BUSY" /\ md'.state = "HOLD"
           /\ md'.result = MuldivRef(Serving) /\ Serving' = Serving
        \/ /\ md.state = "HOLD" /\ md'.state = "IDLE"
           /\ Serving' = Serving /\ md'.result = md.result
        \/ md' = md /\ Serving' = Serving
    BY <2>1, EdgeStep
  <2>3. Latched(r) \in Service!Request
    BY ServiceSame DEF Latched, Request
  <2>4. Service!MuldivRef(Serving) = MuldivRef(Serving)
    BY ServiceSame
  <2>5. QED
    BY <2>2, <2>3, <2>4, Zenon
       DEF Service!Next, Service!Accept, Service!Finish, Service!Deliver
<1>2. CASE Reset
  BY <1>2 DEF Reset, MulDivReset, MulReset, Serving, Latched,
              Service!Next, Service!Reset, Service!NoRequest
<1>3. CASE UNCHANGED vars
  BY <1>3 DEF vars, Serving, Latched
<1>4. QED
  BY <1>1, <1>2, <1>3 DEF Next

(* Every step of the unit is one of the service MulDivService or invisible *)
(* to it: nothing but what the service allows is ever seen at the ports.   *)
THEOREM ImplementsService == SafeSpec => Service!SafeSpec
BY InitService, NextService, MulDivInvariant, PTL
   DEF SafeSpec, Service!SafeSpec, Service!vars

=============================================================================

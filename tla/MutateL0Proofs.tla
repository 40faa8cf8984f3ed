--------------------------- MODULE MutateL0Proofs ---------------------------
(***************************************************************************)
(* What the scanners of L0 compute of a text, for every text: the one-pass *)
(* readers agree with rules stated over all the lines at once.             *)
(***************************************************************************)
EXTENDS MutateL0, WellFoundedInduction, FiniteSetTheorems, FunctionTheorems, SequenceTheorems, TLAPS

-----------------------------------------------------------------------------
(* Induction. A property of numbers is given as the set of those that have *)
(* it; the least number outside of it, if there is one, has a predecessor. *)
LEMMA LeastNumber ==
  ASSUME NEW U \in SUBSET Nat, U # {}
  PROVE  \E x \in U : \A y \in U : x <= y
<1> DEFINE R == {ss \in Nat \X Nat : ss[1] < ss[2]}
<1>1. IsWellFoundedOn(R, Nat)
  BY NatLessThanWellFounded, Zenon DEF OpToRel
<1>2. PICK x \in U : \A y \in U : ~ (<< y, x >> \in R)
  <2>1. U \subseteq Nat /\ U # {}
    OBVIOUS
  <2> HIDE DEF R
  <2>2. QED
    BY <1>1, <2>1, WFMin, Zenon
<1>3. \A y \in U : ~ (y < x)
  BY <1>2
<1>4. QED
  BY <1>3

LEMMA Induction ==
  ASSUME NEW n \in Nat, NEW S, 0 \in S,
         \A i \in 0 .. n - 1 : i \in S => i + 1 \in S
  PROVE  \A i \in 0 .. n : i \in S
<1> DEFINE U == {i \in 0 .. n : i \notin S}
<1> SUFFICES ASSUME U # {} PROVE FALSE
  OBVIOUS
<1>1. U \in SUBSET Nat
  OBVIOUS
<1>2. PICK x \in U : \A y \in U : x <= y
  <2> HIDE DEF U
  <2> QED  BY <1>1, LeastNumber
<1>3. x \in 1 .. n /\ x - 1 \notin U
  BY <1>2
<1>4. QED
  BY <1>2, <1>3

(* A recursion with a typed step has a solution, and only typed ones.      *)
IsRun(f, St, base, n, step) ==
  /\ f \in [0 .. n -> St]
  /\ f[0] = base
  /\ \A i \in 1 .. n : f[i] = step[i][f[i - 1]]

LEMMA FoldExists ==
  ASSUME NEW St, NEW base \in St, NEW n \in Nat,
         NEW step \in [1 .. n -> [St -> St]]
  PROVE  \E f : IsRun(f, St, base, n, step)
<1> DEFINE Run(m, f) == /\ f[0] = base
                        /\ \A i \in 1 .. m : f[i] = step[i][f[i - 1]]
           S == {m \in 0 .. n : \E f \in [0 .. m -> St] : Run(m, f)}
<1>1. 0 \in S
  <2> DEFINE g == [i \in 0 .. 0 |-> base]
  <2>1. g \in [0 .. 0 -> St] /\ Run(0, g)
    OBVIOUS
  <2> HIDE DEF g
  <2>2. QED
    BY <2>1
<1>2. ASSUME NEW m \in 0 .. n - 1, m \in S
      PROVE  m + 1 \in S
  <2>1. PICK f \in [0 .. m -> St] : Run(m, f)
    BY <1>2
  <2> DEFINE g == [i \in 0 .. m + 1 |-> IF i = m + 1 THEN step[m + 1][f[m]] ELSE f[i]]
  <2>2. step[m + 1][f[m]] \in St
    OBVIOUS
  <2>3. g \in [0 .. m + 1 -> St]
    BY <2>2
  <2>4. Run(m + 1, g)
    BY <2>1
  <2> HIDE DEF g
  <2>5. QED
    BY <2>3, <2>4
<1>3. \A m \in 0 .. n : m \in S
  <2> HIDE DEF S
  <2> QED  BY <1>1, <1>2, Induction
<1>4. QED
  BY <1>3 DEF IsRun

LEMMA FoldTyped ==
  ASSUME NEW St, NEW base \in St, NEW n \in Nat, NEW f, DOMAIN f = 0 .. n,
         f[0] = base, \A i \in 1 .. n : f[i - 1] \in St => f[i] \in St
  PROVE  \A i \in 0 .. n : f[i] \in St
<1> DEFINE S == {i \in 0 .. n : f[i] \in St}
<1>1. 0 \in S
  OBVIOUS
<1>2. \A i \in 0 .. n - 1 : i \in S => i + 1 \in S
  OBVIOUS
<1>3. QED
  <2> HIDE DEF S
  <2>1. \A i \in 0 .. n : i \in S
    BY <1>1, <1>2, Induction
  <2>2. QED
    BY <2>1 DEF S

-----------------------------------------------------------------------------
(* Depth, Enclosing and Branches, one line further.                        *)
LineToken == Token \cup {Blank}

LEMMA LineTokenFacts ==
  ASSUME NEW t \in LineToken, t.k = "dir"
  PROVE  t.d \in Directives
BY DEF LineToken, Token, Plain, Blank

LEMMA CountStep ==
  ASSUME NEW L, NEW i \in Nat, i > 0, NEW kinds
  PROVE  /\ Count(L, 1, kinds) = 0
         /\ Count(L, i, kinds) \in Nat
         /\ Count(L, i + 1, kinds)
              = Count(L, i, kinds) + (IF IsDir(L, i, kinds) THEN 1 ELSE 0)
<1> DEFINE C(n) == {j \in 1 .. n - 1 : IsDir(L, j, kinds)}
<1>1. C(1) = {}
  OBVIOUS
<1>2. IsFiniteSet(C(i))
  <2>1. C(i) \subseteq 1 .. i - 1
    OBVIOUS
  <2>2. IsFiniteSet(1 .. i - 1)
    BY FS_Interval
  <2> HIDE DEF C
  <2>3. QED
    BY <2>1, <2>2, FS_Subset
<1>3. C(i + 1) = IF IsDir(L, i, kinds) THEN C(i) \cup {i} ELSE C(i)
  OBVIOUS
<1>4. i \notin C(i)
  OBVIOUS
<1>5. \A n : Count(L, n, kinds) = Cardinality(C(n))
  BY DEF Count
<1> HIDE DEF C
<1>6. Cardinality(C(1)) = 0
  BY <1>1, FS_EmptySet
<1>7. Cardinality(C(i)) \in Nat
  BY <1>2, FS_CardinalityType
<1>8. Cardinality(C(i) \cup {i}) = Cardinality(C(i)) + 1
  BY <1>2, <1>4, FS_AddElement
<1>9. /\ Count(L, 1, kinds) = Cardinality(C(1))
      /\ Count(L, i, kinds) = Cardinality(C(i))
      /\ Count(L, i + 1, kinds) = Cardinality(C(i + 1))
  BY <1>5
<1>10. QED
  BY <1>3, <1>6, <1>7, <1>8, <1>9

LEMMA DepthStep ==
  ASSUME NEW L, NEW i \in Nat, i > 0
  PROVE  /\ Depth(L, 1) = 0
         /\ Depth(L, i) \in Int
         /\ IsDir(L, i, Openers) => Depth(L, i + 1) = Depth(L, i) + 1
         /\ IsDir(L, i, {"endif"}) => Depth(L, i + 1) = Depth(L, i) - 1
         /\ ~ IsDir(L, i, Openers) /\ ~ IsDir(L, i, {"endif"}) =>
              Depth(L, i + 1) = Depth(L, i)
<1>1. ~ (IsDir(L, i, Openers) /\ IsDir(L, i, {"endif"}))
  BY DEF IsDir, Openers
<1>2. QED
  BY <1>1, CountStep DEF Depth

LEMMA EnclosingFacts ==
  ASSUME NEW L, NEW i \in Nat, i > 0
  PROVE  /\ \A o \in Enclosing(L, i) :
              o \in 1 .. i - 1 /\ Depth(L, o) \in Int /\ Depth(L, o) < Depth(L, i)
         /\ \A o, q \in Enclosing(L, i) : Depth(L, o) = Depth(L, q) => o = q
<1>1. \A o \in Enclosing(L, i) :
        /\ o \in 1 .. i - 1 /\ Depth(L, o) \in Int
        /\ \A m \in o + 1 .. i : Depth(L, m) > Depth(L, o)
  BY DepthStep DEF Enclosing
<1>2. QED
  BY <1>1

LEMMA EnclosingStep ==
  ASSUME NEW L, NEW i \in Nat, i > 0
  PROVE  /\ IsDir(L, i, Openers) => Enclosing(L, i + 1) = Enclosing(L, i) \cup {i}
         /\ IsDir(L, i, {"endif"}) =>
              Enclosing(L, i + 1) = {o \in Enclosing(L, i) : Depth(L, o) < Depth(L, i) - 1}
         /\ ~ IsDir(L, i, Openers) /\ ~ IsDir(L, i, {"endif"}) =>
              Enclosing(L, i + 1) = Enclosing(L, i)
<1>1. ~ (IsDir(L, i, Openers) /\ IsDir(L, i, {"endif"}))
  BY DEF IsDir, Openers
<1>2. /\ Depth(L, i) \in Int /\ Depth(L, i + 1) \in Int
      /\ \A o \in 1 .. i : Depth(L, o) \in Int
  BY DepthStep
<1>3. \A o : o \in Enclosing(L, i + 1) <=>
              /\ o \in 1 .. i /\ IsDir(L, o, Openers)
              /\ \A m \in o + 1 .. i : Depth(L, m) > Depth(L, o)
              /\ Depth(L, i + 1) > Depth(L, o)
  BY <1>2 DEF Enclosing
<1>4. \A o : o \in Enclosing(L, i) <=>
              /\ o \in 1 .. i - 1 /\ IsDir(L, o, Openers)
              /\ \A m \in o + 1 .. i : Depth(L, m) > Depth(L, o)
  BY DEF Enclosing
<1>5. \A o \in Enclosing(L, i) : Depth(L, o) < Depth(L, i)
  BY EnclosingFacts
<1>6. ASSUME IsDir(L, i, Openers)
      PROVE  Enclosing(L, i + 1) = Enclosing(L, i) \cup {i}
  BY <1>2, <1>3, <1>4, <1>5, <1>6, DepthStep
<1>7. ASSUME IsDir(L, i, {"endif"})
      PROVE  Enclosing(L, i + 1) = {o \in Enclosing(L, i) : Depth(L, o) < Depth(L, i) - 1}
  <2>1. Depth(L, i + 1) = Depth(L, i) - 1
    BY <1>7, DepthStep
  <2>2. \A o : o \in Enclosing(L, i + 1) <=>
                o \in Enclosing(L, i) /\ Depth(L, o) < Depth(L, i) - 1
    BY <1>1, <1>2, <1>3, <1>4, <1>7, <2>1
  <2>3. QED
    BY <2>2
<1>8. ASSUME ~ IsDir(L, i, Openers), ~ IsDir(L, i, {"endif"})
      PROVE  Enclosing(L, i + 1) = Enclosing(L, i)
  <2>1. Depth(L, i + 1) = Depth(L, i)
    BY <1>8, DepthStep
  <2>2. \A o : o \in Enclosing(L, i + 1) <=> o \in Enclosing(L, i)
    BY <1>2, <1>3, <1>4, <1>5, <1>8, <2>1
  <2>3. QED
    BY <2>2
<1>9. QED
  BY <1>6, <1>7, <1>8

LEMMA BranchesStep ==
  ASSUME NEW L, NEW i \in Nat, i > 0
  PROVE  /\ Branches(L, i, i + 1) = {i}
         /\ \A o \in 1 .. i - 1 :
              Branches(L, o, i + 1) =
                IF IsDir(L, i, {"else", "elsif"}) /\ Depth(L, i) = Depth(L, o) + 1
                THEN Branches(L, o, i) \cup {i} ELSE Branches(L, o, i)
         /\ \A o \in 1 .. i - 1 : Branches(L, o, i) \subseteq o .. i - 1
<1>1. Branches(L, i, i + 1) = {i}
  BY DEF Branches
<1>2. \A o \in 1 .. i - 1 : Branches(L, o, i) \subseteq o .. i - 1
  BY DEF Branches
<1>3. ASSUME NEW o \in 1 .. i - 1
      PROVE  Branches(L, o, i + 1) =
                IF IsDir(L, i, {"else", "elsif"}) /\ Depth(L, i) = Depth(L, o) + 1
                THEN Branches(L, o, i) \cup {i} ELSE Branches(L, o, i)
  <2>1. \A b : b \in Branches(L, o, i + 1) <=>
                /\ b \in o .. i
                /\ \/ b = o
                   \/ IsDir(L, b, {"else", "elsif"}) /\ Depth(L, b) = Depth(L, o) + 1
    BY DEF Branches
  <2>2. \A b : b \in Branches(L, o, i) <=>
                /\ b \in o .. i - 1
                /\ \/ b = o
                   \/ IsDir(L, b, {"else", "elsif"}) /\ Depth(L, b) = Depth(L, o) + 1
    BY DEF Branches
  <2>3. CASE IsDir(L, i, {"else", "elsif"}) /\ Depth(L, i) = Depth(L, o) + 1
    BY <2>1, <2>2, <2>3
  <2>4. CASE ~ (IsDir(L, i, {"else", "elsif"}) /\ Depth(L, i) = Depth(L, o) + 1)
    BY <2>1, <2>2, <2>4
  <2>5. QED
    BY <2>3, <2>4
<1>4. QED
  BY <1>1, <1>2, <1>3
-----------------------------------------------------------------------------
(* The scanner of conditionals: types.                                     *)
Branch    == [taken : BOOLEAN, active : BOOLEAN, parent : BOOLEAN]
Cond      == [seen_else : BOOLEAN, branch : [CONFIGS -> Branch]]
ScanState == [open : Seq(Cond), result : Seq(Nat), refused : BOOLEAN, line : Nat]

LEMMA FrontFacts ==
  ASSUME NEW S, NEW s \in Seq(S), s # << >>
  PROVE  /\ Front(s) \in Seq(S)
         /\ Len(s) \in Nat \ {0} /\ Len(Front(s)) = Len(s) - 1
         /\ \A i \in 1 .. Len(s) - 1 : Front(s)[i] = s[i]
<1>1. Len(s) \in Nat \ {0} /\ \A i \in 1 .. Len(s) : s[i] \in S
  OBVIOUS
<1>2. \A i \in 1 .. Len(s) - 1 : s[i] \in S
  BY <1>1
<1>3. Front(s) = SubSeq(s, 1, Len(s) - 1)
  BY DEF Front
<1> DEFINE n == Len(s) - 1
<1>4. n \in Nat /\ n = Len(s) - 1
  BY <1>1
<1> HIDE DEF n
<1>5. /\ SubSeq(s, 1, n) \in Seq(S)
      /\ Len(SubSeq(s, 1, n)) = IF 1 <= n THEN n - 1 + 1 ELSE 0
      /\ \A i \in 1 .. n - 1 + 1 : SubSeq(s, 1, n)[i] = s[1 + i - 1]
  <2>1. n \in Int /\ \A i \in 1 .. n : s[i] \in S
    BY <1>1, <1>4
  <2>2. QED
    BY <2>1, SubSeqProperties
<1>6. Len(SubSeq(s, 1, n)) = n /\ \A i \in 1 .. n : SubSeq(s, 1, n)[i] = s[i]
  BY <1>4, <1>5
<1>7. QED
  BY <1>1, <1>3, <1>5, <1>6 DEF n

LEMMA HoldsType ==
  ASSUME NEW t, t.d \in {"ifdef", "ifndef", "elsif", "else"}, NEW c \in CONFIGS
  PROVE  Holds(t, c) \in BOOLEAN
<1>1. CASE t.d = "ifdef"
  BY <1>1 DEF Holds
<1>2. CASE t.d = "ifndef"
  BY <1>2 DEF Holds
<1>3. CASE t.d = "elsif"
  BY <1>3 DEF Holds
<1>4. CASE t.d = "else"
  BY <1>4 DEF Holds
<1>5. QED
  BY <1>1, <1>2, <1>3, <1>4

LEMMA OpenFacts ==
  ASSUME NEW s \in ScanState, NEW t, t.d \in Openers
  PROVE  LET r == Open(s, t)  n == Len(s.open) IN
         /\ r \in ScanState
         /\ r.result = s.result /\ r.refused = s.refused /\ r.line = s.line
         /\ Len(r.open) = n + 1
         /\ \A j \in 1 .. n : r.open[j] = s.open[j]
         /\ r.open[n + 1].seen_else = FALSE
         /\ \A c \in CONFIGS :
              /\ r.open[n + 1].branch[c].taken = Holds(t, c)
              /\ r.open[n + 1].branch[c].active = (Active(s.open, c) /\ Holds(t, c))
              /\ r.open[n + 1].branch[c].parent = Active(s.open, c)
<1> DEFINE e == [seen_else |-> FALSE,
                 branch    |-> [c \in CONFIGS |->
                    [taken  |-> Holds(t, c),
                     active |-> Active(s.open, c) /\ Holds(t, c),
                     parent |-> Active(s.open, c)]]]
<1>1. Open(s, t) = [s EXCEPT !.open = Append(s.open, e)]
  BY DEF Open
<1>2. \A c \in CONFIGS : Holds(t, c) \in BOOLEAN /\ Active(s.open, c) \in BOOLEAN
  BY HoldsType DEF Openers, Active
<1>3. e \in Cond
  BY <1>2 DEF Cond, Branch
<1>4. /\ e.seen_else = FALSE
      /\ \A c \in CONFIGS :
              /\ e.branch[c].taken = Holds(t, c)
              /\ e.branch[c].active = (Active(s.open, c) /\ Holds(t, c))
              /\ e.branch[c].parent = Active(s.open, c)
  OBVIOUS
<1> HIDE DEF e
<1>5. s.open \in Seq(Cond) /\ DOMAIN s = {"open", "result", "refused", "line"}
  BY DEF ScanState
<1>6. Open(s, t).open = Append(s.open, e)
  BY <1>1, <1>5
<1>7. /\ Open(s, t).open \in Seq(Cond) /\ Len(Open(s, t).open) = Len(s.open) + 1
      /\ Open(s, t).open[Len(s.open) + 1] = e
      /\ \A j \in 1 .. Len(s.open) : Open(s, t).open[j] = s.open[j]
  BY <1>3, <1>5, <1>6
<1>8. /\ Open(s, t).result = s.result /\ Open(s, t).refused = s.refused
      /\ Open(s, t).line = s.line
  BY <1>1, <1>5
<1>9. Open(s, t) \in ScanState
  <2>1. Open(s, t) = [open |-> Open(s, t).open, result |-> s.result,
                      refused |-> s.refused, line |-> s.line]
    BY <1>1, <1>5, <1>6
  <2>2. QED
    BY <1>7, <2>1 DEF ScanState
<1>10. QED
  BY <1>4, <1>7, <1>8, <1>9
LEMMA TurnFacts ==
  ASSUME NEW s \in ScanState, s.open # << >>, NEW t, t.d \in {"else", "elsif"}
  PROVE  LET r == Turn(s, t)  n == Len(s.open) IN
         /\ r \in ScanState
         /\ r.result = s.result /\ r.refused = s.refused /\ r.line = s.line
         /\ n \in Nat \ {0} /\ Len(r.open) = n
         /\ \A j \in 1 .. n - 1 : r.open[j] = s.open[j]
         /\ r.open[n].seen_else = (t.d = "else")
         /\ \A c \in CONFIGS :
              LET b == s.open[n].branch[c] IN
              /\ r.open[n].branch[c].taken = (b.taken \/ Holds(t, c))
              /\ r.open[n].branch[c].active = (b.parent /\ ~ b.taken /\ Holds(t, c))
              /\ r.open[n].branch[c].parent = b.parent
<1> DEFINE n == Len(s.open)
           B(c) == s.open[n].branch[c]
           e == [seen_else |-> t.d = "else",
                 branch    |-> [c \in CONFIGS |->
                    [B(c) EXCEPT !.active = B(c).parent /\ ~ B(c).taken /\ Holds(t, c),
                                 !.taken  = B(c).taken \/ Holds(t, c)]]]
<1>1. n \in Nat \ {0} /\ s.open[n] \in Cond
  BY DEF ScanState
<1>2. \A c \in CONFIGS : B(c) \in Branch
  BY <1>1 DEF Cond
<1>3. Turn(s, t) = [s EXCEPT !.open[n] = e]
  BY DEF Turn
<1>4. \A c \in CONFIGS : Holds(t, c) \in BOOLEAN
  BY HoldsType
<1>5. e \in Cond
  BY <1>2, <1>4 DEF Cond, Branch
<1>6. /\ e.seen_else = (t.d = "else")
      /\ \A c \in CONFIGS :
              /\ e.branch[c].taken = (B(c).taken \/ Holds(t, c))
              /\ e.branch[c].active = (B(c).parent /\ ~ B(c).taken /\ Holds(t, c))
              /\ e.branch[c].parent = B(c).parent
  BY <1>2 DEF Branch
<1>7. s.open \in Seq(Cond) /\ DOMAIN s = {"open", "result", "refused", "line"}
  BY DEF ScanState
<1> HIDE DEF e
<1>8. Turn(s, t).open = [s.open EXCEPT ![n] = e]
  BY <1>3, <1>7
<1>9. /\ Turn(s, t).open \in Seq(Cond) /\ Len(Turn(s, t).open) = n
      /\ Turn(s, t).open[n] = e
      /\ \A j \in 1 .. n - 1 : Turn(s, t).open[j] = s.open[j]
  BY <1>1, <1>5, <1>7, <1>8
<1>10. /\ Turn(s, t).result = s.result /\ Turn(s, t).refused = s.refused
       /\ Turn(s, t).line = s.line
  BY <1>3, <1>7
<1>11. Turn(s, t) \in ScanState
  <2>1. Turn(s, t) = [open |-> Turn(s, t).open, result |-> s.result,
                      refused |-> s.refused, line |-> s.line]
    BY <1>3, <1>7, <1>8
  <2>2. QED
    BY <1>9, <2>1 DEF ScanState
<1>12. QED
  BY <1>1, <1>6, <1>9, <1>10, <1>11
-----------------------------------------------------------------------------
(* What the stack says of the conditionals around line p: the entry at     *)
(* depth d is about the opener o of depth d.                               *)
First(L, o, p, c) ==
  LET bs == Branches(L, o, p) IN {b \in bs : Holds(L[b], c)} = {Max(bs)}

Records(L, e, o, p) ==
  /\ e.seen_else <=> \E b \in Branches(L, o, p) : IsDir(L, b, {"else"})
  /\ \A c \in CONFIGS :
       /\ e.branch[c].taken <=> \E b \in Branches(L, o, p) : Holds(L[b], c)
       /\ e.branch[c].parent <=>
            \A q \in Enclosing(L, p) : Depth(L, q) < Depth(L, o) => First(L, q, p, c)
       /\ e.branch[c].active <=>
            \A q \in Enclosing(L, p) : Depth(L, q) <= Depth(L, o) => First(L, q, p, c)

StackOK(L, open, p) ==
  /\ Depth(L, p) = Len(open)
  /\ \A o \in Enclosing(L, p) :
       /\ Depth(L, o) \in 0 .. Len(open) - 1
       /\ Records(L, open[Depth(L, o) + 1], o, p)
  /\ \A j \in 0 .. Len(open) - 1 : \E o \in Enclosing(L, p) : Depth(L, o) = j

LEMMA FirstStep ==
  ASSUME NEW L, NEW p \in Nat, p > 0, NEW c
  PROVE  /\ First(L, p, p + 1, c) <=> Holds(L[p], c)
         /\ \A o \in 1 .. p - 1 :
              Branches(L, o, p + 1) = Branches(L, o, p)
              => First(L, o, p + 1, c) = First(L, o, p, c)
         /\ \A o \in 1 .. p - 1 :
              Branches(L, o, p + 1) = Branches(L, o, p) \cup {p}
              => (First(L, o, p + 1, c) <=>
                    /\ ~ \E b \in Branches(L, o, p) : Holds(L[b], c)
                    /\ Holds(L[p], c))
<1>1. ASSUME NEW S, \A b \in S : b \in Int /\ b <= p, p \in S
      PROVE  Max(S) = p
  <2>1. \A y \in S : p >= y
    BY <1>1
  <2>2. \E x \in S : \A y \in S : x >= y
    BY <1>1, <2>1, Zenon
  <2>3. Max(S) \in S /\ Max(S) >= p
    BY <1>1, <2>2, Zenon DEF Max
  <2>4. Max(S) \in Int /\ Max(S) <= p
    BY <1>1, <2>3, Zenon
  <2> DEFINE m == Max(S)
  <2> HIDE DEF m
  <2>5. m \in Int /\ m <= p /\ m >= p
    BY <2>3, <2>4 DEF m
  <2>6. m = p
    BY <2>5
  <2>7. QED
    BY <2>6 DEF m
<1>2. First(L, p, p + 1, c) <=> Holds(L[p], c)
  <2>1. Branches(L, p, p + 1) = {p}
    BY BranchesStep
  <2>2. Max({p}) = p
    BY <1>1
  <2>3. QED
    BY <2>1, <2>2 DEF First
<1>3. ASSUME NEW o \in 1 .. p - 1, Branches(L, o, p + 1) = Branches(L, o, p) \cup {p}
      PROVE  First(L, o, p + 1, c) <=>
               ~ (\E b \in Branches(L, o, p) : Holds(L[b], c)) /\ Holds(L[p], c)
  <2> DEFINE B == Branches(L, o, p)
  <2>1. B \subseteq o .. p - 1
    BY BranchesStep
  <2>2. Max(B \cup {p}) = p
    BY <1>1, <2>1
  <2>3. p \notin B
    BY <2>1
  <2>4. First(L, o, p + 1, c) <=> {b \in B \cup {p} : Holds(L[b], c)} = {p}
    BY <1>3, <2>2 DEF First
  <2> HIDE DEF B
  <2>5. QED
    BY <2>3, <2>4 DEF B
<1>4. \A o \in 1 .. p - 1 :
         Branches(L, o, p + 1) = Branches(L, o, p)
         => First(L, o, p + 1, c) = First(L, o, p, c)
  BY DEF First
<1>5. QED
  BY <1>2, <1>3, <1>4

LEMMA ActiveIsCompiled ==
  ASSUME NEW L, NEW p \in Nat, p > 0, NEW open \in Seq(Cond), StackOK(L, open, p),
         NEW c \in CONFIGS
  PROVE  Active(open, c) <=> Compiled(L, p, c)
<1>1. Compiled(L, p, c) <=> \A o \in Enclosing(L, p) : First(L, o, p, c)
  BY DEF Compiled, First
<1>2. DOMAIN open = 1 .. Len(open) /\ Len(open) \in Nat
  OBVIOUS
<1>3. \A o \in Enclosing(L, p) :
        /\ Depth(L, o) \in 0 .. Len(open) - 1
        /\ open[Depth(L, o) + 1].branch[c].active <=>
             \A q \in Enclosing(L, p) : Depth(L, q) <= Depth(L, o) => First(L, q, p, c)
  BY DEF StackOK, Records
<1>4. \A j \in 0 .. Len(open) - 1 : \E o \in Enclosing(L, p) : Depth(L, o) = j
  BY DEF StackOK
<1>5. ASSUME Active(open, c), NEW o \in Enclosing(L, p)
      PROVE  First(L, o, p, c)
  <2>1. Depth(L, o) + 1 \in DOMAIN open
    BY <1>2, <1>3
  <2>2. open[Depth(L, o) + 1].branch[c].active
    BY <1>5, <2>1 DEF Active
  <2>3. Depth(L, o) <= Depth(L, o)
    BY <1>3
  <2>4. QED
    BY <1>3, <2>2, <2>3
<1>6. ASSUME \A o \in Enclosing(L, p) : First(L, o, p, c), NEW i \in DOMAIN open
      PROVE  open[i].branch[c].active
  <2>1. PICK o \in Enclosing(L, p) : Depth(L, o) = i - 1
    BY <1>2, <1>4
  <2>2. QED
    BY <1>2, <1>3, <1>6, <2>1
<1>7. QED
  BY <1>1, <1>5, <1>6 DEF Active
(* A line that opens a conditional. *)
LEMMA OpenStack ==
  ASSUME NEW L, NEW p \in Nat, p > 0, NEW s \in ScanState, StackOK(L, s.open, p),
         IsDir(L, p, Openers)
  PROVE  StackOK(L, Open(s, L[p]).open, p + 1)
<1> DEFINE new == Open(s, L[p]).open
           n   == Len(s.open)
<1>1. /\ n \in Nat /\ s.open \in Seq(Cond)
      /\ L[p].d \in Openers
  BY DEF ScanState, IsDir
<1>2. /\ Len(new) = n + 1
      /\ \A j \in 1 .. n : new[j] = s.open[j]
      /\ new[n + 1].seen_else = FALSE
      /\ \A c \in CONFIGS :
           /\ new[n + 1].branch[c].taken = Holds(L[p], c)
           /\ new[n + 1].branch[c].active = (Active(s.open, c) /\ Holds(L[p], c))
           /\ new[n + 1].branch[c].parent = Active(s.open, c)
  BY <1>1, OpenFacts
<1> HIDE DEF new
<1>3. /\ Depth(L, p) = n /\ Depth(L, p + 1) = n + 1
      /\ Enclosing(L, p + 1) = Enclosing(L, p) \cup {p}
  BY EnclosingStep, DepthStep DEF StackOK
<1>4. /\ Branches(L, p, p + 1) = {p}
      /\ \A o \in 1 .. p - 1 : Branches(L, o, p + 1) = Branches(L, o, p)
  BY BranchesStep DEF IsDir, Openers
<1>5. \A o \in Enclosing(L, p) : o \in 1 .. p - 1 /\ Depth(L, o) \in 0 .. n - 1
  BY EnclosingFacts DEF StackOK
<1>6. \A c \in CONFIGS :
        /\ First(L, p, p + 1, c) <=> Holds(L[p], c)
        /\ \A o \in Enclosing(L, p) : First(L, o, p + 1, c) = First(L, o, p, c)
  BY <1>4, <1>5, FirstStep
<1>7. \A c \in CONFIGS :
        Active(s.open, c) <=> \A o \in Enclosing(L, p) : First(L, o, p, c)
  BY <1>1, ActiveIsCompiled DEF Compiled, First
<1>8. ASSUME NEW o \in Enclosing(L, p)
      PROVE  Records(L, new[Depth(L, o) + 1], o, p + 1)
  <2>1. new[Depth(L, o) + 1] = s.open[Depth(L, o) + 1]
    BY <1>2, <1>5
  <2>2. Records(L, new[Depth(L, o) + 1], o, p)
    BY <2>1 DEF StackOK
  <2>3. Branches(L, o, p + 1) = Branches(L, o, p)
    BY <1>4, <1>5
  <2>4. ~ (Depth(L, p) < Depth(L, o)) /\ ~ (Depth(L, p) <= Depth(L, o))
    BY <1>3, <1>5
  <2> DEFINE e == new[Depth(L, o) + 1]
  <2> HIDE DEF e
  <2>5. Records(L, e, o, p)
    BY <2>2 DEF e
  <2>6. Records(L, e, o, p + 1)
    BY <1>3, <1>6, <2>3, <2>4, <2>5 DEF Records
  <2>7. QED
    BY <2>6 DEF e
<1>9. Records(L, new[n + 1], p, p + 1)
  <2>1. ~ IsDir(L, p, {"else"})
    BY DEF IsDir, Openers
  <2>2. \A c \in CONFIGS :
          /\ \A q \in Enclosing(L, p + 1) : Depth(L, q) < Depth(L, p) <=> q \in Enclosing(L, p)
          /\ \A q \in Enclosing(L, p + 1) : Depth(L, q) <= Depth(L, p)
    BY <1>1, <1>3, <1>5
  <2>3. ASSUME NEW c \in CONFIGS
        PROVE  /\ (\A q \in Enclosing(L, p + 1) : Depth(L, q) < Depth(L, p) => First(L, q, p + 1, c))
                    <=> Active(s.open, c)
               /\ (\A q \in Enclosing(L, p + 1) : Depth(L, q) <= Depth(L, p) => First(L, q, p + 1, c))
                    <=> Active(s.open, c) /\ Holds(L[p], c)
    BY <1>3, <1>6, <1>7, <2>2
  <2>4. QED
    BY <1>2, <1>4, <2>1, <2>3 DEF Records
<1>10. QED
  <2>1. \A o \in Enclosing(L, p + 1) :
          /\ Depth(L, o) \in 0 .. Len(new) - 1
          /\ Records(L, new[Depth(L, o) + 1], o, p + 1)
    BY <1>1, <1>2, <1>3, <1>5, <1>8, <1>9
  <2>2. \A j \in 0 .. Len(new) - 1 : \E o \in Enclosing(L, p + 1) : Depth(L, o) = j
    <3>1. \A j \in 0 .. n - 1 : \E o \in Enclosing(L, p) : Depth(L, o) = j
      BY DEF StackOK
    <3>2. QED
      BY <1>1, <1>2, <1>3, <3>1
  <2>3. QED
    BY <1>2, <1>3, <2>1, <2>2 DEF StackOK, new
(* An `else or `elsif: the entry on top turns to the next branch. *)
LEMMA TurnStack ==
  ASSUME NEW L, NEW p \in Nat, p > 0, NEW s \in ScanState, StackOK(L, s.open, p),
         s.open # << >>, IsDir(L, p, {"else", "elsif"}),
         ~ s.open[Len(s.open)].seen_else
  PROVE  StackOK(L, Turn(s, L[p]).open, p + 1)
<1> DEFINE new == Turn(s, L[p]).open
           n   == Len(s.open)
<1>1. n \in Nat \ {0} /\ s.open \in Seq(Cond) /\ L[p].d \in {"else", "elsif"}
  BY DEF ScanState, IsDir
<1>2. /\ Len(new) = n
      /\ \A j \in 1 .. n - 1 : new[j] = s.open[j]
      /\ new[n].seen_else = (L[p].d = "else")
      /\ \A c \in CONFIGS :
           LET b == s.open[n].branch[c] IN
           /\ new[n].branch[c].taken = (b.taken \/ Holds(L[p], c))
           /\ new[n].branch[c].active = (b.parent /\ ~ b.taken /\ Holds(L[p], c))
           /\ new[n].branch[c].parent = b.parent
  BY <1>1, TurnFacts
<1> HIDE DEF new
<1>3. /\ Depth(L, p) = n /\ Depth(L, p + 1) = n
      /\ Enclosing(L, p + 1) = Enclosing(L, p)
  <2>1. ~ IsDir(L, p, Openers) /\ ~ IsDir(L, p, {"endif"})
    BY DEF IsDir, Openers
  <2>2. QED
    BY <2>1, EnclosingStep, DepthStep DEF StackOK
<1>4. \A o \in Enclosing(L, p) : o \in 1 .. p - 1 /\ Depth(L, o) \in 0 .. n - 1
  BY EnclosingFacts DEF StackOK
<1>5. \A o \in Enclosing(L, p) :
        Branches(L, o, p + 1) = IF Depth(L, o) = n - 1 THEN Branches(L, o, p) \cup {p}
                                ELSE Branches(L, o, p)
  <2> SUFFICES ASSUME NEW o \in Enclosing(L, p)
               PROVE  Branches(L, o, p + 1) =
                        IF Depth(L, o) = n - 1 THEN Branches(L, o, p) \cup {p}
                        ELSE Branches(L, o, p)
    OBVIOUS
  <2>1. Depth(L, p) = Depth(L, o) + 1 <=> Depth(L, o) = n - 1
    BY <1>1, <1>3, <1>4
  <2>2. o \in 1 .. p - 1
    BY <1>4
  <2>3. /\ IsDir(L, p, {"else", "elsif"})
        /\ Branches(L, o, p + 1) =
             IF IsDir(L, p, {"else", "elsif"}) /\ Depth(L, p) = Depth(L, o) + 1
             THEN Branches(L, o, p) \cup {p} ELSE Branches(L, o, p)
    BY <2>2, BranchesStep
  <2>4. QED
    BY <2>1, <2>3, Zenon
<1>6. \A c \in CONFIGS : \A o \in Enclosing(L, p) :
        IF Depth(L, o) = n - 1
        THEN First(L, o, p + 1, c) <=>
               ~ (\E b \in Branches(L, o, p) : Holds(L[b], c)) /\ Holds(L[p], c)
        ELSE First(L, o, p + 1, c) = First(L, o, p, c)
  BY <1>4, <1>5, FirstStep
<1>7. ASSUME NEW o \in Enclosing(L, p), Depth(L, o) # n - 1
      PROVE  Records(L, new[Depth(L, o) + 1], o, p + 1)
  <2>1. new[Depth(L, o) + 1] = s.open[Depth(L, o) + 1]
    BY <1>1, <1>2, <1>4, <1>7
  <2>2. Records(L, new[Depth(L, o) + 1], o, p)
    BY <2>1 DEF StackOK
  <2>3. Branches(L, o, p + 1) = Branches(L, o, p)
    BY <1>5, <1>7
  <2>4. Depth(L, o) < n - 1
    BY <1>1, <1>4, <1>7
  <2>5. \A q \in Enclosing(L, p) :
          /\ Depth(L, q) < Depth(L, o) => Depth(L, q) # n - 1
          /\ Depth(L, q) <= Depth(L, o) => Depth(L, q) # n - 1
    BY <1>1, <1>4, <2>4
  <2> DEFINE e == new[Depth(L, o) + 1]
  <2> HIDE DEF e
  <2>6. Records(L, e, o, p)
    BY <2>2 DEF e
  <2>7. Records(L, e, o, p + 1)
    BY <1>3, <1>6, <2>3, <2>5, <2>6 DEF Records
  <2>8. QED
    BY <2>7 DEF e
<1>8. ASSUME NEW o \in Enclosing(L, p), Depth(L, o) = n - 1
      PROVE  Records(L, new[n], o, p + 1)
  <2> DEFINE e == s.open[n]
             B == Branches(L, o, p)
  <2>1. Records(L, e, o, p)
    BY <1>1, <1>8 DEF StackOK
  <2>2. Branches(L, o, p + 1) = B \cup {p}
    BY <1>5, <1>8
  <2>3. IsDir(L, p, {"else"}) <=> L[p].d = "else"
    BY DEF IsDir
  <2>4. new[n].seen_else <=> \E b \in B \cup {p} : IsDir(L, b, {"else"})
    <3>1. e.seen_else <=> \E b \in B : IsDir(L, b, {"else"})
      BY <2>1 DEF Records
    <3>2. QED
      BY <1>2, <2>3, <3>1
  <2>5. ASSUME NEW c \in CONFIGS
        PROVE  /\ new[n].branch[c].taken <=> \E b \in B \cup {p} : Holds(L[b], c)
               /\ new[n].branch[c].parent <=>
                    \A q \in Enclosing(L, p) :
                      Depth(L, q) < Depth(L, o) => First(L, q, p + 1, c)
               /\ new[n].branch[c].active <=>
                    \A q \in Enclosing(L, p) :
                      Depth(L, q) <= Depth(L, o) => First(L, q, p + 1, c)
    <3>1. /\ e.branch[c].taken <=> \E b \in B : Holds(L[b], c)
          /\ e.branch[c].parent <=>
               \A q \in Enclosing(L, p) : Depth(L, q) < Depth(L, o) => First(L, q, p, c)
      BY <2>1 DEF Records
    <3>2. \A q \in Enclosing(L, p) :
            /\ Depth(L, q) < Depth(L, o) => First(L, q, p + 1, c) = First(L, q, p, c)
            /\ Depth(L, q) <= Depth(L, o) <=> Depth(L, q) < Depth(L, o) \/ q = o
      BY <1>1, <1>4, <1>6, <1>8, EnclosingFacts
    <3>3. First(L, o, p + 1, c) <=> ~ (\E b \in B : Holds(L[b], c)) /\ Holds(L[p], c)
      BY <1>6, <1>8
    <3>4. (\A q \in Enclosing(L, p) : Depth(L, q) < Depth(L, o) => First(L, q, p + 1, c))
            <=> e.branch[c].parent
      BY <3>1, <3>2, Zenon
    <3>5. (\A q \in Enclosing(L, p) : Depth(L, q) <= Depth(L, o) => First(L, q, p + 1, c))
            <=> e.branch[c].parent /\ First(L, o, p + 1, c)
      BY <3>2, <3>4, Zenon
    <3>6. QED
      BY <1>2, <3>1, <3>3, <3>4, <3>5
  <2>6. QED
    BY <1>3, <2>2, <2>4, <2>5, Zenon DEF Records
<1>9. \A o \in Enclosing(L, p + 1) :
        /\ Depth(L, o) \in 0 .. Len(new) - 1
        /\ Records(L, new[Depth(L, o) + 1], o, p + 1)
  BY <1>1, <1>2, <1>3, <1>4, <1>7, <1>8
<1>10. \A j \in 0 .. Len(new) - 1 : \E o \in Enclosing(L, p + 1) : Depth(L, o) = j
  BY <1>2, <1>3 DEF StackOK
<1>11. QED
  BY <1>2, <1>3, <1>9, <1>10 DEF StackOK, new

(* A line that neither opens, turns nor closes. *)
LEMMA SameStack ==
  ASSUME NEW L, NEW p \in Nat, p > 0, NEW open, StackOK(L, open, p),
         ~ IsDir(L, p, {"ifdef", "ifndef", "else", "elsif", "endif"})
  PROVE  StackOK(L, open, p + 1)
<1>1. /\ ~ IsDir(L, p, Openers) /\ ~ IsDir(L, p, {"endif"})
      /\ ~ IsDir(L, p, {"else", "elsif"})
  BY DEF IsDir, Openers
<1>2. Depth(L, p + 1) = Depth(L, p) /\ Enclosing(L, p + 1) = Enclosing(L, p)
  BY <1>1, EnclosingStep, DepthStep
<1>3. \A o \in Enclosing(L, p) : o \in 1 .. p - 1
  BY EnclosingFacts
<1>4. \A o \in Enclosing(L, p) : Branches(L, o, p + 1) = Branches(L, o, p)
  BY <1>1, <1>3, BranchesStep
<1>5. \A c \in CONFIGS : \A o \in Enclosing(L, p) :
        First(L, o, p + 1, c) = First(L, o, p, c)
  BY <1>3, <1>4, FirstStep
<1>6. ASSUME NEW e, NEW o \in Enclosing(L, p), Records(L, e, o, p)
      PROVE  Records(L, e, o, p + 1)
  BY <1>2, <1>4, <1>5, <1>6 DEF Records
<1>7. QED
  BY <1>2, <1>6 DEF StackOK

(* An `endif: the entry on top goes. *)
LEMMA EndStack ==
  ASSUME NEW L, NEW p \in Nat, p > 0, NEW open \in Seq(Cond), StackOK(L, open, p),
         open # << >>, IsDir(L, p, {"endif"})
  PROVE  StackOK(L, Front(open), p + 1)
<1> DEFINE new == Front(open)
           n   == Len(open)
<1>1. n \in Nat \ {0}
  OBVIOUS
<1>2. Len(new) = n - 1 /\ \A j \in 1 .. n - 1 : new[j] = open[j]
  BY FrontFacts
<1> HIDE DEF new
<1>3. ~ IsDir(L, p, {"else", "elsif"})
  BY DEF IsDir
<1>4. /\ Depth(L, p) = n /\ Depth(L, p + 1) = n - 1
      /\ Enclosing(L, p + 1) = {o \in Enclosing(L, p) : Depth(L, o) < n - 1}
  BY EnclosingStep, DepthStep DEF StackOK
<1>5. \A o \in Enclosing(L, p) : o \in 1 .. p - 1 /\ Depth(L, o) \in 0 .. n - 1
  BY EnclosingFacts DEF StackOK
<1>6. \A o \in Enclosing(L, p) : Branches(L, o, p + 1) = Branches(L, o, p)
  BY <1>3, <1>5, BranchesStep
<1>7. \A c \in CONFIGS : \A o \in Enclosing(L, p) :
        First(L, o, p + 1, c) = First(L, o, p, c)
  BY <1>5, <1>6, FirstStep
<1>8. ASSUME NEW e, NEW o \in Enclosing(L, p), Depth(L, o) < n - 1, Records(L, e, o, p)
      PROVE  Records(L, e, o, p + 1)
  <2>1. \A q \in Enclosing(L, p) :
          /\ Depth(L, q) < Depth(L, o) => Depth(L, q) < n - 1
          /\ Depth(L, q) <= Depth(L, o) => Depth(L, q) < n - 1
    BY <1>1, <1>5, <1>8
  <2>2. \A c \in CONFIGS :
          /\ (\A q \in Enclosing(L, p + 1) : Depth(L, q) < Depth(L, o) => First(L, q, p + 1, c))
             <=> \A q \in Enclosing(L, p) : Depth(L, q) < Depth(L, o) => First(L, q, p, c)
          /\ (\A q \in Enclosing(L, p + 1) : Depth(L, q) <= Depth(L, o) => First(L, q, p + 1, c))
             <=> \A q \in Enclosing(L, p) : Depth(L, q) <= Depth(L, o) => First(L, q, p, c)
    BY <1>4, <1>7, <2>1
  <2>3. QED
    BY <1>6, <1>8, <2>2, Zenon DEF Records
<1>9. \A o \in Enclosing(L, p + 1) :
        /\ Depth(L, o) \in 0 .. Len(new) - 1
        /\ Records(L, new[Depth(L, o) + 1], o, p + 1)
  <2> SUFFICES ASSUME NEW o \in Enclosing(L, p), Depth(L, o) < n - 1
               PROVE  /\ Depth(L, o) \in 0 .. Len(new) - 1
                      /\ Records(L, new[Depth(L, o) + 1], o, p + 1)
    BY <1>4
  <2>1. Depth(L, o) \in 0 .. n - 2
    BY <1>1, <1>5
  <2>2. new[Depth(L, o) + 1] = open[Depth(L, o) + 1]
    BY <1>1, <1>2, <2>1
  <2>3. Records(L, open[Depth(L, o) + 1], o, p)
    BY DEF StackOK
  <2>4. Records(L, open[Depth(L, o) + 1], o, p + 1)
    BY <1>8, <2>3
  <2>5. QED
    BY <1>1, <1>2, <2>1, <2>2, <2>4
<1>10. \A j \in 0 .. Len(new) - 1 : \E o \in Enclosing(L, p + 1) : Depth(L, o) = j
  BY <1>1, <1>2, <1>4 DEF StackOK
<1>11. QED
  BY <1>2, <1>4, <1>9, <1>10 DEF StackOK, new
-----------------------------------------------------------------------------
(* The scan, line by line.                                                 *)
SimOnly(L, k) == L[k].k # "dir" /\ Compiled(L, k, "cov") /\ ~ Compiled(L, k, "syn")

BadLine(L, i, known) ==
  \/ IsDir(L, i, {"include"})
  \/ IsDir(L, i, {"define", "undef"}) /\ L[i].mac \in known
  \/ IsDir(L, i, Conditionals) /\ L[i].mac \notin known
  \/ IsDir(L, i, {"else", "elsif", "endif"}) /\ Depth(L, i) = 0
  \/ /\ IsDir(L, i, {"else", "elsif"})
     /\ \E o \in Enclosing(L, i) : \E b \in Branches(L, o, i) :
          Depth(L, o) = Depth(L, i) - 1 /\ IsDir(L, b, {"else"})

Rising(nums) == \A i, j \in DOMAIN nums : i < j => nums[i] < nums[j]

ScanInv(L, known, p, s) ==
  /\ s \in ScanState
  /\ s.refused => \E k \in 1 .. p - 1 : BadLine(L, k, known)
  /\ ~ s.refused =>
       /\ s.line = p - 1
       /\ StackOK(L, s.open, p)
       /\ \A k \in 1 .. p - 1 : ~ BadLine(L, k, known)
       /\ \A k : k \in ToSet(s.result) <=> k \in 1 .. p - 1 /\ SimOnly(L, k)
       /\ Rising(s.result)

LEMMA RefusesIsBad ==
  ASSUME NEW L, NEW p \in Nat, p > 0, NEW known, NEW s \in ScanState,
         StackOK(L, s.open, p), L[p].k = "dir"
  PROVE  RefusesLine(s, L[p], known) <=> BadLine(L, p, known)
<1>1. s.open \in Seq(Cond) /\ Len(s.open) \in Nat
  BY DEF ScanState
<1>2. s.open = << >> <=> Depth(L, p) = 0
  BY <1>1 DEF StackOK
<1>3. ASSUME s.open # << >>
      PROVE  Last(s.open).seen_else <=>
               \E o \in Enclosing(L, p) : \E b \in Branches(L, o, p) :
                  Depth(L, o) = Depth(L, p) - 1 /\ IsDir(L, b, {"else"})
  <2> DEFINE n == Len(s.open)
  <2>1. n \in Nat \ {0} /\ Depth(L, p) = n
    BY <1>1, <1>3 DEF StackOK
  <2>2. PICK o \in Enclosing(L, p) : Depth(L, o) = n - 1
    BY <2>1 DEF StackOK
  <2>3. Last(s.open).seen_else <=> \E b \in Branches(L, o, p) : IsDir(L, b, {"else"})
    BY <2>1, <2>2 DEF StackOK, Records, Last
  <2>4. \A q \in Enclosing(L, p) : Depth(L, q) = n - 1 => q = o
    BY <2>2, EnclosingFacts
  <2>5. QED
    BY <2>1, <2>2, <2>3, <2>4
<1>4. /\ IsDir(L, p, {"include"}) <=> L[p].d = "include"
      /\ IsDir(L, p, {"define", "undef"}) <=> L[p].d \in {"define", "undef"}
      /\ IsDir(L, p, Conditionals) <=> L[p].d \in Conditionals
      /\ IsDir(L, p, {"else", "elsif", "endif"}) <=> L[p].d \in {"elsif", "else", "endif"}
      /\ IsDir(L, p, {"else", "elsif"}) <=> L[p].d \in {"elsif", "else"}
  BY DEF IsDir
<1>5. s.open = << >> => Enclosing(L, p) = {}
  BY <1>1, EnclosingFacts DEF StackOK
<1>6. CASE s.open = << >>
  BY <1>2, <1>4, <1>5, <1>6 DEF RefusesLine, BadLine
<1>7. CASE s.open # << >>
  BY <1>2, <1>3, <1>4, <1>7 DEF RefusesLine, BadLine
<1>8. QED
  BY <1>6, <1>7
LEMMA ToSetAppend ==
  ASSUME NEW S, NEW q \in Seq(S), NEW e \in S
  PROVE  ToSet(Append(q, e)) = ToSet(q) \cup {e}
<1>1. /\ DOMAIN q = 1 .. Len(q) /\ Len(q) \in Nat
      /\ DOMAIN Append(q, e) = 1 .. Len(q) + 1
      /\ \A i \in 1 .. Len(q) : Append(q, e)[i] = q[i]
      /\ Append(q, e)[Len(q) + 1] = e
  OBVIOUS
<1>2. \A i : i \in 1 .. Len(q) + 1 <=> i \in 1 .. Len(q) \/ i = Len(q) + 1
  BY <1>1
<1> DEFINE r == Append(q, e)  D == DOMAIN q  n == Len(q) + 1
<1>3. /\ DOMAIN r = D \cup {n} /\ r[n] = e
      /\ \A i \in D : r[i] = q[i]
  BY <1>1, <1>2
<1> HIDE DEF r, D, n
<1>4. {r[i] : i \in D \cup {n}} = {q[i] : i \in D} \cup {e}
  BY <1>3
<1>5. QED
  BY <1>3, <1>4 DEF ToSet, r, D

(* The updates of a state of the scan. *)
LEMMA Updates ==
  ASSUME NEW s \in ScanState, NEW o \in Seq(Cond), NEW q \in Seq(Nat), NEW l \in Nat
  PROVE  /\ LET r == [s EXCEPT !.open = o] IN
              /\ r \in ScanState /\ r.open = o /\ r.result = s.result
              /\ r.refused = s.refused /\ r.line = s.line
         /\ LET r == [s EXCEPT !.result = q] IN
              /\ r \in ScanState /\ r.open = s.open /\ r.result = q
              /\ r.refused = s.refused /\ r.line = s.line
         /\ LET r == [s EXCEPT !.refused = TRUE] IN
              /\ r \in ScanState /\ r.open = s.open /\ r.result = s.result
              /\ r.refused = TRUE /\ r.line = s.line
         /\ LET r == [s EXCEPT !.line = l] IN
              /\ r \in ScanState /\ r.open = s.open /\ r.result = s.result
              /\ r.refused = s.refused /\ r.line = l
<1>1. /\ DOMAIN s = {"open", "result", "refused", "line"}
      /\ s.open \in Seq(Cond) /\ s.result \in Seq(Nat)
      /\ s.line \in Nat /\ s.refused \in BOOLEAN
  BY DEF ScanState
<1>2. LET r == [s EXCEPT !.open = o] IN
        /\ r \in ScanState /\ r.open = o /\ r.result = s.result
        /\ r.refused = s.refused /\ r.line = s.line
  <2> DEFINE r == [s EXCEPT !.open = o]
  <2>1. /\ r.open = o /\ r.result = s.result
        /\ r.refused = s.refused /\ r.line = s.line
    BY <1>1
  <2>2. DOMAIN r = {"open", "result", "refused", "line"} /\ r = [x \in DOMAIN r |-> r[x]]
    BY <1>1
  <2> HIDE DEF r
  <2>3. r \in ScanState
    BY <1>1, <2>1, <2>2 DEF ScanState
  <2>4. QED
    BY <2>1, <2>3 DEF r
<1>3. LET r == [s EXCEPT !.result = q] IN
        /\ r \in ScanState /\ r.open = s.open /\ r.result = q
        /\ r.refused = s.refused /\ r.line = s.line
  <2> DEFINE r == [s EXCEPT !.result = q]
  <2>1. /\ r.open = s.open /\ r.result = q
        /\ r.refused = s.refused /\ r.line = s.line
    BY <1>1
  <2>2. DOMAIN r = {"open", "result", "refused", "line"} /\ r = [x \in DOMAIN r |-> r[x]]
    BY <1>1
  <2> HIDE DEF r
  <2>3. r \in ScanState
    BY <1>1, <2>1, <2>2 DEF ScanState
  <2>4. QED
    BY <2>1, <2>3 DEF r
<1>4. LET r == [s EXCEPT !.refused = TRUE] IN
        /\ r \in ScanState /\ r.open = s.open /\ r.result = s.result
        /\ r.refused = TRUE /\ r.line = s.line
  <2> DEFINE r == [s EXCEPT !.refused = TRUE]
  <2>1. /\ r.open = s.open /\ r.result = s.result
        /\ r.refused = TRUE /\ r.line = s.line
    BY <1>1
  <2>2. DOMAIN r = {"open", "result", "refused", "line"} /\ r = [x \in DOMAIN r |-> r[x]]
    BY <1>1
  <2> HIDE DEF r
  <2>3. r \in ScanState
    BY <1>1, <2>1, <2>2 DEF ScanState
  <2>4. QED
    BY <2>1, <2>3 DEF r
<1>5. LET r == [s EXCEPT !.line = l] IN
        /\ r \in ScanState /\ r.open = s.open /\ r.result = s.result
        /\ r.refused = s.refused /\ r.line = l
  <2> DEFINE r == [s EXCEPT !.line = l]
  <2>1. /\ r.open = s.open /\ r.result = s.result
        /\ r.refused = s.refused /\ r.line = l
    BY <1>1
  <2>2. DOMAIN r = {"open", "result", "refused", "line"} /\ r = [x \in DOMAIN r |-> r[x]]
    BY <1>1
  <2> HIDE DEF r
  <2>3. r \in ScanState
    BY <1>1, <2>1, <2>2 DEF ScanState
  <2>4. QED
    BY <2>1, <2>3 DEF r
<1>6. QED
  BY <1>2, <1>3, <1>4, <1>5

LEMMA UpdateResult ==
  ASSUME NEW s \in ScanState, NEW q \in Seq(Nat), NEW r, r = [s EXCEPT !.result = q]
  PROVE  /\ r \in ScanState /\ r.open = s.open /\ r.result = q
         /\ r.refused = s.refused /\ r.line = s.line
<1>1. << >> \in Seq(Cond) /\ 0 \in Nat
  OBVIOUS
<1>2. QED
  BY <1>1, Updates

LEMMA LineStep ==
  ASSUME NEW L, NEW p \in Nat, p > 0, NEW known, NEW s, ScanInv(L, known, p, s),
         L[p] \in LineToken
  PROVE  ScanInv(L, known, p + 1, ScanLine(s, L[p], known))
<1> DEFINE t    == L[p]
           here == [s EXCEPT !.line = @ + 1]
<1>1. /\ s \in ScanState /\ s.open \in Seq(Cond) /\ s.result \in Seq(Nat)
      /\ s.line \in Nat /\ s.refused \in BOOLEAN
      /\ DOMAIN s = {"open", "result", "refused", "line"}
  BY DEF ScanInv, ScanState
<1>2. /\ here \in ScanState
      /\ here.open = s.open /\ here.result = s.result /\ here.refused = s.refused
      /\ here.line = s.line + 1
  <2> DEFINE l == s.line + 1
  <2>1. l \in Nat /\ here = [s EXCEPT !.line = l]
    BY <1>1
  <2> HIDE DEF l, here
  <2>2. /\ here \in ScanState
        /\ here.open = s.open /\ here.result = s.result /\ here.refused = s.refused
        /\ here.line = l
    <3>1. << >> \in Seq(Cond) /\ << >> \in Seq(Nat)
      OBVIOUS
    <3>2. QED
      BY <1>1, <2>1, <3>1, Updates, Zenon
  <2>3. QED
    BY <2>2 DEF l
<1> HIDE DEF here
<1>3. CASE s.refused
  <2>1. ScanLine(s, t, known) = s
    BY <1>3 DEF ScanLine
  <2>2. QED
    BY <1>3, <2>1 DEF ScanInv
<1>4. ASSUME ~ s.refused
      PROVE  /\ s.line = p - 1 /\ StackOK(L, s.open, p)
             /\ \A k \in 1 .. p - 1 : ~ BadLine(L, k, known)
             /\ \A k : k \in ToSet(s.result) <=> k \in 1 .. p - 1 /\ SimOnly(L, k)
             /\ Rising(s.result)
  BY <1>4 DEF ScanInv
<1>5. CASE ~ s.refused /\ t.k # "dir"
  <2> DEFINE add == Active(s.open, "cov") /\ ~ Active(s.open, "syn")
             r   == ScanLine(s, t, known)
  <2>1. r = IF add THEN [here EXCEPT !.result = Append(@, s.line + 1)] ELSE here
    BY <1>5 DEF ScanLine, here
  <2>2. add <=> SimOnly(L, p)
    BY <1>1, <1>4, <1>5, ActiveIsCompiled DEF SimOnly, CONFIGS
  <2>3. /\ r \in ScanState /\ r.open = s.open /\ r.refused = s.refused
        /\ r.line = s.line + 1
        /\ r.result = IF add THEN Append(s.result, p) ELSE s.result
    <3>1. Append(s.result, s.line + 1) \in Seq(Nat) /\ s.line + 1 = p
      BY <1>1, <1>4, <1>5
    <3>2. CASE add
      <4> DEFINE q == Append(s.result, s.line + 1)
      <4>1. q \in Seq(Nat) /\ q = Append(s.result, p)
        BY <3>1
      <4>2. r = [here EXCEPT !.result = q]
        <5>1. r = [here EXCEPT !.result = Append(here.result, s.line + 1)]
          BY <2>1, <3>2, Zenon
        <5>2. QED
          BY <1>2, <5>1
      <4> HIDE DEF add, q, r
      <4>3. QED
        <5>1. /\ r \in ScanState /\ r.open = here.open /\ r.result = q
              /\ r.refused = here.refused /\ r.line = here.line
          <6>1. here \in ScanState /\ q \in Seq(Nat)
            BY <1>2, <4>1
          <6> HIDE DEF here
          <6>2. QED
            BY <4>2, <6>1, UpdateResult
        <5>2. QED
          BY <1>2, <3>2, <4>1, <5>1, Zenon
    <3>3. CASE ~ add
      <4>1. r = here
        BY <2>1, <3>3, Zenon
      <4> HIDE DEF add, r
      <4>2. QED
        BY <1>2, <3>3, <4>1
    <3>4. QED
      BY <3>2, <3>3
  <2> HIDE DEF add, r
  <2>4. StackOK(L, s.open, p + 1)
    BY <1>4, <1>5, SameStack DEF IsDir
  <2>5. ~ BadLine(L, p, known)
    BY <1>5 DEF BadLine, IsDir
  <2>6. /\ \A k : k \in ToSet(r.result) <=> k \in 1 .. p /\ SimOnly(L, k)
        /\ Rising(r.result)
    <3>1. CASE add
      <4>1. ToSet(r.result) = ToSet(s.result) \cup {p}
        <5> DEFINE q == s.result
        <5> HIDE DEF q
        <5>1. q \in Seq(Nat)
          BY <1>1 DEF q
        <5>2. ToSet(Append(q, p)) = ToSet(q) \cup {p}
          BY <5>1, ToSetAppend
        <5>3. QED
          BY <2>3, <3>1, <5>2 DEF q
      <4>2. \A k : k \in 1 .. p <=> k \in 1 .. p - 1 \/ k = p
        OBVIOUS
      <4>3. Rising(r.result)
        <5>1. \A i \in DOMAIN s.result : s.result[i] \in 1 .. p - 1
          BY <1>1, <1>4, <1>5 DEF ToSet
        <5>2. QED
          BY <1>1, <1>4, <1>5, <2>3, <3>1, <5>1 DEF Rising
      <4>4. QED
        BY <1>4, <1>5, <2>2, <3>1, <4>1, <4>2, <4>3
    <3>2. CASE ~ add
      <4>1. \A k : k \in 1 .. p <=> k \in 1 .. p - 1 \/ k = p
        OBVIOUS
      <4>2. QED
        BY <1>4, <1>5, <2>2, <2>3, <3>2, <4>1
    <3>3. QED
      BY <3>1, <3>2
  <2>7. QED
    BY <1>4, <1>5, <2>3, <2>4, <2>5, <2>6 DEF ScanInv, r
<1>6. CASE ~ s.refused /\ t.k = "dir"
  <2>1. RefusesLine(s, t, known) <=> BadLine(L, p, known)
    BY <1>1, <1>4, <1>6, RefusesIsBad
  <2>2. CASE RefusesLine(s, t, known)
    <3> DEFINE r == [here EXCEPT !.refused = TRUE]
    <3>1. ScanLine(s, t, known) = r
      BY <1>6, <2>2 DEF ScanLine, here
    <3>2. r \in ScanState /\ r.refused = TRUE
      BY <1>2 DEF ScanState
    <3>3. p \in 1 .. p
      OBVIOUS
    <3> HIDE DEF r
    <3>4. QED
      BY <2>1, <2>2, <3>1, <3>2, <3>3 DEF ScanInv
  <2>3. CASE ~ RefusesLine(s, t, known)
    <3> DEFINE r == ScanLine(s, t, known)
    <3>1. t.d \in {"define", "undef", "ifdef", "ifndef", "endif", "else", "elsif"}
      <4>1. t.d \in Directives /\ t.d # "include"
        BY <1>6, <2>3, LineTokenFacts DEF RefusesLine
      <4>2. QED
        BY <4>1 DEF Directives
    <3>2. r = CASE t.d \in {"define", "undef"} -> here
                [] t.d \in Openers             -> Open(here, t)
                [] t.d = "endif"               -> [here EXCEPT !.open = Front(@)]
                [] OTHER                       -> Turn(here, t)
      BY <1>6, <2>3 DEF ScanLine, here
    <3> HIDE DEF r
    <3>3. /\ r \in ScanState /\ r.result = s.result /\ r.refused = s.refused
          /\ r.line = s.line + 1 /\ StackOK(L, r.open, p + 1)
      <4>1. CASE t.d \in {"define", "undef"}
        <5>1. r = here
          BY <3>2, <4>1 DEF Openers
        <5>2. StackOK(L, s.open, p + 1)
          BY <1>4, <1>6, <4>1, SameStack DEF IsDir
        <5>3. QED
          BY <1>2, <5>1, <5>2, Zenon
      <4>2. CASE t.d \in Openers
        <5>1. r = Open(here, t)
          BY <3>2, <4>2 DEF Openers
        <5>2. StackOK(L, r.open, p + 1)
          BY <1>2, <1>4, <1>6, <4>2, <5>1, OpenStack DEF IsDir
        <5>3. QED
          BY <1>2, <4>2, <5>1, <5>2, OpenFacts
      <4>3. CASE t.d = "endif"
        <5>1. r = [here EXCEPT !.open = Front(@)]
          BY <3>2, <4>3 DEF Openers
        <5>2. s.open # << >>
          BY <2>3, <4>3 DEF RefusesLine
        <5>3. Front(s.open) \in Seq(Cond)
          BY <1>1, <5>2, FrontFacts
        <5>4. StackOK(L, Front(s.open), p + 1)
          BY <1>1, <1>4, <1>6, <4>3, <5>2, EndStack DEF IsDir
        <5>5. QED
          BY <1>2, <5>1, <5>3, <5>4 DEF ScanState
      <4>4. CASE t.d \in {"else", "elsif"}
        <5>1. r = Turn(here, t)
          BY <3>2, <4>4 DEF Openers
        <5>2. s.open # << >> /\ ~ Last(s.open).seen_else
          BY <2>3, <4>4 DEF RefusesLine
        <5>3. IsDir(L, p, {"else", "elsif"}) /\ ~ here.open[Len(here.open)].seen_else
              /\ here.open # << >>
          BY <1>2, <1>6, <4>4, <5>2 DEF IsDir, Last
        <5>4. StackOK(L, r.open, p + 1)
          BY <1>2, <1>4, <1>6, <5>1, <5>3, TurnStack
        <5>5. QED
          BY <1>2, <4>4, <5>1, <5>3, <5>4, TurnFacts
      <4>5. QED
        BY <3>1, <4>1, <4>2, <4>3, <4>4 DEF Openers
    <3>4. ~ SimOnly(L, p)
      BY <1>6 DEF SimOnly
    <3>5. \A k : k \in 1 .. p <=> k \in 1 .. p - 1 \/ k = p
      OBVIOUS
    <3>6. /\ \A k \in 1 .. p : ~ BadLine(L, k, known)
          /\ \A k : k \in ToSet(r.result) <=> k \in 1 .. p /\ SimOnly(L, k)
      BY <1>4, <1>6, <2>1, <2>3, <3>3, <3>4, <3>5
    <3>7. QED
      BY <1>4, <1>6, <3>3, <3>6 DEF ScanInv, r
  <2>4. QED
    BY <2>2, <2>3
<1>7. QED
  BY <1>1, <1>3, <1>5, <1>6
-----------------------------------------------------------------------------
(* The folds. Fold takes an operator, so each of its uses has its own      *)
(* lemma: the intermediate results are a run, from the base, of the step.  *)
ModeSet == {"code", "line", "block", "string", "escape"}

LEMMA NextModeType ==
  ASSUME NEW m \in ModeSet, NEW k
  PROVE  NextMode(m, k) \in ModeSet
BY DEF NextMode, ModeSet

LEMMA ModesFacts ==
  ASSUME NEW S, NEW text \in Seq(S)
  PROVE  /\ Modes(text) \in Seq(ModeSet)
         /\ Len(Modes(text)) = Len(text) + 1
         /\ Modes(text)[1] = "code"
         /\ \A i \in 1 .. Len(text) :
              Modes(text)[i + 1] = NextMode(Modes(text)[i], text[i].k)
<1> DEFINE n     == Len(text)
           St    == Seq(ModeSet) \ {<< >>}
           base  == << "code" >>
           Op(ms, t) == Append(ms, NextMode(Last(ms), t.k))
           step  == [i \in 1 .. n |-> [ms \in St |-> Op(ms, text[i])]]
           Eq(f) == f = [i \in 0 .. n |-> IF i = 0 THEN base ELSE Op(f[i - 1], text[i])]
           f     == CHOOSE g : Eq(g)
<1>1. n \in Nat /\ base \in St
  BY DEF ModeSet
<1>2. ASSUME NEW ms \in St, NEW t
      PROVE  /\ Op(ms, t) \in St
             /\ Len(Op(ms, t)) = Len(ms) + 1
             /\ \A j \in 1 .. Len(ms) : Op(ms, t)[j] = ms[j]
             /\ Op(ms, t)[Len(ms) + 1] = NextMode(ms[Len(ms)], t.k)
  <2>1. Len(ms) \in Nat \ {0} /\ ms \in Seq(ModeSet) /\ ms[Len(ms)] \in ModeSet
    OBVIOUS
  <2>2. NextMode(Last(ms), t.k) \in ModeSet
    BY <2>1, NextModeType DEF Last
  <2>3. QED
    BY <2>1, <2>2 DEF Last
<1>3. step \in [1 .. n -> [St -> St]]
  BY <1>2
<1>4. PICK g : IsRun(g, St, base, n, step)
  <2> HIDE DEF step, St, base, n
  <2> QED  BY <1>1, <1>3, FoldExists, Zenon
<1>5. Eq(f)
  <2>1. \A i \in 1 .. n : g[i] = Op(g[i - 1], text[i])
    <3> HIDE DEF St, base, n, Op
    <3>1. \A i \in 1 .. n : i - 1 \in 0 .. n
      BY <1>1
    <3>2. QED
      BY <1>4, <3>1 DEF step, IsRun
  <2>2. Eq(g)
    <3> HIDE DEF St, base, n, Op
    <3> QED  BY <1>1, <1>4, <2>1 DEF IsRun
  <2> HIDE DEF Eq
  <2>3. QED
    BY <2>2
<1>6. Modes(text) = f[n]
  BY DEF Modes, Fold
<1> HIDE DEF f
<1>7. /\ DOMAIN f = 0 .. n /\ f[0] = base
      /\ \A i \in 1 .. n : f[i] = Op(f[i - 1], text[i])
  <2> HIDE DEF Op, base, n
  <2> QED  BY <1>1, <1>5
<1>8. \A i \in 0 .. n : f[i] \in St
  <2>1. \A i \in 1 .. n : f[i - 1] \in St => f[i] \in St
    <3> HIDE DEF Op, St
    <3> QED  BY <1>2, <1>7
  <2> HIDE DEF St, Op, base, n
  <2>2. QED
    BY <1>1, <1>7, <2>1, FoldTyped
<1> DEFINE Good(i) == /\ Len(f[i]) = i + 1 /\ f[i][1] = "code"
                      /\ \A j \in 1 .. i : f[i][j + 1] = NextMode(f[i][j], text[j].k)
           U == {i \in 0 .. n : Good(i)}
<1>9. 0 \in U
  <2>1. f[0] = << "code" >>
    BY <1>7
  <2>2. Len(f[0]) = 1 /\ f[0][1] = "code"
    BY <2>1
  <2>3. QED
    BY <1>1, <2>2
<1>10. \A i \in 0 .. n - 1 : i \in U => i + 1 \in U
  <2> SUFFICES ASSUME NEW i \in 0 .. n - 1, Good(i) PROVE Good(i + 1)
    BY <1>1
  <2>1. /\ f[i] \in St /\ i + 1 \in 1 .. n /\ f[i + 1] = Op(f[i], text[i + 1])
        /\ i \in Nat
    <3> HIDE DEF Op, St
    <3> QED  BY <1>1, <1>7, <1>8
  <2>2. /\ Len(f[i + 1]) = i + 2
        /\ \A j \in 1 .. i + 1 : f[i + 1][j] = f[i][j]
        /\ f[i + 1][i + 2] = NextMode(f[i][i + 1], text[i + 1].k)
    <3>1. Len(f[i]) = i + 1
      OBVIOUS
    <3> DEFINE F == f[i]  t == text[i + 1]
    <3>2. F \in St /\ Len(F) = i + 1
      BY <2>1, <3>1
    <3> HIDE DEF Op, St, F, t
    <3>3. /\ Len(Op(F, t)) = Len(F) + 1
          /\ \A j \in 1 .. Len(F) : Op(F, t)[j] = F[j]
          /\ Op(F, t)[Len(F) + 1] = NextMode(F[Len(F)], t.k)
      BY <1>2, <3>2
    <3>4. f[i + 1] = Op(F, t)
      BY <2>1 DEF F, t
    <3>5. QED
      BY <2>1, <3>2, <3>3, <3>4 DEF F, t
  <2>3. QED
    BY <2>1, <2>2
<1>11. \A i \in 0 .. n : i \in U
  <2> HIDE DEF U, n
  <2> QED  BY <1>1, <1>9, <1>10, Induction
<1>12. Good(n) /\ f[n] \in Seq(ModeSet)
  BY <1>1, <1>8, <1>11
<1>13. QED
  BY <1>6, <1>12
(* Select. *)
SelectIs(f, T0, seq, S) ==
  /\ f \in [0 .. Len(seq) -> Seq(T0)]
  /\ f[0] = << >>
  /\ \A i \in 1 .. Len(seq) :
       f[i] = IF seq[i] \in S THEN Append(f[i - 1], seq[i]) ELSE f[i - 1]
  /\ Select(seq, S) = f[Len(seq)]

LEMMA SelectRun ==
  ASSUME NEW T0, NEW seq \in Seq(T0), NEW S
  PROVE  \E f : SelectIs(f, T0, seq, S)
<1> DEFINE n    == Len(seq)
           St   == Seq(T0)
           base == << >>
           Op(out, t) == IF t \in S THEN Append(out, t) ELSE out
           step == [i \in 1 .. n |-> [out \in St |-> Op(out, seq[i])]]
           Eq(f) == f = [i \in 0 .. n |-> IF i = 0 THEN base ELSE Op(f[i - 1], seq[i])]
           f    == CHOOSE g : Eq(g)
<1>1. n \in Nat /\ base \in St
  OBVIOUS
<1>2. \A i \in 1 .. n : \A out \in St : Op(out, seq[i]) \in St
  OBVIOUS
<1>3. step \in [1 .. n -> [St -> St]]
  <2> HIDE DEF St, Op, n
  <2> QED  BY <1>2
<1>4. PICK g : IsRun(g, St, base, n, step)
  <2> HIDE DEF step, St, base, n
  <2> QED  BY <1>1, <1>3, FoldExists, Zenon
<1>5. Eq(f)
  <2>1. \A i \in 1 .. n : g[i] = Op(g[i - 1], seq[i])
    <3> HIDE DEF St, base, n, Op
    <3>1. \A i \in 1 .. n : i - 1 \in 0 .. n
      BY <1>1
    <3>2. QED
      BY <1>4, <3>1 DEF step, IsRun
  <2>2. Eq(g)
    <3> HIDE DEF St, base, n, Op
    <3> QED  BY <1>1, <1>4, <2>1 DEF IsRun
  <2> HIDE DEF Eq
  <2>3. QED
    BY <2>2
<1>6. Select(seq, S) = f[n]
  BY DEF Select, Fold
<1> HIDE DEF f
<1>7. /\ DOMAIN f = 0 .. n /\ f[0] = base
      /\ \A i \in 1 .. n : f[i] = Op(f[i - 1], seq[i])
  <2> HIDE DEF Op, base, n
  <2> QED  BY <1>1, <1>5
<1>8. \A i \in 0 .. n : f[i] \in St
  <2> HIDE DEF St, Op, base, n
  <2>1. \A i \in 1 .. n : f[i - 1] \in St => f[i] \in St
    BY <1>2, <1>7
  <2>2. QED
    BY <1>1, <1>7, <2>1, FoldTyped
<1>9. f = [i \in 0 .. n |-> f[i]]
  <2> HIDE DEF n, Op, base
  <2> QED  BY <1>5
<1>10. f \in [0 .. n -> St]
  <2> HIDE DEF St, Op, base, n
  <2> QED  BY <1>8, <1>9
<1>11. QED
  BY <1>6, <1>7, <1>10 DEF SelectIs
LEMMA ScanLineType ==
  ASSUME NEW s \in ScanState, NEW t \in LineToken, NEW known
  PROVE  ScanLine(s, t, known) \in ScanState
<1> DEFINE here == [s EXCEPT !.line = @ + 1]
           r    == ScanLine(s, t, known)
<1>1. /\ s.open \in Seq(Cond) /\ s.result \in Seq(Nat)
      /\ s.line \in Nat /\ s.refused \in BOOLEAN
      /\ DOMAIN s = {"open", "result", "refused", "line"}
  BY DEF ScanState
<1>2. here \in ScanState /\ here.open = s.open /\ here.result = s.result
  <2> DEFINE l == s.line + 1
  <2>1. l \in Nat /\ here = [s EXCEPT !.line = l]
    BY <1>1
  <2> HIDE DEF l, here
  <2>2. /\ here \in ScanState
        /\ here.open = s.open /\ here.result = s.result /\ here.refused = s.refused
        /\ here.line = l
    <3>1. << >> \in Seq(Cond) /\ << >> \in Seq(Nat)
      OBVIOUS
    <3>2. QED
      BY <1>1, <2>1, <3>1, Updates, Zenon
  <2>3. QED
    BY <2>2 DEF l
<1>3. CASE s.refused \/ t.k # "dir"
  <2> DEFINE q == Append(s.result, s.line + 1)
  <2>0. q \in Seq(Nat)
    BY <1>1
  <2>1. r \in {s, here, [here EXCEPT !.result = q]}
    <3>1. r \in {s, here, [here EXCEPT !.result = Append(here.result, s.line + 1)]}
      BY <1>3 DEF ScanLine
    <3>2. QED
      BY <1>2, <3>1
  <2> HIDE DEF q
  <2>2. [here EXCEPT !.result = q] \in ScanState
    <3> HIDE DEF here
    <3> QED  BY <1>1, <1>2, <2>0, Updates
  <2> HIDE DEF here, r
  <2>3. QED
    BY <1>2, <2>1, <2>2 DEF r
<1>4. CASE ~ s.refused /\ t.k = "dir" /\ RefusesLine(s, t, known)
  <2>1. r = [here EXCEPT !.refused = TRUE]
    BY <1>4 DEF ScanLine
  <2>2. [here EXCEPT !.refused = TRUE] \in ScanState
    BY <1>2 DEF ScanState
  <2>3. QED
    BY <2>1, <2>2
<1>5. CASE ~ s.refused /\ t.k = "dir" /\ ~ RefusesLine(s, t, known)
  <2>1. r = CASE t.d \in {"define", "undef"} -> here
              [] t.d \in Openers             -> Open(here, t)
              [] t.d = "endif"               -> [here EXCEPT !.open = Front(@)]
              [] OTHER                       -> Turn(here, t)
    BY <1>5 DEF ScanLine
  <2> HIDE DEF here, r
  <2>2. t.d \in {"define", "undef", "ifdef", "ifndef", "endif", "else", "elsif"}
    <3>1. t.d \in Directives /\ t.d # "include"
      BY <1>5, LineTokenFacts DEF RefusesLine
    <3>2. QED
      BY <3>1 DEF Directives
  <2>3. CASE t.d \in {"define", "undef"}
    <3>1. r = here
      BY <2>1, <2>3 DEF Openers
    <3>2. QED
      BY <1>2, <3>1 DEF r
  <2>4. CASE t.d \in Openers
    <3>1. r = Open(here, t)
      BY <2>1, <2>4 DEF Openers
    <3>2. QED
      BY <1>2, <2>4, <3>1, OpenFacts DEF r
  <2>5. CASE t.d = "endif"
    <3>1. r = [here EXCEPT !.open = Front(@)]
      BY <2>1, <2>5 DEF Openers
    <3>2. Front(s.open) \in Seq(Cond)
      BY <1>1, <1>5, <2>5, FrontFacts DEF RefusesLine
    <3>3. QED
      BY <1>2, <3>1, <3>2 DEF ScanState, r
  <2>6. CASE t.d \in {"else", "elsif"}
    <3>1. r = Turn(here, t)
      BY <2>1, <2>6 DEF Openers
    <3>2. here.open # << >>
      BY <1>2, <1>5, <2>6 DEF RefusesLine
    <3>3. QED
      BY <1>2, <2>6, <3>1, <3>2, TurnFacts DEF r
  <2>7. QED
    BY <2>2, <2>3, <2>4, <2>5, <2>6 DEF Openers
<1>6. QED
  BY <1>1, <1>3, <1>4, <1>5

(* Scan. *)
LEMMA ScanRun ==
  ASSUME NEW text, FirstTokens(text) \in Seq(LineToken), NEW known
  PROVE  \E f \in [0 .. Len(FirstTokens(text)) -> ScanState] :
           /\ f[0] = [open |-> << >>, result |-> << >>, refused |-> FALSE, line |-> 0]
           /\ \A i \in 1 .. Len(FirstTokens(text)) : f[i] = ScanLine(f[i - 1], FirstTokens(text)[i], known)
           /\ Scan(text, known) = f[Len(FirstTokens(text))]
<1> DEFINE n    == Len(FirstTokens(text))
           St   == ScanState
           base == [open |-> << >>, result |-> << >>, refused |-> FALSE, line |-> 0]
           Op(s, t) == ScanLine(s, t, known)
           step == [i \in 1 .. n |-> [s \in St |-> Op(s, FirstTokens(text)[i])]]
           Eq(f) == f = [i \in 0 .. n |-> IF i = 0 THEN base ELSE Op(f[i - 1], FirstTokens(text)[i])]
           f    == CHOOSE g : Eq(g)
<1>1. n \in Nat /\ base \in St
  BY DEF ScanState
<1>2. \A i \in 1 .. n : \A s \in St : Op(s, FirstTokens(text)[i]) \in St
  BY ScanLineType
<1>3. step \in [1 .. n -> [St -> St]]
  <2> HIDE DEF St, Op, n
  <2> QED  BY <1>2
<1>4. PICK g : IsRun(g, St, base, n, step)
  <2> HIDE DEF step, St, base, n
  <2> QED  BY <1>1, <1>3, FoldExists, Zenon
<1>5. Eq(f)
  <2>1. \A i \in 1 .. n : g[i] = Op(g[i - 1], FirstTokens(text)[i])
    <3> HIDE DEF St, base, n, Op
    <3>1. \A i \in 1 .. n : i - 1 \in 0 .. n
      BY <1>1
    <3>2. QED
      BY <1>4, <3>1 DEF step, IsRun
  <2>2. Eq(g)
    <3> HIDE DEF St, base, n, Op
    <3> QED  BY <1>1, <1>4, <2>1 DEF IsRun
  <2> HIDE DEF Eq
  <2>3. QED
    BY <2>2
<1>6. Scan(text, known) = f[n]
  BY DEF Scan, Fold
<1> HIDE DEF f
<1>7. /\ DOMAIN f = 0 .. n /\ f[0] = base
      /\ \A i \in 1 .. n : f[i] = Op(f[i - 1], FirstTokens(text)[i])
  <2> HIDE DEF Op, base, n
  <2> QED  BY <1>1, <1>5
<1>8. \A i \in 0 .. n : f[i] \in St
  <2> HIDE DEF St, Op, base, n
  <2>1. \A i \in 1 .. n : f[i - 1] \in St => f[i] \in St
    BY <1>2, <1>7
  <2>2. QED
    BY <1>1, <1>7, <2>1, FoldTyped
<1>9. f = [i \in 0 .. n |-> f[i]]
  <2> HIDE DEF n, Op, base
  <2> QED  BY <1>5
<1>10. f \in [0 .. n -> St]
  <2> HIDE DEF St, Op, base, n
  <2> QED  BY <1>8, <1>9
<1>11. QED
  BY <1>6, <1>7, <1>10
(* runs. *)
LEMMA RunsRun ==
  ASSUME NEW nums \in Seq(Nat)
  PROVE  \E f \in [0 .. Len(nums) -> Seq(Nat \X Nat)] :
           /\ f[0] = << >>
           /\ \A i \in 1 .. Len(nums) : f[i] = IF f[i - 1] # << >> /\ nums[i] = Last(f[i - 1])[2] + 1
                           THEN Append(Front(f[i - 1]), << Last(f[i - 1])[1], nums[i] >>)
                           ELSE Append(f[i - 1], << nums[i], nums[i] >>)
           /\ runs(nums) = f[Len(nums)]
<1> DEFINE n    == Len(nums)
           St   == Seq(Nat \X Nat)
           base == << >>
           Op(out, n0) == IF out # << >> /\ n0 = Last(out)[2] + 1
                           THEN Append(Front(out), << Last(out)[1], n0 >>)
                           ELSE Append(out, << n0, n0 >>)
           step == [i \in 1 .. n |-> [out \in St |-> Op(out, nums[i])]]
           Eq(f) == f = [i \in 0 .. n |-> IF i = 0 THEN base ELSE Op(f[i - 1], nums[i])]
           f    == CHOOSE g : Eq(g)
<1>1. n \in Nat /\ base \in St
  OBVIOUS
<1>2. \A i \in 1 .. n : \A out \in St : Op(out, nums[i]) \in St
  <2> SUFFICES ASSUME NEW i \in 1 .. n, NEW out \in St PROVE Op(out, nums[i]) \in St
    OBVIOUS
  <2>1. nums[i] \in Nat
    OBVIOUS
  <2>2. CASE out # << >>
    <3>1. Front(out) \in St /\ Len(out) \in Nat \ {0}
      BY <2>2, FrontFacts
    <3>2. out[Len(out)] \in Nat \X Nat
      BY <3>1
    <3>3. Last(out)[1] \in Nat
      BY <3>2 DEF Last
    <3>4. Append(Front(out), << Last(out)[1], nums[i] >>) \in St
      BY <2>1, <3>1, <3>3
    <3>5. Append(out, << nums[i], nums[i] >>) \in St
      BY <2>1
    <3>6. QED
      BY <3>4, <3>5
  <2>3. CASE out = << >>
    BY <2>1, <2>3
  <2>4. QED
    BY <2>2, <2>3
<1>3. step \in [1 .. n -> [St -> St]]
  <2> HIDE DEF St, Op, n
  <2> QED  BY <1>2
<1>4. PICK g : IsRun(g, St, base, n, step)
  <2> HIDE DEF step, St, base, n
  <2> QED  BY <1>1, <1>3, FoldExists, Zenon
<1>5. Eq(f)
  <2>1. \A i \in 1 .. n : g[i] = Op(g[i - 1], nums[i])
    <3> HIDE DEF St, base, n, Op
    <3>1. \A i \in 1 .. n : i - 1 \in 0 .. n
      BY <1>1
    <3>2. QED
      BY <1>4, <3>1 DEF step, IsRun
  <2>2. Eq(g)
    <3> HIDE DEF St, base, n, Op
    <3> QED  BY <1>1, <1>4, <2>1 DEF IsRun
  <2> HIDE DEF Eq
  <2>3. QED
    BY <2>2
<1>6. runs(nums) = f[n]
  BY DEF runs, Fold
<1> HIDE DEF f
<1>7. /\ DOMAIN f = 0 .. n /\ f[0] = base
      /\ \A i \in 1 .. n : f[i] = Op(f[i - 1], nums[i])
  <2> HIDE DEF Op, base, n
  <2> QED  BY <1>1, <1>5
<1>8. \A i \in 0 .. n : f[i] \in St
  <2> HIDE DEF St, Op, base, n
  <2>1. \A i \in 1 .. n : f[i - 1] \in St => f[i] \in St
    BY <1>2, <1>7
  <2>2. QED
    BY <1>1, <1>7, <2>1, FoldTyped
<1>9. f = [i \in 0 .. n |-> f[i]]
  <2> HIDE DEF n, Op, base
  <2> QED  BY <1>5
<1>10. f \in [0 .. n -> St]
  <2> HIDE DEF St, Op, base, n
  <2> QED  BY <1>8, <1>9
<1>11. QED
  BY <1>6, <1>7, <1>10
-----------------------------------------------------------------------------
(* What the scan decides, for every text whose lines it can read.          *)
LEMMA ScanIsRight ==
  ASSUME NEW text, FirstTokens(text) \in Seq(LineToken), NEW known
  PROVE  ScanInv(FirstTokens(text), known, Len(FirstTokens(text)) + 1, Scan(text, known))
<1> DEFINE L == FirstTokens(text)
           n == Len(L)
           base == [open |-> << >>, result |-> << >>, refused |-> FALSE, line |-> 0]
<1>1. PICK f \in [0 .. n -> ScanState] :
        /\ f[0] = base
        /\ \A i \in 1 .. n : f[i] = ScanLine(f[i - 1], L[i], known)
        /\ Scan(text, known) = f[n]
  BY ScanRun
<1>2. n \in Nat /\ L \in Seq(LineToken) /\ \A i \in 1 .. n : L[i] \in LineToken
  OBVIOUS
<1> HIDE DEF L
<1> DEFINE U == {i \in 0 .. n : ScanInv(L, known, i + 1, f[i])}
<1>3. 0 \in U
  <2>1. Depth(L, 1) = 0
    BY DepthStep
  <2>2. Enclosing(L, 1) = {}
    BY DEF Enclosing
  <2>3. base \in ScanState
    BY DEF ScanState
  <2>4. StackOK(L, << >>, 1)
    BY <2>1, <2>2 DEF StackOK
  <2>5. /\ base.refused = FALSE /\ base.line = 0 /\ base.open = << >>
        /\ base.result = << >> /\ ToSet(<< >>) = {} /\ Rising(<< >>)
    BY DEF ToSet, Rising
  <2> HIDE DEF base
  <2>6. ScanInv(L, known, 1, base)
    BY <2>3, <2>4, <2>5 DEF ScanInv
  <2>7. QED
    BY <1>1, <1>2, <2>6
<1>4. \A i \in 0 .. n - 1 : i \in U => i + 1 \in U
  <2> SUFFICES ASSUME NEW i \in 0 .. n - 1, ScanInv(L, known, i + 1, f[i])
               PROVE  ScanInv(L, known, i + 2, f[i + 1])
    BY <1>2
  <2>1. /\ i + 1 \in 1 .. n /\ i + 1 \in Nat /\ i + 1 > 0
        /\ L[i + 1] \in LineToken /\ f[i + 1] = ScanLine(f[i], L[i + 1], known)
    BY <1>1, <1>2
  <2> DEFINE p == i + 1  s == f[i]
  <2>2. p \in Nat /\ p > 0 /\ ScanInv(L, known, p, s) /\ L[p] \in LineToken
    BY <2>1
  <2> HIDE DEF p, s
  <2>3. ScanInv(L, known, p + 1, ScanLine(s, L[p], known))
    BY <2>2, LineStep
  <2>4. QED
    BY <1>2, <2>1, <2>3 DEF p, s
<1>5. \A i \in 0 .. n : i \in U
  <2> HIDE DEF U, n
  <2> QED  BY <1>2, <1>3, <1>4, Induction
<1>6. n \in U
  BY <1>2, <1>5
<1>7. QED
  BY <1>1, <1>6 DEF L

LEMMA RefusesTheRule ==
  ASSUME NEW text, FirstTokens(text) \in Seq(LineToken)
  PROVE  Refused(text, KNOWN) <=> MustRefuse(FirstTokens(text))
<1> DEFINE L == FirstTokens(text)
           s == Scan(text, KNOWN)
<1>1. ScanInv(L, KNOWN, Len(L) + 1, s)
  BY ScanIsRight
<1>2. Len(L) \in Nat /\ DOMAIN L = 1 .. Len(L) /\ Len(L) + 1 - 1 = Len(L)
  OBVIOUS
<1>3. Refused(text, KNOWN) <=> s.refused \/ s.open # << >>
  BY DEF Refused
<1> HIDE DEF L, s
<1>4. MustRefuse(L) <=>
        (\E i \in 1 .. Len(L) : BadLine(L, i, KNOWN)) \/ Depth(L, Len(L) + 1) # 0
  BY <1>2 DEF MustRefuse, BadLine
<1>5. ~ s.refused => (s.open # << >> <=> Depth(L, Len(L) + 1) # 0)
  BY <1>1 DEF ScanInv, ScanState, StackOK
<1>6. QED
  BY <1>1, <1>2, <1>3, <1>4, <1>5 DEF ScanInv, L

LEMMA SimOnlyLines ==
  ASSUME NEW text, FirstTokens(text) \in Seq(LineToken), NEW known, ~ Refused(text, known)
  PROVE  /\ sim_only_lines(text, known) \in Seq(Nat)
         /\ ToSet(sim_only_lines(text, known)) = SimulationOnly(FirstTokens(text))
         /\ Rising(sim_only_lines(text, known))
<1> DEFINE L == FirstTokens(text)
           s == Scan(text, known)
<1>1. ScanInv(L, known, Len(L) + 1, s)
  BY ScanIsRight
<1>2. Len(L) \in Nat /\ DOMAIN L = 1 .. Len(L) /\ Len(L) + 1 - 1 = Len(L)
  OBVIOUS
<1>3. ~ s.refused /\ sim_only_lines(text, known) = s.result
  BY DEF Refused, sim_only_lines
<1> HIDE DEF L, s
<1>4. \A k : k \in SimulationOnly(L) <=> k \in 1 .. Len(L) /\ SimOnly(L, k)
  BY <1>2 DEF SimulationOnly, SimOnly
<1>5. /\ \A k : k \in ToSet(s.result) <=> k \in 1 .. Len(L) /\ SimOnly(L, k)
      /\ Rising(s.result) /\ s.result \in Seq(Nat)
  BY <1>1, <1>2, <1>3 DEF ScanInv, ScanState
<1>6. ToSet(s.result) = SimulationOnly(L)
  BY <1>4, <1>5
<1>7. QED
  BY <1>3, <1>5, <1>6 DEF L
-----------------------------------------------------------------------------
(* runs: the ranges cover the numbers, leave gaps, and end at the last.    *)
Ranges(r, nums, m) ==
  /\ r \in Seq(Nat \X Nat)
  /\ r = << >> <=> m = 0
  /\ m > 0 => r[Len(r)][2] = nums[m]
  /\ \A i \in 1 .. Len(r) : r[i][1] <= r[i][2]
  /\ \A v \in Nat : (\E i \in 1 .. Len(r) : r[i][1] <= v /\ v <= r[i][2])
                      <=> \E j \in 1 .. m : nums[j] = v
  /\ \A i \in 1 .. Len(r) - 1 : r[i + 1][1] > r[i][2] + 1

LEMMA RangesStep ==
  ASSUME NEW nums \in Seq(Nat), Rising(nums), NEW m \in 0 .. Len(nums) - 1,
         NEW r, Ranges(r, nums, m)
  PROVE  LET v == nums[m + 1] IN
         Ranges(IF r # << >> /\ v = Last(r)[2] + 1
                THEN Append(Front(r), << Last(r)[1], v >>)
                ELSE Append(r, << v, v >>), nums, m + 1)
<1> DEFINE w == nums[m + 1]
           k == Len(r)
<1>1. /\ r \in Seq(Nat \X Nat) /\ k \in Nat /\ Len(nums) \in Nat
      /\ w \in Nat /\ m \in Nat /\ m + 1 \in 1 .. Len(nums)
      /\ \A i \in 1 .. k : r[i] \in Nat \X Nat /\ r[i][1] \in Nat /\ r[i][2] \in Nat
  <2>1. r \in Seq(Nat \X Nat) /\ m + 1 \in 1 .. Len(nums)
    BY DEF Ranges
  <2>2. QED
    BY <2>1
<1>2. m > 0 => m \in 1 .. Len(nums) /\ nums[m] \in Nat /\ nums[m] < w
  BY <1>1 DEF Rising
<1>3. \A v : (\E j \in 1 .. m + 1 : nums[j] = v) <=> (\E j \in 1 .. m : nums[j] = v) \/ v = w
  <2>1. \A j : j \in 1 .. m + 1 <=> j \in 1 .. m \/ j = m + 1
    BY <1>1
  <2>2. QED
    BY <2>1
<1>4. /\ r = << >> <=> m = 0
      /\ m > 0 => r[k][2] = nums[m]
      /\ \A i \in 1 .. k : r[i][1] <= r[i][2]
      /\ \A v \in Nat : (\E i \in 1 .. k : r[i][1] <= v /\ v <= r[i][2])
                          <=> \E j \in 1 .. m : nums[j] = v
      /\ \A i \in 1 .. k - 1 : r[i + 1][1] > r[i][2] + 1
  BY DEF Ranges
<1> HIDE DEF w, k
<1>5. CASE r # << >> /\ w = Last(r)[2] + 1
  <2> DEFINE a == r[k][1]
             q == Append(Front(r), << a, w >>)
  <2>1. k \in Nat \ {0} /\ Last(r) = r[k] /\ m > 0
    BY <1>1, <1>4, <1>5 DEF Last, k
  <2>2. a \in Nat /\ a <= r[k][2] /\ r[k][2] \in Nat /\ r[k][2] = nums[m] /\ w = r[k][2] + 1
    BY <1>1, <1>4, <1>5, <2>1
  <2>3. /\ Front(r) \in Seq(Nat \X Nat) /\ Len(Front(r)) = k - 1
        /\ \A i \in 1 .. k - 1 : Front(r)[i] = r[i]
    BY <1>1, <1>5, FrontFacts DEF k
  <2>4. << a, w >> \in Nat \X Nat
    BY <1>1, <2>2
  <2>5. /\ q \in Seq(Nat \X Nat) /\ Len(q) = k /\ q[k] = << a, w >>
        /\ \A i \in 1 .. k - 1 : q[i] = r[i]
    BY <2>1, <2>3, <2>4
  <2>6. q[k][1] = a /\ q[k][2] = w
    BY <2>5
  <2> HIDE DEF a, q
  <2>7. q # << >>
    BY <2>1, <2>5
  <2>8. \A i \in 1 .. k : q[i][1] <= q[i][2] /\ q[i][1] = r[i][1]
    <3>1. \A i \in 1 .. k : i \in 1 .. k - 1 \/ i = k
      BY <2>1
    <3>2. a <= w
      BY <1>1, <2>2
    <3>3. QED
      BY <1>4, <2>5, <2>6, <3>1, <3>2 DEF a
  <2>9. \A v \in Nat : (\E i \in 1 .. k : q[i][1] <= v /\ v <= q[i][2])
                         <=> \E j \in 1 .. m + 1 : nums[j] = v
    <3> SUFFICES ASSUME NEW v \in Nat
                 PROVE  (\E i \in 1 .. k : q[i][1] <= v /\ v <= q[i][2])
                          <=> (\E i \in 1 .. k : r[i][1] <= v /\ v <= r[i][2]) \/ v = w
      BY <1>3, <1>4
    <3>1. \A i \in 1 .. k - 1 : q[i] = r[i] /\ i \in 1 .. k
      BY <2>1, <2>5
    <3>2. \A i \in 1 .. k : i \in 1 .. k - 1 \/ i = k
      BY <2>1
    <3>3. q[k][1] <= v /\ v <= q[k][2] <=> (r[k][1] <= v /\ v <= r[k][2]) \/ v = w
      <4> DEFINE b == r[k][2]
      <4>1. a \in Nat /\ b \in Nat /\ a <= b /\ w = b + 1
        BY <2>2
      <4> HIDE DEF b
      <4>2. a <= v /\ v <= w <=> (a <= v /\ v <= b) \/ v = w
        BY <4>1
      <4>3. QED
        BY <2>6, <4>2, Zenon DEF a, b
    <3>4. k \in 1 .. k
      BY <2>1
    <3>5. QED
      BY <3>1, <3>2, <3>3, <3>4, Zenon
  <2>10. \A i \in 1 .. k - 1 : q[i + 1][1] > q[i][2] + 1
    <3>1. \A i \in 1 .. k - 1 : i + 1 \in 1 .. k
      BY <2>1
    <3>2. \A i \in 1 .. k - 1 : q[i + 1][1] = r[i + 1][1] /\ q[i] = r[i]
      BY <2>5, <2>8, <3>1
    <3>3. QED
      BY <1>4, <3>2
  <2>11. Ranges(q, nums, m + 1)
    BY <1>1, <2>5, <2>6, <2>7, <2>8, <2>9, <2>10 DEF Ranges, w
  <2>12. QED
    BY <1>5, <2>1, <2>11 DEF q, a, w
<1>6. CASE ~ (r # << >> /\ w = Last(r)[2] + 1)
  <2> DEFINE q == Append(r, << w, w >>)
  <2>1. << w, w >> \in Nat \X Nat
    BY <1>1
  <2>2. /\ q \in Seq(Nat \X Nat) /\ Len(q) = k + 1 /\ q[k + 1] = << w, w >>
        /\ \A i \in 1 .. k : q[i] = r[i]
    BY <1>1, <2>1 DEF k
  <2>3. q[k + 1][1] = w /\ q[k + 1][2] = w
    BY <2>2
  <2> HIDE DEF q
  <2>4. q # << >>
    BY <1>1, <2>2
  <2>5. \A i : i \in 1 .. k + 1 <=> i \in 1 .. k \/ i = k + 1
    BY <1>1
  <2>6. \A i \in 1 .. k + 1 : q[i][1] <= q[i][2]
    <3>1. w <= w
      BY <1>1
    <3>2. QED
      BY <1>4, <2>2, <2>3, <2>5, <3>1
  <2>7. \A v \in Nat : (\E i \in 1 .. k + 1 : q[i][1] <= v /\ v <= q[i][2])
                         <=> \E j \in 1 .. m + 1 : nums[j] = v
    <3> SUFFICES ASSUME NEW v \in Nat
                 PROVE  (\E i \in 1 .. k + 1 : q[i][1] <= v /\ v <= q[i][2])
                          <=> (\E i \in 1 .. k : r[i][1] <= v /\ v <= r[i][2]) \/ v = w
      BY <1>3, <1>4
    <3>1. w <= v /\ v <= w <=> v = w
      BY <1>1
    <3>2. QED
      BY <2>2, <2>3, <2>5, <3>1, Zenon
  <2>8. \A i \in 1 .. k : q[i + 1][1] > q[i][2] + 1
    <3>1. ASSUME NEW i \in 1 .. k PROVE q[i + 1][1] > q[i][2] + 1
      <4>1. CASE i = k
        <5>1. m > 0 /\ r # << >> /\ Last(r) = r[k]
          BY <1>1, <1>4, <4>1 DEF Last, k
        <5>2. w > r[k][2] + 1
          <6> DEFINE b == r[k][2]
          <6>1. b = nums[m] /\ b \in Nat /\ b < w
            BY <1>2, <1>4, <5>1
          <6>2. w # b + 1
            BY <1>6, <5>1, Zenon
          <6> HIDE DEF b
          <6>3. w > b + 1
            BY <1>1, <6>1, <6>2
          <6>4. QED
            BY <6>3 DEF b
        <5>3. QED
          BY <2>2, <2>3, <4>1, <5>2
      <4>2. CASE i \in 1 .. k - 1
        <5>1. i + 1 \in 1 .. k
          BY <1>1, <4>2
        <5>2. QED
          BY <1>4, <2>2, <4>2, <5>1
      <4>3. QED
        BY <1>1, <4>1, <4>2
    <3>2. QED
      BY <3>1
  <2>9. Ranges(q, nums, m + 1)
    BY <1>1, <2>2, <2>3, <2>4, <2>6, <2>7, <2>8 DEF Ranges, w
  <2>10. QED
    BY <1>6, <2>9 DEF q, w
<1>7. QED
  BY <1>5, <1>6

LEMMA RunsFacts ==
  ASSUME NEW nums \in Seq(Nat), Rising(nums)
  PROVE  Ranges(runs(nums), nums, Len(nums))
<1> DEFINE n == Len(nums)
           Next0(r, v) == IF r # << >> /\ v = Last(r)[2] + 1
                          THEN Append(Front(r), << Last(r)[1], v >>)
                          ELSE Append(r, << v, v >>)
<1>1. PICK f \in [0 .. n -> Seq(Nat \X Nat)] :
        /\ f[0] = << >>
        /\ \A i \in 1 .. n : f[i] = Next0(f[i - 1], nums[i])
        /\ runs(nums) = f[n]
  BY RunsRun
<1>2. n \in Nat
  OBVIOUS
<1> DEFINE U == {i \in 0 .. n : Ranges(f[i], nums, i)}
<1>3. 0 \in U
  BY <1>1, <1>2 DEF Ranges
<1>4. \A i \in 0 .. n - 1 : i \in U => i + 1 \in U
  <2> SUFFICES ASSUME NEW i \in 0 .. n - 1, Ranges(f[i], nums, i)
               PROVE  Ranges(f[i + 1], nums, i + 1)
    BY <1>2
  <2> DEFINE r == f[i]
  <2>1. f[i + 1] = Next0(r, nums[i + 1])
    <3> HIDE DEF Next0
    <3>1. i + 1 \in 1 .. n /\ i + 1 - 1 = i
      BY <1>2
    <3>2. QED
      BY <1>1, <3>1
  <2>2. Ranges(r, nums, i)
    OBVIOUS
  <2> HIDE DEF r
  <2>3. Ranges(Next0(r, nums[i + 1]), nums, i + 1)
    BY <2>2, RangesStep
  <2>4. QED
    BY <2>1, <2>3
<1>5. \A i \in 0 .. n : i \in U
  <2> HIDE DEF U, n
  <2> QED  BY <1>2, <1>3, <1>4, Induction
<1>6. n \in U
  BY <1>2, <1>5
<1>7. QED
  BY <1>1, <1>6
-----------------------------------------------------------------------------
(* Select: the elements at the positions, in order, whose element is in S. *)
Picks(pos, out, seq, S, m) ==
  /\ pos \in Seq(Nat) /\ Rising(pos)
  /\ \A i : (\E j \in 1 .. Len(pos) : pos[j] = i) <=> i \in 1 .. m /\ seq[i] \in S
  /\ Len(out) = Len(pos)
  /\ \A j \in 1 .. Len(pos) : out[j] = seq[pos[j]]

LEMMA PicksStep ==
  ASSUME NEW T0, NEW seq \in Seq(T0), NEW S, NEW m \in 0 .. Len(seq) - 1,
         NEW pos, NEW out \in Seq(T0), Picks(pos, out, seq, S, m)
  PROVE  \E q : Picks(q, IF seq[m + 1] \in S THEN Append(out, seq[m + 1]) ELSE out,
                      seq, S, m + 1)
<1>1. /\ m \in Nat /\ m + 1 \in 1 .. Len(seq) /\ seq[m + 1] \in T0
      /\ \A i : i \in 1 .. m + 1 <=> i \in 1 .. m \/ i = m + 1
  OBVIOUS
<1>2. /\ pos \in Seq(Nat) /\ Rising(pos) /\ Len(pos) \in Nat
      /\ \A i : (\E j \in 1 .. Len(pos) : pos[j] = i) <=> i \in 1 .. m /\ seq[i] \in S
      /\ Len(out) = Len(pos)
      /\ \A j \in 1 .. Len(pos) : out[j] = seq[pos[j]]
  BY DEF Picks
<1>3. CASE seq[m + 1] \notin S
  <2>1. \A i : i \in 1 .. m + 1 /\ seq[i] \in S <=> i \in 1 .. m /\ seq[i] \in S
    BY <1>1, <1>3
  <2>2. Picks(pos, out, seq, S, m + 1)
    BY <1>2, <2>1 DEF Picks
  <2>3. QED
    BY <1>3, <2>2
<1>4. CASE seq[m + 1] \in S
  <2> DEFINE q == Append(pos, m + 1)
             o == Append(out, seq[m + 1])
             k == Len(pos)
  <2>1. /\ q \in Seq(Nat) /\ Len(q) = k + 1 /\ q[k + 1] = m + 1
        /\ \A j \in 1 .. k : q[j] = pos[j]
    BY <1>1, <1>2
  <2>2. /\ Len(o) = k + 1 /\ o[k + 1] = seq[m + 1]
        /\ \A j \in 1 .. k : o[j] = out[j]
    BY <1>1, <1>2
  <2>3. \A j : j \in 1 .. k + 1 <=> j \in 1 .. k \/ j = k + 1
    BY <1>2
  <2>4. \A j \in 1 .. k : pos[j] \in 1 .. m
    BY <1>2
  <2> HIDE DEF q, o
  <2>5. Rising(q)
    <3>1. DOMAIN q = 1 .. k + 1 /\ DOMAIN pos = 1 .. k /\ k \in Nat
      BY <1>2, <2>1
    <3>2. ASSUME NEW i \in 1 .. k + 1, NEW j \in 1 .. k + 1, i < j
          PROVE  q[i] < q[j]
      <4>1. i \in 1 .. k
        BY <3>1, <3>2
      <4>2. CASE j \in 1 .. k
        BY <1>2, <2>1, <3>1, <3>2, <4>1, <4>2 DEF Rising
      <4>3. CASE j = k + 1
        BY <1>1, <2>1, <2>4, <4>1, <4>3
      <4>4. QED
        BY <2>3, <4>2, <4>3
    <3>3. QED
      BY <3>1, <3>2 DEF Rising
  <2>6. \A i : (\E j \in 1 .. k + 1 : q[j] = i) <=> i \in 1 .. m + 1 /\ seq[i] \in S
    <3> SUFFICES ASSUME NEW i
                 PROVE  (\E j \in 1 .. k + 1 : q[j] = i) <=> i \in 1 .. m + 1 /\ seq[i] \in S
      OBVIOUS
    <3>1. (\E j \in 1 .. k + 1 : q[j] = i) <=> (\E j \in 1 .. k : pos[j] = i) \/ i = m + 1
      BY <2>1, <2>3, Zenon
    <3>2. QED
      BY <1>1, <1>2, <1>4, <3>1
  <2>7. \A j \in 1 .. k + 1 : o[j] = seq[q[j]]
    BY <1>2, <2>1, <2>2, <2>3
  <2>8. Picks(q, o, seq, S, m + 1)
    BY <2>1, <2>2, <2>5, <2>6, <2>7 DEF Picks
  <2>9. QED
    BY <1>4, <2>8 DEF o
<1>5. QED
  BY <1>3, <1>4

LEMMA SelectFacts ==
  ASSUME NEW T0, NEW seq \in Seq(T0), NEW S
  PROVE  /\ Select(seq, S) \in Seq(T0)
         /\ \E pos : Picks(pos, Select(seq, S), seq, S, Len(seq))
<1> DEFINE n == Len(seq)
           Next0(out, t) == IF t \in S THEN Append(out, t) ELSE out
<1>0. PICK f : SelectIs(f, T0, seq, S)
  BY SelectRun
<1>1. /\ f \in [0 .. n -> Seq(T0)]
      /\ f[0] = << >>
      /\ \A i \in 1 .. n : f[i] = Next0(f[i - 1], seq[i])
      /\ Select(seq, S) = f[n]
  BY <1>0 DEF SelectIs
<1>2. n \in Nat
  OBVIOUS
<1> DEFINE U == {i \in 0 .. n : \E pos : Picks(pos, f[i], seq, S, i)}
<1>3. 0 \in U
  <2>1. Picks(<< >>, f[0], seq, S, 0)
    BY <1>1 DEF Picks, Rising
  <2>2. QED
    BY <1>2, <2>1
<1>4. \A i \in 0 .. n - 1 : i \in U => i + 1 \in U
  <2> SUFFICES ASSUME NEW i \in 0 .. n - 1, i \in U
               PROVE  \E q : Picks(q, f[i + 1], seq, S, i + 1)
    BY <1>2
  <2>0. PICK pos : Picks(pos, f[i], seq, S, i)
    OBVIOUS
  <2> DEFINE out == f[i]
  <2>1. f[i + 1] = Next0(out, seq[i + 1]) /\ out \in Seq(T0)
    <3> HIDE DEF Next0
    <3>1. i + 1 \in 1 .. n /\ i + 1 - 1 = i
      BY <1>2
    <3>2. QED
      BY <1>1, <3>1
  <2>2. Picks(pos, out, seq, S, i)
    BY <2>0
  <2> HIDE DEF out
  <2>3. \E q : Picks(q, Next0(out, seq[i + 1]), seq, S, i + 1)
    BY <2>1, <2>2, PicksStep
  <2>4. QED
    BY <2>1, <2>3
<1>5. \A i \in 0 .. n : i \in U
  <2> HIDE DEF U, n
  <2> QED  BY <1>2, <1>3, <1>4, Induction
<1>6. n \in U
  BY <1>2, <1>5
<1>7. QED
  BY <1>1, <1>6

LEMMA PositionsFacts ==
  ASSUME NEW T0, NEW text \in Seq(T0), NEW S \in SUBSET DOMAIN text
  PROVE  /\ Positions(text, S) \in Seq(Nat)
         /\ Rising(Positions(text, S))
         /\ \A i : (\E j \in 1 .. Len(Positions(text, S)) : Positions(text, S)[j] = i)
                     <=> i \in S
<1> DEFINE seq == [i \in DOMAIN text |-> i]
           P   == Positions(text, S)
<1>1. Len(text) \in Nat /\ DOMAIN text = 1 .. Len(text)
  OBVIOUS
<1>2. seq \in Seq(Nat) /\ Len(seq) = Len(text) /\ \A i \in 1 .. Len(text) : seq[i] = i
  BY <1>1
<1>3. P = Select(seq, S)
  BY DEF Positions
<1> HIDE DEF seq, P
<1>4. PICK pos : Picks(pos, P, seq, S, Len(text))
  BY <1>2, <1>3, SelectFacts
<1>5. P \in Seq(Nat)
  BY <1>2, <1>3, SelectFacts
<1>6. /\ pos \in Seq(Nat) /\ Rising(pos) /\ Len(P) = Len(pos)
      /\ \A i : (\E j \in 1 .. Len(pos) : pos[j] = i) <=> i \in 1 .. Len(text) /\ seq[i] \in S
      /\ \A j \in 1 .. Len(pos) : P[j] = seq[pos[j]]
  BY <1>4 DEF Picks
<1>7. \A j \in 1 .. Len(pos) : P[j] = pos[j]
  BY <1>2, <1>6
<1>8. Rising(P)
  <2>1. DOMAIN P = 1 .. Len(pos) /\ DOMAIN pos = 1 .. Len(pos)
    BY <1>5, <1>6
  <2>2. QED
    BY <1>6, <1>7, <2>1, Zenon DEF Rising
<1>9. \A i : (\E j \in 1 .. Len(P) : P[j] = i) <=> i \in S
  <2>1. \A i : i \in 1 .. Len(text) /\ seq[i] \in S <=> i \in S
    BY <1>1, <1>2
  <2>2. QED
    BY <1>6, <1>7, <2>1
<1>10. QED
  BY <1>5, <1>8, <1>9 DEF P
-----------------------------------------------------------------------------
(* The text that strip_comments leaves.                                    *)
KeptOf(text) == {i \in DOMAIN text : Kept(text, Modes(text), i)}

LEMMA StripFacts ==
  ASSUME NEW T0, NEW text \in Seq(T0)
  PROVE  LET P == Positions(text, KeptOf(text)) IN
         /\ P \in Seq(Nat) /\ Rising(P)
         /\ \A i : (\E j \in 1 .. Len(P) : P[j] = i) <=> i \in KeptOf(text)
         /\ strip_comments(text) = [j \in DOMAIN P |-> text[P[j]]]
         /\ strip_comments(text) \in Seq(T0)
         /\ Len(strip_comments(text)) = Len(P)
<1> DEFINE P == Positions(text, KeptOf(text))
<1>1. KeptOf(text) \in SUBSET DOMAIN text
  BY DEF KeptOf
<1>2. /\ P \in Seq(Nat) /\ Rising(P)
      /\ \A i : (\E j \in 1 .. Len(P) : P[j] = i) <=> i \in KeptOf(text)
  BY <1>1, PositionsFacts
<1>3. strip_comments(text) = [j \in DOMAIN P |-> text[P[j]]]
  BY DEF strip_comments, KeptOf
<1> HIDE DEF P
<1>4. DOMAIN P = 1 .. Len(P) /\ Len(P) \in Nat
  BY <1>2
<1>5. \A j \in DOMAIN P : text[P[j]] \in T0
  BY <1>1, <1>2, <1>4
<1>6. strip_comments(text) \in Seq(T0) /\ Len(strip_comments(text)) = Len(P)
  BY <1>3, <1>4, <1>5
<1>7. QED
  BY <1>2, <1>3, <1>6 DEF P
(* The lines of a text. *)
LEMMA FirstTokensType ==
  ASSUME NEW text \in Seq(Token)
  PROVE  FirstTokens(text) \in Seq(LineToken)
<1> DEFINE n    == Len(strip_comments(text))
           St   == Seq(LineToken) \ {<< >>}
           base == << Blank >>
           Op(lines, t) ==
             IF t.k = "nl" THEN Append(lines, Blank)
             ELSE IF Last(lines) = Blank THEN Append(Front(lines), t)
             ELSE lines
           step == [i \in 1 .. n |-> [lines \in St |-> Op(lines, strip_comments(text)[i])]]
           Eq(f) == f = [i \in 0 .. n |-> IF i = 0 THEN base ELSE Op(f[i - 1], strip_comments(text)[i])]
           f    == CHOOSE g : Eq(g)
<1>0. strip_comments(text) \in Seq(Token)
  BY StripFacts
<1>1. n \in Nat /\ base \in St
  BY <1>0 DEF LineToken
<1>2. \A i \in 1 .. n : \A lines \in St : Op(lines, strip_comments(text)[i]) \in St
  <2>1. ASSUME NEW lines \in St, NEW t \in Token PROVE Op(lines, t) \in St
    <3>1. /\ lines \in Seq(LineToken) /\ lines # << >>
          /\ Blank \in LineToken /\ t \in LineToken
      BY DEF LineToken
    <3>2. Front(lines) \in Seq(LineToken)
      BY <3>1, FrontFacts
    <3>3. /\ Append(lines, Blank) \in St
          /\ Append(Front(lines), t) \in St
      BY <3>1, <3>2
    <3>4. QED
      BY <3>3
  <2>2. \A i \in 1 .. n : strip_comments(text)[i] \in Token
    BY <1>0
  <2> HIDE DEF Op, St, n
  <2>3. QED
    BY <2>1, <2>2
<1>3. step \in [1 .. n -> [St -> St]]
  <2> HIDE DEF St, Op, n
  <2> QED  BY <1>2
<1>4. PICK g : IsRun(g, St, base, n, step)
  <2> HIDE DEF step, St, base, n
  <2> QED  BY <1>1, <1>3, FoldExists, Zenon
<1>5. Eq(f)
  <2>1. \A i \in 1 .. n : g[i] = Op(g[i - 1], strip_comments(text)[i])
    <3> HIDE DEF St, base, n, Op
    <3>1. \A i \in 1 .. n : i - 1 \in 0 .. n
      BY <1>1
    <3>2. QED
      BY <1>4, <3>1 DEF step, IsRun
  <2>2. Eq(g)
    <3> HIDE DEF St, base, n, Op
    <3> QED  BY <1>1, <1>4, <2>1 DEF IsRun
  <2> HIDE DEF Eq
  <2>3. QED
    BY <2>2
<1>6. FirstTokens(text) = f[n]
  BY DEF FirstTokens, Fold
<1> HIDE DEF f
<1>7. /\ DOMAIN f = 0 .. n /\ f[0] = base
      /\ \A i \in 1 .. n : f[i] = Op(f[i - 1], strip_comments(text)[i])
  <2> HIDE DEF Op, base, n
  <2> QED  BY <1>1, <1>5
<1>8. \A i \in 0 .. n : f[i] \in St
  <2> HIDE DEF St, Op, base, n
  <2>1. \A i \in 1 .. n : f[i - 1] \in St => f[i] \in St
    BY <1>2, <1>7
  <2>2. QED
    BY <1>1, <1>7, <2>1, FoldTyped
<1>9. QED
  BY <1>1, <1>6, <1>8
-----------------------------------------------------------------------------
(* The two line properties, of one text.                                   *)
LEMMA TextExcludesTheRule ==
  ASSUME NEW text \in Seq(Token)
  PROVE  LET lines == LinesOf(text)  ranges == runs(sim_only_lines(text, KNOWN)) IN
         /\ Refused(text, KNOWN) <=> MustRefuse(lines)
         /\ ~ MustRefuse(lines) =>
              /\ UNION {r[1] .. r[2] : r \in ToSet(ranges)} = SimulationOnly(lines)
              /\ \A i \in 2 .. Len(ranges) : ranges[i][1] > ranges[i - 1][2] + 1
<1> DEFINE L == FirstTokens(text)
           nums == sim_only_lines(text, KNOWN)
           ranges == runs(nums)
<1>1. L \in Seq(LineToken) /\ LinesOf(text) = L
  BY FirstTokensType DEF LinesOf
<1>2. Refused(text, KNOWN) <=> MustRefuse(L)
  BY <1>1, RefusesTheRule
<1>3. ASSUME ~ MustRefuse(L)
      PROVE  /\ UNION {r[1] .. r[2] : r \in ToSet(ranges)} = SimulationOnly(L)
             /\ \A i \in 2 .. Len(ranges) : ranges[i][1] > ranges[i - 1][2] + 1
  <2>1. /\ nums \in Seq(Nat) /\ Rising(nums)
        /\ ToSet(nums) = SimulationOnly(L)
    BY <1>1, <1>2, <1>3, SimOnlyLines
  <2> HIDE DEF nums, L
  <2>2. Ranges(ranges, nums, Len(nums))
    BY <2>1, RunsFacts
  <2> HIDE DEF ranges
  <2>3. /\ ranges \in Seq(Nat \X Nat) /\ Len(ranges) \in Nat
        /\ DOMAIN ranges = 1 .. Len(ranges) /\ DOMAIN nums = 1 .. Len(nums)
        /\ \A i \in 1 .. Len(ranges) : ranges[i][1] \in Nat /\ ranges[i][2] \in Nat
    <3>1. ranges \in Seq(Nat \X Nat)
      BY <2>2 DEF Ranges
    <3>2. QED
      BY <2>1, <3>1
  <2>4. \A v : v \in UNION {r[1] .. r[2] : r \in ToSet(ranges)}
                 <=> \E i \in 1 .. Len(ranges) : v \in ranges[i][1] .. ranges[i][2]
    BY <2>3 DEF ToSet
  <2>5. \A v : (\E i \in 1 .. Len(ranges) : v \in ranges[i][1] .. ranges[i][2])
                 <=> v \in Nat /\ \E i \in 1 .. Len(ranges) : ranges[i][1] <= v /\ v <= ranges[i][2]
    BY <2>3
  <2>6. \A v : v \in ToSet(nums) <=> v \in Nat /\ \E j \in 1 .. Len(nums) : nums[j] = v
    BY <2>1, <2>3 DEF ToSet
  <2>7. \A v \in Nat : (\E i \in 1 .. Len(ranges) : ranges[i][1] <= v /\ v <= ranges[i][2])
                         <=> \E j \in 1 .. Len(nums) : nums[j] = v
    BY <2>2 DEF Ranges
  <2>8. \A v : v \in UNION {r[1] .. r[2] : r \in ToSet(ranges)} <=> v \in ToSet(nums)
    BY <2>4, <2>5, <2>6, <2>7, Zenon
  <2>9. UNION {r[1] .. r[2] : r \in ToSet(ranges)} = SimulationOnly(L)
    BY <2>1, <2>8
  <2>10. \A i \in 2 .. Len(ranges) : ranges[i][1] > ranges[i - 1][2] + 1
    <3>1. \A i \in 1 .. Len(ranges) - 1 : ranges[i + 1][1] > ranges[i][2] + 1
      BY <2>2 DEF Ranges
    <3>2. ASSUME NEW i \in 2 .. Len(ranges) PROVE ranges[i][1] > ranges[i - 1][2] + 1
      <4>1. i - 1 \in 1 .. Len(ranges) - 1 /\ i - 1 + 1 = i
        BY <2>3
      <4>2. QED
        BY <3>1, <4>1
    <3>3. QED
      BY <3>2
  <2>11. QED
    BY <2>9, <2>10
<1>4. QED
  BY <1>1, <1>2, <1>3

LEMMA TextLinesStay ==
  ASSUME NEW text \in Seq(Token), StringsClose(text)
  PROVE  LineCount(strip_comments(text)) = LineCount(text)
<1> DEFINE P == Positions(text, KeptOf(text))
           s == strip_comments(text)
           A == {j \in DOMAIN s : s[j].k = "nl"}
           B == {i \in DOMAIN text : text[i].k = "nl"}
           f == [j \in A |-> P[j]]
<1>1. /\ P \in Seq(Nat) /\ Rising(P)
      /\ \A i : (\E j \in 1 .. Len(P) : P[j] = i) <=> i \in KeptOf(text)
      /\ s = [j \in DOMAIN P |-> text[P[j]]]
      /\ s \in Seq(Token) /\ Len(s) = Len(P)
  BY StripFacts
<1>2. \A i \in B : i \in KeptOf(text)
  <2>1. ASSUME NEW i \in B PROVE i \in KeptOf(text)
    <3>1. /\ Modes(text) \in Seq(ModeSet) /\ Len(Modes(text)) = Len(text) + 1
          /\ i \in 1 .. Len(text) /\ Len(text) \in Nat
      BY ModesFacts
    <3>2. Modes(text)[i] \in ModeSet
      BY <3>1
    <3>3. Modes(text)[i] \in {"code", "line", "block"}
      BY <3>2 DEF StringsClose, ModeSet
    <3>4. Kept(text, Modes(text), i)
      BY <3>3 DEF Kept
    <3>5. QED
      BY <3>4 DEF KeptOf
  <2>2. QED
    BY <2>1
<1>3. KeptOf(text) \subseteq DOMAIN text
  BY DEF KeptOf
<1> HIDE DEF P
<1>4. DOMAIN s = 1 .. Len(P) /\ DOMAIN P = 1 .. Len(P) /\ Len(P) \in Nat
  BY <1>1
<1>5. \A j \in DOMAIN s : s[j] = text[P[j]] /\ P[j] \in DOMAIN text
  BY <1>1, <1>3, <1>4
<1> HIDE DEF s
<1>6. f \in Bijection(A, B)
  <2>1. f \in [A -> B]
    BY <1>5
  <2>2. \A a, b \in A : f[a] = f[b] => a = b
    <3>1. \A a, b \in A : a \in 1 .. Len(P) /\ b \in 1 .. Len(P)
      BY <1>4
    <3>2. \A a, b \in 1 .. Len(P) : a < b => P[a] < P[b]
      BY <1>1, <1>4 DEF Rising
    <3>3. \A a \in 1 .. Len(P) : P[a] \in Nat
      BY <1>1
    <3>4. ASSUME NEW a \in A, NEW b \in A, P[a] = P[b] PROVE a = b
      BY <3>1, <3>2, <3>3, <3>4, <1>4
    <3>5. QED
      BY <3>4
  <2>3. \A b \in B : \E a \in A : f[a] = b
    <3>1. ASSUME NEW b \in B PROVE \E a \in A : f[a] = b
      <4>1. PICK j \in 1 .. Len(P) : P[j] = b
        BY <1>1, <1>2
      <4>2. j \in A
        BY <1>4, <1>5, <4>1
      <4>3. QED
        BY <4>1, <4>2
    <3>2. QED
      BY <3>1
  <2> HIDE DEF A, B, f
  <2>4. QED
    BY <2>1, <2>2, <2>3, Fun_IsBij
<1>7. IsFiniteSet(A)
  <2>1. A \subseteq 1 .. Len(P)
    BY <1>4
  <2>2. IsFiniteSet(1 .. Len(P))
    BY <1>4, FS_Interval
  <2> HIDE DEF A
  <2>3. QED
    BY <2>1, <2>2, FS_Subset
<1>8. Cardinality(A) = Cardinality(B)
  <2> HIDE DEF A, B, f
  <2>1. ExistsBijection(A, B)
    BY <1>6 DEF ExistsBijection
  <2>2. QED
    BY <1>7, <2>1, FS_Bijection
<1>9. LineCount(s) = 1 + Cardinality(A) /\ LineCount(text) = 1 + Cardinality(B)
  BY DEF LineCount
<1>10. QED
  BY <1>8, <1>9 DEF s
-----------------------------------------------------------------------------
(* Waivers. OpensAt: a comment opens at o; WaiverAt: its first word, at j, *)
(* is a waiver.                                                            *)
OpensAt(text, o) ==
  /\ o \in DOMAIN text
  /\ Modes(text)[o] = "code" /\ text[o].k \in {"//", "/*"}

WaiverAt(text, o, j) ==
  /\ OpensAt(text, o) /\ j \in o + 1 .. Len(text)
  /\ text[j].k = "waiver"
  /\ \A m \in o + 1 .. j : Modes(text)[m] # "code"
  /\ \A m \in o + 1 .. j - 1 : text[m].k = "nl"

LEMMA GreatestNumber ==
  ASSUME NEW n \in Nat, NEW U \in SUBSET (0 .. n), U # {}
  PROVE  Max(U) \in U /\ \A y \in U : y <= Max(U)
<1> DEFINE D == {n - u : u \in U}
<1>1. D \in SUBSET Nat /\ D # {}
  <2>1. \A u \in U : n - u \in Nat
    OBVIOUS
  <2>2. D # {}
    BY Zenon
  <2>3. QED
    BY <2>1, <2>2
<1>2. PICK d \in D : \A y \in D : d <= y
  <2> HIDE DEF D
  <2> QED  BY <1>1, LeastNumber
<1>3. PICK u \in U : d = n - u
  BY <1>2
<1>4. \A y \in U : u >= y
  <2>1. ASSUME NEW y \in U PROVE u >= y
    <3>1. n - y \in D
      BY Zenon
    <3>2. n - u <= n - y
      BY <1>2, <1>3, <3>1
    <3>3. QED
      BY <3>2
  <2>2. QED
    BY <2>1
<1>5. Max(U) \in U /\ \A y \in U : Max(U) >= y
  <2>1. \E x \in U : \A y \in U : x >= y
    BY <1>4
  <2>2. QED
    BY <2>1, Zenon DEF Max
<1> DEFINE m == Max(U)
<1>6. m \in 0 .. n
  BY <1>5
<1> HIDE DEF m
<1>7. \A y \in U : y <= m
  BY <1>5, <1>6 DEF m
<1>8. QED
  BY <1>5, <1>7 DEF m

(* What Body takes for the comment that opens at o. *)
BodyEnds(text, o, last) ==
  /\ last \in o .. Len(text)
  /\ \A m \in o + 1 .. last : Modes(text)[m] # "code"
  /\ last = Len(text) \/ Modes(text)[last + 1] = "code"

Inside(text, o, last) ==
  LET ts == SubSeq(text, o + 1, last) IN Select(ts, {t \in ToSet(ts) : t.k # "nl"})

LEMMA BodyIs ==
  ASSUME NEW text \in Seq(Token), NEW o, OpensAt(text, o)
  PROVE  \E last : /\ BodyEnds(text, o, last)
                   /\ Body(text, Modes(text), o) =
                        LET inside == Inside(text, o, last) IN
                        IF text[o].k = "/*" /\ inside # << >> /\ Last(inside).k = "*/"
                        THEN Front(inside) ELSE inside
<1> DEFINE M == Modes(text)
           n == Len(text)
           End(j) == /\ \A m \in o + 1 .. j : M[m] # "code"
                     /\ j = n \/ M[j + 1] = "code"
           U == {j \in o .. n : j = n \/ M[j + 1] = "code"}
           last == CHOOSE j \in o .. n : End(j)
<1>1. o \in 1 .. n /\ n \in Nat
  BY DEF OpensAt
<1>2. U \in SUBSET Nat /\ n \in U
  BY <1>1
<1>3. PICK j \in U : \A y \in U : j <= y
  <2> HIDE DEF U
  <2> QED  BY <1>2, LeastNumber
<1>4. j \in o .. n /\ End(j)
  <2>1. j \in o .. n /\ (j = n \/ M[j + 1] = "code")
    OBVIOUS
  <2>2. ASSUME NEW m \in o + 1 .. j, M[m] = "code" PROVE FALSE
    <3>1. m - 1 \in U
      BY <1>1, <2>1, <2>2
    <3>2. j <= m - 1
      BY <1>3, <3>1
    <3>3. QED
      BY <1>1, <2>1, <3>2
  <2>3. QED
    BY <2>1, <2>2
<1>5. last \in o .. n /\ End(last)
  <2> HIDE DEF End, n
  <2> QED  BY <1>4
<1>6. BodyEnds(text, o, last)
  BY <1>5 DEF BodyEnds
<1>7. Body(text, M, o) = LET inside == Inside(text, o, last) IN
                         IF text[o].k = "/*" /\ inside # << >> /\ Last(inside).k = "*/"
                         THEN Front(inside) ELSE inside
  BY DEF Body, Inside
<1>8. QED
  BY <1>6, <1>7

LEMMA InsideFacts ==
  ASSUME NEW text \in Seq(Token), NEW o, OpensAt(text, o), NEW last,
         BodyEnds(text, o, last)
  PROVE  /\ Inside(text, o, last) \in Seq(Token)
         /\ \A j \in o + 1 .. last :
              text[j].k # "nl" /\ (\A m \in o + 1 .. j - 1 : text[m].k = "nl")
              => Inside(text, o, last) # << >> /\ Inside(text, o, last)[1] = text[j]
         /\ Inside(text, o, last) # << >> =>
              \E j \in o + 1 .. last :
                /\ text[j].k # "nl" /\ \A m \in o + 1 .. j - 1 : text[m].k = "nl"
                /\ Inside(text, o, last)[1] = text[j]
<1> DEFINE ts == SubSeq(text, o + 1, last)
           S  == {t \in ToSet(ts) : t.k # "nl"}
           in == Inside(text, o, last)
           k  == last - o
<1>1. o \in Nat /\ last \in o .. Len(text) /\ Len(text) \in Nat /\ k \in Nat /\ o > 0
  BY DEF OpensAt, BodyEnds
<1>2. ts \in Seq(Token) /\ Len(ts) = k /\ \A i \in 1 .. k : ts[i] = text[o + i]
  <2> DEFINE b == o + 1
  <2>1. b \in Int /\ last \in Int /\ \A z \in b .. last : text[z] \in Token
    BY <1>1
  <2> HIDE DEF b
  <2>2. /\ SubSeq(text, b, last) \in Seq(Token)
        /\ Len(SubSeq(text, b, last)) = IF b <= last THEN last - b + 1 ELSE 0
        /\ \A i \in 1 .. last - b + 1 : SubSeq(text, b, last)[i] = text[b + i - 1]
    BY <2>1, SubSeqProperties
  <2>3. last - b + 1 = k /\ (b <= last \/ k = 0) /\ \A i \in 1 .. k : b + i - 1 = o + i
    BY <1>1 DEF b
  <2>4. QED
    BY <1>1, <2>2, <2>3 DEF b
<1>3. in = Select(ts, S)
  BY DEF Inside
<1> HIDE DEF ts
<1>4. \A i \in 1 .. k : ts[i] \in S <=> text[o + i].k # "nl"
  <2>1. DOMAIN ts = 1 .. k
    BY <1>1, <1>2
  <2>2. \A i \in 1 .. k : ts[i] \in ToSet(ts)
    BY <2>1 DEF ToSet
  <2>3. QED
    BY <1>2, <2>2
<1> HIDE DEF S, in
<1>5. in \in Seq(Token)
  BY <1>2, <1>3, SelectFacts
<1>6. PICK pos : Picks(pos, in, ts, S, k)
  <2>1. \E pos : Picks(pos, Select(ts, S), ts, S, Len(ts))
    BY <1>2, SelectFacts
  <2>2. QED
    BY <1>2, <1>3, <2>1
<1>7. /\ pos \in Seq(Nat) /\ Rising(pos) /\ Len(in) = Len(pos)
      /\ DOMAIN pos = 1 .. Len(pos) /\ Len(pos) \in Nat
      /\ \A i : (\E j \in 1 .. Len(pos) : pos[j] = i) <=> i \in 1 .. k /\ ts[i] \in S
      /\ \A j \in 1 .. Len(pos) : in[j] = ts[pos[j]]
  BY <1>6 DEF Picks
<1>8. ASSUME in # << >>
      PROVE  /\ pos[1] \in 1 .. k /\ ts[pos[1]] \in S /\ in[1] = ts[pos[1]]
             /\ \A i \in 1 .. k : i < pos[1] => ts[i] \notin S
  <2>1. 1 \in 1 .. Len(pos)
    BY <1>5, <1>7, <1>8
  <2>2. pos[1] \in 1 .. k /\ ts[pos[1]] \in S /\ in[1] = ts[pos[1]]
    BY <1>7, <2>1
  <2>3. ASSUME NEW i \in 1 .. k, i < pos[1], ts[i] \in S PROVE FALSE
    <3>1. PICK j \in 1 .. Len(pos) : pos[j] = i
      BY <1>7, <2>3
    <3>2. j = 1 \/ 1 < j
      BY <1>7
    <3>3. j # 1
      BY <2>2, <2>3, <3>1
    <3>4. pos[1] < pos[j]
      BY <1>7, <2>1, <3>2, <3>3 DEF Rising
    <3>5. QED
      BY <1>1, <2>2, <2>3, <3>1, <3>4
  <2>4. QED
    BY <2>2, <2>3
<1>9. ASSUME NEW j \in o + 1 .. last, text[j].k # "nl",
             \A m \in o + 1 .. j - 1 : text[m].k = "nl"
      PROVE  in # << >> /\ in[1] = text[j]
  <2> DEFINE i == j - o
  <2>1. i \in 1 .. k /\ o + i = j
    BY <1>1
  <2>2. ts[i] \in S /\ ts[i] = text[j]
    BY <1>2, <1>4, <1>9, <2>1
  <2>3. in # << >>
    BY <1>5, <1>7, <2>1, <2>2
  <2>4. pos[1] = i
    <3>1. pos[1] \in 1 .. k /\ ts[pos[1]] \in S /\ ~ (i < pos[1])
      BY <1>8, <2>1, <2>2, <2>3
    <3>2. ASSUME pos[1] < i PROVE FALSE
      <4>1. o + pos[1] \in o + 1 .. j - 1
        BY <1>1, <2>1, <3>1, <3>2
      <4>2. text[o + pos[1]].k = "nl"
        BY <1>9, <4>1
      <4>3. QED
        BY <1>4, <3>1, <4>2
    <3>3. QED
      BY <1>1, <2>1, <3>1, <3>2
  <2>5. QED
    BY <1>8, <2>2, <2>3, <2>4
<1>10. ASSUME in # << >>
       PROVE  \E j \in o + 1 .. last :
                /\ text[j].k # "nl" /\ \A m \in o + 1 .. j - 1 : text[m].k = "nl"
                /\ in[1] = text[j]
  <2> DEFINE i == pos[1]  j == o + i
  <2>1. /\ i \in 1 .. k /\ ts[i] \in S /\ in[1] = ts[i]
        /\ \A q \in 1 .. k : q < i => ts[q] \notin S
    BY <1>8, <1>10
  <2> HIDE DEF i
  <2>2. j \in o + 1 .. last
    BY <1>1, <2>1
  <2>3. text[j].k # "nl" /\ in[1] = text[j]
    BY <1>2, <1>4, <2>1
  <2>4. ASSUME NEW m \in o + 1 .. j - 1 PROVE text[m].k = "nl"
    <3>1. m - o \in 1 .. k /\ m - o < i /\ o + (m - o) = m
      BY <1>1, <2>1
    <3>2. QED
      BY <1>4, <2>1, <3>1
  <2> HIDE DEF j
  <2>5. QED
    BY <2>2, <2>3, <2>4
<1>11. QED
  BY <1>5, <1>9, <1>10 DEF in

(* The first word of a comment is the first of its body. *)
LEMMA BodyOpens ==
  ASSUME NEW text \in Seq(Token), NEW o, OpensAt(text, o)
  PROVE  LET b == Body(text, Modes(text), o) IN
         /\ b \in Seq(Token)
         /\ \A j : WaiverAt(text, o, j) => b # << >> /\ b[1] = text[j]
         /\ b # << >> /\ b[1].k = "waiver" =>
              \E j : WaiverAt(text, o, j) /\ b[1] = text[j]
<1>1. PICK last : /\ BodyEnds(text, o, last)
                  /\ Body(text, Modes(text), o) =
                       LET inside == Inside(text, o, last) IN
                       IF text[o].k = "/*" /\ inside # << >> /\ Last(inside).k = "*/"
                       THEN Front(inside) ELSE inside
  BY BodyIs
<1> DEFINE b == Body(text, Modes(text), o)
           in == Inside(text, o, last)
<1>2. b = IF text[o].k = "/*" /\ in # << >> /\ Last(in).k = "*/" THEN Front(in) ELSE in
  BY <1>1
<1>3. /\ in \in Seq(Token)
      /\ \A j \in o + 1 .. last :
           text[j].k # "nl" /\ (\A m \in o + 1 .. j - 1 : text[m].k = "nl")
           => in # << >> /\ in[1] = text[j]
      /\ in # << >> =>
           \E j \in o + 1 .. last :
             /\ text[j].k # "nl" /\ \A m \in o + 1 .. j - 1 : text[m].k = "nl"
             /\ in[1] = text[j]
  BY <1>1, InsideFacts
<1> HIDE DEF b, in
<1>4. /\ b \in Seq(Token)
      /\ b # << >> => in # << >> /\ b[1] = in[1]
      /\ in # << >> /\ in[1].k = "waiver" => b # << >> /\ b[1] = in[1]
  <2>1. CASE b = in
    BY <1>3, <2>1
  <2>2. CASE in # << >> /\ Last(in).k = "*/" /\ b = Front(in)
    <3>1. /\ Front(in) \in Seq(Token) /\ Len(in) \in Nat \ {0} /\ Len(Front(in)) = Len(in) - 1
          /\ \A i \in 1 .. Len(in) - 1 : Front(in)[i] = in[i]
      BY <1>3, <2>2, FrontFacts
    <3>2. b # << >> => b[1] = in[1]
      <4>1. b # << >> => Len(in) - 1 >= 1
        BY <2>2, <3>1
      <4>2. QED
        BY <2>2, <3>1, <4>1
    <3>3. in[1].k = "waiver" => b # << >>
      <4>1. Len(in) = 1 => Last(in) = in[1]
        BY DEF Last
      <4>2. in[1].k = "waiver" => Len(in) # 1
        BY <2>2, <4>1
      <4>3. QED
        BY <2>2, <3>1, <4>2
    <3>4. QED
      BY <2>2, <3>1, <3>2, <3>3
  <2>3. QED
    BY <1>2, <2>1, <2>2
<1>5. /\ o \in Nat /\ last \in o .. Len(text) /\ Len(text) \in Nat
      /\ \A m \in o + 1 .. last : Modes(text)[m] # "code"
      /\ last = Len(text) \/ Modes(text)[last + 1] = "code"
  BY <1>1 DEF BodyEnds, OpensAt
<1>6. ASSUME NEW j, WaiverAt(text, o, j)
      PROVE  b # << >> /\ b[1] = text[j]
  <2>1. /\ j \in o + 1 .. Len(text) /\ text[j].k = "waiver"
        /\ \A m \in o + 1 .. j : Modes(text)[m] # "code"
        /\ \A m \in o + 1 .. j - 1 : text[m].k = "nl"
    BY <1>6 DEF WaiverAt
  <2>2. j \in o + 1 .. last
    <3>1. ASSUME last < j PROVE FALSE
      <4>1. last + 1 \in o + 1 .. j /\ last # Len(text)
        BY <1>5, <2>1, <3>1
      <4>2. QED
        BY <1>5, <2>1, <4>1
    <3>2. QED
      BY <1>5, <2>1, <3>1
  <2>3. in # << >> /\ in[1] = text[j]
    BY <1>3, <2>1, <2>2
  <2>4. QED
    BY <1>4, <2>1, <2>3
<1>7. ASSUME b # << >>, b[1].k = "waiver"
      PROVE  \E j : WaiverAt(text, o, j) /\ b[1] = text[j]
  <2>1. PICK j \in o + 1 .. last :
          /\ text[j].k # "nl" /\ \A m \in o + 1 .. j - 1 : text[m].k = "nl"
          /\ in[1] = text[j]
    BY <1>3, <1>4, <1>7
  <2>2. j \in o + 1 .. Len(text) /\ text[j].k = "waiver" /\ b[1] = text[j]
    BY <1>4, <1>5, <1>7, <2>1
  <2>3. \A m \in o + 1 .. j : Modes(text)[m] # "code"
    BY <1>5, <2>1
  <2>4. QED
    BY <2>1, <2>2, <2>3 DEF WaiverAt
<1>8. QED
  BY <1>4, <1>6, <1>7 DEF b

(* cs are the values under C of the numbers of X, in order.                *)
Enumerates(cs, st, C, X) ==
  /\ st \in Seq(Nat) /\ Rising(st) /\ Len(cs) = Len(st)
  /\ \A m \in 1 .. Len(st) : cs[m] = C[st[m]]
  /\ \A o : (\E m \in 1 .. Len(st) : st[m] = o) <=> o \in X

Within(X, C, S) == {o \in X : C[o] \in S}

LEMMA SelectEnumerates ==
  ASSUME NEW T0, NEW cs \in Seq(T0), NEW st, NEW C, NEW X, Enumerates(cs, st, C, X), NEW S
  PROVE  /\ Select(cs, S) \in Seq(T0)
         /\ \E st2 : Enumerates(Select(cs, S), st2, C, Within(X, C, S))
<1> DEFINE out == Select(cs, S)
<1>1. out \in Seq(T0)
  BY SelectFacts
<1>2. PICK pos : Picks(pos, out, cs, S, Len(cs))
  BY SelectFacts
<1> HIDE DEF out
<1>3. /\ pos \in Seq(Nat) /\ Rising(pos) /\ Len(out) = Len(pos) /\ Len(pos) \in Nat
      /\ DOMAIN pos = 1 .. Len(pos)
      /\ \A i : (\E j \in 1 .. Len(pos) : pos[j] = i) <=> i \in 1 .. Len(cs) /\ cs[i] \in S
      /\ \A j \in 1 .. Len(pos) : out[j] = cs[pos[j]]
  BY <1>2 DEF Picks
<1>4. /\ st \in Seq(Nat) /\ Rising(st) /\ Len(cs) = Len(st) /\ DOMAIN st = 1 .. Len(st)
      /\ \A m \in 1 .. Len(st) : cs[m] = C[st[m]] /\ st[m] \in Nat
      /\ \A o : (\E m \in 1 .. Len(st) : st[m] = o) <=> o \in X
  BY DEF Enumerates
<1>5. \A j \in 1 .. Len(pos) : pos[j] \in 1 .. Len(st) /\ cs[pos[j]] \in S
  BY <1>3, <1>4
<1> DEFINE st2 == [j \in 1 .. Len(pos) |-> st[pos[j]]]
<1>6. st2 \in Seq(Nat) /\ Len(st2) = Len(pos) /\ DOMAIN st2 = 1 .. Len(pos)
      /\ \A j \in 1 .. Len(pos) : st2[j] = st[pos[j]]
  BY <1>3, <1>4, <1>5
<1> HIDE DEF st2
<1>7. Rising(st2)
  <2>1. ASSUME NEW a \in 1 .. Len(pos), NEW b \in 1 .. Len(pos), a < b
        PROVE  st2[a] < st2[b]
    <3>1. pos[a] < pos[b]
      BY <1>3, <2>1 DEF Rising
    <3>2. st[pos[a]] < st[pos[b]]
      BY <1>4, <1>5, <3>1 DEF Rising
    <3>3. QED
      BY <1>6, <3>2
  <2>2. QED
    BY <1>6, <2>1 DEF Rising
<1>8. \A j \in 1 .. Len(pos) : out[j] = C[st2[j]]
  BY <1>3, <1>4, <1>5, <1>6
<1>9. ASSUME NEW o
      PROVE  (\E j \in 1 .. Len(pos) : st2[j] = o) <=> o \in X /\ C[o] \in S
  <2>1. ASSUME NEW j \in 1 .. Len(pos), st2[j] = o PROVE o \in X /\ C[o] \in S
    BY <1>4, <1>5, <1>6, <2>1
  <2>2. ASSUME o \in X, C[o] \in S PROVE \E j \in 1 .. Len(pos) : st2[j] = o
    <3>1. PICK m \in 1 .. Len(st) : st[m] = o
      BY <1>4, <2>2
    <3>2. cs[m] \in S
      BY <1>4, <2>2, <3>1
    <3>3. PICK j \in 1 .. Len(pos) : pos[j] = m
      BY <1>3, <1>4, <3>2
    <3>4. QED
      BY <1>6, <3>1, <3>3
  <2>3. QED
    BY <2>1, <2>2
<1>10. Enumerates(out, st2, C, Within(X, C, S))
  BY <1>3, <1>6, <1>7, <1>8, <1>9 DEF Enumerates, Within
<1>11. QED
  BY <1>1, <1>10 DEF out

(* The comments of a text by where they open, and the waivers of a name.   *)
CommentAt(text) ==
  [o \in DOMAIN text |-> [line |-> LineAt(text, Modes(text), o),
                          body |-> Body(text, Modes(text), o)]]

LEMMA CommentsFacts ==
  ASSUME NEW text \in Seq(Token)
  PROVE  /\ comments(text) \in Seq({CommentAt(text)[o] : o \in DOMAIN text})
         /\ \E st : Enumerates(comments(text), st, CommentAt(text),
                               {o \in DOMAIN text : OpensAt(text, o)})
<1> DEFINE C == CommentAt(text)
           X == {o \in DOMAIN text : OpensAt(text, o)}
           st == Positions(text, X)
           cs == comments(text)
<1>1. X = {i \in DOMAIN text : Modes(text)[i] = "code" /\ text[i].k \in {"//", "/*"}}
  BY DEF OpensAt
<1>2. cs = [m \in DOMAIN st |-> [line |-> LineAt(text, Modes(text), st[m]),
                                 body |-> Body(text, Modes(text), st[m])]]
  BY <1>1 DEF comments
<1>3. /\ st \in Seq(Nat) /\ Rising(st)
      /\ \A i : (\E j \in 1 .. Len(st) : st[j] = i) <=> i \in X
  BY PositionsFacts
<1> HIDE DEF X, st, cs
<1>4. DOMAIN st = 1 .. Len(st) /\ Len(st) \in Nat /\ \A m \in 1 .. Len(st) : st[m] \in DOMAIN text
  <2>1. \A i \in X : i \in DOMAIN text
    BY DEF X
  <2>2. QED
    BY <1>3, <2>1
<1>5. cs = [m \in 1 .. Len(st) |-> C[st[m]]]
  BY <1>2, <1>4 DEF CommentAt
<1> HIDE DEF C
<1>6. cs \in Seq({C[o] : o \in DOMAIN text}) /\ Len(cs) = Len(st)
  BY <1>4, <1>5
<1>7. Enumerates(cs, st, C, X)
  BY <1>3, <1>5, <1>6 DEF Enumerates
<1>8. QED
  BY <1>6, <1>7 DEF C, X, cs

EventAt(text, name) ==
  {o \in DOMAIN text :
     /\ OpensAt(text, o) /\ IsWaiver(CommentAt(text)[o])
     /\ CommentAt(text)[o].body[1].name = name}

LEMMA EventsFacts ==
  ASSUME NEW text \in Seq(Token), NEW name
  PROVE  \E st : /\ Enumerates(Events(text, name), st, CommentAt(text), EventAt(text, name))
                 /\ DOMAIN Events(text, name) = 1 .. Len(st)
<1> DEFINE C  == CommentAt(text)
           T0 == {C[o] : o \in DOMAIN text}
           cs == comments(text)
           X1 == {o \in DOMAIN text : OpensAt(text, o)}
           S1 == {c \in ToSet(cs) : IsWaiver(c)}
           ws == Select(cs, S1)
           X2 == Within(X1, C, S1)
           S2 == {w \in ToSet(ws) : w.body[1].name = name}
           es == Select(ws, S2)
           X3 == Within(X2, C, S2)
<1>1. waivers(text) = ws /\ Events(text, name) = es
  BY DEF waivers, Events
<1>2. cs \in Seq(T0) /\ \E st : Enumerates(cs, st, C, X1)
  BY CommentsFacts
<1> HIDE DEF C, T0, cs, X1
<1>3. PICK st1 : Enumerates(cs, st1, C, X1)
  BY <1>2
<1>4. ws \in Seq(T0) /\ \E st : Enumerates(ws, st, C, X2)
  <2> HIDE DEF S1
  <2> QED  BY <1>2, <1>3, SelectEnumerates, Zenon
<1>5. \A o \in X1 : C[o] \in ToSet(cs)
  <2>1. DOMAIN cs = 1 .. Len(st1)
    BY <1>2, <1>3 DEF Enumerates
  <2>2. QED
    <3>1. ASSUME NEW o \in X1 PROVE C[o] \in ToSet(cs)
      <4>1. PICK m \in 1 .. Len(st1) : st1[m] = o
        BY <1>3 DEF Enumerates
      <4>2. cs[m] = C[o]
        BY <1>3, <4>1 DEF Enumerates
      <4>3. QED
        BY <2>1, <4>2 DEF ToSet
    <3>2. QED
      BY <3>1
<1>6. X2 = {o \in X1 : IsWaiver(C[o])}
  BY <1>5 DEF Within
<1> HIDE DEF ws, X2
<1>7. PICK st2 : Enumerates(ws, st2, C, X2)
  BY <1>4
<1>8. es \in Seq(T0) /\ \E st : Enumerates(es, st, C, X3)
  <2> HIDE DEF S2
  <2> QED  BY <1>4, <1>7, SelectEnumerates, Zenon
<1>9. \A o \in X2 : C[o] \in ToSet(ws)
  <2>1. DOMAIN ws = 1 .. Len(st2)
    BY <1>4, <1>7 DEF Enumerates
  <2>2. QED
    <3>1. ASSUME NEW o \in X2 PROVE C[o] \in ToSet(ws)
      <4>1. PICK m \in 1 .. Len(st2) : st2[m] = o
        BY <1>7 DEF Enumerates
      <4>2. ws[m] = C[o]
        BY <1>7, <4>1 DEF Enumerates
      <4>3. QED
        BY <2>1, <4>2 DEF ToSet
    <3>2. QED
      BY <3>1
<1>10. X3 = {o \in X2 : C[o].body[1].name = name}
  BY <1>9 DEF Within
<1> HIDE DEF X3, es
<1>11. X3 = EventAt(text, name)
  BY <1>6, <1>10 DEF X1, C, EventAt
<1>12. PICK st3 : Enumerates(es, st3, C, X3)
  BY <1>8
<1>13. DOMAIN es = 1 .. Len(st3)
  <2>1. Len(es) = Len(st3)
    BY <1>12 DEF Enumerates
  <2>2. QED
    BY <1>8, <2>1
<1>14. QED
  <2>1. Enumerates(Events(text, name), st3, C, EventAt(text, name))
    BY <1>1, <1>11, <1>12
  <2>2. DOMAIN Events(text, name) = 1 .. Len(st3)
    BY <1>1, <1>13
  <2>3. QED
    BY <2>1, <2>2 DEF C

LEMMA WaiverIsEvent ==
  ASSUME NEW text \in Seq(Token), forbidden(text) = {}, NEW o, NEW j, WaiverAt(text, o, j)
  PROVE  /\ o \in EventAt(text, text[j].name)
         /\ CommentAt(text)[o].body[1] = text[j]
<1> DEFINE C == CommentAt(text)
           b == Body(text, Modes(text), o)
<1>1. OpensAt(text, o) /\ o \in DOMAIN text /\ text[j].k = "waiver"
  BY DEF WaiverAt, OpensAt
<1>2. C[o].body = b
  BY <1>1 DEF CommentAt
<1>3. b # << >> /\ b[1] = text[j]
  BY <1>1, BodyOpens
<1>4. C[o] \in ToSet(comments(text))
  <2>1. PICK st : Enumerates(comments(text), st, C, {q \in DOMAIN text : OpensAt(text, q)})
    BY CommentsFacts
  <2>2. comments(text) \in Seq({C[q] : q \in DOMAIN text})
    BY CommentsFacts
  <2> DEFINE cs == comments(text)
  <2> HIDE DEF C, cs
  <2>3. PICK m \in 1 .. Len(st) : st[m] = o
    BY <1>1, <2>1 DEF Enumerates
  <2>4. cs[m] = C[o] /\ Len(cs) = Len(st)
    BY <2>1, <2>3 DEF Enumerates, cs
  <2>5. m \in DOMAIN cs
    <3>1. cs \in Seq({C[q] : q \in DOMAIN text})
      BY <2>2 DEF cs
    <3>2. DOMAIN cs = 1 .. Len(cs)
      BY <3>1
    <3>3. QED
      BY <2>3, <2>4, <3>2
  <2>6. QED
    BY <2>4, <2>5 DEF ToSet, cs
<1> HIDE DEF C, b
<1>5. IsDirective(C[o])
  BY <1>1, <1>2, <1>3 DEF IsDirective
<1>6. IsWaiver(C[o])
  BY <1>4, <1>5 DEF forbidden
<1>7. QED
  BY <1>1, <1>2, <1>3, <1>6 DEF EventAt, C

LEMMA EventIsWaiver ==
  ASSUME NEW text \in Seq(Token), NEW name, NEW o \in EventAt(text, name)
  PROVE  \E j : /\ WaiverAt(text, o, j) /\ text[j].name = name
                /\ CommentAt(text)[o].body[1] = text[j]
<1> DEFINE b == Body(text, Modes(text), o)
<1>1. OpensAt(text, o) /\ o \in DOMAIN text
  BY DEF EventAt
<1>2. CommentAt(text)[o].body = b
  BY <1>1 DEF CommentAt
<1> HIDE DEF b
<1>3. Len(b) = 1 /\ b[1].k = "waiver" /\ b[1].name = name
  BY <1>2 DEF EventAt, IsWaiver
<1>4. b # << >>
  <2>1. CASE b = << >>
    <3>1. Len(b) = 0
      BY <2>1
    <3>2. QED
      BY <1>3, <3>1
  <2>2. QED
    BY <2>1
<1>5. PICK j : WaiverAt(text, o, j) /\ b[1] = text[j]
  BY <1>1, <1>3, <1>4, BodyOpens DEF b
<1>6. QED
  BY <1>2, <1>3, <1>5

(* Comments do not overlap. *)
LEMMA WaiversApart ==
  ASSUME NEW text \in Seq(Token), NEW o, NEW j, WaiverAt(text, o, j),
         NEW q, NEW z, WaiverAt(text, q, z)
  PROVE  /\ o = q => j = z
         /\ o < q => j < q
<1>1. /\ o \in Nat /\ q \in Nat /\ Len(text) \in Nat
      /\ j \in o + 1 .. Len(text) /\ z \in q + 1 .. Len(text)
      /\ text[j].k = "waiver" /\ text[z].k = "waiver"
      /\ Modes(text)[q] = "code"
      /\ \A m \in o + 1 .. j : Modes(text)[m] # "code"
      /\ \A m \in o + 1 .. j - 1 : text[m].k = "nl"
      /\ \A m \in q + 1 .. z - 1 : text[m].k = "nl"
  BY DEF WaiverAt, OpensAt
<1>2. ASSUME o = q PROVE j = z
  <2>1. ~ (j < z)
    <3>1. SUFFICES ASSUME j < z PROVE FALSE
      OBVIOUS
    <3>2. j \in q + 1 .. z - 1
      BY <1>1, <1>2, <3>1
    <3>3. QED
      BY <1>1, <3>2
  <2>2. ~ (z < j)
    <3>1. SUFFICES ASSUME z < j PROVE FALSE
      OBVIOUS
    <3>2. z \in o + 1 .. j - 1
      BY <1>1, <1>2, <3>1
    <3>3. QED
      BY <1>1, <3>2
  <2>3. QED
    BY <1>1, <2>1, <2>2
<1>3. ASSUME o < q PROVE j < q
  <2>1. q \notin o + 1 .. j
    BY <1>1
  <2>2. QED
    BY <1>1, <1>3, <2>1
<1>4. QED
  BY <1>2, <1>3

(* A warning that is off at i is off since an odd waiver of its name, and  *)
(* the next one comes after i.                                             *)
LEMMA OffIsOpen ==
  ASSUME NEW text \in Seq(Token), forbidden(text) = {}, NEW name,
         NEW st, Enumerates(Events(text, name), st, CommentAt(text), EventAt(text, name)),
         Alternates(Events(text, name)), DOMAIN Events(text, name) = 1 .. Len(st),
         NEW i \in 0 .. Len(text), LintIsOff(text, Modes(text), name, i)
  PROVE  \E k \in 1 .. Len(st) - 1 :
           /\ k % 2 = 1
           /\ \E j : WaiverAt(text, st[k], j) /\ j <= i
           /\ \E z : WaiverAt(text, st[k + 1], z) /\ i < z
<1> DEFINE M == Modes(text)
           E == Events(text, name)
           n == Len(st)
           before == {j \in 1 .. i : /\ text[j].name = name
                                     /\ \E o : WaiverAt(text, o, j)}
<1>1. /\ st \in Seq(Nat) /\ n \in Nat /\ Rising(st) /\ Len(E) = n /\ DOMAIN st = 1 .. n
      /\ \A m \in 1 .. n : E[m] = CommentAt(text)[st[m]] /\ st[m] \in Nat
      /\ \A o : (\E m \in 1 .. n : st[m] = o) <=> o \in EventAt(text, name)
  BY DEF Enumerates
<1>2. n % 2 = 0 /\ \A m \in 1 .. n : E[m].body[1].off <=> m % 2 = 1
  BY <1>1 DEF Alternates
<1> HIDE DEF E
<1>3. before # {} /\ text[Max(before)].off
  <2>1. before = {j \in 1 .. i :
                   /\ text[j].k = "waiver" /\ text[j].name = name
                   /\ \E o \in 1 .. j - 1 :
                        /\ M[o] = "code" /\ text[o].k \in {"//", "/*"}
                        /\ \A m \in o + 1 .. j : M[m] # "code"
                        /\ \A m \in o + 1 .. j - 1 : text[m].k = "nl"}
    <3>1. ASSUME NEW j \in 1 .. i
          PROVE  (\E o : WaiverAt(text, o, j)) <=>
                   /\ text[j].k = "waiver"
                   /\ \E o \in 1 .. j - 1 :
                        /\ M[o] = "code" /\ text[o].k \in {"//", "/*"}
                        /\ \A m \in o + 1 .. j : M[m] # "code"
                        /\ \A m \in o + 1 .. j - 1 : text[m].k = "nl"
      <4>1. j \in Nat /\ Len(text) \in Nat /\ j <= Len(text) /\ DOMAIN text = 1 .. Len(text)
        OBVIOUS
      <4>2. \A o : o \in 1 .. j - 1 <=> o \in DOMAIN text /\ j \in o + 1 .. Len(text)
        BY <4>1
      <4>3. QED
        BY <4>2 DEF WaiverAt, OpensAt
    <3>2. QED
      BY <3>1
  <2>2. QED
    BY <2>1 DEF LintIsOff
<1> DEFINE j == Max(before)
<1>4. j \in before /\ \A y \in before : y <= j
  <2>1. before \in SUBSET (0 .. i) /\ i \in Nat
    BY DEF before
  <2> HIDE DEF before
  <2>2. QED
    BY <1>3, <2>1, GreatestNumber
<1> HIDE DEF j
<1>5. j \in 1 .. i /\ text[j].name = name /\ text[j].off
  BY <1>3, <1>4 DEF j
<1>6. PICK o : WaiverAt(text, o, j)
  BY <1>4
<1>7. o \in EventAt(text, name) /\ CommentAt(text)[o].body[1] = text[j]
  BY <1>5, <1>6, WaiverIsEvent
<1>8. PICK k \in 1 .. n : st[k] = o
  BY <1>1, <1>7
<1>9. k % 2 = 1
  BY <1>1, <1>2, <1>5, <1>7, <1>8
<1>10. k \in 1 .. n - 1 /\ k + 1 \in 1 .. n
  BY <1>1, <1>2, <1>9
<1>11. st[k + 1] \in EventAt(text, name) /\ st[k] < st[k + 1]
  <2>1. st[k + 1] \in EventAt(text, name)
    BY <1>1, <1>10
  <2>2. k \in DOMAIN st /\ k + 1 \in DOMAIN st /\ k < k + 1
    BY <1>1, <1>10
  <2>3. QED
    BY <1>1, <2>1, <2>2 DEF Rising
<1>12. PICK z : WaiverAt(text, st[k + 1], z) /\ text[z].name = name
  BY <1>11, EventIsWaiver
<1>13. z \in st[k + 1] + 1 .. Len(text) /\ st[k + 1] \in Nat /\ Len(text) \in Nat
  BY <1>1, <1>10, <1>12 DEF WaiverAt
<1>14. j < z
  <2>1. j < st[k + 1]
    BY <1>6, <1>8, <1>11, <1>12, WaiversApart
  <2>2. QED
    BY <1>5, <1>13, <2>1
<1>15. i < z
  <2>1. ASSUME z <= i PROVE FALSE
    <3>1. z \in before
      BY <1>12, <1>13, <2>1
    <3>2. z <= j
      BY <1>4, <3>1
    <3>3. QED
      BY <1>5, <1>13, <1>14, <3>2
  <2>2. QED
    BY <1>13, <2>1
<1>16. WaiverAt(text, st[k], j) /\ j <= i
  BY <1>5, <1>6, <1>8
<1>17. (\E y : WaiverAt(text, st[k], y) /\ y <= i) /\ (\E y : WaiverAt(text, st[k + 1], y) /\ i < y)
  BY <1>12, <1>15, <1>16, Zenon
<1>18. k \in 1 .. Len(st) - 1 /\ k % 2 = 1
  BY <1>9, <1>10
<1>19. QED
  BY <1>17, <1>18, Zenon

(* The lines of a text: both scanners count the ends of lines before i.    *)
Before(text, i) == {m \in 1 .. i - 1 : text[m].k = "nl"}

LEMMA LineOf ==
  ASSUME NEW text \in Seq(Token), NEW i \in DOMAIN text
  PROVE  PhysicalLine(text, i) = 1 + Cardinality(Before(text, i))
<1> DEFINE s == SubSeq(text, 1, i - 1)
<1>1. i \in Nat /\ Len(text) \in Nat /\ 1 <= i /\ i <= Len(text)
  OBVIOUS
<1>2. DOMAIN s = 1 .. i - 1 /\ \A m \in 1 .. i - 1 : s[m] = text[m]
  BY <1>1
<1> HIDE DEF s
<1>3. {m \in DOMAIN s : s[m].k = "nl"} = Before(text, i)
  BY <1>2 DEF Before
<1>4. QED
  BY <1>3 DEF PhysicalLine, LineCount, s

LEMMA CommentLine ==
  ASSUME NEW text \in Seq(Token), StringsClose(text), NEW o \in DOMAIN text
  PROVE  CommentAt(text)[o].line = PhysicalLine(text, o)
<1> DEFINE M == Modes(text)
           A == {j \in 1 .. o - 1 : text[j].k = "nl" /\ M[j] \in {"code", "line", "block"}}
<1>1. /\ M \in Seq(ModeSet) /\ Len(M) = Len(text) + 1
      /\ o \in 1 .. Len(text) /\ Len(text) \in Nat
  BY ModesFacts
<1>2. ASSUME NEW j \in 1 .. o - 1, text[j].k = "nl" PROVE M[j] \in {"code", "line", "block"}
  <2>1. M[j] \in ModeSet /\ j \in DOMAIN text
    BY <1>1
  <2>2. M[j] \notin {"string", "escape"}
    BY <1>2, <2>1 DEF StringsClose
  <2>3. QED
    BY <2>1, <2>2 DEF ModeSet
<1>3. A = Before(text, o)
  BY <1>2 DEF Before
<1>4. CommentAt(text)[o].line = 1 + Cardinality(A)
  BY DEF CommentAt, LineAt
<1>5. QED
  BY <1>3, <1>4, LineOf

LEMMA LinesRise ==
  ASSUME NEW text \in Seq(Token), NEW i \in DOMAIN text, NEW q \in DOMAIN text, i <= q
  PROVE  PhysicalLine(text, i) \in Nat /\ PhysicalLine(text, i) <= PhysicalLine(text, q)
<1> DEFINE A == Before(text, i)
           B == Before(text, q)
<1>1. i \in Nat /\ q \in Nat
  OBVIOUS
<1>2. A \subseteq B /\ A \subseteq 1 .. i /\ B \subseteq 1 .. q
  BY <1>1 DEF Before
<1>3. IsFiniteSet(1 .. i) /\ IsFiniteSet(1 .. q)
  BY <1>1, FS_Interval
<1>4. PhysicalLine(text, i) = 1 + Cardinality(A) /\ PhysicalLine(text, q) = 1 + Cardinality(B)
  BY LineOf
<1> HIDE DEF A, B
<1>5. IsFiniteSet(A) /\ IsFiniteSet(B) /\ Cardinality(A) <= Cardinality(B)
  BY <1>2, <1>3, FS_Subset
<1>6. Cardinality(A) \in Nat /\ Cardinality(B) \in Nat
  BY <1>5, FS_CardinalityType
<1>7. QED
  BY <1>4, <1>5, <1>6

(* Waivers that alternate are closed at the end of the text, and where     *)
(* their lines are simulation-only, so is what they cover.                 *)
LEMMA WaiversClose ==
  ASSUME NEW text \in Seq(Token), forbidden(text) = {}, NEW name,
         Alternates(Events(text, name))
  PROVE  ~ LintIsOff(text, Modes(text), name, Len(text))
<1>1. PICK st : /\ Enumerates(Events(text, name), st, CommentAt(text), EventAt(text, name))
                /\ DOMAIN Events(text, name) = 1 .. Len(st)
  BY EventsFacts
<1>2. Len(text) \in 0 .. Len(text)
  OBVIOUS
<1>3. ASSUME LintIsOff(text, Modes(text), name, Len(text)) PROVE FALSE
  <2>1. \E k \in 1 .. Len(st) - 1 : \E z : WaiverAt(text, st[k + 1], z) /\ Len(text) < z
    BY <1>1, <1>2, <1>3, OffIsOpen
  <2>2. PICK o, z : WaiverAt(text, o, z) /\ Len(text) < z
    BY <2>1
  <2>3. QED
    BY <2>2 DEF WaiverAt, OpensAt
<1>4. QED
  BY <1>3

LEMMA CoveredIsSimulation ==
  ASSUME NEW text \in Seq(Token), forbidden(text) = {}, StringsClose(text), NEW name,
         Alternates(Events(text, name)), NEW known, ~ Refused(text, known),
         \A k \in 1 .. Len(Events(text, name)) \div 2 :
           Events(text, name)[2 * k - 1].line .. Events(text, name)[2 * k].line
             \subseteq ToSet(sim_only_lines(text, known)),
         NEW i \in DOMAIN text, Kept(text, Modes(text), i), text[i].k \notin {"nl", "dir"},
         LintIsOff(text, Modes(text), name, i)
  PROVE  ~ Compiled(LinesOf(text), PhysicalLine(text, i), "syn")
<1> DEFINE E == Events(text, name)
<1>1. PICK st : /\ Enumerates(E, st, CommentAt(text), EventAt(text, name))
                /\ DOMAIN E = 1 .. Len(st)
  BY EventsFacts
<1>2. i \in 0 .. Len(text) /\ i \in Nat /\ Len(text) \in Nat
  OBVIOUS
<1>3. PICK k \in 1 .. Len(st) - 1 :
        /\ k % 2 = 1
        /\ \E j : WaiverAt(text, st[k], j) /\ j <= i
        /\ \E z : WaiverAt(text, st[k + 1], z) /\ i < z
  BY <1>1, <1>2, OffIsOpen
<1>4. PICK j : WaiverAt(text, st[k], j) /\ j <= i
  BY <1>3
<1>5. PICK z : WaiverAt(text, st[k + 1], z) /\ i < z
  BY <1>3
<1> DEFINE o == st[k]
           c == st[k + 1]
<1>6. o \in DOMAIN text /\ c \in DOMAIN text /\ o \in Nat /\ c \in Nat
      /\ j \in o + 1 .. Len(text) /\ z \in c + 1 .. Len(text)
      /\ \A m \in c + 1 .. z : Modes(text)[m] # "code"
  BY <1>4, <1>5 DEF WaiverAt, OpensAt
<1> HIDE DEF o, c
<1>7. Modes(text)[i] = "code"
  BY DEF Kept
<1>8. o <= i /\ i <= c
  <2>1. i \notin c + 1 .. z
    BY <1>6, <1>7
  <2>2. QED
    BY <1>2, <1>4, <1>5, <1>6, <2>1
<1> DEFINE p == PhysicalLine(text, i)
           first == PhysicalLine(text, o)
           final == PhysicalLine(text, c)
<1>9. p \in Nat /\ first \in Nat /\ final \in Nat /\ first <= p /\ p <= final
  BY <1>6, <1>8, LinesRise
<1>10. Len(E) = Len(st) /\ Len(st) \in Nat
       /\ E[k].line = first /\ E[k + 1].line = final
  <2>1. /\ st \in Seq(Nat) /\ Len(E) = Len(st)
        /\ \A m \in 1 .. Len(st) : E[m] = CommentAt(text)[st[m]]
    BY <1>1 DEF Enumerates
  <2>2. k \in 1 .. Len(st) /\ k + 1 \in 1 .. Len(st)
    BY <2>1
  <2> HIDE DEF E
  <2>3. E[k] = CommentAt(text)[o] /\ E[k + 1] = CommentAt(text)[c]
    BY <2>1, <2>2 DEF o, c
  <2>4. CommentAt(text)[o].line = first /\ CommentAt(text)[c].line = final
    BY <1>6, CommentLine
  <2>5. E[k].line = first /\ E[k + 1].line = final
    BY <2>3, <2>4, Zenon
  <2>6. QED
    BY <2>1, <2>5
<1> HIDE DEF E, p, first, final
<1>11. PICK q \in 1 .. Len(E) \div 2 : 2 * q - 1 = k /\ 2 * q = k + 1
  <2> DEFINE q0 == (k + 1) \div 2
  <2>1. q0 \in 1 .. Len(E) \div 2 /\ 2 * q0 - 1 = k /\ 2 * q0 = k + 1
    BY <1>3, <1>10
  <2>2. QED
    BY <2>1
<1>12. p \in ToSet(sim_only_lines(text, known))
  <2>1. E[2 * q - 1].line .. E[2 * q].line \subseteq ToSet(sim_only_lines(text, known))
    BY <1>11 DEF E
  <2>2. p \in E[2 * q - 1].line .. E[2 * q].line
    BY <1>9, <1>10, <1>11
  <2>3. QED
    BY <2>1, <2>2
<1>13. p \in SimulationOnly(LinesOf(text))
  <2>1. FirstTokens(text) \in Seq(LineToken)
    BY FirstTokensType
  <2>2. QED
    BY <1>12, <2>1, SimOnlyLines DEF LinesOf
<1>14. QED
  BY <1>13 DEF SimulationOnly, p

-----------------------------------------------------------------------------
(* The state: every RTL file stays a text, whatever the developer does,    *)
(* and the run of mutate_l0.py knows what the tree it saw was worth.       *)
RunType == [next : 0 .. Len(MUTANTS) + 1, ok_all : BOOLEAN, disturbed : BOOLEAN,
            verdict : {"none", "PASS", "FAIL"}]

Texts == \A rel \in RtlFiles : rel \in DOMAIN tree /\ tree[rel] \in Seq(Token)

Typed ==
  /\ Texts
  /\ edits \in 0 .. MaxEdits
  /\ run \in RunType

(* What an undisturbed run has established so far.                         *)
Established ==
  /\ ~ run.disturbed /\ run.next > 0 /\ run.ok_all =>
       /\ L0Fails(tree, Pinned) = {}
       /\ \A i \in 1 .. run.next - 1 : Caught(tree, MUTANTS[i])
  /\ run.verdict = "PASS" => run.next = Len(MUTANTS) + 1 /\ run.ok_all

LEMMA MutantCount == Len(MUTANTS) \in Nat /\ DOMAIN MUTANTS = 1 .. Len(MUTANTS)
BY DEF MUTANTS

LEMMA TypedInit == Init => Typed
<1> SUFFICES ASSUME Init PROVE Typed
  OBVIOUS
<1>1. Texts
  BY MutateL0Assumption DEF Init, Texts
<1>2. edits \in 0 .. MaxEdits /\ run \in RunType
  BY MutateL0Assumption, MutantCount DEF Init, RunType
<1>3. QED
  BY <1>1, <1>2 DEF Typed

LEMMA TypedNext == Typed /\ [Next]_vars => Typed'
<1> SUFFICES ASSUME Typed, [Next]_vars PROVE Typed'
  OBVIOUS
<1>1. /\ DOMAIN run = {"next", "ok_all", "disturbed", "verdict"}
      /\ run.next \in 0 .. Len(MUTANTS) + 1 /\ run.ok_all \in BOOLEAN
      /\ run.disturbed \in BOOLEAN /\ run.verdict \in {"none", "PASS", "FAIL"}
  BY DEF Typed, RunType
<1>2. CASE Edit
  <2>1. edits' \in 0 .. MaxEdits
    <3>1. edits < MaxEdits
      BY <1>2, MutateL0Assumption DEF Edit, Typed
    <3>2. QED
      BY <1>2, <3>1, MutateL0Assumption DEF Edit, Typed
  <2>2. run' \in RunType
    BY <1>1, <1>2 DEF Edit, RunType, Typed
  <2>0. PICK path \in EditedFiles : \E i \in {0} \cup LineEnds(tree[path]) :
          \/ \E line \in EditLines :
               tree' = [tree EXCEPT ![path] =
                          SubSeq(@, 1, i) \o line \o SubSeq(@, i + 1, Len(@))]
          \/ \E j \in LineEnds(tree[path]) :
               tree' = [tree EXCEPT ![path] =
                          SubSeq(@, 1, i) \o SubSeq(@, j + 1, Len(@))]
    BY <1>2 DEF Edit
  <2>3. PICK i \in {0} \cup LineEnds(tree[path]) :
          \/ \E line \in EditLines :
               tree' = [tree EXCEPT ![path] =
                          SubSeq(@, 1, i) \o line \o SubSeq(@, i + 1, Len(@))]
          \/ \E j \in LineEnds(tree[path]) :
               tree' = [tree EXCEPT ![path] =
                          SubSeq(@, 1, i) \o SubSeq(@, j + 1, Len(@))]
    BY <2>0
  <2> DEFINE text == tree[path]
  <2>4. path \in RtlFiles /\ path \in DOMAIN tree /\ text \in Seq(Token)
    BY MutateL0Assumption DEF Typed, Texts
  <2>5. /\ Len(text) \in Nat /\ LineEnds(text) \subseteq 1 .. Len(text)
        /\ \A m \in 1 .. Len(text) : text[m] \in Token
    BY <2>4 DEF LineEnds
  <2> HIDE DEF text
  <2>6. \A m \in 0 .. Len(text) : SubSeq(text, 1, m) \in Seq(Token)
    <3>1. ASSUME NEW m \in 0 .. Len(text) PROVE SubSeq(text, 1, m) \in Seq(Token)
      <4>1. m \in Int /\ \A z \in 1 .. m : text[z] \in Token
        BY <2>5
      <4>2. QED
        BY <4>1, SubSeqProperties
    <3>2. QED
      BY <3>1
  <2>7. \A m \in 0 .. Len(text) : SubSeq(text, m + 1, Len(text)) \in Seq(Token)
    <3>1. ASSUME NEW m \in 0 .. Len(text) PROVE SubSeq(text, m + 1, Len(text)) \in Seq(Token)
      <4> DEFINE b == m + 1  e == Len(text)
      <4>1. b \in Int /\ e \in Int /\ \A z \in b .. e : text[z] \in Token
        BY <2>5
      <4> HIDE DEF b, e
      <4>2. SubSeq(text, b, e) \in Seq(Token)
        BY <4>1, SubSeqProperties
      <4>3. QED
        BY <4>2 DEF b, e
    <3>2. QED
      BY <3>1
  <2>8. i \in 0 .. Len(text) /\ LineEnds(text) \subseteq 0 .. Len(text)
    BY <2>5 DEF text
  <2>9. \A line \in EditLines : line \in Seq(Token)
    BY MutateL0Assumption
  <2>10. PICK new \in Seq(Token) : tree' = [tree EXCEPT ![path] = new]
    <3>1. CASE \E line \in EditLines :
                 tree' = [tree EXCEPT ![path] =
                            SubSeq(@, 1, i) \o line \o SubSeq(@, i + 1, Len(@))]
      <4>1. PICK line \in EditLines :
              tree' = [tree EXCEPT ![path] =
                         SubSeq(text, 1, i) \o line \o SubSeq(text, i + 1, Len(text))]
        BY <3>1 DEF text
      <4> DEFINE a == SubSeq(text, 1, i)  b == SubSeq(text, i + 1, Len(text))
      <4>2. a \in Seq(Token) /\ b \in Seq(Token) /\ line \in Seq(Token)
        BY <2>6, <2>7, <2>8, <2>9
      <4> HIDE DEF a, b
      <4>3. a \o line \o b \in Seq(Token)
        BY <4>2
      <4>4. QED
        BY <4>1, <4>3 DEF a, b
    <3>2. CASE \E j \in LineEnds(tree[path]) :
                 tree' = [tree EXCEPT ![path] =
                            SubSeq(@, 1, i) \o SubSeq(@, j + 1, Len(@))]
      <4>1. PICK j \in LineEnds(text) :
              tree' = [tree EXCEPT ![path] =
                         SubSeq(text, 1, i) \o SubSeq(text, j + 1, Len(text))]
        BY <3>2 DEF text
      <4> DEFINE a == SubSeq(text, 1, i)  b == SubSeq(text, j + 1, Len(text))
      <4>2. a \in Seq(Token) /\ b \in Seq(Token)
        BY <2>6, <2>7, <2>8
      <4> HIDE DEF a, b
      <4>3. a \o b \in Seq(Token)
        BY <4>2
      <4>4. QED
        BY <4>1, <4>3 DEF a, b
    <3>3. QED
      BY <2>3, <3>1, <3>2
  <2>11. Texts'
    <3>1. DOMAIN tree' = DOMAIN tree /\ tree'[path] = new
      BY <2>4, <2>10
    <3>2. \A rel \in DOMAIN tree : rel # path => tree'[rel] = tree[rel]
      BY <2>10
    <3>3. QED
      BY <3>1, <3>2 DEF Typed, Texts
  <2>12. QED
    BY <2>1, <2>2, <2>11 DEF Typed
<1>3. CASE Baseline
  <2>1. (L0Fails(tree, Pinned) = {}) \in BOOLEAN
    OBVIOUS
  <2>2. run' \in RunType
    BY <1>3, <2>1, MutantCount DEF Baseline, RunType
  <2>3. QED
    BY <1>3, <2>2 DEF Baseline, Typed, Texts
<1>4. CASE RunMutant
  <2>1. Caught(tree, MUTANTS[run.next]) \in BOOLEAN
    BY DEF Caught
  <2>2. run.next + 1 \in 0 .. Len(MUTANTS) + 1
    BY <1>1, <1>4, MutantCount DEF RunMutant
  <2>3. run' \in RunType
    <3> DEFINE c == Caught(tree, MUTANTS[run.next])  n == run.next + 1
    <3>1. run' = [run EXCEPT !.next = n, !.ok_all = run.ok_all /\ c]
      BY <1>4 DEF RunMutant
    <3> HIDE DEF c, n
    <3>2. n \in 0 .. Len(MUTANTS) + 1 /\ (run.ok_all /\ c) \in BOOLEAN
      BY <2>2 DEF n
    <3>3. QED
      BY <1>1, <3>1, <3>2 DEF RunType, Typed
  <2>4. QED
    BY <1>4, <2>3 DEF RunMutant, Typed, Texts
<1>5. CASE Summary
  <2>1. run' \in RunType
    BY <1>1, <1>5 DEF Summary, RunType, Typed
  <2>2. QED
    BY <1>5, <2>1 DEF Summary, Typed, Texts
<1>6. CASE UNCHANGED vars
  BY <1>6 DEF vars, Typed, Texts
<1>7. QED
  BY <1>2, <1>3, <1>4, <1>5, <1>6 DEF Next
LEMMA EstablishedNext == Typed /\ Established /\ [Next]_vars => Established'
<1> SUFFICES ASSUME Typed, Established, [Next]_vars PROVE Established'
  OBVIOUS
<1>1. /\ DOMAIN run = {"next", "ok_all", "disturbed", "verdict"}
      /\ run.next \in Nat /\ run.disturbed \in BOOLEAN
      /\ run.ok_all \in BOOLEAN
  BY MutantCount DEF Typed, RunType
<1>2. CASE Edit
  <2>1. /\ run'.next = run.next /\ run'.ok_all = run.ok_all
        /\ run'.verdict = run.verdict /\ run'.disturbed = (run.next # 0)
    BY <1>1, <1>2 DEF Edit
  <2>2. QED
    BY <1>1, <2>1 DEF Established
<1>3. CASE Baseline
  <2>1. /\ run'.next = 1 /\ run'.ok_all = (L0Fails(tree, Pinned) = {})
        /\ run'.verdict = "none" /\ tree' = tree
    BY <1>3 DEF Baseline
  <2>2. 1 .. run'.next - 1 = {}
    BY <2>1
  <2>3. QED
    BY <2>1, <2>2 DEF Established
<1>4. CASE RunMutant
  <2> DEFINE k == run.next
  <2>1. /\ run'.next = k + 1 /\ run'.ok_all = (run.ok_all /\ Caught(tree, MUTANTS[k]))
        /\ run'.verdict = run.verdict /\ run.verdict = "none"
        /\ run'.disturbed = run.disturbed /\ tree' = tree /\ k \in DOMAIN MUTANTS
    BY <1>1, <1>4 DEF RunMutant
  <2>2. k \in Nat /\ k > 0 /\ \A i : i \in 1 .. k + 1 - 1 <=> i \in 1 .. k - 1 \/ i = k
    BY <2>1, MutantCount
  <2> HIDE DEF k
  <2>3. ~ run'.disturbed /\ run'.next > 0 /\ run'.ok_all =>
          /\ L0Fails(tree, Pinned) = {}
          /\ \A i \in 1 .. run'.next - 1 : Caught(tree, MUTANTS[i])
    <3> DEFINE n == run'.next
    <3>0. n = k + 1
      BY <2>1
    <3> HIDE DEF n
    <3>00. 1 .. n - 1 = 1 .. k + 1 - 1
      BY <2>2, <3>0
    <3>1. SUFFICES ASSUME ~ run'.disturbed, run'.ok_all
                   PROVE  /\ L0Fails(tree, Pinned) = {}
                          /\ \A i \in 1 .. k + 1 - 1 : Caught(tree, MUTANTS[i])
      BY <3>00, Zenon DEF n
    <3>2. ~ run.disturbed /\ run.ok_all /\ Caught(tree, MUTANTS[k])
      BY <2>1, <3>1
    <3>3. /\ L0Fails(tree, Pinned) = {}
          /\ \A i \in 1 .. k - 1 : Caught(tree, MUTANTS[i])
      BY <2>2, <3>2 DEF Established, k
    <3>4. QED
      BY <2>2, <3>2, <3>3
  <2>4. QED
    BY <2>1, <2>3 DEF Established
<1>5. CASE Summary
  <2>1. /\ run'.next = run.next /\ run'.ok_all = run.ok_all
        /\ run'.disturbed = run.disturbed /\ tree' = tree
        /\ run.next = Len(MUTANTS) + 1
        /\ run'.verdict = "PASS" => run.ok_all
    BY <1>1, <1>5 DEF Summary
  <2>2. QED
    BY <2>1 DEF Established
<1>6. CASE UNCHANGED vars
  BY <1>6 DEF vars, Established
<1>7. QED
  BY <1>2, <1>3, <1>4, <1>5, <1>6 DEF Next

LEMMA StateInvariant == Spec => [](Typed /\ Established)
<1>1. Init => Typed /\ Established
  <2>1. Init => Established
    BY DEF Init, Established
  <2>2. QED
    BY <2>1, TypedInit
<1>2. (Typed /\ Established) /\ [Next]_vars => (Typed /\ Established)'
  BY TypedNext, EstablishedNext
<1>3. QED
  BY <1>1, <1>2, PTL DEF Spec

(* The type of the state. *)
THEOREM MutateTypeIsOK == Spec => []MutateTypeOK
<1>1. Typed => MutateTypeOK
  BY DEF Typed, Texts, RunType, MutateTypeOK
<1>2. QED
  BY <1>1, StateInvariant, PTL

(* For every text of every RTL file, whatever the developer adds or        *)
(* removes: gen_cov_vlt.py refuses exactly what it must and otherwise      *)
(* excludes exactly the simulation-only lines, in ranges with gaps.        *)
THEOREM ExcludesExactlyTheRule == Spec => []ExcludesTheRule
<1>1. Typed => ExcludesTheRule
  <2>1. SUFFICES ASSUME Typed, NEW rel \in EditedFiles
                 PROVE  LET text == tree[rel]  lines == LinesOf(text)
                            ranges == runs(sim_only_lines(text, KNOWN)) IN
                        /\ Refused(text, KNOWN) <=> MustRefuse(lines)
                        /\ ~ MustRefuse(lines) =>
                             /\ UNION {r[1] .. r[2] : r \in ToSet(ranges)} = SimulationOnly(lines)
                             /\ \A i \in 2 .. Len(ranges) : ranges[i][1] > ranges[i - 1][2] + 1
    BY DEF ExcludesTheRule
  <2>2. tree[rel] \in Seq(Token)
    BY <2>1, MutateL0Assumption DEF Typed, Texts
  <2>3. QED
    BY <2>2, TextExcludesTheRule
<1>2. QED
  BY <1>1, StateInvariant, PTL

(* Stripping moves no line of a text whose strings close on their lines.   *)
THEOREM StrippingMovesNoLine == Spec => []LinesStayInPlace
<1>1. Typed => LinesStayInPlace
  <2>1. SUFFICES ASSUME Typed, NEW rel \in EditedFiles, StringsClose(tree[rel])
                 PROVE  LineCount(strip_comments(tree[rel])) = LineCount(tree[rel])
    BY DEF LinesStayInPlace
  <2>2. tree[rel] \in Seq(Token)
    BY <2>1, MutateL0Assumption DEF Typed, Texts
  <2>3. QED
    BY <2>1, <2>2, TextLinesStay
<1>2. QED
  BY <1>1, StateInvariant, PTL

(* A PASS of an undisturbed run is conclusive, for every tree and edit.    *)
THEOREM PassesAreConclusive == Spec => []PassIsConclusive
<1>1. Typed /\ Established => PassIsConclusive
  <2>1. SUFFICES ASSUME Typed, Established, run.verdict = "PASS", ~ run.disturbed
                 PROVE  /\ L0Fails(tree, Pinned) = {}
                        /\ \A i \in DOMAIN MUTANTS :
                             LET m == MUTANTS[i]  copy == Edited(tree, m.edits) IN
                             /\ copy.tree # tree \/ m.env # Pinned
                             /\ ~ Passes(m.want, copy.tree, m.env)
    BY DEF PassIsConclusive
  <2>2. run.next = Len(MUTANTS) + 1 /\ run.ok_all /\ run.next > 0
        /\ run.next - 1 = Len(MUTANTS)
    BY <2>1, MutantCount DEF Established
  <2>3. /\ L0Fails(tree, Pinned) = {}
        /\ \A i \in DOMAIN MUTANTS : Caught(tree, MUTANTS[i])
    BY <2>1, <2>2, MutantCount DEF Established
  <2>4. ASSUME NEW i \in DOMAIN MUTANTS
        PROVE  LET m == MUTANTS[i]  copy == Edited(tree, m.edits) IN
               /\ copy.tree # tree \/ m.env # Pinned
               /\ ~ Passes(m.want, copy.tree, m.env)
    <3> DEFINE m == MUTANTS[i]  copy == Edited(tree, m.edits)
    <3>1. m.want \in L0Fails(copy.tree, m.env)
      BY <2>3 DEF Caught
    <3> HIDE DEF m, copy
    <3>2. ~ Passes(m.want, copy.tree, m.env)
      BY <3>1 DEF L0Fails
    <3>3. ~ (copy.tree = tree /\ m.env = Pinned)
      BY <2>3, <3>1
    <3>4. QED
      BY <3>2, <3>3 DEF m, copy
  <2>5. QED
    BY <2>3, <2>4
<1>2. QED
  BY <1>1, StateInvariant, PTL
(* A row of the allowlist is the only one of its file and warning.         *)
LEMMA RowIsKept ==
  ASSUME PragmasPass(tree), NEW row \in AllowRows(tree)
  PROVE  /\ row.path \in RtlFiles /\ forbidden(tree[row.path]) = {}
         /\ Alternates(Events(tree[row.path], row.name))
         /\ ScopeHolds(tree, row.path, row, Events(tree[row.path], row.name))
<1> DEFINE text == tree[row.path]
           E == Events(text, row.name)
           list == tree["allowlist"]
<1>1. row.path \in RtlOf(tree) /\ row.name \in Names(text)
  BY DEF PragmasPass, Stale
<1>2. forbidden(text) = {} /\ WaiversAllowed(tree, row.path)
  BY <1>1 DEF PragmasPass
<1>3. /\ Alternates(E)
      /\ \E r \in RowsFor(tree, row.path, row.name) : ScopeHolds(tree, row.path, r, E)
  BY <1>1, <1>2 DEF WaiversAllowed
<1>4. PICK r \in RowsFor(tree, row.path, row.name) : ScopeHolds(tree, row.path, r, E)
  BY <1>3
<1>5. r \in AllowRows(tree) /\ r.path = row.path /\ r.name = row.name
  BY <1>4 DEF RowsFor
<1>6. \A i, j \in DOMAIN list :
        i # j => list[i].path # list[j].path \/ list[i].name # list[j].name
  BY DEF PragmasPass, PragmasSetUp
<1>7. r = row
  <2>1. PICK i \in DOMAIN list : list[i] = r
    BY <1>5 DEF AllowRows, ToSet
  <2>2. PICK j \in DOMAIN list : list[j] = row
    BY DEF AllowRows, ToSet
  <2> HIDE DEF list
  <2>3. i = j
    BY <1>5, <1>6, <2>1, <2>2
  <2>4. QED
    BY <2>1, <2>2, <2>3
<1>8. QED
  BY <1>1, <1>2, <1>3, <1>4, <1>7 DEF RtlOf

(* Whatever text check_pragmas.py passes: the waivers of every row of the  *)
(* allowlist are closed by the end of the file and, scoped sim_only, cover *)
(* nothing that synthesis compiles.                                        *)
THEOREM WaiversStayInside == Spec => []WaiversStayInSimulation
<1>1. Typed => WaiversStayInSimulation
  <2>1. SUFFICES ASSUME Typed, PragmasPass(tree), NEW row \in AllowRows(tree)
                 PROVE  LET text == tree[row.path]  modes == Modes(text)  lines == LinesOf(text) IN
                        /\ ~ LintIsOff(text, modes, row.name, Len(text))
                        /\ row.scope = "sim_only" /\ StringsClose(text) =>
                             \A i \in DOMAIN text :
                               /\ Kept(text, modes, i) /\ text[i].k \notin {"nl", "dir"}
                               /\ LintIsOff(text, modes, row.name, i)
                               => ~ Compiled(lines, PhysicalLine(text, i), "syn")
    BY DEF WaiversStayInSimulation
  <2> DEFINE text == tree[row.path]
             E == Events(text, row.name)
             known == KnownOf(tree)
  <2>2. /\ row.path \in RtlFiles /\ forbidden(text) = {}
        /\ Alternates(E) /\ ScopeHolds(tree, row.path, row, E)
    BY <2>1, RowIsKept
  <2>3. text \in Seq(Token)
    BY <2>1, <2>2 DEF Typed, Texts
  <2>4. row.scope = "sim_only" =>
          /\ ~ Refused(text, known)
          /\ \A k \in 1 .. Len(E) \div 2 :
               E[2 * k - 1].line .. E[2 * k].line \subseteq ToSet(sim_only_lines(text, known))
    BY <2>2 DEF ScopeHolds
  <2> HIDE DEF text, known
  <2>5. ~ LintIsOff(text, Modes(text), row.name, Len(text))
    BY <2>2, <2>3, WaiversClose
  <2>6. ASSUME row.scope = "sim_only", StringsClose(text), NEW i \in DOMAIN text,
               Kept(text, Modes(text), i), text[i].k \notin {"nl", "dir"},
               LintIsOff(text, Modes(text), row.name, i)
        PROVE  ~ Compiled(LinesOf(text), PhysicalLine(text, i), "syn")
    BY <2>2, <2>3, <2>4, <2>6, CoveredIsSimulation
  <2>7. QED
    BY <2>5, <2>6 DEF text
<1>2. QED
  BY <1>1, StateInvariant, PTL
=============================================================================

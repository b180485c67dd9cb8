-------------------------- MODULE RunAlignmentProofs --------------------------
(***************************************************************************)
(* That the alignment of two sequences is the best one, and that the       *)
(* alignment of two runs places every stage once, leaves no key over and   *)
(* mirrors when the runs are swapped, but for a band or a tie of one id:   *)
(* for any tables, any kinds of stages and any runs.                       *)
(*                                                                         *)
(* What alignSequences and alignWithin compute recursively is reasoned     *)
(* about by the first place where a claim would fail: the corner nearest   *)
(* to the end, or the smallest set of candidates.                          *)
(***************************************************************************)
EXTENDS RunAlignment, SequenceTheorems, FiniteSetTheorems, WellFoundedInduction, TLAPS

-----------------------------------------------------------------------------
(* Numbers and sequences.                                                   *)

\* Numbers have a least.
LEMMA LeastOf ==
  ASSUME NEW S \in SUBSET Nat, S # {}
  PROVE  \E x \in S : \A y \in S : x <= y
<1> DEFINE Less == {pair \in Nat \X Nat : pair[1] < pair[2]}
<1>1. IsWellFoundedOn(Less, Nat)
  BY NatLessThanWellFounded DEF OpToRel
<1> HIDE DEF Less
<1>2. PICK x \in S : \A y \in S : ~(<<y, x>> \in Less)
  BY <1>1, WFMin
<1>3. ASSUME NEW y \in S PROVE x <= y
  <2>1. x \in Nat /\ y \in Nat /\ <<y, x>> \notin Less
    BY <1>2
  <2>2. ~(y < x)
    BY <2>1 DEF Less
  <2> QED  BY <2>1, <2>2
<1> QED  BY <1>3

\* What a concatenation holds.
LEMMA ConcatElements ==
  ASSUME NEW S, NEW s \in Seq(S), NEW t \in Seq(S)
  PROVE  s \o t \in Seq(S) /\ ToSet(s \o t) = ToSet(s) \cup ToSet(t)
<1>1. /\ s \o t \in Seq(S) /\ Len(s \o t) = Len(s) + Len(t)
      /\ \A i \in 1..Len(s) + Len(t) : (s \o t)[i] = IF i <= Len(s) THEN s[i] ELSE t[i - Len(s)]
  BY ConcatProperties
<1>2. \A i \in DOMAIN s : i \in DOMAIN (s \o t) /\ (s \o t)[i] = s[i]
  BY <1>1
<1>3. \A i \in DOMAIN t : i + Len(s) \in DOMAIN (s \o t) /\ (s \o t)[i + Len(s)] = t[i]
  BY <1>1
<1>4. \A i \in DOMAIN (s \o t) :
        \/ i \in DOMAIN s /\ (s \o t)[i] = s[i]
        \/ i - Len(s) \in DOMAIN t /\ (s \o t)[i] = t[i - Len(s)]
  BY <1>1
<1>5. ToSet(s) \subseteq ToSet(s \o t)
  BY <1>2, Zenon DEF ToSet
<1>6. ToSet(t) \subseteq ToSet(s \o t)
  BY <1>3, Zenon DEF ToSet
<1>7. ToSet(s \o t) \subseteq ToSet(s) \cup ToSet(t)
  BY <1>4, Zenon DEF ToSet
<1> QED  BY <1>1, <1>5, <1>6, <1>7

-----------------------------------------------------------------------------
(* Tables and bands.                                                        *)

\* The greater and the lesser of two numbers.
LEMMA MaxOfTwo ==
  ASSUME NEW a \in Int, NEW b \in Int
  PROVE  /\ Max({a, b}) \in {a, b} /\ Max({a, b}) >= a /\ Max({a, b}) >= b
         /\ Min({a, b}) \in {a, b} /\ Min({a, b}) <= a /\ Min({a, b}) <= b
<1>1. \E x \in {a, b} : \A y \in {a, b} : x >= y
  <2>1. CASE a >= b
    BY <2>1
  <2>2. CASE ~(a >= b)
    <3>1. b >= a /\ b >= b
      BY <2>2
    <3> QED  BY <3>1
  <2> QED  BY <2>1, <2>2
<1>2. \E x \in {a, b} : \A y \in {a, b} : x =< y
  <2>1. CASE a <= b
    BY <2>1
  <2>2. CASE ~(a <= b)
    <3>1. b <= a /\ b <= b
      BY <2>2
    <3> QED  BY <3>1
  <2> QED  BY <2>1, <2>2
<1>3. Max({a, b}) \in {a, b} /\ \A y \in {a, b} : Max({a, b}) >= y
  BY <1>1 DEF Max
<1>4. Min({a, b}) \in {a, b} /\ \A y \in {a, b} : Min({a, b}) =< y
  BY <1>2 DEF Min
<1> QED  BY <1>3, <1>4

\* Division keeps the order of numbers.
LEMMA DivMonotone ==
  ASSUME NEW a \in Nat, NEW b \in Nat, NEW n \in Nat \ {0}, a <= b
  PROVE  a \div n <= b \div n /\ a \div n \in Nat /\ b \div n \in Nat
<1>1. /\ a = n * (a \div n) + (a % n) /\ a % n \in 0..(n - 1) /\ a \div n \in Int
      /\ b = n * (b \div n) + (b % n) /\ b % n \in 0..(n - 1) /\ b \div n \in Int
  OBVIOUS
<1> DEFINE q == a \div n
           r == b \div n
<1>2. PICK u \in 0..(n - 1) : a = n * q + u
  BY <1>1
<1>3. PICK v \in 0..(n - 1) : b = n * r + v
  BY <1>1
<1>4. q \in Int /\ r \in Int
  BY <1>1
<1> HIDE DEF q, r
<1>5. q <= r
  <2>1. SUFFICES ASSUME q >= r + 1 PROVE FALSE
    BY <1>4
  <2>2. n * q >= n * (r + 1)
    BY <1>4, <2>1
  <2>3. n * (r + 1) = n * r + n
    BY <1>4
  <2> QED  BY <1>2, <1>3, <1>4, <2>2, <2>3
<1>6. q >= 0 /\ r >= 0
  <2>1. ASSUME NEW x \in Int, NEW w \in 0..(n - 1), n * x + w >= 0 PROVE x >= 0
    <3>1. SUFFICES ASSUME x <= -1 PROVE FALSE
      BY <2>1
    <3>2. n * x <= n * (-1)
      BY <3>1
    <3> QED  BY <2>1, <3>2
  <2> QED  BY <1>2, <1>3, <1>4, <2>1
<1> QED  BY <1>4, <1>5, <1>6 DEF q, r

\* A table has as many rows and columns as its sequences have elements.
LEMMA TableFact ==
  ASSUME NEW t, IsTable(t)
  PROVE  /\ Rows(t) \in Nat /\ Columns(t) \in Nat
         /\ \A i \in 1..Rows(t), j \in 1..Columns(t) :
              t.score[i][j] \in Nat /\ t.idA[i] \in Nat /\ t.idB[j] \in Nat
<1>1. Rows(t) \in Nat /\ Columns(t) \in Nat
  BY DEF IsTable, Rows, Columns
<1>2. /\ \A i \in 1..Rows(t) : t.idA[i] \in Nat
      /\ \A j \in 1..Columns(t) : t.idB[j] \in Nat
  BY DEF IsTable, Rows, Columns
<1>3. t.score \in [1..Rows(t) -> [1..Columns(t) -> Nat]]
  BY DEF IsTable, Rows, Columns
<1> QED  BY <1>1, <1>2, <1>3

\* The bands stay in the table and only move to the right.
LEMMA BandFact ==
  ASSUME NEW t, IsTable(t)
  PROVE  /\ \A i \in 1..Rows(t) : Lo(t, i) \in 1..(Columns(t) + 1) /\ Hi(t, i) \in Int
         /\ \A i, k \in 1..Rows(t) : i <= k => Lo(t, i) <= Lo(t, k)
         /\ ~Bounded(t) => \A i \in 1..Rows(t) : Lo(t, i) = 1 /\ Hi(t, i) = Columns(t)
<1> DEFINE n == Rows(t)
           m == Columns(t)
<1>1. n \in Nat /\ m \in Nat
  BY TableFact
<1> HIDE DEF n, m
<1>2. Half(t) \in Nat
  <2>1. n - m \in Int /\ m - n \in Int
    BY <1>1
  <2>2. Max({n - m, m - n}) \in Int /\ Max({n - m, m - n}) >= 0
    <3>1. PICK x \in Int : x = Max({n - m, m - n}) /\ x >= n - m /\ x >= m - n
      BY <2>1, MaxOfTwo
    <3>2. x >= 0
      BY <1>1, <3>1
    <3> QED  BY <3>1, <3>2
  <2>3. PICK x \in Nat : x = Max({n - m, m - n}) + 1
    BY <2>2
  <2>4. x \div 2 \in Nat
    BY DivMonotone
  <2> QED  BY <2>3, <2>4, AlignmentAssumption DEF Half, n, m
<1>3. ASSUME NEW i \in 1..n, NEW k \in 1..n, i <= k
      PROVE  /\ Center(t, i) \in 1..(m + 1) /\ Center(t, k) \in 1..(m + 1)
             /\ Center(t, i) <= Center(t, k)
  <2>1. /\ i - 1 \in Nat /\ k - 1 \in Nat /\ n - 1 \in Nat /\ i - 1 <= k - 1 /\ k - 1 <= n - 1
        /\ n \in Nat \ {0}
    BY <1>1, <1>3
  <2>2. PICK x \in Nat, y \in Nat, z \in Nat :
          /\ x = (i - 1) * m /\ y = (k - 1) * m /\ z = n * m /\ x <= y /\ y <= z
    BY <1>1, <2>1
  <2>3. /\ x \div n <= y \div n /\ x \div n \in Nat
        /\ y \div n <= z \div n /\ y \div n \in Nat /\ z \div n \in Nat
    BY <2>1, <2>2, DivMonotone
  <2>4. z \div n = m
    BY <1>1, <2>1, <2>2
  <2>5. Center(t, i) = x \div n + 1 /\ Center(t, k) = y \div n + 1
    BY <2>2 DEF Center, n, m
  <2> QED  BY <1>1, <2>3, <2>4, <2>5
<1>4. ASSUME NEW i \in 1..n, NEW k \in 1..n, i <= k
      PROVE  /\ Lo(t, i) \in 1..(m + 1) /\ Hi(t, i) \in Int /\ Lo(t, i) <= Lo(t, k)
             /\ ~Bounded(t) => Lo(t, i) = 1 /\ Hi(t, i) = m
  <2>1. CASE ~Bounded(t)
    BY <1>1, <2>1 DEF Lo, Hi, m
  <2>2. CASE Bounded(t)
    <3>1. PICK c \in 1..(m + 1), d \in 1..(m + 1), h \in Nat :
            c = Center(t, i) /\ d = Center(t, k) /\ h = Half(t) /\ c <= d
      BY <1>2, <1>3, <1>4
    <3>2. PICK x \in Int, y \in Int, z \in Int :
            x = c - h /\ y = d - h /\ z = c + h /\ x <= y /\ x <= m + 1
      BY <1>1, <3>1
    <3>3. Lo(t, i) = Max({1, x}) /\ Lo(t, k) = Max({1, y}) /\ Hi(t, i) = Min({m, z})
      BY <2>2, <3>1, <3>2 DEF Lo, Hi, m
    <3>4. /\ Max({1, x}) \in {1, x} /\ Max({1, x}) >= 1
          /\ Max({1, y}) \in {1, y} /\ Max({1, y}) >= 1 /\ Max({1, y}) >= y
      <4>1. PICK one \in Int : one = 1
        OBVIOUS
      <4>2. /\ Max({one, x}) \in {one, x} /\ Max({one, x}) >= one
            /\ Max({one, y}) \in {one, y} /\ Max({one, y}) >= one /\ Max({one, y}) >= y
        BY MaxOfTwo
      <4> QED  BY <4>1, <4>2
    <3>5. Min({m, z}) \in {m, z}
      BY <1>1, MaxOfTwo
    <3> QED  BY <1>1, <2>2, <3>2, <3>3, <3>4, <3>5
  <2> QED  BY <2>1, <2>2
<1>5. \A i \in 1..n : i <= i
  BY <1>1
<1> QED  BY <1>4, <1>5 DEF n, m

-----------------------------------------------------------------------------
(* The table and the walk are functions over the corners, each corner       *)
(* reading only corners that are nearer to the ends of both sequences.      *)

CornerAt(walks, t, best, f, i, j) ==
  IF walks THEN WalkAt(t, best, f, i, j) ELSE BestAt(t, f, i, j)

\* What a corner leads to.
LEMMA NextCorners ==
  ASSUME NEW t, IsTable(t), NEW i \in 1..Rows(t), NEW j \in 1..Columns(t)
  PROVE  /\ <<i + 1, j>> \in Corners(t) /\ <<i, j + 1>> \in Corners(t)
         /\ <<i + 1, j + 1>> \in Corners(t) /\ <<i, Lo(t, i)>> \in Corners(t)
         /\ <<i, j>> \in Corners(t)
<1>1. Rows(t) \in Nat /\ Columns(t) \in Nat /\ Lo(t, i) \in 1..(Columns(t) + 1)
  BY TableFact, BandFact
<1> QED  BY <1>1 DEF Corners

Beyond(t, i, j) == {c \in Corners(t) : c[1] + c[2] > i + j}

\* The corners that a corner is computed from are nearer to the end.
LEMMA NextBeyond ==
  ASSUME NEW t, IsTable(t), NEW i \in 1..Rows(t), NEW j \in 1..Columns(t)
  PROVE  /\ <<i + 1, j>> \in Beyond(t, i, j) /\ <<i, j + 1>> \in Beyond(t, i, j)
         /\ <<i + 1, j + 1>> \in Beyond(t, i, j)
         /\ j < Lo(t, i) => <<i, Lo(t, i)>> \in Beyond(t, i, j)
<1>1. Rows(t) \in Nat /\ Columns(t) \in Nat /\ Lo(t, i) \in 1..(Columns(t) + 1)
  BY TableFact, BandFact
<1>2. /\ <<i + 1, j>> \in Corners(t) /\ <<i, j + 1>> \in Corners(t)
      /\ <<i + 1, j + 1>> \in Corners(t) /\ <<i, Lo(t, i)>> \in Corners(t)
  BY NextCorners
<1>3. /\ (i + 1) + j > i + j /\ i + (j + 1) > i + j /\ (i + 1) + (j + 1) > i + j
      /\ j < Lo(t, i) => i + Lo(t, i) > i + j
  BY <1>1
<1> QED  BY <1>2, <1>3 DEF Beyond

\* A corner reads nothing but the corners beyond it.
LEMMA CornerSame ==
  ASSUME NEW walks, NEW t, IsTable(t), NEW best, NEW f, NEW g, NEW c \in Corners(t),
         \A d \in Beyond(t, c[1], c[2]) : f[d] = g[d]
  PROVE  CornerAt(walks, t, best, f, c[1], c[2]) = CornerAt(walks, t, best, g, c[1], c[2])
<1>1. PICK i \in 1..(Rows(t) + 1), j \in 1..(Columns(t) + 1) : i = c[1] /\ j = c[2]
  BY DEF Corners
<1>2. Rows(t) \in Nat /\ Columns(t) \in Nat
  BY TableFact
<1>3. CASE i > Rows(t) \/ j > Columns(t)
  BY <1>1, <1>3 DEF CornerAt, WalkAt, BestAt
<1>4. CASE ~(i > Rows(t) \/ j > Columns(t))
  <2>1. i \in 1..Rows(t) /\ j \in 1..Columns(t)
    BY <1>2, <1>4
  <2>2. /\ f[<<i + 1, j>>] = g[<<i + 1, j>>] /\ f[<<i, j + 1>>] = g[<<i, j + 1>>]
        /\ f[<<i + 1, j + 1>>] = g[<<i + 1, j + 1>>]
        /\ j < Lo(t, i) => f[<<i, Lo(t, i)>>] = g[<<i, Lo(t, i)>>]
    BY <1>1, <2>1, NextBeyond
  <2>3. BestAt(t, f, i, j) = BestAt(t, g, i, j)
    BY <2>2 DEF BestAt
  <2>4. WalkAt(t, best, f, i, j) = WalkAt(t, best, g, i, j)
    BY <2>2 DEF WalkAt
  <2> QED  BY <1>1, <2>3, <2>4 DEF CornerAt
<1> QED  BY <1>3, <1>4

\* The corners no more than k steps from the ends.
Near(t, k) == {c \in Corners(t) : c[1] + c[2] + k >= Rows(t) + Columns(t) + 2}

IsFilled(f, walks, t, best, k) ==
  f = [c \in Near(t, k) |-> CornerAt(walks, t, best, f, c[1], c[2])]

\* So best and the walk can be filled from the end, corner by corner.
LEMMA FilledExists ==
  ASSUME NEW walks, NEW t, IsTable(t), NEW best, NEW k \in Nat
  PROVE  \E f : IsFilled(f, walks, t, best, k)
<1> DEFINE Bad == {n \in Nat : ~\E f : IsFilled(f, walks, t, best, n)}
<1>1. SUFFICES ASSUME Bad # {} PROVE FALSE
  OBVIOUS
<1> HIDE DEF Bad
<1>2. PICK m \in Bad : \A n \in Bad : m <= n
  BY <1>1, LeastOf DEF Bad
<1>3. m \in Nat /\ ~\E f : IsFilled(f, walks, t, best, m)
  BY DEF Bad
<1>4. Rows(t) \in Nat /\ Columns(t) \in Nat
  BY TableFact
<1>5. \E f : m # 0 => IsFilled(f, walks, t, best, m - 1)
  <2>1. CASE m = 0
    BY <2>1
  <2>2. CASE m # 0
    <3>1. m - 1 \in Nat /\ ~(m <= m - 1)
      BY <1>3, <2>2
    <3> QED  BY <1>2, <3>1 DEF Bad
  <2> QED  BY <2>1, <2>2
<1>6. PICK f : m # 0 => IsFilled(f, walks, t, best, m - 1)
  BY <1>5
<1> DEFINE at(c) == CornerAt(walks, t, best, f, c[1], c[2])
           new == [c \in Near(t, m) |-> at(c)]
<1>7. ASSUME NEW c \in Near(t, m), NEW d \in Beyond(t, c[1], c[2])
      PROVE  m # 0 /\ d \in Near(t, m - 1) /\ d \in Near(t, m)
  <2>1. PICK n \in Nat, w \in Nat : n = Rows(t) /\ w = Columns(t)
    BY <1>4
  <2>2. c \in Corners(t) /\ d \in Corners(t)
    BY DEF Near, Beyond
  <2>3. PICK i \in 1..(n + 1), j \in 1..(w + 1) : i = c[1] /\ j = c[2]
    BY <2>1, <2>2 DEF Corners
  <2>4. PICK x \in 1..(n + 1), y \in 1..(w + 1) : x = d[1] /\ y = d[2]
    BY <2>1, <2>2 DEF Corners
  <2>5. x + y > i + j /\ i + j + m >= n + w + 2
    BY <2>1, <2>3, <2>4 DEF Near, Beyond
  <2>6. x + y + m >= n + w + 2 /\ x + y + (m - 1) >= n + w + 2 /\ m # 0
    BY <1>3, <2>5
  <2> QED  BY <2>1, <2>2, <2>4, <2>6 DEF Near
<1>8. ASSUME NEW d \in Near(t, m - 1), m # 0, d \in Near(t, m) PROVE f[d] = new[d]
  <2>1. f = [c \in Near(t, m - 1) |-> at(c)]
    BY <1>6, <1>8 DEF IsFilled
  <2> HIDE DEF at
  <2> QED  BY <1>8, <2>1
<1>9. ASSUME NEW c \in Near(t, m) PROVE at(c) = CornerAt(walks, t, best, new, c[1], c[2])
  <2>1. \A d \in Beyond(t, c[1], c[2]) : f[d] = new[d]
    BY <1>7, <1>8
  <2>2. c \in Corners(t)
    BY DEF Near
  <2> HIDE DEF new
  <2> QED  BY <2>1, <2>2, CornerSame
<1>10. IsFilled(new, walks, t, best, m)
  <2>1. new = [c \in Near(t, m) |-> at(c)]
    OBVIOUS
  <2> HIDE DEF new, at
  <2> QED  BY <1>9, <2>1 DEF IsFilled
<1> QED  BY <1>3, <1>10

\* Far enough from the end are all corners.
LEMMA NearAll ==
  ASSUME NEW t, IsTable(t)
  PROVE  /\ Rows(t) + Columns(t) \in Nat
         /\ Near(t, Rows(t) + Columns(t)) = Corners(t)
<1>1. PICK n \in Nat, m \in Nat : n = Rows(t) /\ m = Columns(t)
  BY TableFact
<1>2. ASSUME NEW c \in Corners(t) PROVE c[1] + c[2] + (n + m) >= n + m + 2
  BY <1>1 DEF Corners
<1> QED  BY <1>1, <1>2 DEF Near

\* Best is what it is defined to be at every corner.
LEMMA BestFilled ==
  ASSUME NEW t, IsTable(t)
  PROVE  Best(t) = [c \in Corners(t) |-> BestAt(t, Best(t), c[1], c[2])]
<1>1. PICK f : IsFilled(f, FALSE, t, {}, Rows(t) + Columns(t))
  BY NearAll, FilledExists
<1>2. f = [c \in Corners(t) |-> BestAt(t, f, c[1], c[2])]
  BY <1>1, NearAll DEF IsFilled, CornerAt
<1> DEFINE P(g) == g = [c \in Corners(t) |-> BestAt(t, g, c[1], c[2])]
<1>3. Best(t) = CHOOSE g : P(g)
  BY DEF Best
<1>4. \E g : P(g)
  BY <1>2
<1>5. P(Best(t))
  BY <1>3, <1>4
<1> QED  BY <1>5

IsWalk(walk, t) == walk = [c \in Corners(t) |-> WalkAt(t, Best(t), walk, c[1], c[2])]

\* AlignSequences takes a walk that goes as WalkAt says.
LEMMA WalkFilled ==
  ASSUME NEW t, IsTable(t)
  PROVE  \E walk : IsWalk(walk, t) /\ AlignSequences(t) = walk[<<1, 1>>]
<1>1. PICK f : IsFilled(f, TRUE, t, Best(t), Rows(t) + Columns(t))
  BY NearAll, FilledExists
<1>2. f = [c \in Corners(t) |-> WalkAt(t, Best(t), f, c[1], c[2])]
  BY <1>1, NearAll DEF IsFilled, CornerAt
<1> DEFINE P(g) == g = [c \in Corners(t) |-> WalkAt(t, Best(t), g, c[1], c[2])]
           w == CHOOSE g : P(g)
<1>3. [c \in Corners(t) |-> Best(t)[c]] = Best(t)
  BY BestFilled
<1>4. AlignSequences(t) = w[<<1, 1>>]
  BY <1>3 DEF AlignSequences
<1>5. \E g : P(g)
  BY <1>2
<1>6. P(w)
  BY <1>5
<1> QED  BY <1>4, <1>6 DEF IsWalk

\* Where something fails at a corner, it fails at one beyond which it holds.
LEMMA LastCorner ==
  ASSUME NEW t, IsTable(t), NEW S \in SUBSET Corners(t), S # {}
  PROVE  \E c \in S : \A d \in Beyond(t, c[1], c[2]) : d \notin S
<1>1. PICK n \in Nat, m \in Nat : n = Rows(t) /\ m = Columns(t)
  BY TableFact
<1> DEFINE Remaining(c) == (n + m + 2) - (c[1] + c[2])
           V == {Remaining(c) : c \in S}
<1>2. \A c \in Corners(t) : c[1] + c[2] \in Nat /\ Remaining(c) \in Nat
  <2>1. ASSUME NEW c \in Corners(t) PROVE c[1] + c[2] \in Nat /\ Remaining(c) \in Nat
    <3>1. PICK i \in 1..(n + 1), j \in 1..(m + 1) : i = c[1] /\ j = c[2]
      BY <1>1 DEF Corners
    <3> QED  BY <3>1
  <2> QED  BY <2>1
<1>3. V \in SUBSET Nat /\ V # {}
  BY <1>2
<1> HIDE DEF V
<1>4. PICK v \in V : \A w \in V : v <= w
  BY <1>3, LeastOf
<1>5. PICK c \in S : v = Remaining(c)
  BY DEF V
<1>6. ASSUME NEW d \in Beyond(t, c[1], c[2]), d \in S PROVE FALSE
  <2>1. PICK x \in Nat, y \in Nat : x = c[1] + c[2] /\ y = d[1] + d[2]
    BY <1>2, <1>6
  <2>2. y > x
    BY <2>1 DEF Beyond
  <2>3. (n + m + 2) - x <= (n + m + 2) - y
    BY <1>4, <1>5, <1>6, <2>1 DEF V
  <2> QED  BY <2>1, <2>2, <2>3
<1> QED  BY <1>6

InsideBand(t, i, j) == ~(j < Lo(t, i)) /\ ~(j > Hi(t, i))

\* The greatest of the totals that a corner in the band can choose from.
LEMMA MaxOfTotals ==
  ASSUME NEW a \in Nat, NEW b \in Nat, NEW e \in Nat, NEW C
  PROVE  LET T == {a, b} \cup (IF C THEN {e} ELSE {})
         IN  /\ Max(T) \in T /\ Max(T) \in Nat
             /\ Max(T) >= a /\ Max(T) >= b
             /\ C => Max(T) >= e
<1> DEFINE T == {a, b} \cup (IF C THEN {e} ELSE {})
<1>1. \E x \in T : \A y \in T : x >= y
  <2>1. CASE a >= b /\ (C => a >= e)
    BY <2>1
  <2>2. CASE b >= a /\ (C => b >= e)
    BY <2>2
  <2>3. CASE C /\ e >= a /\ e >= b
    BY <2>3
  <2>4. a >= b \/ b >= a
    OBVIOUS
  <2> QED  BY <2>1, <2>2, <2>3, <2>4
<1>2. Max(T) \in T /\ \A y \in T : Max(T) >= y
  BY <1>1 DEF Max
<1> QED  BY <1>2

\* Every total is a number.
LEMMA BestNat ==
  ASSUME NEW t, IsTable(t)
  PROVE  \A c \in Corners(t) : Best(t)[c] \in Nat
<1> DEFINE Bad == {c \in Corners(t) : Best(t)[c] \notin Nat}
<1>1. SUFFICES ASSUME Bad # {} PROVE FALSE
  OBVIOUS
<1> HIDE DEF Bad
<1>2. PICK c \in Bad : \A d \in Beyond(t, c[1], c[2]) : d \notin Bad
  BY <1>1, LastCorner DEF Bad
<1>3. c \in Corners(t) /\ Best(t)[c] \notin Nat
  BY DEF Bad
<1>4. \A d \in Beyond(t, c[1], c[2]) : Best(t)[d] \in Nat
  BY <1>2 DEF Bad, Beyond
<1>5. Best(t)[c] = BestAt(t, Best(t), c[1], c[2])
  BY <1>3, BestFilled
<1>6. PICK i \in 1..(Rows(t) + 1), j \in 1..(Columns(t) + 1) : i = c[1] /\ j = c[2]
  BY <1>3 DEF Corners
<1>7. ~(i > Rows(t) \/ j > Columns(t))
  BY <1>3, <1>5, <1>6 DEF BestAt
<1>8. i \in 1..Rows(t) /\ j \in 1..Columns(t)
  BY <1>7, TableFact
<1>9. /\ Best(t)[<<i + 1, j>>] \in Nat /\ Best(t)[<<i, j + 1>>] \in Nat
      /\ Best(t)[<<i + 1, j + 1>>] \in Nat
      /\ j < Lo(t, i) => Best(t)[<<i, Lo(t, i)>>] \in Nat
  BY <1>4, <1>6, <1>8, NextBeyond
<1>10. t.score[i][j] + Best(t)[<<i + 1, j + 1>>] \in Nat
  BY <1>8, <1>9, TableFact
<1>11. BestAt(t, Best(t), i, j) \in Nat
  BY <1>8, <1>9, <1>10, MaxOfTotals DEF BestAt
<1> QED  BY <1>3, <1>5, <1>6, <1>11

\* best at each kind of corner.
LEMMA BestCases ==
  ASSUME NEW t, IsTable(t), NEW i \in 1..(Rows(t) + 1), NEW j \in 1..(Columns(t) + 1)
  PROVE  LET b == Best(t)
         IN  /\ i = Rows(t) + 1 \/ j = Columns(t) + 1 => b[<<i, j>>] = 0
             /\ i # Rows(t) + 1 /\ j # Columns(t) + 1 =>
                  /\ j < Lo(t, i) => b[<<i, j>>] = b[<<i, Lo(t, i)>>]
                  /\ ~(j < Lo(t, i)) /\ j > Hi(t, i) => b[<<i, j>>] = b[<<i + 1, j>>]
                  /\ InsideBand(t, i, j) =>
                       LET x == t.score[i][j] + b[<<i + 1, j + 1>>]
                       IN  /\ b[<<i, j>>] >= b[<<i + 1, j>>] /\ b[<<i, j>>] >= b[<<i, j + 1>>]
                           /\ Matchable(t, i, j) => b[<<i, j>>] >= x
                           /\ \/ b[<<i, j>>] = b[<<i + 1, j>>] \/ b[<<i, j>>] = b[<<i, j + 1>>]
                              \/ Matchable(t, i, j) /\ b[<<i, j>>] = x
<1> DEFINE b == Best(t)
<1>1. <<i, j>> \in Corners(t) /\ Rows(t) \in Nat /\ Columns(t) \in Nat
  BY TableFact DEF Corners
<1>2. b[<<i, j>>] = BestAt(t, b, i, j)
  <2>1. b = [c \in Corners(t) |-> BestAt(t, b, c[1], c[2])]
    BY BestFilled
  <2> HIDE DEF b
  <2> QED  BY <1>1, <2>1
<1>3. CASE i = Rows(t) + 1 \/ j = Columns(t) + 1
  BY <1>1, <1>2, <1>3 DEF BestAt
<1>4. CASE i # Rows(t) + 1 /\ j # Columns(t) + 1
  <2>1. i \in 1..Rows(t) /\ j \in 1..Columns(t) /\ ~(i > Rows(t) \/ j > Columns(t))
    BY <1>1, <1>4
  <2>2. PICK x \in Nat, y \in Nat, z \in Nat :
          /\ x = b[<<i + 1, j>>] /\ y = b[<<i, j + 1>>] /\ z = t.score[i][j] + b[<<i + 1, j + 1>>]
    <3>1. /\ b[<<i + 1, j>>] \in Nat /\ b[<<i, j + 1>>] \in Nat /\ b[<<i + 1, j + 1>>] \in Nat
      BY <2>1, BestNat, NextCorners
    <3>2. t.score[i][j] \in Nat
      BY <2>1, TableFact
    <3> QED  BY <3>1, <3>2
  <2>3. CASE j < Lo(t, i)
    BY <1>2, <1>4, <2>1, <2>3 DEF BestAt, InsideBand
  <2>4. CASE ~(j < Lo(t, i)) /\ j > Hi(t, i)
    BY <1>2, <1>4, <2>1, <2>4 DEF BestAt, InsideBand
  <2>5. CASE InsideBand(t, i, j)
    <3> DEFINE T == {x, y} \cup (IF Matchable(t, i, j) THEN {z} ELSE {})
    <3>1. b[<<i, j>>] = Max(T)
      <4>1. b[<<i, j>>] = Max({b[<<i + 1, j>>], b[<<i, j + 1>>]}
                                \cup (IF Matchable(t, i, j)
                                        THEN {t.score[i][j] + b[<<i + 1, j + 1>>]} ELSE {}))
        <5> HIDE DEF b
        <5> QED  BY <1>2, <2>1, <2>5 DEF BestAt, InsideBand
      <4> HIDE DEF b
      <4> QED  BY <2>2, <4>1
    <3>2. Max(T) \in T /\ Max(T) >= x /\ Max(T) >= y /\ (Matchable(t, i, j) => Max(T) >= z)
      BY MaxOfTotals
    <3>3. Max(T) = x \/ Max(T) = y \/ (Matchable(t, i, j) /\ Max(T) = z)
      BY <3>2
    <3> HIDE DEF T, b
    <3> QED  BY <1>4, <2>2, <2>5, <3>1, <3>2, <3>3 DEF InsideBand, b
  <2> QED  BY <2>3, <2>4, <2>5 DEF InsideBand
<1> QED  BY <1>3, <1>4

\* Past the end of a sequence.
LEMMA BestAtEnd ==
  ASSUME NEW t, IsTable(t), NEW i \in 1..(Rows(t) + 1), NEW j \in 1..(Columns(t) + 1),
         i = Rows(t) + 1 \/ j = Columns(t) + 1
  PROVE  Best(t)[<<i, j>>] = 0
BY BestCases

\* Left of the band.
LEMMA BestLeft ==
  ASSUME NEW t, IsTable(t), NEW i \in 1..Rows(t), NEW j \in 1..Columns(t), j < Lo(t, i)
  PROVE  Best(t)[<<i, j>>] = Best(t)[<<i, Lo(t, i)>>]
<1>1. /\ i \in 1..(Rows(t) + 1) /\ j \in 1..(Columns(t) + 1)
      /\ i # Rows(t) + 1 /\ j # Columns(t) + 1
  BY TableFact
<1> QED  BY <1>1, BestCases

\* Right of the band.
LEMMA BestRight ==
  ASSUME NEW t, IsTable(t), NEW i \in 1..Rows(t), NEW j \in 1..Columns(t),
         ~(j < Lo(t, i)), j > Hi(t, i)
  PROVE  Best(t)[<<i, j>>] = Best(t)[<<i + 1, j>>]
<1>1. /\ i \in 1..(Rows(t) + 1) /\ j \in 1..(Columns(t) + 1)
      /\ i # Rows(t) + 1 /\ j # Columns(t) + 1
  BY TableFact
<1> QED  BY <1>1, BestCases

\* Inside the band, with all totals as numbers.
LEMMA BestInside ==
  ASSUME NEW t, IsTable(t), NEW i \in 1..Rows(t), NEW j \in 1..Columns(t), InsideBand(t, i, j)
  PROVE  \E v, x, y, w, d \in Nat :
           /\ v = Best(t)[<<i, j>>] /\ x = Best(t)[<<i + 1, j>>] /\ y = Best(t)[<<i, j + 1>>]
           /\ w = t.score[i][j] /\ d = Best(t)[<<i + 1, j + 1>>]
           /\ v >= x /\ v >= y /\ (Matchable(t, i, j) => v >= w + d)
           /\ v = x \/ v = y \/ (Matchable(t, i, j) /\ v = w + d)
<1>1. /\ i \in 1..(Rows(t) + 1) /\ j \in 1..(Columns(t) + 1)
      /\ i # Rows(t) + 1 /\ j # Columns(t) + 1
  BY TableFact
<1>2. PICK v, x, y, w, d \in Nat :
        /\ v = Best(t)[<<i, j>>] /\ x = Best(t)[<<i + 1, j>>] /\ y = Best(t)[<<i, j + 1>>]
        /\ w = t.score[i][j] /\ d = Best(t)[<<i + 1, j + 1>>]
  BY BestNat, NextCorners, TableFact
<1>3. /\ v >= x /\ v >= y /\ (Matchable(t, i, j) => v >= w + d)
      /\ v = x \/ v = y \/ (Matchable(t, i, j) /\ v = w + d)
  BY <1>1, <1>2, BestCases
<1> QED  BY <1>2, <1>3

-----------------------------------------------------------------------------
(* The total of an alignment, from each row on.                             *)

IsTotals(from, t, s) ==
  /\ from \in [1..Rows(t) + 1 -> Nat] /\ from[Rows(t) + 1] = 0
  /\ \A i \in 1..Rows(t) : from[i] = RowScore(t, s, i) + from[i + 1]

\* What an alignment scores in a row.
LEMMA RowScoreNat ==
  ASSUME NEW t, IsTable(t), NEW s, NEW i \in 1..Rows(t)
  PROVE  RowScore(t, s, i) \in Nat
<1>1. CASE \E j \in 1..Columns(t) : <<i, j>> \in s
  <2> DEFINE k == CHOOSE j \in 1..Columns(t) : <<i, j>> \in s
  <2>1. k \in 1..Columns(t)
    BY <1>1
  <2>2. RowScore(t, s, i) = t.score[i][k]
    BY <1>1 DEF RowScore
  <2> HIDE DEF k
  <2> QED  BY <2>1, <2>2, TableFact
<1>2. CASE ~\E j \in 1..Columns(t) : <<i, j>> \in s
  BY <1>2 DEF RowScore
<1> QED  BY <1>1, <1>2

FromRow(t, s, from, i) == IF i > Rows(t) THEN 0 ELSE RowScore(t, s, i) + from[i + 1]

\* The recursion behind Total, over the last k rows.
IsSum(from, t, s, k) ==
  from = [i \in {r \in 1..Rows(t) + 1 : r + k >= Rows(t) + 1} |-> FromRow(t, s, from, i)]

\* Sums from any row on, row by row from the last.
LEMMA SumExists ==
  ASSUME NEW t, IsTable(t), NEW s, NEW k \in Nat
  PROVE  \E from : IsSum(from, t, s, k)
<1> DEFINE Bad == {n \in Nat : ~\E from : IsSum(from, t, s, n)}
<1>1. SUFFICES ASSUME Bad # {} PROVE FALSE
  OBVIOUS
<1> HIDE DEF Bad
<1>2. PICK m \in Bad : \A n \in Bad : m <= n
  BY <1>1, LeastOf DEF Bad
<1>3. m \in Nat /\ ~\E from : IsSum(from, t, s, m)
  BY DEF Bad
<1>4. PICK n \in Nat : n = Rows(t)
  BY TableFact
<1>5. \E f : m # 0 => IsSum(f, t, s, m - 1)
  <2>1. CASE m = 0
    BY <2>1
  <2>2. CASE m # 0
    <3>1. m - 1 \in Nat /\ ~(m <= m - 1)
      BY <1>3, <2>2
    <3> QED  BY <1>2, <3>1 DEF Bad
  <2> QED  BY <2>1, <2>2
<1>6. PICK f : m # 0 => IsSum(f, t, s, m - 1)
  BY <1>5
<1> DEFINE D(w) == {r \in 1..n + 1 : r + w >= n + 1}
           at(i) == FromRow(t, s, f, i)
           new == [i \in D(m) |-> at(i)]
<1>7. ASSUME NEW i \in D(m) PROVE at(i) = FromRow(t, s, new, i)
  <2>1. CASE i > n
    BY <1>4, <2>1 DEF FromRow
  <2>2. CASE ~(i > n)
    <3>1. m # 0 /\ i + 1 \in D(m - 1) /\ i + 1 \in D(m)
      BY <1>3, <2>2
    <3>2. f = [r \in D(m - 1) |-> at(r)]
      BY <1>4, <1>6, <3>1 DEF IsSum
    <3>3. f[i + 1] = at(i + 1) /\ new[i + 1] = at(i + 1)
      <4> HIDE DEF D, at
      <4> QED  BY <3>1, <3>2
    <3> HIDE DEF new
    <3> QED  BY <1>4, <2>2, <3>3 DEF FromRow
  <2> QED  BY <2>1, <2>2
<1>8. IsSum(new, t, s, m)
  <2>1. new = [i \in D(m) |-> at(i)]
    OBVIOUS
  <2> HIDE DEF new, at
  <2> QED  BY <1>4, <1>7, <2>1 DEF IsSum
<1> QED  BY <1>3, <1>8

\* Total sums them from the first row.
LEMMA TotalsExist ==
  ASSUME NEW t, IsTable(t), NEW s
  PROVE  \E from : IsTotals(from, t, s) /\ Total(t, s) = from[1]
<1>1. PICK n \in Nat : n = Rows(t)
  BY TableFact
<1>2. {r \in 1..n + 1 : r + n >= n + 1} = 1..n + 1
  BY <1>1
<1> DEFINE P(g) == g = [i \in 1..n + 1 |-> FromRow(t, s, g, i)]
           from == CHOOSE g : P(g)
<1>3. \E g : P(g)
  <2>1. PICK g : IsSum(g, t, s, n)
    BY SumExists
  <2> QED  BY <1>1, <1>2, <2>1 DEF IsSum
<1>4. P(from)
  BY <1>3
<1>5. Total(t, s) = from[1]
  BY <1>1 DEF Total, FromRow
<1> HIDE DEF from
<1>6. \A i \in 1..n + 1 : from[i] = FromRow(t, s, from, i)
  BY <1>4
<1>7. from[n + 1] = 0
  BY <1>1, <1>6 DEF FromRow
<1>8. \A i \in 1..n : from[i] = RowScore(t, s, i) + from[i + 1]
  BY <1>1, <1>6 DEF FromRow
<1>9. \A i \in 1..n + 1 : from[i] \in Nat
  <2> DEFINE Bad == {k \in Nat : k <= n /\ from[(n + 1) - k] \notin Nat}
  <2>1. CASE Bad # {}
    <3> HIDE DEF Bad
    <3>1. PICK k \in Bad : \A w \in Bad : k <= w
      BY <2>1, LeastOf DEF Bad
    <3>2. k \in Nat /\ k <= n /\ from[(n + 1) - k] \notin Nat
      BY DEF Bad
    <3>3. k # 0
      BY <1>7, <3>2
    <3>4. k - 1 \notin Bad /\ k - 1 \in Nat /\ k - 1 <= n
      BY <3>1, <3>2, <3>3
    <3>5. PICK i \in 1..n : i = (n + 1) - k /\ i + 1 = (n + 1) - (k - 1)
      BY <3>2, <3>3
    <3>6. from[i + 1] \in Nat
      BY <3>4, <3>5 DEF Bad
    <3>7. RowScore(t, s, i) \in Nat
      BY <1>1, RowScoreNat
    <3> QED  BY <1>8, <3>2, <3>5, <3>6, <3>7
  <2>2. CASE Bad = {}
    <3>1. ASSUME NEW i \in 1..n + 1 PROVE from[i] \in Nat
      <4>1. (n + 1) - i \in Nat /\ (n + 1) - i <= n /\ (n + 1) - ((n + 1) - i) = i
        OBVIOUS
      <4> QED  BY <2>2, <4>1
    <3> QED  BY <3>1
  <2> QED  BY <2>1, <2>2
<1>10. from \in [1..n + 1 -> Nat]
  BY <1>4, <1>9
<1> QED  BY <1>1, <1>5, <1>7, <1>8, <1>10 DEF IsTotals

\* Totals differ only where rows do.
LEMMA TotalsAgree ==
  ASSUME NEW t, IsTable(t), NEW s, NEW r, NEW f, NEW g, IsTotals(f, t, s), IsTotals(g, t, r),
         NEW k \in 1..Rows(t) + 1,
         \A i \in 1..Rows(t) : i >= k => RowScore(t, s, i) = RowScore(t, r, i)
  PROVE  f[k] = g[k]
<1>1. PICK n \in Nat : n = Rows(t)
  BY TableFact
<1> DEFINE Bad == {w \in Nat : w <= (n + 1) - k /\ f[(n + 1) - w] # g[(n + 1) - w]}
<1>2. CASE Bad # {}
  <2> HIDE DEF Bad
  <2>1. PICK w \in Bad : \A v \in Bad : w <= v
    BY <1>2, LeastOf DEF Bad
  <2>2. w \in Nat /\ w <= (n + 1) - k /\ f[(n + 1) - w] # g[(n + 1) - w]
    BY DEF Bad
  <2>3. w # 0
    BY <1>1, <2>2 DEF IsTotals
  <2>4. w - 1 \notin Bad /\ w - 1 \in Nat /\ w - 1 <= (n + 1) - k
    BY <1>1, <2>1, <2>2, <2>3
  <2>5. PICK i \in 1..n : i = (n + 1) - w /\ i + 1 = (n + 1) - (w - 1) /\ i >= k
    BY <1>1, <2>2, <2>3
  <2>6. f[i + 1] = g[i + 1]
    BY <2>4, <2>5 DEF Bad
  <2> QED  BY <1>1, <2>2, <2>5, <2>6 DEF IsTotals
<1>3. CASE Bad = {}
  <2>1. PICK w \in Nat : w = (n + 1) - k /\ (n + 1) - w = k /\ w <= (n + 1) - k
    BY <1>1
  <2>2. w \notin Bad
    BY <1>3
  <2> QED  BY <2>1, <2>2
<1> QED  BY <1>2, <1>3

\* What an alignment says of a row.
LEMMA RowFact ==
  ASSUME NEW t, IsTable(t), NEW s \in Alignments(t), NEW i \in 1..Rows(t)
  PROVE  /\ \A j : <<i, j>> \in s =>
              /\ j \in 1..Columns(t) /\ ~(j < Lo(t, i)) /\ ~(j > Hi(t, i))
              /\ Matchable(t, i, j) /\ RowScore(t, s, i) = t.score[i][j]
         /\ (~\E j : <<i, j>> \in s) => RowScore(t, s, i) = 0
<1>1. ASSUME NEW j, <<i, j>> \in s
      PROVE  /\ j \in 1..Columns(t) /\ ~(j < Lo(t, i)) /\ ~(j > Hi(t, i))
             /\ Matchable(t, i, j) /\ RowScore(t, s, i) = t.score[i][j]
  <2>1. <<i, j>> \in Cells(t)
    BY <1>1 DEF Alignments
  <2>2. j \in 1..Columns(t) /\ j \in Lo(t, i)..Hi(t, i) /\ Matchable(t, i, j)
    BY <2>1 DEF Cells, InBand
  <2>3. ~(j < Lo(t, i)) /\ ~(j > Hi(t, i))
    BY <2>2, BandFact
  <2> DEFINE k == CHOOSE x \in 1..Columns(t) : <<i, x>> \in s
  <2>4. k \in 1..Columns(t) /\ <<i, k>> \in s
    BY <1>1, <2>2
  <2>5. RowScore(t, s, i) = t.score[i][k]
    BY <1>1, <2>2 DEF RowScore
  <2> HIDE DEF k
  <2>6. k = j
    <3>1. SUFFICES ASSUME <<i, k>> # <<i, j>> PROVE FALSE
      OBVIOUS
    <3> QED  BY <1>1, <2>4, <3>1 DEF Alignments
  <2> QED  BY <2>2, <2>3, <2>5, <2>6
<1>2. ASSUME ~\E j : <<i, j>> \in s PROVE RowScore(t, s, i) = 0
  BY <1>2 DEF RowScore
<1> QED  BY <1>1, <1>2

-----------------------------------------------------------------------------
(* No alignment has a higher total than best.                               *)

\* No alignment of the suffixes scores more than best says.
LEMMA BestIsBound ==
  ASSUME NEW t, IsTable(t), NEW s \in Alignments(t), NEW from, IsTotals(from, t, s)
  PROVE  \A c \in Corners(t) :
           (\A p \in s : p[1] >= c[1] => p[2] >= c[2]) => from[c[1]] <= Best(t)[c]
<1> DEFINE Right(c) == \A p \in s : p[1] >= c[1] => p[2] >= c[2]
           Bad == {c \in Corners(t) : Right(c) /\ ~(from[c[1]] <= Best(t)[c])}
<1>1. SUFFICES ASSUME Bad # {} PROVE FALSE
  OBVIOUS
<1> HIDE DEF Bad
<1>2. PICK c \in Bad : \A d \in Beyond(t, c[1], c[2]) : d \notin Bad
  BY <1>1, LastCorner DEF Bad
<1>3. c \in Corners(t) /\ Right(c) /\ ~(from[c[1]] <= Best(t)[c])
  BY DEF Bad
<1>4. PICK n \in Nat, m \in Nat : n = Rows(t) /\ m = Columns(t)
  BY TableFact
<1>5. PICK i \in 1..n + 1, j \in 1..m + 1 : i = c[1] /\ j = c[2] /\ c = <<i, j>>
  BY <1>3, <1>4 DEF Corners
<1>6. \A k \in 1..n + 1 : from[k] \in Nat
  BY <1>4 DEF IsTotals
<1>7. \A d \in Corners(t) : Best(t)[d] \in Nat
  BY BestNat
<1>8. \A p \in s : \E k \in 1..n, l \in 1..m : p = <<k, l>>
  BY <1>4 DEF Alignments, Cells
<1>9. i # n + 1
  <2>1. SUFFICES ASSUME i = n + 1 PROVE FALSE
    OBVIOUS
  <2>2. from[i] = 0
    BY <1>4, <2>1 DEF IsTotals
  <2> QED  BY <1>3, <1>5, <1>7, <2>2
<1>10. /\ i \in 1..n /\ i + 1 \in 1..n + 1
       /\ from[i] = RowScore(t, s, i) + from[i + 1]
  BY <1>4, <1>5, <1>9, SMTT(40) DEF IsTotals
<1>11. ASSUME NEW d \in Corners(t), d[1] + d[2] > i + j, Right(d) PROVE from[d[1]] <= Best(t)[d]
  <2>1. d \in Beyond(t, c[1], c[2])
    BY <1>5, <1>11 DEF Beyond
  <2>2. d \notin Bad
    BY <1>2, <2>1
  <2> HIDE DEF Right
  <2> QED  BY <1>11, <2>2 DEF Bad
<1>12. ASSUME ~\E l : <<i, l>> \in s PROVE from[i] = from[i + 1] /\ Right(<<i + 1, j>>)
  <2>1. RowScore(t, s, i) = 0
    BY <1>4, <1>10, <1>12, RowFact
  <2>2. ASSUME NEW p \in s, p[1] >= i + 1 PROVE p[2] >= j
    <3>1. p[1] >= i
      BY <1>8, <1>10, <2>2
    <3> QED  BY <1>3, <1>5, <3>1
  <2>3. Right(<<i + 1, j>>)
    BY <2>2
  <2>4. from[i] = from[i + 1]
    BY <1>6, <1>10, <2>1
  <2> QED  BY <2>3, <2>4
<1>13. CASE j = m + 1
  <2>1. ~\E l : <<i, l>> \in s
    <3>1. SUFFICES ASSUME NEW l, <<i, l>> \in s PROVE FALSE
      OBVIOUS
    <3>2. l \in 1..m /\ l >= j
      BY <1>3, <1>4, <1>5, <1>8, <1>10, <3>1
    <3> QED  BY <1>4, <1>13, <3>2
  <2>2. <<i + 1, j>> \in Corners(t) /\ (i + 1) + j > i + j
    BY <1>4, <1>5, <1>10 DEF Corners
  <2>3. from[i + 1] <= Best(t)[<<i + 1, j>>]
    <3> HIDE DEF Right
    <3> QED  BY <1>11, <1>12, <2>1, <2>2
  <2>4. Best(t)[<<i + 1, j>>] = 0 /\ Best(t)[c] = 0
    BY <1>4, <1>5, <1>10, <1>13, BestAtEnd
  <2> QED  BY <1>3, <1>5, <1>12, <2>1, <2>3, <2>4
<1>14. CASE j # m + 1
  <2>1. j \in 1..m
    BY <1>4, <1>14
  <2>2. /\ <<i + 1, j>> \in Corners(t) /\ <<i, j + 1>> \in Corners(t)
        /\ <<i + 1, j + 1>> \in Corners(t) /\ <<i, Lo(t, i)>> \in Corners(t)
    BY <1>4, <1>10, <2>1, NextCorners
  <2>3. (i + 1) + j > i + j /\ i + (j + 1) > i + j /\ (i + 1) + (j + 1) > i + j
    BY <1>10, <2>1
  <2>4. CASE j < Lo(t, i)
    <3>1. Right(<<i, Lo(t, i)>>)
      <4>1. ASSUME NEW p \in s, p[1] >= i PROVE p[2] >= Lo(t, i)
        <5>1. PICK k \in 1..n, l \in 1..m : p = <<k, l>> /\ k >= i
          BY <1>8, <4>1
        <5>2. ~(l < Lo(t, k)) /\ Lo(t, i) <= Lo(t, k) /\ Lo(t, i) \in Int /\ Lo(t, k) \in Int
          BY <1>4, <1>10, <4>1, <5>1, RowFact, BandFact
        <5> QED  BY <5>1, <5>2
      <4> QED  BY <4>1
    <3>2. i + Lo(t, i) > i + j
      BY <1>4, <1>10, <2>1, <2>4, BandFact
    <3>3. from[i] <= Best(t)[<<i, Lo(t, i)>>]
      <4> HIDE DEF Right
      <4> QED  BY <1>11, <2>2, <3>1, <3>2
    <3>4. Best(t)[c] = Best(t)[<<i, Lo(t, i)>>]
      BY <1>4, <1>5, <1>10, <2>1, <2>4, BestLeft
    <3> QED  BY <1>3, <1>5, <3>3, <3>4
  <2>5. CASE ~(j < Lo(t, i)) /\ j > Hi(t, i)
    <3>1. ~\E l : <<i, l>> \in s
      <4>1. SUFFICES ASSUME NEW l, <<i, l>> \in s PROVE FALSE
        OBVIOUS
      <4>2. l \in 1..m /\ ~(l > Hi(t, i)) /\ l >= j
        BY <1>3, <1>4, <1>5, <1>10, <4>1, RowFact
      <4>3. Hi(t, i) \in Int
        BY <1>4, <1>10, BandFact
      <4> QED  BY <1>5, <2>5, <4>2, <4>3
    <3>2. from[i + 1] <= Best(t)[<<i + 1, j>>]
      <4> HIDE DEF Right
      <4> QED  BY <1>11, <1>12, <2>2, <2>3, <3>1
    <3>3. Best(t)[c] = Best(t)[<<i + 1, j>>]
      BY <1>4, <1>5, <1>10, <2>1, <2>5, BestRight
    <3> QED  BY <1>3, <1>5, <1>12, <3>1, <3>2, <3>3
  <2>6. CASE InsideBand(t, i, j)
    <3>1. PICK v, x, y, w, d \in Nat :
            /\ v = Best(t)[c] /\ x = Best(t)[<<i + 1, j>>] /\ y = Best(t)[<<i, j + 1>>]
            /\ w = t.score[i][j] /\ d = Best(t)[<<i + 1, j + 1>>]
            /\ v >= x /\ v >= y /\ (Matchable(t, i, j) => v >= w + d)
      <4>1. i \in 1..Rows(t) /\ j \in 1..Columns(t)
        BY <1>4, <1>10, <2>1
      <4>2. PICK v, x, y, w, d \in Nat :
              /\ v = Best(t)[<<i, j>>] /\ x = Best(t)[<<i + 1, j>>] /\ y = Best(t)[<<i, j + 1>>]
              /\ w = t.score[i][j] /\ d = Best(t)[<<i + 1, j + 1>>]
              /\ v >= x /\ v >= y /\ (Matchable(t, i, j) => v >= w + d)
              /\ v = x \/ v = y \/ (Matchable(t, i, j) /\ v = w + d)
        BY <2>6, <4>1, BestInside
      <4> QED  BY <1>5, <4>2
    <3>2. CASE ~\E l : <<i, l>> \in s
      <4>1. from[i + 1] <= Best(t)[<<i + 1, j>>]
        <5> HIDE DEF Right
        <5> QED  BY <1>11, <1>12, <2>2, <2>3, <3>2
      <4> QED  BY <1>3, <1>5, <1>6, <1>10, <1>12, <3>1, <3>2, <4>1
    <3>3. CASE \E l : <<i, l>> \in s
      <4>1. PICK l : <<i, l>> \in s
        BY <3>3
      <4>2. l \in 1..m /\ l >= j
        BY <1>3, <1>4, <1>5, <1>8, <1>10, <4>1
      <4>3. ASSUME NEW k \in 1..n, NEW h \in 1..m, <<k, h>> \in s, k >= i
            PROVE  h >= l /\ (k > i => h > l)
        <5>1. CASE k = i
          <6>1. <<k, h>> = <<i, l>>
            <7>1. SUFFICES ASSUME <<k, h>> # <<i, l>> PROVE FALSE
              OBVIOUS
            <7> QED  BY <4>1, <4>3, <5>1, <7>1 DEF Alignments
          <6> QED  BY <1>10, <4>2, <5>1, <6>1
        <5>2. CASE k # i
          <6>1. i < k /\ <<k, h>> # <<i, l>>
            BY <1>10, <4>3, <5>2
          <6>2. i < k <=> l < h
            BY <4>1, <4>3, <6>1 DEF Alignments
          <6> QED  BY <4>2, <6>1, <6>2
        <5> QED  BY <5>1, <5>2
      <4>4. CASE l = j
        <5>1. Right(<<i + 1, j + 1>>)
          <6>1. ASSUME NEW p \in s, p[1] >= i + 1 PROVE p[2] >= j + 1
            <7>1. PICK k \in 1..n, h \in 1..m : p = <<k, h>>
              BY <1>8
            <7>2. k >= i /\ k > i
              BY <1>10, <6>1, <7>1
            <7> QED  BY <4>2, <4>3, <4>4, <7>1, <7>2
          <6> QED  BY <6>1
        <5>2. from[i + 1] <= Best(t)[<<i + 1, j + 1>>]
          <6> HIDE DEF Right
          <6> QED  BY <1>11, <2>2, <2>3, <5>1
        <5>3. from[i] = t.score[i][j] + from[i + 1] /\ Matchable(t, i, j)
          BY <1>4, <1>10, <4>1, <4>4, RowFact
        <5> QED  BY <1>3, <1>5, <1>6, <1>10, <3>1, <5>2, <5>3
      <4>5. CASE l # j
        <5>1. Right(<<i, j + 1>>)
          <6>1. ASSUME NEW p \in s, p[1] >= i PROVE p[2] >= j + 1
            <7>1. PICK k \in 1..n, h \in 1..m : p = <<k, h>>
              BY <1>8
            <7>2. h >= l
              BY <4>3, <6>1, <7>1
            <7> QED  BY <2>1, <4>2, <4>5, <7>1, <7>2
          <6> QED  BY <6>1
        <5>2. from[i] <= Best(t)[<<i, j + 1>>]
          <6> HIDE DEF Right
          <6> QED  BY <1>11, <2>2, <2>3, <5>1
        <5> QED  BY <1>3, <1>5, <1>6, <3>1, <5>2
      <4> QED  BY <4>4, <4>5
    <3> QED  BY <3>2, <3>3
  <2> QED  BY <2>4, <2>5, <2>6 DEF InsideBand
<1> QED  BY <1>13, <1>14

-----------------------------------------------------------------------------
(* The walk finds an alignment whose total is best.                         *)

\* A walk at each corner.
LEMMA WalkCases ==
  ASSUME NEW t, IsTable(t), NEW walk, IsWalk(walk, t), NEW c \in Corners(t)
  PROVE  walk[c] = WalkAt(t, Best(t), walk, c[1], c[2])
<1> DEFINE at(d) == WalkAt(t, Best(t), walk, d[1], d[2])
<1>1. walk = [d \in Corners(t) |-> at(d)]
  BY DEF IsWalk
<1> HIDE DEF at
<1>2. walk[c] = at(c)
  BY <1>1
<1> QED  BY <1>2 DEF at

\* What the walk from a corner answers.
Path(t, w, c) ==
  /\ w \in Seq(Nat \X Nat) /\ ToSet(w) \in Alignments(t)
  /\ \A p \in ToSet(w) : p[1] >= c[1] /\ p[2] >= c[2]
  /\ \E from : IsTotals(from, t, ToSet(w)) /\ from[c[1]] = Best(t)[c]

\* A sequence with one more element in front.
LEMMA ConcatOne ==
  ASSUME NEW S, NEW x \in S, NEW s \in Seq(S)
  PROVE  /\ <<x>> \o s \in Seq(S) /\ Len(<<x>> \o s) = Len(s) + 1
         /\ (<<x>> \o s)[1] = x /\ \A k \in 1..Len(s) : (<<x>> \o s)[k + 1] = s[k]
         /\ ToSet(<<x>> \o s) = {x} \cup ToSet(s)
<1> DEFINE o == <<x>>
           u == o \o s
           l == Len(s)
<1>1. o \in Seq(S) /\ Len(o) = 1 /\ o[1] = x /\ DOMAIN o = 1..1
  OBVIOUS
<1>2. ToSet(o) = {x}
  BY DEF ToSet
<1> HIDE DEF o
<1>3. u \in Seq(S) /\ ToSet(u) = {x} \cup ToSet(s)
  BY <1>1, <1>2, ConcatElements
<1>4. l \in Nat
  OBVIOUS
<1>5. /\ Len(u) = Len(o) + l
      /\ \A k \in 1..(Len(o) + l) : u[k] = IF k <= Len(o) THEN o[k] ELSE s[k - Len(o)]
  BY <1>1, ConcatProperties
<1>6. /\ Len(u) = 1 + l
      /\ \A k \in 1..(1 + l) : u[k] = IF k <= 1 THEN o[k] ELSE s[k - 1]
  BY <1>1, <1>5
<1> HIDE DEF u, l
<1>7. u[1] = x
  BY <1>1, <1>6, <1>4
<1>8. ASSUME NEW k \in 1..l PROVE u[k + 1] = s[k]
  <2>1. k + 1 \in 1..(1 + l) /\ ~(k + 1 <= 1) /\ (k + 1) - 1 = k
    BY <1>4
  <2> QED  BY <1>6, <2>1
<1>9. Len(u) = l + 1
  BY <1>6, <1>4
<1> QED  BY <1>3, <1>7, <1>8, <1>9 DEF u, o, l

\* An alignment without a pair in row i has the same total from the next row.
LEMMA RowSkipped ==
  ASSUME NEW t, IsTable(t), NEW s \in Alignments(t), NEW from, IsTotals(from, t, s),
         NEW i \in 1..Rows(t), \A p \in s : p[1] >= i + 1
  PROVE  from[i] = from[i + 1]
<1>1. ~\E j : <<i, j>> \in s
  <2>1. SUFFICES ASSUME NEW j, <<i, j>> \in s PROVE FALSE
    OBVIOUS
  <2>2. i >= i + 1
    BY <2>1
  <2> QED  BY <2>2, TableFact
<1>2. RowScore(t, s, i) = 0
  BY <1>1, RowFact
<1>3. i + 1 \in 1..Rows(t) + 1
  BY TableFact
<1> QED  BY <1>2, <1>3 DEF IsTotals

\* A walk from the end.
LEMMA PathAtEnd ==
  ASSUME NEW t, IsTable(t), NEW c \in Corners(t), Best(t)[c] = 0
  PROVE  Path(t, <<>>, c)
<1> DEFINE e == <<>>
<1>1. ToSet(e) = {} /\ e \in Seq(Nat \X Nat)
  BY DEF ToSet
<1> HIDE DEF e
<1>2. {} \in Alignments(t)
  BY DEF Alignments
<1>3. PICK from : IsTotals(from, t, {})
  BY TotalsExist
<1>4. PICK n \in Nat : n = Rows(t)
  BY TableFact
<1>5. PICK g : g = [i \in 1..n + 1 |-> 0]
  OBVIOUS
<1>6. \A i \in 1..n : RowScore(t, {}, i) = 0
  BY DEF RowScore
<1>7. IsTotals(g, t, {})
  BY <1>4, <1>5, <1>6 DEF IsTotals
<1>8. c[1] \in 1..n + 1
  BY <1>4 DEF Corners
<1>9. IsTotals(g, t, ToSet(e)) /\ g[c[1]] = Best(t)[c]
  BY <1>1, <1>5, <1>7, <1>8
<1> HIDE DEF IsTotals
<1>10. Path(t, e, c)
  BY <1>1, <1>2, <1>9 DEF Path
<1> QED  BY <1>10 DEF e

\* The path from a corner that another corner answers for.
LEMMA PathMoves ==
  ASSUME NEW t, IsTable(t), NEW w, NEW c \in Corners(t), NEW d \in Corners(t), Path(t, w, d),
         Best(t)[c] = Best(t)[d], c[2] <= d[2], d[1] = c[1] \/ (d[1] = c[1] + 1 /\ c[1] \in 1..Rows(t))
  PROVE  Path(t, w, c)
<1>1. PICK n \in Nat, m \in Nat : n = Rows(t) /\ m = Columns(t)
  BY TableFact
<1>2. PICK i \in 1..n + 1, j \in 1..m + 1, k \in 1..n + 1, l \in 1..m + 1 :
        i = c[1] /\ j = c[2] /\ k = d[1] /\ l = d[2]
  BY <1>1 DEF Corners
<1>3. ToSet(w) \in Alignments(t)
  BY DEF Path
<1>4. \A p \in ToSet(w) : p[1] \in Int /\ p[2] \in Int
  BY <1>1, <1>3 DEF Alignments, Cells
<1>5. \A p \in ToSet(w) : p[1] >= k /\ p[2] >= l
  BY <1>2 DEF Path
<1>6. \A p \in ToSet(w) : p[1] >= c[1] /\ p[2] >= c[2]
  BY <1>2, <1>4, <1>5
<1>7. PICK from : IsTotals(from, t, ToSet(w)) /\ from[k] = Best(t)[d]
  BY <1>2 DEF Path
<1>8. from[i] = from[k]
  <2>1. CASE i = k
    BY <2>1
  <2>2. CASE i # k
    <3>1. k = i + 1 /\ i \in 1..Rows(t)
      BY <1>2, <2>2
    <3> QED  BY <1>3, <1>5, <1>7, <3>1, RowSkipped
  <2> QED  BY <2>1, <2>2
<1> QED  BY <1>2, <1>3, <1>6, <1>7, <1>8 DEF Path

\* A walk that matches.
LEMMA PathMatches ==
  ASSUME NEW t, IsTable(t), NEW w, NEW i \in 1..Rows(t), NEW j \in 1..Columns(t),
         InsideBand(t, i, j), Matchable(t, i, j), Path(t, w, <<i + 1, j + 1>>),
         t.score[i][j] + Best(t)[<<i + 1, j + 1>>] = Best(t)[<<i, j>>]
  PROVE  Path(t, <<<<i, j>>>> \o w, <<i, j>>)
<1>1. PICK n \in Nat, m \in Nat : n = Rows(t) /\ m = Columns(t)
  BY TableFact
<1> DEFINE s == ToSet(w)
           r == {<<i, j>>} \cup s
           u == <<<<i, j>>>> \o w
<1>2. i \in 1..n /\ j \in 1..m /\ <<i, j>> \in Nat \X Nat
  BY <1>1
<1>3. u \in Seq(Nat \X Nat) /\ ToSet(u) = r
  BY <1>2, ConcatOne, ZenonT(60) DEF Path
<1>4. s \in Alignments(t) /\ \A p \in s : p[1] >= i + 1 /\ p[2] >= j + 1
  BY DEF Path
<1>5. PICK from : IsTotals(from, t, s) /\ from[i + 1] = Best(t)[<<i + 1, j + 1>>]
  BY DEF Path
<1> HIDE DEF s, u
<1>6. \A p \in s : p \in (1..n) \X (1..m)
  BY <1>1, <1>4 DEF Alignments, Cells
<1>7. <<i, j>> \in Cells(t)
  <2>1. j \in Lo(t, i)..Hi(t, i)
    BY <1>1, <1>2, BandFact DEF InsideBand
  <2> QED  BY <1>1, <1>2, <2>1 DEF Cells, InBand
<1>8. r \in Alignments(t)
  <2>1. r \in SUBSET Cells(t)
    BY <1>4, <1>7 DEF Alignments
  <2>2. ASSUME NEW p \in s
        PROVE  i < p[1] /\ j < p[2] /\ ~(p[1] < i) /\ ~(p[2] < j) /\ p[1] # i
    <3>1. p[1] \in 1..n /\ p[2] \in 1..m /\ p[1] >= i + 1 /\ p[2] >= j + 1
      BY <1>4, <1>6
    <3> QED  BY <1>2, <3>1
  <2>3. ASSUME NEW p \in r, NEW q \in r, p # q
        PROVE  (p[1] < q[1] <=> p[2] < q[2]) /\ p[1] # q[1]
    <3>1. CASE p \in s /\ q \in s
      BY <1>4, <2>3, <3>1 DEF Alignments
    <3>2. CASE p = <<i, j>> /\ q \in s
      BY <2>2, <3>2
    <3>3. CASE p \in s /\ q = <<i, j>>
      BY <2>2, <3>3
    <3> QED  BY <2>3, <3>1, <3>2, <3>3
  <2> HIDE DEF r
  <2> QED  BY <2>1, <2>3 DEF Alignments
<1>9. \A p \in r : p[1] >= i /\ p[2] >= j
  <2>1. ASSUME NEW p \in s PROVE p[1] >= i /\ p[2] >= j
    <3>1. p[1] \in 1..n /\ p[2] \in 1..m /\ p[1] >= i + 1 /\ p[2] >= j + 1
      BY <1>4, <1>6
    <3> QED  BY <1>2, <3>1
  <2> QED  BY <1>2, <2>1
<1>10. PICK g : IsTotals(g, t, r)
  BY TotalsExist
<1>11. g[i + 1] = from[i + 1]
  <2>1. ASSUME NEW k \in 1..Rows(t), k >= i + 1 PROVE RowScore(t, r, k) = RowScore(t, s, k)
    <3>1. k # i
      BY <1>2, <2>1
    <3>2. \A l : <<k, l>> \in r <=> <<k, l>> \in s
      BY <3>1
    <3> HIDE DEF r
    <3> QED  BY <3>2 DEF RowScore
  <2>2. i + 1 \in 1..Rows(t) + 1
    BY <1>1, <1>2
  <2> HIDE DEF r
  <2> QED  BY <1>5, <1>10, <2>1, <2>2, TotalsAgree
<1>12. g[i] = Best(t)[<<i, j>>]
  <2>1. RowScore(t, r, i) = t.score[i][j]
    BY <1>8, RowFact
  <2>2. g[i] = RowScore(t, r, i) + g[i + 1]
    BY <1>10 DEF IsTotals
  <2> QED  BY <1>5, <1>11, <2>1, <2>2
<1> HIDE DEF r
<1>13. Path(t, u, <<i, j>>)
  BY <1>3, <1>8, <1>9, <1>10, <1>12 DEF Path
<1> QED  BY <1>13 DEF u

\* Every walk is an alignment of the suffixes and reaches their best total.
LEMMA WalkPaths ==
  ASSUME NEW t, IsTable(t), NEW walk, IsWalk(walk, t)
  PROVE  \A c \in Corners(t) : Path(t, walk[c], c)
<1> DEFINE Bad == {c \in Corners(t) : ~Path(t, walk[c], c)}
<1>1. SUFFICES ASSUME Bad # {} PROVE FALSE
  OBVIOUS
<1> HIDE DEF Bad
<1>2. PICK c \in Bad : \A d \in Beyond(t, c[1], c[2]) : d \notin Bad
  BY <1>1, LastCorner DEF Bad
<1>3. c \in Corners(t) /\ ~Path(t, walk[c], c)
  BY DEF Bad
<1>4. PICK n \in Nat, m \in Nat : n = Rows(t) /\ m = Columns(t)
  BY TableFact
<1>5. PICK i \in 1..n + 1, j \in 1..m + 1 : i = c[1] /\ j = c[2] /\ c = <<i, j>>
  BY <1>3, <1>4 DEF Corners
<1>6. walk[c] = WalkAt(t, Best(t), walk, i, j)
  BY <1>3, <1>5, WalkCases
<1>7. \A d \in Beyond(t, i, j) : Path(t, walk[d], d)
  BY <1>2, <1>5 DEF Bad, Beyond
<1>8. CASE i > n \/ j > m
  <2>1. i = n + 1 \/ j = m + 1
    BY <1>8
  <2>2. Best(t)[c] = 0
    BY <1>4, <1>5, <2>1, BestAtEnd
  <2>3. walk[c] = <<>>
    BY <1>4, <1>6, <1>8 DEF WalkAt
  <2> QED  BY <1>3, <2>2, <2>3, PathAtEnd
<1>9. CASE ~(i > n \/ j > m)
  <2>1. i \in 1..Rows(t) /\ j \in 1..Columns(t) /\ i \in Int /\ j \in Int
    BY <1>4, <1>9
  <2>2. ~(i > Rows(t) \/ j > Columns(t))
    BY <1>4, <1>9
  <2>3. /\ <<i + 1, j>> \in Corners(t) /\ <<i, j + 1>> \in Corners(t)
        /\ <<i + 1, j + 1>> \in Corners(t) /\ <<i, Lo(t, i)>> \in Corners(t)
    BY <2>1, NextCorners
  <2>4. /\ Path(t, walk[<<i + 1, j>>], <<i + 1, j>>) /\ Path(t, walk[<<i, j + 1>>], <<i, j + 1>>)
        /\ Path(t, walk[<<i + 1, j + 1>>], <<i + 1, j + 1>>)
        /\ j < Lo(t, i) => Path(t, walk[<<i, Lo(t, i)>>], <<i, Lo(t, i)>>)
    BY <1>7, <2>1, NextBeyond
  <2>5. CASE j < Lo(t, i)
    <3>1. walk[c] = walk[<<i, Lo(t, i)>>]
      BY <1>6, <2>2, <2>5 DEF WalkAt
    <3>2. Best(t)[c] = Best(t)[<<i, Lo(t, i)>>]
      BY <1>5, <2>1, <2>5, BestLeft
    <3>3. j <= Lo(t, i)
      BY <2>1, <2>5, BandFact
    <3>4. Path(t, walk[<<i, Lo(t, i)>>], c)
      BY <1>3, <1>5, <2>3, <2>4, <2>5, <3>2, <3>3, PathMoves
    <3> QED  BY <1>3, <3>1, <3>4
  <2>6. ASSUME Best(t)[c] = Best(t)[<<i + 1, j>>] PROVE Path(t, walk[<<i + 1, j>>], c)
    <3>1. j <= j
      BY <2>1
    <3> QED  BY <1>3, <1>5, <2>1, <2>3, <2>4, <2>6, <3>1, PathMoves
  <2>7. CASE ~(j < Lo(t, i)) /\ j > Hi(t, i)
    <3>1. walk[c] = walk[<<i + 1, j>>]
      BY <1>6, <2>2, <2>7 DEF WalkAt
    <3>2. Best(t)[c] = Best(t)[<<i + 1, j>>]
      BY <1>5, <2>1, <2>7, BestRight
    <3> QED  BY <1>3, <2>6, <3>1, <3>2
  <2>8. CASE InsideBand(t, i, j)
    <3>1. ~(j < Lo(t, i)) /\ ~(j > Hi(t, i))
      BY <2>8 DEF InsideBand
    <3>2. CASE Match(t, Best(t), i, j)
      <4>1. walk[c] = <<<<i, j>>>> \o walk[<<i + 1, j + 1>>]
        BY <1>6, <2>2, <3>1, <3>2 DEF WalkAt
      <4>2. Path(t, walk[c], <<i, j>>)
        BY <2>1, <2>4, <2>8, <3>2, <4>1, PathMatches DEF Match
      <4> QED  BY <1>3, <1>5, <4>2
    <3>3. CASE ~Match(t, Best(t), i, j) /\ SkipA(t, Best(t), i, j)
      <4>1. walk[c] = walk[<<i + 1, j>>]
        BY <1>6, <2>2, <3>1, <3>3 DEF WalkAt
      <4>2. Best(t)[c] = Best(t)[<<i + 1, j>>]
        BY <1>5, <3>3 DEF SkipA
      <4> QED  BY <1>3, <2>6, <4>1, <4>2
    <3>4. CASE ~Match(t, Best(t), i, j) /\ ~SkipA(t, Best(t), i, j)
      <4>1. walk[c] = walk[<<i, j + 1>>]
        BY <1>6, <2>2, <3>1, <3>4 DEF WalkAt
      <4>2. Best(t)[c] = Best(t)[<<i, j + 1>>]
        <5>1. PICK v, x, y, w, d \in Nat :
                /\ v = Best(t)[<<i, j>>] /\ x = Best(t)[<<i + 1, j>>] /\ y = Best(t)[<<i, j + 1>>]
                /\ w = t.score[i][j] /\ d = Best(t)[<<i + 1, j + 1>>]
                /\ v >= x /\ v >= y /\ (Matchable(t, i, j) => v >= w + d)
                /\ v = x \/ v = y \/ (Matchable(t, i, j) /\ v = w + d)
          BY <2>1, <2>8, BestInside
        <5>2. ~(Matchable(t, i, j) /\ v = w + d)
          BY <3>4, <5>1 DEF Match
        <5>3. v = x => v = y
          BY <3>4, <5>1 DEF SkipA
        <5> QED  BY <1>5, <5>1, <5>2, <5>3
      <4>3. j <= j + 1
        BY <2>1
      <4>4. Path(t, walk[<<i, j + 1>>], c)
        BY <1>3, <1>5, <2>3, <2>4, <4>2, <4>3, PathMoves
      <4> QED  BY <1>3, <4>1, <4>4
    <3> QED  BY <3>2, <3>3, <3>4
  <2> QED  BY <2>5, <2>7, <2>8 DEF InsideBand
<1> QED  BY <1>8, <1>9

\* What alignSequences answers is an alignment, and no other is better.
LEMMA AlignedBest ==
  ASSUME NEW t, IsTable(t)
  PROVE  /\ AlignSequences(t) \in Seq(Nat \X Nat)
         /\ ToSet(AlignSequences(t)) \in Alignments(t)
         /\ \A other \in Alignments(t) :
              Total(t, other) <= Total(t, ToSet(AlignSequences(t)))
<1>1. PICK walk : IsWalk(walk, t) /\ AlignSequences(t) = walk[<<1, 1>>]
  BY WalkFilled
<1>2. PICK n \in Nat, m \in Nat : n = Rows(t) /\ m = Columns(t)
  BY TableFact
<1>3. <<1, 1>> \in Corners(t)
  BY <1>2 DEF Corners
<1> DEFINE w == AlignSequences(t)
<1>4. Path(t, w, <<1, 1>>)
  BY <1>1, <1>3, WalkPaths
<1> HIDE DEF w
<1>5. w \in Seq(Nat \X Nat) /\ ToSet(w) \in Alignments(t)
  BY <1>4 DEF Path
<1>6. PICK from : IsTotals(from, t, ToSet(w)) /\ from[1] = Best(t)[<<1, 1>>]
  BY <1>4 DEF Path
<1>7. PICK g : IsTotals(g, t, ToSet(w)) /\ Total(t, ToSet(w)) = g[1]
  BY TotalsExist
<1>8. g[1] = from[1]
  <2>1. 1 \in 1..Rows(t) + 1
    BY <1>2
  <2> QED  BY <1>6, <1>7, <2>1, TotalsAgree
<1>9. ASSUME NEW other \in Alignments(t) PROVE Total(t, other) <= Total(t, ToSet(w))
  <2>1. PICK h : IsTotals(h, t, other) /\ Total(t, other) = h[1]
    BY TotalsExist
  <2>2. \A p \in other : p[1] >= 1 => p[2] >= 1
    BY <1>2 DEF Alignments, Cells
  <2>3. h[1] <= Best(t)[<<1, 1>>]
    BY <1>3, <2>1, <2>2, BestIsBound
  <2> QED  BY <1>6, <1>7, <1>8, <2>1, <2>3
<1> QED  BY <1>5, <1>9 DEF w

-----------------------------------------------------------------------------
(* Swapping two sequences mirrors the walk, in a table with neither a band  *)
(* nor a tie between equal ids.                                             *)

\* A table with its sequences swapped.
LEMMA SwappedFact ==
  ASSUME NEW t, IsTable(t)
  PROVE  /\ IsTable(Swapped(t)) /\ Rows(Swapped(t)) = Columns(t) /\ Columns(Swapped(t)) = Rows(t)
         /\ Swapped(t).idA = t.idB /\ Swapped(t).idB = t.idA
         /\ \A i \in 1..Rows(t), j \in 1..Columns(t) : Swapped(t).score[j][i] = t.score[i][j]
<1> DEFINE u == Swapped(t)
<1>1. /\ u.idA = t.idB /\ u.idB = t.idA
      /\ u.score = [j \in 1..Columns(t) |-> [i \in 1..Rows(t) |-> t.score[i][j]]]
  BY DEF Swapped
<1> HIDE DEF u
<1>2. Rows(u) = Columns(t) /\ Columns(u) = Rows(t)
  BY <1>1 DEF Rows, Columns
<1>3. \A i \in 1..Rows(t), j \in 1..Columns(t) : u.score[j][i] = t.score[i][j]
  BY <1>1
<1>4. u.idA \in Seq(Nat) /\ u.idB \in Seq(Nat)
  BY <1>1 DEF IsTable
<1>5. u.score \in [1..Columns(t) -> [1..Rows(t) -> Nat]]
  <2>1. ASSUME NEW j \in 1..Columns(t) PROVE u.score[j] \in [1..Rows(t) -> Nat]
    <3>1. u.score[j] = [i \in 1..Rows(t) |-> t.score[i][j]]
      BY <1>1
    <3>2. \A i \in 1..Rows(t) : t.score[i][j] \in Nat
      BY TableFact
    <3> QED  BY <3>1, <3>2
  <2> QED  BY <1>1, <2>1
<1>6. IsTable(u)
  BY <1>1, <1>4, <1>5 DEF IsTable, Rows, Columns
<1> QED  BY <1>1, <1>2, <1>3, <1>6 DEF u

\* The corner of the swapped table, and the cells that are alike.
Turned(c) == <<c[2], c[1]>>

\* Without a band, the cells are as matchable as before.
LEMMA MirrorFact ==
  ASSUME NEW t, IsTable(t), MayMirror(t), NEW i \in 1..Rows(t), NEW j \in 1..Columns(t)
  PROVE  /\ InsideBand(t, i, j) /\ InsideBand(Swapped(t), j, i)
         /\ Matchable(Swapped(t), j, i) <=> Matchable(t, i, j)
<1>1. PICK n \in Nat, m \in Nat : n = Rows(t) /\ m = Columns(t)
  BY TableFact
<1>2. /\ IsTable(Swapped(t)) /\ Rows(Swapped(t)) = m /\ Columns(Swapped(t)) = n
      /\ Swapped(t).score[j][i] = t.score[i][j]
  BY <1>1, SwappedFact
<1>3. ~Bounded(t) /\ ~Bounded(Swapped(t))
  <2>1. n * m = m * n
    BY <1>1
  <2> QED  BY <1>1, <1>2, <2>1 DEF MayMirror, Bounded
<1>4. Lo(t, i) = 1 /\ Hi(t, i) = m
  BY <1>1, <1>3, BandFact
<1>5. Lo(Swapped(t), j) = 1 /\ Hi(Swapped(t), j) = n
  BY <1>1, <1>2, <1>3, BandFact
<1>6. InsideBand(t, i, j) /\ InsideBand(Swapped(t), j, i)
  BY <1>1, <1>4, <1>5 DEF InsideBand
<1> QED  BY <1>2, <1>6 DEF Matchable

\* Two elements of which either may be skipped have different ids.
LEMMA NoEvenTie ==
  ASSUME NEW t, IsTable(t), MayMirror(t), NEW i \in 1..Rows(t), NEW j \in 1..Columns(t),
         ~Match(t, Best(t), i, j),
         Best(t)[<<i + 1, j>>] = Best(t)[<<i, j>>], Best(t)[<<i, j + 1>>] = Best(t)[<<i, j>>]
  PROVE  t.idA[i] # t.idB[j]
<1> DEFINE best == [c \in Corners(t) |-> Best(t)[c]]
<1>1. ~EvenTie(t, best, i, j)
  BY DEF MayMirror
<1>2. /\ <<i, j>> \in Corners(t) /\ <<i + 1, j>> \in Corners(t) /\ <<i, j + 1>> \in Corners(t)
      /\ <<i + 1, j + 1>> \in Corners(t)
  BY NextCorners
<1>3. /\ best[<<i, j>>] = Best(t)[<<i, j>>] /\ best[<<i + 1, j>>] = Best(t)[<<i + 1, j>>]
      /\ best[<<i, j + 1>>] = Best(t)[<<i, j + 1>>]
      /\ best[<<i + 1, j + 1>>] = Best(t)[<<i + 1, j + 1>>]
  BY <1>2
<1> HIDE DEF best
<1>4. Match(t, best, i, j) <=> Match(t, Best(t), i, j)
  BY <1>3 DEF Match
<1> QED  BY <1>1, <1>3, <1>4 DEF EvenTie

\* A corner turned is one of the swapped table.
LEMMA TurnedCorner ==
  ASSUME NEW t, IsTable(t), NEW c \in Corners(t)
  PROVE  Turned(c) \in Corners(Swapped(t))
BY SwappedFact DEF Corners, Turned

\* The totals are the same.
LEMMA BestMirrors ==
  ASSUME NEW t, IsTable(t), MayMirror(t)
  PROVE  \A c \in Corners(t) : Best(Swapped(t))[Turned(c)] = Best(t)[c]
<1> DEFINE u == Swapped(t)
           Bad == {c \in Corners(t) : Best(u)[Turned(c)] # Best(t)[c]}
<1>1. SUFFICES ASSUME Bad # {} PROVE FALSE
  OBVIOUS
<1> HIDE DEF Bad
<1>2. PICK c \in Bad : \A d \in Beyond(t, c[1], c[2]) : d \notin Bad
  BY <1>1, LastCorner DEF Bad
<1>3. c \in Corners(t) /\ Best(u)[Turned(c)] # Best(t)[c]
  BY DEF Bad
<1>4. PICK n \in Nat, m \in Nat : n = Rows(t) /\ m = Columns(t)
  BY TableFact
<1>5. PICK i \in 1..n + 1, j \in 1..m + 1 : c = <<i, j>> /\ i = c[1] /\ j = c[2]
  BY <1>3, <1>4 DEF Corners
<1>6. Turned(c) = <<j, i>>
  BY <1>5 DEF Turned
<1>7. \A d \in Beyond(t, i, j) : Best(u)[<<d[2], d[1]>>] = Best(t)[d]
  BY <1>2, <1>5 DEF Bad, Beyond, Turned
<1>8. IsTable(u) /\ Rows(u) = m /\ Columns(u) = n
  BY <1>4, SwappedFact
<1> HIDE DEF u
<1>9. CASE i = n + 1 \/ j = m + 1
  <2>1. Best(t)[<<i, j>>] = 0
    BY <1>4, <1>9, BestAtEnd
  <2>2. Best(u)[<<j, i>>] = 0
    BY <1>8, <1>9, BestAtEnd
  <2> QED  BY <1>3, <1>5, <1>6, <2>1, <2>2
<1>10. CASE ~(i = n + 1 \/ j = m + 1)
  <2>1. /\ i \in 1..Rows(t) /\ j \in 1..Columns(t) /\ j \in 1..Rows(u) /\ i \in 1..Columns(u)
    BY <1>4, <1>8, <1>10
  <2>2. /\ InsideBand(t, i, j) /\ InsideBand(u, j, i)
        /\ Matchable(u, j, i) <=> Matchable(t, i, j)
        /\ u.score[j][i] = t.score[i][j]
    BY <2>1, MirrorFact, SwappedFact DEF u
  <2>3. i \in 1..Rows(t) /\ j \in 1..Columns(t)
    BY <2>1
  <2>4. InsideBand(t, i, j)
    BY <2>2
  <2>5. InsideBand(u, j, i)
    BY <2>2
  <2>6. IsTable(u)
    BY <1>8
  <2>7. j \in 1..Rows(u) /\ i \in 1..Columns(u)
    BY <2>1
  <2>8. PICK v, x, y, w, d \in Nat :
          /\ v = Best(t)[<<i, j>>] /\ x = Best(t)[<<i + 1, j>>] /\ y = Best(t)[<<i, j + 1>>]
          /\ w = t.score[i][j] /\ d = Best(t)[<<i + 1, j + 1>>]
          /\ v >= x /\ v >= y /\ (Matchable(t, i, j) => v >= w + d)
          /\ v = x \/ v = y \/ (Matchable(t, i, j) /\ v = w + d)
    BY <2>3, <2>4, BestInside
  <2>9. PICK v1, x1, y1, w1, d1 \in Nat :
          /\ v1 = Best(u)[<<j, i>>] /\ x1 = Best(u)[<<j + 1, i>>] /\ y1 = Best(u)[<<j, i + 1>>]
          /\ w1 = u.score[j][i] /\ d1 = Best(u)[<<j + 1, i + 1>>]
          /\ v1 >= x1 /\ v1 >= y1 /\ (Matchable(u, j, i) => v1 >= w1 + d1)
          /\ v1 = x1 \/ v1 = y1 \/ (Matchable(u, j, i) /\ v1 = w1 + d1)
    BY <2>6, <2>7, <2>5, BestInside
  <2>10. /\ Best(u)[<<j, i + 1>>] = Best(t)[<<i + 1, j>>] /\ Best(u)[<<j + 1, i>>] = Best(t)[<<i, j + 1>>]
        /\ Best(u)[<<j + 1, i + 1>>] = Best(t)[<<i + 1, j + 1>>]
    BY <1>7, <2>1, NextBeyond
  <2>11. x1 = y /\ y1 = x /\ w1 = w /\ d1 = d
    BY <2>2, <2>8, <2>9, <2>10
  <2>12. v1 = v
    BY <2>2, <2>8, <2>9, <2>11
  <2> QED  BY <1>3, <1>5, <1>6, <2>8, <2>9, <2>12
<1> QED  BY <1>9, <1>10

Mirrors(r, s) == Len(r) = Len(s) /\ \A k \in 1..Len(s) : r[k] = <<s[k][2], s[k][1]>>

\* The walk takes the mirrored steps: where both skips are optimal the ids decide.
LEMMA WalkMirrors ==
  ASSUME NEW t, IsTable(t), MayMirror(t), NEW a, IsWalk(a, t), NEW b, IsWalk(b, Swapped(t))
  PROVE  \A c \in Corners(t) : Mirrors(b[Turned(c)], a[c])
<1> DEFINE u == Swapped(t)
           Bad == {c \in Corners(t) : ~Mirrors(b[Turned(c)], a[c])}
<1>1. SUFFICES ASSUME Bad # {} PROVE FALSE
  OBVIOUS
<1> HIDE DEF Bad
<1>2. PICK c \in Bad : \A d \in Beyond(t, c[1], c[2]) : d \notin Bad
  BY <1>1, LastCorner DEF Bad
<1>3. c \in Corners(t) /\ ~Mirrors(b[Turned(c)], a[c])
  BY DEF Bad
<1>4. PICK n \in Nat, m \in Nat : n = Rows(t) /\ m = Columns(t)
  BY TableFact
<1>5. PICK i \in 1..n + 1, j \in 1..m + 1 : c = <<i, j>> /\ i = c[1] /\ j = c[2]
  BY <1>3, <1>4 DEF Corners
<1>6. Turned(c) = <<j, i>> /\ Turned(c) \in Corners(u)
  BY <1>3, <1>5, TurnedCorner DEF Turned
<1>7. \A d \in Beyond(t, i, j) : Mirrors(b[<<d[2], d[1]>>], a[d])
  BY <1>2, <1>5 DEF Bad, Beyond, Turned
<1>8. IsTable(u) /\ Rows(u) = m /\ Columns(u) = n /\ u.idA = t.idB /\ u.idB = t.idA
  BY <1>4, SwappedFact
<1>9. a[c] = WalkAt(t, Best(t), a, i, j)
  BY <1>3, <1>5, WalkCases
<1>10. b[<<j, i>>] = WalkAt(u, Best(u), b, j, i)
  <2>1. b[Turned(c)] = WalkAt(u, Best(u), b, Turned(c)[1], Turned(c)[2])
    BY <1>6, <1>8, WalkCases
  <2> QED  BY <1>6, <2>1
<1> DEFINE bt == Best(t)
           bu == Best(u)
<1>11. \A d \in Corners(t) : bu[<<d[2], d[1]>>] = bt[d]
  BY BestMirrors DEF Turned
<1> HIDE DEF u
<1>12. CASE i > n \/ j > m
  <2>1. a[c] = <<>> /\ b[<<j, i>>] = <<>>
    BY <1>4, <1>8, <1>9, <1>10, <1>12 DEF WalkAt
  <2> QED  BY <1>3, <1>6, <2>1 DEF Mirrors
<1>13. CASE ~(i > n \/ j > m)
  <2>1. /\ i \in 1..Rows(t) /\ j \in 1..Columns(t) /\ j \in 1..Rows(u) /\ i \in 1..Columns(u)
        /\ ~(i > Rows(t) \/ j > Columns(t)) /\ ~(j > Rows(u) \/ i > Columns(u))
    BY <1>4, <1>8, <1>13
  <2>2. /\ InsideBand(t, i, j) /\ InsideBand(u, j, i)
        /\ Matchable(u, j, i) <=> Matchable(t, i, j)
        /\ u.score[j][i] = t.score[i][j]
    BY <2>1, MirrorFact, SwappedFact DEF u
  <2>3. i \in 1..Rows(t) /\ j \in 1..Columns(t)
    BY <2>1
  <2>4. InsideBand(t, i, j)
    BY <2>2
  <2>5. InsideBand(u, j, i)
    BY <2>2
  <2>6. /\ <<i, j>> \in Corners(t) /\ <<i + 1, j>> \in Corners(t) /\ <<i, j + 1>> \in Corners(t)
        /\ <<i + 1, j + 1>> \in Corners(t)
    BY <2>1, NextCorners
  <2>7. /\ bu[<<j, i>>] = bt[<<i, j>>] /\ bu[<<j, i + 1>>] = bt[<<i + 1, j>>]
        /\ bu[<<j + 1, i>>] = bt[<<i, j + 1>>] /\ bu[<<j + 1, i + 1>>] = bt[<<i + 1, j + 1>>]
    BY <1>11, <2>6
  <2>8. /\ Mirrors(b[<<j, i + 1>>], a[<<i + 1, j>>]) /\ Mirrors(b[<<j + 1, i>>], a[<<i, j + 1>>])
        /\ Mirrors(b[<<j + 1, i + 1>>], a[<<i + 1, j + 1>>])
    BY <1>7, <2>1, NextBeyond
  <2>9. ~(j < Lo(t, i)) /\ ~(j > Hi(t, i)) /\ ~(i < Lo(u, j)) /\ ~(i > Hi(u, j))
    BY <2>2 DEF InsideBand
  <2>10. Match(u, bu, j, i) <=> Match(t, bt, i, j)
    BY <2>2, <2>7 DEF Match
  <2>11. CASE Match(t, bt, i, j)
    <3>1. a[c] = <<<<i, j>>>> \o a[<<i + 1, j + 1>>] /\ b[<<j, i>>] = <<<<j, i>>>> \o b[<<j + 1, i + 1>>]
      BY <1>9, <1>10, <2>1, <2>9, <2>10, <2>11 DEF WalkAt
    <3> DEFINE s == a[<<i + 1, j + 1>>]
               r == b[<<j + 1, i + 1>>]
    <3>2. s \in Seq(Nat \X Nat)
      BY <2>6, WalkPaths DEF Path
    <3>3. <<j + 1, i + 1>> \in Corners(u) /\ Path(u, r, <<j + 1, i + 1>>)
      BY <1>8, <2>1, NextCorners, WalkPaths DEF u
    <3>4. r \in Seq(Nat \X Nat) /\ Mirrors(r, s)
      BY <2>8, <3>3 DEF Path
    <3>5. <<i, j>> \in Nat \X Nat /\ <<j, i>> \in Nat \X Nat
      BY <1>4
    <3> HIDE DEF s, r
    <3> DEFINE x == <<i, j>>
               y == <<j, i>>
    <3>6. x \in Nat \X Nat /\ y \in Nat \X Nat /\ y = <<x[2], x[1]>>
      BY <3>5
    <3> HIDE DEF x, y
    <3>7. Mirrors(<<y>> \o r, <<x>> \o s)
      <4>1. /\ Len(<<x>> \o s) = Len(s) + 1 /\ (<<x>> \o s)[1] = x
            /\ \A k \in 1..Len(s) : (<<x>> \o s)[k + 1] = s[k]
        BY <3>2, <3>6, ConcatOne
      <4>2. /\ Len(<<y>> \o r) = Len(r) + 1 /\ (<<y>> \o r)[1] = y
            /\ \A k \in 1..Len(r) : (<<y>> \o r)[k + 1] = r[k]
        BY <3>4, <3>6, ConcatOne
      <4> DEFINE e == <<x>> \o s
                 f == <<y>> \o r
      <4> HIDE DEF e, f
      <4>3. PICK l \in Nat : l = Len(s)
        BY <3>2
      <4>4. Len(r) = l /\ \A k \in 1..l : r[k] = <<s[k][2], s[k][1]>>
        BY <3>4, <4>3 DEF Mirrors
      <4>5. ASSUME NEW k \in 1..(l + 1) PROVE f[k] = <<e[k][2], e[k][1]>>
        <5>1. CASE k = 1
          BY <3>6, <4>1, <4>2, <5>1 DEF e, f
        <5>2. CASE k # 1
          <6>1. k - 1 \in 1..l /\ (k - 1) + 1 = k
            BY <5>2
          <6>2. e[(k - 1) + 1] = s[k - 1] /\ f[(k - 1) + 1] = r[k - 1]
            BY <4>1, <4>2, <4>3, <4>4, <6>1 DEF e, f
          <6> QED  BY <4>4, <6>1, <6>2
        <5> QED  BY <5>1, <5>2
      <4>6. Len(e) = l + 1 /\ Len(f) = l + 1
        BY <4>1, <4>2, <4>3, <4>4 DEF e, f
      <4>7. Mirrors(f, e)
        BY <4>5, <4>6 DEF Mirrors
      <4> QED  BY <4>7 DEF e, f
    <3> QED  BY <1>3, <1>6, <3>1, <3>7 DEF s, r, x, y
  <2>12. CASE ~Match(t, bt, i, j)
    <3>1. a[c] = IF SkipA(t, bt, i, j) THEN a[<<i + 1, j>>] ELSE a[<<i, j + 1>>]
      BY <1>9, <2>1, <2>9, <2>12 DEF WalkAt
    <3>2. b[<<j, i>>] = IF SkipA(u, bu, j, i) THEN b[<<j + 1, i>>] ELSE b[<<j, i + 1>>]
      BY <1>10, <2>1, <2>9, <2>10, <2>12 DEF WalkAt
    <3>3. SkipA(u, bu, j, i) <=> ~SkipA(t, bt, i, j)
      <4>1. PICK v, x, y, w, d \in Nat :
              /\ v = Best(t)[<<i, j>>] /\ x = Best(t)[<<i + 1, j>>] /\ y = Best(t)[<<i, j + 1>>]
              /\ w = t.score[i][j] /\ d = Best(t)[<<i + 1, j + 1>>]
              /\ v >= x /\ v >= y /\ (Matchable(t, i, j) => v >= w + d)
              /\ v = x \/ v = y \/ (Matchable(t, i, j) /\ v = w + d)
        BY <2>3, <2>4, BestInside
      <4>2. v = x \/ v = y
        BY <2>12, <4>1 DEF Match
      <4>3. PICK p \in Nat, q \in Nat : p = t.idA[i] /\ q = t.idB[j] /\ (x = v /\ y = v => p # q)
        <5>1. x = v /\ y = v => t.idA[i] # t.idB[j]
          BY <2>3, <2>12, <4>1, NoEvenTie
        <5> QED  BY <2>1, <5>1, TableFact
      <4>4. SkipA(t, bt, i, j) <=> (x = v /\ (y = v => p >= q))
        BY <4>1, <4>3 DEF SkipA
      <4>5. SkipA(u, bu, j, i) <=> (y = v /\ (x = v => q >= p))
        BY <1>8, <2>7, <4>1, <4>3 DEF SkipA
      <4> QED  BY <4>2, <4>3, <4>4, <4>5
    <3> QED  BY <1>3, <1>6, <2>8, <3>1, <3>2, <3>3
  <2> QED  BY <2>11, <2>12
<1> QED  BY <1>12, <1>13

\* Swapping mirrors what is aligned, pair by pair.
LEMMA AlignedMirrors ==
  ASSUME NEW t, IsTable(t), MayMirror(t)
  PROVE  /\ Len(AlignSequences(Swapped(t))) = Len(AlignSequences(t))
         /\ ToSet(AlignSequences(Swapped(t))) = Mirror(ToSet(AlignSequences(t)))
<1>1. IsTable(Swapped(t))
  BY SwappedFact
<1>2. PICK a : IsWalk(a, t) /\ AlignSequences(t) = a[<<1, 1>>]
  BY WalkFilled
<1>3. PICK b : IsWalk(b, Swapped(t)) /\ AlignSequences(Swapped(t)) = b[<<1, 1>>]
  BY <1>1, WalkFilled
<1>4. <<1, 1>> \in Corners(t) /\ Turned(<<1, 1>>) = <<1, 1>>
  BY TableFact DEF Corners, Turned
<1> DEFINE s == AlignSequences(t)
           r == AlignSequences(Swapped(t))
<1>5. Mirrors(r, s)
  <2>1. \A c \in Corners(t) : Mirrors(b[Turned(c)], a[c])
    BY <1>2, <1>3, WalkMirrors
  <2>2. Mirrors(b[Turned(<<1, 1>>)], a[<<1, 1>>])
    BY <1>4, <2>1
  <2> QED  BY <1>2, <1>3, <1>4, <2>2
<1>6. s \in Seq(Nat \X Nat) /\ r \in Seq(Nat \X Nat)
  BY <1>1, AlignedBest
<1> HIDE DEF s, r
<1>7. Len(r) = Len(s) /\ DOMAIN s = 1..Len(s) /\ DOMAIN r = 1..Len(s)
  BY <1>5, <1>6 DEF Mirrors
<1>8. \A k \in 1..Len(s) : r[k] = <<s[k][2], s[k][1]>>
  BY <1>5 DEF Mirrors
<1>9. ToSet(r) = Mirror(ToSet(s))
  <2>1. ASSUME NEW k \in 1..Len(s)
        PROVE  r[k] \in Mirror(ToSet(s)) /\ <<s[k][2], s[k][1]>> \in ToSet(r)
    <3>1. s[k] \in ToSet(s) /\ r[k] \in ToSet(r) /\ r[k] = <<s[k][2], s[k][1]>>
      BY <1>7, <1>8 DEF ToSet
    <3> QED  BY <3>1 DEF Mirror
  <2>2. ToSet(s) = {s[k] : k \in 1..Len(s)} /\ ToSet(r) = {r[k] : k \in 1..Len(s)}
    BY <1>7 DEF ToSet
  <2> QED  BY <2>1, <2>2 DEF Mirror
<1> QED  BY <1>7, <1>9 DEF s, r

-----------------------------------------------------------------------------
(* Finite sets, and a set in ascending order.                               *)

\* An image of a finite set.
LEMMA ImageFinite ==
  ASSUME NEW S, IsFiniteSet(S), NEW f
  PROVE  IsFiniteSet({f[x] : x \in S}) /\ Cardinality({f[x] : x \in S}) <= Cardinality(S)
<1> DEFINE T == {f[x] : x \in S}
           g == [x \in S |-> f[x]]
<1>1. g \in Surjection(S, T)
  BY DEF Surjection
<1> HIDE DEF g, T
<1>2. IsFiniteSet(T) /\ Cardinality(T) <= Cardinality(S)
  BY <1>1, FS_Surjection
<1> QED  BY <1>2 DEF T

\* Sets that match one to one.
LEMMA SameCount ==
  ASSUME NEW S, IsFiniteSet(S), NEW T, NEW g \in [S -> T],
         \A x, y \in S : g[x] = g[y] => x = y, \A y \in T : \E x \in S : g[x] = y
  PROVE  IsFiniteSet(T) /\ Cardinality(T) = Cardinality(S)
<1>1. g \in Bijection(S, T)
  BY DEF Bijection, Injection, Surjection, IsInjective
<1>2. ExistsBijection(S, T)
  BY <1>1 DEF ExistsBijection
<1> QED  BY <1>2, FS_Bijection

\* A set that maps into another one to one.
LEMMA FewerCount ==
  ASSUME NEW S, NEW T, IsFiniteSet(T), NEW g \in [S -> T],
         \A x, y \in S : g[x] = g[y] => x = y
  PROVE  IsFiniteSet(S) /\ Cardinality(S) <= Cardinality(T)
<1>1. g \in Injection(S, T)
  BY DEF Injection, IsInjective
<1> QED  BY <1>1, FS_Injection

\* s lists S in ascending order.
Lists(s, S) ==
  /\ s \in Seq(Nat) /\ Len(s) = Cardinality(S) /\ ToSet(s) = S
  /\ \A i, j \in 1..Len(s) : i < j => s[i] < s[j]

\* A finite set of numbers can be listed: its least, then the others.
LEMMA ListExists ==
  ASSUME NEW n \in Nat, NEW S \in SUBSET Nat, IsFiniteSet(S), Cardinality(S) = n
  PROVE  \E s : Lists(s, S)
<1> DEFINE Sets(k) == {T \in SUBSET Nat : IsFiniteSet(T) /\ Cardinality(T) = k}
           Bad == {k \in Nat : \E T \in Sets(k) : ~\E s : Lists(s, T)}
<1>1. SUFFICES ASSUME Bad # {} PROVE FALSE
  OBVIOUS
<1> HIDE DEF Bad
<1>2. PICK k \in Bad : \A l \in Bad : k <= l
  BY <1>1, LeastOf DEF Bad
<1>3. PICK T \in Sets(k) : ~\E s : Lists(s, T)
  BY DEF Bad
<1>4. k \in Nat /\ T \in SUBSET Nat /\ IsFiniteSet(T) /\ Cardinality(T) = k
  BY DEF Bad
<1>5. T # {}
  <2>1. SUFFICES ASSUME T = {} PROVE FALSE
    OBVIOUS
  <2>2. k = 0
    BY <1>4, <2>1, FS_EmptySet
  <2>3. <<>> \in Seq(Nat) /\ Len(<<>>) = 0 /\ ToSet(<<>>) = {}
    BY DEF ToSet
  <2>4. Lists(<<>>, T)
    BY <1>4, <2>1, <2>2, <2>3 DEF Lists
  <2> QED  BY <1>3, <2>4
<1>6. PICK m \in T : \A x \in T : m <= x
  BY <1>4, <1>5, LeastOf
<1> DEFINE U == T \ {m}
<1>7. U \in SUBSET Nat /\ IsFiniteSet(U) /\ Cardinality(U) = k - 1 /\ k - 1 \in Nat
  <2>1. IsFiniteSet(U) /\ Cardinality(U) = k - 1
    BY <1>4, FS_RemoveElement
  <2>2. Cardinality(U) \in Nat
    BY <2>1, FS_CardinalityType
  <2> QED  BY <1>4, <2>1, <2>2
<1>8. k - 1 \notin Bad
  BY <1>2, <1>4, <1>7
<1>9. PICK s : Lists(s, U)
  BY <1>7, <1>8 DEF Bad
<1>10. s \in Seq(Nat) /\ Len(s) = k - 1 /\ ToSet(s) = U /\ m \in Nat
  BY <1>4, <1>6, <1>7, <1>9 DEF Lists
<1>11. \A i \in 1..Len(s) : s[i] \in Nat /\ s[i] > m
  <2>1. ASSUME NEW i \in 1..Len(s) PROVE s[i] \in Nat /\ s[i] > m
    <3>1. s[i] \in ToSet(s)
      BY <1>10 DEF ToSet
    <3>2. s[i] \in T /\ s[i] # m
      BY <1>10, <3>1
    <3>3. PICK x \in Nat : x = s[i]
      BY <1>4, <3>2
    <3>4. m <= x /\ x # m
      BY <1>6, <3>2, <3>3
    <3> QED  BY <1>10, <3>3, <3>4
  <2> QED  BY <2>1
<1> DEFINE r == <<m>> \o s
<1>12. /\ r \in Seq(Nat) /\ Len(r) = Len(s) + 1 /\ r[1] = m
       /\ \A i \in 1..Len(s) : r[i + 1] = s[i]
  BY <1>10, ConcatOne
<1>13. ToSet(r) = T
  <2>1. <<m>> \in Seq(Nat) /\ ToSet(<<m>>) = {m}
    <3>1. DOMAIN <<m>> = {1} /\ <<m>>[1] = m
      OBVIOUS
    <3>2. ToSet(<<m>>) = {m}
      BY <3>1 DEF ToSet
    <3> QED  BY <1>10, <3>2
  <2>2. ToSet(r) = {m} \cup U
    <3>1. PICK w \in Seq(Nat) : w = <<m>>
      BY <2>1
    <3>2. ToSet(w \o s) = ToSet(w) \cup ToSet(s)
      BY <1>10, ConcatElements
    <3> QED  BY <1>10, <2>1, <3>1, <3>2
  <2> QED  BY <1>6, <2>2
<1> HIDE DEF r
<1>14. ASSUME NEW i \in 1..Len(r), NEW j \in 1..Len(r), i < j PROVE r[i] < r[j]
  <2>1. j - 1 \in 1..Len(s) /\ (j - 1) + 1 = j
    BY <1>10, <1>12, <1>14
  <2>2. r[j] = s[j - 1]
    BY <1>12, <2>1
  <2>3. CASE i = 1
    BY <1>10, <1>11, <1>12, <2>1, <2>2, <2>3
  <2>4. CASE i # 1
    <3>1. i - 1 \in 1..Len(s) /\ (i - 1) + 1 = i /\ i - 1 < j - 1
      BY <1>10, <1>12, <1>14, <2>4
    <3>2. r[i] = s[i - 1]
      BY <1>12, <3>1
    <3>3. s[i - 1] < s[j - 1]
      BY <1>9, <2>1, <3>1 DEF Lists
    <3> QED  BY <2>2, <3>2, <3>3
  <2> QED  BY <2>3, <2>4
<1>15. Lists(r, T)
  BY <1>4, <1>10, <1>12, <1>13, <1>14 DEF Lists
<1> QED  BY <1>3, <1>15

\* Ascending lists a finite set of numbers.
LEMMA AscendingFact ==
  ASSUME NEW S \in SUBSET Nat, IsFiniteSet(S)
  PROVE  Lists(Ascending(S), S)
<1>1. Cardinality(S) \in Nat
  BY FS_CardinalityType
<1> DEFINE Good(s) == s \in SetToSeqs(S) /\ \A i, j \in DOMAIN s : i < j => s[i] < s[j]
<1>2. PICK s : Lists(s, S)
  BY <1>1, ListExists
<1>3. Good(s)
  <2>1. DOMAIN s = 1..Cardinality(S)
    BY <1>2 DEF Lists
  <2>2. \A i \in 1..Cardinality(S) : s[i] \in S /\ s[i] \in Nat
    BY <1>2, <2>1 DEF Lists, ToSet
  <2>3. s \in [1..Cardinality(S) -> S]
    BY <1>2, <2>1, <2>2 DEF Lists
  <2>4. ASSUME NEW i \in 1..Cardinality(S), NEW j \in 1..Cardinality(S), i # j PROVE s[i] # s[j]
    <3>1. i < j \/ j < i
      BY <1>1, <2>4
    <3>2. s[i] < s[j] \/ s[j] < s[i]
      BY <1>2, <3>1 DEF Lists
    <3> QED  BY <2>2, <3>2
  <2>5. \A i, j \in 1..Cardinality(S) : i < j => s[i] < s[j]
    BY <1>2 DEF Lists
  <2> QED  BY <2>1, <2>3, <2>4, <2>5 DEF SetToSeqs
<1> DEFINE a == Ascending(S)
<1>4. Good(a)
  BY <1>3 DEF Ascending
<1>5. /\ a \in [1..Cardinality(S) -> S]
      /\ \A i, j \in 1..Cardinality(S) : i # j => a[i] # a[j]
  BY <1>4 DEF SetToSeqs
<1>6. \A i, j \in DOMAIN a : i < j => a[i] < a[j]
  BY <1>4
<1> HIDE DEF a
<1>7. DOMAIN a = 1..Cardinality(S) /\ a \in Seq(Nat) /\ Len(a) = Cardinality(S)
  <2>1. PICK n \in Nat : n = Cardinality(S)
    BY <1>1
  <2>2. a \in [1..n -> Nat]
    BY <1>5, <2>1
  <2>3. a \in Seq(Nat) /\ Len(a) = n
    BY <2>2
  <2> QED  BY <1>5, <2>1, <2>3
<1>8. ToSet(a) = S
  <2>1. a \in Injection(1..Cardinality(S), S)
    BY <1>5 DEF Injection, IsInjective
  <2>2. PICK one \in Int : one = 1
    OBVIOUS
  <2>3. Cardinality(one..Cardinality(S)) = Cardinality(S)
    BY <1>1, <2>2, FS_Interval
  <2>4. a \in Surjection(1..Cardinality(S), S)
    BY <2>1, <2>2, <2>3, FS_Injection
  <2> QED  BY <1>5, <2>4, ZenonT(60) DEF Surjection, ToSet
<1>9. Lists(a, S)
  BY <1>6, <1>7, <1>8 DEF Lists
<1> QED  BY <1>9 DEF a

-----------------------------------------------------------------------------
(* Stages that pair by a key.                                               *)

Pool(free) == free \in SUBSET Nat /\ IsFiniteSet(free)

\* The stages that come up to i under its key.
Up(free, key, i) == {j \in free : j <= i /\ key[j] = key[i]}

\* A rank counts stages.
LEMMA UpFact ==
  ASSUME NEW free, Pool(free), NEW key, NEW i
  PROVE  /\ IsFiniteSet(Up(free, key, i)) /\ Rank(free, key, i) \in Nat
         /\ Rank(free, key, i) = Cardinality(Up(free, key, i))
<1>1. Up(free, key, i) \in SUBSET free
  BY DEF Up
<1>2. IsFiniteSet(Up(free, key, i)) /\ Cardinality(Up(free, key, i)) \in Nat
  BY <1>1, FS_Subset, FS_CardinalityType DEF Pool
<1> QED  BY <1>2 DEF Up, Rank

\* A later stage of a key has a higher rank.
LEMMA RankLess ==
  ASSUME NEW free, Pool(free), NEW key, NEW i \in free, NEW j \in free,
         key[i] = key[j], i < j
  PROVE  Rank(free, key, i) < Rank(free, key, j)
<1>1. i \in Nat /\ j \in Nat
  BY DEF Pool
<1>2. Up(free, key, i) \in SUBSET Up(free, key, j)
  <2>1. ASSUME NEW l \in Up(free, key, i) PROVE l \in Up(free, key, j)
    <3>1. l \in free /\ l \in Nat /\ l <= i /\ key[l] = key[j]
      BY DEF Up, Pool
    <3>2. l <= j
      BY <1>1, <3>1
    <3> QED  BY <3>1, <3>2 DEF Up
  <2> QED  BY <2>1
<1>3. j \in Up(free, key, j) /\ j \notin Up(free, key, i)
  BY <1>1 DEF Up
<1> DEFINE A == Up(free, key, i)
           B == Up(free, key, j)
<1>4. /\ IsFiniteSet(B) /\ Cardinality(A) \in Nat /\ Cardinality(B) \in Nat
      /\ Rank(free, key, i) = Cardinality(A) /\ Rank(free, key, j) = Cardinality(B)
  BY UpFact
<1>5. A \in SUBSET B /\ A # B
  BY <1>2, <1>3
<1> HIDE DEF A, B
<1>6. Cardinality(A) <= Cardinality(B) /\ (Cardinality(B) = Cardinality(A) => B = A)
  BY <1>4, <1>5, FS_Subset
<1> QED  BY <1>4, <1>5, <1>6

\* Below the rank of a stage no rank is left out.
LEMMA RankBelow ==
  ASSUME NEW free, Pool(free), NEW key, NEW i \in free,
         NEW r \in Nat, 1 <= r, r <= Rank(free, key, i)
  PROVE  \E j \in free : key[j] = key[i] /\ Rank(free, key, j) = r
<1> DEFINE Of(l) == key[l] = key[i] /\ r <= Rank(free, key, l)
           From == {l \in free : Of(l)}
<1>1. From \in SUBSET Nat /\ From # {}
  BY DEF Pool
<1> HIDE DEF From
<1>2. PICK j \in From : \A l \in From : j <= l
  BY <1>1, LeastOf
<1>3. j \in free /\ j \in Nat /\ key[j] = key[i] /\ r <= Rank(free, key, j)
  BY DEF From, Pool
<1>4. SUFFICES ASSUME Rank(free, key, j) # r PROVE FALSE
  BY <1>3
<1> DEFINE A == Up(free, key, j)
           B == A \ {j}
<1>5. IsFiniteSet(A) /\ Cardinality(A) \in Nat /\ Rank(free, key, j) = Cardinality(A) /\ j \in A
  BY <1>3, UpFact DEF Up
<1> HIDE DEF A
<1>6. IsFiniteSet(B) /\ Cardinality(B) = Cardinality(A) - 1
  BY <1>5, FS_RemoveElement
<1> HIDE DEF B
<1>7. r <= Cardinality(B) /\ Cardinality(B) \in Nat /\ 1 <= Cardinality(B)
  BY <1>3, <1>4, <1>5, <1>6
<1>8. B # {}
  BY <1>7, FS_EmptySet
<1>9. \A l \in B : l \in free /\ l \in Nat /\ l < j /\ key[l] = key[j]
  BY <1>3 DEF A, B, Up, Pool
\* The last stage before j.
<1> DEFINE Gaps == {j - l : l \in B}
<1>10. Gaps \in SUBSET Nat /\ Gaps # {}
  BY <1>3, <1>8, <1>9
<1>11. PICK g \in Gaps : \A h \in Gaps : g <= h
  BY <1>10, LeastOf
<1>12. PICK l \in B : g = j - l
  OBVIOUS
<1>13. \A m \in B : m <= l
  <2>1. ASSUME NEW m \in B PROVE m <= l
    <3>1. j - l <= j - m
      BY <1>11, <1>12
    <3> QED  BY <1>3, <1>9, <3>1
  <2> QED  BY <2>1
<1>14. Up(free, key, l) = B
  <2>1. ASSUME NEW m \in B PROVE m \in Up(free, key, l)
    BY <1>9, <1>13 DEF Up
  <2>2. ASSUME NEW m \in Up(free, key, l) PROVE m \in B
    <3>1. m \in free /\ m \in Nat /\ m <= l /\ key[m] = key[l]
      BY DEF Up, Pool
    <3>2. m <= j /\ m # j /\ key[m] = key[j]
      BY <1>3, <1>9, <3>1
    <3> QED  BY <3>1, <3>2 DEF A, B, Up
  <2> QED  BY <2>1, <2>2
<1>15. Rank(free, key, l) = Cardinality(B)
  BY <1>14, UpFact
<1>16. l \in From
  BY <1>3, <1>7, <1>9, <1>15 DEF From
<1>17. j <= l
  BY <1>2, <1>16
<1> QED  BY <1>3, <1>9, <1>17

\* No stage is in two pairs.
OneToOne(P) == \A p, q \in P : (p[1] = q[1] \/ p[2] = q[2]) => p = q

\* Pairing by key takes no stage twice.
LEMMA KeysPairOnce ==
  ASSUME NEW b, Pool(b), NEW c, Pool(c), NEW kb, NEW kc
  PROVE  /\ PairByKey(b, c, kb, kc) \in SUBSET (b \X c) /\ OneToOne(PairByKey(b, c, kb, kc))
         /\ IsFiniteSet(PairByKey(b, c, kb, kc))
<1> DEFINE P == PairByKey(b, c, kb, kc)
<1>1. P \in SUBSET (b \X c)
  BY DEF PairByKey
<1>2. ASSUME NEW p \in P, NEW q \in P, p[1] = q[1] \/ p[2] = q[2] PROVE p = q
  <2>1. /\ p \in b \X c /\ q \in b \X c
        /\ kb[p[1]] = kc[p[2]] /\ Rank(b, kb, p[1]) = Rank(c, kc, p[2])
        /\ kb[q[1]] = kc[q[2]] /\ Rank(b, kb, q[1]) = Rank(c, kc, q[2])
    BY DEF PairByKey
  <2>2. /\ p[1] \in b /\ p[1] \in Nat /\ q[1] \in b /\ q[1] \in Nat
        /\ p[2] \in c /\ p[2] \in Nat /\ q[2] \in c /\ q[2] \in Nat
    BY <2>1 DEF Pool
  <2>3. CASE p[1] = q[1]
    <3>1. kc[p[2]] = kc[q[2]] /\ Rank(c, kc, p[2]) = Rank(c, kc, q[2])
      BY <2>1, <2>3
    <3>2. ~(p[2] < q[2]) /\ ~(q[2] < p[2])
      BY <2>2, <3>1, UpFact, RankLess
    <3> QED  BY <2>1, <2>2, <2>3, <3>2
  <2>4. CASE p[2] = q[2]
    <3>1. kb[p[1]] = kb[q[1]] /\ Rank(b, kb, p[1]) = Rank(b, kb, q[1])
      BY <2>1, <2>4
    <3>2. ~(p[1] < q[1]) /\ ~(q[1] < p[1])
      BY <2>2, <3>1, UpFact, RankLess
    <3> QED  BY <2>1, <2>2, <2>4, <3>2
  <2> QED  BY <1>2, <2>3, <2>4
<1>3. IsFiniteSet(b \X c)
  BY FS_Product DEF Pool
<1> QED  BY <1>1, <1>2, <1>3, FS_Subset DEF OneToOne

\* No key is left over on both sides.
LEMMA NoKeyLeft ==
  ASSUME NEW b, Pool(b), NEW c, Pool(c), NEW kb, NEW kc, NEW i \in b, NEW j \in c,
         kb[i] = kc[j], kb[i] # NoKey
  PROVE  \E p \in PairByKey(b, c, kb, kc) : p[1] = i \/ p[2] = j
<1>1. PICK r \in Nat, s \in Nat : r = Rank(b, kb, i) /\ s = Rank(c, kc, j)
  BY UpFact
<1>2. 1 <= r /\ 1 <= s
  <2>1. i \in Up(b, kb, i) /\ j \in Up(c, kc, j)
    BY DEF Up, Pool
  <2>2. Cardinality(Up(b, kb, i)) # 0 /\ Cardinality(Up(c, kc, j)) # 0
    BY <2>1, UpFact, FS_EmptySet
  <2>3. r # 0 /\ s # 0
    BY <1>1, <2>2, UpFact
  <2> QED  BY <2>3
<1>3. CASE r <= s
  <2>1. PICK k \in c : kc[k] = kc[j] /\ Rank(c, kc, k) = r
    BY <1>1, <1>2, <1>3, RankBelow
  <2>2. <<i, k>> \in PairByKey(b, c, kb, kc)
    BY <1>1, <2>1 DEF PairByKey
  <2> QED  BY <2>2
<1>4. CASE ~(r <= s)
  <2>1. PICK k \in b : kb[k] = kb[i] /\ Rank(b, kb, k) = s
    BY <1>1, <1>2, <1>4, RankBelow
  <2>2. <<k, j>> \in PairByKey(b, c, kb, kc)
    BY <1>1, <2>1 DEF PairByKey
  <2> QED  BY <2>2
<1> QED  BY <1>3, <1>4

\* Pairing by key the other way round.
LEMMA KeysMirror ==
  ASSUME NEW b, NEW c, NEW kb, NEW kc
  PROVE  PairByKey(c, b, kc, kb) = Mirror(PairByKey(b, c, kb, kc))
<1>1. ASSUME NEW p \in PairByKey(b, c, kb, kc) PROVE <<p[2], p[1]>> \in PairByKey(c, b, kc, kb)
  BY DEF PairByKey
<1>2. ASSUME NEW p \in PairByKey(c, b, kc, kb)
      PROVE  <<p[2], p[1]>> \in PairByKey(b, c, kb, kc) /\ p = <<p[1], p[2]>>
  BY DEF PairByKey
<1>3. ASSUME NEW p \in PairByKey(c, b, kc, kb) PROVE p \in Mirror(PairByKey(b, c, kb, kc))
  <2> DEFINE q == <<p[2], p[1]>>
  <2>1. q \in PairByKey(b, c, kb, kc) /\ p = <<q[2], q[1]>>
    BY <1>2
  <2> QED  BY <2>1 DEF Mirror
<1> QED  BY <1>1, <1>3 DEF Mirror

-----------------------------------------------------------------------------
(* Runs and the table of their executions.                                  *)

\* The executions of a run that ran a stage.
Ran(run) == {run[i].execution : i \in Ids(run)} \ {NoExecution}

\* What a run holds.
LEMMA RunFact ==
  ASSUME NEW run, IsRun(run)
  PROVE  /\ Pool(Ids(run)) /\ \A e : StagesOf(run, e) \subseteq Ids(run) /\ Pool(StagesOf(run, e))
         /\ \A i \in Ids(run) : i \in DOMAIN run /\ run[i].kind \in Kinds
         /\ Lists(Executions(run), Ran(run))
         /\ \A e \in Ran(run) : e \in Nat /\ e # NoExecution /\ StagesOf(run, e) # {}
<1>1. run \in Seq([kind : Kinds, execution : Nat \cup {NoExecution}])
  BY DEF IsRun
<1>2. PICK n \in Nat : n = Len(run) /\ DOMAIN run = 1..n
  BY <1>1
<1>3. \A i \in DOMAIN run : run[i].kind \in Kinds /\ run[i].execution \in Nat \cup {NoExecution}
  <2> DEFINE Stage == [kind : Kinds, execution : Nat \cup {NoExecution}]
  <2>1. ASSUME NEW i \in DOMAIN run PROVE run[i] \in Stage
    <3> HIDE DEF Stage
    <3>1. run \in Seq(Stage)
      BY <1>1 DEF Stage
    <3>2. i \in 1..Len(run)
      BY <1>2
    <3> QED  BY <3>1, <3>2, ElementOfSeq
  <2> QED  BY <2>1
<1>4. Ids(run) \in SUBSET (1..n)
  BY <1>2 DEF Ids
<1>5. PICK one \in Int : one = 1
  OBVIOUS
<1>6. IsFiniteSet(1..n)
  BY <1>5, FS_Interval
<1>7. Pool(Ids(run))
  BY <1>4, <1>6, FS_Subset DEF Pool
<1>8. \A e : StagesOf(run, e) \in SUBSET Ids(run)
  BY DEF StagesOf
<1>9. \A e : Pool(StagesOf(run, e))
  BY <1>7, <1>8, FS_Subset DEF Pool
<1> DEFINE f == [i \in Ids(run) |-> run[i].execution]
           T == {f[i] : i \in Ids(run)}
<1>10. IsFiniteSet(T)
  <2> HIDE DEF f
  <2> QED  BY <1>7, ImageFinite DEF Pool
<1>11. T = {run[i].execution : i \in Ids(run)}
  OBVIOUS
<1>12. Ran(run) \in SUBSET T
  BY <1>11 DEF Ran
<1> HIDE DEF T, f
<1>13. IsFiniteSet(Ran(run))
  BY <1>10, <1>12, FS_Subset
<1>14. \A e \in Ran(run) : e \in Nat /\ e # NoExecution /\ StagesOf(run, e) # {}
  <2>1. ASSUME NEW e \in Ran(run) PROVE e \in Nat /\ e # NoExecution /\ StagesOf(run, e) # {}
    <3>1. PICK i \in Ids(run) : e = run[i].execution /\ e # NoExecution
      BY DEF Ran
    <3>2. e \in Nat
      BY <1>2, <1>3, <1>4, <3>1
    <3> QED  BY <3>1, <3>2 DEF StagesOf
  <2> QED  BY <2>1
<1>15. Lists(Executions(run), Ran(run))
  <2>1. Executions(run) = Ascending(Ran(run))
    BY DEF Executions, Ran
  <2>2. Ran(run) \in SUBSET Nat
    BY <1>14
  <2> QED  BY <1>13, <2>1, <2>2, AscendingFact
<1>16. \A i \in Ids(run) : i \in DOMAIN run /\ run[i].kind \in Kinds
  BY <1>3 DEF Ids
<1> QED  BY <1>7, <1>8, <1>9, <1>14, <1>15, <1>16

\* There are no more pairs than stages.
LEMMA SharedFewer ==
  ASSUME NEW P, NEW b, NEW c, P \in SUBSET (b \X c), OneToOne(P), IsFiniteSet(b)
  PROVE  Cardinality(P) <= Cardinality(b)
<1> DEFINE g == [p \in P |-> p[1]]
<1>1. g \in [P -> b]
  OBVIOUS
<1>2. \A p, q \in P : g[p] = g[q] => p = q
  BY DEF OneToOne
<1> HIDE DEF g
<1> QED  BY <1>1, <1>2, FewerCount

\* A similarity is a number.
LEMMA SimilarityNat ==
  ASSUME NEW base, IsRun(base), NEW cand, IsRun(cand), NEW e \in Ran(base), NEW f \in Ran(cand)
  PROVE  ExecutionSimilarity(base, cand, e, f) \in Nat
<1> DEFINE a == StagesOf(base, e)
           b == StagesOf(cand, f)
           P == PairByKey(a, b, Tokens(base), Tokens(cand))
<1>1. Pool(a) /\ Pool(b) /\ b # {}
  BY RunFact
<1>2. ExecutionSimilarity(base, cand, e, f) =
        (2000 * Cardinality(P) + (Cardinality(a) + Cardinality(b) - Cardinality(P)))
          \div (2 * (Cardinality(a) + Cardinality(b) - Cardinality(P)))
  BY DEF ExecutionSimilarity
<1> HIDE DEF a, b
<1>3. P \in SUBSET (a \X b) /\ OneToOne(P) /\ IsFiniteSet(P)
  BY <1>1, KeysPairOnce
<1> HIDE DEF P
<1>4. IsFiniteSet(a) /\ IsFiniteSet(b)
  BY <1>1 DEF Pool
<1>5. PICK x \in Nat, y \in Nat, z \in Nat :
        x = Cardinality(a) /\ y = Cardinality(b) /\ z = Cardinality(P)
  BY <1>3, <1>4, FS_CardinalityType
<1>6. z <= x /\ y # 0
  BY <1>1, <1>3, <1>4, <1>5, SharedFewer, FS_EmptySet
<1>7. PICK all \in Nat : all = x + y - z /\ all >= 1
  BY <1>6
<1>8. (2000 * z + all) \div (2 * all) \in Nat
  <2>1. PICK u \in Nat, v \in Nat \ {0} : u = 2000 * z + all /\ v = 2 * all
    BY <1>7
  <2>2. u \div v \in Nat
    BY <2>1, DivMonotone
  <2> QED  BY <2>1, <2>2
<1>9. ExecutionSimilarity(base, cand, e, f) = (2000 * z + all) \div (2 * all)
  BY <1>2, <1>5, <1>7
<1> QED  BY <1>8, <1>9

\* What a list holds.
LEMMA ListFact ==
  ASSUME NEW s, NEW S, Lists(s, S)
  PROVE  /\ s \in Seq(Nat) /\ Len(s) \in Nat /\ DOMAIN s = 1..Len(s)
         /\ \A i \in DOMAIN s : s[i] \in S
         /\ \A e \in S : \E i \in DOMAIN s : s[i] = e
         /\ \A i, j \in DOMAIN s : s[i] = s[j] => i = j
<1>1. s \in Seq(Nat) /\ Len(s) \in Nat /\ DOMAIN s = 1..Len(s)
  BY DEF Lists
<1>2. \A i \in DOMAIN s : s[i] \in S /\ s[i] \in Nat
  BY <1>1 DEF Lists, ToSet
<1>3. \A e \in S : \E i \in DOMAIN s : s[i] = e
  BY DEF Lists, ToSet
<1>4. ASSUME NEW i \in DOMAIN s, NEW j \in DOMAIN s, s[i] = s[j], i # j PROVE FALSE
  <2>1. i < j \/ j < i
    BY <1>1, <1>4
  <2>2. s[i] < s[j] \/ s[j] < s[i]
    BY <1>1, <2>1 DEF Lists
  <2> QED  BY <1>2, <1>4, <2>2
<1> QED  BY <1>1, <1>2, <1>3, <1>4

\* The executions of two runs make a table.
LEMMA ExecutionTableFact ==
  ASSUME NEW base, IsRun(base), NEW cand, IsRun(cand)
  PROVE  IsTable(ExecutionTable(base, cand))
<1> DEFINE a == Executions(base)
           b == Executions(cand)
           t == ExecutionTable(base, cand)
<1>1. Lists(a, Ran(base)) /\ Lists(b, Ran(cand))
  BY RunFact
<1>2. /\ t.idA = a /\ t.idB = b
      /\ t.score = [i \in DOMAIN a |-> [j \in DOMAIN b |-> ExecutionSimilarity(base, cand, a[i], b[j])]]
  BY DEF ExecutionTable
<1> HIDE DEF a, b, t
<1>3. /\ a \in Seq(Nat) /\ b \in Seq(Nat) /\ DOMAIN a = 1..Len(a) /\ DOMAIN b = 1..Len(b)
      /\ \A i \in DOMAIN a : a[i] \in Ran(base)
      /\ \A i \in DOMAIN b : b[i] \in Ran(cand)
  BY <1>1, ListFact
<1>4. \A i \in DOMAIN a, j \in DOMAIN b : ExecutionSimilarity(base, cand, a[i], b[j]) \in Nat
  BY <1>3, SimilarityNat
<1>5. t.score \in [1..Len(a) -> [1..Len(b) -> Nat]]
  <2>1. t.score \in [DOMAIN a -> [DOMAIN b -> Nat]]
    BY <1>2, <1>4
  <2> QED  BY <1>3, <2>1
<1> QED  BY <1>2, <1>3, <1>5 DEF IsTable, t

-----------------------------------------------------------------------------
(* The alignment of any sequences is the best one.                          *)

\* What a question holds, and what its answer is.
AlignmentInv ==
  /\ IsTable(table)
  /\ matches \in {Unknown, Known(AlignSequences(table))}
  /\ \/ runs = <<>>
     \/ \E base \in Baselines, cand \in Candidates :
          /\ runs = <<base, cand>> /\ table = ExecutionTable(base, cand)
          /\ stages = AlignStages(base, cand)

\* The invariant holds before a question.
LEMMA AlignmentInitInv == AlignmentInit => AlignmentInv
BY QuestionsAssumption DEF AlignmentInit, AlignmentInv

\* It holds of the answer.
LEMMA AlignmentStepInv == AlignmentInv /\ [AlignmentNext]_alignmentVars => AlignmentInv'
<1> SUFFICES ASSUME AlignmentInv, [AlignmentNext]_alignmentVars PROVE AlignmentInv'
  OBVIOUS
<1>1. CASE AlignTable
  <2>1. table' = table /\ runs' = runs /\ stages' = stages /\ matches' = Known(AlignSequences(table))
    BY <1>1 DEF AlignTable
  <2> QED  BY <2>1 DEF AlignmentInv
<1>2. ASSUME NEW base \in Baselines, NEW cand \in Candidates, CompareRuns(base, cand)
      PROVE  AlignmentInv'
  <2>1. PICK t : t = table'
    OBVIOUS
  <2>2. /\ runs' = <<base, cand>> /\ t = ExecutionTable(base, cand)
        /\ stages' = AlignStages(base, cand) /\ matches' = Known(AlignSequences(t))
    BY <1>2, <2>1 DEF CompareRuns
  <2>3. IsTable(t)
    BY <2>2, QuestionsAssumption, ExecutionTableFact
  <2>4. IsTable(table')
    BY <2>1, <2>3
  <2>5. Known(AlignSequences(t)) = Known(AlignSequences(table'))
    BY <2>1
  <2> QED  BY <2>1, <2>2, <2>4, <2>5 DEF AlignmentInv
<1>3. CASE UNCHANGED alignmentVars
  BY <1>3 DEF AlignmentInv, alignmentVars
<1> QED  BY <1>1, <1>2, <1>3 DEF AlignmentNext

\* It holds always.
LEMMA AlignmentFact == AlignmentSpec => []AlignmentInv
BY AlignmentInitInv, AlignmentStepInv, PTL DEF AlignmentSpec

\* What alignSequences answers ascends, stays in the band and above the minimum,
\* no other such alignment scores more, and swapping the sequences mirrors it,
\* unless the table is cut to a band or ties two elements of one id.
THEOREM AlignmentCorrect == AlignmentSpec => []AlignmentIsBest
<1>1. ASSUME AlignmentInv PROVE AlignmentIsBest
  <2>1. SUFFICES ASSUME matches.known PROVE AlignmentIsBest
    BY DEF AlignmentIsBest
  <2>2. PICK t : t = table /\ IsTable(t)
    BY <1>1 DEF AlignmentInv
  <2>3. matches = Known(AlignSequences(t))
    BY <1>1, <2>1, <2>2 DEF AlignmentInv, Unknown
  <2>4. matches.pairs = ToSet(AlignSequences(t))
    BY <2>3 DEF Known
  <2>5. /\ ToSet(AlignSequences(t)) \in Alignments(t)
        /\ \A other \in Alignments(t) : Total(t, other) <= Total(t, ToSet(AlignSequences(t)))
    BY <2>2, AlignedBest
  <2>6. MayMirror(t) => ToSet(AlignSequences(Swapped(t))) = Mirror(ToSet(AlignSequences(t)))
    BY <2>2, AlignedMirrors
  <2> QED  BY <2>2, <2>4, <2>5, <2>6 DEF AlignmentIsBest
<1> QED  BY <1>1, AlignmentFact, PTL

-----------------------------------------------------------------------------
(* Stages that pair by similarity.                                          *)

Rated(base, cand, S) ==
  /\ S \in SUBSET (Nat \X Nat) /\ IsFiniteSet(S)
  /\ \A p \in S : Score(base, cand, p) \in 0..10

\* Fewer pairs are rated the same.
LEMMA RatedSubset ==
  ASSUME NEW base, NEW cand, NEW S, Rated(base, cand, S), NEW T \in SUBSET S
  PROVE  Rated(base, cand, T)
BY FS_Subset DEF Rated

\* Two pairs are never each before the other.
LEMMA BeforeFact ==
  ASSUME NEW base, NEW cand, NEW S, Rated(base, cand, S), NEW p \in S, NEW q \in S
  PROVE  /\ ~(Before(base, cand, p, q) /\ Before(base, cand, q, p))
         /\ ~Before(base, cand, p, p)
         /\ p # q => Before(base, cand, p, q) \/ Before(base, cand, q, p)
<1>1. PICK a \in 0..10, b \in 0..10 : a = Score(base, cand, p) /\ b = Score(base, cand, q)
  BY DEF Rated
<1>2. PICK i \in Nat, j \in Nat, k \in Nat, l \in Nat : p = <<i, j>> /\ q = <<k, l>>
  BY DEF Rated
<1>3. Before(base, cand, p, q) <=> (a > b \/ (a = b /\ (i + j < k + l \/ (i + j = k + l /\ i < k))))
  BY <1>1, <1>2 DEF Before
<1>4. Before(base, cand, q, p) <=> (b > a \/ (b = a /\ (k + l < i + j \/ (k + l = i + j /\ k < i))))
  BY <1>1, <1>2 DEF Before
<1>5. ~Before(base, cand, p, p)
  BY <1>1, <1>2 DEF Before
<1>6. p # q => i # k \/ j # l
  BY <1>2
<1> QED  BY <1>3, <1>4, <1>5, <1>6

\* A pair of the best score, of the least ids with it, has the others behind it.
LEMMA FirstFact ==
  ASSUME NEW base, NEW cand, NEW S, Rated(base, cand, S), S # {}
  PROVE  /\ First(base, cand, S) \in S
         /\ \A q \in S \ {First(base, cand, S)} : Before(base, cand, First(base, cand, S), q)
<1> DEFINE s(p) == Score(base, cand, p)
<1>1. \A p \in S : s(p) \in 0..10 /\ p[1] \in Nat /\ p[2] \in Nat /\ p[1] + p[2] \in Nat
                   /\ p = <<p[1], p[2]>> /\ 10 - s(p) \in Nat
  BY DEF Rated
<1> HIDE DEF s
<1> DEFINE V == {10 - s(p) : p \in S}
<1>2. V \in SUBSET Nat /\ V # {}
  BY <1>1
<1>3. PICK v \in V : \A w \in V : v <= w
  BY <1>2, LeastOf
<1> DEFINE A == {p \in S : 10 - s(p) = v}
           X == {p[1] + p[2] : p \in A}
<1>4. X \in SUBSET Nat /\ X # {}
  <2>1. A # {}
    OBVIOUS
  <2> QED  BY <1>1, <2>1
<1> HIDE DEF X
<1>5. PICK x \in X : \A y \in X : x <= y
  BY <1>4, LeastOf
<1> DEFINE B == {p \in A : p[1] + p[2] = x}
           Y == {p[1] : p \in B}
<1>6. Y \in SUBSET Nat /\ Y # {}
  <2>1. B # {}
    BY DEF X
  <2> QED  BY <1>1, <2>1
<1> HIDE DEF Y
<1>7. PICK y \in Y : \A z \in Y : y <= z
  BY <1>6, LeastOf
<1>8. PICK p \in B : p[1] = y
  BY DEF Y
<1>9. ASSUME NEW q \in S \ {p} PROVE Before(base, cand, p, q)
  <2>1. p \in S /\ 10 - s(p) = v /\ p[1] + p[2] = x
    OBVIOUS
  <2>2. v <= 10 - s(q)
    BY <1>3
  <2>3. q \in A => x <= q[1] + q[2]
    BY <1>5 DEF X
  <2>4. q \in B => y <= q[1]
    BY <1>7 DEF Y
  <2>5. PICK a \in 0..10, b \in 0..10 : a = s(p) /\ b = s(q)
    BY <1>1
  <2>6. PICK i \in Nat, j \in Nat, k \in Nat, l \in Nat : p = <<i, j>> /\ q = <<k, l>>
    BY <1>1, <2>1
  <2>7. a >= b
    BY <2>1, <2>2, <2>5
  <2>8. a = b => i + j <= k + l
    BY <2>1, <2>3, <2>5, <2>6
  <2>9. a = b /\ i + j = k + l => i <= k
    BY <1>8, <2>1, <2>4, <2>5, <2>6
  <2>10. i # k \/ j # l
    BY <2>6
  <2>11. a > b \/ (a = b /\ (i + j < k + l \/ (i + j = k + l /\ i < k)))
    BY <2>7, <2>8, <2>9, <2>10
  <2> QED  BY <2>5, <2>6, <2>11 DEF Before, s
<1> DEFINE P(r) == \A q \in S \ {r} : Before(base, cand, r, q)
<1>10. p \in S /\ P(p)
  BY <1>9
<1>11. First(base, cand, S) = CHOOSE r \in S : P(r)
  BY DEF First
<1> HIDE DEF P
<1>12. First(base, cand, S) \in S /\ P(First(base, cand, S))
  BY <1>10, <1>11
<1> QED  BY <1>12 DEF P

\* What a pair leaves to choose from.
Clash(p, q) == q[1] = p[1] \/ q[2] = p[2]
Behind(p, S) == {q \in S : q[1] # p[1] /\ q[2] # p[2]}
TakenAt(base, cand, taken, S) ==
  IF S = {} THEN {} ELSE LET p == First(base, cand, S) IN {p} \cup taken[Behind(p, S)]

Small(S, n) == {T \in SUBSET S : Cardinality(T) <= n}

IsTaken(taken, base, cand, S, n) ==
  taken = [T \in Small(S, n) |-> TakenAt(base, cand, taken, T)]

\* A taken pair leaves fewer.
LEMMA BehindSmaller ==
  ASSUME NEW base, NEW cand, NEW S, Rated(base, cand, S), S # {}
  PROVE  LET R == Behind(First(base, cand, S), S)
         IN  /\ R \in SUBSET S /\ Cardinality(R) \in Nat /\ Cardinality(S) \in Nat
             /\ Cardinality(R) < Cardinality(S)
<1> DEFINE p == First(base, cand, S)
           R == Behind(p, S)
<1>1. p \in S
  BY FirstFact
<1>2. R \in SUBSET S /\ R # S
  BY <1>1 DEF Behind
<1> HIDE DEF R
<1>3. IsFiniteSet(S)
  BY DEF Rated
<1>4. IsFiniteSet(R) /\ Cardinality(R) <= Cardinality(S) /\ Cardinality(R) # Cardinality(S)
  BY <1>2, <1>3, FS_Subset
<1>5. Cardinality(R) \in Nat /\ Cardinality(S) \in Nat
  BY <1>3, <1>4, FS_CardinalityType
<1>6. Cardinality(R) < Cardinality(S)
  BY <1>4, <1>5
<1> QED  BY <1>2, <1>5, <1>6 DEF R

\* So what is taken can be computed, the smaller sets first.
LEMMA TakenExists ==
  ASSUME NEW base, NEW cand, NEW S, Rated(base, cand, S), NEW n \in Nat
  PROVE  \E taken : IsTaken(taken, base, cand, S, n)
<1> DEFINE Bad == {k \in Nat : ~\E taken : IsTaken(taken, base, cand, S, k)}
<1>1. SUFFICES ASSUME Bad # {} PROVE FALSE
  OBVIOUS
<1> HIDE DEF Bad
<1>2. PICK m \in Bad : \A k \in Bad : m <= k
  BY <1>1, LeastOf DEF Bad
<1>3. m \in Nat /\ ~\E taken : IsTaken(taken, base, cand, S, m)
  BY DEF Bad
<1>4. \E f : m # 0 => IsTaken(f, base, cand, S, m - 1)
  <2>1. CASE m = 0
    BY <2>1
  <2>2. CASE m # 0
    <3>1. m - 1 \in Nat /\ ~(m <= m - 1)
      BY <1>3, <2>2
    <3> QED  BY <1>2, <3>1 DEF Bad
  <2> QED  BY <2>1, <2>2
<1>5. PICK f : m # 0 => IsTaken(f, base, cand, S, m - 1)
  BY <1>4
<1> DEFINE at(T) == TakenAt(base, cand, f, T)
           new == [T \in Small(S, m) |-> at(T)]
<1>6. ASSUME NEW T \in Small(S, m), T # {}
      PROVE  LET R == Behind(First(base, cand, T), T)
             IN  m # 0 /\ R \in Small(S, m - 1) /\ R \in Small(S, m)
  <2>1. T \in SUBSET S /\ Cardinality(T) <= m
    BY DEF Small
  <2>2. Rated(base, cand, T)
    BY <2>1, RatedSubset
  <2> DEFINE R == Behind(First(base, cand, T), T)
  <2>3. PICK x \in Nat, y \in Nat : x = Cardinality(R) /\ y = Cardinality(T) /\ x < y
    BY <1>6, <2>2, BehindSmaller
  <2>4. R \in SUBSET S
    BY <2>1 DEF Behind
  <2> HIDE DEF R
  <2>5. m # 0 /\ x <= m - 1 /\ x <= m
    BY <1>3, <2>1, <2>3
  <2>6. m # 0 /\ R \in Small(S, m - 1) /\ R \in Small(S, m)
    BY <2>3, <2>4, <2>5 DEF Small
  <2> QED  BY <2>6 DEF R
<1>7. ASSUME NEW T \in Small(S, m) PROVE at(T) = TakenAt(base, cand, new, T)
  <2>1. CASE T = {}
    BY <2>1 DEF TakenAt
  <2>2. CASE T # {}
    <3> DEFINE R == Behind(First(base, cand, T), T)
    <3>1. m # 0 /\ R \in Small(S, m - 1) /\ R \in Small(S, m)
      BY <1>6, <2>2
    <3> HIDE DEF R
    <3>2. f[R] = at(R)
      <4>1. f = [U \in Small(S, m - 1) |-> at(U)]
        BY <1>5, <3>1 DEF IsTaken
      <4> HIDE DEF at
      <4> QED  BY <3>1, <4>1
    <3>3. new[R] = at(R)
      <4> HIDE DEF at
      <4> QED  BY <3>1
    <3> HIDE DEF new
    <3>4. f[R] = new[R]
      BY <3>2, <3>3
    <3> QED  BY <2>2, <3>4 DEF TakenAt, R
  <2> QED  BY <2>1, <2>2
<1>8. IsTaken(new, base, cand, S, m)
  <2>1. new = [T \in Small(S, m) |-> at(T)]
    OBVIOUS
  <2> HIDE DEF new, at
  <2> QED  BY <1>7, <2>1 DEF IsTaken
<1> QED  BY <1>3, <1>8

\* What is taken: the candidates with no taken one before them that shares a stage.
Stable(base, cand, S, T) ==
  /\ T \in SUBSET S
  /\ \A p \in S : p \in T <=> ~\E q \in T : Clash(q, p) /\ Before(base, cand, q, p)

\* What is taken is stable.
LEMMA TakenStable ==
  ASSUME NEW base, NEW cand, NEW S, Rated(base, cand, S), NEW taken,
         taken = [T \in SUBSET S |-> TakenAt(base, cand, taken, T)]
  PROVE  Stable(base, cand, S, taken[S])
<1> DEFINE Sets(k) == {T \in SUBSET S : Cardinality(T) = k}
           Bad == {k \in Nat : \E T \in Sets(k) : ~Stable(base, cand, T, taken[T])}
<1>1. \A T \in SUBSET S : Rated(base, cand, T) /\ Cardinality(T) \in Nat
  <2>1. \A T \in SUBSET S : Rated(base, cand, T)
    BY RatedSubset
  <2> QED  BY <2>1, FS_CardinalityType DEF Rated
<1>2. SUFFICES ASSUME Bad # {} PROVE FALSE
  <2>1. S \in Sets(Cardinality(S)) /\ Cardinality(S) \in Nat
    BY <1>1
  <2> QED  BY <2>1
<1> HIDE DEF Bad
<1>3. PICK k \in Bad : \A l \in Bad : k <= l
  BY <1>2, LeastOf DEF Bad
<1>4. PICK T \in Sets(k) : ~Stable(base, cand, T, taken[T])
  BY DEF Bad
<1>5. T \in SUBSET S /\ Rated(base, cand, T) /\ k \in Nat /\ Cardinality(T) = k
  BY <1>1 DEF Bad
<1>6. taken[T] = TakenAt(base, cand, taken, T)
  BY <1>5
<1>7. CASE T = {}
  BY <1>4, <1>6, <1>7 DEF TakenAt, Stable
<1>8. CASE T # {}
  <2> DEFINE p == First(base, cand, T)
             R == Behind(p, T)
  <2>1. R \in SUBSET T /\ Cardinality(R) \in Nat /\ Cardinality(R) < k
    BY <1>5, <1>8, BehindSmaller
  <2>2. p \in T /\ \A q \in T \ {p} : Before(base, cand, p, q)
    BY <1>5, <1>8, FirstFact
  <2>3. taken[T] = {p} \cup taken[R]
    BY <1>6, <1>8 DEF TakenAt
  <2>4. \A q \in R : q \in T /\ q[1] # p[1] /\ q[2] # p[2]
    BY DEF Behind
  <2>5. \A q \in T : q \notin R => Clash(p, q)
    BY DEF Behind, Clash
  <2>6. ~Before(base, cand, p, p)
    BY <1>5, <2>2, BeforeFact
  <2> HIDE DEF R
  <2>7. Stable(base, cand, R, taken[R])
    <3>1. Cardinality(R) \notin Bad
      <4>1. ~(k <= Cardinality(R))
        BY <1>5, <2>1
      <4> QED  BY <1>3, <4>1
    <3>2. R \in Sets(Cardinality(R))
      BY <1>5, <2>1
    <3> QED  BY <2>1, <3>1, <3>2 DEF Bad
  <2> HIDE DEF p
  <2>8. taken[R] \in SUBSET R
    BY <2>7 DEF Stable
  <2>9. taken[T] \in SUBSET T
    BY <2>1, <2>2, <2>3, <2>8
  <2>10. ASSUME NEW x \in T
         PROVE  x \in taken[T] <=> ~\E q \in taken[T] : Clash(q, x) /\ Before(base, cand, q, x)
    <3>1. CASE x = p
      <4>1. \A q \in taken[R] : ~Clash(q, x)
        BY <2>4, <2>8, <3>1 DEF Clash
      <4> QED  BY <2>3, <2>6, <3>1, <4>1
    <3>2. CASE x # p /\ x \notin R
      <4>1. x \notin taken[T]
        BY <2>3, <2>8, <3>2
      <4>2. p \in taken[T] /\ Clash(p, x) /\ Before(base, cand, p, x)
        BY <2>2, <2>3, <2>5, <3>2
      <4> QED  BY <4>1, <4>2
    <3>3. CASE x # p /\ x \in R
      <4>1. x \in taken[T] <=> x \in taken[R]
        BY <2>3, <3>3
      <4>2. ~Clash(p, x)
        BY <2>4, <3>3 DEF Clash
      <4>3. x \in taken[R] <=> ~\E q \in taken[R] : Clash(q, x) /\ Before(base, cand, q, x)
        BY <2>7, <3>3 DEF Stable
      <4>4. (\E q \in taken[T] : Clash(q, x) /\ Before(base, cand, q, x))
              <=> \E q \in taken[R] : Clash(q, x) /\ Before(base, cand, q, x)
        BY <2>3, <4>2
      <4> QED  BY <4>1, <4>3, <4>4
    <3> QED  BY <3>1, <3>2, <3>3
  <2> QED  BY <1>4, <2>9, <2>10 DEF Stable
<1> QED  BY <1>7, <1>8

\* A stable set takes no stage twice.
LEMMA StableOnce ==
  ASSUME NEW base, NEW cand, NEW S, Rated(base, cand, S), NEW T, Stable(base, cand, S, T)
  PROVE  OneToOne(T)
<1>1. ASSUME NEW p \in T, NEW q \in T, p[1] = q[1] \/ p[2] = q[2], p # q PROVE FALSE
  <2>1. p \in S /\ q \in S /\ Clash(p, q) /\ Clash(q, p)
    BY <1>1 DEF Stable, Clash
  <2>2. Before(base, cand, p, q) \/ Before(base, cand, q, p)
    BY <1>1, <2>1, BeforeFact
  <2> QED  BY <2>1, <2>2 DEF Stable
<1> QED  BY <1>1 DEF OneToOne

\* Of two stable sets, the first pair they differ on would be in both or in neither.
LEMMA StableUnique ==
  ASSUME NEW base, NEW cand, NEW S, Rated(base, cand, S),
         NEW T, Stable(base, cand, S, T), NEW U, Stable(base, cand, S, U)
  PROVE  T = U
<1> DEFINE D == {p \in S : (p \in T) # (p \in U)}
<1>1. T \in SUBSET S /\ U \in SUBSET S
  BY DEF Stable
<1>2. SUFFICES ASSUME D # {} PROVE FALSE
  BY <1>1
<1>3. D \in SUBSET S
  OBVIOUS
<1> HIDE DEF D
<1>4. Rated(base, cand, D)
  BY <1>3, RatedSubset
<1>5. PICK p \in D : \A q \in D \ {p} : Before(base, cand, p, q)
  BY <1>2, <1>4, FirstFact
<1>6. p \in S /\ (p \in T) # (p \in U)
  BY DEF D
<1>7. ASSUME NEW q \in S, Before(base, cand, q, p) PROVE q \in T <=> q \in U
  <2>1. q # p /\ ~Before(base, cand, p, q)
    BY <1>6, <1>7, BeforeFact
  <2>2. q \notin D
    BY <1>5, <2>1
  <2> QED  BY <2>2 DEF D
<1>8. (\E q \in T : Clash(q, p) /\ Before(base, cand, q, p))
        <=> \E q \in U : Clash(q, p) /\ Before(base, cand, q, p)
  BY <1>1, <1>7
<1>9. /\ p \in T <=> ~\E q \in T : Clash(q, p) /\ Before(base, cand, q, p)
      /\ p \in U <=> ~\E q \in U : Clash(q, p) /\ Before(base, cand, q, p)
  BY <1>6 DEF Stable
<1> QED  BY <1>6, <1>8, <1>9

-----------------------------------------------------------------------------
(* PairSimilar, and its mirror image.                                       *)

\* The mirror image of a stable set is stable.
LEMMA StableMirror ==
  ASSUME NEW base, NEW cand, NEW S, NEW T, Stable(base, cand, S, T), S \in SUBSET (Nat \X Nat),
         \A p, q \in S : Clash(q, p) =>
           (Before(base, cand, q, p) <=> Before(cand, base, Turned(q), Turned(p)))
  PROVE  Stable(cand, base, Mirror(S), Mirror(T))
<1>1. T \in SUBSET S
  BY DEF Stable
<1>2. \A p \in S : Turned(p) = <<p[2], p[1]>> /\ Turned(Turned(p)) = p
  BY DEF Turned
<1>3. Mirror(S) = {Turned(p) : p \in S} /\ Mirror(T) = {Turned(p) : p \in T}
  BY DEF Mirror, Turned
<1>4. \A p \in S : Turned(p) \in Mirror(T) <=> p \in T
  <2>1. ASSUME NEW p \in S, Turned(p) \in Mirror(T) PROVE p \in T
    <3>1. PICK q \in T : Turned(p) = Turned(q)
      BY <1>3, <2>1
    <3>2. p = q
      BY <1>1, <1>2, <3>1
    <3> QED  BY <3>2
  <2>2. ASSUME NEW p \in T PROVE Turned(p) \in Mirror(T)
    BY <1>3
  <2> QED  BY <2>1, <2>2
<1>5. ASSUME NEW p \in S
      PROVE  Turned(p) \in Mirror(T)
               <=> ~\E q \in Mirror(T) : Clash(q, Turned(p)) /\ Before(cand, base, q, Turned(p))
  <2>1. \A q \in S : Clash(Turned(q), Turned(p)) <=> Clash(q, p)
    BY DEF Clash, Turned
  <2>2. p \in T <=> ~\E q \in T : Clash(q, p) /\ Before(base, cand, q, p)
    BY DEF Stable
  <2>3. (\E q \in T : Clash(q, p) /\ Before(base, cand, q, p))
          <=> \E q \in T : Clash(Turned(q), Turned(p)) /\ Before(cand, base, Turned(q), Turned(p))
    BY <1>1, <2>1
  <2>4. (\E q \in Mirror(T) : Clash(q, Turned(p)) /\ Before(cand, base, q, Turned(p)))
          <=> \E q \in T : Clash(Turned(q), Turned(p)) /\ Before(cand, base, Turned(q), Turned(p))
    BY <1>3
  <2> QED  BY <1>4, <2>2, <2>3, <2>4
<1>6. ASSUME NEW r \in Mirror(S)
      PROVE  r \in Mirror(T) <=> ~\E q \in Mirror(T) : Clash(q, r) /\ Before(cand, base, q, r)
  <2>1. PICK p \in S : r = Turned(p)
    BY <1>3
  <2> QED  BY <1>5, <2>1
<1>7. Mirror(T) \in SUBSET Mirror(S)
  BY <1>1, <1>3
<1> QED  BY <1>6, <1>7 DEF Stable

\* The pairs that the similar pass looks at, and those good enough.
PlannedOf(run, free) == {i \in free : Structural(run)[i] # NoKey}
CellsOf(base, cand, b, c) == PlannedOf(base, b) \X PlannedOf(cand, c)
CandidatesOf(base, cand, b, c) ==
  {p \in CellsOf(base, cand, b, c) : Score(base, cand, p) >= AlignedMin}

\* The candidates are pairs of the stages left.
LEMMA CandidatesFact ==
  ASSUME NEW base, IsRun(base), NEW cand, IsRun(cand),
         NEW b \in SUBSET Ids(base), NEW c \in SUBSET Ids(cand)
  PROVE  /\ CandidatesOf(base, cand, b, c) \in SUBSET (b \X c)
         /\ Rated(base, cand, CandidatesOf(base, cand, b, c))
         /\ IsFiniteSet(CellsOf(base, cand, b, c))
<1>1. Pool(Ids(base)) /\ Pool(Ids(cand))
  BY RunFact
<1>2. b \in SUBSET Nat /\ c \in SUBSET Nat /\ IsFiniteSet(b) /\ IsFiniteSet(c)
  BY <1>1, FS_Subset DEF Pool
<1>3. PlannedOf(base, b) \in SUBSET b /\ PlannedOf(cand, c) \in SUBSET c
  BY DEF PlannedOf
<1>4. IsFiniteSet(PlannedOf(base, b)) /\ IsFiniteSet(PlannedOf(cand, c))
  BY <1>2, <1>3, FS_Subset
<1>5. IsFiniteSet(CellsOf(base, cand, b, c))
  BY <1>4, FS_Product DEF CellsOf
<1>6. CellsOf(base, cand, b, c) \in SUBSET (b \X c)
  BY <1>3 DEF CellsOf
<1>7. ASSUME NEW p \in b \X c PROVE Score(base, cand, p) \in 0..10
  <2>1. p[1] \in Ids(base) /\ p[2] \in Ids(cand)
    OBVIOUS
  <2>2. base[p[1]].kind \in Kinds /\ cand[p[2]].kind \in Kinds
    BY <2>1, RunFact
  <2> QED  BY <2>2, KindsAssumption DEF Score
<1>8. CandidatesOf(base, cand, b, c) \in SUBSET CellsOf(base, cand, b, c)
  BY DEF CandidatesOf
<1>9. IsFiniteSet(CandidatesOf(base, cand, b, c))
  BY <1>5, <1>8, FS_Subset
<1>10. CandidatesOf(base, cand, b, c) \in SUBSET (b \X c)
  BY <1>6, <1>8
<1>11. CandidatesOf(base, cand, b, c) \in SUBSET (Nat \X Nat)
  BY <1>2, <1>10
<1>12. Rated(base, cand, CandidatesOf(base, cand, b, c))
  BY <1>7, <1>9, <1>10, <1>11 DEF Rated
<1> QED  BY <1>5, <1>10, <1>12

\* PairSimilar takes a stable set.
LEMMA SimilarFact ==
  ASSUME NEW base, IsRun(base), NEW cand, IsRun(cand),
         NEW b \in SUBSET Ids(base), NEW c \in SUBSET Ids(cand)
  PROVE  IF Cardinality(CellsOf(base, cand, b, c)) > MaxPairCells
           THEN PairSimilar(base, cand, b, c) = {}
           ELSE Stable(base, cand, CandidatesOf(base, cand, b, c), PairSimilar(base, cand, b, c))
<1> DEFINE K == CandidatesOf(base, cand, b, c)
           P(t) == t = [S \in SUBSET K |-> TakenAt(base, cand, t, S)]
           taken == CHOOSE t : P(t)
<1>1. Rated(base, cand, K)
  BY CandidatesFact
<1>2. PairSimilar(base, cand, b, c) =
        IF Cardinality(CellsOf(base, cand, b, c)) > MaxPairCells THEN {} ELSE taken[K]
  BY DEF PairSimilar, PlannedOf, CellsOf, CandidatesOf, TakenAt, Behind
<1> HIDE DEF K
<1>3. \E t : P(t)
  <2>1. IsFiniteSet(K)
    BY <1>1 DEF Rated
  <2>2. Cardinality(K) \in Nat /\ \A T \in SUBSET K : Cardinality(T) <= Cardinality(K)
    BY <2>1, FS_CardinalityType, FS_Subset
  <2>3. Small(K, Cardinality(K)) = SUBSET K
    BY <2>2 DEF Small
  <2>4. PICK t : IsTaken(t, base, cand, K, Cardinality(K))
    BY <1>1, <2>2, TakenExists
  <2>5. P(t)
    BY <2>3, <2>4 DEF IsTaken
  <2> QED  BY <2>5
<1>4. P(taken)
  BY <1>3
<1> HIDE DEF taken
<1>5. Stable(base, cand, K, taken[K])
  BY <1>1, <1>4, TakenStable
<1> QED  BY <1>2, <1>5 DEF K

\* No stage is in two pairs.
LEMMA SimilarOnce ==
  ASSUME NEW base, IsRun(base), NEW cand, IsRun(cand),
         NEW b \in SUBSET Ids(base), NEW c \in SUBSET Ids(cand)
  PROVE  /\ PairSimilar(base, cand, b, c) \in SUBSET (b \X c)
         /\ OneToOne(PairSimilar(base, cand, b, c))
<1> DEFINE K == CandidatesOf(base, cand, b, c)
           P == PairSimilar(base, cand, b, c)
<1>1. K \in SUBSET (b \X c) /\ Rated(base, cand, K)
  BY CandidatesFact
<1>2. P = {} \/ Stable(base, cand, K, P)
  BY SimilarFact
<1> HIDE DEF K, P
<1>3. CASE P = {}
  BY <1>3 DEF OneToOne, P
<1>4. CASE Stable(base, cand, K, P)
  <2>1. P \in SUBSET K /\ OneToOne(P)
    BY <1>1, <1>4, StableOnce DEF Stable
  <2>2. P \in SUBSET (b \X c)
    BY <1>1, <2>1
  <2> QED  BY <2>1, <2>2 DEF P
<1> QED  BY <1>2, <1>3, <1>4

\* The cells the other way round.
LEMMA MirrorOfProduct ==
  ASSUME NEW S, NEW T
  PROVE  Mirror(S \X T) = T \X S
<1>1. ASSUME NEW p \in T \X S PROVE p \in Mirror(S \X T)
  <2>1. <<p[2], p[1]>> \in S \X T /\ p = <<<<p[2], p[1]>>[2], <<p[2], p[1]>>[1]>>
    OBVIOUS
  <2> QED  BY <2>1 DEF Mirror
<1>2. ASSUME NEW p \in S \X T PROVE <<p[2], p[1]>> \in T \X S
  OBVIOUS
<1> QED  BY <1>1, <1>2 DEF Mirror

\* Swapping the runs mirrors the similar pairs.
LEMMA SimilarMirrors ==
  ASSUME NEW base, IsRun(base), NEW cand, IsRun(cand),
         NEW b \in SUBSET Ids(base), NEW c \in SUBSET Ids(cand)
  PROVE  PairSimilar(cand, base, c, b) = Mirror(PairSimilar(base, cand, b, c))
<1> DEFINE K == CandidatesOf(base, cand, b, c)
           L == CandidatesOf(cand, base, c, b)
<1>1. \A p \in b \X c : Score(cand, base, Turned(p)) = Score(base, cand, p)
  <2>1. ASSUME NEW p \in b \X c PROVE Score(cand, base, Turned(p)) = Score(base, cand, p)
    <3>1. p[1] \in Ids(base) /\ p[2] \in Ids(cand)
      OBVIOUS
    <3>2. base[p[1]].kind \in Kinds /\ cand[p[2]].kind \in Kinds
      BY <3>1, RunFact
    <3>3. Turned(p)[1] = p[2] /\ Turned(p)[2] = p[1]
      BY DEF Turned
    <3> QED  BY <3>2, <3>3, KindsAssumption DEF Score
  <2> QED  BY <2>1
<1>2. PlannedOf(base, b) \in SUBSET b /\ PlannedOf(cand, c) \in SUBSET c
  BY DEF PlannedOf
<1>3. Cardinality(CellsOf(cand, base, c, b)) = Cardinality(CellsOf(base, cand, b, c))
  <2>1. Pool(Ids(base)) /\ Pool(Ids(cand))
    BY RunFact
  <2>2. PlannedOf(base, b) \in SUBSET Ids(base) /\ PlannedOf(cand, c) \in SUBSET Ids(cand)
    BY <1>2
  <2>3. IsFiniteSet(PlannedOf(base, b)) /\ IsFiniteSet(PlannedOf(cand, c))
    BY <2>1, <2>2, FS_Subset DEF Pool
  <2>4. PICK x \in Nat, y \in Nat :
          x = Cardinality(PlannedOf(base, b)) /\ y = Cardinality(PlannedOf(cand, c))
    BY <2>3, FS_CardinalityType
  <2>5. /\ Cardinality(CellsOf(base, cand, b, c)) = x * y
        /\ Cardinality(CellsOf(cand, base, c, b)) = y * x
    BY <2>3, <2>4, FS_Product DEF CellsOf
  <2>6. x * y = y * x
    BY <2>4
  <2> QED  BY <2>5, <2>6
<1>4. L = Mirror(K)
  <2>1. CellsOf(cand, base, c, b) = Mirror(CellsOf(base, cand, b, c))
    BY MirrorOfProduct DEF CellsOf
  <2>2. CellsOf(base, cand, b, c) \in SUBSET (b \X c)
    BY <1>2 DEF CellsOf
  <2>3. CellsOf(cand, base, c, b) = {Turned(p) : p \in CellsOf(base, cand, b, c)}
    BY <2>1 DEF Mirror, Turned
  <2>4. Mirror(K) = {Turned(p) : p \in K}
    BY DEF Mirror, Turned
  <2>5. K = {p \in CellsOf(base, cand, b, c) : Score(base, cand, p) >= AlignedMin}
    BY DEF CandidatesOf
  <2>6. L = {p \in CellsOf(cand, base, c, b) : Score(cand, base, p) >= AlignedMin}
    BY DEF CandidatesOf
  <2> HIDE DEF K, L
  <2>7. ASSUME NEW q \in L PROVE q \in Mirror(K)
    <3>1. PICK p \in CellsOf(base, cand, b, c) : q = Turned(p)
      BY <2>3, <2>6
    <3>2. Score(base, cand, p) >= AlignedMin
      BY <1>1, <2>2, <2>6, <3>1
    <3> QED  BY <2>4, <2>5, <3>1, <3>2
  <2>8. ASSUME NEW q \in Mirror(K) PROVE q \in L
    <3>1. PICK p \in K : q = Turned(p)
      BY <2>4
    <3>2. Score(cand, base, q) >= AlignedMin
      BY <1>1, <2>2, <2>5, <3>1
    <3> QED  BY <2>3, <2>5, <2>6, <3>1, <3>2
  <2> QED  BY <2>7, <2>8
<1>5. K \in SUBSET (b \X c) /\ Rated(base, cand, K) /\ Rated(cand, base, L)
  BY CandidatesFact
<1>6. CASE Cardinality(CellsOf(base, cand, b, c)) > MaxPairCells
  <2>1. PairSimilar(base, cand, b, c) = {} /\ PairSimilar(cand, base, c, b) = {}
    BY <1>3, <1>6, SimilarFact
  <2> QED  BY <2>1 DEF Mirror
<1>7. CASE ~(Cardinality(CellsOf(base, cand, b, c)) > MaxPairCells)
  <2> DEFINE P == PairSimilar(base, cand, b, c)
             Q == PairSimilar(cand, base, c, b)
  <2>1. Stable(base, cand, K, P) /\ Stable(cand, base, L, Q)
    BY <1>3, <1>7, SimilarFact
  <2> HIDE DEF K, L, P, Q
  <2>2. K \in SUBSET (Nat \X Nat)
    BY <1>5 DEF Rated
  <2>3. ASSUME NEW p \in K, NEW q \in K, Clash(q, p)
        PROVE  Before(base, cand, q, p) <=> Before(cand, base, Turned(q), Turned(p))
    <3>1. PICK s \in 0..10, r \in 0..10 : s = Score(base, cand, q) /\ r = Score(base, cand, p)
      BY <1>5 DEF Rated
    <3>2. Score(cand, base, Turned(q)) = s /\ Score(cand, base, Turned(p)) = r
      BY <1>1, <1>5, <3>1
    <3>3. PICK i \in Nat, j \in Nat, k \in Nat, l \in Nat : q = <<i, j>> /\ p = <<k, l>>
      BY <2>2
    <3>4. i = k \/ j = l
      BY <2>3, <3>3 DEF Clash
    <3>5. Before(base, cand, q, p) <=> (s > r \/ (s = r /\ (i + j < k + l \/ (i + j = k + l /\ i < k))))
      BY <3>1, <3>3 DEF Before
    <3>6. Before(cand, base, Turned(q), Turned(p))
            <=> (s > r \/ (s = r /\ (j + i < l + k \/ (j + i = l + k /\ j < l))))
      <4>1. Turned(q)[1] = j /\ Turned(q)[2] = i /\ Turned(p)[1] = l /\ Turned(p)[2] = k
        BY <3>3 DEF Turned
      <4> QED  BY <3>2, <4>1 DEF Before
    <3> QED  BY <3>4, <3>5, <3>6
  <2>4. Stable(cand, base, Mirror(K), Mirror(P))
    BY <2>1, <2>2, <2>3, StableMirror
  <2>5. Q = Mirror(P)
    BY <1>4, <1>5, <2>1, <2>4, StableUnique
  <2> QED  BY <2>5 DEF P, Q
<1> QED  BY <1>6, <1>7

-----------------------------------------------------------------------------
(* The stages of two executions.                                            *)

\* Every stage is left or in one pair.
GoodWithin(w, A, B) ==
  /\ w.leftBase \in SUBSET A /\ w.leftCand \in SUBSET B
  /\ \A p \in w.pairs : p.base \in A \ w.leftBase /\ p.cand \in B \ w.leftCand
  /\ \A i \in A \ w.leftBase : \E p \in w.pairs : p.base = i
  /\ \A j \in B \ w.leftCand : \E p \in w.pairs : p.cand = j
  /\ \A p, q \in w.pairs : (p.base = q.base \/ p.cand = q.cand) => p = q

Shrinks(v, w) == v.leftBase \in SUBSET w.leftBase /\ v.leftCand \in SUBSET w.leftCand

\* Taking pairs of free stages takes no stage twice and loses none.
LEMMA TakeKeeps ==
  ASSUME NEW w, NEW A, NEW B, GoodWithin(w, A, B), NEW quality,
         NEW P \in SUBSET (w.leftBase \X w.leftCand), OneToOne(P)
  PROVE  LET v == Take(w, P, quality)
         IN  /\ GoodWithin(v, A, B) /\ Shrinks(v, w)
             /\ \A p \in P : p[1] \notin v.leftBase /\ p[2] \notin v.leftCand
<1> DEFINE v == Take(w, P, quality)
           new(p) == [base |-> p[1], cand |-> p[2], quality |-> quality]
           N == {new(p) : p \in P}
<1>1. /\ v.pairs = w.pairs \cup N
      /\ v.leftBase = w.leftBase \ {p[1] : p \in P} /\ v.leftCand = w.leftCand \ {p[2] : p \in P}
  BY DEF Take, Left
<1>2. \A p \in P : /\ new(p).base = p[1] /\ new(p).cand = p[2]
                   /\ p[1] \in w.leftBase /\ p[2] \in w.leftCand
  OBVIOUS
<1> HIDE DEF v, new
<1>3. Shrinks(v, w) /\ \A p \in P : p[1] \notin v.leftBase /\ p[2] \notin v.leftCand
  BY <1>1 DEF Shrinks
<1>4. v.leftBase \in SUBSET A /\ v.leftCand \in SUBSET B
  BY <1>1 DEF GoodWithin
<1>5. ASSUME NEW p \in v.pairs PROVE p.base \in A \ v.leftBase /\ p.cand \in B \ v.leftCand
  <2>1. CASE p \in w.pairs
    BY <1>1, <2>1 DEF GoodWithin
  <2>2. CASE p \in N
    <3>1. PICK q \in P : p = new(q)
      BY <2>2
    <3>2. p.base \in w.leftBase /\ p.cand \in w.leftCand /\ p.base = q[1] /\ p.cand = q[2]
      BY <1>2, <3>1
    <3> QED  BY <1>3, <3>2 DEF GoodWithin
  <2> QED  BY <1>1, <2>1, <2>2
<1>6. ASSUME NEW i \in A \ v.leftBase PROVE \E p \in v.pairs : p.base = i
  <2>1. CASE i \in w.leftBase
    <3>1. PICK p \in P : i = p[1]
      BY <1>1, <2>1
    <3>2. new(p) \in v.pairs /\ new(p).base = i
      BY <1>1, <1>2, <3>1
    <3> QED  BY <3>2
  <2>2. CASE i \notin w.leftBase
    BY <1>1, <2>2 DEF GoodWithin
  <2> QED  BY <2>1, <2>2
<1>7. ASSUME NEW j \in B \ v.leftCand PROVE \E p \in v.pairs : p.cand = j
  <2>1. CASE j \in w.leftCand
    <3>1. PICK p \in P : j = p[2]
      BY <1>1, <2>1
    <3>2. new(p) \in v.pairs /\ new(p).cand = j
      BY <1>1, <1>2, <3>1
    <3> QED  BY <3>2
  <2>2. CASE j \notin w.leftCand
    BY <1>1, <2>2 DEF GoodWithin
  <2> QED  BY <2>1, <2>2
<1>8. ASSUME NEW p \in v.pairs, NEW q \in v.pairs, p.base = q.base \/ p.cand = q.cand PROVE p = q
  <2>1. \A r \in w.pairs : r.base \notin w.leftBase /\ r.cand \notin w.leftCand
    BY DEF GoodWithin
  <2>2. \A r \in N : r.base \in w.leftBase /\ r.cand \in w.leftCand
    BY <1>2
  <2>3. (p \in w.pairs /\ q \in w.pairs) \/ (p \in N /\ q \in N)
    BY <1>1, <1>8, <2>1, <2>2
  <2>4. CASE p \in w.pairs /\ q \in w.pairs
    BY <1>8, <2>4 DEF GoodWithin
  <2>5. CASE p \in N /\ q \in N
    <3>1. PICK x \in P, y \in P : p = new(x) /\ q = new(y)
      BY <2>5
    <3>2. x[1] = y[1] \/ x[2] = y[2]
      BY <1>2, <1>8, <3>1
    <3> QED  BY <3>1, <3>2 DEF OneToOne
  <2> QED  BY <2>3, <2>4, <2>5
<1>9. GoodWithin(v, A, B)
  BY <1>4, <1>5, <1>6, <1>7, <1>8 DEF GoodWithin
<1> QED  BY <1>3, <1>9 DEF v

\* A pass by key leaves no key on both sides.
NoneShared(w, kb, kc) ==
  \A i \in w.leftBase, j \in w.leftCand : kb[i] = kc[j] => kb[i] = NoKey

\* A pass by key.
LEMMA KeyStep ==
  ASSUME NEW w, NEW A, NEW B, Pool(A), Pool(B), GoodWithin(w, A, B), NEW kb, NEW kc, NEW quality
  PROVE  LET v == TakeByKey(w, kb, kc, quality)
         IN  GoodWithin(v, A, B) /\ Shrinks(v, w) /\ NoneShared(v, kb, kc)
<1> DEFINE P == PairByKey(w.leftBase, w.leftCand, kb, kc)
           v == TakeByKey(w, kb, kc, quality)
<1>1. Pool(w.leftBase) /\ Pool(w.leftCand)
  BY FS_Subset DEF Pool, GoodWithin
<1>2. P \in SUBSET (w.leftBase \X w.leftCand) /\ OneToOne(P)
  BY <1>1, KeysPairOnce
<1>3. v = Take(w, P, quality)
  BY DEF TakeByKey
<1> HIDE DEF P, v
<1>4. /\ GoodWithin(v, A, B) /\ Shrinks(v, w)
      /\ \A p \in P : p[1] \notin v.leftBase /\ p[2] \notin v.leftCand
  BY <1>2, <1>3, TakeKeeps
<1>5. ASSUME NEW i \in v.leftBase, NEW j \in v.leftCand, kb[i] = kc[j], kb[i] # NoKey PROVE FALSE
  <2>1. i \in w.leftBase /\ j \in w.leftCand
    BY <1>4 DEF Shrinks
  <2>2. \E p \in P : p[1] = i \/ p[2] = j
    BY <1>1, <1>5, <2>1, NoKeyLeft DEF P
  <2> QED  BY <1>4, <2>2
<1> QED  BY <1>4, <1>5 DEF NoneShared, v

\* The pass by similarity.
LEMMA SimilarStep ==
  ASSUME NEW base, IsRun(base), NEW cand, IsRun(cand), NEW w,
         NEW A \in SUBSET Ids(base), NEW B \in SUBSET Ids(cand), GoodWithin(w, A, B)
  PROVE  LET v == TakeSimilar(w, base, cand) IN GoodWithin(v, A, B) /\ Shrinks(v, w)
<1> DEFINE P == PairSimilar(base, cand, w.leftBase, w.leftCand)
           v == TakeSimilar(w, base, cand)
<1>1. w.leftBase \in SUBSET Ids(base) /\ w.leftCand \in SUBSET Ids(cand)
  BY DEF GoodWithin
<1>2. P \in SUBSET (w.leftBase \X w.leftCand) /\ OneToOne(P)
  BY <1>1, SimilarOnce
<1>3. v = Take(w, P, "aligned")
  BY DEF TakeSimilar
<1> HIDE DEF P, v
<1>4. GoodWithin(v, A, B) /\ Shrinks(v, w)
  BY <1>2, <1>3, TakeKeeps
<1> QED  BY <1>4 DEF v

\* What alignWithin makes of the stages of two executions.
LEMMA WithinFact ==
  ASSUME NEW base, IsRun(base), NEW cand, IsRun(cand), NEW e, NEW f
  PROVE  LET w == AlignWithin(base, cand, e, f)
         IN  /\ GoodWithin(w, StagesOf(base, e), StagesOf(cand, f))
             /\ NoneShared(w, Exact(base), Exact(cand))
             /\ NoneShared(w, Structural(base), Structural(cand))
<1> DEFINE A == StagesOf(base, e)
           B == StagesOf(cand, f)
           w0 == [pairs |-> {}, leftBase |-> A, leftCand |-> B]
           w1 == TakeByKey(w0, Exact(base), Exact(cand), "exact")
           w2 == TakeByKey(w1, Structural(base), Structural(cand), "structural")
           w3 == TakeSimilar(w2, base, cand)
           w4 == TakeByKey(w3, NameOnly(base), NameOnly(cand), "aligned")
<1>1. AlignWithin(base, cand, e, f) = w4
  BY DEF AlignWithin
<1>2. Pool(A) /\ Pool(B) /\ A \in SUBSET Ids(base) /\ B \in SUBSET Ids(cand)
  BY RunFact
<1> HIDE DEF A, B
<1>3. GoodWithin(w0, A, B)
  BY DEF GoodWithin
<1> HIDE DEF w0
<1>4. GoodWithin(w1, A, B) /\ NoneShared(w1, Exact(base), Exact(cand))
  BY <1>2, <1>3, KeyStep
<1> HIDE DEF w1
<1>5. GoodWithin(w2, A, B) /\ Shrinks(w2, w1) /\ NoneShared(w2, Structural(base), Structural(cand))
  BY <1>2, <1>4, KeyStep
<1> HIDE DEF w2
<1>6. GoodWithin(w3, A, B) /\ Shrinks(w3, w2)
  BY <1>2, <1>5, SimilarStep
<1> HIDE DEF w3
<1>7. GoodWithin(w4, A, B) /\ Shrinks(w4, w3)
  BY <1>2, <1>6, KeyStep
<1> HIDE DEF w4
<1>8. Shrinks(w4, w2) /\ Shrinks(w4, w1)
  BY <1>5, <1>6, <1>7 DEF Shrinks
<1>9. NoneShared(w4, Exact(base), Exact(cand)) /\ NoneShared(w4, Structural(base), Structural(cand))
  BY <1>4, <1>5, <1>8 DEF NoneShared, Shrinks
<1> QED  BY <1>1, <1>7, <1>9 DEF A, B

\* The alignment of two executions the other way round.
Flipped(pairs) == {[base |-> p.cand, cand |-> p.base, quality |-> p.quality] : p \in pairs}
Reversed(v, w) ==
  v.leftBase = w.leftCand /\ v.leftCand = w.leftBase /\ v.pairs = Flipped(w.pairs)

\* Taking the mirrored pairs.
LEMMA TakeMirrors ==
  ASSUME NEW v, NEW w, Reversed(v, w), NEW P, NEW quality
  PROVE  Reversed(Take(v, Mirror(P), quality), Take(w, P, quality))
<1> DEFINE x == Take(v, Mirror(P), quality)
           y == Take(w, P, quality)
           new(p) == [base |-> p[1], cand |-> p[2], quality |-> quality]
           flip(r) == [base |-> r.cand, cand |-> r.base, quality |-> r.quality]
           N == {new(p) : p \in P}
           M == {new(p) : p \in Mirror(P)}
<1>1. /\ x.pairs = v.pairs \cup M /\ y.pairs = w.pairs \cup N
      /\ x.leftBase = v.leftBase \ {p[1] : p \in Mirror(P)}
      /\ x.leftCand = v.leftCand \ {p[2] : p \in Mirror(P)}
      /\ y.leftBase = w.leftBase \ {p[1] : p \in P} /\ y.leftCand = w.leftCand \ {p[2] : p \in P}
  BY DEF Take, Left
<1> HIDE DEF x, y
<1>2. Mirror(P) = {Turned(p) : p \in P} /\ Flipped(N) = {flip(r) : r \in N}
  BY DEF Mirror, Turned, Flipped
<1>3. \A p \in P : Turned(p)[1] = p[2] /\ Turned(p)[2] = p[1] /\ flip(new(p)) = new(Turned(p))
  BY DEF Turned
<1> HIDE DEF new, flip
<1>4. {p[1] : p \in Mirror(P)} = {p[2] : p \in P} /\ {p[2] : p \in Mirror(P)} = {p[1] : p \in P}
  BY <1>2, <1>3
<1>5. M = Flipped(N)
  BY <1>2, <1>3
<1> HIDE DEF M, N
<1>6. Flipped(y.pairs) = Flipped(w.pairs) \cup Flipped(N)
  BY <1>1 DEF Flipped
<1>7. Reversed(x, y)
  BY <1>1, <1>4, <1>5, <1>6 DEF Reversed
<1> QED  BY <1>7 DEF x, y

\* The mirrored pass by key.
LEMMA KeyMirrors ==
  ASSUME NEW v, NEW w, Reversed(v, w), NEW kb, NEW kc, NEW quality
  PROVE  Reversed(TakeByKey(v, kc, kb, quality), TakeByKey(w, kb, kc, quality))
<1>1. PairByKey(v.leftBase, v.leftCand, kc, kb) = Mirror(PairByKey(w.leftBase, w.leftCand, kb, kc))
  BY KeysMirror DEF Reversed
<1> QED  BY <1>1, TakeMirrors DEF TakeByKey

\* alignWithin, the executions swapped.
LEMMA WithinMirrors ==
  ASSUME NEW base, IsRun(base), NEW cand, IsRun(cand), NEW e, NEW f
  PROVE  Reversed(AlignWithin(cand, base, f, e), AlignWithin(base, cand, e, f))
<1> DEFINE A == StagesOf(base, e)
           B == StagesOf(cand, f)
           w0 == [pairs |-> {}, leftBase |-> A, leftCand |-> B]
           w1 == TakeByKey(w0, Exact(base), Exact(cand), "exact")
           w2 == TakeByKey(w1, Structural(base), Structural(cand), "structural")
           w3 == TakeSimilar(w2, base, cand)
           w4 == TakeByKey(w3, NameOnly(base), NameOnly(cand), "aligned")
           v0 == [pairs |-> {}, leftBase |-> B, leftCand |-> A]
           v1 == TakeByKey(v0, Exact(cand), Exact(base), "exact")
           v2 == TakeByKey(v1, Structural(cand), Structural(base), "structural")
           v3 == TakeSimilar(v2, cand, base)
           v4 == TakeByKey(v3, NameOnly(cand), NameOnly(base), "aligned")
<1>1. AlignWithin(base, cand, e, f) = w4 /\ AlignWithin(cand, base, f, e) = v4
  BY DEF AlignWithin
<1>2. Pool(A) /\ Pool(B) /\ A \in SUBSET Ids(base) /\ B \in SUBSET Ids(cand)
  BY RunFact
<1> HIDE DEF A, B
<1>3. Reversed(v0, w0) /\ GoodWithin(w0, A, B)
  BY DEF Reversed, Flipped, GoodWithin
<1> HIDE DEF v0, w0
<1>4. Reversed(v1, w1)
  BY <1>3, KeyMirrors
<1>5. GoodWithin(w1, A, B)
  BY <1>2, <1>3, KeyStep
<1> HIDE DEF v1, w1
<1>6. Reversed(v2, w2)
  BY <1>4, KeyMirrors
<1>7. GoodWithin(w2, A, B)
  BY <1>2, <1>5, KeyStep
<1> HIDE DEF v2, w2
<1>8. Reversed(v3, w3)
  <2>1. w2.leftBase \in SUBSET Ids(base) /\ w2.leftCand \in SUBSET Ids(cand)
    BY <1>2, <1>7 DEF GoodWithin
  <2>2. PairSimilar(cand, base, w2.leftCand, w2.leftBase)
          = Mirror(PairSimilar(base, cand, w2.leftBase, w2.leftCand))
    BY <2>1, SimilarMirrors
  <2>3. v2.leftBase = w2.leftCand /\ v2.leftCand = w2.leftBase
    BY <1>6 DEF Reversed
  <2> QED  BY <1>6, <2>2, <2>3, TakeMirrors DEF TakeSimilar
<1> HIDE DEF v3, w3
<1>9. Reversed(v4, w4)
  BY <1>8, KeyMirrors
<1> QED  BY <1>1, <1>9

-----------------------------------------------------------------------------
(* The pairs of executions.                                                 *)

\* No execution is in two pairs, and stages outside any execution meet only each other.
LEMMA ExecutionPairsFact ==
  ASSUME NEW base, IsRun(base), NEW cand, IsRun(cand)
  PROVE  /\ OneToOne(ExecutionPairs(base, cand))
         /\ \A x \in ExecutionPairs(base, cand) :
              x = <<x[1], x[2]>> /\ (x[1] = NoExecution <=> x[2] = NoExecution)
<1> DEFINE t == ExecutionTable(base, cand)
           a == Executions(base)
           c == Executions(cand)
           paired == AlignSequences(t)
           X == ExecutionPairs(base, cand)
           N == {<<a[p[1]], c[p[2]]>> : p \in ToSet(paired)}
<1>1. IsTable(t) /\ t.idA = a /\ t.idB = c
  BY ExecutionTableFact DEF ExecutionTable
<1>2. X \in SUBSET (N \cup {<<NoExecution, NoExecution>>})
  BY DEF ExecutionPairs
<1>3. Lists(a, Ran(base)) /\ Lists(c, Ran(cand))
  BY RunFact
<1> HIDE DEF t, X, a, c
<1>4. ToSet(paired) \in Alignments(t)
  BY <1>1, AlignedBest
<1> HIDE DEF paired
<1>5. ASSUME NEW p \in ToSet(paired)
      PROVE  p[1] \in DOMAIN a /\ p[2] \in DOMAIN c /\ p[1] \in Nat /\ p[2] \in Nat /\ p = <<p[1], p[2]>>
  <2>1. p \in Cells(t)
    BY <1>4 DEF Alignments
  <2>2. p \in (1..Len(a)) \X (1..Len(c))
    BY <1>1, <2>1 DEF Cells, Rows, Columns
  <2>3. DOMAIN a = 1..Len(a) /\ DOMAIN c = 1..Len(c)
    BY <1>3, ListFact
  <2> QED  BY <2>2, <2>3
<1>6. OneToOne(ToSet(paired))
  <2>1. ASSUME NEW p \in ToSet(paired), NEW q \in ToSet(paired), p[1] = q[1] \/ p[2] = q[2], p # q
        PROVE  FALSE
    <3>1. /\ p[1] < q[1] <=> p[2] < q[2]
          /\ q[1] < p[1] <=> q[2] < p[2]
          /\ p[1] # q[1]
      BY <1>4, <2>1 DEF Alignments
    <3>2. PICK i \in Nat, j \in Nat, k \in Nat, l \in Nat :
            i = p[1] /\ j = p[2] /\ k = q[1] /\ l = q[2]
      BY <1>5
    <3> QED  BY <2>1, <3>1, <3>2
  <2> QED  BY <2>1 DEF OneToOne
<1>7. ASSUME NEW x \in N PROVE x = <<x[1], x[2]>> /\ x[1] # NoExecution /\ x[2] # NoExecution
  <2>1. PICK p \in ToSet(paired) : x = <<a[p[1]], c[p[2]]>>
    OBVIOUS
  <2>2. a[p[1]] \in Ran(base) /\ c[p[2]] \in Ran(cand)
    BY <1>3, <1>5, ListFact
  <2> QED  BY <2>1, <2>2, RunFact
<1>8. ASSUME NEW x \in N, NEW y \in N, x[1] = y[1] \/ x[2] = y[2] PROVE x = y
  <2>1. PICK p \in ToSet(paired) : x = <<a[p[1]], c[p[2]]>>
    OBVIOUS
  <2>2. PICK q \in ToSet(paired) : y = <<a[q[1]], c[q[2]]>>
    OBVIOUS
  <2>3. a[p[1]] = a[q[1]] \/ c[p[2]] = c[q[2]]
    BY <1>8, <2>1, <2>2
  <2>4. /\ p[1] \in DOMAIN a /\ q[1] \in DOMAIN a /\ p[2] \in DOMAIN c /\ q[2] \in DOMAIN c
    BY <1>5
  <2>5. p[1] = q[1] \/ p[2] = q[2]
    <3>1. \A i, j \in DOMAIN a : a[i] = a[j] => i = j
      BY <1>3, ListFact
    <3>2. \A i, j \in DOMAIN c : c[i] = c[j] => i = j
      BY <1>3, ListFact
    <3> QED  BY <2>3, <2>4, <3>1, <3>2
  <2>6. p = q
    BY <1>6, <2>5 DEF OneToOne
  <2> QED  BY <2>1, <2>2, <2>6
<1> HIDE DEF N
<1>9. \A x \in X : x = <<x[1], x[2]>> /\ (x[1] = NoExecution <=> x[2] = NoExecution)
  BY <1>2, <1>7
<1>10. OneToOne(X)
  <2>1. ASSUME NEW x \in X, NEW y \in X, x[1] = y[1] \/ x[2] = y[2] PROVE x = y
    <3>1. x[1] = NoExecution <=> y[1] = NoExecution
      BY <1>9, <2>1
    <3>2. \A z \in X : z[1] # NoExecution => z \in N
      BY <1>2
    <3>3. \A z \in X : z[1] = NoExecution => z = <<NoExecution, NoExecution>>
      BY <1>9
    <3> QED  BY <1>8, <2>1, <3>1, <3>2, <3>3
  <2> QED  BY <2>1 DEF OneToOne
<1> QED  BY <1>9, <1>10 DEF X

-----------------------------------------------------------------------------
(* Every stage once.                                                        *)

\* A stage in no pair and no changed plan is unmatched: it is counted once.
LEMMA OneState ==
  ASSUME NEW Q, NEW R, NEW U, NEW i, \A p, q \in Q : p = q,
         i \in R => Q = {}, i \in U <=> (i \notin R /\ Q = {})
  PROVE  Cardinality(Q) + Cardinality({s \in {"replanned", "unmatched"} :
                                         i \in (IF s = "replanned" THEN R ELSE U)}) = 1
<1> DEFINE S == {s \in {"replanned", "unmatched"} : i \in (IF s = "replanned" THEN R ELSE U)}
<1>1. Cardinality({}) = 0 /\ \A x : Cardinality({x}) = 1
  BY FS_EmptySet, FS_Singleton
<1>2. CASE Q # {}
  <2>1. PICK p : p \in Q
    BY <1>2
  <2>2. Q = {p}
    BY <2>1
  <2>3. S = {}
    BY <1>2
  <2>4. Cardinality(Q) = 1 /\ Cardinality(S) = 0
    BY <1>1, <2>2, <2>3
  <2> HIDE DEF S
  <2>5. Cardinality(Q) + Cardinality(S) = 1
    BY <2>4
  <2> QED  BY <2>5 DEF S
<1>3. CASE Q = {}
  <2>1. S = {"replanned"} \/ S = {"unmatched"}
    BY <1>3
  <2>2. Cardinality(Q) = 0 /\ Cardinality(S) = 1
    BY <1>1, <1>3, <2>1
  <2> HIDE DEF S
  <2>3. Cardinality(Q) + Cardinality(S) = 1
    BY <2>2
  <2> QED  BY <2>3 DEF S
<1> QED  BY <1>2, <1>3

WithinOf(base, cand) ==
  [x \in ExecutionPairs(base, cand) |-> AlignWithin(base, cand, x[1], x[2])]

\* The pairs are those of the executions.
LEMMA WithinOfFact ==
  ASSUME NEW base, IsRun(base), NEW cand, IsRun(cand)
  PROVE  LET W == WithinOf(base, cand)
             X == ExecutionPairs(base, cand)
             P == AlignStages(base, cand).pairs
         IN  /\ DOMAIN W = X /\ \A x \in X : W[x] = AlignWithin(base, cand, x[1], x[2])
             /\ \A x \in X : GoodWithin(W[x], StagesOf(base, x[1]), StagesOf(cand, x[2]))
             /\ P = UNION {W[x].pairs : x \in X}
             /\ \A x \in X, p \in P :
                  p.base \in StagesOf(base, x[1]) \/ p.cand \in StagesOf(cand, x[2]) => p \in W[x].pairs
<1> DEFINE W == WithinOf(base, cand)
           X == ExecutionPairs(base, cand)
           P == AlignStages(base, cand).pairs
<1>1. DOMAIN W = X /\ \A x \in X : W[x] = AlignWithin(base, cand, x[1], x[2])
  BY DEF WithinOf
<1>2. \A x \in X : GoodWithin(W[x], StagesOf(base, x[1]), StagesOf(cand, x[2]))
  BY <1>1, WithinFact
<1>3. P = UNION {W[x].pairs : x \in X}
  <2>1. AlignStages(base, cand) = OfPairs(base, cand, W)
    BY DEF AlignStages, WithinOf
  <2> HIDE DEF W
  <2>2. OfPairs(base, cand, W).pairs = UNION {W[x].pairs : x \in DOMAIN W}
    BY DEF OfPairs, StageAlignmentOf
  <2> QED  BY <1>1, <2>1, <2>2
<1>4. OneToOne(X)
  BY ExecutionPairsFact
<1> HIDE DEF W, X, P
<1>5. ASSUME NEW x \in X, NEW p \in P,
             p.base \in StagesOf(base, x[1]) \/ p.cand \in StagesOf(cand, x[2])
      PROVE  p \in W[x].pairs
  <2>1. PICK y \in X : p \in W[y].pairs
    BY <1>3
  <2>2. p.base \in StagesOf(base, y[1]) /\ p.cand \in StagesOf(cand, y[2])
    BY <1>2, <2>1 DEF GoodWithin
  <2>3. x[1] = y[1] \/ x[2] = y[2]
    BY <1>5, <2>2 DEF StagesOf
  <2>4. x = y
    BY <1>4, <2>3 DEF OneToOne
  <2> QED  BY <2>1, <2>4
<1> QED  BY <1>1, <1>2, <1>3, <1>5 DEF W, X, P

\* The parts of an alignment.
LEMMA StageParts ==
  ASSUME NEW base, NEW cand
  PROVE  LET a == AlignStages(base, cand)
             W == WithinOf(base, cand)
             G == {x \in DOMAIN W : Replanned(base, cand, x)}
         IN  /\ a.replannedBase = UNION {W[x].leftBase : x \in G}
             /\ a.replannedCand = UNION {W[x].leftCand : x \in G}
             /\ a.unmatchedBase = Ids(base) \ (a.replannedBase \cup {p.base : p \in a.pairs})
             /\ a.unmatchedCand = Ids(cand) \ (a.replannedCand \cup {p.cand : p \in a.pairs})
<1> DEFINE W == WithinOf(base, cand)
<1>1. AlignStages(base, cand) = OfPairs(base, cand, W)
  BY DEF AlignStages, WithinOf
<1> HIDE DEF W
<1>2. LET a == OfPairs(base, cand, W)
          G == {x \in DOMAIN W : Replanned(base, cand, x)}
      IN  /\ a.replannedBase = UNION {W[x].leftBase : x \in G}
          /\ a.replannedCand = UNION {W[x].leftCand : x \in G}
          /\ a.unmatchedBase = Ids(base) \ (a.replannedBase \cup {p.base : p \in a.pairs})
          /\ a.unmatchedCand = Ids(cand) \ (a.replannedCand \cup {p.cand : p \in a.pairs})
  BY DEF OfPairs, StageAlignmentOf, Leftovers
<1> QED  BY <1>1, <1>2 DEF W

\* Every stage is in one pair, in one changed plan or unmatched.
LEMMA OnceFact ==
  ASSUME NEW base, IsRun(base), NEW cand, IsRun(cand)
  PROVE  LET a == AlignStages(base, cand)
         IN  /\ \A i \in Ids(base) :
                  Cardinality({p \in a.pairs : p.base = i})
                    + Cardinality({s \in {"replanned", "unmatched"} :
                        i \in (IF s = "replanned" THEN a.replannedBase ELSE a.unmatchedBase)}) = 1
             /\ \A j \in Ids(cand) :
                  Cardinality({p \in a.pairs : p.cand = j})
                    + Cardinality({s \in {"replanned", "unmatched"} :
                        j \in (IF s = "replanned" THEN a.replannedCand ELSE a.unmatchedCand)}) = 1
<1> DEFINE a == AlignStages(base, cand)
           W == WithinOf(base, cand)
           X == ExecutionPairs(base, cand)
           G == {x \in DOMAIN W : Replanned(base, cand, x)}
<1>1. /\ DOMAIN W = X
      /\ \A x \in X : GoodWithin(W[x], StagesOf(base, x[1]), StagesOf(cand, x[2]))
      /\ a.pairs = UNION {W[x].pairs : x \in X}
      /\ \A x \in X, p \in a.pairs :
           p.base \in StagesOf(base, x[1]) \/ p.cand \in StagesOf(cand, x[2]) => p \in W[x].pairs
  BY WithinOfFact
<1>2. /\ a.replannedBase = UNION {W[x].leftBase : x \in G}
      /\ a.replannedCand = UNION {W[x].leftCand : x \in G}
      /\ a.unmatchedBase = Ids(base) \ (a.replannedBase \cup {p.base : p \in a.pairs})
      /\ a.unmatchedCand = Ids(cand) \ (a.replannedCand \cup {p.cand : p \in a.pairs})
  BY StageParts
<1>3. G \in SUBSET X
  BY <1>1
<1> HIDE DEF a, W, X, G
<1>4. ASSUME NEW p \in a.pairs, NEW q \in a.pairs, p.base = q.base \/ p.cand = q.cand PROVE p = q
  <2>1. PICK x \in X : p \in W[x].pairs
    BY <1>1
  <2>2. p.base \in StagesOf(base, x[1]) /\ p.cand \in StagesOf(cand, x[2])
    BY <1>1, <2>1 DEF GoodWithin
  <2>3. q \in W[x].pairs
    BY <1>1, <1>4, <2>2
  <2> QED  BY <1>1, <1>4, <2>1, <2>3 DEF GoodWithin
<1>5. ASSUME NEW x \in G, NEW p \in a.pairs PROVE p.base \notin W[x].leftBase /\ p.cand \notin W[x].leftCand
  <2>1. GoodWithin(W[x], StagesOf(base, x[1]), StagesOf(cand, x[2])) /\ x \in X
    BY <1>1, <1>3
  <2>2. CASE p \in W[x].pairs
    BY <2>1, <2>2 DEF GoodWithin
  <2>3. CASE p \notin W[x].pairs
    <3>1. p.base \notin StagesOf(base, x[1]) /\ p.cand \notin StagesOf(cand, x[2])
      BY <1>1, <2>1, <2>3
    <3> QED  BY <2>1, <3>1 DEF GoodWithin
  <2> QED  BY <2>2, <2>3
<1>6. ASSUME NEW i \in Ids(base)
      PROVE  Cardinality({p \in a.pairs : p.base = i})
               + Cardinality({s \in {"replanned", "unmatched"} :
                   i \in (IF s = "replanned" THEN a.replannedBase ELSE a.unmatchedBase)}) = 1
  <2> DEFINE Q == {p \in a.pairs : p.base = i}
             R == a.replannedBase
             U == a.unmatchedBase
  <2>1. \A p, q \in Q : p = q
    BY <1>4
  <2>2. i \in R => Q = {}
    BY <1>2, <1>5
  <2>3. i \in U <=> (i \notin R /\ Q = {})
    BY <1>2, <1>6
  <2> HIDE DEF Q, R, U
  <2>4. Cardinality(Q) + Cardinality({s \in {"replanned", "unmatched"} :
                                         i \in (IF s = "replanned" THEN R ELSE U)}) = 1
    BY <2>1, <2>2, <2>3, OneState
  <2> QED  BY <2>4 DEF Q, R, U
<1>7. ASSUME NEW j \in Ids(cand)
      PROVE  Cardinality({p \in a.pairs : p.cand = j})
               + Cardinality({s \in {"replanned", "unmatched"} :
                   j \in (IF s = "replanned" THEN a.replannedCand ELSE a.unmatchedCand)}) = 1
  <2> DEFINE Q == {p \in a.pairs : p.cand = j}
             R == a.replannedCand
             U == a.unmatchedCand
  <2>1. \A p, q \in Q : p = q
    BY <1>4
  <2>2. j \in R => Q = {}
    BY <1>2, <1>5
  <2>3. j \in U <=> (j \notin R /\ Q = {})
    BY <1>2, <1>7
  <2> HIDE DEF Q, R, U
  <2>4. Cardinality(Q) + Cardinality({s \in {"replanned", "unmatched"} :
                                         j \in (IF s = "replanned" THEN R ELSE U)}) = 1
    BY <2>1, <2>2, <2>3, OneState
  <2> QED  BY <2>4 DEF Q, R, U
<1> QED  BY <1>6, <1>7 DEF a

\* No key is left over on both sides of two executions.
LEMMA NoneLeftFact ==
  ASSUME NEW base, IsRun(base), NEW cand, IsRun(cand), NEW x \in ExecutionPairs(base, cand),
         NEW i \in StagesOf(base, x[1]) \ {p.base : p \in AlignStages(base, cand).pairs},
         NEW j \in StagesOf(cand, x[2]) \ {p.cand : p \in AlignStages(base, cand).pairs}
  PROVE  /\ Exact(base)[i] # Exact(cand)[j]
         /\ Structural(base)[i] # NoKey => Structural(base)[i] # Structural(cand)[j]
<1> DEFINE a == AlignStages(base, cand)
           W == WithinOf(base, cand)
           X == ExecutionPairs(base, cand)
<1>1. /\ GoodWithin(W[x], StagesOf(base, x[1]), StagesOf(cand, x[2]))
      /\ W[x] = AlignWithin(base, cand, x[1], x[2])
      /\ a.pairs = UNION {W[y].pairs : y \in X}
  BY WithinOfFact
<1>2. NoneShared(W[x], Exact(base), Exact(cand)) /\ NoneShared(W[x], Structural(base), Structural(cand))
  BY <1>1, WithinFact
<1>3. W[x].pairs \in SUBSET a.pairs
  BY <1>1
<1> HIDE DEF a, W, X
<1>4. i \in W[x].leftBase /\ j \in W[x].leftCand
  BY <1>1, <1>3 DEF GoodWithin, a
<1>5. Exact(base)[i] # NoKey
  <2>1. i \in DOMAIN base /\ base[i].kind \in Kinds
    BY RunFact DEF StagesOf
  <2> QED  BY <2>1, KindsAssumption DEF Exact
<1> QED  BY <1>2, <1>4, <1>5 DEF NoneShared

-----------------------------------------------------------------------------
(* The runs swapped.                                                        *)

\* A mirror image has as many pairs.
LEMMA MirrorCount ==
  ASSUME NEW P, IsFiniteSet(P), \A p \in P : p = <<p[1], p[2]>>
  PROVE  Cardinality(Mirror(P)) = Cardinality(P)
<1> DEFINE g == [p \in P |-> <<p[2], p[1]>>]
           M == Mirror(P)
<1>1. \A p \in P : g[p] = <<p[2], p[1]>> /\ g[p] \in M
  BY DEF Mirror
<1>2. g \in [P -> M]
  BY <1>1
<1>3. \A y \in M : \E p \in P : g[p] = y
  BY <1>1 DEF Mirror
<1>4. ASSUME NEW p \in P, NEW q \in P, g[p] = g[q] PROVE p = q
  <2>1. <<p[2], p[1]>> = <<q[2], q[1]>>
    BY <1>1, <1>4
  <2> QED  BY <2>1
<1> HIDE DEF g, M
<1>5. Cardinality(M) = Cardinality(P)
  BY <1>2, <1>3, <1>4, SameCount
<1> QED  BY <1>5 DEF M

\* Two executions are as similar the other way round.
LEMMA SimilarityMirrors ==
  ASSUME NEW base, IsRun(base), NEW cand, IsRun(cand), NEW e \in Ran(base), NEW f \in Ran(cand)
  PROVE  ExecutionSimilarity(cand, base, f, e) = ExecutionSimilarity(base, cand, e, f)
<1> DEFINE a == StagesOf(base, e)
           b == StagesOf(cand, f)
           P == PairByKey(a, b, Tokens(base), Tokens(cand))
           Q == PairByKey(b, a, Tokens(cand), Tokens(base))
<1>1. Pool(a) /\ Pool(b)
  BY RunFact
<1>2. /\ ExecutionSimilarity(base, cand, e, f) =
           (2000 * Cardinality(P) + (Cardinality(a) + Cardinality(b) - Cardinality(P)))
             \div (2 * (Cardinality(a) + Cardinality(b) - Cardinality(P)))
      /\ ExecutionSimilarity(cand, base, f, e) =
           (2000 * Cardinality(Q) + (Cardinality(b) + Cardinality(a) - Cardinality(Q)))
             \div (2 * (Cardinality(b) + Cardinality(a) - Cardinality(Q)))
  BY DEF ExecutionSimilarity
<1> HIDE DEF a, b
<1>3. P \in SUBSET (a \X b) /\ IsFiniteSet(P)
  BY <1>1, KeysPairOnce
<1>4. Q = Mirror(P)
  BY KeysMirror
<1> HIDE DEF P, Q
<1>5. Cardinality(Q) = Cardinality(P)
  <2>1. \A p \in P : p = <<p[1], p[2]>>
    BY <1>3
  <2> QED  BY <1>3, <1>4, <2>1, MirrorCount
<1>6. PICK x \in Nat, y \in Nat, z \in Nat :
        x = Cardinality(a) /\ y = Cardinality(b) /\ z = Cardinality(P)
  BY <1>1, <1>3, FS_CardinalityType DEF Pool
<1>7. y + x - z = x + y - z
  OBVIOUS
<1>8. Cardinality(b) + Cardinality(a) - Cardinality(Q) = Cardinality(a) + Cardinality(b) - Cardinality(P)
  BY <1>5, <1>6, <1>7
<1> QED  BY <1>2, <1>5, <1>8

\* So the table of the executions is swapped.
LEMMA TableSwapped ==
  ASSUME NEW base, IsRun(base), NEW cand, IsRun(cand)
  PROVE  ExecutionTable(cand, base) = Swapped(ExecutionTable(base, cand))
<1> DEFINE t == ExecutionTable(base, cand)
           u == ExecutionTable(cand, base)
           a == Executions(base)
           c == Executions(cand)
           S == [i \in DOMAIN c |-> [j \in DOMAIN a |-> ExecutionSimilarity(cand, base, c[i], a[j])]]
           T == [i \in DOMAIN a |-> [j \in DOMAIN c |-> ExecutionSimilarity(base, cand, a[i], c[j])]]
           V == [j \in 1..Len(c) |-> [i \in 1..Len(a) |-> T[i][j]]]
<1>1. t = [idA |-> a, idB |-> c, score |-> T] /\ u = [idA |-> c, idB |-> a, score |-> S]
  BY DEF ExecutionTable
<1>2. /\ DOMAIN a = 1..Len(a) /\ DOMAIN c = 1..Len(c)
      /\ \A i \in DOMAIN a : a[i] \in Ran(base)
      /\ \A j \in DOMAIN c : c[j] \in Ran(cand)
  BY RunFact, ListFact
<1>3. Swapped(t) = [idA |-> c, idB |-> a, score |-> V]
  <2> HIDE DEF t, T
  <2>1. t.idA = a /\ t.idB = c /\ t.score = T
    BY <1>1
  <2> HIDE DEF a, c
  <2> QED  BY <2>1 DEF Swapped, Rows, Columns
<1> HIDE DEF a, c, t, u
<1>4. \A i \in DOMAIN c, j \in DOMAIN a :
        ExecutionSimilarity(cand, base, c[i], a[j]) = ExecutionSimilarity(base, cand, a[j], c[i])
  BY <1>2, SimilarityMirrors
<1>5. \A j \in DOMAIN c : S[j] = V[j]
  BY <1>2, <1>4
<1>6. S = V
  <2>1. S = [j \in DOMAIN c |-> S[j]] /\ V = [j \in DOMAIN c |-> V[j]]
    BY <1>2
  <2> HIDE DEF S, V
  <2> QED  BY <1>5, <2>1
<1> QED  BY <1>1, <1>3, <1>6 DEF t, u

\* The pairs of executions are mirrored.
LEMMA ExecutionPairsMirror ==
  ASSUME NEW base, IsRun(base), NEW cand, IsRun(cand), MayMirror(ExecutionTable(base, cand))
  PROVE  ExecutionPairs(cand, base) = Mirror(ExecutionPairs(base, cand))
<1> DEFINE t == ExecutionTable(base, cand)
           a == Executions(base)
           c == Executions(cand)
           s == AlignSequences(t)
           r == AlignSequences(ExecutionTable(cand, base))
           N == {<<a[p[1]], c[p[2]]>> : p \in ToSet(s)}
           M == {<<c[p[1]], a[p[2]]>> : p \in ToSet(r)}
           outN == IF StagesOf(base, NoExecution) # {} /\ StagesOf(cand, NoExecution) # {}
                     THEN {<<NoExecution, NoExecution>>} ELSE {}
           outM == IF StagesOf(cand, NoExecution) # {} /\ StagesOf(base, NoExecution) # {}
                     THEN {<<NoExecution, NoExecution>>} ELSE {}
<1>1. /\ ExecutionPairs(base, cand) = IF ~Accepted(base, cand, s) THEN {} ELSE N \cup outN
      /\ ExecutionPairs(cand, base) = IF ~Accepted(cand, base, r) THEN {} ELSE M \cup outM
  BY DEF ExecutionPairs
<1>2. IsTable(t) /\ r = AlignSequences(Swapped(t))
  BY ExecutionTableFact, TableSwapped
<1> HIDE DEF t
<1>3. Len(r) = Len(s) /\ ToSet(r) = Mirror(ToSet(s))
  BY <1>2, AlignedMirrors DEF t
<1> HIDE DEF s, r
<1>4. Accepted(cand, base, r) <=> Accepted(base, cand, s)
  <2>1. {Len(Executions(cand)), Len(Executions(base))} = {Len(Executions(base)), Len(Executions(cand))}
    OBVIOUS
  <2> QED  BY <1>3, <2>1 DEF Accepted
<1>5. M = Mirror(N)
  <2>1. ToSet(r) = {Turned(p) : p \in ToSet(s)} /\ Mirror(N) = {Turned(x) : x \in N}
    BY <1>3 DEF Mirror, Turned
  <2> DEFINE at(p) == <<a[p[1]], c[p[2]]>>
             back(p) == <<c[p[1]], a[p[2]]>>
  <2>2. \A p \in ToSet(s) : back(Turned(p)) = Turned(at(p))
    BY DEF Turned
  <2>3. N = {at(p) : p \in ToSet(s)} /\ M = {back(p) : p \in ToSet(r)}
    OBVIOUS
  <2> HIDE DEF at, back, N, M
  <2> QED  BY <2>1, <2>2, <2>3
<1>6. Mirror(outN) = outM
  BY DEF Mirror
<1> HIDE DEF N, M, outN, outM
<1>7. Mirror(N \cup outN) = M \cup outM /\ Mirror({}) = {}
  BY <1>5, <1>6 DEF Mirror
<1> QED  BY <1>1, <1>4, <1>7

\* And those of the stages, with the changed plans.
LEMMA StagesMirror ==
  ASSUME NEW base, IsRun(base), NEW cand, IsRun(cand), MayMirror(ExecutionTable(base, cand))
  PROVE  LET a == AlignStages(base, cand)
             b == AlignStages(cand, base)
         IN  /\ b.pairs = Flipped(a.pairs)
             /\ b.replannedBase = a.replannedCand /\ b.replannedCand = a.replannedBase
<1> DEFINE a == AlignStages(base, cand)
           b == AlignStages(cand, base)
           W == WithinOf(base, cand)
           V == WithinOf(cand, base)
           X == ExecutionPairs(base, cand)
           Y == ExecutionPairs(cand, base)
           G == {x \in X : Replanned(base, cand, x)}
           H == {y \in Y : Replanned(cand, base, y)}
<1>1. /\ DOMAIN W = X /\ DOMAIN V = Y
      /\ \A x \in X : W[x] = AlignWithin(base, cand, x[1], x[2])
      /\ \A y \in Y : V[y] = AlignWithin(cand, base, y[1], y[2])
      /\ a.pairs = UNION {W[x].pairs : x \in X} /\ b.pairs = UNION {V[y].pairs : y \in Y}
  BY WithinOfFact
<1>2. /\ a.replannedBase = UNION {W[x].leftBase : x \in G}
      /\ a.replannedCand = UNION {W[x].leftCand : x \in G}
      /\ b.replannedBase = UNION {V[y].leftBase : y \in H}
      /\ b.replannedCand = UNION {V[y].leftCand : y \in H}
  BY <1>1, StageParts
<1>3. Y = {Turned(x) : x \in X}
  BY ExecutionPairsMirror DEF Mirror, Turned
<1>4. \A x \in X : Turned(x)[1] = x[2] /\ Turned(x)[2] = x[1]
  BY DEF Turned
<1>5. \A x \in X : Replanned(cand, base, Turned(x)) <=> Replanned(base, cand, x)
  <2>1. \A x \in X : x[1] = NoExecution <=> x[2] = NoExecution
    BY ExecutionPairsFact
  <2> QED  BY <1>4, <2>1 DEF Replanned
<1>6. H = {Turned(x) : x \in G}
  BY <1>3, <1>5
<1>7. \A x \in X : Reversed(V[Turned(x)], W[x])
  <2>1. ASSUME NEW x \in X PROVE Reversed(V[Turned(x)], W[x])
    <3>1. V[Turned(x)] = AlignWithin(cand, base, x[2], x[1])
      BY <1>1, <1>3, <1>4
    <3>2. W[x] = AlignWithin(base, cand, x[1], x[2])
      BY <1>1
    <3> QED  BY <3>1, <3>2, WithinMirrors
  <2> QED  BY <2>1
<1> HIDE DEF a, b, W, V, X, Y
<1>8. \A x \in X : /\ V[Turned(x)].leftBase = W[x].leftCand /\ V[Turned(x)].leftCand = W[x].leftBase
                   /\ V[Turned(x)].pairs = Flipped(W[x].pairs)
  BY <1>7 DEF Reversed
<1>9. G \in SUBSET X
  OBVIOUS
<1> HIDE DEF G, H
<1>10. b.replannedBase = a.replannedCand
  <2>1. {V[y].leftBase : y \in H} = {W[x].leftCand : x \in G}
    BY <1>6, <1>8, <1>9
  <2> QED  BY <1>2, <2>1
<1>11. b.replannedCand = a.replannedBase
  <2>1. {V[y].leftCand : y \in H} = {W[x].leftBase : x \in G}
    BY <1>6, <1>8, <1>9
  <2> QED  BY <1>2, <2>1
<1>12. b.pairs = Flipped(a.pairs)
  <2>1. {V[y].pairs : y \in Y} = {Flipped(W[x].pairs) : x \in X}
    BY <1>3, <1>8
  <2>2. b.pairs = UNION {Flipped(W[x].pairs) : x \in X}
    BY <1>1, <2>1
  <2> DEFINE flip(p) == [base |-> p.cand, cand |-> p.base, quality |-> p.quality]
  <2>3. \A P : Flipped(P) = {flip(p) : p \in P}
    BY DEF Flipped
  <2> HIDE DEF flip
  <2> QED  BY <1>1, <2>2, <2>3
<1> QED  BY <1>10, <1>11, <1>12 DEF a, b

\* What compareRuns answers puts each stage in one pair, in one changed plan or
\* among the unmatched, and leaves no key over on both sides; and it mirrors when
\* baseline and candidate are swapped, unless the table of their executions is
\* cut to a band or ties two executions of one id (alignStages).
THEOREM StagesCorrect == AlignmentSpec => []StagesAlign
<1>1. ASSUME AlignmentInv, runs # <<>>
      PROVE  \E base, cand : /\ IsRun(base) /\ IsRun(cand) /\ runs = <<base, cand>>
                             /\ table = ExecutionTable(base, cand) /\ stages = AlignStages(base, cand)
  BY <1>1, QuestionsAssumption DEF AlignmentInv
<1>2. ASSUME AlignmentInv PROVE EachStageOnce
  <2>1. SUFFICES ASSUME runs # <<>> PROVE EachStageOnce
    BY DEF EachStageOnce
  <2>2. PICK base, cand : /\ IsRun(base) /\ IsRun(cand) /\ runs = <<base, cand>>
                          /\ stages = AlignStages(base, cand)
    BY <1>1, <1>2, <2>1
  <2>3. runs[1] = base /\ runs[2] = cand
    BY <2>2
  <2>4. \A i \in Ids(base) :
          Cardinality({p \in stages.pairs : p.base = i})
            + Cardinality({s \in {"replanned", "unmatched"} :
                i \in (IF s = "replanned" THEN stages.replannedBase ELSE stages.unmatchedBase)}) = 1
    BY <2>2, OnceFact
  <2>5. \A j \in Ids(cand) :
          Cardinality({p \in stages.pairs : p.cand = j})
            + Cardinality({s \in {"replanned", "unmatched"} :
                j \in (IF s = "replanned" THEN stages.replannedCand ELSE stages.unmatchedCand)}) = 1
    BY <2>2, OnceFact
  <2> QED  BY <2>3, <2>4, <2>5 DEF EachStageOnce
<1>3. ASSUME AlignmentInv PROVE NoExactLeft
  <2>1. SUFFICES ASSUME runs # <<>> PROVE NoExactLeft
    BY DEF NoExactLeft
  <2>2. PICK base, cand : /\ IsRun(base) /\ IsRun(cand) /\ runs = <<base, cand>>
                          /\ stages = AlignStages(base, cand)
    BY <1>1, <1>3, <2>1
  <2>3. runs[1] = base /\ runs[2] = cand
    BY <2>2
  <2>4. \A x \in ExecutionPairs(base, cand) :
          \A i \in StagesOf(base, x[1]) \ {p.base : p \in stages.pairs},
             j \in StagesOf(cand, x[2]) \ {p.cand : p \in stages.pairs} :
               /\ Exact(base)[i] # Exact(cand)[j]
               /\ Structural(base)[i] # NoKey => Structural(base)[i] # Structural(cand)[j]
    BY <2>2, NoneLeftFact
  <2> QED  BY <2>3, <2>4 DEF NoExactLeft
<1>4. ASSUME AlignmentInv PROVE SwapMirrors
  <2>1. SUFFICES ASSUME runs # <<>>, MayMirror(table) PROVE SwapMirrors
    BY DEF SwapMirrors
  <2>2. PICK base, cand : /\ IsRun(base) /\ IsRun(cand) /\ runs = <<base, cand>>
                          /\ table = ExecutionTable(base, cand) /\ stages = AlignStages(base, cand)
    BY <1>1, <1>4, <2>1
  <2>3. runs[1] = base /\ runs[2] = cand
    BY <2>2
  <2>4. MayMirror(ExecutionTable(base, cand))
    BY <2>1, <2>2
  <2>5. /\ AlignStages(cand, base).pairs = Flipped(stages.pairs)
        /\ AlignStages(cand, base).replannedBase = stages.replannedCand
        /\ AlignStages(cand, base).replannedCand = stages.replannedBase
    BY <2>2, <2>4, StagesMirror
  <2> QED  BY <2>3, <2>5 DEF SwapMirrors, Flipped
<1>5. AlignmentInv => StagesAlign
  BY <1>2, <1>3, <1>4 DEF StagesAlign
<1> QED  BY <1>5, AlignmentFact, PTL

=============================================================================

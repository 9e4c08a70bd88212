---------------------------- MODULE CodecProofs ----------------------------
(***************************************************************************)
(* Facts about the operators of Codec, for texts of every number of fields:*)
(* what Joined adds up to, what Tokens keeps, which samples of a history   *)
(* are printed, where a printed field stands.                              *)
(*                                                                         *)
(* Joined and Tokens are recursive functions over the fields.  What such a *)
(* function computes is shown by an induction that speaks of sets and not  *)
(* of predicates: a set of numbers that has 0 and with n also n + 1 has    *)
(* all of them (NatClosed), and the set is the one of the numbers of       *)
(* fields for which the claim holds.                                       *)
(***************************************************************************)
EXTENDS Codec, FiniteSetTheorems, TLAPS

-----------------------------------------------------------------------------
(* Induction and recursion *)

\* A set with 0 and every successor has all numbers: one it missed would leave a
\* finite set that adding one maps into itself without 0.
LEMMA NatClosed ==
    ASSUME NEW D, 0 \in D, \A n \in D : n \in Nat => n + 1 \in D
    PROVE  Nat \subseteq D
<1> SUFFICES ASSUME NEW m \in Nat, m \notin D PROVE FALSE
  OBVIOUS
<1> DEFINE E == {n \in 0 .. m : \A k \in 0 .. n : k \in D}
<1>1. 0 \in E /\ \A n \in E : n + 1 \in E
  <2>1. 0 \in E
    OBVIOUS
  <2>2. ASSUME NEW n \in E PROVE n + 1 \in E
    <3>1. n \in D /\ n # m /\ n + 1 \in D
      OBVIOUS
    <3>2. n + 1 \in 0 .. m
      BY <3>1
    <3> QED
      BY <3>1, <3>2
  <2> QED
    BY <2>1, <2>2
<1>2. E \subseteq Nat /\ E \in SUBSET (0 .. m)
  OBVIOUS
<1> DEFINE f == [n \in E |-> n + 1]
<1> HIDE DEF E
<1>3. IsFiniteSet(E)
  <2>1. IsFiniteSet(0 .. m)
    BY FS_Interval
  <2> QED
    BY <1>2, <2>1, FS_Subset
<1>4. IsFiniteSet(E \ {0}) /\ Cardinality(E \ {0}) = Cardinality(E) - 1 /\
      Cardinality(E) \in Nat
  BY <1>1, <1>3, FS_RemoveElement, FS_CardinalityType
<1>5. f \in [E -> E \ {0}]
  <2>1. \A n \in E : n + 1 \in E \ {0}
    BY <1>1, <1>2
  <2> QED
    BY <2>1
<1>6. \E x, y \in E : x # y /\ f[x] = f[y]
  <2> HIDE DEF f
  <2>1. Cardinality(E \ {0}) < Cardinality(E)
    BY <1>4
  <2> QED
    BY <1>3, <1>4, <1>5, <2>1, FS_PigeonHole
<1> QED
  BY <1>6, <1>2

\* The same up to a bound.
LEMMA UpTo ==
    ASSUME NEW k \in Nat, NEW D, 0 \in D,
           \A n \in D : n \in Nat /\ n < k => n + 1 \in D
    PROVE  \A n \in 0 .. k : n \in D
<1> DEFINE E == {n \in Nat : n <= k => n \in D}
<1>1. Nat \subseteq E
  <2>1. 0 \in E
    OBVIOUS
  <2>2. \A n \in E : n + 1 \in E
    OBVIOUS
  <2> HIDE DEF E
  <2> QED
    BY <2>1, <2>2, NatClosed
<1> QED
  BY <1>1

\* g goes through the recursion that starts with a and applies F[1], ..., F[k].
Runs(g, k, a, F) == g[0] = a /\ \A i \in 1 .. k : g[i] = F[i][g[i - 1]]

\* Every such recursion has a function that goes through it.
LEMMA Recursion ==
    ASSUME NEW k \in Nat, NEW A, NEW a \in A, NEW F \in [1 .. k -> [A -> A]]
    PROVE  \E g \in [0 .. k -> A] : Runs(g, k, a, F)
<1> DEFINE To(n, g) == g = [i \in 0 .. n |-> IF i = 0 THEN a ELSE F[i][g[i - 1]]]
           D == {n \in Nat : \E g \in [0 .. n -> A] : To(n, g)}
<1>1. 0 \in D
  <2> DEFINE g == [i \in 0 .. 0 |-> a]
  <2>1. g \in [0 .. 0 -> A]
    OBVIOUS
  <2>2. To(0, g)
    OBVIOUS
  <2> QED
    BY <2>1, <2>2
<1>2. ASSUME NEW n \in D, n < k PROVE n + 1 \in D
  <2>1. PICK g \in [0 .. n -> A] : To(n, g)
    OBVIOUS
  <2>2. n \in Nat /\ n + 1 \in 1 .. k /\ n \in 0 .. n
    BY <1>2
  <2>3. g[n] \in A /\ F[n + 1] \in [A -> A]
    BY <2>2
  <2>4. F[n + 1][g[n]] \in A
    BY <2>3
  <2> DEFINE h == [i \in 0 .. n + 1 |-> IF i = n + 1 THEN F[n + 1][g[n]] ELSE g[i]]
  <2>5. h \in [0 .. n + 1 -> A]
    BY <2>2, <2>4
  <2>6. To(n + 1, h)
    <3>1. ASSUME NEW i \in 0 .. n + 1
          PROVE  h[i] = IF i = 0 THEN a ELSE F[i][h[i - 1]]
      <4>1. CASE i = n + 1
        BY <4>1, <2>2
      <4>2. CASE i # n + 1
        <5>1. i \in 0 .. n /\ (i # 0 => i - 1 \in 0 .. n)
          BY <4>2, <2>2
        <5>2. g[i] = IF i = 0 THEN a ELSE F[i][g[i - 1]]
          BY <2>1, <5>1
        <5>3. h[i] = g[i] /\ (i # 0 => h[i - 1] = g[i - 1])
          BY <5>1, <4>2, <2>2
        <5> QED
          BY <5>2, <5>3
      <4> QED
        BY <4>1, <4>2
    <3> QED
      BY <3>1
  <2> HIDE DEF h, To
  <2> QED
    BY <2>2, <2>5, <2>6
<1> HIDE DEF D
<1>3. k \in D
  BY <1>1, <1>2, UpTo
<1>4. PICK g \in [0 .. k -> A] : To(k, g)
  BY <1>3 DEF D
<1>5. \A i \in 1 .. k : i \in 0 .. k /\ i # 0
  OBVIOUS
<1> QED
  BY <1>4, <1>5 DEF Runs

-----------------------------------------------------------------------------
(* Sequences *)

\* Where the elements of a concatenation stand.
LEMMA ConcatAt ==
    ASSUME NEW S, NEW a \in Seq(S), NEW b \in Seq(S)
    PROVE  /\ a \o b \in Seq(S) /\ Len(a \o b) = Len(a) + Len(b)
           /\ \A i \in 1 .. Len(a) : (a \o b)[i] = a[i]
           /\ \A i \in 1 .. Len(a) + Len(b) :
                 i > Len(a) => i - Len(a) \in 1 .. Len(b) /\ (a \o b)[i] = b[i - Len(a)]
OBVIOUS

\* Sequences with the same elements are the same.
LEMMA SameSeq ==
    ASSUME NEW S, NEW a \in Seq(S), NEW b \in Seq(S), Len(a) = Len(b),
           \A i \in 1 .. Len(a) : a[i] = b[i]
    PROVE  a = b
OBVIOUS

\* Where the elements of a sequence stand once one is put in front.
LEMMA ConsAt ==
    ASSUME NEW S, NEW r \in S, NEW e \in Seq(S), NEW g, g = <<r>> \o e
    PROVE  /\ g \in Seq(S) /\ Len(g) = 1 + Len(e) /\ g[1] = r
           /\ \A i \in 1 .. 1 + Len(e) : i > 1 => g[i] = e[i - 1]
<1> DEFINE u == <<r>>
<1>1. u \in Seq(S) /\ Len(u) = 1 /\ u[1] = r /\ g = u \o e
  OBVIOUS
<1> HIDE DEF u
<1> QED
  BY <1>1, ConcatAt

\* It does not matter which of three sequences are joined first.
LEMMA Associative ==
    ASSUME NEW S, NEW a \in Seq(S), NEW b \in Seq(S), NEW c \in Seq(S)
    PROVE  (a \o b) \o c = a \o (b \o c)
<1> DEFINE x == (a \o b) \o c
           y == a \o (b \o c)
<1>1. /\ a \o b \in Seq(S) /\ b \o c \in Seq(S) /\ x \in Seq(S) /\ y \in Seq(S)
      /\ Len(x) = Len(a) + Len(b) + Len(c) /\ Len(y) = Len(x)
      /\ Len(a) \in Nat /\ Len(b) \in Nat /\ Len(c) \in Nat
  OBVIOUS
<1>2. ASSUME NEW i \in 1 .. Len(x) PROVE x[i] = y[i]
  <2>1. CASE i <= Len(a)
    BY <1>1, <2>1
  <2>2. CASE i > Len(a) /\ i <= Len(a) + Len(b)
    BY <1>1, <2>2
  <2>3. CASE i > Len(a) + Len(b)
    BY <1>1, <2>3
  <2> QED
    BY <1>1, <2>1, <2>2, <2>3
<1> HIDE DEF x, y
<1>3. x = y
  BY <1>1, <1>2, SameSeq
<1> QED
  BY <1>3 DEF x, y

\* A sequence is its front and its last element.
LEMMA FrontAndLast ==
    ASSUME NEW S, NEW fs \in Seq(S), fs # <<>>
    PROVE  /\ Front(fs) \in Seq(S) /\ Len(Front(fs)) = Len(fs) - 1
           /\ \A i \in 1 .. Len(fs) - 1 : Front(fs)[i] = fs[i]
           /\ fs[Len(fs)] \in S /\ fs = Front(fs) \o <<fs[Len(fs)]>>
BY DEF Front

\* A set of numbers that is not empty has a least one, and Min is it.
LEMMA MinIsFirst ==
   ASSUME NEW I \in SUBSET Nat, I # {}
   PROVE  Min(I) \in I /\ \A j \in I : Min(I) <= j
<1> DEFINE D == {n \in Nat : \A j \in 0 .. n : j \notin I}
<1> SUFFICES \E x \in I : \A j \in I : x <= j
  BY DEF Min
<1> SUFFICES ASSUME \A x \in I : \E j \in I : ~(x <= j) PROVE FALSE
  OBVIOUS
<1>1. 0 \in D
  OBVIOUS
<1>2. ASSUME NEW n \in D PROVE n + 1 \in D
  <2>1. \A j \in 0 .. n + 1 : j \in 0 .. n \/ j = n + 1
    OBVIOUS
  <2>2. \A j \in Nat : ~(n + 1 <= j) => j \in 0 .. n
    OBVIOUS
  <2>3. n + 1 \notin I
    BY <2>2
  <2> QED
    BY <2>1, <2>3
<1>3. Nat \subseteq D
  <2> HIDE DEF D
  <2> QED
    BY <1>1, <1>2, NatClosed
<1>4. \A n \in D : n \notin I
  OBVIOUS
<1> QED
  BY <1>3, <1>4

\* Where e stands first in s, 0 if it does not.
IndexOf(s, e) == SelectInSeq(s, LAMBDA t : t = e)

\* What SelectInSeq finds.
LEMMA FirstIndex ==
   ASSUME NEW s, Len(s) \in Nat, NEW e
   PROVE  LET k == IndexOf(s, e)
          IN  \/ k = 0 /\ \A j \in 1 .. Len(s) : s[j] # e
              \/ k \in 1 .. Len(s) /\ s[k] = e /\ \A j \in 1 .. k - 1 : s[j] # e
<1> DEFINE I == {j \in 1 .. Len(s) : s[j] = e}
<1>1. IndexOf(s, e) = IF I # {} THEN Min(I) ELSE 0
  BY DEF SelectInSeq, IndexOf
<1>2. I \in SUBSET Nat
  OBVIOUS
<1>3. CASE I = {}
  BY <1>1, <1>3
<1>4. CASE I # {}
  <2> DEFINE k == Min(I)
  <2>1. k \in I /\ \A j \in I : k <= j
    <3> HIDE DEF I
    <3> QED
      BY <1>2, <1>4, MinIsFirst
  <2>2. IndexOf(s, e) = k
    BY <1>1, <1>4
  <2> HIDE DEF k
  <2>3. \A j \in 1 .. k - 1 : j \in 1 .. Len(s) /\ ~(k <= j)
    BY <2>1
  <2>4. \A j \in 1 .. k - 1 : s[j] # e
    BY <2>1, <2>3
  <2> QED
    BY <2>1, <2>2, <2>4
<1> QED
  BY <1>3, <1>4

-----------------------------------------------------------------------------
(* Joined: the length of fields with commas between them *)

\* g adds up the lengths of the fields fs as Joined does.
Adds(g, fs) ==
    g[0] = -1 /\ \A i \in 1 .. Len(fs) : g[i] = g[i - 1] + 1 + fs[i].len

\* The texts of fs have a length.
Measured(fs) == Len(fs) \in Nat /\ \A i \in 1 .. Len(fs) : fs[i].len \in Nat

\* Joined is the last value of a function that adds up the lengths.
LEMMA JoinedUnfolds ==
    ASSUME NEW fs, Measured(fs)
    PROVE  \E g \in [0 .. Len(fs) -> Int] : Adds(g, fs) /\ Joined(fs) = g[Len(fs)]
<1> DEFINE k == Len(fs)
           F == [i \in 1 .. k |-> [x \in Int |-> x + 1 + fs[i].len]]
           Is(g) == g = [i \in 0 .. k |-> IF i = 0 THEN -1 ELSE g[i - 1] + 1 + fs[i].len]
<1>1. k \in Nat /\ -1 \in Int /\ F \in [1 .. k -> [Int -> Int]]
  BY DEF Measured
<1>2. PICK h \in [0 .. k -> Int] : Runs(h, k, -1, F)
  <2> HIDE DEF F, k
  <2> QED
    BY <1>1, Recursion
<1>3. \A i \in 1 .. k : i - 1 \in 0 .. k /\ i \in 0 .. k /\ i # 0
  BY <1>1
<1>4. Is(h)
  <2>1. ASSUME NEW i \in 0 .. k, i # 0
        PROVE  h[i] = h[i - 1] + 1 + fs[i].len
    <3>1. i \in 1 .. k /\ i - 1 \in 0 .. k
      BY <1>1, <2>1
    <3>2. h[i - 1] \in Int /\ h[i] = F[i][h[i - 1]]
      BY <1>2, <3>1 DEF Runs
    <3> QED
      BY <3>1, <3>2
  <2>2. h[0] = -1
    BY <1>2 DEF Runs
  <2> QED
    BY <1>2, <2>1, <2>2
<1>5. Is(CHOOSE g : Is(g))
  BY <1>4
<1> DEFINE c == CHOOSE g : Is(g)
<1>6. Joined(fs) = c[k]
  BY Zenon DEF Joined
<1> HIDE DEF c
<1>7. c = [i \in 0 .. k |-> IF i = 0 THEN -1 ELSE c[i - 1] + 1 + fs[i].len]
  BY <1>5 DEF c
<1>8. Adds(c, fs)
  <2>1. c[0] = -1
    BY <1>1, <1>7
  <2> QED
    BY <2>1, <1>3, <1>7 DEF Adds
<1>9. \A i \in 0 .. k : c[i] \in Int
  <2> DEFINE D == {n \in Nat : c[n] \in Int}
  <2>1. 0 \in D
    BY <1>8 DEF Adds
  <2>2. ASSUME NEW n \in D, n < k PROVE n + 1 \in D
    <3>1. n + 1 \in 1 .. k
      BY <1>1, <2>2
    <3> QED
      BY <3>1, <1>8 DEF Adds, Measured
  <2> HIDE DEF D
  <2>3. \A n \in 0 .. k : n \in D
    BY <1>1, <2>1, <2>2, UpTo
  <2> QED
    BY <2>3 DEF D
<1>10. c \in [0 .. k -> Int]
  BY <1>7, <1>9
<1> QED
  BY <1>6, <1>8, <1>10

\* Of every function that does.
LEMMA JoinedAdds ==
    ASSUME NEW fs, Measured(fs), NEW g, Adds(g, fs)
    PROVE  Joined(fs) = g[Len(fs)]
<1>1. PICK h \in [0 .. Len(fs) -> Int] : Adds(h, fs) /\ Joined(fs) = h[Len(fs)]
  BY JoinedUnfolds
<1> DEFINE D == {n \in Nat : n <= Len(fs) => g[n] = h[n]}
<1>2. 0 \in D
  BY <1>1 DEF Adds
<1>3. ASSUME NEW n \in D, n < Len(fs) PROVE n + 1 \in D
  <2>1. n + 1 \in 1 .. Len(fs) /\ g[n] = h[n]
    BY <1>3 DEF Measured
  <2> QED
    BY <2>1, <1>1 DEF Adds
<1> HIDE DEF D
<1>4. \A n \in 0 .. Len(fs) : n \in D
  BY <1>2, <1>3, UpTo DEF Measured
<1> QED
  BY <1>1, <1>4 DEF D, Measured

\* Joined is a number.
LEMMA JoinedInt ==
    ASSUME NEW fs, Measured(fs)
    PROVE  Joined(fs) \in Int
BY JoinedUnfolds DEF Measured

\* No fields: one comma less than nothing.
LEMMA JoinedNothing == Joined(<<>>) = -1
<1> DEFINE g == [i \in 0 .. 0 |-> -1]
<1>1. Measured(<<>>) /\ Adds(g, <<>>)
  BY DEF Measured, Adds
<1> QED
  BY <1>1, JoinedAdds

\* One field has its own length.
LEMMA JoinedOne ==
    ASSUME NEW f, f.len \in Nat
    PROVE  Joined(<<f>>) = f.len
<1> DEFINE g == [i \in 0 .. 1 |-> IF i = 0 THEN -1 ELSE f.len]
<1>1. Measured(<<f>>) /\ Adds(g, <<f>>) /\ Len(<<f>>) = 1
  BY DEF Measured, Adds
<1> QED
  BY <1>1, JoinedAdds

\* Two texts joined are as long as both and the comma between them.
LEMMA JoinedConcat ==
    ASSUME NEW S, NEW fs \in Seq(S), NEW gs \in Seq(S), Measured(fs), Measured(gs)
    PROVE  /\ Measured(fs \o gs)
           /\ Joined(fs \o gs) = Joined(fs) + 1 + Joined(gs)
<1> DEFINE k == Len(fs)
<1>1. PICK a \in [0 .. k -> Int] : Adds(a, fs) /\ Joined(fs) = a[k]
  BY JoinedUnfolds
<1>2. PICK b \in [0 .. Len(gs) -> Int] : Adds(b, gs) /\ Joined(gs) = b[Len(gs)]
  BY JoinedUnfolds
<1> DEFINE g == [i \in 0 .. k + Len(gs) |->
                    IF i <= k THEN a[i] ELSE a[k] + 1 + b[i - k]]
<1>3. k \in Nat /\ Len(gs) \in Nat
  BY DEF Measured
<1>4. /\ fs \o gs \in Seq(S) /\ Len(fs \o gs) = k + Len(gs)
      /\ \A i \in 1 .. k : (fs \o gs)[i] = fs[i]
      /\ \A i \in k + 1 .. k + Len(gs) : (fs \o gs)[i] = gs[i - k]
  OBVIOUS
<1>5. Measured(fs \o gs)
  <2>1. ASSUME NEW i \in 1 .. k + Len(gs) PROVE (fs \o gs)[i].len \in Nat
    <3>1. CASE i <= k
      BY <1>3, <1>4, <3>1 DEF Measured
    <3>2. CASE i > k
      <4>1. i - k \in 1 .. Len(gs) /\ (fs \o gs)[i] = gs[i - k]
        BY <1>3, <1>4, <3>2
      <4> QED
        BY <4>1 DEF Measured
    <3> QED
      BY <1>3, <3>1, <3>2
  <2> QED
    BY <1>3, <1>4, <2>1 DEF Measured
<1>6. Adds(g, fs \o gs)
  <2>1. g[0] = -1
    BY <1>3, <1>1 DEF Adds
  <2>2. ASSUME NEW i \in 1 .. k + Len(gs)
        PROVE  g[i] = g[i - 1] + 1 + (fs \o gs)[i].len
    <3>1. CASE i <= k
      <4>1. i \in 1 .. k /\ g[i] = a[i] /\ g[i - 1] = a[i - 1]
        BY <1>3, <3>1
      <4> QED
        BY <4>1, <1>1, <1>4 DEF Adds
    <3>2. CASE i > k
      <4>1. /\ i - k \in 1 .. Len(gs) /\ (fs \o gs)[i] = gs[i - k]
            /\ i - 1 \in 0 .. k + Len(gs) /\ (i - 1) - k = (i - k) - 1
            /\ (i - k) - 1 \in 0 .. Len(gs) /\ k \in 0 .. k
        BY <1>3, <1>4, <3>2
      <4>2. b[i - k] = b[(i - k) - 1] + 1 + gs[i - k].len
        BY <4>1, <1>2 DEF Adds
      <4>3. g[i] = a[k] + 1 + b[i - k]
        BY <3>2, <1>3
      <4>4. g[i - 1] = a[k] + 1 + b[(i - k) - 1]
        <5>1. CASE i - 1 > k
          BY <4>1, <5>1, <1>3
        <5>2. CASE i - 1 = k
          <6>1. g[i - 1] = a[k] /\ b[(i - k) - 1] = -1 /\ a[k] \in Int
            BY <5>2, <4>1, <1>3, <1>1, <1>2 DEF Adds
          <6> QED
            BY <6>1
        <5> QED
          BY <5>1, <5>2, <3>2, <1>3
      <4>5. a[k] \in Int /\ b[(i - k) - 1] \in Int /\ gs[i - k].len \in Nat
        BY <4>1 DEF Measured
      <4>6. (fs \o gs)[i].len = gs[i - k].len
        BY <4>1
      <4> DEFINE x == b[(i - k) - 1]
                 y == a[k]
                 z == gs[i - k].len
                 w == b[i - k]
      <4>7. y + 1 + w = y + 1 + x + 1 + z
        <5>1. x \in Int /\ y \in Int /\ z \in Int /\ w = x + 1 + z
          BY <4>2, <4>5
        <5> HIDE DEF x, y, z, w
        <5> QED
          BY <5>1
      <4> HIDE DEF g
      <4> QED
        BY <4>3, <4>4, <4>6, <4>7
    <3> QED
      BY <1>3, <3>1, <3>2
  <2> HIDE DEF g
  <2> QED
    BY <1>4, <2>1, <2>2 DEF Adds
<1>7. g[k + Len(gs)] = a[k] + 1 + b[Len(gs)]
  <2>1. CASE Len(gs) = 0
    <3>1. b[Len(gs)] = -1 /\ a[k] \in Int
      BY <1>3, <1>2, <2>1 DEF Adds
    <3> QED
      BY <1>3, <3>1, <2>1
  <2>2. CASE Len(gs) # 0
    BY <1>3, <2>2
  <2> QED
    BY <2>1, <2>2
<1> HIDE DEF g
<1>8. Joined(fs \o gs) = g[k + Len(gs)]
  BY <1>4, <1>5, <1>6, JoinedAdds
<1> QED
  BY <1>1, <1>2, <1>5, <1>7, <1>8

\* Fields of at most b characters make a text of at most b + 1 for each, less one.
LEMMA JoinedBound ==
    ASSUME NEW fs, Measured(fs), NEW b \in Nat, \A i \in 1 .. Len(fs) : fs[i].len <= b
    PROVE  -1 <= Joined(fs) /\ Joined(fs) <= Len(fs) * (b + 1) - 1
<1>1. PICK g \in [0 .. Len(fs) -> Int] : Adds(g, fs) /\ Joined(fs) = g[Len(fs)]
  BY JoinedUnfolds
<1>2. Len(fs) \in Nat
  BY DEF Measured
<1> DEFINE D == {n \in Nat : n <= Len(fs) => -1 <= g[n] /\ g[n] <= n * (b + 1) - 1}
<1>3. 0 \in D
  BY <1>1 DEF Adds
<1>4. ASSUME NEW n \in D, n < Len(fs) PROVE n + 1 \in D
  <2>1. /\ n + 1 \in 1 .. Len(fs) /\ n \in 0 .. Len(fs) /\ n \in Nat
        /\ -1 <= g[n] /\ g[n] <= n * (b + 1) - 1
    BY <1>2, <1>4
  <2>2. g[n + 1] = g[n] + 1 + fs[n + 1].len
    BY <2>1, <1>1 DEF Adds
  <2>3. fs[n + 1].len \in Nat /\ fs[n + 1].len <= b /\ g[n] \in Int
    BY <2>1, <1>1 DEF Measured
  <2>4. (n + 1) * (b + 1) = n * (b + 1) + (b + 1) /\ n * (b + 1) \in Nat
    BY <2>1
  <2>5. -1 <= g[n + 1] /\ g[n + 1] <= (n + 1) * (b + 1) - 1
    BY <2>1, <2>2, <2>3, <2>4
  <2> QED
    BY <2>1, <2>5
<1> HIDE DEF D
<1>5. \A n \in 0 .. Len(fs) : n \in D
  BY <1>2, <1>3, <1>4, UpTo
<1> QED
  BY <1>2, <1>1, <1>5 DEF D

\* No text is shorter than that of no fields.
LEMMA JoinedAtLeast ==
    ASSUME NEW fs, Measured(fs)
    PROVE  -1 <= Joined(fs)
<1>1. PICK g \in [0 .. Len(fs) -> Int] : Adds(g, fs) /\ Joined(fs) = g[Len(fs)]
  BY JoinedUnfolds
<1>2. Len(fs) \in Nat
  BY DEF Measured
<1> DEFINE D == {n \in Nat : n <= Len(fs) => -1 <= g[n]}
<1>3. 0 \in D
  BY <1>1 DEF Adds
<1>4. ASSUME NEW n \in D, n < Len(fs) PROVE n + 1 \in D
  <2>1. n + 1 \in 1 .. Len(fs) /\ n \in 0 .. Len(fs) /\ n \in Nat /\ -1 <= g[n]
    BY <1>2, <1>4
  <2>2. g[n + 1] = g[n] + 1 + fs[n + 1].len
    BY <2>1, <1>1 DEF Adds
  <2>3. fs[n + 1].len \in Nat /\ g[n] \in Int
    BY <2>1, <1>1 DEF Measured
  <2>4. -1 <= g[n + 1]
    BY <2>1, <2>2, <2>3
  <2> QED
    BY <2>1, <2>4
<1> HIDE DEF D
<1>5. \A n \in 0 .. Len(fs) : n \in D
  BY <1>2, <1>3, <1>4, UpTo
<1> QED
  BY <1>2, <1>1, <1>5 DEF D

\* The fields before the last are shorter than all of them by the last and a comma.
LEMMA JoinedPrefix ==
    ASSUME NEW S, NEW fs \in Seq(S), Measured(fs)
    PROVE  \A i \in 1 .. Len(fs) - 1 :
              Joined(SubSeq(fs, 1, i)) + 1 + fs[Len(fs)].len <= Joined(fs)
<1>1. PICK g \in [0 .. Len(fs) -> Int] : Adds(g, fs) /\ Joined(fs) = g[Len(fs)]
  BY JoinedUnfolds
<1>2. Len(fs) \in Nat
  OBVIOUS
<1> DEFINE D == {n \in Nat : n <= Len(fs) => \A i \in 0 .. n : g[i] <= g[n]}
<1>3. 0 \in D
  BY <1>1
<1>4. ASSUME NEW n \in D, n < Len(fs) PROVE n + 1 \in D
  <2>1. n + 1 \in 1 .. Len(fs) /\ n \in 0 .. Len(fs) /\ n \in Nat
    BY <1>2, <1>4
  <2>2. g[n + 1] = g[n] + 1 + fs[n + 1].len /\ fs[n + 1].len \in Nat /\ g[n] \in Int
    <3>1. g[n + 1] = g[n] + 1 + fs[n + 1].len
      BY <2>1, <1>1 DEF Adds
    <3>2. fs[n + 1].len \in Nat /\ g[n] \in Int
      BY <2>1, <1>1 DEF Measured
    <3> QED
      BY <3>1, <3>2
  <2>3. g[n] <= g[n + 1] /\ g[n + 1] \in Int
    <3> DEFINE x == g[n]
               y == fs[n + 1].len
               z == g[n + 1]
    <3>1. x \in Int /\ y \in Nat /\ z = x + 1 + y
      BY <2>2
    <3> HIDE DEF x, y, z
    <3>2. x <= z /\ z \in Int
      BY <3>1
    <3> QED
      BY <3>2 DEF x, z
  <2>4. ASSUME NEW i \in 0 .. n + 1 PROVE g[i] <= g[n + 1]
    <3>1. CASE i = n + 1
      BY <2>3, <3>1
    <3>2. CASE i # n + 1
      <4>1. i \in 0 .. n /\ i \in 0 .. Len(fs)
        BY <2>1, <3>2
      <4>2. g[i] <= g[n] /\ g[i] \in Int
        BY <1>1, <1>4, <4>1
      <4> QED
        BY <2>2, <2>3, <4>2
    <3> QED
      BY <3>1, <3>2
  <2> QED
    BY <2>1, <2>4
<1> HIDE DEF D
<1>5. \A n \in 0 .. Len(fs) : n \in D
  BY <1>2, <1>3, <1>4, UpTo
<1>6. ASSUME NEW i \in 1 .. Len(fs) - 1
      PROVE  Joined(SubSeq(fs, 1, i)) + 1 + fs[Len(fs)].len <= Joined(fs)
  <2> DEFINE s == SubSeq(fs, 1, i)
  <2>1. i \in Nat /\ Len(fs) - 1 \in 0 .. Len(fs) /\ Len(fs) \in 1 .. Len(fs) /\
        i \in 0 .. Len(fs) - 1
        /\ 1 .. i \subseteq 1 .. Len(fs) /\ i \in 0 .. Len(fs)
    BY <1>2
  <2>2. Len(s) = i /\ \A j \in 1 .. i : s[j] = fs[j]
    BY <2>1
  <2> HIDE DEF s
  <2>3. Measured(s) /\ Adds(g, s)
    BY <1>1, <2>1, <2>2 DEF Adds, Measured
  <2>4. Joined(s) = g[i]
    BY <2>2, <2>3, JoinedAdds
  <2>5. g[i] <= g[Len(fs) - 1]
    BY <1>5, <2>1 DEF D
  <2>6. g[Len(fs)] = g[Len(fs) - 1] + 1 + fs[Len(fs)].len
    BY <1>1, <2>1 DEF Adds
  <2>7. g[i] \in Int /\ g[Len(fs) - 1] \in Int /\ fs[Len(fs)].len \in Nat
    BY <1>1, <2>1 DEF Measured
  <2>8. g[i] + 1 + fs[Len(fs)].len <= g[Len(fs)]
    BY <2>5, <2>6, <2>7
  <2> QED
    BY <1>1, <2>4, <2>8 DEF s
<1> QED
  BY <1>6

\* fs consists of the fields t and r and of the parts c and d.
Parts(fs, t, r, c, d) ==
    /\ Len(fs) = 2 + Len(c) + Len(d)
    /\ fs[1] = t /\ fs[2] = r
    /\ \A i \in 1 .. Len(c) : fs[2 + i] = c[i]
    /\ \A j \in 1 .. Len(d) : fs[2 + Len(c) + j] = d[j]
    /\ Joined(fs) = t.len + r.len + Joined(c) + Joined(d) + 3

\* Two fields and two parts, one after the other: where they stand, how long they are.
LEMMA FourParts ==
    ASSUME NEW S, NEW t \in S, NEW r \in S, NEW c \in Seq(S), NEW d \in Seq(S),
           \A x \in S : x.len \in Nat,
           NEW fs, fs = <<t>> \o (<<r>> \o (c \o d))
    PROVE  fs \in Seq(S) /\ Parts(fs, t, r, c, d)
<1> DEFINE e == c \o d
           g == <<r>> \o e
<1>1. fs = <<t>> \o g
  OBVIOUS
<1>2. /\ e \in Seq(S) /\ Len(e) = Len(c) + Len(d) /\ Len(c) \in Nat /\ Len(d) \in Nat
      /\ \A i \in 1 .. Len(c) : e[i] = c[i]
      /\ \A i \in 1 .. Len(c) + Len(d) : i > Len(c) => e[i] = d[i - Len(c)]
  BY ConcatAt
<1>3. /\ <<r>> \in Seq(S) /\ Len(<<r>>) = 1 /\ <<r>>[1] = r
      /\ <<t>> \in Seq(S) /\ Len(<<t>>) = 1 /\ <<t>>[1] = t
  OBVIOUS
<1>4. \A s \in Seq(S) : Measured(s)
  BY DEF Measured
<1>5. Joined(e) = Joined(c) + 1 + Joined(d) /\ Joined(c) \in Int /\ Joined(d) \in Int
  BY <1>4, JoinedConcat, JoinedInt
<1> HIDE DEF e
<1>6. g = <<r>> \o e
  OBVIOUS
<1> HIDE DEF g
<1>7. /\ g \in Seq(S) /\ Len(g) = 1 + Len(e) /\ g[1] = r
      /\ \A i \in 1 .. 1 + Len(e) : i > 1 => g[i] = e[i - 1]
  BY <1>2, <1>6, ConsAt
<1>8. Joined(g) = r.len + 1 + Joined(e) /\ r.len \in Nat
  <2>1. Joined(<<r>>) = r.len
    BY JoinedOne
  <2> QED
    BY <1>2, <1>3, <1>6, <1>4, <2>1, JoinedConcat
<1>9. /\ fs \in Seq(S) /\ Len(fs) = 1 + Len(g) /\ fs[1] = t
      /\ \A i \in 1 .. 1 + Len(g) : i > 1 => fs[i] = g[i - 1]
  BY <1>1, <1>7, ConsAt
<1>10. Joined(fs) = t.len + 1 + Joined(g) /\ t.len \in Nat
  <2>1. Joined(<<t>>) = t.len
    BY JoinedOne
  <2> QED
    BY <1>1, <1>3, <1>7, <1>4, <2>1, JoinedConcat
<1>11. Len(fs) = 2 + Len(c) + Len(d)
  BY <1>2, <1>7, <1>9
<1>12. fs[2] = r
  <2>1. 2 \in 1 .. 1 + Len(g) /\ 2 > 1 /\ 2 - 1 = 1
    BY <1>2, <1>7
  <2> QED
    BY <2>1, <1>7, <1>9
<1>13. ASSUME NEW i \in 1 .. Len(e) PROVE fs[2 + i] = e[i]
  <2>1. /\ 2 + i \in 1 .. 1 + Len(g) /\ 2 + i > 1 /\ (2 + i) - 1 = 1 + i
        /\ 1 + i \in 1 .. 1 + Len(e) /\ 1 + i > 1 /\ (1 + i) - 1 = i
    BY <1>2, <1>7
  <2> QED
    BY <2>1, <1>7, <1>9
<1>14. \A i \in 1 .. Len(c) : fs[2 + i] = c[i]
  BY <1>2, <1>13
<1>15. ASSUME NEW j \in 1 .. Len(d) PROVE fs[2 + Len(c) + j] = d[j]
  <2>1. Len(c) + j \in 1 .. Len(e) /\ Len(c) + j > Len(c) /\ (Len(c) + j) - Len(c) = j
        /\ 2 + (Len(c) + j) = 2 + Len(c) + j
    BY <1>2
  <2> QED
    BY <2>1, <1>2, <1>13
<1>16. Joined(fs) = t.len + r.len + Joined(c) + Joined(d) + 3
  <2> DEFINE v == t.len
             w == r.len
             jc == Joined(c)
             jd == Joined(d)
  <2>1. v \in Nat /\ w \in Nat /\ jc \in Int /\ jd \in Int
    BY <1>5, <1>8, <1>10
  <2>2. Joined(fs) = v + 1 + (w + 1 + (jc + 1 + jd))
    BY <1>5, <1>8, <1>10
  <2> HIDE DEF v, w, jc, jd
  <2>3. v + 1 + (w + 1 + (jc + 1 + jd)) = v + w + jc + jd + 3
    BY <2>1
  <2> QED
    BY <2>2, <2>3 DEF v, w, jc, jd
<1> QED
  BY <1>9, <1>11, <1>12, <1>14, <1>15, <1>16 DEF Parts

-----------------------------------------------------------------------------
(* Tokens: what strtok makes of the fields *)

\* g collects the fields fs as Tokens does.
Collects(g, fs) ==
    /\ g[0] = <<>>
    /\ \A i \in 1 .. Len(fs) :
          g[i] = IF fs[i].len = 0 THEN g[i - 1] ELSE Append(g[i - 1], fs[i])

\* Tokens is the last value of a function that collects the fields.
LEMMA TokensUnfold ==
    ASSUME NEW S, NEW fs \in Seq(S)
    PROVE  \E g \in [0 .. Len(fs) -> Seq(S)] : Collects(g, fs) /\ Tokens(fs) = g[Len(fs)]
<1> DEFINE k == Len(fs)
           A == Seq(S)
           F == [i \in 1 .. k |->
                    [x \in A |-> IF fs[i].len = 0 THEN x ELSE Append(x, fs[i])]]
           Is(g) == g = [i \in 0 .. k |->
                           IF i = 0 THEN <<>>
                           ELSE IF fs[i].len = 0 THEN g[i - 1]
                           ELSE Append(g[i - 1], fs[i])]
<1>1. k \in Nat /\ <<>> \in A /\ F \in [1 .. k -> [A -> A]]
  <2>1. ASSUME NEW i \in 1 .. k, NEW x \in A
        PROVE  (IF fs[i].len = 0 THEN x ELSE Append(x, fs[i])) \in A
    <3>1. fs[i] \in S
      OBVIOUS
    <3> QED
      BY <3>1
  <2>2. k \in Nat /\ <<>> \in A
    OBVIOUS
  <2> HIDE DEF k, A
  <2> QED
    BY <2>1, <2>2
<1>2. PICK h \in [0 .. k -> A] : Runs(h, k, <<>>, F)
  <2> HIDE DEF F, k, A
  <2> QED
    BY <1>1, Recursion
<1>3. \A i \in 1 .. k : i - 1 \in 0 .. k /\ i \in 0 .. k /\ i # 0
  OBVIOUS
<1>4. Is(h)
  <2>1. ASSUME NEW i \in 0 .. k, i # 0
        PROVE  h[i] = IF fs[i].len = 0 THEN h[i - 1] ELSE Append(h[i - 1], fs[i])
    <3>1. i \in 1 .. k /\ i - 1 \in 0 .. k
      BY <2>1
    <3>2. h[i - 1] \in A /\ h[i] = F[i][h[i - 1]]
      BY <1>2, <3>1 DEF Runs
    <3> HIDE DEF A, k
    <3> QED
      BY <3>1, <3>2
  <2>2. h[0] = <<>>
    BY <1>2 DEF Runs
  <2> HIDE DEF A, k, F
  <2> QED
    BY <1>2, <2>1, <2>2
<1>5. Is(CHOOSE g : Is(g))
  BY <1>4
<1> DEFINE c == CHOOSE g : Is(g)
<1>6. Tokens(fs) = c[k]
  BY Zenon DEF Tokens
<1> HIDE DEF c
<1>7. c = [i \in 0 .. k |->
              IF i = 0 THEN <<>>
              ELSE IF fs[i].len = 0 THEN c[i - 1] ELSE Append(c[i - 1], fs[i])]
  BY <1>5 DEF c
<1>8. Collects(c, fs)
  <2>1. c[0] = <<>>
    BY <1>1, <1>7
  <2> QED
    BY <2>1, <1>3, <1>7 DEF Collects
<1>9. \A i \in 0 .. k : c[i] \in Seq(S)
  <2> DEFINE D == {n \in Nat : c[n] \in Seq(S)}
  <2>1. 0 \in D
    <3>1. c[0] = <<>> /\ <<>> \in Seq(S)
      BY <1>8 DEF Collects
    <3> QED
      BY <3>1
  <2>2. ASSUME NEW n \in D, n < k PROVE n + 1 \in D
    <3>1. n + 1 \in 1 .. k /\ c[n] \in Seq(S)
      BY <1>1, <2>2
    <3>2. fs[n + 1] \in S
      BY <3>1
    <3>3. c[n + 1] = IF fs[n + 1].len = 0 THEN c[n] ELSE Append(c[n], fs[n + 1])
      BY <3>1, <1>8 DEF Collects
    <3>4. Append(c[n], fs[n + 1]) \in Seq(S)
      BY <3>1, <3>2
    <3>5. c[n + 1] \in Seq(S)
      BY <3>1, <3>3, <3>4
    <3> QED
      BY <3>1, <3>5
  <2> HIDE DEF D
  <2>3. \A n \in 0 .. k : n \in D
    BY <1>1, <2>1, <2>2, UpTo
  <2> QED
    BY <2>3 DEF D
<1>10. c \in [0 .. k -> Seq(S)]
  BY <1>7, <1>9
<1> QED
  BY <1>6, <1>8, <1>10

\* There are as many tokens as fields if and only if no field is empty; then they
\* are the fields.  The first field is the first token unless it is empty.
LEMMA TokensAreFields ==
    ASSUME NEW S, NEW fs \in Seq(S)
    PROVE  /\ Tokens(fs) \in Seq(S)
           /\ Len(Tokens(fs)) <= Len(fs)
           /\ (\A i \in 1 .. Len(fs) : fs[i].len # 0) => Tokens(fs) = fs
           /\ Len(Tokens(fs)) = Len(fs) => \A i \in 1 .. Len(fs) : fs[i].len # 0
           /\ fs # <<>> /\ fs[1].len # 0 => Tokens(fs) # <<>> /\ Tokens(fs)[1] = fs[1]
<1>1. PICK g \in [0 .. Len(fs) -> Seq(S)] : Collects(g, fs) /\ Tokens(fs) = g[Len(fs)]
  BY TokensUnfold
<1> DEFINE P(n, t) ==
             /\ Len(t) <= n
             /\ (\A i \in 1 .. n : fs[i].len # 0) => t = SubSeq(fs, 1, n)
             /\ Len(t) = n => \A i \in 1 .. n : fs[i].len # 0
             /\ n # 0 /\ fs[1].len # 0 => t # <<>> /\ t[1] = fs[1]
           D == {n \in Nat : n <= Len(fs) => P(n, g[n])}
<1>2. 0 \in D
  <2>1. g[0] = <<>>
    BY <1>1 DEF Collects
  <2> QED
    BY <2>1
<1>3. ASSUME NEW n \in D, n < Len(fs) PROVE n + 1 \in D
  <2>1. n \in Nat /\ n + 1 \in 1 .. Len(fs) /\ n \in 0 .. Len(fs)
    BY <1>3
  <2>2. g[n] \in Seq(S) /\ fs[n + 1] \in S
    BY <2>1
  <2>3. P(n, g[n])
    BY <1>3
  <2>4. g[n + 1] = IF fs[n + 1].len = 0 THEN g[n] ELSE Append(g[n], fs[n + 1])
    BY <2>1, <1>1 DEF Collects
  <2>5. P(n + 1, g[n + 1])
    <3> DEFINE t == g[n]
               u == g[n + 1]
    <3>1. t \in Seq(S) /\ P(n, t)
      BY <2>2, <2>3
    <3>2. CASE fs[n + 1].len = 0
      <4>1. u = t /\ n + 1 \in 1 .. n + 1
        BY <2>1, <2>4, <3>2
      <4>2. n # 0 \/ n + 1 = 1
        BY <2>1
      <4> HIDE DEF t, u
      <4>3. Len(u) <= n + 1 /\ Len(u) # n + 1
        BY <2>1, <3>1, <4>1
      <4>4. (n + 1 # 0 /\ fs[1].len # 0) => u # <<>> /\ u[1] = fs[1]
        BY <3>1, <3>2, <4>1, <4>2
      <4>5. P(n + 1, u)
        BY <3>2, <4>1, <4>3, <4>4
      <4> QED
        BY <4>5 DEF u
    <3>3. CASE fs[n + 1].len # 0
      <4>1. u = Append(t, fs[n + 1])
        BY <2>4, <3>3
      <4> HIDE DEF t, u
      <4>2. Len(u) = Len(t) + 1 /\ Len(t) \in Nat
        BY <2>2, <3>1, <4>1
      <4>3. Len(u) <= n + 1 /\ (Len(u) = n + 1 => Len(t) = n)
        BY <2>1, <3>1, <4>2
      <4>4. \A i \in 1 .. n + 1 : i \in 1 .. n \/ i = n + 1
        BY <2>1
      <4>5. Len(u) = n + 1 => \A i \in 1 .. n + 1 : fs[i].len # 0
        BY <3>1, <3>3, <4>3, <4>4
      <4>6. (\A i \in 1 .. n + 1 : fs[i].len # 0) => u = SubSeq(fs, 1, n + 1)
        <5> SUFFICES ASSUME \A i \in 1 .. n + 1 : fs[i].len # 0
                     PROVE  u = SubSeq(fs, 1, n + 1)
          OBVIOUS
        <5>1. t = SubSeq(fs, 1, n)
          BY <2>1, <3>1
        <5>2. SubSeq(fs, 1, n + 1) = Append(SubSeq(fs, 1, n), fs[n + 1])
          BY <2>1
        <5> QED
          BY <4>1, <5>1, <5>2
      <4>7. (n + 1 # 0 /\ fs[1].len # 0) => u # <<>> /\ u[1] = fs[1]
        <5>1. u # <<>>
          BY <4>2, <3>1, <4>1
        <5>2. CASE n = 0
          <6>1. Len(t) = 0
            BY <5>2, <3>1, <4>2
          <6>2. t = <<>>
            BY <6>1, <3>1
          <6> QED
            BY <4>1, <5>1, <5>2, <6>2, <2>2
        <5>3. CASE n # 0
          <6> SUFFICES ASSUME fs[1].len # 0 PROVE u[1] = fs[1]
            BY <5>1
          <6>1. t # <<>> /\ t[1] = fs[1]
            BY <3>1, <5>3
          <6>2. 1 \in 1 .. Len(t)
            BY <6>1, <3>1
          <6> QED
            BY <4>1, <6>1, <6>2, <3>1, <2>2
        <5> QED
          BY <5>2, <5>3
      <4>8. P(n + 1, u)
        BY <4>3, <4>5, <4>6, <4>7
      <4> QED
        BY <4>8 DEF u
    <3> QED
      BY <3>2, <3>3
  <2> HIDE DEF P
  <2> QED
    BY <2>1, <2>5
<1> HIDE DEF D
<1>4. Len(fs) \in 0 .. Len(fs) /\ \A n \in 0 .. Len(fs) : n \in D
  BY <1>2, <1>3, UpTo
<1>5. P(Len(fs), g[Len(fs)])
  BY <1>4 DEF D
<1>6. SubSeq(fs, 1, Len(fs)) = fs
  OBVIOUS
<1>7. fs # <<>> => Len(fs) # 0
  OBVIOUS
<1> QED
  BY <1>1, <1>5, <1>6, <1>7

\* Too few tokens mean an empty field.
LEMMA TokensOrEmpty ==
    ASSUME NEW S, NEW fs \in Seq(S)
    PROVE  /\ Len(fs) <= Len(Tokens(fs)) => Tokens(fs) = fs
           /\ Len(fs) > Len(Tokens(fs)) => \E i \in 1 .. Len(fs) : fs[i].len = 0
<1>1. /\ Tokens(fs) \in Seq(S) /\ Len(Tokens(fs)) <= Len(fs)
      /\ (\A i \in 1 .. Len(fs) : fs[i].len # 0) => Tokens(fs) = fs
      /\ Len(Tokens(fs)) = Len(fs) => \A i \in 1 .. Len(fs) : fs[i].len # 0
  BY TokensAreFields
<1>2. Len(fs) \in Nat /\ Len(Tokens(fs)) \in Nat
  BY <1>1
<1> QED
  BY <1>1, <1>2

-----------------------------------------------------------------------------
(* What is printed *)

\* The texts of s as they are printed.
Show(s) == [i \in DOMAIN s |-> Shown(s[i])]

\* Printing keeps the places.
LEMMA ShowAt ==
    ASSUME NEW S, NEW s \in Seq(S)
    PROVE  /\ Show(s) \in Seq({Shown(t) : t \in S}) /\ Len(Show(s)) = Len(s)
           /\ \A i \in 1 .. Len(s) : Show(s)[i] = Shown(s[i])
BY DEF Show

\* Parts are printed one after the other.
LEMMA ShowConcat ==
    ASSUME NEW S, NEW a \in Seq(S), NEW b \in Seq(S)
    PROVE  Show(a \o b) = Show(a) \o Show(b)
<1> DEFINE T == {Shown(t) : t \in S}
           c == a \o b
           p == Show(a)
           q == Show(b)
           d == p \o q
<1>1. /\ c \in Seq(S) /\ Len(c) = Len(a) + Len(b) /\ Len(a) \in Nat /\ Len(b) \in Nat
      /\ \A i \in 1 .. Len(a) : c[i] = a[i]
      /\ \A i \in 1 .. Len(a) + Len(b) :
            i > Len(a) => i - Len(a) \in 1 .. Len(b) /\ c[i] = b[i - Len(a)]
  BY ConcatAt
<1>2. /\ Show(a) \in Seq(T) /\ Len(Show(a)) = Len(a)
      /\ \A i \in 1 .. Len(a) : Show(a)[i] = Shown(a[i])
  BY ShowAt
<1>3. /\ Show(b) \in Seq(T) /\ Len(Show(b)) = Len(b)
      /\ \A i \in 1 .. Len(b) : Show(b)[i] = Shown(b[i])
  BY ShowAt
<1>4. /\ Show(c) \in Seq(T) /\ Len(Show(c)) = Len(c)
      /\ \A i \in 1 .. Len(c) : Show(c)[i] = Shown(c[i])
  BY <1>1, ShowAt
<1> HIDE DEF T, c
<1>5. /\ d \in Seq(T) /\ Len(d) = Len(p) + Len(q)
      /\ \A i \in 1 .. Len(p) : d[i] = p[i]
      /\ \A i \in 1 .. Len(p) + Len(q) : i > Len(p) => d[i] = q[i - Len(p)]
  <2>1. p \in Seq(T) /\ q \in Seq(T)
    BY <1>2, <1>3
  <2> HIDE DEF p, q
  <2> QED
    BY <2>1, ConcatAt
<1> HIDE DEF d
<1>6. ASSUME NEW i \in 1 .. Len(a) + Len(b) PROVE Show(c)[i] = d[i]
  <2>1. CASE i <= Len(a)
    <3>1. i \in 1 .. Len(a)
      BY <2>1, <1>1
    <3> QED
      BY <3>1, <1>1, <1>2, <1>4, <1>5
  <2>2. CASE i > Len(a)
    <3>1. i - Len(a) \in 1 .. Len(b) /\ c[i] = b[i - Len(a)]
      BY <2>2, <1>1
    <3>2. d[i] = Show(b)[i - Len(a)]
      BY <2>2, <1>2, <1>3, <1>5
    <3> QED
      BY <3>1, <3>2, <1>1, <1>3, <1>4
  <2> QED
    BY <1>1, <2>1, <2>2
<1>7. Show(c) = d
  BY <1>1, <1>2, <1>3, <1>4, <1>5, <1>6, SameSeq
<1> QED
  BY <1>7 DEF c, d

\* What is printed is a text, as long as the one it was unless that is a NULL
\* pointer, and empty only if that is the empty text.
LEMMA ShownText ==
   ASSUME NEW t, IsText(t)
   PROVE  /\ IsText(Shown(t))
          /\ Shown(t).len = IF t = Null THEN 6 ELSE t.len
          /\ Shown(t).len = 0 => t = Empty
<1>1. CASE t = Null
  <2>1. Shown(t) = [val |-> "(null)", len |-> 6]
    BY <1>1 DEF Shown, Text, Null, Tiny
  <2> QED
    BY <1>1, <2>1 DEF IsText, Text
<1>2. CASE t = Tiny
  <2>1. Shown(t) = Idle /\ t # Null
    BY <1>2 DEF Shown, Text, Null, Tiny
  <2> QED
    BY <1>2, <2>1 DEF IsText, Text, Tiny, Idle
<1>3. CASE t # Null /\ t # Tiny
  <2>1. Shown(t) = t
    BY <1>3 DEF Shown
  <2> QED
    BY <1>3, <2>1 DEF IsText
<1> QED
  BY <1>1, <1>2, <1>3

\* A bounded sequence is a sequence, and conversely.
LEMMA BoundedSequence ==
   ASSUME NEW S, NEW n \in Nat
   PROVE  /\ \A s \in SeqOf(S, n) : s \in Seq(S) /\ Len(s) \in 0 .. n
          /\ \A s \in Seq(S) : Len(s) <= n => s \in SeqOf(S, n)
<1>1. ASSUME NEW s \in SeqOf(S, n) PROVE s \in Seq(S) /\ Len(s) \in 0 .. n
  <2>1. PICK k \in 0 .. n : s \in [1 .. k -> S]
    BY DEF SeqOf
  <2> QED
    BY <2>1
<1>2. ASSUME NEW s \in Seq(S), Len(s) <= n PROVE s \in SeqOf(S, n)
  <2>1. s \in [1 .. Len(s) -> S] /\ Len(s) \in 0 .. n
    BY <1>2
  <2> QED
    BY <2>1 DEF SeqOf
<1> QED
  BY <1>1, <1>2

\* Of a history the samples before the first idle one are printed; without an idle
\* one, all of them and what lies behind.
LEMMA SampleLists ==
   ASSUME NEW S, NEW h \in Seq(S), NEW l \in SamplesPrinted(h)
   PROVE  \/ \E j \in 1 .. Len(h) : h[j] = Idle /\
             (\A i \in 1 .. j - 1 : h[i] # Idle) /\ l = SubSeq(h, 1, j - 1)
          \/ /\ \A j \in 1 .. Len(h) : h[j] # Idle
             /\ \E s \in SeqOf(Strays, MaxExtra) : l = h \o s
<1> DEFINE x == IndexOf(h, Idle)
<1>1. Len(h) \in Nat
  OBVIOUS
<1>2. \/ x = 0 /\ \A j \in 1 .. Len(h) : h[j] # Idle
      \/ x \in 1 .. Len(h) /\ h[x] = Idle /\ \A j \in 1 .. x - 1 : h[j] # Idle
  BY <1>1, FirstIndex
<1>3. l \in IF x # 0 THEN {SubSeq(h, 1, x - 1)}
             ELSE {h \o s : s \in SeqOf(Strays, MaxExtra)}
  BY DEF SamplesPrinted, IndexOf, SelectInSeq
<1> HIDE DEF x
<1>4. CASE x = 0
  <2>1. l \in {h \o s : s \in SeqOf(Strays, MaxExtra)}
    BY <1>3, <1>4
  <2>2. \A j \in 1 .. Len(h) : h[j] # Idle
    BY <1>1, <1>2, <1>4
  <2> QED
    BY <2>1, <2>2
<1>5. CASE x # 0
  <2>1. l = SubSeq(h, 1, x - 1)
    BY <1>3, <1>5
  <2> QED
    BY <2>1, <1>2, <1>5
<1> QED
  BY <1>4, <1>5

\* Of a history with an idle sample fewer samples are printed than it has.
LEMMA SamplesLen ==
    ASSUME NEW S, NEW h \in Seq(S), NEW l \in SamplesPrinted(h), Idle \in ToSet(h)
    PROVE  Len(l) \in 0 .. Len(h) - 1 /\ \A i \in 1 .. Len(l) : i \in 1 .. Len(h) /\ l[i] = h[i]
<1>1. ~ \A j \in 1 .. Len(h) : h[j] # Idle
  BY DEF ToSet
<1>2. PICK j \in 1 .. Len(h) : l = SubSeq(h, 1, j - 1)
  BY <1>1, SampleLists
<1>3. Len(l) = j - 1 /\ \A i \in 1 .. Len(l) : l[i] = h[i]
  BY <1>2
<1> QED
  BY <1>3

\* The types of message that a program takes.
TypesOf(to) ==
    CASE to = "COS" -> {"CREATE_VM_RESP", "NOTIFY_HIGH_CPU_USAGE",
                        "NOTIFY_LOW_CPU_USAGE", "DESTROY_VM_RESP"}
      [] to = "NODE" -> {"CREATE_VM_REQ", "DESTROY_VM_REQ", "NOTIFY_VM_STARTED",
                         "NOTIFY_HIGH_CPU_USAGE", "NOTIFY_LOW_CPU_USAGE",
                         "SHUTDOWN_THEATER_RESP"}
      [] to = "MON" -> {"SHUTDOWN_THEATER_REQ"}

\* The named fields of all messages.
Names == {"vm_name", "new_theater", "result", "vmcfg_file", "vmmon_addr", "theater"}

\* The orders in which they are printed.
NameLists ==
    {<<"vm_name", "new_theater", "result">>, <<"vm_name">>, <<"vm_name", "result">>,
     <<"vmcfg_file">>, <<"vmmon_addr", "theater">>, <<"vmmon_addr">>,
     <<"vmmon_addr", "result">>, <<"theater">>}

\* p lists one to three members of S, each once.
Distinct(p, S) ==
    /\ p \in Seq(S) /\ Len(p) \in 1 .. 3 /\ DOMAIN p = 1 .. Len(p)
    /\ \A i, j \in 1 .. Len(p) : p[i] = p[j] => i = j

\* A list of one name.
LEMMA OneName == ASSUME NEW S, NEW a \in S PROVE Distinct(<<a>>, S)
BY DEF Distinct

\* A list of two names.
LEMMA TwoNames ==
    ASSUME NEW S, NEW a \in S, NEW b \in S, a # b
    PROVE  Distinct(<<a, b>>, S)
<1>1. <<a, b>> \in Seq(S) /\ Len(<<a, b>>) = 2 /\ <<a, b>>[1] = a /\ <<a, b>>[2] = b
  OBVIOUS
<1>2. \A i \in 1 .. 2 : i = 1 \/ i = 2
  OBVIOUS
<1> QED
  BY <1>1, <1>2 DEF Distinct

\* A list of three names.
LEMMA ThreeNames ==
    ASSUME NEW S, NEW a \in S, NEW b \in S, NEW c \in S, a # b, a # c, b # c
    PROVE  Distinct(<<a, b, c>>, S)
<1>1. <<a, b, c>> \in Seq(S) /\ Len(<<a, b, c>>) = 3 /\ <<a, b, c>>[1] = a /\
      <<a, b, c>>[2] = b /\ <<a, b, c>>[3] = c
  OBVIOUS
<1>2. \A i \in 1 .. 3 : i = 1 \/ i = 2 \/ i = 3
  OBVIOUS
<1> QED
  BY <1>1, <1>2 DEF Distinct

\* No field is printed twice.
LEMMA NamesInLists ==
    ASSUME NEW p \in NameLists
    PROVE  Distinct(p, Names)
<1>1. /\ "vm_name" \in Names /\ "new_theater" \in Names /\ "result" \in Names
      /\ "vmcfg_file" \in Names /\ "vmmon_addr" \in Names /\ "theater" \in Names
  BY DEF Names
<1>2. CASE \/ p = <<"vm_name">> \/ p = <<"vmcfg_file">>
           \/ p = <<"vmmon_addr">> \/ p = <<"theater">>
  BY <1>1, <1>2, OneName
<1>3. CASE \/ p = <<"vm_name", "result">>
           \/ p = <<"vmmon_addr", "theater">>
           \/ p = <<"vmmon_addr", "result">>
  BY <1>1, <1>3, TwoNames
<1>4. CASE p = <<"vm_name", "new_theater", "result">>
  BY <1>1, <1>4, ThreeNames
<1> QED
  BY <1>2, <1>3, <1>4 DEF NameLists

\* The tables of the parsers are defined for these types.
LEMMA AssignedTypes ==
   ASSUME NEW to \in {"COS", "NODE", "MON"}
   PROVE DOMAIN Assigned(to) = TypesOf(to)
<1>1. CASE to = "COS"
  BY <1>1 DEF Assigned, CosAssigned, TypesOf
<1>2. CASE to = "NODE"
  BY <1>2 DEF Assigned, NodeAssigned, TypesOf
<1>3. CASE to = "MON"
  BY <1>3 DEF Assigned, MonAssigned, TypesOf
<1> QED
  BY <1>1, <1>2, <1>3

\* The fields of a message are parsed in the order in which they are printed, by
\* another program and from another table.
LEMMA PrintedNames ==
   ASSUME NEW m, m.to \in {"COS", "NODE", "MON"}, m.type \in TypesOf(m.to)
   PROVE  /\ Printed(m) = Assigned(m.to)[m.type]
          /\ Printed(m) \in NameLists
          /\ m.type \in Notices =>
             Printed(m) = IF m.to = "COS" THEN <<"vm_name">> ELSE <<"vmmon_addr">>
          /\ m.type = "CREATE_VM_REQ" => Printed(m) = <<"vmcfg_file">> /\ m.to = "NODE"
<1>1. CASE m.to = "COS"
  BY <1>1 DEF Assigned, CosAssigned, TypesOf, Printed, CosPrinted, Notices, NameLists
<1>2. CASE m.to = "NODE"
  BY <1>2 DEF Assigned, NodeAssigned, TypesOf, Printed, NodePrinted, Notices, NameLists
<1>3. CASE m.to = "MON"
  BY <1>3 DEF Assigned, MonAssigned, TypesOf, Printed, MonPrinted, Notices, NameLists
<1> QED
  BY <1>1, <1>2, <1>3

\* How long the names of the types are.
LEMMA IdLens ==
   ASSUME NEW type \in UNION {TypesOf(to) : to \in {"COS", "NODE", "MON"}}
   PROVE  /\ IdLen[type] \in 13 .. 21
          /\ type = "CREATE_VM_REQ" => IdLen[type] = 13
BY DEF IdLen, TypesOf

\* gs has the fields that m is printed as, but for its list, for which it has d.
PrintedAs(m, gs, d) ==
    /\ Len(gs) = 2 + Len(Printed(m)) + Len(d)
    /\ gs[1] = Text(m.type, IdLen[m.type]) /\ gs[2] = Shown(m.return_addr)
    /\ \A i \in 1 .. Len(Printed(m)) : gs[2 + i] = Shown(m.arg[Printed(m)[i]])
    /\ \A j \in 1 .. Len(d) : gs[2 + Len(Printed(m)) + j] = d[j]

\* g is a with b behind it.
PutBehind(g, a, b, S) ==
    /\ g \in Seq(S) /\ Len(g) = Len(a) + Len(b)
    /\ \A i \in 1 .. Len(a) : g[i] = a[i]
    /\ \A i \in 1 .. Len(b) : g[Len(a) + i] = b[i]

\* A concatenation is.
LEMMA Behind ==
    ASSUME NEW S, NEW a \in Seq(S), NEW b \in Seq(S)
    PROVE  PutBehind(a \o b, a, b, S)
<1> DEFINE g == a \o b
<1>1. /\ g \in Seq(S) /\ Len(g) = Len(a) + Len(b)
      /\ Len(a) \in Nat /\ Len(b) \in Nat
      /\ \A i \in 1 .. Len(a) : g[i] = a[i]
  BY ConcatAt
<1>2. \A i \in 1 .. Len(a) + Len(b) : i > Len(a) => g[i] = b[i - Len(a)]
  BY ConcatAt
<1> HIDE DEF g
<1>3. ASSUME NEW i \in 1 .. Len(b) PROVE g[Len(a) + i] = b[i]
  <2>1. Len(a) + i \in 1 .. Len(a) + Len(b) /\ Len(a) + i > Len(a) /\ Len(a) + i - Len(a) = i
    BY <1>1
  <2> QED
    BY <1>2, <2>1
<1>4. PutBehind(g, a, b, S)
  BY <1>1, <1>3 DEF PutBehind
<1> QED
  BY <1>4 DEF g

\* If the last field is replaced, it is that of the list.
LEMMA CutPrinted ==
    ASSUME NEW m, NEW S, NEW fs \in Seq(S), NEW d \in Seq(S), PrintedAs(m, fs, d),
           NEW x \in Seq(S), Len(d) # 0, Len(Printed(m)) \in Nat
    PROVE  LET gs == SubSeq(fs, 1, Len(fs) - 1) \o x
               e == Front(d) \o x
           IN  /\ gs \in Seq(S) /\ e \in Seq(S) /\ PrintedAs(m, gs, e)
               /\ Len(gs) = Len(fs) - 1 + Len(x)
<1> DEFINE k == Len(Printed(m))
           n == Len(fs)
           u == SubSeq(fs, 1, n - 1)
           f == Front(d)
           gs == u \o x
           e == f \o x
<1>1. /\ k \in Nat /\ Len(d) \in Nat /\ n = 2 + k + Len(d) /\ n \in Nat
      /\ Len(x) \in Nat
  BY DEF PrintedAs
<1>2. u \in Seq(S) /\ Len(u) = n - 1 /\ \A i \in 1 .. n - 1 : u[i] = fs[i]
  <2>1. n - 1 \in 0 .. n
    <3> HIDE DEF n, k
    <3> QED
      BY <1>1
  <2> DEFINE a == n - 1
  <2>2. a \in 0 .. Len(fs)
    BY <2>1
  <2> HIDE DEF a
  <2>3. LET v == SubSeq(fs, 1, a)
        IN v \in Seq(S) /\ Len(v) = a /\ \A i \in 1 .. a : v[i] = fs[i]
    BY <2>2
  <2> QED
    BY <2>3 DEF a
<1>3. f \in Seq(S) /\ Len(f) = Len(d) - 1 /\ \A i \in 1 .. Len(d) - 1 : f[i] = d[i]
  <2>1. d # <<>>
    OBVIOUS
  <2> QED
    BY <2>1, FrontAndLast
<1> HIDE DEF u, f, n, k
<1>4. /\ gs \in Seq(S) /\ Len(gs) = n - 1 + Len(x)
      /\ \A i \in 1 .. n - 1 : gs[i] = fs[i]
      /\ \A i \in 1 .. Len(x) : gs[n - 1 + i] = x[i]
  <2>1. PutBehind(gs, u, x, S)
    BY <1>2, Behind
  <2> QED
    BY <1>1, <1>2, <2>1 DEF PutBehind
<1>5. /\ e \in Seq(S) /\ Len(e) = Len(d) - 1 + Len(x)
      /\ \A i \in 1 .. Len(d) - 1 : e[i] = d[i]
      /\ \A i \in 1 .. Len(x) : e[Len(d) - 1 + i] = x[i]
  <2>1. PutBehind(e, f, x, S)
    BY <1>3, Behind
  <2> QED
    BY <1>1, <1>3, <2>1 DEF PutBehind
<1> HIDE DEF gs, e
<1>6. gs[1] = fs[1] /\ gs[2] = fs[2] /\ \A i \in 1 .. k : gs[2 + i] = fs[2 + i]
  <2>1. 1 \in 1 .. n - 1 /\ 2 \in 1 .. n - 1 /\ \A i \in 1 .. k : 2 + i \in 1 .. n - 1
    BY <1>1
  <2> QED
    BY <1>2, <1>4, <2>1
<1>7. ASSUME NEW j \in 1 .. Len(e) PROVE gs[2 + k + j] = e[j]
  <2>1. CASE j <= Len(d) - 1
    <3>1. j \in 1 .. Len(d) - 1 /\ 2 + k + j \in 1 .. n - 1 /\ j \in 1 .. Len(d)
      BY <1>1, <1>5, <2>1
    <3>2. fs[2 + k + j] = d[j]
      BY <3>1 DEF PrintedAs, k
    <3> QED
      BY <1>4, <1>5, <3>1, <3>2
  <2>2. CASE j > Len(d) - 1
    <3> DEFINE i == j - (Len(d) - 1)
    <3>1. /\ i \in 1 .. Len(x) /\ j = Len(d) - 1 + i /\ 2 + k + j = n - 1 + i
      BY <1>1, <1>5, <2>2
    <3> HIDE DEF i
    <3>2. gs[n - 1 + i] = x[i] /\ e[Len(d) - 1 + i] = x[i]
      BY <1>4, <1>5, <3>1
    <3> QED
      BY <3>1, <3>2
  <2> QED
    BY <1>1, <1>5, <2>1, <2>2
<1>8. Len(gs) = 2 + k + Len(e)
  BY <1>1, <1>4, <1>5
<1>9. PrintedAs(m, gs, e)
  BY <1>6, <1>7, <1>8 DEF PrintedAs, k
<1> QED
  BY <1>4, <1>5, <1>9 DEF gs, e, u, f, n

=============================================================================

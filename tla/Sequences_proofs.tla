--------------------------- MODULE Sequences_proofs ---------------------------
(***************************************************************************)
(* Induction over numbers and sequences, and functions of a recursion, as  *)
(* the definitions of the specifications use them.  Induction is stated    *)
(* for sets: that of the numbers, or the sequences, something holds of.    *)
(***************************************************************************)
EXTENDS Integers, Sequences, WellFoundedInduction, SequenceTheorems, TLAPS

-----------------------------------------------------------------------------
(***************************************************************************)
(* Numbers.  That a set of them has a least element comes from the         *)
(* well-foundedness of < (WFMin).                                          *)
(***************************************************************************)
\* A set of numbers has a least element.
LEMMA LeastNumber ==
    ASSUME NEW T, T \subseteq Nat, T # {}
    PROVE  \E m \in T : \A k \in T : m <= k
<1> DEFINE R == OpToRel(<, Nat)
<1>1. IsWellFoundedOn(R, Nat)
  BY NatLessThanWellFounded
<1>2. \A x, y \in Nat : y < x => <<y, x>> \in R
  BY DEF OpToRel
<1> HIDE DEF R
<1>3. PICK x \in T : \A y \in T : ~ (<<y, x>> \in R)
  BY <1>1, WFMin
<1>4. \A y \in T : ~ (y < x)
  BY <1>2, <1>3
<1> QED
  BY <1>4

\* A set with 0 in it that has every successor of its numbers has them all.
LEMMA Induction ==
    ASSUME NEW T, 0 \in T, \A n \in Nat : n \in T => n + 1 \in T
    PROVE  Nat \subseteq T
<1> SUFFICES ASSUME Nat \ T # {} PROVE FALSE
  OBVIOUS
<1>1. PICK m \in Nat \ T : \A k \in Nat \ T : m <= k
  <2>1. Nat \ T \subseteq Nat
    OBVIOUS
  <2> QED
    BY <2>1, LeastNumber
<1> QED
  BY <1>1, m - 1 \in Nat

-----------------------------------------------------------------------------
(***************************************************************************)
(* Recursion.                                                              *)
(***************************************************************************)
\* f[n] is made of f[n - 1] and n by step.
IsRecursion(f, N, base, step) ==
    f = [n \in 0..N |-> IF n = 0 THEN base ELSE step[<<f[n - 1], n>>]]

\* A function of a recursion over the first N numbers exists, if its steps stay in A.
LEMMA RecursionExists ==
    ASSUME NEW A, NEW N \in Nat, NEW base \in A, NEW step \in [A \X (1..N) -> A]
    PROVE  \E f \in [0..N -> A] : IsRecursion(f, N, base, step)
<1> DEFINE Good(f, m) == \A n \in 0..m : f[n] = IF n = 0 THEN base ELSE step[<<f[n - 1], n>>]
           T == {m \in Nat : m <= N => \E f \in [0..N -> A] : Good(f, m)}
<1>1. 0 \in T
  <2>1. [n \in 0..N |-> base] \in [0..N -> A] /\ Good([n \in 0..N |-> base], 0)
    OBVIOUS
  <2> QED
    BY <2>1
<1>2. ASSUME NEW m \in Nat, m \in T PROVE m + 1 \in T
  <2> SUFFICES ASSUME m + 1 <= N PROVE \E f \in [0..N -> A] : Good(f, m + 1)
    OBVIOUS
  <2>1. PICK f \in [0..N -> A] : Good(f, m)
    BY <1>2
  <2>2. PICK a \in A : a = step[<<f[m], m + 1>>]
    OBVIOUS
  <2> DEFINE g == [f EXCEPT ![m + 1] = a]
  <2>3. g \in [0..N -> A]
    OBVIOUS
  <2>4. Good(g, m + 1)
    <3> SUFFICES ASSUME NEW n \in 0..(m + 1)
                 PROVE  g[n] = IF n = 0 THEN base ELSE step[<<g[n - 1], n>>]
      OBVIOUS
    <3>1. CASE n = m + 1
      <4>1. g[n] = a /\ g[n - 1] = f[m] /\ n # 0
        BY <3>1
      <4> QED
        BY <2>2, <3>1, <4>1
    <3>2. CASE n \in 0..m
      <4>1. g[n] = f[n] /\ (n # 0 => g[n - 1] = f[n - 1])
        BY <3>2
      <4> QED
        BY <2>1, <3>2, <4>1
    <3> QED
      BY <3>1, <3>2
  <2> QED
    BY <2>3, <2>4
<1> HIDE DEF T
<1>3. N \in T
  BY <1>1, <1>2, Induction
<1> HIDE DEF Good
<1>4. PICK f \in [0..N -> A] : Good(f, N)
  BY <1>3 DEF T
<1>5. IsRecursion(f, N, base, step)
  BY <1>4 DEF Good, IsRecursion
<1> QED
  BY <1>5

\* Sums of sizes so far, as the EndOf of RawCapture and of FrameCapture are.
AreSums(f, N, start, size) == f = [n \in 0..N |-> IF n = 0 THEN start ELSE f[n - 1] + size[n]]

LEMMA SumsExist ==
    ASSUME NEW N \in Nat, NEW start \in Nat, NEW size \in [1..N -> Nat]
    PROVE  \E f \in [0..N -> Nat] : AreSums(f, N, start, size)
<1> DEFINE step == [p \in Nat \X (1..N) |-> p[1] + size[p[2]]]
<1>1. step \in [Nat \X (1..N) -> Nat]
  OBVIOUS
<1>2. \A m \in Nat, n \in 1..N : step[<<m, n>>] = m + size[n]
  OBVIOUS
<1> HIDE DEF step
<1>3. PICK f \in [0..N -> Nat] : IsRecursion(f, N, start, step)
  BY <1>1, RecursionExists
<1>4. \A n \in 1..N : step[<<f[n - 1], n>>] = f[n - 1] + size[n]
  BY <1>2, <1>3
<1>5. AreSums(f, N, start, size)
  BY <1>3, <1>4 DEF AreSums, IsRecursion
<1> QED
  BY <1>5

LEMMA SumsBegin ==
    ASSUME NEW N \in Nat, NEW start, NEW size, NEW f, AreSums(f, N, start, size)
    PROVE  f[0] = start
BY DEF AreSums

LEMMA SumsStep ==
    ASSUME NEW N \in Nat, NEW start, NEW size, NEW f, AreSums(f, N, start, size), NEW n \in 1..N
    PROVE  f[n] = f[n - 1] + size[n]
BY DEF AreSums

\* What satisfies the recursion consists of numbers, and does not decrease.
LEMMA SumsGrow ==
    ASSUME NEW N \in Nat, NEW start \in Nat, NEW size \in [1..N -> Nat], NEW f,
           AreSums(f, N, start, size)
    PROVE  /\ f \in [0..N -> Nat]
           /\ \A m, n \in 0..N : m <= n => f[m] <= f[n]
<1>1. f[0] = start /\ \A n \in 1..N : f[n] = f[n - 1] + size[n]
  BY DEF AreSums
<1>2. \A n \in 0..N : f[n] \in Nat
  <2> DEFINE T == {n \in Nat : n <= N => f[n] \in Nat}
  <2>1. 0 \in T
    BY <1>1
  <2>2. ASSUME NEW n \in Nat, n \in T PROVE n + 1 \in T
    <3> SUFFICES ASSUME n + 1 <= N PROVE f[n + 1] \in Nat
      OBVIOUS
    <3>1. f[n] \in Nat /\ n + 1 \in 1..N /\ (n + 1) - 1 = n
      BY <2>2
    <3> QED
      BY <1>1, <3>1
  <2> HIDE DEF T
  <2>3. Nat \subseteq T
    BY <2>1, <2>2, Induction
  <2> QED
    BY <2>3 DEF T
<1>3. \A m, n \in 0..N : m <= n => f[m] <= f[n]
  <2> SUFFICES ASSUME NEW m \in 0..N PROVE \A n \in 0..N : m <= n => f[m] <= f[n]
    OBVIOUS
  <2> DEFINE T == {n \in Nat : m <= n /\ n <= N => f[m] <= f[n]}
  <2>1. 0 \in T
    BY <1>2
  <2>2. ASSUME NEW n \in Nat, n \in T PROVE n + 1 \in T
    <3> SUFFICES ASSUME m <= n + 1, n + 1 <= N PROVE f[m] <= f[n + 1]
      OBVIOUS
    <3>1. CASE m = n + 1
      BY <1>2, <3>1
    <3>2. CASE m <= n
      <4>1. f[m] <= f[n] /\ n \in 0..N /\ n + 1 \in 1..N /\ (n + 1) - 1 = n
        BY <2>2, <3>2
      <4> QED
        BY <1>1, <1>2, <4>1
    <3> QED
      BY <3>1, <3>2
  <2> HIDE DEF T
  <2>3. Nat \subseteq T
    BY <2>1, <2>2, Induction
  <2> QED
    BY <2>3 DEF T
<1>4. f \in [0..N -> Nat]
  <2>1. f = [n \in 0..N |-> f[n]]
    BY DEF AreSums
  <2> QED
    BY <1>2, <2>1
<1> QED
  BY <1>1, <1>3, <1>4

-----------------------------------------------------------------------------
(***************************************************************************)
(* Sequences.                                                              *)
(***************************************************************************)
\* What holds of <<>>, and of q with one more if it does of q, holds of every sequence.
LEMMA SequenceInduction ==
    ASSUME NEW X, NEW T, <<>> \in T,
           \A q \in Seq(X), x \in X : q \in T => Append(q, x) \in T
    PROVE  Seq(X) \subseteq T
<1> DEFINE U == {n \in Nat : \A q \in Seq(X) : Len(q) = n => q \in T}
<1>1. 0 \in U
  <2> SUFFICES ASSUME NEW q \in Seq(X), Len(q) = 0 PROVE q \in T
    OBVIOUS
  <2>1. q = <<>>
    OBVIOUS
  <2> QED
    BY <2>1
<1>2. ASSUME NEW n \in Nat, n \in U PROVE n + 1 \in U
  <2> SUFFICES ASSUME NEW q \in Seq(X), Len(q) = n + 1 PROVE q \in T
    OBVIOUS
  <2> DEFINE r == SubSeq(q, 1, n)
             x == q[n + 1]
  <2>1. r \in Seq(X) /\ Len(r) = n /\ x \in X
    OBVIOUS
  <2>2. q = Append(r, x)
    OBVIOUS
  <2>3. r \in T
    BY <1>2, <2>1
  <2> HIDE DEF r, x
  <2> QED
    BY <2>1, <2>2, <2>3
<1> HIDE DEF U
<1>3. Nat \subseteq U
  BY <1>1, <1>2, Induction
<1> QED
  BY <1>3 DEF U

\* Sequences one behind the other, in whichever groups.
Regroups(p, q, t) == (p \o q) \o t = p \o (q \o t)

LEMMA Regroup ==
    ASSUME NEW X, NEW p \in Seq(X), NEW q \in Seq(X), NEW t \in Seq(X)
    PROVE  Regroups(p, q, t)
BY DEF Regroups

\* The numbers after a, to b: of bytes, or of frames.
Between(a, b) == [i \in 1..(b - a) |-> a + i]

LEMMA BetweenType ==
    ASSUME NEW a \in Nat, NEW b \in Nat, a <= b
    PROVE  /\ Between(a, b) \in Seq((a + 1)..b)
           /\ Len(Between(a, b)) = b - a
           /\ \A i \in 1..(b - a) : Between(a, b)[i] = a + i
<1>1. b - a \in Nat /\ \A i \in 1..(b - a) : a + i \in (a + 1)..b
  OBVIOUS
<1> QED
  BY <1>1 DEF Between

\* From a to b, and on to c.
LEMMA BetweenConcat ==
    ASSUME NEW a \in Nat, NEW b \in Nat, NEW c \in Nat, a <= b, b <= c
    PROVE  Between(a, b) \o Between(b, c) = Between(a, c)
<1> DEFINE p == Between(a, b)
           q == Between(b, c)
           r == Between(a, c)
<1>1. a <= c
  OBVIOUS
<1>2. /\ p \in Seq(Nat) /\ Len(p) = b - a /\ \A i \in 1..(b - a) : p[i] = a + i
      /\ q \in Seq(Nat) /\ Len(q) = c - b /\ \A i \in 1..(c - b) : q[i] = b + i
      /\ r \in Seq(Nat) /\ Len(r) = c - a /\ \A i \in 1..(c - a) : r[i] = a + i
  <2>1. (a + 1)..b \subseteq Nat /\ (b + 1)..c \subseteq Nat /\ (a + 1)..c \subseteq Nat
    OBVIOUS
  <2> QED
    <3>1. p \in Seq((a + 1)..b) /\ Len(p) = b - a /\ \A i \in 1..(b - a) : p[i] = a + i
      BY BetweenType
    <3>2. q \in Seq((b + 1)..c) /\ Len(q) = c - b /\ \A i \in 1..(c - b) : q[i] = b + i
      BY BetweenType
    <3>3. r \in Seq((a + 1)..c) /\ Len(r) = c - a /\ \A i \in 1..(c - a) : r[i] = a + i
      BY <1>1, BetweenType
    <3> HIDE DEF p, q, r
    <3> QED
      BY <2>1, <3>1, <3>2, <3>3, SeqMonotonic
<1> HIDE DEF p, q, r
<1> DEFINE s == p \o q
<1>3. /\ s \in Seq(Nat) /\ Len(s) = Len(p) + Len(q)
      /\ \A i \in 1..(Len(p) + Len(q)) : s[i] = IF i <= Len(p) THEN p[i] ELSE q[i - Len(p)]
  BY <1>2, ConcatProperties, Zenon
<1> HIDE DEF s
<1>4. ASSUME NEW i \in 1..(c - a) PROVE s[i] = r[i]
  <2>1. CASE i <= b - a
    BY <1>2, <1>3, <2>1
  <2>2. CASE i > b - a
    <3>1. i - (b - a) \in 1..(c - b)
      BY <2>2
    <3>2. q[i - (b - a)] = b + (i - (b - a)) /\ s[i] = q[i - (b - a)] /\ r[i] = a + i
      BY <1>2, <1>3, <2>2, <3>1
    <3> QED
      BY <3>2
  <2> QED
    BY <2>1, <2>2
<1>5. s = r
  BY <1>2, <1>3, <1>4, SeqEqual
<1> QED
  BY <1>5 DEF p, q, r, s

\* The last of them.
LEMMA BetweenSub ==
    ASSUME NEW a \in Nat, NEW b \in Nat, a <= b, NEW m \in 0..(b - a)
    PROVE  SubSeq(Between(a, b), m + 1, b - a) = Between(a + m, b)
<1> DEFINE q == Between(a, b)
<1>1. q \in Seq((a + 1)..b) /\ Len(q) = b - a /\ \A i \in 1..(b - a) : q[i] = a + i
  BY BetweenType
<1> HIDE DEF q
<1>2. SubSeq(q, m + 1, b - a) = [i \in 1..(b - (a + m)) |-> q[m + i]]
  BY <1>1
<1>3. \A i \in 1..(b - (a + m)) : q[m + i] = (a + m) + i
  BY <1>1
<1> QED
  BY <1>2, <1>3 DEF q, Between

=============================================================================

--------------------------- MODULE SequenceLemmas --------------------------
(***************************************************************************)
(* Sequences of anything: what the proofs need of sequences whose elements *)
(* they say nothing about.  And what stands in for induction: a set of     *)
(* numbers has a least one, a set of numbers that has 0 and every next one *)
(* has all, and a fold over 0..n is there and is the only one.             *)
(***************************************************************************)
EXTENDS Sequences, Integers, FiniteSetTheorems, SequenceTheorems, TLAPS

IsSeq(f) == \E S : f \in Seq(S)

\* A sequence has a length, and its indices are 1 to its length.
LEMMA SeqLen ==
  ASSUME NEW f, IsSeq(f)
  PROVE  Len(f) \in Nat /\ DOMAIN f = 1..Len(f) /\ (f # <<>> => Len(f) > 0)
BY DEF IsSeq

\* An element of Seq(S), for any S, is a sequence.
LEMMA SeqIs ==
  ASSUME NEW S, NEW f \in Seq(S)
  PROVE  IsSeq(f)
BY DEF IsSeq

\* The empty tuple is a sequence of no elements.
LEMMA SeqEmpty == IsSeq(<<>>) /\ Len(<<>>) = 0
<1>1. <<>> \in Seq({}) /\ Len(<<>>) = 0  OBVIOUS
<1>. QED  BY <1>1, SeqIs

\* Append adds one element behind those that are there.
LEMMA SeqAppend ==
  ASSUME NEW f, IsSeq(f), NEW x
  PROVE  /\ IsSeq(Append(f, x)) /\ Len(Append(f, x)) = Len(f) + 1
         /\ \A i \in 1..Len(f) : Append(f, x)[i] = f[i]
         /\ Append(f, x)[Len(f) + 1] = x
<1>1. PICK S : f \in Seq(S)  BY DEF IsSeq
<1>2. f \in Seq(S \cup {x})
  BY <1>1
<1>3. Append(f, x) \in Seq(S \cup {x})  BY <1>2
<1>. QED  BY <1>1, <1>2, <1>3 DEF IsSeq

\* Replacing an element keeps the length and the other elements.
LEMMA SeqExcept ==
  ASSUME NEW f, IsSeq(f), NEW k \in 1..Len(f), NEW x
  PROVE  /\ IsSeq([f EXCEPT ![k] = x]) /\ Len([f EXCEPT ![k] = x]) = Len(f)
         /\ [f EXCEPT ![k] = x][k] = x
         /\ \A i \in 1..Len(f) : i # k => [f EXCEPT ![k] = x][i] = f[i]
<1>1. PICK S : f \in Seq(S)  BY DEF IsSeq
<1>2. f \in Seq(S \cup {x})
  BY <1>1
<1>3. [f EXCEPT ![k] = x] \in Seq(S \cup {x})  BY <1>2
<1>. QED  BY <1>1, <1>2, <1>3 DEF IsSeq

-----------------------------------------------------------------------------
\* Induction over the natural numbers, for sets.  The induction theorems of the
\* library take an operator; these take a set, and rest on the theorem that a
\* finite set has no endless descent of strict subsets.

\* Of any natural numbers there is a least.
LEMMA Least ==
  ASSUME NEW S, S \subseteq Nat, S # {}
  PROVE  \E m \in S : \A k \in S : m <= k
<1>. DEFINE T == {1..n : n \in S}
<1>1. T \subseteq FiniteSubsetsOf(Nat) /\ T # {}
  <2>1. \A n \in S : 1..n \subseteq Nat /\ IsFiniteSet(1..n)
    BY FS_Interval
  <2>. QED  BY <2>1 DEF FiniteSubsetsOf
<1>2. IsWellFoundedOn(StrictSubsetOrdering(Nat), FiniteSubsetsOf(Nat))
  BY FS_StrictSubsetOrderingWellFounded
<1>. HIDE DEF T
<1>3. PICK x \in T : \A y \in T : ~ (<<y, x>> \in StrictSubsetOrdering(Nat))
  BY <1>1, <1>2, WFMin
<1>4. PICK m \in S : x = 1..m
  BY DEF T
<1>5. ASSUME NEW k \in S, k < m PROVE FALSE
  <2>1. 1..k \in T
    BY DEF T
  <2>2. 1..k \subseteq 1..m /\ 1..k # 1..m
    <3>1. m \in 1..m /\ m \notin 1..k
      BY <1>5
    <3>2. 1..k \subseteq 1..m
      BY <1>5
    <3>. QED  BY <3>1, <3>2
  <2>3. 1..k \subseteq Nat /\ 1..m \subseteq Nat
    OBVIOUS
  <2>. QED  BY <1>3, <1>4, <2>1, <2>2, <2>3, Zenon DEF StrictSubsetOrdering
<1>. QED  BY <1>5

\* A set that has 0, and with each number the next, has them all.
LEMMA Induct ==
  ASSUME NEW S, 0 \in S, \A n \in Nat : n \in S => n + 1 \in S
  PROVE  Nat \subseteq S
<1>1. SUFFICES ASSUME Nat \ S # {} PROVE FALSE
  OBVIOUS
<1>2. PICK m \in Nat \ S : \A k \in Nat \ S : m <= k
  BY <1>1, Least
<1>3. m - 1 \in Nat /\ m - 1 \in S
  BY <1>2
<1>. QED  BY <1>2, <1>3

\* The values of a recursion that takes a value and an index to the next value.
Folding(f, c, g, n) ==
  f[0] = c /\ \A i \in 1..n : f[i] = g[<<f[i - 1], i>>]

\* Such a recursion has values.
LEMMA FoldExists ==
  ASSUME NEW D, NEW c \in D, NEW n \in Nat, NEW g \in [D \X (1..n) -> D]
  PROVE  \E f \in [0..n -> D] : Folding(f, c, g, n)
<1>. DEFINE S == {m \in Nat : m <= n => \E f \in [0..m -> D] : Folding(f, c, g, m)}
<1>1. 0 \in S
  <2>1. [i \in 0..0 |-> c] \in [0..0 -> D] /\ Folding([i \in 0..0 |-> c], c, g, 0)
    BY DEF Folding
  <2>. QED  BY <2>1
<1>2. ASSUME NEW m \in Nat, m \in S PROVE m + 1 \in S
  <2>1. SUFFICES ASSUME m + 1 <= n
                 PROVE  \E f \in [0..(m + 1) -> D] : Folding(f, c, g, m + 1)
    OBVIOUS
  <2>2. PICK f \in [0..m -> D] : Folding(f, c, g, m)
    BY <1>2, <2>1
  <2>. DEFINE h == [i \in 0..(m + 1) |-> IF i = m + 1 THEN g[<<f[m], m + 1>>] ELSE f[i]]
  <2>3. g[<<f[m], m + 1>>] \in D
    <3>1. <<f[m], m + 1>> \in D \X (1..n)
      BY <2>1, <2>2
    <3>. QED  BY <3>1
  <2>4. h \in [0..(m + 1) -> D]
    <3>1. \A i \in 0..(m + 1) : i # m + 1 => f[i] \in D
      BY <2>2
    <3>. QED  BY <2>3, <3>1
  <2>5. /\ h[0] = f[0] /\ h[m] = f[m] /\ h[m + 1] = g[<<f[m], m + 1>>]
        /\ \A i \in 1..m : h[i] = f[i] /\ h[i - 1] = f[i - 1]
    OBVIOUS
  <2>. HIDE DEF h
  <2>6. \A i \in 1..(m + 1) : h[i] = g[<<h[i - 1], i>>]
    <3>1. \A i \in 1..(m + 1) : i \in 1..m \/ i = m + 1
      OBVIOUS
    <3>2. \A i \in 1..m : h[i] = g[<<h[i - 1], i>>]
      BY <2>2, <2>5 DEF Folding
    <3>3. h[m + 1] = g[<<h[(m + 1) - 1], m + 1>>]
      BY <2>5
    <3>. QED  BY <3>1, <3>2, <3>3
  <2>. QED  BY <2>2, <2>4, <2>5, <2>6 DEF Folding
<1>3. Nat \subseteq S
  <2>. HIDE DEF S
  <2>. QED  BY <1>1, <1>2, Induct
<1>. QED  BY <1>3

\* And has them once: two runs of it agree as far as both go.
LEMMA FoldUnique ==
  ASSUME NEW c, NEW g, NEW n \in Nat, NEW f, NEW h,
         Folding(f, c, g, n), Folding(h, c, g, n)
  PROVE  \A i \in 0..n : f[i] = h[i]
<1>. DEFINE S == {i \in Nat : i <= n => f[i] = h[i]}
<1>1. 0 \in S
  BY DEF Folding
<1>2. ASSUME NEW i \in Nat, i \in S PROVE i + 1 \in S
  <2>1. SUFFICES ASSUME i + 1 <= n PROVE f[i + 1] = h[i + 1]
    OBVIOUS
  <2>2. i + 1 \in 1..n /\ (i + 1) - 1 = i /\ f[i] = h[i]
    BY <1>2, <2>1
  <2>3. f[i + 1] = g[<<f[i], i + 1>>] /\ h[i + 1] = g[<<h[i], i + 1>>]
    BY <2>2 DEF Folding
  <2>. QED  BY <2>2, <2>3
<1>3. Nat \subseteq S
  <2>. HIDE DEF S
  <2>. QED  BY <1>1, <1>2, Induct
<1>. QED  BY <1>3

\* Two runs of values begin alike, and go on alike from where they are.
InStep(f, h, n) ==
  f[0] = h[0] /\ \A i \in 1..n : f[i - 1] = h[i - 1] => f[i] = h[i]

\* Such runs are alike.
LEMMA StepAgree ==
  ASSUME NEW n \in Nat, NEW f, NEW h, InStep(f, h, n)
  PROVE  f[n] = h[n] /\ \A i \in 0..n : f[i] = h[i]
<1>. DEFINE S == {i \in Nat : i <= n => f[i] = h[i]}
<1>1. 0 \in S
  BY DEF InStep
<1>2. ASSUME NEW i \in Nat, i \in S PROVE i + 1 \in S
  <2>1. SUFFICES ASSUME i + 1 <= n PROVE f[i + 1] = h[i + 1]
    OBVIOUS
  <2>2. i + 1 \in 1..n /\ (i + 1) - 1 = i /\ f[i] = h[i]
    BY <1>2, <2>1
  <2>. QED  BY <2>2 DEF InStep
<1>3. Nat \subseteq S
  <2>. HIDE DEF S
  <2>. QED  BY <1>1, <1>2, Induct
<1>4. \A i \in 0..n : f[i] = h[i]
  BY <1>3
<1>. QED  BY <1>4

\* What holds of the empty sequence, and stays when an element is appended,
\* holds of every sequence.
LEMMA SeqInduct ==
  ASSUME NEW E, NEW S, <<>> \in S, \A s \in Seq(E), e \in E : s \in S => Append(s, e) \in S
  PROVE  Seq(E) \subseteq S
<1>. DEFINE T == {n \in Nat : \A s \in Seq(E) : Len(s) = n => s \in S}
<1>1. 0 \in T
  <2>1. ASSUME NEW s \in Seq(E), Len(s) = 0 PROVE s = <<>>
    BY <2>1, EmptySeq
  <2>. QED  BY <2>1
<1>2. ASSUME NEW n \in Nat, n \in T PROVE n + 1 \in T
  <2>1. SUFFICES ASSUME NEW s \in Seq(E), Len(s) = n + 1 PROVE s \in S
    OBVIOUS
  <2>. DEFINE t == [i \in 1..n |-> s[i]]
  <2>2. t \in Seq(E) /\ Len(t) = n /\ s[n + 1] \in E
    <3>1. \A i \in 1..n : s[i] \in E
      BY <2>1
    <3>2. t \in [1..n -> E]
      BY <3>1
    <3>. QED  BY <2>1, <3>2
  <2>3. s = Append(t, s[n + 1])
    <3>1. Append(t, s[n + 1]) \in Seq(E) /\ Len(Append(t, s[n + 1])) = Len(s)
      BY <2>1, <2>2
    <3>2. \A i \in 1..Len(s) : Append(t, s[n + 1])[i] = s[i]
      BY <2>1, <2>2
    <3>. HIDE DEF t
    <3>. QED  BY <3>1, <3>2, SeqEqual
  <2>4. t \in S
    BY <1>2, <2>2
  <2>. HIDE DEF t
  <2>. QED  BY <2>2, <2>3, <2>4
<1>3. Nat \subseteq T
  <2>. HIDE DEF T
  <2>. QED  BY <1>1, <1>2, Induct
<1>4. ASSUME NEW s \in Seq(E) PROVE s \in S
  <2>1. Len(s) \in Nat
    OBVIOUS
  <2>. QED  BY <1>3, <2>1
<1>. QED  BY <1>4

\* The values of a loop over a sequence that takes a value and an element to
\* the next value.
Looping(f, c, g, s) ==
  f[0] = c /\ \A i \in 1..Len(s) : f[i] = g[<<f[i - 1], s[i]>>]

\* Such a loop has values.
LEMMA LoopExists ==
  ASSUME NEW D, NEW E, NEW c \in D, NEW s \in Seq(E), NEW g \in [D \X E -> D]
  PROVE  \E f \in [0..Len(s) -> D] : Looping(f, c, g, s)
<1>. DEFINE n == Len(s)
            step == [p \in D \X (1..n) |-> g[<<p[1], s[p[2]]>>]]
<1>1. n \in Nat
  OBVIOUS
<1>2. \A d \in D, i \in 1..n : step[<<d, i>>] = g[<<d, s[i]>>] /\ step[<<d, i>>] \in D
  OBVIOUS
<1>3. step \in [D \X (1..n) -> D]
  <2>1. \A p \in D \X (1..n) : g[<<p[1], s[p[2]]>>] \in D
    OBVIOUS
  <2>. QED  BY <2>1
<1>. HIDE DEF step
<1>4. PICK f \in [0..n -> D] : Folding(f, c, step, n)
  BY <1>1, <1>3, FoldExists
<1>5. \A i \in 1..n : f[i] = g[<<f[i - 1], s[i]>>]
  <2>1. \A i \in 1..n : i - 1 \in 0..n
    OBVIOUS
  <2>. QED  BY <1>2, <1>4, <2>1 DEF Folding
<1>. QED  BY <1>4, <1>5 DEF Looping, Folding

-----------------------------------------------------------------------------

\* Replacing the last of the elements, and replacing another before or after
\* the last is appended.
LEMMA ExceptAppend ==
  ASSUME NEW S, NEW s \in Seq(S), NEW x \in S, NEW y \in S
  PROVE  /\ [Append(s, x) EXCEPT ![Len(s) + 1] = y] = Append(s, y)
         /\ \A j \in 1..Len(s) : [Append(s, x) EXCEPT ![j] = y] = Append([s EXCEPT ![j] = y], x)
<1>1. /\ Append(s, x) \in Seq(S) /\ Len(Append(s, x)) = Len(s) + 1 /\ Append(s, x)[Len(s) + 1] = x
      /\ Append(s, y) \in Seq(S) /\ Len(Append(s, y)) = Len(s) + 1 /\ Append(s, y)[Len(s) + 1] = y
      /\ \A i \in 1..Len(s) : Append(s, x)[i] = s[i] /\ Append(s, y)[i] = s[i]
  OBVIOUS
<1>2. /\ Len(s) \in Nat /\ Len(s) + 1 \in 1..(Len(s) + 1)
      /\ \A i \in 1..Len(s) : i \in 1..(Len(s) + 1) /\ i # Len(s) + 1
      /\ \A i \in 1..(Len(s) + 1) : i \in 1..Len(s) \/ i = Len(s) + 1
  OBVIOUS
<1>3. [Append(s, x) EXCEPT ![Len(s) + 1] = y] = Append(s, y)
  <2>. DEFINE t == Append(s, x)
              n == Len(s) + 1
  <2>1. t \in Seq(S) /\ n \in 1..Len(t)
    BY <1>1, <1>2
  <2>2. /\ [t EXCEPT ![n] = y] \in Seq(S) /\ Len([t EXCEPT ![n] = y]) = Len(t)
        /\ \A i \in 1..Len(t) : [t EXCEPT ![n] = y][i] = IF i = n THEN y ELSE t[i]
    <3>. HIDE DEF t, n
    <3>. QED  BY <2>1, ExceptSeq
  <2>3. \A i \in 1..Len(t) : [t EXCEPT ![n] = y][i] = Append(s, y)[i]
    BY <1>1, <1>2, <2>2
  <2>4. [t EXCEPT ![n] = y] = Append(s, y)
    <3>1. Len(t) = Len(Append(s, y))
      BY <1>1
    <3>. HIDE DEF t, n
    <3>. QED  BY <1>1, <2>2, <2>3, <3>1, SeqEqual
  <2>. QED  BY <2>4
<1>4. ASSUME NEW j \in 1..Len(s)
      PROVE  [Append(s, x) EXCEPT ![j] = y] = Append([s EXCEPT ![j] = y], x)
  <2>. DEFINE t == Append(s, x)
              u == [s EXCEPT ![j] = y]
  <2>1. t \in Seq(S) /\ j \in 1..Len(t)
    BY <1>1, <1>2
  <2>2. /\ [t EXCEPT ![j] = y] \in Seq(S) /\ Len([t EXCEPT ![j] = y]) = Len(t)
        /\ \A i \in 1..Len(t) : [t EXCEPT ![j] = y][i] = IF i = j THEN y ELSE t[i]
    <3>. HIDE DEF t
    <3>. QED  BY <2>1, ExceptSeq
  <2>3. /\ u \in Seq(S) /\ Len(u) = Len(s)
        /\ \A i \in 1..Len(s) : u[i] = IF i = j THEN y ELSE s[i]
    BY ExceptSeq
  <2>. HIDE DEF u
  <2>4. /\ Append(u, x) \in Seq(S) /\ Len(Append(u, x)) = Len(s) + 1 /\ Append(u, x)[Len(s) + 1] = x
        /\ \A i \in 1..Len(s) : Append(u, x)[i] = u[i]
    BY <2>3
  <2>5. \A i \in 1..Len(t) : [t EXCEPT ![j] = y][i] = Append(u, x)[i]
    BY <1>1, <1>2, <2>2, <2>3, <2>4
  <2>6. [t EXCEPT ![j] = y] = Append(u, x)
    <3>1. Len(t) = Len(s) + 1
      BY <1>1
    <3>. HIDE DEF t
    <3>. QED  BY <2>2, <2>4, <2>5, <3>1, SeqEqual
  <2>. QED  BY <2>6 DEF u
<1>. QED  BY <1>3, <1>4

\* A run of a sequence stays when an element is appended.
LEMMA RunOfFront ==
  ASSUME NEW S, NEW s \in Seq(S), NEW x \in S, NEW m \in Nat, NEW n \in Nat,
         1 <= m, n <= Len(s)
  PROVE  SubSeq(Append(s, x), m, n) = SubSeq(s, m, n)
BY DEF SubSeq

\* The run of the element that was appended is that element.
LEMMA RunOfLast ==
  ASSUME NEW S, NEW s \in Seq(S), NEW x \in S
  PROVE  SubSeq(Append(s, x), Len(s) + 1, Len(s) + 1) = <<x>>
<1>. DEFINE n == Len(s) + 1
            t == Append(s, x)
<1>1. n \in Nat \ {0} /\ t \in Seq(S) /\ Len(t) = n /\ t[n] = x
  OBVIOUS
<1>. HIDE DEF n, t
<1>2. SubSeq(t, n, n) \in Seq(S) /\ Len(SubSeq(t, n, n)) = 1 /\ SubSeq(t, n, n)[1] = x
  BY <1>1
<1>3. <<x>> \in Seq(S) /\ Len(<<x>>) = 1 /\ <<x>>[1] = x
  OBVIOUS
<1>4. \A i \in 1..Len(SubSeq(t, n, n)) : SubSeq(t, n, n)[i] = <<x>>[i]
  BY <1>2, <1>3
<1>5. SubSeq(t, n, n) = <<x>>
  BY <1>2, <1>3, <1>4, SeqEqual
<1>. QED  BY <1>5 DEF n, t

\* A run and the run behind it are one run.
LEMMA RunsJoin ==
  ASSUME NEW S, NEW s \in Seq(S), NEW l \in Nat, NEW m \in Nat, NEW n \in Nat,
         1 <= l, l <= m, m < n, n <= Len(s)
  PROVE  /\ SubSeq(s, l, m) \in Seq(S) /\ SubSeq(s, m + 1, n) \in Seq(S)
         /\ SubSeq(s, l, m) \o SubSeq(s, m + 1, n) = SubSeq(s, l, n)
OBVIOUS

\* The end of a sequence and one more element.
LEMMA RunAppend ==
  ASSUME NEW S, NEW s \in Seq(S), NEW x \in S, NEW m \in Nat, 1 <= m, m <= Len(s) + 1
  PROVE  SubSeq(Append(s, x), m, Len(s) + 1) = Append(SubSeq(s, m, Len(s)), x)
<1>. DEFINE n == Len(s)
            u == Append(s, x)
            r == SubSeq(s, m, n)
            a == SubSeq(u, m, n + 1)
<1>1. PICK k \in Nat : k = n - m + 1  OBVIOUS
<1>2. /\ n \in Nat /\ m + k = n + 1 /\ u \in Seq(S) /\ Len(u) = n + 1 /\ u[n + 1] = x
      /\ \A i \in 1..n : u[i] = s[i]
  BY <1>1
<1>. HIDE DEF u
<1>3. /\ r \in Seq(S) /\ Len(r) = k
      /\ \A i \in 1..k : r[i] = s[m + i - 1]
  BY <1>1
<1>4. /\ a \in Seq(S) /\ Len(a) = k + 1
      /\ \A i \in 1..(k + 1) : a[i] = u[m + i - 1]
  BY <1>1, <1>2
<1>. HIDE DEF r, a
<1>5. /\ Append(r, x) \in Seq(S) /\ Len(Append(r, x)) = k + 1 /\ Append(r, x)[k + 1] = x
      /\ \A i \in 1..k : Append(r, x)[i] = r[i]
  BY ONLY <1>3, x \in S, k \in Nat
<1>6. ASSUME NEW i \in 1..(k + 1) PROVE a[i] = Append(r, x)[i]
  <2>. HIDE DEF n
  <2>0. i = k + 1 \/ i \in 1..k  OBVIOUS
  <2>1. CASE i = k + 1
    <3>1. m + i - 1 = n + 1  BY <1>2, <2>1
    <3>2. a[i] = u[n + 1]  BY <1>4, <3>1
    <3>3. Append(r, x)[i] = x  BY <1>5, <2>1
    <3>. QED  BY <1>2, <3>2, <3>3
  <2>2. CASE i \in 1..k
    <3>1. m + i - 1 \in 1..n  BY <1>2, <2>2
    <3>2. a[i] = u[m + i - 1]  BY <1>4
    <3>3. u[m + i - 1] = s[m + i - 1]  BY <1>2, <3>1
    <3>4. Append(r, x)[i] = s[m + i - 1]  BY <1>3, <1>5, <2>2
    <3>. QED  BY <3>2, <3>3, <3>4
  <2>. QED  BY ONLY <2>0, <2>1, <2>2
<1>7. a = Append(r, x)
  BY <1>4, <1>5, <1>6
<1>. QED  BY <1>7 DEF a, r, u
=============================================================================

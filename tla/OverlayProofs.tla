---------------------------- MODULE OverlayProofs ----------------------------
(***************************************************************************)
(* Composing overlays is associative, and what is composed and             *)
(* materialized is what the layers mean, for every nesting of blocks and   *)
(* values.                                                                 *)
(*                                                                         *)
(* That composing is associative climbs: comments (concatenating them is   *)
(* associative), nodes (combining three of a key is, case by case), lists  *)
(* (a node put on a list may be put before or after one of another key,    *)
(* and two of one key are put as the two combined, so that laying three    *)
(* lists can be bracketed either way), and depth (merging blocks one       *)
(* deeper is laying with the merging of the depth below).  Nodes and lists *)
(* are proved about for any merging of children that is associative itself *)
(* (Joins), and induction on the depth ties the knot (EveryDepthJoins).    *)
(*                                                                         *)
(* What a composed document means climbs the same way.  A text laid over   *)
(* nothing has its keys in the order they are first written, and each is   *)
(* left the node that its visible blocks gather to, or its last node       *)
(* (Leaves); finishing that node gives what the text means for the key     *)
(* (KeyMeans), if finishing what children fold to gives what children mean *)
(* (Agrees); and induction on the depth ties this knot (EveryDepthAgrees). *)
(*                                                                         *)
(* What is recursive is unfolded first: that a recursion over the numbers  *)
(* has a value at each, and that a loop ends with its last one.            *)
(***************************************************************************)
EXTENDS Meaning, SequenceLemmas

-----------------------------------------------------------------------------
\* What the recursive definitions are: the lists and the merging of a depth, from
\* those of the depth below.

\* The lists of nodes whose children are of some lists.
NextLists(lists, values) == {list \in Seq(Nodes(lists, values)) : KeysOnce(list)}

\* The lists and the values where nothing nests.
FirstTrees == [lists |-> {<<>>}, values |-> Holding({<<>>}, {})]

\* f says what they are, to a depth.
TreesUpTo(n, f) ==
  f[0] = FirstTrees /\ \A i \in 1..n : f[i] = Enclosing(f[i - 1])

\* To every depth there are such lists.
LEMMA TreesExist ==
  ASSUME NEW n \in Nat
  PROVE  \E f : TreesUpTo(n, f)
<1>. DEFINE S == {m \in Nat : \E f : TreesUpTo(m, f)}
<1>1. 0 \in S
  <2>1. TreesUpTo(0, [i \in 0..0 |-> FirstTrees])
    BY DEF TreesUpTo
  <2>. QED  BY <2>1
<1>2. ASSUME NEW m \in Nat, m \in S PROVE m + 1 \in S
  <2>1. PICK f : TreesUpTo(m, f)
    BY <1>2
  <2>. DEFINE h == [i \in 0..(m + 1) |-> IF i = m + 1 THEN Enclosing(f[m]) ELSE f[i]]
  <2>2. /\ h[0] = f[0] /\ h[m + 1] = Enclosing(f[m]) /\ h[m] = f[m]
        /\ \A i \in 1..m : h[i] = f[i] /\ h[i - 1] = f[i - 1]
    OBVIOUS
  <2>3. f[0] = FirstTrees /\ \A i \in 1..m : f[i] = Enclosing(f[i - 1])
    BY <2>1 DEF TreesUpTo
  <2>. HIDE DEF h
  <2>4. \A i \in 1..(m + 1) : h[i] = Enclosing(h[i - 1])
    <3>1. \A i \in 1..(m + 1) : i \in 1..m \/ i = m + 1
      OBVIOUS
    <3>2. (m + 1) - 1 = m
      OBVIOUS
    <3>. QED  BY <2>2, <2>3, <3>1, <3>2
  <2>5. TreesUpTo(m + 1, h)
    BY <2>2, <2>3, <2>4 DEF TreesUpTo
  <2>. QED  BY <2>5
<1>3. Nat \subseteq S
  <2>. HIDE DEF S
  <2>. QED  BY <1>1, <1>2, Induct
<1>. QED  BY <1>3

\* The trees of a depth are made of those of the depth below.
LEMMA TreesUnfold ==
  /\ Trees[0] = FirstTrees
  /\ \A n \in Nat : Trees[n + 1] = Enclosing(Trees[n])
<1>. DEFINE upTo == [n \in Nat |-> CHOOSE f : TreesUpTo(n, f)]
            F == [n \in Nat |-> upTo[n][n]]
            R(f) == f = [n \in Nat |-> IF n = 0 THEN FirstTrees
                          ELSE Enclosing(f[n - 1])]
<1>1. \A n \in Nat : TreesUpTo(n, upTo[n])
  BY TreesExist
<1>. HIDE DEF upTo
<1>2. \A n \in Nat : /\ upTo[n][0] = FirstTrees
                     /\ \A i \in 1..n : upTo[n][i] = Enclosing(upTo[n][i - 1])
  BY <1>1 DEF TreesUpTo
<1>3. ASSUME NEW n \in Nat PROVE upTo[n + 1][n] = upTo[n][n]
  <2>1. ASSUME NEW f, NEW h, TreesUpTo(n + 1, f), TreesUpTo(n, h) PROVE f[n] = h[n]
    <3>1. InStep(f, h, n)
      <4>1. \A i \in 1..n : i \in 1..(n + 1)
        OBVIOUS
      <4>. QED  BY <2>1, <4>1 DEF InStep, TreesUpTo
    <3>. QED  BY <3>1, StepAgree
  <2>2. n + 1 \in Nat
    OBVIOUS
  <2>. QED  BY <1>1, <2>1, <2>2
<1>4. F[0] = FirstTrees
  BY <1>2
<1>5. ASSUME NEW n \in Nat PROVE F[n + 1] = Enclosing(F[n])
  <2>1. n + 1 \in Nat /\ n + 1 \in 1..(n + 1) /\ (n + 1) - 1 = n
    OBVIOUS
  <2>2. upTo[n + 1][n + 1] = Enclosing(upTo[n + 1][n])
    BY <1>2, <2>1
  <2>. QED  BY <1>3, <2>1, <2>2
<1>6. F = [n \in Nat |-> F[n]]
  OBVIOUS
<1>. HIDE DEF F
<1>7. \A n \in Nat : F[n] = IF n = 0 THEN FirstTrees ELSE Enclosing(F[n - 1])
  <2>1. \A n \in Nat : n = 0 \/ (n - 1 \in Nat /\ (n - 1) + 1 = n)
    OBVIOUS
  <2>. QED  BY <1>4, <1>5, <2>1
<1>8. R(F)
  BY <1>6, <1>7 DEF FirstTrees
<1>9. R(Trees)
  <2>1. Trees = CHOOSE f : R(f)
    BY DEF Trees, FirstTrees
  <2>. HIDE DEF R
  <2>. QED  BY <1>8, <2>1
<1>10. \A n \in Nat : Trees[n] = IF n = 0 THEN FirstTrees ELSE Enclosing(Trees[n - 1])
  BY <1>9 DEF FirstTrees
<1>11. \A n \in Nat : n + 1 \in Nat /\ n + 1 # 0 /\ (n + 1) - 1 = n
  OBVIOUS
<1>. HIDE DEF R
<1>. QED  BY <1>10, <1>11

\* What the lists and the values of a depth are, by those of the depth below.
LEMMA ListsUnfold ==
  /\ Lists(0) = {<<>>}
  /\ \A n \in Nat : /\ Lists(n + 1) = NextLists(Lists(n), Values(n))
                    /\ Values(n + 1) = Holding(Lists(n), Values(n))
<1>1. /\ FirstTrees.lists = {<<>>}
      /\ \A t : Enclosing(t).lists = NextLists(t.lists, t.values)
           /\ Enclosing(t).values = Holding(t.lists, t.values)
  BY DEF FirstTrees, Enclosing, NextLists
<1>2. Lists(0) = {<<>>}
  BY <1>1, TreesUnfold DEF Lists
<1>3. ASSUME NEW n \in Nat
      PROVE  Lists(n + 1) = NextLists(Lists(n), Values(n))
             /\ Values(n + 1) = Holding(Lists(n), Values(n))
  <2>1. Trees[n + 1] = Enclosing(Trees[n])
    BY TreesUnfold
  <2>. QED  BY <1>1, <2>1, Zenon DEF Lists, Values
<1>. QED  BY <1>2, <1>3

\* Merging where nothing nests, and where a depth below is merged already.
FirstMerging == [pair \in Lists(0) \X Written(0) |-> <<>>]

NextMerging(n, below) ==
  [pair \in Lists(n) \X Written(n) |-> Laid(below, pair[1], pair[2])]

\* f says how lists merge, to a depth.
MergingUpTo(n, f) ==
  f[0] = FirstMerging /\ \A i \in 1..n : f[i] = NextMerging(i, f[i - 1])

\* To every depth there is such a merging.
LEMMA MergingExists ==
  ASSUME NEW n \in Nat
  PROVE  \E f : MergingUpTo(n, f)
<1>. DEFINE S == {m \in Nat : \E f : MergingUpTo(m, f)}
<1>1. 0 \in S
  <2>1. MergingUpTo(0, [i \in 0..0 |-> FirstMerging])
    BY DEF MergingUpTo
  <2>. QED  BY <2>1
<1>2. ASSUME NEW m \in Nat, m \in S PROVE m + 1 \in S
  <2>1. PICK f : MergingUpTo(m, f)
    BY <1>2
  <2>. DEFINE h == [i \in 0..(m + 1) |-> IF i = m + 1 THEN NextMerging(m + 1, f[m]) ELSE f[i]]
  <2>2. /\ h[0] = f[0] /\ h[m + 1] = NextMerging(m + 1, f[m]) /\ h[m] = f[m]
        /\ \A i \in 1..m : h[i] = f[i] /\ h[i - 1] = f[i - 1]
    OBVIOUS
  <2>3. f[0] = FirstMerging /\ \A i \in 1..m : f[i] = NextMerging(i, f[i - 1])
    BY <2>1 DEF MergingUpTo
  <2>. HIDE DEF h
  <2>4. \A i \in 1..(m + 1) : h[i] = NextMerging(i, h[i - 1])
    <3>1. \A i \in 1..(m + 1) : i \in 1..m \/ i = m + 1
      OBVIOUS
    <3>2. (m + 1) - 1 = m
      OBVIOUS
    <3>. QED  BY <2>2, <2>3, <3>1, <3>2
  <2>5. MergingUpTo(m + 1, h)
    BY <2>2, <2>3, <2>4 DEF MergingUpTo
  <2>. QED  BY <2>5
<1>3. Nat \subseteq S
  <2>. HIDE DEF S
  <2>. QED  BY <1>1, <1>2, Induct
<1>. QED  BY <1>3

\* Merging at a depth is laying, with the merging of the depth below.
LEMMA MergingUnfold ==
  /\ merging[0] = FirstMerging
  /\ \A n \in Nat : merging[n + 1] = NextMerging(n + 1, merging[n])
<1>. DEFINE upTo == [n \in Nat |-> CHOOSE f : MergingUpTo(n, f)]
            F == [n \in Nat |-> upTo[n][n]]
            R(f) == f = [n \in Nat |->
                          [pair \in Lists(n) \X Written(n) |->
                             IF n = 0 THEN <<>> ELSE Laid(f[n - 1], pair[1], pair[2])]]
<1>1. \A n \in Nat : MergingUpTo(n, upTo[n])
  BY MergingExists
<1>. HIDE DEF upTo
<1>2. \A n \in Nat : /\ upTo[n][0] = FirstMerging
                     /\ \A i \in 1..n : upTo[n][i] = NextMerging(i, upTo[n][i - 1])
  BY <1>1 DEF MergingUpTo
<1>3. ASSUME NEW n \in Nat PROVE upTo[n + 1][n] = upTo[n][n]
  <2>1. ASSUME NEW f, NEW h, MergingUpTo(n + 1, f), MergingUpTo(n, h) PROVE f[n] = h[n]
    <3>1. InStep(f, h, n)
      <4>1. \A i \in 1..n : i \in 1..(n + 1)
        OBVIOUS
      <4>. QED  BY <2>1, <4>1 DEF InStep, MergingUpTo
    <3>. QED  BY <3>1, StepAgree
  <2>2. n + 1 \in Nat
    OBVIOUS
  <2>. QED  BY <1>1, <2>1, <2>2
<1>4. F[0] = FirstMerging
  BY <1>2
<1>5. ASSUME NEW n \in Nat PROVE F[n + 1] = NextMerging(n + 1, F[n])
  <2>1. n + 1 \in Nat /\ n + 1 \in 1..(n + 1) /\ (n + 1) - 1 = n
    OBVIOUS
  <2>2. upTo[n + 1][n + 1] = NextMerging(n + 1, upTo[n + 1][n])
    BY <1>2, <2>1
  <2>. QED  BY <1>3, <2>1, <2>2
<1>6. F = [n \in Nat |-> F[n]]
  OBVIOUS
<1>. HIDE DEF F
<1>7. \A n \in Nat : F[n] = IF n = 0 THEN FirstMerging ELSE NextMerging(n, F[n - 1])
  <2>1. \A n \in Nat : n = 0 \/ (n - 1 \in Nat /\ (n - 1) + 1 = n)
    OBVIOUS
  <2>. QED  BY <1>4, <1>5, <2>1
<1>8. R(F)
  <2>1. ASSUME NEW n \in Nat
        PROVE  F[n] =
             [pair \in Lists(n) \X Written(n) |->
                IF n = 0 THEN <<>> ELSE Laid(F[n - 1], pair[1], pair[2])]
    <3>1. CASE n = 0
      BY <1>7, <3>1 DEF FirstMerging
    <3>2. CASE n # 0
      BY <1>7, <3>2 DEF NextMerging
    <3>. QED  BY <3>1, <3>2
  <2>. QED  BY <1>6, <2>1
<1>9. R(merging)
  <2>1. merging = CHOOSE f : R(f)
    BY DEF merging
  <2>. HIDE DEF R
  <2>. QED  BY <1>8, <2>1
<1>10. \A n \in Nat : merging[n] = IF n = 0 THEN FirstMerging ELSE NextMerging(n, merging[n - 1])
  BY <1>9 DEF FirstMerging, NextMerging
<1>11. \A n \in Nat : n + 1 \in Nat /\ n + 1 # 0 /\ (n + 1) - 1 = n
  OBVIOUS
<1>. HIDE DEF R
<1>. QED  BY <1>10, <1>11

-----------------------------------------------------------------------------
\* Comments.

Comments == Seq(CommentName)

\* A comment is among others.
Held(base, c) == \E j \in DOMAIN base : base[j] = c

\* The values of the loop of ConcatComments.
CommentsRun(base, overlay, f) ==
  /\ f[0] = base
  /\ \A i \in 1..Len(overlay) :
       f[i] = IF Held(base, overlay[i]) THEN f[i - 1] ELSE Append(f[i - 1], overlay[i])

\* ConcatComments is a loop that runs over the comments of the overlay.
LEMMA CommentsUnfold ==
  ASSUME NEW base \in Comments, NEW overlay \in Comments
  PROVE  \E f : /\ CommentsRun(base, overlay, f)
                /\ \A i \in 0..Len(overlay) : f[i] \in Comments
                /\ ConcatComments(base, overlay) = f[Len(overlay)]
<1>. DEFINE g == [p \in Comments \X CommentName |->
                    IF Held(base, p[2]) THEN p[1] ELSE Append(p[1], p[2])]
            R(out) == out = [i \in 0..Len(overlay) |->
                        IF i = 0 THEN base
                        ELSE IF \E j \in DOMAIN base : base[j] = overlay[i] THEN out[i - 1]
                        ELSE Append(out[i - 1], overlay[i])]
<1>1. \A s \in Comments, c \in CommentName :
        g[<<s, c>>] = IF Held(base, c) THEN s ELSE Append(s, c)
  OBVIOUS
<1>2. g \in [Comments \X CommentName -> Comments]
  <2>1. \A p \in Comments \X CommentName :
          (IF Held(base, p[2]) THEN p[1] ELSE Append(p[1], p[2])) \in Comments
    BY DEF Comments
  <2>. QED  BY <2>1
<1>. HIDE DEF g
<1>3. PICK f \in [0..Len(overlay) -> Comments] : Looping(f, base, g, overlay)
  BY <1>2, LoopExists DEF Comments
<1>4. /\ Len(overlay) \in Nat
      /\ \A i \in 1..Len(overlay) : overlay[i] \in CommentName /\ i - 1 \in 0..Len(overlay)
  BY DEF Comments
<1>5. CommentsRun(base, overlay, f)
  BY <1>1, <1>3, <1>4 DEF Looping, CommentsRun
<1>6. \A i \in 0..Len(overlay) : i = 0 \/ i \in 1..Len(overlay)
  BY <1>4
<1>7. R(f)
  <2>1. f = [i \in 0..Len(overlay) |-> f[i]]
    OBVIOUS
  <2>2. \A i \in 0..Len(overlay) :
          f[i] = IF i = 0 THEN base ELSE IF Held(base, overlay[i]) THEN f[i - 1]
                 ELSE Append(f[i - 1], overlay[i])
    BY <1>4, <1>5, <1>6 DEF CommentsRun
  <2>. QED  BY <2>1, <2>2 DEF Held
<1>8. PICK h : R(h) /\ ConcatComments(base, overlay) = h[Len(overlay)]
  <2>. DEFINE h == CHOOSE out : R(out)
  <2>1. ConcatComments(base, overlay) = h[Len(overlay)]
    BY DEF ConcatComments
  <2>2. R(h)
    <3>. HIDE DEF R
    <3>. QED  BY <1>7
  <2>. HIDE DEF h
  <2>. QED  BY <2>1, <2>2
<1>9. InStep(f, h, Len(overlay))
  <2>1. \A i \in 0..Len(overlay) :
          h[i] = IF i = 0 THEN base ELSE IF Held(base, overlay[i]) THEN h[i - 1]
                 ELSE Append(h[i - 1], overlay[i])
    BY <1>8 DEF Held
  <2>2. \A i \in 1..Len(overlay) : i \in 0..Len(overlay) /\ i # 0
    BY <1>4
  <2>3. 0 \in 0..Len(overlay)
    BY <1>4
  <2>. QED  BY <1>5, <2>1, <2>2, <2>3 DEF InStep, CommentsRun
<1>10. f[Len(overlay)] = h[Len(overlay)]
  BY <1>4, <1>9, StepAgree
<1>. QED  BY <1>3, <1>5, <1>8, <1>10

\* Comments concatenate to comments.
LEMMA CommentsType ==
  ASSUME NEW base \in Comments, NEW overlay \in Comments
  PROVE  ConcatComments(base, overlay) \in Comments
<1>1. Len(overlay) \in 0..Len(overlay)
  BY DEF Comments
<1>. QED  BY <1>1, CommentsUnfold

\* No comments add none.
LEMMA CommentsNone ==
  ASSUME NEW base \in Comments
  PROVE  ConcatComments(base, <<>>) = base
<1>1. <<>> \in Comments /\ Len(<<>>) = 0
  BY DEF Comments
<1>. QED  BY <1>1, CommentsUnfold DEF CommentsRun

\* One more comment of the overlay is added unless the base holds it.
LEMMA CommentsOne ==
  ASSUME NEW base \in Comments, NEW overlay \in Comments, NEW c \in CommentName
  PROVE  ConcatComments(base, Append(overlay, c)) =
           IF Held(base, c) THEN ConcatComments(base, overlay)
           ELSE Append(ConcatComments(base, overlay), c)
<1>. DEFINE more == Append(overlay, c)
            n == Len(overlay)
<1>1. /\ more \in Comments /\ n \in Nat /\ Len(more) = n + 1 /\ more[n + 1] = c
      /\ \A i \in 1..n : more[i] = overlay[i] /\ i \in 1..(n + 1)
  BY DEF Comments
<1>. HIDE DEF more
<1>2. PICK f : CommentsRun(base, overlay, f) /\ ConcatComments(base, overlay) = f[n]
  BY CommentsUnfold
<1>3. PICK h : CommentsRun(base, more, h) /\ ConcatComments(base, more) = h[n + 1]
  BY <1>1, CommentsUnfold
<1>4. h[n] = f[n]
  <2>1. InStep(h, f, n)
    BY <1>1, <1>2, <1>3 DEF InStep, CommentsRun
  <2>. QED  BY <1>1, <2>1, StepAgree
<1>5. n + 1 \in 1..Len(more) /\ (n + 1) - 1 = n
  BY <1>1
<1>6. h[n + 1] = IF Held(base, c) THEN h[n] ELSE Append(h[n], c)
  BY <1>1, <1>3, <1>5 DEF CommentsRun
<1>. QED  BY <1>2, <1>3, <1>4, <1>6 DEF more

\* An appended comment is held, and so is what was.
LEMMA HeldAppend ==
  ASSUME NEW base \in Comments, NEW c \in CommentName, NEW d
  PROVE  Held(Append(base, c), d) <=> (Held(base, d) \/ d = c)
<1>1. /\ DOMAIN Append(base, c) = 1..(Len(base) + 1) /\ DOMAIN base = 1..Len(base)
      /\ Len(base) \in Nat /\ Append(base, c)[Len(base) + 1] = c
      /\ \A i \in 1..Len(base) : Append(base, c)[i] = base[i]
  BY DEF Comments
<1>2. \A i \in 1..(Len(base) + 1) : i \in 1..Len(base) \/ i = Len(base) + 1
  BY <1>1
<1>3. /\ Len(base) + 1 \in 1..(Len(base) + 1)
      /\ \A i \in 1..Len(base) : i \in 1..(Len(base) + 1)
  BY <1>1
<1>. QED  BY <1>1, <1>2, <1>3 DEF Held

\* What is held after concatenating is what either held.
LEMMA CommentsHeld ==
  ASSUME NEW base \in Comments, NEW overlay \in Comments, NEW d
  PROVE  Held(ConcatComments(base, overlay), d) <=> (Held(base, d) \/ Held(overlay, d))
<1>. DEFINE S == {s \in Comments :
                    Held(ConcatComments(base, s), d) <=> (Held(base, d) \/ Held(s, d))}
<1>1. <<>> \in S
  <2>1. <<>> \in Comments /\ ~ Held(<<>>, d)
    BY DEF Comments, Held
  <2>. QED  BY <2>1, CommentsNone
<1>2. ASSUME NEW s \in Comments, NEW c \in CommentName, s \in S PROVE Append(s, c) \in S
  <2>1. Append(s, c) \in Comments /\ ConcatComments(base, s) \in Comments
    BY CommentsType DEF Comments
  <2>2. Held(Append(s, c), d) <=> (Held(s, d) \/ d = c)
    BY HeldAppend
  <2>3. CASE Held(base, c)
    BY <1>2, <2>1, <2>2, <2>3, CommentsOne
  <2>4. CASE ~ Held(base, c)
    <3>1. Held(ConcatComments(base, Append(s, c)), d)
            <=> (Held(ConcatComments(base, s), d) \/ d = c)
      <4>1. ConcatComments(base, Append(s, c)) = Append(ConcatComments(base, s), c)
        BY <2>4, CommentsOne
      <4>. QED  BY <2>1, <4>1, HeldAppend
    <3>. QED  BY <1>2, <2>1, <2>2, <3>1
  <2>. QED  BY <2>3, <2>4
<1>3. Comments \subseteq S
  <2>. HIDE DEF S
  <2>. QED  BY <1>1, <1>2, SeqInduct DEF Comments
<1>. QED  BY <1>3

\* Concatenating comments is associative.
LEMMA CommentsAssociative ==
  ASSUME NEW x \in Comments, NEW y \in Comments, NEW z \in Comments
  PROVE  ConcatComments(ConcatComments(x, y), z) = ConcatComments(x, ConcatComments(y, z))
<1>. DEFINE S == {s \in Comments : ConcatComments(ConcatComments(x, y), s)
                                     = ConcatComments(x, ConcatComments(y, s))}
<1>1. ConcatComments(x, y) \in Comments
  BY CommentsType
<1>2. <<>> \in S
  <2>1. <<>> \in Comments
    BY DEF Comments
  <2>. QED  BY <1>1, <2>1, CommentsNone
<1>3. ASSUME NEW s \in Comments, NEW d \in CommentName, s \in S PROVE Append(s, d) \in S
  <2>1. Append(s, d) \in Comments /\ ConcatComments(y, s) \in Comments
    BY CommentsType DEF Comments
  <2>2. Held(ConcatComments(x, y), d) <=> (Held(x, d) \/ Held(y, d))
    BY CommentsHeld
  <2>3. ConcatComments(y, Append(s, d)) =
          IF Held(y, d) THEN ConcatComments(y, s) ELSE Append(ConcatComments(y, s), d)
    BY CommentsOne
  <2>4. ConcatComments(ConcatComments(x, y), Append(s, d)) =
          IF Held(x, d) \/ Held(y, d) THEN ConcatComments(ConcatComments(x, y), s)
          ELSE Append(ConcatComments(ConcatComments(x, y), s), d)
    BY <1>1, <2>2, CommentsOne
  <2>5. ConcatComments(x, Append(ConcatComments(y, s), d)) =
          IF Held(x, d) THEN ConcatComments(x, ConcatComments(y, s))
          ELSE Append(ConcatComments(x, ConcatComments(y, s)), d)
    BY <2>1, CommentsOne
  <2>. QED  BY <1>3, <2>1, <2>3, <2>4, <2>5
<1>4. Comments \subseteq S
  <2>. HIDE DEF S
  <2>. QED  BY <1>2, <1>3, SeqInduct DEF Comments
<1>. QED  BY <1>4

-----------------------------------------------------------------------------
\* One node on another of the same key.

\* What merging children must be for merging nodes to be it too.
Joins(lists, below) ==
  /\ \A x, y \in lists : below[<<x, y>>] \in lists
  /\ \A x, y, z \in lists :
       below[<<below[<<x, y>>], z>>] = below[<<x, below[<<y, z>>]>>]

\* A node that is one block on another, and one that is the later of two, field
\* by field.
Joined(below, old, new, m) ==
  /\ m.key = old.key /\ m.kind = old.kind /\ m.value = old.value
  /\ m.items = old.items /\ m.replace = old.replace
  /\ m.children = below[<<old.children, new.children>>]
  /\ m.leading = ConcatComments(old.leading, new.leading)
  /\ m.trailing = ConcatComments(old.trailing, new.trailing)

Replaces(new, r) ==
  /\ r.key = new.key /\ r.kind = new.kind /\ r.value = new.value
  /\ r.items = new.items /\ r.replace = (new.kind = "block")
  /\ r.children = new.children /\ r.leading = new.leading /\ r.trailing = new.trailing

Combined(below, old, new, c) ==
  IF Merges(old, new) THEN Joined(below, old, new, c) ELSE Replaces(new, c)

\* What the fields of a node are.
LEMMA NodeFields ==
  ASSUME NEW lists, NEW values, NEW x \in Nodes(lists, values)
  PROVE  /\ x.key \in KeyName /\ x.kind \in Kinds /\ x.value \in values /\ x.children \in lists
         /\ x.items \in Seq(values) /\ x.replace \in BOOLEAN
         /\ x.leading \in Comments /\ x.trailing \in Comments
BY DEF Nodes, Comments

\* Nodes of equal fields are equal.
LEMMA NodesEqual ==
  ASSUME NEW lists, NEW values, NEW x \in Nodes(lists, values), NEW y \in Nodes(lists, values),
         x.key = y.key, x.kind = y.kind, x.value = y.value, x.children = y.children,
         x.items = y.items, x.replace = y.replace, x.leading = y.leading, x.trailing = y.trailing
  PROVE  x = y
BY DEF Nodes

\* A block that merges keeps what is not merged.
LEMMA MergedNode ==
  ASSUME NEW lists, NEW values, NEW below, Joins(lists, below),
         NEW old \in Nodes(lists, values), NEW new \in Nodes(lists, values)
  PROVE  /\ Merged(below, old, new) \in Nodes(lists, values)
         /\ Joined(below, old, new, Merged(below, old, new))
<1>. DEFINE b == below[<<old.children, new.children>>]
            l == ConcatComments(old.leading, new.leading)
            t == ConcatComments(old.trailing, new.trailing)
<1>1. b \in lists /\ l \in Comments /\ t \in Comments
  BY NodeFields, CommentsType DEF Joins
<1>2. Merged(below, old, new) = [old EXCEPT !.children = b, !.leading = l, !.trailing = t]
  BY DEF Merged
<1>. HIDE DEF b, l, t
<1>3. [old EXCEPT !.children = b, !.leading = l, !.trailing = t] \in Nodes(lists, values)
  BY <1>1 DEF Nodes, Comments
<1>4. LET m == [old EXCEPT !.children = b, !.leading = l, !.trailing = t]
      IN  /\ m.key = old.key /\ m.kind = old.kind /\ m.value = old.value
          /\ m.items = old.items /\ m.replace = old.replace
          /\ m.children = b /\ m.leading = l /\ m.trailing = t
  BY DEF Nodes
<1>. QED  BY <1>2, <1>3, <1>4 DEF b, l, t, Joined

\* A node that replaces another is itself but for the flag.
LEMMA BarrierNode ==
  ASSUME NEW lists, NEW values, NEW new \in Nodes(lists, values)
  PROVE  /\ [new EXCEPT !.replace = (new.kind = "block")] \in Nodes(lists, values)
         /\ Replaces(new, [new EXCEPT !.replace = (new.kind = "block")])
<1>. DEFINE w == (new.kind = "block")
<1>1. w \in BOOLEAN
  OBVIOUS
<1>. HIDE DEF w
<1>2. [new EXCEPT !.replace = w] \in Nodes(lists, values)
  BY <1>1 DEF Nodes
<1>3. LET r == [new EXCEPT !.replace = w]
      IN  /\ r.key = new.key /\ r.kind = new.kind /\ r.value = new.value
          /\ r.items = new.items /\ r.replace = w
          /\ r.children = new.children /\ r.leading = new.leading /\ r.trailing = new.trailing
  BY DEF Nodes
<1>. QED  BY <1>2, <1>3 DEF w, Replaces

\* What takes a slot is a node, of the key that was there.
LEMMA CombineNode ==
  ASSUME NEW lists, NEW values, NEW below, Joins(lists, below),
         NEW old \in Nodes(lists, values), NEW new \in Nodes(lists, values)
  PROVE  /\ Combine(below, old, new) \in Nodes(lists, values)
         /\ Combined(below, old, new, Combine(below, old, new))
         /\ old.key = new.key => Combine(below, old, new).key = new.key
<1>1. CASE Merges(old, new)
  <2>1. Combine(below, old, new) = Merged(below, old, new)
    BY <1>1 DEF Combine
  <2>. QED  BY <1>1, <2>1, MergedNode DEF Combined, Joined
<1>2. CASE ~ Merges(old, new)
  <2>1. Combine(below, old, new) = [new EXCEPT !.replace = (new.kind = "block")]
    BY <1>2 DEF Combine
  <2>. QED  BY <1>2, <2>1, BarrierNode DEF Combined, Replaces
<1>. QED  BY <1>1, <1>2

\* Combining three nodes is associative, said of the nodes it gives: a node that
\* merges with none makes all below it unseen, whichever it meets first.
LEMMA CombinedAssociative ==
  ASSUME NEW lists, NEW values, NEW below, Joins(lists, below),
         NEW x \in Nodes(lists, values), NEW y \in Nodes(lists, values),
         NEW z \in Nodes(lists, values),
         NEW xy \in Nodes(lists, values), NEW yz \in Nodes(lists, values),
         NEW left \in Nodes(lists, values), NEW right \in Nodes(lists, values),
         Combined(below, x, y, xy), Combined(below, y, z, yz),
         Combined(below, xy, z, left), Combined(below, x, yz, right)
  PROVE  left = right
<1>1. CASE ~ (z.kind = "block" /\ ~ z.replace)
  <2>1. Replaces(z, yz) /\ Replaces(z, left)
    BY <1>1 DEF Combined, Merges
  <2>2. Replaces(yz, right)
    BY <1>1, <2>1 DEF Combined, Merges, Replaces
  <2>. QED  BY <2>1, <2>2, NodesEqual DEF Replaces
<1>2. CASE z.kind = "block" /\ ~ z.replace /\ y.kind # "block"
  <2>1. Replaces(y, xy) /\ Replaces(z, yz)
    BY <1>2 DEF Combined, Merges
  <2>2. Replaces(z, left) /\ Replaces(yz, right)
    BY <1>2, <2>1 DEF Combined, Merges, Replaces
  <2>. QED  BY <2>1, <2>2, NodesEqual DEF Replaces
<1>3. CASE z.kind = "block" /\ ~ z.replace /\ y.kind = "block" /\ (y.replace \/ x.kind # "block")
  <2>1. Joined(below, y, z, yz) /\ Replaces(y, xy)
    BY <1>3 DEF Combined, Merges
  <2>2. Joined(below, xy, z, left)
    BY <1>3, <2>1 DEF Combined, Merges, Replaces
  <2>3. Replaces(yz, right)
    BY <1>3, <2>1 DEF Combined, Merges, Joined
  <2>. QED  BY <1>3, <2>1, <2>2, <2>3, NodesEqual DEF Joined, Replaces
<1>4. CASE z.kind = "block" /\ ~ z.replace /\ y.kind = "block" /\ ~ y.replace /\ x.kind = "block"
  <2>1. Joined(below, x, y, xy) /\ Joined(below, y, z, yz)
    BY <1>4 DEF Combined, Merges
  <2>2. Joined(below, xy, z, left) /\ Joined(below, x, yz, right)
    BY <1>4, <2>1 DEF Combined, Merges, Joined
  <2>6. below[<<below[<<x.children, y.children>>], z.children>>]
          = below[<<x.children, below[<<y.children, z.children>>]>>]
    BY NodeFields DEF Joins
  <2>3. /\ x.leading \in Comments /\ y.leading \in Comments /\ z.leading \in Comments
        /\ x.trailing \in Comments /\ y.trailing \in Comments /\ z.trailing \in Comments
    BY NodeFields
  <2>4. ConcatComments(ConcatComments(x.leading, y.leading), z.leading)
          = ConcatComments(x.leading, ConcatComments(y.leading, z.leading))
    BY <2>3, CommentsAssociative
  <2>5. ConcatComments(ConcatComments(x.trailing, y.trailing), z.trailing)
          = ConcatComments(x.trailing, ConcatComments(y.trailing, z.trailing))
    BY <2>3, CommentsAssociative
  <2>. QED  BY <2>1, <2>2, <2>4, <2>5, <2>6, NodesEqual DEF Joined
<1>5. y.replace \in BOOLEAN /\ z.replace \in BOOLEAN
  BY NodeFields
<1>. QED  BY <1>1, <1>2, <1>3, <1>4, <1>5

\* Combining nodes is associative.
LEMMA CombineAssociative ==
  ASSUME NEW lists, NEW values, NEW below, Joins(lists, below),
         NEW x \in Nodes(lists, values), NEW y \in Nodes(lists, values),
         NEW z \in Nodes(lists, values)
  PROVE  Combine(below, Combine(below, x, y), z) = Combine(below, x, Combine(below, y, z))
<1>. DEFINE xy == Combine(below, x, y)
            yz == Combine(below, y, z)
            left == Combine(below, xy, z)
            right == Combine(below, x, yz)
<1>1. /\ xy \in Nodes(lists, values) /\ Combined(below, x, y, xy)
      /\ yz \in Nodes(lists, values) /\ Combined(below, y, z, yz)
  BY CombineNode
<1>2. /\ left \in Nodes(lists, values) /\ Combined(below, xy, z, left)
      /\ right \in Nodes(lists, values) /\ Combined(below, x, yz, right)
  <2>. HIDE DEF xy, yz
  <2>. QED  BY <1>1, CombineNode
<1>3. left = right
  <2>. HIDE DEF xy, yz, left, right
  <2>. QED  BY <1>1, <1>2, CombinedAssociative
<1>. QED  BY <1>3

-----------------------------------------------------------------------------
\* A node in a list.

\* What a list with no key twice is.
LEMMA ListFacts ==
  ASSUME NEW lists, NEW values, NEW list \in NextLists(lists, values)
  PROVE  /\ list \in Seq(Nodes(lists, values)) /\ Len(list) \in Nat /\ DOMAIN list = 1..Len(list)
         /\ \A i \in DOMAIN list : list[i] \in Nodes(lists, values) /\ list[i].key \in Keys(list)
         /\ \A i, j \in DOMAIN list : list[i].key = list[j].key => i = j
         /\ IsSeq(list)
BY SeqIs DEF NextLists, KeysOnce, Keys

\* The slot of a key is the one place it is at.
LEMMA SlotIs ==
  ASSUME NEW lists, NEW values, NEW list \in NextLists(lists, values), NEW k
  PROVE  /\ k \in Keys(list) => Slot(list, k) \in DOMAIN list /\ list[Slot(list, k)].key = k
         /\ \A i \in DOMAIN list : list[i].key = k => Slot(list, k) = i
<1>1. ASSUME NEW i \in DOMAIN list, list[i].key = k
      PROVE  Slot(list, k) \in DOMAIN list /\ list[Slot(list, k)].key = k
  BY <1>1 DEF Slot
<1>2. \A i, j \in DOMAIN list : list[i].key = list[j].key => i = j
  BY ListFacts
<1>. QED  BY <1>1, <1>2 DEF Keys

\* Appending a node of a new key.
LEMMA NewKey ==
  ASSUME NEW lists, NEW values, NEW list \in NextLists(lists, values),
         NEW node \in Nodes(lists, values),
         node.key \notin Keys(list)
  PROVE  /\ Append(list, node) \in NextLists(lists, values)
         /\ Keys(Append(list, node)) = Keys(list) \cup {node.key}
         /\ Slot(Append(list, node), node.key) = Len(list) + 1
         /\ \A k \in Keys(list) : Slot(Append(list, node), k) = Slot(list, k)
<1>. DEFINE more == Append(list, node)
            n == Len(list)
<1>1. /\ n \in Nat /\ more \in Seq(Nodes(lists, values))
      /\ DOMAIN more = 1..(n + 1) /\ DOMAIN list = 1..n
      /\ more[n + 1] = node /\ \A i \in 1..n : more[i] = list[i]
  <2>1. list \in Seq(Nodes(lists, values))
    BY ListFacts
  <2>. QED  BY <2>1
<1>2. \A i \in 1..(n + 1) : i \in 1..n \/ i = n + 1
  BY <1>1
<1>3. n + 1 \in 1..(n + 1) /\ n + 1 \notin 1..n /\ \A i \in 1..n : i \in 1..(n + 1)
  BY <1>1
<1>4. \A i \in 1..n : list[i].key \in Keys(list) /\ list[i].key # node.key
  BY <1>1, ListFacts
<1>5. \A i, j \in 1..n : list[i].key = list[j].key => i = j
  BY <1>1, ListFacts
<1>. HIDE DEF more, n
<1>6. \A i, j \in 1..(n + 1) : more[i].key = more[j].key => i = j
  BY <1>1, <1>2, <1>3, <1>4, <1>5
<1>7. more \in NextLists(lists, values)
  BY <1>1, <1>6 DEF NextLists, KeysOnce
<1>8. Keys(more) = Keys(list) \cup {node.key}
  BY <1>1, <1>2, <1>3 DEF Keys
<1>9. Slot(more, node.key) = n + 1
  BY <1>1, <1>3, <1>7, SlotIs
<1>10. ASSUME NEW k \in Keys(list) PROVE Slot(more, k) = Slot(list, k)
  <2>1. Slot(list, k) \in 1..n /\ list[Slot(list, k)].key = k
    BY <1>1, <1>10, SlotIs
  <2>2. Slot(list, k) \in DOMAIN more /\ more[Slot(list, k)].key = k
    BY <1>1, <1>3, <2>1
  <2>. QED  BY <1>7, <2>2, SlotIs
<1>. QED  BY <1>7, <1>8, <1>9, <1>10 DEF more, n

\* (Named, for the provers do not look for an EXCEPT.)
Replaced(list, i, node, now) == now = [list EXCEPT ![i] = node]

\* Replacing a node by one of the same key.
LEMMA OldKey ==
  ASSUME NEW lists, NEW values, NEW list \in NextLists(lists, values), NEW i \in DOMAIN list,
         NEW node \in Nodes(lists, values), node.key = list[i].key,
         NEW now, Replaced(list, i, node, now)
  PROVE  /\ now \in NextLists(lists, values) /\ Keys(now) = Keys(list)
         /\ \A k \in Keys(list) : Slot(now, k) = Slot(list, k)
<1>1. /\ now \in Seq(Nodes(lists, values)) /\ DOMAIN now = DOMAIN list
      /\ \A j \in DOMAIN list : now[j].key = list[j].key
  <2>1. list \in Seq(Nodes(lists, values))
    BY ListFacts
  <2>. QED  BY <2>1 DEF Replaced
<1>2. \A j, k \in DOMAIN list : list[j].key = list[k].key => j = k
  BY ListFacts
<1>3. now \in NextLists(lists, values)
  BY <1>1, <1>2 DEF NextLists, KeysOnce
<1>4. Keys(now) = Keys(list)
  BY <1>1 DEF Keys
<1>5. ASSUME NEW k \in Keys(list) PROVE Slot(now, k) = Slot(list, k)
  <2>1. Slot(list, k) \in DOMAIN list /\ list[Slot(list, k)].key = k
    BY <1>5, SlotIs
  <2>. QED  BY <1>1, <1>3, <2>1, SlotIs
<1>. QED  BY <1>3, <1>4, <1>5

\* Putting a node on a list adds its key, and no key is there twice.
LEMMA PutIs ==
  ASSUME NEW lists, NEW values, NEW below, Joins(lists, below),
         NEW list \in NextLists(lists, values), NEW node \in Nodes(lists, values)
  PROVE  /\ Put(below, list, node) \in NextLists(lists, values)
         /\ Keys(Put(below, list, node)) = Keys(list) \cup {node.key}
<1>1. CASE node.key \in Keys(list)
  <2>. DEFINE i == Slot(list, node.key)
              new == Combine(below, list[i], node)
  <2>1. i \in DOMAIN list /\ list[i] \in Nodes(lists, values) /\ list[i].key = node.key
    BY <1>1, SlotIs, ListFacts
  <2>2. new \in Nodes(lists, values) /\ new.key = list[i].key
    BY <2>1, CombineNode
  <2>3. Put(below, list, node) = [list EXCEPT ![i] = new]
    BY <1>1 DEF Put
  <2>. HIDE DEF i, new
  <2>4. Replaced(list, i, new, Put(below, list, node))
    BY <2>3 DEF Replaced
  <2>. QED  BY <1>1, <2>1, <2>2, <2>4, OldKey
<1>2. CASE node.key \notin Keys(list)
  <2>1. Put(below, list, node) = Append(list, node)
    BY <1>2 DEF Put
  <2>. QED  BY <1>2, <2>1, NewKey
<1>. QED  BY <1>1, <1>2

\* Putting two nodes of one key is putting the two combined.
LEMMA PutTwice ==
  ASSUME NEW lists, NEW values, NEW below, Joins(lists, below),
         NEW list \in NextLists(lists, values),
         NEW y \in Nodes(lists, values), NEW z \in Nodes(lists, values), y.key = z.key
  PROVE  Put(below, Put(below, list, y), z) = Put(below, list, Combine(below, y, z))
<1>. DEFINE k == z.key
            once == Put(below, list, y)
            yz == Combine(below, y, z)
<1>1. yz \in Nodes(lists, values) /\ yz.key = k
  BY CombineNode
<1>2. once \in NextLists(lists, values) /\ k \in Keys(once)
  BY PutIs
<1>3. Put(below, once, z) = [once EXCEPT ![Slot(once, k)] = Combine(below, once[Slot(once, k)], z)]
  BY <1>2 DEF Put
<1>4. CASE k \in Keys(list)
  <2>. DEFINE i == Slot(list, k)
              x == list[i]
  <2>1. i \in DOMAIN list /\ x \in Nodes(lists, values) /\ x.key = k
    BY <1>4, SlotIs, ListFacts
  <2>2. once = [list EXCEPT ![i] = Combine(below, x, y)]
    BY <1>4 DEF Put
  <2>3. Combine(below, x, y) \in Nodes(lists, values) /\ Combine(below, x, y).key = x.key
    BY <2>1, CombineNode
  <2>4. Slot(once, k) = i
    <3>1. \A l \in Keys(list) : Slot(once, l) = Slot(list, l)
      <4>. HIDE DEF i, x, once, k
      <4>1. Replaced(list, i, Combine(below, x, y), once)
        BY <2>2 DEF Replaced
      <4>. QED  BY <2>1, <2>3, <4>1, OldKey DEF x
    <3>. QED  BY <1>4, <3>1
  <2>5. once[i] = Combine(below, x, y)
    BY <2>1, <2>2
  <2>6. Combine(below, Combine(below, x, y), z) = Combine(below, x, yz)
    BY <2>1, CombineAssociative
  <2>7. Put(below, list, yz) = [list EXCEPT ![i] = Combine(below, x, yz)]
    BY <1>1, <1>4 DEF Put
  <2>8. Put(below, once, z) = [once EXCEPT ![i] = Combine(below, x, yz)]
    <3>. HIDE DEF i, x, once, k, yz
    <3>. QED  BY <1>3, <2>4, <2>5, <2>6
  <2>9. [once EXCEPT ![i] = Combine(below, x, yz)] = [list EXCEPT ![i] = Combine(below, x, yz)]
    <3>. HIDE DEF i, x, once, k, yz
    <3>. QED  BY <2>2
  <2>. QED  BY <2>7, <2>8, <2>9
<1>5. CASE k \notin Keys(list)
  <2>1. once = Append(list, y) /\ Put(below, list, yz) = Append(list, yz)
    BY <1>1, <1>5 DEF Put
  <2>2. Slot(once, k) = Len(list) + 1
    BY <1>5, <2>1, NewKey
  <2>3. list \in Seq(Nodes(lists, values)) /\ once[Len(list) + 1] = y
    BY <2>1, ListFacts
  <2>4. Put(below, once, z) = [once EXCEPT ![Len(list) + 1] = yz]
    <3>. HIDE DEF once
    <3>. QED  BY <1>3, <2>2, <2>3
  <2>5. [Append(list, y) EXCEPT ![Len(list) + 1] = yz] = Append(list, yz)
    <3>. HIDE DEF yz
    <3>. QED  BY <1>1, <2>3, ExceptAppend
  <2>. QED  BY <2>1, <2>4, <2>5
<1>. QED  BY <1>4, <1>5

\* A node of a key that is there may be put before or after one of another key.
LEMMA PutCommutes ==
  ASSUME NEW lists, NEW values, NEW below, Joins(lists, below),
         NEW list \in NextLists(lists, values),
         NEW y \in Nodes(lists, values),
         NEW z \in Nodes(lists, values), y.key # z.key, z.key \in Keys(list)
  PROVE  Put(below, Put(below, list, y), z) = Put(below, Put(below, list, z), y)
<1>. DEFINE j == Slot(list, z.key)
            withY == Put(below, list, y)
            withZ == Put(below, list, z)
            newZ == Combine(below, list[j], z)
<1>1. j \in DOMAIN list /\ list[j] \in Nodes(lists, values) /\ list[j].key = z.key
  BY SlotIs, ListFacts
<1>2. newZ \in Nodes(lists, values) /\ newZ.key = list[j].key
  BY <1>1, CombineNode
<1>3. withZ = [list EXCEPT ![j] = newZ]
  BY DEF Put
<1>4. /\ withZ \in NextLists(lists, values) /\ Keys(withZ) = Keys(list)
      /\ \A k \in Keys(list) : Slot(withZ, k) = Slot(list, k)
  <2>. HIDE DEF j, withZ, newZ
  <2>1. Replaced(list, j, newZ, withZ)
    BY <1>3 DEF Replaced
  <2>. QED  BY <1>1, <1>2, <2>1, OldKey
<1>5. withY \in NextLists(lists, values) /\ z.key \in Keys(withY)
  BY PutIs
<1>6. Put(below, withY, z)
        = [withY EXCEPT ![Slot(withY, z.key)] = Combine(below, withY[Slot(withY, z.key)], z)]
  BY <1>5 DEF Put
<1>7. CASE y.key \in Keys(list)
  <2>. DEFINE i == Slot(list, y.key)
              newY == Combine(below, list[i], y)
  <2>1. i \in DOMAIN list /\ list[i] \in Nodes(lists, values) /\ list[i].key = y.key
    BY <1>7, SlotIs, ListFacts
  <2>2. newY \in Nodes(lists, values) /\ newY.key = list[i].key
    BY <2>1, CombineNode
  <2>3. withY = [list EXCEPT ![i] = newY]
    BY <1>7 DEF Put
  <2>4. i # j
    BY <1>1, <2>1
  <2>. HIDE DEF i, j, newY, newZ, withY, withZ
  <2>5. Slot(withY, z.key) = j
    <3>1. \A l \in Keys(list) : Slot(withY, l) = Slot(list, l)
      <4>1. Replaced(list, i, newY, withY)
        BY <2>3 DEF Replaced
      <4>. QED  BY <2>1, <2>2, <4>1, OldKey
    <3>. QED  BY <3>1 DEF j
  <2>6. withY[j] = list[j]
    BY <1>1, <2>1, <2>3, <2>4, ListFacts
  <2>7. Put(below, withY, z) = [withY EXCEPT ![j] = newZ]
    BY <1>6, <2>5, <2>6 DEF newZ
  <2>8. Put(below, withZ, y) = [withZ EXCEPT ![i] = Combine(below, withZ[i], y)]
    BY <1>4, <1>7 DEF Put, i
  <2>9. withZ[i] = list[i]
    BY <1>1, <1>3, <2>1, <2>4, ListFacts
  <2>10. Put(below, withZ, y) = [withZ EXCEPT ![i] = newY]
    BY <2>8, <2>9 DEF newY
  <2>11. [withY EXCEPT ![j] = newZ] = [withZ EXCEPT ![i] = newY]
    BY <1>1, <1>3, <2>1, <2>3, <2>4
  <2>. QED  BY <2>7, <2>10, <2>11 DEF withY, withZ
<1>8. CASE y.key \notin Keys(list)
  <2>1. withY = Append(list, y)
    BY <1>8 DEF Put
  <2>2. Slot(withY, z.key) = j
    <3>. HIDE DEF withY
    <3>. QED  BY <1>8, <2>1, NewKey
  <2>3. Put(below, withZ, y) = Append(withZ, y)
    <3>. HIDE DEF withZ
    <3>. QED  BY <1>4, <1>8 DEF Put
  <2>4. list \in Seq(Nodes(lists, values)) /\ j \in 1..Len(list)
    BY <1>1, ListFacts
  <2>. HIDE DEF j, newZ, withY, withZ
  <2>5. withY[j] = list[j]
    BY <2>1, <2>4
  <2>6. Put(below, withY, z) = [Append(list, y) EXCEPT ![j] = newZ]
    BY <1>6, <2>1, <2>2, <2>5 DEF newZ
  <2>7. [Append(list, y) EXCEPT ![j] = newZ] = Append([list EXCEPT ![j] = newZ], y)
    BY <1>2, <2>4, ExceptAppend
  <2>. QED  BY <1>3, <2>3, <2>6, <2>7 DEF withY, withZ
<1>. QED  BY <1>7, <1>8

-----------------------------------------------------------------------------
\* One list over another.

\* The values of the overlay loop.
LaidRun(below, base, overlay, f) ==
  /\ f[0] = base
  /\ \A i \in 1..Len(overlay) : f[i] = Put(below, f[i - 1], overlay[i])

\* Laid is a loop that puts one node after the other.
LEMMA LaidUnfold ==
  ASSUME NEW lists, NEW values, NEW below, Joins(lists, below),
         NEW base \in NextLists(lists, values), NEW overlay \in Seq(Nodes(lists, values))
  PROVE  \E f : /\ LaidRun(below, base, overlay, f)
                /\ \A i \in 0..Len(overlay) : f[i] \in NextLists(lists, values)
                /\ Laid(below, base, overlay) = f[Len(overlay)]
<1>. DEFINE D == NextLists(lists, values)
            E == Nodes(lists, values)
            g == [p \in D \X E |-> Put(below, p[1], p[2])]
            R(result) == result = [i \in 0..Len(overlay) |->
                           IF i = 0 THEN base ELSE Put(below, result[i - 1], overlay[i])]
<1>1. \A s \in D, c \in E : g[<<s, c>>] = Put(below, s, c)
  OBVIOUS
<1>2. g \in [D \X E -> D]
  <2>1. \A p \in D \X E : p[1] \in D /\ p[2] \in E
    OBVIOUS
  <2>2. \A s \in D, c \in E : Put(below, s, c) \in D
    BY PutIs
  <2>. HIDE DEF D, E
  <2>. QED  BY <2>1, <2>2
<1>. HIDE DEF g
<1>3. PICK f \in [0..Len(overlay) -> D] : Looping(f, base, g, overlay)
  <2>. HIDE DEF D
  <2>1. base \in D /\ overlay \in Seq(E)
    BY DEF D
  <2>. HIDE DEF E
  <2>. QED  BY <1>2, <2>1, LoopExists
<1>4. /\ Len(overlay) \in Nat
      /\ \A i \in 1..Len(overlay) : overlay[i] \in E /\ i - 1 \in 0..Len(overlay)
  OBVIOUS
<1>. HIDE DEF D, E
<1>5. LaidRun(below, base, overlay, f)
  BY <1>1, <1>3, <1>4 DEF Looping, LaidRun
<1>6. \A i \in 0..Len(overlay) : i = 0 \/ i \in 1..Len(overlay)
  BY <1>4
<1>7. R(f)
  <2>1. f = [i \in 0..Len(overlay) |-> f[i]]
    OBVIOUS
  <2>2. \A i \in 0..Len(overlay) :
          f[i] = IF i = 0 THEN base ELSE Put(below, f[i - 1], overlay[i])
    BY <1>4, <1>5, <1>6 DEF LaidRun
  <2>. QED  BY <2>1, <2>2
<1>8. PICK h : R(h) /\ Laid(below, base, overlay) = h[Len(overlay)]
  <2>. DEFINE h == CHOOSE result : R(result)
  <2>1. Laid(below, base, overlay) = h[Len(overlay)]
    BY DEF Laid
  <2>2. R(h)
    <3>. HIDE DEF R
    <3>. QED  BY <1>7
  <2>. HIDE DEF h
  <2>. QED  BY <2>1, <2>2
<1>9. InStep(f, h, Len(overlay))
  <2>1. \A i \in 0..Len(overlay) :
          h[i] = IF i = 0 THEN base ELSE Put(below, h[i - 1], overlay[i])
    BY <1>8
  <2>2. \A i \in 1..Len(overlay) : i \in 0..Len(overlay) /\ i # 0
    BY <1>4
  <2>3. 0 \in 0..Len(overlay)
    BY <1>4
  <2>. QED  BY <1>5, <2>1, <2>2, <2>3 DEF InStep, LaidRun
<1>10. f[Len(overlay)] = h[Len(overlay)]
  BY <1>4, <1>9, StepAgree
<1>. QED  BY <1>3, <1>5, <1>8, <1>10 DEF D

\* A list laid over another names no key twice.
LEMMA LaidType ==
  ASSUME NEW lists, NEW values, NEW below, Joins(lists, below),
         NEW base \in NextLists(lists, values), NEW overlay \in Seq(Nodes(lists, values))
  PROVE  Laid(below, base, overlay) \in NextLists(lists, values)
<1>1. Len(overlay) \in 0..Len(overlay)
  OBVIOUS
<1>. QED  BY <1>1, LaidUnfold

\* Nothing laid over a list leaves it.
LEMMA LaidNone ==
  ASSUME NEW lists, NEW values, NEW below, Joins(lists, below),
         NEW base \in NextLists(lists, values)
  PROVE  Laid(below, base, <<>>) = base
<1>. DEFINE none == <<>>
<1>1. none \in Seq(Nodes(lists, values)) /\ Len(none) = 0
  OBVIOUS
<1>. HIDE DEF none
<1>2. \E f : LaidRun(below, base, none, f) /\ Laid(below, base, none) = f[Len(none)]
  <2>1. none \in Seq(Nodes(lists, values))
    BY <1>1
  <2>. QED  BY <2>1, LaidUnfold
<1>3. PICK f : LaidRun(below, base, none, f) /\ Laid(below, base, none) = f[Len(none)]
  BY <1>2
<1>4. Laid(below, base, none) = base
  BY <1>1, <1>3 DEF LaidRun
<1>. QED  BY <1>4 DEF none

\* The last node of the overlay is put last.
LEMMA LaidOne ==
  ASSUME NEW lists, NEW values, NEW below, Joins(lists, below),
         NEW base \in NextLists(lists, values), NEW overlay \in Seq(Nodes(lists, values)),
         NEW node \in Nodes(lists, values)
  PROVE  Laid(below, base, Append(overlay, node)) = Put(below, Laid(below, base, overlay), node)
<1>. DEFINE more == Append(overlay, node)
            n == Len(overlay)
<1>1. /\ more \in Seq(Nodes(lists, values)) /\ n \in Nat /\ Len(more) = n + 1 /\ more[n + 1] = node
      /\ \A i \in 1..n : more[i] = overlay[i] /\ i \in 1..(n + 1)
  OBVIOUS
<1>2. PICK f : LaidRun(below, base, overlay, f) /\ Laid(below, base, overlay) = f[n]
  BY LaidUnfold
<1>7. n = Len(overlay)
  OBVIOUS
<1>. HIDE DEF more, n
<1>3. PICK h : LaidRun(below, base, more, h) /\ Laid(below, base, more) = h[n + 1]
  BY <1>1, LaidUnfold
<1>4. h[n] = f[n]
  <2>1. InStep(h, f, n)
    BY <1>1, <1>2, <1>3, <1>7 DEF InStep, LaidRun
  <2>2. n \in Nat
    BY <1>1
  <2>. QED  BY <2>1, <2>2, StepAgree
<1>5. n + 1 \in 1..Len(more) /\ (n + 1) - 1 = n
  BY <1>1
<1>6. h[n + 1] = Put(below, h[n], node)
  BY <1>1, <1>3, <1>5 DEF LaidRun
<1>. QED  BY <1>2, <1>3, <1>4, <1>6 DEF more

\* What is in a list but for its last node.
LEMMA ListFront ==
  ASSUME NEW lists, NEW values, NEW list \in Seq(Nodes(lists, values)),
         NEW node \in Nodes(lists, values),
         Append(list, node) \in NextLists(lists, values)
  PROVE  /\ list \in NextLists(lists, values) /\ node.key \notin Keys(list)
         /\ Keys(Append(list, node)) = Keys(list) \cup {node.key}
<1>. DEFINE more == Append(list, node)
            n == Len(list)
<1>1. /\ n \in Nat /\ DOMAIN more = 1..(n + 1) /\ DOMAIN list = 1..n
      /\ more[n + 1] = node /\ \A i \in 1..n : more[i] = list[i]
  OBVIOUS
<1>2. n + 1 \in 1..(n + 1) /\ \A i \in 1..n : i \in 1..(n + 1) /\ i # n + 1
  BY <1>1
<1>3. \A i, j \in 1..(n + 1) : more[i].key = more[j].key => i = j
  BY <1>1, ListFacts
<1>. HIDE DEF more, n
<1>4. \A i, j \in 1..n : list[i].key = list[j].key => i = j
  BY <1>1, <1>2, <1>3
<1>5. list \in NextLists(lists, values)
  BY <1>1, <1>4 DEF NextLists, KeysOnce
<1>6. node.key \notin Keys(list)
  BY <1>1, <1>2, <1>3 DEF Keys
<1>. QED  BY <1>5, <1>6, NewKey

\* Every key of the overlay is there after laying it.
LEMMA LaidKeys ==
  ASSUME NEW lists, NEW values, NEW below, Joins(lists, below),
         NEW base \in NextLists(lists, values), NEW overlay \in NextLists(lists, values)
  PROVE  Keys(overlay) \subseteq Keys(Laid(below, base, overlay))
<1>. DEFINE N == Nodes(lists, values)
            S == {s \in Seq(N) : s \in NextLists(lists, values) =>
                    Keys(s) \subseteq Keys(Laid(below, base, s))}
<1>1. <<>> \in S
  BY DEF Keys
<1>2. ASSUME NEW s \in Seq(N), NEW c \in N, s \in S PROVE Append(s, c) \in S
  <2>1. Append(s, c) \in Seq(N)
    OBVIOUS
  <2>2. SUFFICES ASSUME Append(s, c) \in NextLists(lists, values)
                 PROVE  Keys(Append(s, c)) \subseteq Keys(Laid(below, base, Append(s, c)))
    BY <2>1
  <2>3. s \in NextLists(lists, values) /\ Keys(Append(s, c)) = Keys(s) \cup {c.key}
    BY <2>2, ListFront
  <2>4. Laid(below, base, Append(s, c)) = Put(below, Laid(below, base, s), c)
    BY LaidOne
  <2>5. Laid(below, base, s) \in NextLists(lists, values)
    BY LaidType
  <2>6. Keys(Put(below, Laid(below, base, s), c)) = Keys(Laid(below, base, s)) \cup {c.key}
    BY <2>5, PutIs
  <2>. QED  BY <1>2, <2>3, <2>4, <2>6
<1>3. Seq(N) \subseteq S
  <2>. HIDE DEF S, N
  <2>. QED  BY <1>1, <1>2, SeqInduct
<1>4. overlay \in Seq(N)
  BY ListFacts
<1>. QED  BY <1>3, <1>4

\* A node put on the overlay before it is laid, or on what it was laid over after.
LEMMA LaidPut ==
  ASSUME NEW lists, NEW values, NEW below, Joins(lists, below),
         NEW base \in NextLists(lists, values), NEW overlay \in NextLists(lists, values),
         NEW node \in Nodes(lists, values)
  PROVE  Laid(below, base, Put(below, overlay, node))
           = Put(below, Laid(below, base, overlay), node)
<1>. DEFINE N == Nodes(lists, values)
            S == {s \in Seq(N) : s \in NextLists(lists, values) =>
                    Laid(below, base, Put(below, s, node))
                      = Put(below, Laid(below, base, s), node)}
<1>0. ASSUME NEW s \in NextLists(lists, values), node.key \notin Keys(s)
      PROVE  Laid(below, base, Put(below, s, node)) = Put(below, Laid(below, base, s), node)
  <2>1. Put(below, s, node) = Append(s, node) /\ s \in Seq(N)
    BY <1>0, ListFacts DEF Put
  <2>. QED  BY <2>1, LaidOne
<1>1. <<>> \in S
  <2>1. <<>> \in Seq(N) /\ node.key \notin Keys(<<>>)
    BY DEF Keys
  <2>. QED  BY <1>0, <2>1
<1>2. ASSUME NEW s \in Seq(N), NEW c \in N, s \in S PROVE Append(s, c) \in S
  <2>1. Append(s, c) \in Seq(N)
    OBVIOUS
  <2>2. SUFFICES ASSUME Append(s, c) \in NextLists(lists, values), node.key \in Keys(Append(s, c))
                 PROVE  Laid(below, base, Put(below, Append(s, c), node))
                          = Put(below, Laid(below, base, Append(s, c)), node)
    BY <1>0, <2>1
  <2>3. /\ s \in NextLists(lists, values) /\ c.key \notin Keys(s)
        /\ Keys(Append(s, c)) = Keys(s) \cup {c.key}
    BY <2>2, ListFront
  <2>4. Append(s, c) = Put(below, s, c)
    BY <2>3 DEF Put
  <2>5. Laid(below, base, s) \in NextLists(lists, values)
    BY LaidType
  <2>6. Laid(below, base, Append(s, c)) = Put(below, Laid(below, base, s), c)
    BY LaidOne
  <2>7. CASE node.key = c.key
    <3>. DEFINE cn == Combine(below, c, node)
    <3>1. cn \in N /\ cn.key = c.key
      BY <2>7, CombineNode
    <3>2. Put(below, Append(s, c), node) = Put(below, s, cn)
      BY <2>3, <2>4, <2>7, PutTwice
    <3>3. Put(below, s, cn) = Append(s, cn)
      <4>. HIDE DEF cn
      <4>. QED  BY <2>3, <3>1 DEF Put
    <3>4. Laid(below, base, Append(s, cn)) = Put(below, Laid(below, base, s), cn)
      <4>. HIDE DEF cn
      <4>. QED  BY <3>1, LaidOne
    <3>5. Put(below, Put(below, Laid(below, base, s), c), node)
            = Put(below, Laid(below, base, s), cn)
      BY <2>5, <2>7, PutTwice
    <3>. QED  BY <2>6, <3>2, <3>3, <3>4, <3>5
  <2>8. CASE node.key # c.key
    <3>1. node.key \in Keys(s)
      BY <2>2, <2>3, <2>8
    <3>2. Put(below, Append(s, c), node) = Put(below, Put(below, s, node), c)
      BY <2>3, <2>4, <2>8, <3>1, PutCommutes
    <3>3. /\ Put(below, s, node) \in NextLists(lists, values) /\ Put(below, s, node) \in Seq(N)
          /\ c.key \notin Keys(Put(below, s, node))
      <4>1. /\ Put(below, s, node) \in NextLists(lists, values)
            /\ Keys(Put(below, s, node)) = Keys(s) \cup {node.key}
        BY <2>3, PutIs
      <4>. QED  BY <2>3, <2>8, <4>1, ListFacts
    <3>4. Put(below, Put(below, s, node), c) = Append(Put(below, s, node), c)
      BY <3>3 DEF Put
    <3>5. Laid(below, base, Append(Put(below, s, node), c))
            = Put(below, Laid(below, base, Put(below, s, node)), c)
      BY <3>3, LaidOne
    <3>6. Laid(below, base, Put(below, s, node)) = Put(below, Laid(below, base, s), node)
      BY <1>2, <2>3
    <3>7. node.key \in Keys(Laid(below, base, s))
      BY <2>3, <3>1, LaidKeys
    <3>8. Put(below, Put(below, Laid(below, base, s), c), node)
            = Put(below, Put(below, Laid(below, base, s), node), c)
      BY <2>5, <2>8, <3>7, PutCommutes
    <3>. QED  BY <2>6, <3>2, <3>4, <3>5, <3>6, <3>8
  <2>. QED  BY <2>7, <2>8
<1>3. Seq(N) \subseteq S
  <2>. HIDE DEF S, N
  <2>. QED  BY <1>1, <1>2, SeqInduct
<1>4. overlay \in Seq(N)
  BY ListFacts
<1>. QED  BY <1>3, <1>4

\* Laying two lists one after the other is laying the one the second makes of
\* the first; the second need not name its keys once.
LEMMA LaidAssociative ==
  ASSUME NEW lists, NEW values, NEW below, Joins(lists, below),
         NEW x \in NextLists(lists, values), NEW y \in NextLists(lists, values),
         NEW z \in Seq(Nodes(lists, values))
  PROVE  Laid(below, Laid(below, x, y), z) = Laid(below, x, Laid(below, y, z))
<1>. DEFINE N == Nodes(lists, values)
            S == {s \in Seq(N) :
                    Laid(below, Laid(below, x, y), s) = Laid(below, x, Laid(below, y, s))}
<1>1. y \in Seq(N) /\ Laid(below, x, y) \in NextLists(lists, values)
  BY ListFacts, LaidType
<1>2. <<>> \in S
  <2>1. <<>> \in Seq(N)
    OBVIOUS
  <2>. QED  BY <1>1, <2>1, LaidNone
<1>3. ASSUME NEW s \in Seq(N), NEW c \in N, s \in S PROVE Append(s, c) \in S
  <2>1. Append(s, c) \in Seq(N) /\ Laid(below, y, s) \in NextLists(lists, values)
    BY LaidType
  <2>2. Laid(below, y, Append(s, c)) = Put(below, Laid(below, y, s), c)
    BY LaidOne
  <2>3. Laid(below, x, Put(below, Laid(below, y, s), c))
          = Put(below, Laid(below, x, Laid(below, y, s)), c)
    BY <2>1, LaidPut
  <2>4. Laid(below, Laid(below, x, y), Append(s, c))
          = Put(below, Laid(below, Laid(below, x, y), s), c)
    BY <1>1, LaidOne
  <2>. QED  BY <1>3, <2>1, <2>2, <2>3, <2>4
<1>4. Seq(N) \subseteq S
  <2>. HIDE DEF S, N
  <2>. QED  BY <1>2, <1>3, SeqInduct
<1>. QED  BY <1>4

\* A list laid over nothing is itself.
LEMMA LaidOverNone ==
  ASSUME NEW lists, NEW values, NEW below, Joins(lists, below),
         NEW list \in NextLists(lists, values)
  PROVE  Laid(below, <<>>, list) = list
<1>. DEFINE N == Nodes(lists, values)
            S == {s \in Seq(N) : s \in NextLists(lists, values) => Laid(below, <<>>, s) = s}
<1>1. <<>> \in NextLists(lists, values)
  BY DEF NextLists, KeysOnce
<1>2. <<>> \in S
  BY <1>1, LaidNone
<1>3. ASSUME NEW s \in Seq(N), NEW c \in N, s \in S PROVE Append(s, c) \in S
  <2>1. Append(s, c) \in Seq(N)
    OBVIOUS
  <2>2. SUFFICES ASSUME Append(s, c) \in NextLists(lists, values)
                 PROVE  Laid(below, <<>>, Append(s, c)) = Append(s, c)
    BY <2>1
  <2>3. s \in NextLists(lists, values) /\ c.key \notin Keys(s)
    BY <2>2, ListFront
  <2>4. Laid(below, <<>>, Append(s, c)) = Put(below, s, c)
    BY <1>1, <1>3, <2>3, LaidOne
  <2>. QED  BY <2>3, <2>4 DEF Put
<1>4. Seq(N) \subseteq S
  <2>. HIDE DEF S, N
  <2>. QED  BY <1>2, <1>3, SeqInduct
<1>5. list \in Seq(N)
  BY ListFacts
<1>. QED  BY <1>4, <1>5

-----------------------------------------------------------------------------
\* What merging is charged.

\* What merging takes where nothing nests, and where it is known of a depth below.
FirstWorking == [pair \in Lists(0) \X Lists(0) |-> 0]

NextWorking(n, below) ==
  [pair \in Lists(n) \X Lists(n) |-> Slots(below, pair[1], pair[2])]

\* f says what working takes, to a depth.
WorkingUpTo(n, f) ==
  f[0] = FirstWorking /\ \A i \in 1..n : f[i] = NextWorking(i, f[i - 1])

\* To every depth there is such a function.
LEMMA WorkingExists ==
  ASSUME NEW n \in Nat
  PROVE  \E f : WorkingUpTo(n, f)
<1>. DEFINE S == {m \in Nat : \E f : WorkingUpTo(m, f)}
<1>1. 0 \in S
  <2>1. WorkingUpTo(0, [i \in 0..0 |-> FirstWorking])
    BY DEF WorkingUpTo
  <2>. QED  BY <2>1
<1>2. ASSUME NEW m \in Nat, m \in S PROVE m + 1 \in S
  <2>1. PICK f : WorkingUpTo(m, f)
    BY <1>2
  <2>. DEFINE h == [i \in 0..(m + 1) |-> IF i = m + 1 THEN NextWorking(m + 1, f[m]) ELSE f[i]]
  <2>2. /\ h[0] = f[0] /\ h[m + 1] = NextWorking(m + 1, f[m]) /\ h[m] = f[m]
        /\ \A i \in 1..m : h[i] = f[i] /\ h[i - 1] = f[i - 1]
    OBVIOUS
  <2>3. f[0] = FirstWorking /\ \A i \in 1..m : f[i] = NextWorking(i, f[i - 1])
    BY <2>1 DEF WorkingUpTo
  <2>. HIDE DEF h
  <2>4. \A i \in 1..(m + 1) : h[i] = NextWorking(i, h[i - 1])
    <3>1. \A i \in 1..(m + 1) : i \in 1..m \/ i = m + 1
      OBVIOUS
    <3>2. (m + 1) - 1 = m
      OBVIOUS
    <3>. QED  BY <2>2, <2>3, <3>1, <3>2
  <2>5. WorkingUpTo(m + 1, h)
    BY <2>2, <2>3, <2>4 DEF WorkingUpTo
  <2>. QED  BY <2>5
<1>3. Nat \subseteq S
  <2>. HIDE DEF S
  <2>. QED  BY <1>1, <1>2, Induct
<1>. QED  BY <1>3

\* What working takes at a depth is counted with what it takes at the depth below.
LEMMA WorkingUnfold ==
  /\ working[0] = FirstWorking
  /\ \A n \in Nat : working[n + 1] = NextWorking(n + 1, working[n])
<1>. DEFINE upTo == [n \in Nat |-> CHOOSE f : WorkingUpTo(n, f)]
            F == [n \in Nat |-> upTo[n][n]]
            R(f) == f = [n \in Nat |->
                          [pair \in Lists(n) \X Lists(n) |->
                             IF n = 0 THEN 0 ELSE Slots(f[n - 1], pair[1], pair[2])]]
<1>1. \A n \in Nat : WorkingUpTo(n, upTo[n])
  BY WorkingExists
<1>. HIDE DEF upTo
<1>2. \A n \in Nat : /\ upTo[n][0] = FirstWorking
                     /\ \A i \in 1..n : upTo[n][i] = NextWorking(i, upTo[n][i - 1])
  BY <1>1 DEF WorkingUpTo
<1>3. ASSUME NEW n \in Nat PROVE upTo[n + 1][n] = upTo[n][n]
  <2>1. ASSUME NEW f, NEW h, WorkingUpTo(n + 1, f), WorkingUpTo(n, h) PROVE f[n] = h[n]
    <3>1. InStep(f, h, n)
      <4>1. \A i \in 1..n : i \in 1..(n + 1)
        OBVIOUS
      <4>. QED  BY <2>1, <4>1 DEF InStep, WorkingUpTo
    <3>. QED  BY <3>1, StepAgree
  <2>2. n + 1 \in Nat
    OBVIOUS
  <2>. QED  BY <1>1, <2>1, <2>2
<1>4. F[0] = FirstWorking
  BY <1>2
<1>5. ASSUME NEW n \in Nat PROVE F[n + 1] = NextWorking(n + 1, F[n])
  <2>1. n + 1 \in Nat /\ n + 1 \in 1..(n + 1) /\ (n + 1) - 1 = n
    OBVIOUS
  <2>2. upTo[n + 1][n + 1] = NextWorking(n + 1, upTo[n + 1][n])
    BY <1>2, <2>1
  <2>. QED  BY <1>3, <2>1, <2>2
<1>6. F = [n \in Nat |-> F[n]]
  OBVIOUS
<1>. HIDE DEF F
<1>7. \A n \in Nat : F[n] = IF n = 0 THEN FirstWorking ELSE NextWorking(n, F[n - 1])
  <2>1. \A n \in Nat : n = 0 \/ (n - 1 \in Nat /\ (n - 1) + 1 = n)
    OBVIOUS
  <2>. QED  BY <1>4, <1>5, <2>1
<1>8. R(F)
  <2>1. ASSUME NEW n \in Nat
        PROVE  F[n] =
             [pair \in Lists(n) \X Lists(n) |->
                IF n = 0 THEN 0 ELSE Slots(F[n - 1], pair[1], pair[2])]
    <3>1. CASE n = 0
      BY <1>7, <3>1 DEF FirstWorking
    <3>2. CASE n # 0
      BY <1>7, <3>2 DEF NextWorking
    <3>. QED  BY <3>1, <3>2
  <2>. QED  BY <1>6, <2>1
<1>9. R(working)
  <2>1. working = CHOOSE f : R(f)
    BY DEF working
  <2>. HIDE DEF R
  <2>. QED  BY <1>8, <2>1
<1>10. \A n \in Nat : working[n] = IF n = 0 THEN FirstWorking ELSE NextWorking(n, working[n - 1])
  BY <1>9 DEF FirstWorking, NextWorking
<1>11. \A n \in Nat : n + 1 \in Nat /\ n + 1 # 0 /\ (n + 1) - 1 = n
  OBVIOUS
<1>. HIDE DEF R
<1>. QED  BY <1>10, <1>11

\* A sum of numbers is a number.
LEMMA TotalType ==
  ASSUME NEW amounts \in Seq(Nat)
  PROVE  Total(amounts) \in Nat
<1>. DEFINE n == Len(amounts)
            zero == 0
            g == [p \in Nat \X Nat |-> p[1] + p[2]]
            R(upTo) == upTo = [i \in 0..Len(amounts) |->
                         IF i = 0 THEN 0 ELSE upTo[i - 1] + amounts[i]]
<1>1. g \in [Nat \X Nat -> Nat] /\ \A a, b \in Nat : g[<<a, b>>] = a + b
  OBVIOUS
<1>2. n \in Nat /\ n = Len(amounts) /\ zero \in Nat /\ \A i \in 1..n : amounts[i] \in Nat
  OBVIOUS
<1>. HIDE DEF g, n, zero
<1>3. PICK f \in [0..n -> Nat] : Looping(f, zero, g, amounts)
  BY <1>1, <1>2, LoopExists
<1>4. \A i \in 1..n : i - 1 \in 0..n /\ i \in 0..n /\ i # 0
  BY <1>2
<1>5. f[0] = zero /\ \A i \in 1..n : f[i] = f[i - 1] + amounts[i]
  BY <1>1, <1>2, <1>3, <1>4 DEF Looping
<1>6. R(f)
  <2>1. f = [i \in 0..Len(amounts) |-> f[i]]
    BY <1>2
  <2>2. \A i \in 0..n : i = 0 \/ i \in 1..n
    BY <1>2
  <2>3. \A i \in 0..Len(amounts) : f[i] = IF i = 0 THEN 0 ELSE f[i - 1] + amounts[i]
    BY <1>2, <1>5, <2>2 DEF zero
  <2>. QED  BY <2>1, <2>3
<1>7. PICK h : R(h) /\ Total(amounts) = h[Len(amounts)]
  <2>. DEFINE h == CHOOSE upTo : R(upTo)
  <2>1. Total(amounts) = h[Len(amounts)]
    BY DEF Total
  <2>2. R(h)
    <3>. HIDE DEF R
    <3>. QED  BY <1>6
  <2>. HIDE DEF h
  <2>. QED  BY <2>1, <2>2
<1>8. InStep(f, h, n)
  <2>1. \A i \in 0..n : h[i] = IF i = 0 THEN zero ELSE h[i - 1] + amounts[i]
    BY <1>2, <1>7 DEF zero
  <2>2. 0 \in 0..n
    BY <1>2
  <2>. QED  BY <1>4, <1>5, <2>1, <2>2 DEF InStep
<1>9. f[n] = h[n]
  BY <1>2, <1>8, StepAgree
<1>10. n \in 0..n
  BY <1>2
<1>. QED  BY <1>2, <1>3, <1>7, <1>9, <1>10

\* What two lists take is a number, when what those below them take is.
LEMMA SlotsType ==
  ASSUME NEW lists, NEW values, NEW base \in Seq(Nodes(lists, values)),
         NEW overlay \in Seq(Nodes(lists, values)),
         NEW below, \A x, y \in lists : below[<<x, y>>] \in Nat
  PROVE  Slots(below, base, overlay) \in Nat
<1>. DEFINE amount(i) == LET new == overlay[i] IN
               IF new.key \in Keys(base) /\ Merges(base[Slot(base, new.key)], new)
               THEN below[<<base[Slot(base, new.key)].children, new.children>>]
               ELSE 0
            amounts == [i \in DOMAIN overlay |-> amount(i)]
<1>1. ASSUME NEW i \in DOMAIN overlay PROVE amount(i) \in Nat
  <2>1. overlay[i] \in Nodes(lists, values) /\ overlay[i].children \in lists
    BY NodeFields
  <2>2. CASE overlay[i].key \in Keys(base)
    <3>. DEFINE at == Slot(base, overlay[i].key)
    <3>1. PICK j \in DOMAIN base : base[j].key = overlay[i].key
      BY <2>2 DEF Keys
    <3>2. at \in DOMAIN base
      BY <3>1 DEF Slot
    <3>. HIDE DEF at
    <3>3. base[at] \in Nodes(lists, values) /\ base[at].children \in lists
      BY <3>2, NodeFields
    <3>4. below[<<base[at].children, overlay[i].children>>] \in Nat
      BY <2>1, <3>3
    <3>. QED  BY <3>4 DEF at
  <2>. QED  BY <2>2
<1>2. amounts \in Seq(Nat)
  <2>1. DOMAIN overlay = 1..Len(overlay) /\ Len(overlay) \in Nat
    OBVIOUS
  <2>. HIDE DEF amount
  <2>. QED  BY <1>1, <2>1
<1>3. Total(amounts) \in Nat
  <2>. HIDE DEF amounts
  <2>. QED  BY <1>2, TotalType
<1>4. Len(base) \in Nat /\ Len(overlay) \in Nat
  OBVIOUS
<1>5. Slots(below, base, overlay) = Len(base) + Len(overlay) + Total(amounts)
  BY DEF Slots
<1>. HIDE DEF amounts
<1>. QED  BY <1>3, <1>4, <1>5

\* At every depth merging takes a number.
LEMMA EveryDepthWorks ==
  \A n \in Nat : \A x, y \in Lists(n) : working[n][<<x, y>>] \in Nat
<1>. DEFINE P(n) == \A x, y \in Lists(n) : working[n][<<x, y>>] \in Nat
            S == {n \in Nat : P(n)}
<1>1. 0 \in S
  BY WorkingUnfold DEF FirstWorking
<1>2. ASSUME NEW n \in Nat, n \in S PROVE n + 1 \in S
  <2>. DEFINE more == n + 1
              below == working[n]
  <2>1. Lists(more) = NextLists(Lists(n), Values(n)) /\ working[more] = NextWorking(more, below)
    BY ListsUnfold, WorkingUnfold
  <2>2. \A x, y \in Lists(n) : below[<<x, y>>] \in Nat
    BY <1>2
  <2>3. more \in Nat
    OBVIOUS
  <2>. HIDE DEF more, below
  <2>4. ASSUME NEW x \in Lists(more), NEW y \in Lists(more)
        PROVE  working[more][<<x, y>>] \in Nat
    <3>1. working[more][<<x, y>>] = Slots(below, x, y)
      BY <2>1 DEF NextWorking
    <3>2. x \in Seq(Nodes(Lists(n), Values(n))) /\ y \in Seq(Nodes(Lists(n), Values(n)))
      BY <2>1 DEF NextLists
    <3>. QED  BY <2>2, <3>1, <3>2, SlotsType
  <2>5. P(more)
    BY <2>4
  <2>6. more \in S
    <3>. HIDE DEF P
    <3>. QED  BY <2>3, <2>5
  <2>. QED  BY <2>6 DEF more
<1>3. Nat \subseteq S
  <2>. HIDE DEF S
  <2>. QED  BY <1>1, <1>2, Induct
<1>4. \A n \in Nat : P(n)
  <2>. HIDE DEF P
  <2>. QED  BY <1>3
<1>. QED  BY <1>4

-----------------------------------------------------------------------------
\* Every depth, and the theorems of the algebra.

\* At every depth merging gives lists, and is associative.
LEMMA EveryDepthJoins ==
  \A n \in Nat : Joins(Lists(n), merging[n])
<1>. DEFINE S == {n \in Nat : Joins(Lists(n), merging[n])}
<1>1. 0 \in S
  <2>1. Lists(0) = {<<>>} /\ Written(0) = {<<>>}
    BY ListsUnfold DEF Written
  <2>2. merging[0][<<<<>>, <<>>>>] = <<>>
    BY <2>1, MergingUnfold DEF FirstMerging
  <2>. QED  BY <2>1, <2>2 DEF Joins
<1>2. ASSUME NEW n \in Nat, n \in S PROVE n + 1 \in S
  <2>. DEFINE L == Lists(n + 1)
              m == merging[n + 1]
              below == merging[n]
  <2>1. /\ L = NextLists(Lists(n), Values(n)) /\ Joins(Lists(n), below)
        /\ Written(n + 1) = Seq(Nodes(Lists(n), Values(n))) /\ L \subseteq Written(n + 1)
    BY <1>2, ListsUnfold DEF Written, NextLists
  <2>2. m = NextMerging(n + 1, below)
    BY MergingUnfold
  <2>. HIDE DEF L, m, below
  <2>3. \A x, y \in L : m[<<x, y>>] = Laid(below, x, y)
    BY <2>1, <2>2 DEF NextMerging, L
  <2>4. \A x, y \in L : Laid(below, x, y) \in L
    BY <2>1, LaidType
  <2>5. \A x, y, z \in L : Laid(below, Laid(below, x, y), z) = Laid(below, x, Laid(below, y, z))
    BY <2>1, LaidAssociative
  <2>6. Joins(L, m)
    <3>1. \A x, y \in L : m[<<x, y>>] \in L
      BY <2>3, <2>4
    <3>2. ASSUME NEW x \in L, NEW y \in L, NEW z \in L
          PROVE  m[<<m[<<x, y>>], z>>] = m[<<x, m[<<y, z>>]>>]
      <4>1. m[<<x, y>>] = Laid(below, x, y) /\ m[<<y, z>>] = Laid(below, y, z)
        BY <2>3
      <4>2. m[<<m[<<x, y>>], z>>] = Laid(below, m[<<x, y>>], z)
        BY <2>3, <3>1
      <4>3. m[<<x, m[<<y, z>>]>>] = Laid(below, x, m[<<y, z>>])
        BY <2>3, <3>1
      <4>. QED  BY <2>5, <4>1, <4>2, <4>3
    <3>. QED  BY <3>1, <3>2, Zenon DEF Joins
  <2>. QED  BY <2>6 DEF L, m
<1>3. Nat \subseteq S
  <2>. HIDE DEF S
  <2>. QED  BY <1>1, <1>2, Induct
<1>. QED  BY <1>3

\* Above the lowest depth, merging is laying.
LEMMA MergingIsLaying ==
  ASSUME NEW n \in Nat
  PROVE  /\ Lists(n + 1) = NextLists(Lists(n), Values(n))
         /\ Written(n + 1) = Seq(Nodes(Lists(n), Values(n)))
         /\ Joins(Lists(n), merging[n]) /\ Lists(n + 1) \subseteq Written(n + 1)
         /\ \A x \in Lists(n + 1), y \in Written(n + 1) :
              merging[n + 1][<<x, y>>] = Laid(merging[n], x, y)
<1>1. /\ Lists(n + 1) = NextLists(Lists(n), Values(n))
      /\ Written(n + 1) = Seq(Nodes(Lists(n), Values(n)))
      /\ Joins(Lists(n), merging[n]) /\ Lists(n + 1) \subseteq Written(n + 1)
  <2>1. n + 1 \in Nat \ {0} /\ (n + 1) - 1 = n /\ n + 1 # 0
    OBVIOUS
  <2>2. Lists(n + 1) = NextLists(Lists(n), Values(n))
    BY <2>1, ListsUnfold
  <2>3. Written(n + 1) = Seq(Nodes(Lists(n), Values(n)))
    BY <2>1, Zenon DEF Written
  <2>4. Joins(Lists(n), merging[n])
    BY EveryDepthJoins, Zenon
  <2>5. Lists(n + 1) \subseteq Written(n + 1)
    BY <2>2, <2>3, Zenon DEF NextLists
  <2>. QED  BY <2>2, <2>3, <2>4, <2>5
<1>2. merging[n + 1] = NextMerging(n + 1, merging[n])
  BY MergingUnfold
<1>. QED  BY <1>1, <1>2 DEF NextMerging

\* Blocks do not nest, or they nest one less deep below.
LEMMA NestingCases == Nesting = 0 \/ \E n \in Nat : Nesting = n + 1
<1>1. Nesting = 0 \/ (Nesting - 1 \in Nat /\ Nesting = (Nesting - 1) + 1)
  BY NestingAssumption
<1>. QED  BY <1>1

\* Where blocks do not nest there is but the empty list.
LEMMA OverlaysOfNone ==
  ASSUME Nesting = 0
  PROVE  Overlays = {<<>>} /\ Written(Nesting) = {<<>>} /\ MergeNodes(<<>>, <<>>) = <<>>
BY ListsUnfold, MergingUnfold DEF Overlays, Written, MergeNodes, FirstMerging

\* Overlays compose: composing gives an overlay whose keys are there once, it is
\* associative, the empty overlay adds nothing, above or below, and what it is charged
\* is a number.  For overlays of any nesting, any keys, any values and any comments,
\* this is what the resolver (OverlayAssumption and LayeringAssumption of module
\* Resolver) needs of merge_nodes to cache a composed import.
THEOREM OverlaysCompose ==
  /\ <<>> \in Overlays
  /\ \A x, y \in Overlays : MergeNodes(x, y) \in Overlays
  /\ \A x, y, z \in Overlays :
       MergeNodes(MergeNodes(x, y), z) = MergeNodes(x, MergeNodes(y, z))
  /\ \A x \in Overlays : MergeNodes(x, <<>>) = x /\ MergeNodes(<<>>, x) = x
  /\ \A x, y \in Overlays : MergeNodesWork(x, y) \in Nat
<1>1. Joins(Overlays, merging[Nesting])
  BY EveryDepthJoins, NestingAssumption DEF Overlays
<1>2. /\ \A x, y \in Overlays : MergeNodes(x, y) \in Overlays
      /\ \A x, y, z \in Overlays :
           MergeNodes(MergeNodes(x, y), z) = MergeNodes(x, MergeNodes(y, z))
  BY <1>1 DEF Joins, MergeNodes
<1>3. /\ <<>> \in Overlays
      /\ \A x \in Overlays : MergeNodes(x, <<>>) = x /\ MergeNodes(<<>>, x) = x
  <2>1. CASE Nesting = 0
    BY <2>1, OverlaysOfNone
  <2>2. ASSUME NEW n \in Nat, Nesting = n + 1
        PROVE  /\ <<>> \in Overlays
               /\ \A x \in Overlays : MergeNodes(x, <<>>) = x /\ MergeNodes(<<>>, x) = x
    <3>1. /\ Overlays = NextLists(Lists(n), Values(n)) /\ Joins(Lists(n), merging[n])
          /\ Overlays \subseteq Written(Nesting)
          /\ \A x \in Overlays, y \in Written(Nesting) : MergeNodes(x, y) = Laid(merging[n], x, y)
      BY <2>2, MergingIsLaying DEF Overlays, MergeNodes
    <3>2. <<>> \in Overlays
      BY <3>1 DEF NextLists, KeysOnce
    <3>3. \A x \in Overlays : Laid(merging[n], x, <<>>) = x /\ Laid(merging[n], <<>>, x) = x
      BY <3>1, LaidNone, LaidOverNone
    <3>. QED  BY <3>1, <3>2, <3>3
  <2>. QED  BY <2>1, <2>2, NestingCases
<1>4. \A x, y \in Overlays : MergeNodesWork(x, y) \in Nat
  BY EveryDepthWorks, NestingAssumption DEF Overlays, MergeNodesWork
<1>. QED  BY <1>2, <1>3, <1>4

\* A file that repeats keys may have them folded when it is parsed (parser.rs calls
\* merge_nodes on what it read), or be laid over its imports as it was written: the
\* composed overlay is the same.
THEOREM RepeatsFold ==
  \A x \in Overlays, w \in Written(Nesting) :
    /\ MergeNodes(<<>>, w) \in Overlays
    /\ MergeNodes(x, MergeNodes(<<>>, w)) = MergeNodes(x, w)
<1>1. CASE Nesting = 0
  BY <1>1, OverlaysOfNone
<1>2. ASSUME NEW n \in Nat, Nesting = n + 1, NEW x \in Overlays, NEW w \in Written(Nesting)
      PROVE  /\ MergeNodes(<<>>, w) \in Overlays
             /\ MergeNodes(x, MergeNodes(<<>>, w)) = MergeNodes(x, w)
  <2>1. /\ Overlays = NextLists(Lists(n), Values(n)) /\ Joins(Lists(n), merging[n])
        /\ Overlays \subseteq Written(Nesting)
        /\ Written(Nesting) = Seq(Nodes(Lists(n), Values(n)))
        /\ \A u \in Overlays, v \in Written(Nesting) : MergeNodes(u, v) = Laid(merging[n], u, v)
    BY <1>2, MergingIsLaying DEF Overlays, MergeNodes
  <2>2. <<>> \in Overlays
    BY OverlaysCompose
  <2>3. Laid(merging[n], <<>>, w) \in Overlays
    BY <2>1, <2>2, LaidType
  <2>4. Laid(merging[n], Laid(merging[n], x, <<>>), w)
          = Laid(merging[n], x, Laid(merging[n], <<>>, w))
    BY <2>1, <2>2, LaidAssociative
  <2>5. Laid(merging[n], x, <<>>) = x
    BY <2>1, LaidNone
  <2>. QED  BY <2>1, <2>2, <2>3, <2>4, <2>5
<1>. QED  BY <1>1, <1>2, NestingCases

-----------------------------------------------------------------------------
\* Layers.

\* The values of layering.
LayeredRun(run, f) ==
  /\ f[0] = <<>>
  /\ \A i \in 1..Len(run) : f[i] = MergeNodes(f[i - 1], run[i])

\* Layered is a loop that merges one document after the other.
LEMMA LayeredUnfold ==
  ASSUME NEW run \in Seq(Overlays)
  PROVE  \E f : /\ LayeredRun(run, f)
                /\ \A i \in 0..Len(run) : f[i] \in Overlays
                /\ Layered(run) = f[Len(run)]
<1>. DEFINE g == [p \in Overlays \X Overlays |-> MergeNodes(p[1], p[2])]
            R(upTo) == upTo = [i \in 0..Len(run) |->
                         IF i = 0 THEN <<>> ELSE MergeNodes(upTo[i - 1], run[i])]
<1>1. \A s \in Overlays, c \in Overlays : g[<<s, c>>] = MergeNodes(s, c)
  OBVIOUS
<1>2. g \in [Overlays \X Overlays -> Overlays]
  <2>1. \A p \in Overlays \X Overlays : p[1] \in Overlays /\ p[2] \in Overlays
    OBVIOUS
  <2>. QED  BY <2>1, OverlaysCompose
<1>. HIDE DEF g
<1>3. PICK f \in [0..Len(run) -> Overlays] : Looping(f, <<>>, g, run)
  <2>. DEFINE none == <<>>
  <2>1. none \in Overlays
    BY OverlaysCompose
  <2>. HIDE DEF none
  <2>2. \E f \in [0..Len(run) -> Overlays] : Looping(f, none, g, run)
    BY <1>2, <2>1, LoopExists
  <2>. QED  BY <2>2 DEF none
<1>4. Len(run) \in Nat /\ \A i \in 1..Len(run) : run[i] \in Overlays /\ i - 1 \in 0..Len(run)
  OBVIOUS
<1>5. LayeredRun(run, f)
  BY <1>1, <1>3, <1>4 DEF Looping, LayeredRun
<1>6. \A i \in 0..Len(run) : i = 0 \/ i \in 1..Len(run)
  BY <1>4
<1>7. R(f)
  <2>1. f = [i \in 0..Len(run) |-> f[i]]
    OBVIOUS
  <2>2. \A i \in 0..Len(run) : f[i] = IF i = 0 THEN <<>> ELSE MergeNodes(f[i - 1], run[i])
    BY <1>4, <1>5, <1>6 DEF LayeredRun
  <2>. QED  BY <2>1, <2>2
<1>8. PICK h : R(h) /\ Layered(run) = h[Len(run)]
  <2>. DEFINE h == CHOOSE upTo : R(upTo)
  <2>1. Layered(run) = h[Len(run)]
    BY DEF Layered
  <2>2. R(h)
    <3>. HIDE DEF R
    <3>. QED  BY <1>7
  <2>. HIDE DEF h
  <2>. QED  BY <2>1, <2>2
<1>9. InStep(f, h, Len(run))
  <2>1. \A i \in 0..Len(run) : h[i] = IF i = 0 THEN <<>> ELSE MergeNodes(h[i - 1], run[i])
    BY <1>8
  <2>2. \A i \in 1..Len(run) : i \in 0..Len(run) /\ i # 0
    BY <1>4
  <2>3. 0 \in 0..Len(run)
    BY <1>4
  <2>. QED  BY <1>5, <2>1, <2>2, <2>3 DEF InStep, LayeredRun
<1>10. f[Len(run)] = h[Len(run)]
  BY <1>4, <1>9, StepAgree
<1>. QED  BY <1>3, <1>5, <1>8, <1>10

\* Layers make an overlay.
LEMMA LayeredType ==
  ASSUME NEW run \in Seq(Overlays)
  PROVE  Layered(run) \in Overlays
<1>1. Len(run) \in 0..Len(run)
  OBVIOUS
<1>. QED  BY <1>1, LayeredUnfold

\* No layers make the empty one.
LEMMA LayeredNone == Layered(<<>>) = <<>>
<1>. DEFINE none == <<>>
<1>1. none \in Seq(Overlays) /\ Len(none) = 0
  OBVIOUS
<1>. HIDE DEF none
<1>2. PICK f : LayeredRun(none, f) /\ Layered(none) = f[Len(none)]
  BY <1>1, LayeredUnfold
<1>3. Layered(none) = <<>>
  BY <1>1, <1>2 DEF LayeredRun
<1>. QED  BY <1>3 DEF none

\* The last layer is merged last.
LEMMA LayeredOne ==
  ASSUME NEW run \in Seq(Overlays), NEW doc \in Overlays
  PROVE  Layered(Append(run, doc)) = MergeNodes(Layered(run), doc)
<1>. DEFINE more == Append(run, doc)
            n == Len(run)
<1>1. /\ more \in Seq(Overlays) /\ n \in Nat /\ Len(more) = n + 1 /\ more[n + 1] = doc
      /\ \A i \in 1..n : more[i] = run[i] /\ i \in 1..(n + 1)
  OBVIOUS
<1>2. PICK f : LayeredRun(run, f) /\ Layered(run) = f[n]
  BY LayeredUnfold
<1>3. n = Len(run)
  OBVIOUS
<1>. HIDE DEF more, n
<1>4. PICK h : LayeredRun(more, h) /\ Layered(more) = h[n + 1]
  BY <1>1, LayeredUnfold
<1>5. h[n] = f[n]
  <2>1. InStep(h, f, n)
    BY <1>1, <1>2, <1>3, <1>4 DEF InStep, LayeredRun
  <2>2. n \in Nat
    BY <1>1
  <2>. QED  BY <2>1, <2>2, StepAgree
<1>6. n + 1 \in 1..Len(more) /\ (n + 1) - 1 = n
  BY <1>1
<1>7. h[n + 1] = MergeNodes(h[n], doc)
  BY <1>1, <1>4, <1>6 DEF LayeredRun
<1>. QED  BY <1>2, <1>4, <1>5, <1>7 DEF more

\* Layering a run is merging what its two halves make.
LEMMA LayeredHalves ==
  ASSUME NEW r \in Seq(Overlays), NEW s \in Seq(Overlays)
  PROVE  Layered(r \o s) = MergeNodes(Layered(r), Layered(s))
<1>. DEFINE S == {t \in Seq(Overlays) : Layered(r \o t) = MergeNodes(Layered(r), Layered(t))}
<1>1. <<>> \in S
  <2>1. <<>> \in Seq(Overlays) /\ r \o <<>> = r
    OBVIOUS
  <2>. QED  BY <2>1, LayeredNone, LayeredType, OverlaysCompose
<1>2. ASSUME NEW t \in Seq(Overlays), NEW doc \in Overlays, t \in S PROVE Append(t, doc) \in S
  <2>1. Append(t, doc) \in Seq(Overlays) /\ r \o t \in Seq(Overlays)
    OBVIOUS
  <2>2. r \o Append(t, doc) = Append(r \o t, doc)
    OBVIOUS
  <2>3. Layered(Append(r \o t, doc)) = MergeNodes(Layered(r \o t), doc)
    BY <2>1, LayeredOne
  <2>4. Layered(Append(t, doc)) = MergeNodes(Layered(t), doc)
    BY LayeredOne
  <2>5. Layered(r) \in Overlays /\ Layered(t) \in Overlays
    BY LayeredType
  <2>6. MergeNodes(MergeNodes(Layered(r), Layered(t)), doc)
          = MergeNodes(Layered(r), MergeNodes(Layered(t), doc))
    BY <2>5, OverlaysCompose
  <2>. QED  BY <1>2, <2>1, <2>2, <2>3, <2>4, <2>6
<1>3. Seq(Overlays) \subseteq S
  <2>. HIDE DEF S
  <2>. QED  BY <1>1, <1>2, SeqInduct
<1>. QED  BY <1>3

\* One layer is what it makes.
LEMMA LayeredAlone ==
  ASSUME NEW doc \in Overlays
  PROVE  Layered(<<doc>>) = doc
<1>. DEFINE none == <<>>
<1>1. none \in Seq(Overlays) /\ <<doc>> = Append(none, doc)
  OBVIOUS
<1>2. Layered(none) = <<>>
  BY LayeredNone
<1>. HIDE DEF none
<1>3. Layered(Append(none, doc)) = MergeNodes(Layered(none), doc)
  BY <1>1, LayeredOne
<1>. QED  BY <1>1, <1>2, <1>3, OverlaysCompose

-----------------------------------------------------------------------------
\* The parts of module Composition.

Parts == [lo: Nat, hi: Nat, doc: Overlays]

\* Layers are overlays, and parts are documents of runs of them.
PartsTyped == layers \in Seq(Overlays) /\ Len(layers) <= MaxLayers /\ parts \in Seq(Parts)

\* The parts are runs of layers, each behind the one before it, and the last of
\* them ends where the layers do.
PartsInOrder ==
  /\ \A j \in DOMAIN parts :
       1 <= parts[j].lo /\ parts[j].lo <= parts[j].hi /\ parts[j].hi <= Len(layers)
  /\ \A j \in DOMAIN parts : j + 1 \in DOMAIN parts => parts[j + 1].lo = parts[j].hi + 1
  /\ parts # <<>> => parts[Len(parts)].hi = Len(layers)

\* The inductive invariant: a part cannot be what its run makes unless it is known
\* to be a run, and the part behind it to be the run behind.
CompositionInv == PartsTyped /\ PartsInOrder /\ BracketingIrrelevant

\* Removing an element moves up those behind it.
LEMMA RemoveAtIs ==
  ASSUME NEW S, NEW s \in Seq(S), NEW i \in 1..Len(s)
  PROVE  /\ RemoveAt(s, i) \in Seq(S) /\ Len(RemoveAt(s, i)) = Len(s) - 1
         /\ \A j \in 1..(Len(s) - 1) : RemoveAt(s, i)[j] = IF j < i THEN s[j] ELSE s[j + 1]
<1>. DEFINE a == SubSeq(s, 1, i - 1)
            b == SubSeq(s, i + 1, Len(s))
<1>1. a \in Seq(S) /\ Len(a) = i - 1 /\ \A j \in 1..(i - 1) : a[j] = s[j]
  OBVIOUS
<1>2. b \in Seq(S) /\ Len(b) = Len(s) - i /\ \A j \in 1..(Len(s) - i) : b[j] = s[j + i]
  OBVIOUS
<1>3. RemoveAt(s, i) = a \o b
  BY DEF RemoveAt
<1>. HIDE DEF a, b
<1>4. a \o b \in Seq(S) /\ Len(a \o b) = Len(s) - 1
  <2>1. a \o b \in Seq(S) /\ Len(a \o b) = Len(a) + Len(b)
    BY <1>1, <1>2, ConcatProperties
  <2>. QED  BY <1>1, <1>2, <2>1
<1>5. ASSUME NEW j \in 1..(Len(s) - 1)
      PROVE  (a \o b)[j] = IF j < i THEN s[j] ELSE s[j + 1]
  <2>1. CASE j < i
    BY <1>1, <1>2, <2>1
  <2>2. CASE ~ (j < i)
    <3>1. j - (i - 1) \in 1..(Len(s) - i) /\ (j - (i - 1)) + i = j + 1
      BY <2>2
    <3>2. (a \o b)[j] = b[j - (i - 1)]
      BY <1>1, <1>2, <2>2, <3>1
    <3>. QED  BY <1>2, <2>2, <3>1, <3>2
  <2>. QED  BY <2>1, <2>2
<1>. QED  BY <1>3, <1>4, <1>5

\* Nothing is layered yet.
LEMMA InvInit == Init => CompositionInv
<1>1. SUFFICES ASSUME Init PROVE CompositionInv
  OBVIOUS
<1>2. layers = <<>> /\ parts = <<>>
  BY <1>1 DEF Init
<1>3. layers \in Seq(Overlays) /\ Len(layers) = 0 /\ parts \in Seq(Parts)
  BY <1>2
<1>4. PartsTyped
  BY <1>3, MaxLayersAssumption DEF PartsTyped
<1>5. DOMAIN parts = {}
  BY <1>2
<1>. QED  BY <1>2, <1>4, <1>5 DEF CompositionInv, PartsInOrder, BracketingIrrelevant

\* A layer is a part of its own behind the others, which stay what they are.
LEMMA InvLayer ==
  ASSUME CompositionInv, NEW doc \in Overlays, Layer(doc)
  PROVE  CompositionInv'
<1>. DEFINE n == Len(layers)
            m == Len(parts)
            p == [lo |-> n + 1, hi |-> n + 1, doc |-> doc]
<1>1. /\ layers \in Seq(Overlays) /\ n \in Nat /\ parts \in Seq(Parts) /\ m \in Nat
      /\ DOMAIN parts = 1..m /\ n < MaxLayers
      /\ \A j \in 1..m : /\ parts[j] \in Parts /\ 1 <= parts[j].lo
                         /\ parts[j].lo <= parts[j].hi /\ parts[j].hi <= n
                         /\ parts[j].doc = Layered(Run(parts[j]))
      /\ \A j \in 1..m : j + 1 \in 1..m => parts[j + 1].lo = parts[j].hi + 1
      /\ parts # <<>> => parts[m].hi = n
  BY DEF CompositionInv, PartsTyped, PartsInOrder, BracketingIrrelevant, Layer
<1>2. layers' = Append(layers, doc) /\ parts' = Append(parts, p)
  BY DEF Layer
<1>3. /\ p \in Parts /\ p.lo = n + 1 /\ p.hi = n + 1 /\ p.doc = doc
  BY <1>1 DEF Parts
<1>. HIDE DEF p
<1>4. /\ layers' \in Seq(Overlays) /\ Len(layers') = n + 1
  BY <1>1, <1>2
<1>5. /\ parts' \in Seq(Parts) /\ Len(parts') = m + 1 /\ DOMAIN parts' = 1..(m + 1)
      /\ parts'[m + 1] = p /\ \A j \in 1..m : parts'[j] = parts[j]
  BY <1>1, <1>2, <1>3
<1>6. \A j \in 1..(m + 1) : j \in 1..m \/ j = m + 1
  BY <1>1
<1>7. PartsTyped'
  BY <1>1, <1>4, <1>5, MaxLayersAssumption DEF PartsTyped
<1>8. PartsInOrder'
  <2>1. ASSUME NEW j \in 1..(m + 1)
        PROVE  1 <= parts'[j].lo /\ parts'[j].lo <= parts'[j].hi /\ parts'[j].hi <= n + 1
    <3>1. CASE j \in 1..m
      <4>1. parts[j].hi \in Nat
        BY <1>1, <3>1 DEF Parts
      <4>. QED  BY <1>1, <1>5, <3>1, <4>1
    <3>2. CASE j = m + 1
      BY <1>1, <1>3, <1>5, <3>2
    <3>. QED  BY <1>6, <3>1, <3>2
  <2>2. ASSUME NEW j \in 1..(m + 1), j + 1 \in 1..(m + 1)
        PROVE  parts'[j + 1].lo = parts'[j].hi + 1
    <3>1. j \in 1..m
      BY <1>1, <2>2
    <3>2. CASE j + 1 \in 1..m
      BY <1>1, <1>5, <3>1, <3>2
    <3>3. CASE j + 1 = m + 1
      <4>1. j = m /\ parts # <<>>
        <5>1. m \in Nat
          BY <1>1
        <5>2. j = m /\ m # 0
          BY <3>1, <3>3, <5>1
        <5>. QED  BY <5>2
      <4>. QED  BY <1>1, <1>3, <1>5, <3>1, <3>3, <4>1
    <3>. QED  BY <1>6, <2>2, <3>2, <3>3
  <2>3. parts'[m + 1].hi = n + 1
    BY <1>3, <1>5
  <2>. QED  BY <1>4, <1>5, <2>1, <2>2, <2>3 DEF PartsInOrder
<1>9. ASSUME NEW l \in Nat, NEW h \in Nat, 1 <= l, h <= Len(layers)
       PROVE  SubSeq(Append(layers, doc), l, h) = SubSeq(layers, l, h)
  <2>1. layers \in Seq(Overlays)
    BY <1>1
  <2>. QED  BY <1>9, <2>1, RunOfFront
<1>10. BracketingIrrelevant'
  <2>1. ASSUME NEW j \in 1..(m + 1)
        PROVE  parts'[j].doc = Layered(SubSeq(layers', parts'[j].lo, parts'[j].hi))
    <3>1. CASE j \in 1..m
      <4>1. parts[j].lo \in Nat /\ parts[j].hi \in Nat
        BY <1>1, <3>1 DEF Parts
      <4>2. SubSeq(layers', parts[j].lo, parts[j].hi) = SubSeq(layers, parts[j].lo, parts[j].hi)
        BY <1>1, <1>2, <1>9, <3>1, <4>1
      <4>. QED  BY <1>1, <1>5, <3>1, <4>2 DEF Run
    <3>2. CASE j = m + 1
      <4>1. SubSeq(layers', n + 1, n + 1) = <<doc>>
        BY <1>1, <1>2, RunOfLast
      <4>. QED  BY <1>3, <1>5, <3>2, <4>1, LayeredAlone
    <3>. QED  BY <1>6, <3>1, <3>2
  <2>. QED  BY <1>5, <2>1 DEF BracketingIrrelevant, Run
<1>. QED  BY <1>7, <1>8, <1>10 DEF CompositionInv

\* Two neighbours composed are what the run of both of them makes.
LEMMA InvCompose ==
  ASSUME CompositionInv, NEW i \in DOMAIN parts, Compose(i)
  PROVE  CompositionInv'
<1>. DEFINE n == Len(layers)
            m == Len(parts)
            a == parts[i]
            b == parts[i + 1]
            p == [lo |-> a.lo, hi |-> b.hi, doc |-> MergeNodes(a.doc, b.doc)]
            rest == RemoveAt(parts, i + 1)
<1>1. /\ layers \in Seq(Overlays) /\ n \in Nat /\ parts \in Seq(Parts) /\ m \in Nat
      /\ DOMAIN parts = 1..m /\ n <= MaxLayers
      /\ \A j \in 1..m : /\ parts[j] \in Parts /\ 1 <= parts[j].lo
                         /\ parts[j].lo <= parts[j].hi /\ parts[j].hi <= n
                         /\ parts[j].doc = Layered(Run(parts[j]))
      /\ \A j \in 1..m : j + 1 \in 1..m => parts[j + 1].lo = parts[j].hi + 1
      /\ parts # <<>> => parts[m].hi = n
  BY DEF CompositionInv, PartsTyped, PartsInOrder, BracketingIrrelevant
<1>2. i \in 1..m /\ i + 1 \in 1..m
  BY <1>1 DEF Compose
<1>3. layers' = layers /\ parts' = [rest EXCEPT ![i] = p]
  BY DEF Compose
<1>4. /\ a \in Parts /\ b \in Parts /\ b.lo = a.hi + 1
      /\ 1 <= a.lo /\ a.lo <= a.hi /\ a.hi < b.hi /\ b.hi <= n
      /\ a.doc = Layered(SubSeq(layers, a.lo, a.hi))
      /\ b.doc = Layered(SubSeq(layers, b.lo, b.hi))
  <2>1. /\ a \in Parts /\ b \in Parts /\ b.lo = a.hi + 1
        /\ 1 <= a.lo /\ a.lo <= a.hi /\ b.lo <= b.hi /\ b.hi <= n
        /\ a.doc = Layered(SubSeq(layers, a.lo, a.hi))
        /\ b.doc = Layered(SubSeq(layers, b.lo, b.hi))
    BY <1>1, <1>2 DEF Run
  <2>2. a.hi \in Nat /\ b.hi \in Nat
    BY <2>1 DEF Parts
  <2>. QED  BY <2>1, <2>2
<1>5. p.lo = a.lo /\ p.hi = b.hi /\ p.doc = MergeNodes(a.doc, b.doc)
  OBVIOUS
<1>6. /\ a.lo \in Nat /\ a.hi \in Nat /\ b.hi \in Nat /\ a.doc \in Overlays /\ b.doc \in Overlays
      /\ MergeNodes(a.doc, b.doc) \in Overlays
  BY <1>4, OverlaysCompose DEF Parts
<1>7. p \in Parts
  BY <1>6 DEF Parts
<1>8. p.doc = Layered(SubSeq(layers, p.lo, p.hi))
  <2>1. ASSUME NEW l \in Nat, NEW u \in Nat, NEW h \in Nat,
               1 <= l, l <= u, u < h, h <= Len(layers)
        PROVE  /\ SubSeq(layers, l, u) \in Seq(Overlays)
               /\ SubSeq(layers, u + 1, h) \in Seq(Overlays)
               /\ SubSeq(layers, l, u) \o SubSeq(layers, u + 1, h) = SubSeq(layers, l, h)
    <3>1. layers \in Seq(Overlays)
      BY <1>1
    <3>. QED  BY <2>1, <3>1, RunsJoin
  <2>. HIDE DEF a, b, p
  <2>2. /\ SubSeq(layers, a.lo, a.hi) \in Seq(Overlays)
        /\ SubSeq(layers, a.hi + 1, b.hi) \in Seq(Overlays)
        /\ SubSeq(layers, a.lo, a.hi) \o SubSeq(layers, a.hi + 1, b.hi)
             = SubSeq(layers, a.lo, b.hi)
    BY <1>4, <1>6, <2>1
  <2>3. Layered(SubSeq(layers, a.lo, b.hi)) = MergeNodes(a.doc, b.doc)
    BY <1>4, <2>2, LayeredHalves
  <2>. QED  BY <1>5, <2>3
<1>. HIDE DEF a, b, p
<1>9. /\ rest \in Seq(Parts) /\ Len(rest) = m - 1
      /\ \A j \in 1..(m - 1) : rest[j] = IF j < i + 1 THEN parts[j] ELSE parts[j + 1]
  BY <1>1, <1>2, RemoveAtIs
<1>10. m - 1 \in Nat /\ i \in 1..(m - 1)
  BY <1>1, <1>2
<1>. HIDE DEF rest
<1>11. /\ parts' \in Seq(Parts) /\ Len(parts') = m - 1 /\ DOMAIN parts' = 1..(m - 1)
       /\ \A j \in 1..(m - 1) : parts'[j] = IF j = i THEN p ELSE rest[j]
  BY <1>3, <1>7, <1>9, <1>10
<1>12. parts'[i] = p /\ \A j \in 1..(m - 1) : j < i => parts'[j] = parts[j]
  BY <1>1, <1>2, <1>9, <1>10, <1>11
<1>13. ASSUME NEW j \in 1..(m - 1), j > i PROVE parts'[j] = parts[j + 1]
  <2>1. j # i /\ ~ (j < i + 1)
    BY <1>2, <1>13
  <2>. QED  BY <1>9, <1>11, <2>1
<1>14. \A j \in 1..(m - 1) : j \in 1..m /\ j + 1 \in 1..m /\ (j < i \/ j = i \/ j > i)
  BY <1>1, <1>2
<1>15. n = Len(layers) /\ m \in Nat
  BY <1>1
<1>16. BracketingIrrelevant
  BY DEF CompositionInv
<1>17. PartsTyped'
  BY <1>1, <1>3, <1>11 DEF PartsTyped
<1>. HIDE DEF m, n
<1>18. ASSUME NEW j \in 1..(m - 1)
       PROVE  /\ 1 <= parts'[j].lo /\ parts'[j].lo <= parts'[j].hi /\ parts'[j].hi <= n
              /\ parts'[j].doc = Layered(SubSeq(layers, parts'[j].lo, parts'[j].hi))
  <2>1. CASE j < i
    <3>1. j \in 1..m /\ parts'[j] = parts[j]
      BY <1>12, <1>14, <2>1
    <3>. QED  BY <1>1, <3>1 DEF Run
  <2>2. CASE j = i
    <3>1. a.lo <= b.hi
      BY <1>4, <1>6
    <3>2. parts'[j] = p
      BY <1>12, <2>2
    <3>. QED  BY <1>4, <1>5, <1>8, <3>1, <3>2
  <2>3. CASE j > i
    <3>1. j + 1 \in 1..m /\ parts'[j] = parts[j + 1]
      BY <1>13, <1>14, <2>3
    <3>. QED  BY <1>1, <3>1 DEF Run
  <2>. QED  BY <1>14, <2>1, <2>2, <2>3
<1>19. ASSUME NEW j \in 1..(m - 1), j + 1 \in 1..(m - 1)
       PROVE  parts'[j + 1].lo = parts'[j].hi + 1
  <2>1. j \in 1..m /\ j + 1 \in 1..m /\ (j + 1) + 1 \in 1..m /\ i \in Nat /\ j \in Nat
    BY <1>2, <1>19, <1>14
  <2>2. parts[j + 1].lo = parts[j].hi + 1 /\ parts[(j + 1) + 1].lo = parts[j + 1].hi + 1
    BY <1>1, <2>1
  <2>3. CASE j + 1 < i
    <3>1. parts'[j] = parts[j] /\ parts'[j + 1] = parts[j + 1]
      BY <1>12, <1>19, <2>1, <2>3
    <3>. QED  BY <2>2, <3>1
  <2>4. CASE j + 1 = i
    <3>1. parts'[j] = parts[j] /\ parts'[j + 1] = p
      BY <1>12, <1>19, <2>1, <2>4
    <3>. QED  BY <1>5, <2>2, <2>4, <3>1 DEF a
  <2>5. CASE j = i
    <3>1. parts'[j] = p /\ parts'[j + 1] = parts[(j + 1) + 1]
      BY <1>12, <1>13, <1>19, <2>1, <2>5
    <3>. QED  BY <1>5, <2>2, <2>5, <3>1 DEF b
  <2>6. CASE j > i
    <3>1. parts'[j] = parts[j + 1] /\ parts'[j + 1] = parts[(j + 1) + 1]
      BY <1>13, <1>19, <2>1, <2>6
    <3>. QED  BY <2>2, <3>1
  <2>7. j + 1 < i \/ j + 1 = i \/ j = i \/ j > i
    BY <2>1
  <2>. QED  BY <2>3, <2>4, <2>5, <2>6, <2>7
<1>20. parts'[m - 1].hi = n
  <2>1. parts # <<>> /\ m - 1 \in 1..(m - 1) /\ (m - 1) + 1 = m
    BY <1>1, <1>2, <1>10
  <2>2. parts[m].hi = n
    BY <1>1, <2>1
  <2>3. CASE m - 1 = i
    BY <1>5, <1>12, <2>1, <2>2, <2>3 DEF b
  <2>4. CASE m - 1 > i
    <3>1. parts'[m - 1] = parts[(m - 1) + 1]
      BY <1>13, <2>1, <2>4
    <3>. QED  BY <2>1, <2>2, <3>1
  <2>. QED  BY <1>10, <2>3, <2>4
<1>21. PartsInOrder'
  <2>1. n = Len(layers')
    BY <1>3, <1>15
  <2>. QED  BY <1>11, <1>18, <1>19, <1>20, <2>1 DEF PartsInOrder
<1>22. BracketingIrrelevant'
  BY <1>3, <1>11, <1>18 DEF BracketingIrrelevant, Run
<1>. QED  BY <1>17, <1>21, <1>22 DEF CompositionInv

\* Every step keeps the invariant.
LEMMA InvNext == CompositionInv /\ [Next]_vars => CompositionInv'
<1>. SUFFICES ASSUME CompositionInv, [Next]_vars PROVE CompositionInv'
  OBVIOUS
<1>1. CASE Load
  <2>1. PICK doc \in Sources(Len(layers) + 1) : Layer(doc)
    BY <1>1 DEF Load
  <2>2. Len(layers) + 1 \in 1..MaxLayers
    BY <2>1, MaxLayersAssumption DEF Layer, CompositionInv, PartsTyped
  <2>3. doc \in Overlays
    BY <2>1, <2>2, SourcesAssumption
  <2>. QED  BY <2>1, <2>3, InvLayer
<1>2. CASE LoadCached
  <2>1. PICK i \in DOMAIN layers : Layer(layers[i])
    BY <1>2 DEF LoadCached
  <2>2. layers[i] \in Overlays
    BY <2>1 DEF CompositionInv, PartsTyped
  <2>. QED  BY <2>1, <2>2, InvLayer
<1>3. CASE \E i \in DOMAIN parts : Compose(i)
  BY <1>3, InvCompose
<1>4. CASE UNCHANGED vars
  BY <1>4 DEF vars, CompositionInv, PartsTyped, PartsInOrder, BracketingIrrelevant, Run
<1>. QED  BY <1>1, <1>2, <1>3, <1>4 DEF Next

\* BracketingIrrelevant, for any sources and any number of layers: a document composed
\* of composed imports is what the same files make, layered one after the other.
THEOREM AlwaysBracketingIrrelevant == Spec => []BracketingIrrelevant
<1>1. CompositionInv => BracketingIrrelevant
  BY DEF CompositionInv
<1>. QED  BY InvInit, InvNext, <1>1, PTL DEF Spec

-----------------------------------------------------------------------------
\* What is kept of a sequence, and sequences laid end to end.

\* The values of the loop of Kept.
KeptRun(s, places, f) ==
  /\ f[0] = <<>>
  /\ \A i \in 1..Len(s) : f[i] = IF i \in places THEN Append(f[i - 1], s[i]) ELSE f[i - 1]

\* Kept is a loop that appends an element or leaves it out.
LEMMA KeptUnfold ==
  ASSUME NEW E, NEW s \in Seq(E), NEW places
  PROVE  \E f : /\ KeptRun(s, places, f)
                /\ \A i \in 0..Len(s) : f[i] \in Seq(E)
                /\ Kept(s, places) = f[Len(s)]
<1>. DEFINE D == Seq(E)
            n == Len(s)
            none == <<>>
            g == [p \in D \X (1..n) |-> IF p[2] \in places THEN Append(p[1], s[p[2]]) ELSE p[1]]
            R(out) == out = [i \in 0..Len(s) |->
                        IF i = 0 THEN <<>>
                        ELSE IF i \in places THEN Append(out[i - 1], s[i]) ELSE out[i - 1]]
<1>1. \A t \in D, i \in 1..n :
        g[<<t, i>>] = IF i \in places THEN Append(t, s[i]) ELSE t
  OBVIOUS
<1>2. g \in [D \X (1..n) -> D]
  <2>1. \A p \in D \X (1..n) : p[1] \in D /\ s[p[2]] \in E
    OBVIOUS
  <2>2. \A p \in D \X (1..n) : Append(p[1], s[p[2]]) \in D
    BY <2>1
  <2>. QED  BY <2>1, <2>2
<1>3. n \in Nat /\ n = Len(s) /\ none \in D
  OBVIOUS
<1>. HIDE DEF g, D, n, none
<1>4. PICK f \in [0..n -> D] : Folding(f, none, g, n)
  BY <1>2, <1>3, FoldExists
<1>5. \A i \in 1..n : i - 1 \in 0..n /\ i \in 0..n /\ i # 0
  BY <1>3
<1>6. f[0] = none
      /\ \A i \in 1..n : f[i] = IF i \in places THEN Append(f[i - 1], s[i]) ELSE f[i - 1]
  BY <1>1, <1>4, <1>5 DEF Folding
<1>7. KeptRun(s, places, f)
  BY <1>3, <1>6 DEF KeptRun, none
<1>8. R(f)
  <2>1. f = [i \in 0..Len(s) |-> f[i]]
    BY <1>3
  <2>2. \A i \in 0..n : i = 0 \/ i \in 1..n
    BY <1>3
  <2>3. \A i \in 0..Len(s) : f[i] = IF i = 0 THEN <<>>
          ELSE IF i \in places THEN Append(f[i - 1], s[i]) ELSE f[i - 1]
    BY <1>3, <1>6, <2>2 DEF none
  <2>. QED  BY <2>1, <2>3
<1>9. PICK h : R(h) /\ Kept(s, places) = h[Len(s)]
  <2>. DEFINE h == CHOOSE out : R(out)
  <2>1. Kept(s, places) = h[Len(s)]
    BY DEF Kept
  <2>2. R(h)
    <3>. HIDE DEF R
    <3>. QED  BY <1>8
  <2>. HIDE DEF h
  <2>. QED  BY <2>1, <2>2
<1>10. InStep(f, h, n)
  <2>1. \A i \in 0..n : h[i] = IF i = 0 THEN none
          ELSE IF i \in places THEN Append(h[i - 1], s[i]) ELSE h[i - 1]
    BY <1>3, <1>9 DEF none
  <2>2. 0 \in 0..n
    BY <1>3
  <2>. QED  BY <1>5, <1>6, <2>1, <2>2 DEF InStep
<1>11. f[n] = h[n]
  BY <1>3, <1>10, StepAgree
<1>. QED  BY <1>3, <1>4, <1>7, <1>9, <1>11 DEF D

\* What is kept is a sequence of what was there.
LEMMA KeptType ==
  ASSUME NEW E, NEW s \in Seq(E), NEW places
  PROVE  Kept(s, places) \in Seq(E)
<1>1. Len(s) \in 0..Len(s)
  OBVIOUS
<1>. QED  BY <1>1, KeptUnfold

\* Nothing is kept of nothing.
LEMMA KeptNone ==
  ASSUME NEW places
  PROVE  Kept(<<>>, places) = <<>>
<1>. DEFINE none == <<>>
<1>1. none \in Seq({}) /\ Len(none) = 0
  OBVIOUS
<1>. HIDE DEF none
<1>2. PICK f : KeptRun(none, places, f) /\ Kept(none, places) = f[Len(none)]
  BY <1>1, KeptUnfold
<1>3. Kept(none, places) = <<>>
  BY <1>1, <1>2 DEF KeptRun
<1>. QED  BY <1>3 DEF none

\* The same places keep the same.
LEMMA KeptSame ==
  ASSUME NEW E, NEW s \in Seq(E), NEW places, NEW others,
         \A i \in 1..Len(s) : i \in places <=> i \in others
  PROVE  Kept(s, places) = Kept(s, others)
<1>1. PICK f : KeptRun(s, places, f) /\ Kept(s, places) = f[Len(s)]
  BY KeptUnfold
<1>2. PICK h : KeptRun(s, others, h) /\ Kept(s, others) = h[Len(s)]
  BY KeptUnfold
<1>3. InStep(f, h, Len(s))
  BY <1>1, <1>2 DEF KeptRun, InStep
<1>4. Len(s) \in Nat
  OBVIOUS
<1>. QED  BY <1>1, <1>2, <1>3, <1>4, StepAgree

\* An appended element is kept behind the others, or left out.
LEMMA KeptOne ==
  ASSUME NEW E, NEW s \in Seq(E), NEW x \in E, NEW places
  PROVE  Kept(Append(s, x), places)
           = IF Len(s) + 1 \in places THEN Append(Kept(s, places), x) ELSE Kept(s, places)
<1>. DEFINE more == Append(s, x)
            n == Len(s)
<1>1. /\ more \in Seq(E) /\ n \in Nat /\ n = Len(s) /\ Len(more) = n + 1 /\ more[n + 1] = x
      /\ \A i \in 1..n : more[i] = s[i] /\ i \in 1..(n + 1)
  OBVIOUS
<1>2. PICK f : KeptRun(s, places, f) /\ Kept(s, places) = f[Len(s)]
  BY KeptUnfold
<1>. HIDE DEF more, n
<1>3. PICK h : KeptRun(more, places, h) /\ Kept(more, places) = h[Len(more)]
  BY <1>1, KeptUnfold
<1>4. h[n] = f[n]
  <2>1. InStep(h, f, n)
    BY <1>1, <1>2, <1>3 DEF InStep, KeptRun
  <2>. QED  BY <1>1, <2>1, StepAgree
<1>5. n + 1 \in 1..Len(more) /\ (n + 1) - 1 = n
  BY <1>1
<1>6. h[n + 1] = IF n + 1 \in places THEN Append(h[n], x) ELSE h[n]
  BY <1>1, <1>3, <1>5 DEF KeptRun
<1>. QED  BY <1>1, <1>2, <1>3, <1>4, <1>6 DEF more

\* Where all places are kept, all is, and where none is, nothing.
LEMMA KeptAll ==
  ASSUME NEW E, NEW s \in Seq(E), NEW places, \A i \in 1..Len(s) : i \in places
  PROVE  Kept(s, places) = s
<1>. DEFINE S == {t \in Seq(E) : (\A i \in 1..Len(t) : i \in places) => Kept(t, places) = t}
<1>1. <<>> \in S
  BY KeptNone
<1>2. ASSUME NEW t \in Seq(E), NEW x \in E, t \in S PROVE Append(t, x) \in S
  <2>1. /\ Append(t, x) \in Seq(E) /\ Len(Append(t, x)) = Len(t) + 1 /\ Len(t) \in Nat
        /\ \A i \in 1..Len(t) : i \in 1..(Len(t) + 1)
        /\ Len(t) + 1 \in 1..(Len(t) + 1)
    OBVIOUS
  <2>2. Kept(Append(t, x), places)
          = IF Len(t) + 1 \in places THEN Append(Kept(t, places), x) ELSE Kept(t, places)
    BY KeptOne
  <2>. QED  BY <1>2, <2>1, <2>2
<1>3. Seq(E) \subseteq S
  <2>. HIDE DEF S
  <2>. QED  BY <1>1, <1>2, SeqInduct
<1>. QED  BY <1>3

\* Nothing is kept where no place is.
LEMMA KeptFew ==
  ASSUME NEW E, NEW s \in Seq(E), NEW places, \A i \in 1..Len(s) : i \notin places
  PROVE  Kept(s, places) = <<>>
<1>. DEFINE S == {t \in Seq(E) : (\A i \in 1..Len(t) : i \notin places) => Kept(t, places) = <<>>}
<1>1. <<>> \in S
  BY KeptNone
<1>2. ASSUME NEW t \in Seq(E), NEW x \in E, t \in S PROVE Append(t, x) \in S
  <2>1. /\ Append(t, x) \in Seq(E) /\ Len(Append(t, x)) = Len(t) + 1 /\ Len(t) \in Nat
        /\ \A i \in 1..Len(t) : i \in 1..(Len(t) + 1)
        /\ Len(t) + 1 \in 1..(Len(t) + 1)
    OBVIOUS
  <2>2. Kept(Append(t, x), places)
          = IF Len(t) + 1 \in places THEN Append(Kept(t, places), x) ELSE Kept(t, places)
    BY KeptOne
  <2>. QED  BY <1>2, <2>1, <2>2
<1>3. Seq(E) \subseteq S
  <2>. HIDE DEF S
  <2>. QED  BY <1>1, <1>2, SeqInduct
<1>. QED  BY <1>3

\* A function takes one set into another.
Maps(h, K, H) == \A k \in K : h[k] \in H

\* Each of a sequence that an element was appended to.
LEMMA EachOne ==
  ASSUME NEW K, NEW H, NEW h, Maps(h, K, H), NEW s \in Seq(K), NEW x \in K
  PROVE  /\ Each(h, s) \in Seq(H) /\ Len(Each(h, s)) = Len(s)
         /\ Each(h, Append(s, x)) = Append(Each(h, s), h[x])
<1>. DEFINE t == Each(h, s)
            more == Append(s, x)
            left == Each(h, more)
            right == Append(t, h[x])
<1>1. t \in Seq(H) /\ Len(t) = Len(s) /\ \A i \in 1..Len(s) : t[i] = h[s[i]]
  <2>1. t = [i \in 1..Len(s) |-> h[s[i]]]
    BY DEF Each
  <2>2. \A i \in 1..Len(s) : h[s[i]] \in H
    BY DEF Maps
  <2>. QED  BY <2>1, <2>2
<1>2. /\ more \in Seq(K) /\ Len(more) = Len(s) + 1 /\ Len(s) \in Nat
      /\ \A i \in 1..(Len(s) + 1) : more[i] = IF i = Len(s) + 1 THEN x ELSE s[i]
  OBVIOUS
<1>3. /\ left \in Seq(H) /\ Len(left) = Len(s) + 1
      /\ \A i \in 1..(Len(s) + 1) : left[i] = h[more[i]]
  <2>. HIDE DEF more
  <2>1. left = [i \in 1..(Len(s) + 1) |-> h[more[i]]]
    BY <1>2 DEF Each
  <2>2. \A i \in 1..(Len(s) + 1) : h[more[i]] \in H
    BY <1>2 DEF Maps
  <2>. HIDE DEF left
  <2>. QED  BY <1>2, <2>1, <2>2
<1>4. /\ right \in Seq(H) /\ Len(right) = Len(s) + 1
      /\ \A i \in 1..(Len(s) + 1) : right[i] = IF i = Len(s) + 1 THEN h[x] ELSE t[i]
  <2>1. h[x] \in H
    BY DEF Maps
  <2>. HIDE DEF t
  <2>. QED  BY <1>1, <2>1
<1>. HIDE DEF t, more, left, right
<1>5. \A i \in 1..(Len(s) + 1) : left[i] = right[i]
  <2>1. \A i \in 1..(Len(s) + 1) : i = Len(s) + 1 \/ i \in 1..Len(s)
    BY <1>2
  <2>. QED  BY <1>1, <1>2, <1>3, <1>4, <2>1
<1>6. left = right
  BY <1>3, <1>4, <1>5, SeqEqual
<1>. QED  BY <1>1, <1>6 DEF t, more, left, right

\* What is kept of each of a sequence that an element was appended to.
LEMMA KeptEachOne ==
  ASSUME NEW K, NEW H, NEW h, Maps(h, K, H), NEW s \in Seq(K), NEW x \in K,
         NEW places, NEW others, \A i \in 1..Len(s) : i \in places <=> i \in others
  PROVE  Kept(Each(h, Append(s, x)), others)
           = IF Len(s) + 1 \in others THEN Append(Kept(Each(h, s), places), h[x])
             ELSE Kept(Each(h, s), places)
<1>. DEFINE t == Each(h, s)
            y == h[x]
<1>1. t \in Seq(H) /\ Len(t) = Len(s) /\ Each(h, Append(s, x)) = Append(t, y)
  BY EachOne
<1>2. y \in H
  BY DEF Maps
<1>. HIDE DEF t, y
<1>3. Kept(Append(t, y), others)
        = IF Len(t) + 1 \in others THEN Append(Kept(t, others), y) ELSE Kept(t, others)
  BY <1>1, <1>2, KeptOne
<1>4. Kept(t, others) = Kept(t, places)
  BY <1>1, KeptSame
<1>. QED  BY <1>1, <1>3, <1>4 DEF t, y

\* The places of a sequence with some elements, and those of them that are some places.
Among(s, D) == {i \in DOMAIN s : s[i] \in D}

AmongThose(s, places, D) == {i \in DOMAIN s : i \in places /\ s[i] \in D}

\* Keeping some places, and then those with some elements, is keeping the places of
\* both.
LEMMA KeptTwice ==
  ASSUME NEW K, NEW H, NEW h, Maps(h, K, H), NEW s \in Seq(K), NEW places, NEW D
  PROVE  Kept(Each(h, Kept(s, places)), Among(Kept(s, places), D))
           = Kept(Each(h, s), AmongThose(s, places, D))
<1>. DEFINE P(t) == Among(t, D)
            Q(t) == AmongThose(t, places, D)
            S == {t \in Seq(K) : Kept(Each(h, Kept(t, places)), P(Kept(t, places)))
                                   = Kept(Each(h, t), Q(t))}
<1>1. <<>> \in S
  <2>1. Kept(<<>>, places) = <<>>
    BY KeptNone
  <2>2. Each(h, <<>>) = <<>>
    BY DEF Each
  <2>3. <<>> \in Seq(K)
    OBVIOUS
  <2>. QED  BY <2>1, <2>2, <2>3, KeptNone
<1>2. ASSUME NEW t \in Seq(K), NEW x \in K, t \in S PROVE Append(t, x) \in S
  <2>. DEFINE r == Kept(t, places)
              n == Len(t)
              more == Append(t, x)
              left == Kept(Each(h, r), P(r))
              right == Kept(Each(h, t), Q(t))
  <2>1. /\ more \in Seq(K) /\ n \in Nat /\ DOMAIN t = 1..n /\ DOMAIN more = 1..(n + 1)
        /\ more[n + 1] = x /\ \A i \in 1..n : more[i] = t[i] /\ i \in 1..(n + 1)
        /\ n + 1 \in 1..(n + 1)
    OBVIOUS
  <2>2. r \in Seq(K) /\ left = right
    BY <1>2, KeptType
  <2>3. Kept(more, places) = IF n + 1 \in places THEN Append(r, x) ELSE r
    BY KeptOne
  <2>4. Kept(Each(h, more), Q(more))
          = IF n + 1 \in Q(more) THEN Append(right, h[x]) ELSE right
    <3>1. \A i \in 1..n : i \in Q(t) <=> i \in Q(more)
      BY <2>1 DEF AmongThose
    <3>. DEFINE qt == Q(t)
                qm == Q(more)
    <3>. HIDE DEF Q, qt, qm
    <3>2. \A i \in 1..Len(t) : i \in qt <=> i \in qm
      BY <3>1 DEF qt, qm
    <3>3. Kept(Each(h, Append(t, x)), qm)
            = IF Len(t) + 1 \in qm THEN Append(Kept(Each(h, t), qt), h[x])
              ELSE Kept(Each(h, t), qt)
      BY <3>2, KeptEachOne
    <3>. QED  BY <3>3 DEF qt, qm
  <2>5. n + 1 \in Q(more) <=> n + 1 \in places /\ x \in D
    BY <2>1 DEF AmongThose
  <2>6. Kept(Each(h, Append(r, x)), P(Append(r, x)))
          = IF x \in D THEN Append(left, h[x]) ELSE left
    <3>. HIDE DEF r
    <3>1. /\ DOMAIN r = 1..Len(r) /\ DOMAIN Append(r, x) = 1..(Len(r) + 1)
          /\ Append(r, x)[Len(r) + 1] = x /\ Len(r) + 1 \in 1..(Len(r) + 1)
          /\ \A i \in 1..Len(r) : Append(r, x)[i] = r[i] /\ i \in 1..(Len(r) + 1)
      BY <2>2
    <3>2. /\ \A i \in 1..Len(r) : i \in P(r) <=> i \in P(Append(r, x))
          /\ Len(r) + 1 \in P(Append(r, x)) <=> x \in D
      BY <3>1 DEF Among
    <3>. DEFINE pr == P(r)
                pm == P(Append(r, x))
    <3>. HIDE DEF P, pr, pm
    <3>3. \A i \in 1..Len(r) : i \in pr <=> i \in pm
      BY <3>2 DEF pr, pm
    <3>4. Kept(Each(h, Append(r, x)), pm)
            = IF Len(r) + 1 \in pm THEN Append(Kept(Each(h, r), pr), h[x])
              ELSE Kept(Each(h, r), pr)
      BY <2>2, <3>3, KeptEachOne
    <3>. QED  BY <3>2, <3>4 DEF pr, pm
  <2>7. Kept(Each(h, Kept(more, places)), P(Kept(more, places))) = Kept(Each(h, more), Q(more))
    <3>. HIDE DEF P, Q, r, more, left, right
    <3>1. CASE n + 1 \in places
      <4>1. Kept(more, places) = Append(r, x)
        BY <2>3, <3>1
      <4>. QED  BY <2>2, <2>4, <2>5, <2>6, <3>1, <4>1
    <3>2. CASE n + 1 \notin places
      <4>1. Kept(more, places) = r
        BY <2>3, <3>2
      <4>. QED  BY <2>2, <2>4, <2>5, <3>2, <4>1 DEF left
    <3>. QED  BY <3>1, <3>2
  <2>. HIDE DEF P, Q
  <2>. QED  BY <2>1, <2>7
<1>3. Seq(K) \subseteq S
  <2>. HIDE DEF S
  <2>. QED  BY <1>1, <1>2, SeqInduct
<1>. QED  BY <1>3

\* The values of the loop of FlattenSeq.
FlattenRun(rows, f) ==
  /\ f[0] = <<>>
  /\ \A i \in 1..Len(rows) : f[i] = f[i - 1] \o rows[i]

\* Nothing in front of a sequence, or behind it, and an element behind two of them.
LEMMA ConcatNone ==
  ASSUME NEW E, NEW s \in Seq(E)
  PROVE  <<>> \o s = s /\ s \o <<>> = s
<1>1. /\ <<>> \o s \in Seq(E) /\ Len(<<>> \o s) = Len(s)
      /\ \A i \in 1..Len(s) : (<<>> \o s)[i] = s[i]
  <2>. DEFINE none == <<>>
  <2>1. none \in Seq(E) /\ Len(none) = 0
    OBVIOUS
  <2>. HIDE DEF none
  <2>2. none \o s \in Seq(E) /\ Len(none \o s) = Len(s)
        /\ \A i \in 1..Len(s) : (none \o s)[i] = s[i]
    BY <2>1
  <2>. QED  BY <2>2 DEF none
<1>2. /\ s \o <<>> \in Seq(E) /\ Len(s \o <<>>) = Len(s)
      /\ \A i \in 1..Len(s) : (s \o <<>>)[i] = s[i]
  <2>. DEFINE none == <<>>
  <2>1. none \in Seq(E) /\ Len(none) = 0
    OBVIOUS
  <2>. HIDE DEF none
  <2>2. s \o none \in Seq(E) /\ Len(s \o none) = Len(s)
        /\ \A i \in 1..Len(s) : (s \o none)[i] = s[i]
    BY <2>1
  <2>. QED  BY <2>2 DEF none
<1>. QED  BY <1>1, <1>2, SeqEqual

\* Appending goes with the sequence behind.
LEMMA ConcatAppend ==
  ASSUME NEW E, NEW s \in Seq(E), NEW t \in Seq(E), NEW x \in E
  PROVE  s \o Append(t, x) = Append(s \o t, x)
<1>. DEFINE a == s \o Append(t, x)
            b == Append(s \o t, x)
            n == Len(s) + Len(t)
<1>1. /\ a \in Seq(E) /\ Len(a) = n + 1
      /\ \A i \in 1..(n + 1) : a[i] = IF i <= Len(s) THEN s[i] ELSE IF i = n + 1 THEN x
           ELSE t[i - Len(s)]
  OBVIOUS
<1>2. /\ b \in Seq(E) /\ Len(b) = n + 1
      /\ \A i \in 1..(n + 1) : b[i] = IF i <= Len(s) THEN s[i] ELSE IF i = n + 1 THEN x
           ELSE t[i - Len(s)]
  OBVIOUS
<1>. HIDE DEF a, b, n
<1>3. a = b
  BY <1>1, <1>2, SeqEqual
<1>. QED  BY <1>3 DEF a, b

\* FlattenSeq is a loop that lays one row behind the other.
LEMMA FlattenUnfold ==
  ASSUME NEW E, NEW rows \in Seq(Seq(E))
  PROVE  \E f : /\ FlattenRun(rows, f)
                /\ \A i \in 0..Len(rows) : f[i] \in Seq(E)
                /\ FlattenSeq(rows) = f[Len(rows)]
<1>. DEFINE D == Seq(E)
            n == Len(rows)
            none == <<>>
            g == [p \in D \X (1..n) |-> p[1] \o rows[p[2]]]
            R(flatten) == flatten = [i \in 1..Len(rows) |->
                            IF i = 1 THEN rows[i] ELSE flatten[i - 1] \o rows[i]]
<1>1. \A t \in D, i \in 1..n : g[<<t, i>>] = t \o rows[i]
  OBVIOUS
<1>2. g \in [D \X (1..n) -> D]
  <2>1. \A p \in D \X (1..n) : p[1] \in D /\ rows[p[2]] \in D
    OBVIOUS
  <2>2. \A p \in D \X (1..n) : p[1] \o rows[p[2]] \in D
    BY <2>1
  <2>. QED  BY <2>2
<1>3. /\ n \in Nat /\ n = Len(rows) /\ none \in D
      /\ \A i \in 1..n : none \o rows[i] = rows[i]
  <2>1. \A i \in 1..n : rows[i] \in Seq(E)
    OBVIOUS
  <2>2. \A i \in 1..n : <<>> \o rows[i] = rows[i]
    BY <2>1, ConcatNone
  <2>. QED  BY <2>2
<1>. HIDE DEF g, D, n, none
<1>4. PICK f \in [0..n -> D] : Folding(f, none, g, n)
  BY <1>2, <1>3, FoldExists
<1>5. \A i \in 1..n : i - 1 \in 0..n /\ i \in 0..n /\ i # 0
  BY <1>3
<1>6. f[0] = none /\ \A i \in 1..n : f[i] = f[i - 1] \o rows[i]
  BY <1>1, <1>4, <1>5 DEF Folding
<1>7. FlattenRun(rows, f)
  BY <1>3, <1>6 DEF FlattenRun, none
<1>8. CASE n = 0
  <2>1. rows = <<>> /\ FlattenSeq(rows) = rows
    BY <1>3, <1>8, EmptySeq DEF FlattenSeq
  <2>. QED  BY <1>3, <1>4, <1>6, <1>7, <1>8, <2>1 DEF D, none
<1>9. CASE n # 0
  <2>. DEFINE h == [i \in 1..n |-> f[i]]
  <2>1. R(h)
    <3>1. \A i \in 1..n : i = 1 \/ i - 1 \in 1..n
      BY <1>3
    <3>2. \A i \in 1..n : h[i] = IF i = 1 THEN rows[i] ELSE h[i - 1] \o rows[i]
      <4>1. \A i \in 1..n : h[i] = f[i - 1] \o rows[i]
        BY <1>6
      <4>2. \A i \in 1..n : i - 1 \in 1..n => h[i - 1] = f[i - 1]
        OBVIOUS
      <4>3. \A i \in 1..n : i = 1 => f[i - 1] \o rows[i] = rows[i]
        BY <1>3, <1>6
      <4>. HIDE DEF h
      <4>. QED  BY <3>1, <4>1, <4>2, <4>3
    <3>3. h = [i \in 1..Len(rows) |-> h[i]]
      BY <1>3
    <3>. HIDE DEF h
    <3>. QED  BY <1>3, <3>2, <3>3
  <2>2. PICK r : R(r) /\ FlattenSeq(rows) = r[Len(rows)]
    <3>. DEFINE r == CHOOSE flatten : R(flatten)
    <3>1. FlattenSeq(rows) = r[Len(rows)]
      BY <1>3, <1>9 DEF FlattenSeq
    <3>2. R(r)
      <4>. HIDE DEF R
      <4>. QED  BY <2>1
    <3>. HIDE DEF r
    <3>. QED  BY <3>1, <3>2
  <2>3. \A i \in 1..n : r[i] = IF i = 1 THEN rows[i] ELSE r[i - 1] \o rows[i]
    BY <1>3, <2>2
  <2>. DEFINE w == [i \in 0..n |-> IF i = 0 THEN none ELSE r[i]]
  <2>4. w[0] = none /\ \A i \in 1..n : w[i] = w[i - 1] \o rows[i]
    <3>1. w[0] = none /\ \A i \in 1..n : w[i] = r[i]
      BY <1>3
    <3>2. \A i \in 1..n : (i = 1 /\ i - 1 = 0) \/ (i # 1 /\ i - 1 \in 1..n)
      BY <1>3
    <3>. HIDE DEF w
    <3>. QED  BY <1>3, <2>3, <3>1, <3>2
  <2>5. w[n] = r[n]
    BY <1>3, <1>9
  <2>. HIDE DEF w
  <2>6. InStep(f, w, n)
    BY <1>6, <2>4 DEF InStep
  <2>7. f[n] = w[n]
    BY <1>3, <2>6, StepAgree
  <2>. QED  BY <1>3, <1>4, <1>7, <2>2, <2>5, <2>7 DEF D
<1>. QED  BY <1>8, <1>9

\* Rows laid end to end are a sequence of what they are of.
LEMMA FlattenType ==
  ASSUME NEW E, NEW rows \in Seq(Seq(E))
  PROVE  FlattenSeq(rows) \in Seq(E)
<1>1. Len(rows) \in 0..Len(rows)
  OBVIOUS
<1>. QED  BY <1>1, FlattenUnfold

\* No rows are nothing, and a row more is laid behind the others.
LEMMA FlattenNone == FlattenSeq(<<>>) = <<>>
BY DEF FlattenSeq

\* A row behind others is laid behind them.
LEMMA FlattenOne ==
  ASSUME NEW E, NEW rows \in Seq(Seq(E)), NEW row \in Seq(E)
  PROVE  FlattenSeq(Append(rows, row)) = FlattenSeq(rows) \o row
<1>. DEFINE D == Seq(E)
            more == Append(rows, row)
            n == Len(rows)
<1>1. /\ more \in Seq(D) /\ n \in Nat /\ n = Len(rows) /\ Len(more) = n + 1 /\ more[n + 1] = row
      /\ \A i \in 1..n : more[i] = rows[i] /\ i \in 1..(n + 1)
  OBVIOUS
<1>2. PICK f : FlattenRun(rows, f) /\ FlattenSeq(rows) = f[Len(rows)]
  BY FlattenUnfold
<1>. HIDE DEF more, n
<1>3. PICK h : FlattenRun(more, h) /\ FlattenSeq(more) = h[Len(more)]
  <2>1. more \in Seq(Seq(E))
    BY <1>1
  <2>. QED  BY <2>1, FlattenUnfold
<1>4. h[n] = f[n]
  <2>1. InStep(h, f, n)
    BY <1>1, <1>2, <1>3 DEF InStep, FlattenRun
  <2>. QED  BY <1>1, <2>1, StepAgree
<1>5. n + 1 \in 1..Len(more) /\ (n + 1) - 1 = n
  BY <1>1
<1>6. h[n + 1] = h[n] \o row
  BY <1>1, <1>3, <1>5 DEF FlattenRun
<1>. QED  BY <1>1, <1>2, <1>3, <1>4, <1>6 DEF more

\* One row is itself.
LEMMA FlattenAlone ==
  ASSUME NEW E, NEW row \in Seq(E)
  PROVE  FlattenSeq(<<row>>) = row
<1>. DEFINE none == <<>>
<1>1. none \in Seq(Seq(E)) /\ <<row>> = Append(none, row) /\ FlattenSeq(none) = none
  BY FlattenNone
<1>2. none \o row = row
  BY ConcatNone
<1>. HIDE DEF none
<1>3. FlattenSeq(Append(none, row)) = FlattenSeq(none) \o row
  BY <1>1, FlattenOne
<1>. QED  BY <1>1, <1>2, <1>3

-----------------------------------------------------------------------------
\* The comments of several blocks.

\* Concatenating comments lays behind the base what it does not hold.
LEMMA ConcatKept ==
  ASSUME NEW base \in Comments, NEW overlay \in Comments
  PROVE  ConcatComments(base, overlay)
           = base \o Kept(overlay, {j \in DOMAIN overlay : ~ Held(base, overlay[j])})
<1>. DEFINE New(t) == {j \in DOMAIN t : ~ Held(base, t[j])}
            S == {t \in Comments : ConcatComments(base, t) = base \o Kept(t, New(t))}
<1>1. <<>> \in S
  <2>1. ConcatComments(base, <<>>) = base /\ base \o <<>> = base
    BY CommentsNone, ConcatNone DEF Comments
  <2>2. <<>> \in Comments
    BY DEF Comments
  <2>. QED  BY <2>1, <2>2, KeptNone
<1>2. ASSUME NEW t \in Comments, NEW c \in CommentName, t \in S PROVE Append(t, c) \in S
  <2>. DEFINE more == Append(t, c)
              n == Len(t)
              now == New(t)
              then == New(more)
  <2>1. /\ more \in Comments /\ n \in Nat /\ DOMAIN t = 1..n /\ DOMAIN more = 1..(n + 1)
        /\ more[n + 1] = c /\ \A i \in 1..n : more[i] = t[i] /\ i \in 1..(n + 1)
        /\ n + 1 \in 1..(n + 1) /\ t \in Seq(CommentName) /\ base \in Seq(CommentName)
    BY DEF Comments
  <2>. HIDE DEF more
  <2>2. (\A i \in 1..n : i \in now <=> i \in then) /\ (n + 1 \in then <=> ~ Held(base, c))
    BY <2>1
  <2>. HIDE DEF now, then, New
  <2>3. Kept(t, now) = Kept(t, then) /\ Kept(t, now) \in Seq(CommentName)
    BY <2>1, <2>2, KeptSame, KeptType
  <2>4. Kept(more, then) = IF n + 1 \in then THEN Append(Kept(t, then), c) ELSE Kept(t, then)
    BY <2>1, KeptOne DEF more
  <2>5. base \o Append(Kept(t, now), c) = Append(base \o Kept(t, now), c)
    BY <2>1, <2>3, ConcatAppend
  <2>6. ConcatComments(base, more) = IF Held(base, c) THEN ConcatComments(base, t)
                                     ELSE Append(ConcatComments(base, t), c)
    BY CommentsOne DEF more
  <2>7. ConcatComments(base, t) = base \o Kept(t, now)
    BY <1>2 DEF now
  <2>8. ConcatComments(base, more) = base \o Kept(more, then)
    BY <2>2, <2>3, <2>4, <2>5, <2>6, <2>7
  <2>. QED  BY <2>1, <2>8 DEF more, then
<1>3. Comments \subseteq S
  <2>. HIDE DEF S
  <2>. QED  BY <1>1, <1>2, SeqInduct DEF Comments
<1>. QED  BY <1>3

\* The comments of a block that those of the blocks before it do not have.
Added(comments, i) ==
  Kept(comments[i], {j \in DOMAIN comments[i] :
         \A h \in 1..(i - 1) : comments[i][j] \notin Range(comments[h])})

\* What gathering holds: what one of them has.
GatheredHolds(comments) ==
  /\ Gathered(comments) \in Comments
  /\ \A d : Held(Gathered(comments), d)
              <=> \E h \in 1..Len(comments) : d \in Range(comments[h])

\* The comments of one block more are concatenated to those gathered.
LEMMA GatheredNext ==
  ASSUME NEW css \in Seq(Comments), NEW cs \in Comments, GatheredHolds(css)
  PROVE  /\ Gathered(Append(css, cs)) = ConcatComments(Gathered(css), cs)
         /\ GatheredHolds(Append(css, cs))
<1>. DEFINE more == Append(css, cs)
            n == Len(css)
            base == Gathered(css)
            rows == [i \in 1..n |-> Added(css, i)]
            row == Added(more, n + 1)
<1>1. /\ more \in Seq(Comments) /\ n \in Nat /\ Len(more) = n + 1 /\ DOMAIN css = 1..n
      /\ DOMAIN more = 1..(n + 1) /\ more[n + 1] = cs
      /\ \A i \in 1..n : more[i] = css[i] /\ css[i] \in Comments
      /\ \A i \in 1..(n + 1) : (i \in 1..n \/ i = n + 1) /\ more[i] \in Comments
  OBVIOUS
<1>. HIDE DEF more, n
<1>2. Gathered(css) = FlattenSeq(rows)
  BY <1>1 DEF Gathered, Added
<1>3. Gathered(more) = FlattenSeq([i \in 1..(n + 1) |-> Added(more, i)])
  BY <1>1 DEF Gathered, Added
<1>4. /\ \A i \in 1..n : Added(css, i) \in Comments
      /\ row \in Comments
  <2>1. \A t \in Comments : \A A : Kept(t, A) \in Comments
    BY KeptType DEF Comments
  <2>. QED  BY <1>1, <2>1 DEF Added
<1>5. \A i \in 1..n : Added(more, i) = Added(css, i)
  <2>1. \A i \in 1..n : \A h \in 1..(i - 1) : h \in 1..n
    BY <1>1
  <2>2. ASSUME NEW i \in 1..n
        PROVE  {j \in DOMAIN more[i] : \A h \in 1..(i - 1) : more[i][j] \notin Range(more[h])}
                 = {j \in DOMAIN css[i] : \A h \in 1..(i - 1) : css[i][j] \notin Range(css[h])}
    <3>1. more[i] = css[i] /\ \A h \in 1..(i - 1) : more[h] = css[h]
      BY <1>1, <2>1
    <3>. QED  BY <3>1
  <2>. QED  BY <1>1, <2>2 DEF Added
<1>6. rows \in Seq(Comments) /\ Append(rows, row) = [i \in 1..(n + 1) |-> Added(more, i)]
  <2>1. rows \in Seq(Comments) /\ Len(rows) = n
    BY <1>1, <1>4
  <2>. DEFINE rs == [i \in 1..(n + 1) |-> Added(more, i)]
  <2>2. rs \in Seq(Comments) /\ Len(rs) = n + 1
    <3>1. \A i \in 1..(n + 1) : Added(more, i) \in Comments
      BY <1>1, <1>4, <1>5
    <3>. QED  BY <1>1, <3>1
  <2>3. \A i \in 1..n : rows[i] = rs[i] /\ i \in 1..(n + 1)
    BY <1>1, <1>5
  <2>4. rs[n + 1] = row
    BY <1>1
  <2>. HIDE DEF rows, rs, row
  <2>5. /\ Append(rows, row) \in Seq(Comments) /\ Len(Append(rows, row)) = n + 1
        /\ Append(rows, row)[n + 1] = row /\ \A i \in 1..n : Append(rows, row)[i] = rows[i]
    BY <1>1, <1>4, <2>1
  <2>6. \A i \in 1..(n + 1) : Append(rows, row)[i] = rs[i]
    BY <1>1, <2>3, <2>4, <2>5
  <2>7. Append(rows, row) = rs
    BY <2>2, <2>5, <2>6, SeqEqual
  <2>. QED  BY <2>1, <2>7 DEF rs
<1>7. Gathered(more) = base \o row
  <2>. HIDE DEF rows, row
  <2>1. rows \in Seq(Seq(CommentName)) /\ row \in Seq(CommentName)
    BY <1>4, <1>6 DEF Comments
  <2>. QED  BY <1>2, <1>3, <1>6, <2>1, FlattenOne
<1>8. row = Kept(cs, {j \in DOMAIN cs : ~ Held(base, cs[j])})
  <2>1. row = Kept(cs, {j \in DOMAIN cs : \A h \in 1..n : cs[j] \notin Range(css[h])})
    <3>1. (n + 1) - 1 = n /\ more[n + 1] = cs
      BY <1>1
    <3>2. {j \in DOMAIN more[n + 1] :
             \A h \in 1..((n + 1) - 1) : more[n + 1][j] \notin Range(more[h])}
            = {j \in DOMAIN cs : \A h \in 1..n : cs[j] \notin Range(css[h])}
      BY <1>1, <3>1
    <3>. QED  BY <3>1, <3>2 DEF Added
  <2>2. \A d : Held(base, d) <=> \E h \in 1..n : d \in Range(css[h])
    BY DEF GatheredHolds, n
  <2>3. {j \in DOMAIN cs : \A h \in 1..n : cs[j] \notin Range(css[h])}
          = {j \in DOMAIN cs : ~ Held(base, cs[j])}
    <3>. HIDE DEF base
    <3>. QED  BY <2>2
  <2>. QED  BY <2>1, <2>3
<1>9. base \in Comments
  BY DEF GatheredHolds
<1>10. Gathered(more) = ConcatComments(base, cs)
  <2>. HIDE DEF base, row
  <2>. QED  BY <1>7, <1>8, <1>9, ConcatKept
<1>11. GatheredHolds(more)
  <2>1. \A d : Held(base, d) <=> \E h \in 1..n : d \in Range(css[h])
    BY DEF GatheredHolds, n
  <2>2. \A d : Held(cs, d) <=> d \in Range(cs)
    BY DEF Held, Range
  <2>3. \A d : Held(ConcatComments(base, cs), d) <=> (Held(base, d) \/ Held(cs, d))
    BY <1>9, CommentsHeld
  <2>4. ConcatComments(base, cs) \in Comments
    BY <1>9, CommentsType
  <2>5. \A d : (\E h \in 1..(n + 1) : d \in Range(more[h]))
                 <=> ((\E h \in 1..n : d \in Range(css[h])) \/ d \in Range(cs))
    <3>1. n + 1 \in 1..(n + 1) /\ \A h \in 1..n : h \in 1..(n + 1)
      BY <1>1
    <3>. QED  BY <1>1, <3>1
  <2>. HIDE DEF base
  <2>. QED  BY <1>1, <1>10, <2>1, <2>2, <2>3, <2>4, <2>5 DEF GatheredHolds
<1>. QED  BY <1>10, <1>11 DEF more, base

\* So the comments of several blocks are those of the first, those of the others
\* concatenated one after the other.
LEMMA GatheredOne ==
  ASSUME NEW css \in Seq(Comments), NEW cs \in Comments
  PROVE  /\ Gathered(css) \in Comments
         /\ Gathered(Append(css, cs)) = ConcatComments(Gathered(css), cs)
<1>. DEFINE S == {t \in Seq(Comments) : GatheredHolds(t)}
<1>1. <<>> \in S
  <2>. DEFINE none == <<>>
  <2>1. Gathered(none) = none
    <3>1. [i \in DOMAIN none |-> Added(none, i)] = none
      OBVIOUS
    <3>2. Gathered(none) = FlattenSeq([i \in DOMAIN none |-> Added(none, i)])
      BY DEF Gathered, Added
    <3>. QED  BY <3>1, <3>2, FlattenNone
  <2>2. none \in Comments /\ none \in Seq(Comments) /\ Len(none) = 0 /\ DOMAIN none = 1..0
    BY DEF Comments
  <2>. HIDE DEF none
  <2>3. GatheredHolds(none)
    BY <2>1, <2>2 DEF GatheredHolds, Held
  <2>. QED  BY <2>2, <2>3 DEF none
<1>2. ASSUME NEW t \in Seq(Comments), NEW c \in Comments, t \in S PROVE Append(t, c) \in S
  BY <1>2, GatheredNext
<1>3. Seq(Comments) \subseteq S
  <2>. HIDE DEF S
  <2>. QED  BY <1>1, <1>2, SeqInduct
<1>4. GatheredHolds(css)
  BY <1>3
<1>. QED  BY <1>4, GatheredNext DEF GatheredHolds

\* The comments of one block are its comments.
LEMMA GatheredAlone ==
  ASSUME NEW cs \in Comments
  PROVE  Gathered(<<cs>>) = cs
<1>1. Added(<<cs>>, 1) = cs
  <2>1. {j \in DOMAIN <<cs>>[1] : \A h \in 1..(1 - 1) : <<cs>>[1][j] \notin Range(<<cs>>[h])}
          = 1..Len(cs)
    BY DEF Comments
  <2>2. Kept(cs, 1..Len(cs)) = cs
    BY KeptAll DEF Comments
  <2>. QED  BY <2>1, <2>2 DEF Added
<1>2. [i \in DOMAIN <<cs>> |-> Added(<<cs>>, i)] = <<cs>>
  BY <1>1
<1>3. Gathered(<<cs>>) = FlattenSeq([i \in DOMAIN <<cs>> |-> Added(<<cs>>, i)])
  BY DEF Gathered, Added
<1>. QED  BY <1>2, <1>3, FlattenAlone DEF Comments

-----------------------------------------------------------------------------
\* What a text has of a key: the blocks that can be seen, and the last node.

BlocksOf(flat, k) == Kept(flat, Visible(flat, k))

LastNode(flat, k) == flat[LastPlace(flat, k)]

\* There are no blocks of a key that is not there.
LEMMA BlocksNone ==
  ASSUME NEW E, NEW flat \in Seq(E), NEW k, k \notin Keys(flat)
  PROVE  BlocksOf(flat, k) = <<>>
<1>. DEFINE A == Visible(flat, k)
<1>1. \A i \in 1..Len(flat) : i \notin A
  BY DEF Visible, Keys
<1>. HIDE DEF A
<1>2. Kept(flat, A) = <<>>
  BY <1>1, KeptFew
<1>. QED  BY <1>2 DEF A, BlocksOf

\* A node more leaves the blocks of other keys; of its own it is one more, or the
\* only one, or hides them all.
LEMMA BlocksOne ==
  ASSUME NEW lists, NEW values, NEW flat \in Seq(Nodes(lists, values)),
         NEW n \in Nodes(lists, values), NEW k
  PROVE  BlocksOf(Append(flat, n), k)
           = IF n.key # k THEN BlocksOf(flat, k)
             ELSE IF ~ IsBarrier(n) THEN Append(BlocksOf(flat, k), n)
             ELSE IF n.kind = "block" THEN <<n>> ELSE <<>>
<1>. DEFINE E == Nodes(lists, values)
            more == Append(flat, n)
            l == Len(flat)
            A == Visible(flat, k)
            B == Visible(more, k)
<1>1. /\ more \in Seq(E) /\ l \in Nat /\ l = Len(flat) /\ Len(more) = l + 1 /\ more[l + 1] = n
      /\ DOMAIN flat = 1..l /\ DOMAIN more = 1..(l + 1)
      /\ \A i \in 1..l : more[i] = flat[i] /\ i \in 1..(l + 1)
  OBVIOUS
<1>. HIDE DEF more, l
<1>2. l + 1 \in B <=> n.key = k /\ n.kind = "block"
  <2>1. l + 1 \in 1..(l + 1) /\ \A j \in ((l + 1) + 1)..(l + 1) : FALSE
    BY <1>1
  <2>. QED  BY <1>1, <2>1 DEF Visible
<1>3. ASSUME NEW i \in 1..l
      PROVE  i \in B <=> i \in A /\ (n.key = k => ~ IsBarrier(n))
  <2>1. \A j \in (i + 1)..(l + 1) : j \in (i + 1)..l \/ j = l + 1
    BY <1>1
  <2>2. /\ \A j \in (i + 1)..l : j \in (i + 1)..(l + 1) /\ j \in 1..l
        /\ l + 1 \in (i + 1)..(l + 1)
    BY <1>1
  <2>3. (\A j \in (i + 1)..Len(more) : more[j].key = k => ~ IsBarrier(more[j]))
          <=> /\ \A j \in (i + 1)..Len(flat) : flat[j].key = k => ~ IsBarrier(flat[j])
              /\ n.key = k => ~ IsBarrier(n)
    BY <1>1, <2>1, <2>2
  <2>4. i \in B <=> /\ more[i].key = k /\ more[i].kind = "block"
                    /\ \A j \in (i + 1)..Len(more) : more[j].key = k => ~ IsBarrier(more[j])
    BY <1>1 DEF Visible
  <2>5. i \in A <=> /\ flat[i].key = k /\ flat[i].kind = "block"
                    /\ \A j \in (i + 1)..Len(flat) : flat[j].key = k => ~ IsBarrier(flat[j])
    BY <1>1 DEF Visible
  <2>. QED  BY <1>1, <2>3, <2>4, <2>5
<1>. HIDE DEF A, B
<1>4. Kept(more, B) = IF l + 1 \in B THEN Append(Kept(flat, B), n) ELSE Kept(flat, B)
  BY <1>1, KeptOne DEF more
<1>5. CASE n.key # k
  <2>1. Kept(flat, A) = Kept(flat, B)
    BY <1>1, <1>3, <1>5, KeptSame
  <2>. QED  BY <1>2, <1>4, <1>5, <2>1 DEF BlocksOf, A, B, more
<1>6. CASE n.key = k /\ ~ IsBarrier(n)
  <2>1. Kept(flat, A) = Kept(flat, B)
    BY <1>1, <1>3, <1>6, KeptSame
  <2>2. l + 1 \in B
    BY <1>2, <1>6 DEF IsBarrier
  <2>. QED  BY <1>4, <1>6, <2>1, <2>2 DEF BlocksOf, A, B, more
<1>7. CASE n.key = k /\ IsBarrier(n)
  <2>1. Kept(flat, B) = <<>>
    BY <1>1, <1>3, <1>7, KeptFew
  <2>2. Append(<<>>, n) = <<n>>
    OBVIOUS
  <2>. QED  BY <1>2, <1>4, <1>7, <2>1, <2>2 DEF BlocksOf, A, B, more
<1>. QED  BY <1>5, <1>6, <1>7

\* The last place of a key is the one no other is behind.
LEMMA LastIs ==
  ASSUME NEW E, NEW flat \in Seq(E), NEW k, NEW i \in DOMAIN flat, flat[i].key = k,
         \A j \in DOMAIN flat : flat[j].key = k => j <= i
  PROVE  LastPlace(flat, k) = i
<1>. DEFINE A == {j \in DOMAIN flat : flat[j].key = k}
<1>1. i \in A /\ \A j \in A : i >= j /\ j \in Nat
  OBVIOUS
<1>. HIDE DEF A
<1>2. \A x \in A : (\A y \in A : x >= y) => x = i
  BY <1>1
<1>3. Max(A) = i
  BY <1>1, <1>2 DEF Max
<1>. QED  BY <1>3 DEF LastPlace, A

\* A key that is there has a last place.
LEMMA LastOf ==
  ASSUME NEW E, NEW flat \in Seq(E), NEW k \in Keys(flat)
  PROVE  /\ LastPlace(flat, k) \in DOMAIN flat /\ flat[LastPlace(flat, k)].key = k
         /\ \A j \in DOMAIN flat : flat[j].key = k => j <= LastPlace(flat, k)
<1>. DEFINE Latest(t, i) == t[i].key = k /\ \A j \in DOMAIN t : t[j].key = k => j <= i
            S == {t \in Seq(E) : k \in Keys(t) => \E i \in DOMAIN t : Latest(t, i)}
<1>1. <<>> \in S
  BY DEF Keys
<1>2. ASSUME NEW t \in Seq(E), NEW x \in E, t \in S PROVE Append(t, x) \in S
  <2>. DEFINE more == Append(t, x)
              n == Len(t)
  <2>1. /\ more \in Seq(E) /\ n \in Nat /\ DOMAIN t = 1..n /\ DOMAIN more = 1..(n + 1)
        /\ more[n + 1] = x /\ n + 1 \in 1..(n + 1)
        /\ \A i \in 1..n : more[i] = t[i] /\ i \in 1..(n + 1) /\ i <= n + 1
        /\ \A i \in 1..(n + 1) : (i \in 1..n \/ i = n + 1) /\ i <= n + 1
    OBVIOUS
  <2>. HIDE DEF more, n
  <2>2. CASE x.key = k
    <3>1. Latest(more, n + 1)
      BY <2>1, <2>2
    <3>. QED  BY <2>1, <3>1 DEF more
  <2>3. CASE x.key # k
    <3>1. SUFFICES ASSUME k \in Keys(more) PROVE \E i \in DOMAIN more : Latest(more, i)
      BY <2>1 DEF more
    <3>2. k \in Keys(t)
      BY <2>1, <2>3, <3>1 DEF Keys
    <3>3. PICK i \in DOMAIN t : Latest(t, i)
      BY <1>2, <3>2
    <3>4. Latest(more, i)
      BY <2>1, <2>3, <3>3
    <3>. QED  BY <2>1, <3>4
  <2>. QED  BY <2>2, <2>3
<1>3. Seq(E) \subseteq S
  <2>. HIDE DEF S
  <2>. QED  BY <1>1, <1>2, SeqInduct
<1>4. PICK i \in DOMAIN flat : Latest(flat, i)
  BY <1>3
<1>5. LastPlace(flat, k) = i
  BY <1>4, LastIs
<1>. QED  BY <1>4, <1>5

\* The last node of a key, when a node was appended.
LEMMA LastOne ==
  ASSUME NEW E, NEW flat \in Seq(E), NEW n \in E, NEW k
  PROVE  /\ n.key = k => LastNode(Append(flat, n), k) = n
         /\ n.key # k /\ k \in Keys(flat) => LastNode(Append(flat, n), k) = LastNode(flat, k)
<1>. DEFINE more == Append(flat, n)
            l == Len(flat)
<1>1. /\ more \in Seq(E) /\ l \in Nat /\ DOMAIN flat = 1..l /\ DOMAIN more = 1..(l + 1)
      /\ more[l + 1] = n /\ l + 1 \in 1..(l + 1)
      /\ \A i \in 1..l : more[i] = flat[i] /\ i \in 1..(l + 1)
      /\ \A i \in 1..(l + 1) : (i \in 1..l \/ i = l + 1) /\ i <= l + 1
  OBVIOUS
<1>. HIDE DEF more, l
<1>2. ASSUME n.key = k PROVE LastNode(more, k) = n
  <2>1. LastPlace(more, k) = l + 1
    BY <1>1, <1>2, LastIs
  <2>. QED  BY <1>1, <2>1 DEF LastNode
<1>3. ASSUME n.key # k, k \in Keys(flat) PROVE LastNode(more, k) = LastNode(flat, k)
  <2>. DEFINE p == LastPlace(flat, k)
  <2>1. p \in DOMAIN flat /\ flat[p].key = k /\ \A j \in DOMAIN flat : flat[j].key = k => j <= p
    BY <1>3, LastOf
  <2>. HIDE DEF p
  <2>2. p \in DOMAIN more /\ more[p].key = k /\ \A j \in DOMAIN more : more[j].key = k => j <= p
    BY <1>1, <1>3, <2>1
  <2>3. LastPlace(more, k) = p
    BY <1>1, <2>2, LastIs
  <2>. QED  BY <1>1, <2>1, <2>3 DEF LastNode, p
<1>. QED  BY <1>2, <1>3 DEF more

-----------------------------------------------------------------------------
\* What composing makes of the nodes of a key.

\* The node of a key in a list that names it once.
KeyNode(list, k) == list[Slot(list, k)]

\* A node put on a list changes what is there of its key, and nothing else.
LEMMA PutKeyNode ==
  ASSUME NEW lists, NEW values, NEW below, Joins(lists, below),
         NEW list \in NextLists(lists, values), NEW node \in Nodes(lists, values), NEW k
  PROVE  /\ k \in Keys(list) /\ k # node.key =>
              KeyNode(Put(below, list, node), k) = KeyNode(list, k)
         /\ k = node.key /\ k \in Keys(list) =>
              KeyNode(Put(below, list, node), k) = Combine(below, KeyNode(list, k), node)
         /\ k = node.key /\ k \notin Keys(list) => KeyNode(Put(below, list, node), k) = node
<1>. DEFINE now == Put(below, list, node)
<1>1. /\ list \in Seq(Nodes(lists, values)) /\ DOMAIN list = 1..Len(list)
      /\ \A i \in DOMAIN list : list[i] \in Nodes(lists, values)
  BY ListFacts
<1>2. CASE node.key \notin Keys(list)
  <2>1. now = Append(list, node)
    BY <1>2 DEF Put
  <2>2. /\ Slot(now, node.key) = Len(list) + 1
        /\ \A c \in Keys(list) : Slot(now, c) = Slot(list, c)
    BY <1>2, <2>1, NewKey
  <2>3. \A c \in Keys(list) : Slot(list, c) \in 1..Len(list)
    BY <1>1, SlotIs
  <2>4. now[Len(list) + 1] = node /\ \A i \in 1..Len(list) : now[i] = list[i]
    BY <1>1, <2>1
  <2>. HIDE DEF now
  <2>. QED  BY <1>2, <2>2, <2>3, <2>4 DEF KeyNode, now
<1>3. CASE node.key \in Keys(list)
  <2>. DEFINE i == Slot(list, node.key)
              c == Combine(below, list[i], node)
  <2>1. i \in DOMAIN list /\ list[i].key = node.key /\ list[i] \in Nodes(lists, values)
    BY <1>1, <1>3, SlotIs
  <2>2. c \in Nodes(lists, values) /\ c.key = node.key
    BY <2>1, CombineNode
  <2>3. now = [list EXCEPT ![i] = c]
    BY <1>3 DEF Put
  <2>4. KeyNode(list, node.key) = list[i]
    BY DEF KeyNode
  <2>. HIDE DEF i, c, now
  <2>5. now \in Seq(Nodes(lists, values)) /\ Len(now) = Len(list)
        /\ \A j \in 1..Len(list) : now[j] = IF j = i THEN c ELSE list[j]
    BY <1>1, <2>1, <2>2, <2>3
  <2>6. Replaced(list, i, c, now)
    BY <1>1, <2>1, <2>2, <2>3, <2>5 DEF Replaced
  <2>7. \A d \in Keys(list) : Slot(now, d) = Slot(list, d)
    BY <2>1, <2>2, <2>6, OldKey
  <2>8. \A d \in Keys(list) : Slot(list, d) \in 1..Len(list) /\ list[Slot(list, d)].key = d
    BY <1>1, SlotIs
  <2>9. ASSUME NEW d \in Keys(list), d # node.key PROVE KeyNode(now, d) = KeyNode(list, d)
    <3>1. Slot(list, d) # i
      BY <2>1, <2>8, <2>9
    <3>. QED  BY <2>5, <2>7, <2>8, <2>9, <3>1 DEF KeyNode
  <2>10. KeyNode(now, node.key) = c
    BY <1>1, <1>3, <2>1, <2>5, <2>7 DEF KeyNode, i
  <2>. QED  BY <1>3, <2>4, <2>9, <2>10 DEF c, now
<1>. QED  BY <1>2, <1>3

\* The children and the comments of several blocks.
ChildrenOf(blocks) == [i \in DOMAIN blocks |-> blocks[i].children]

LeadingOf(blocks) == [i \in DOMAIN blocks |-> blocks[i].leading]

TrailingOf(blocks) == [i \in DOMAIN blocks |-> blocks[i].trailing]

\* Those of several blocks and one more.
LEMMA RowsOne ==
  ASSUME NEW lists, NEW values, NEW blocks \in Seq(Nodes(lists, values)),
         NEW n \in Nodes(lists, values)
  PROVE  /\ ChildrenOf(blocks) \in Seq(lists)
         /\ LeadingOf(blocks) \in Seq(Comments) /\ TrailingOf(blocks) \in Seq(Comments)
         /\ ChildrenOf(Append(blocks, n)) = Append(ChildrenOf(blocks), n.children)
         /\ LeadingOf(Append(blocks, n)) = Append(LeadingOf(blocks), n.leading)
         /\ TrailingOf(Append(blocks, n)) = Append(TrailingOf(blocks), n.trailing)
<1>. DEFINE E == Nodes(lists, values)
            more == Append(blocks, n)
            hc == [x \in E |-> x.children]
            hl == [x \in E |-> x.leading]
            ht == [x \in E |-> x.trailing]
<1>1. more \in Seq(E)
  OBVIOUS
<1>2. \A x \in E : x.children \in lists /\ x.leading \in Comments /\ x.trailing \in Comments
  BY NodeFields
<1>3. /\ \A x \in E : hc[x] = x.children /\ hl[x] = x.leading /\ ht[x] = x.trailing
      /\ Maps(hc, E, lists) /\ Maps(hl, E, Comments) /\ Maps(ht, E, Comments)
  BY <1>2 DEF Maps
<1>4. ASSUME NEW s \in Seq(E)
      PROVE  ChildrenOf(s) = Each(hc, s) /\ LeadingOf(s) = Each(hl, s)
             /\ TrailingOf(s) = Each(ht, s)
  <2>1. \A i \in DOMAIN s : s[i] \in E
    OBVIOUS
  <2>. HIDE DEF E, hc, hl, ht
  <2>. QED  BY <1>3, <2>1 DEF ChildrenOf, LeadingOf, TrailingOf, Each
<1>5. n \in E /\ blocks \in Seq(E) /\ hc[n] = n.children /\ hl[n] = n.leading /\ ht[n] = n.trailing
  BY <1>3
<1>. HIDE DEF E, hc, hl, ht, more
<1>6. Each(hc, blocks) \in Seq(lists)
      /\ Each(hc, Append(blocks, n)) = Append(Each(hc, blocks), hc[n])
  BY <1>3, <1>5, EachOne
<1>7. Each(hl, blocks) \in Seq(Comments)
      /\ Each(hl, Append(blocks, n)) = Append(Each(hl, blocks), hl[n])
  BY <1>3, <1>5, EachOne
<1>8. Each(ht, blocks) \in Seq(Comments)
      /\ Each(ht, Append(blocks, n)) = Append(Each(ht, blocks), ht[n])
  BY <1>3, <1>5, EachOne
<1>9. ChildrenOf(more) = Each(hc, more) /\ LeadingOf(more) = Each(hl, more)
      /\ TrailingOf(more) = Each(ht, more)
  BY <1>1, <1>4
<1>10. ChildrenOf(blocks) = Each(hc, blocks) /\ LeadingOf(blocks) = Each(hl, blocks)
       /\ TrailingOf(blocks) = Each(ht, blocks)
  BY <1>4, <1>5
<1>. QED  BY <1>5, <1>6, <1>7, <1>8, <1>9, <1>10 DEF more

\* Those of one block.
LEMMA RowsAlone ==
  ASSUME NEW n
  PROVE  ChildrenOf(<<n>>) = <<n.children>> /\ LeadingOf(<<n>>) = <<n.leading>>
         /\ TrailingOf(<<n>>) = <<n.trailing>>
<1>1. DOMAIN <<n>> = {1} /\ <<n>>[1] = n
  OBVIOUS
<1>2. \A f : DOMAIN f = {1} => [i \in {1} |-> f[i]] = <<f[1]>>
  OBVIOUS
<1>. QED  BY <1>1 DEF ChildrenOf, LeadingOf, TrailingOf

\* Lists, and the texts written of them, with a merging that folds a text into a
\* list: a list it leaves, and a list behind a text it merges with what it made of
\* the text.
Folds(lists, texts, below) ==
  /\ Joins(lists, below) /\ lists \subseteq texts
  /\ \E E : lists \subseteq Seq(E)
  /\ \A x \in lists : below[<<<<>>, x>>] = x
  /\ \A a \in texts : below[<<<<>>, a>>] \in lists
  /\ \A a \in texts, c \in lists :
       a \o c \in texts /\ below[<<below[<<<<>>, a>>], c>>] = below[<<<<>>, a \o c>>]

\* The node is one that blocks were composed into: the first of them, with the
\* children and the comments of all.
Gathers(texts, below, blocks, node) ==
  /\ node.kind = "block" /\ blocks # <<>>
  /\ node.key = blocks[1].key /\ node.kind = blocks[1].kind
  /\ node.value = blocks[1].value /\ node.items = blocks[1].items
  /\ FlattenSeq(ChildrenOf(blocks)) \in texts
  /\ node.children = below[<<<<>>, FlattenSeq(ChildrenOf(blocks))>>]
  /\ node.leading = Gathered(LeadingOf(blocks)) /\ node.trailing = Gathered(TrailingOf(blocks))

\* The node is another, but for its flag.
Resembles(node, n) ==
  /\ node.key = n.key /\ node.kind = n.kind /\ node.value = n.value /\ node.items = n.items
  /\ node.children = n.children /\ node.leading = n.leading /\ node.trailing = n.trailing

\* The node is what is left of a key of which there are these blocks and this last
\* node.
Leaves(texts, below, blocks, last, node) ==
  /\ node.kind = last.kind
  /\ last.kind = "block" => Gathers(texts, below, blocks, node)
  /\ last.kind # "block" => blocks = <<>> /\ Resembles(node, last)

\* A node of which nothing can be seen but itself.
LEMMA LeavesAlone ==
  ASSUME NEW lists, NEW values, NEW texts, NEW below, Folds(lists, texts, below),
         NEW n \in Nodes(lists, values), NEW node, Resembles(node, n)
  PROVE  Leaves(texts, below, IF n.kind = "block" THEN <<n>> ELSE <<>>, n, node)
<1>1. CASE n.kind # "block"
  BY <1>1 DEF Leaves, Resembles
<1>2. CASE n.kind = "block"
  <2>1. PICK E : lists \subseteq Seq(E)
    BY DEF Folds
  <2>2. /\ n.children \in lists /\ n.children \in Seq(E) /\ n.children \in texts
        /\ n.leading \in Comments /\ n.trailing \in Comments
    BY <2>1, NodeFields DEF Folds
  <2>3. FlattenSeq(ChildrenOf(<<n>>)) = n.children
    BY <2>2, RowsAlone, FlattenAlone
  <2>4. Gathered(LeadingOf(<<n>>)) = n.leading /\ Gathered(TrailingOf(<<n>>)) = n.trailing
    BY <2>2, RowsAlone, GatheredAlone
  <2>5. below[<<<<>>, n.children>>] = n.children
    BY <2>2 DEF Folds
  <2>6. <<n>> # <<>> /\ <<n>>[1] = n
    OBVIOUS
  <2>7. Gathers(texts, below, <<n>>, node)
    BY <1>2, <2>2, <2>3, <2>4, <2>5, <2>6, Zenon DEF Gathers, Resembles
  <2>. QED  BY <1>2, <2>7 DEF Leaves, Resembles
<1>. QED  BY <1>1, <1>2

\* A block that merges with what several were composed into.
LEMMA GathersNext ==
  ASSUME NEW lists, NEW values, NEW texts, NEW below, Folds(lists, texts, below),
         NEW blocks \in Seq(Nodes(lists, values)), NEW old, Gathers(texts, below, blocks, old),
         NEW n \in Nodes(lists, values), NEW node, Joined(below, old, n, node)
  PROVE  Gathers(texts, below, Append(blocks, n), node)
<1>. DEFINE more == Append(blocks, n)
            text == FlattenSeq(ChildrenOf(blocks))
<1>1. more # <<>> /\ more[1] = blocks[1]
  <2>1. blocks # <<>>
    BY DEF Gathers
  <2>2. Len(blocks) \in Nat /\ Len(blocks) # 0
    BY <2>1, EmptySeq
  <2>3. Len(more) = Len(blocks) + 1 /\ 1 \in 1..Len(blocks)
        /\ \A i \in 1..Len(blocks) : more[i] = blocks[i]
    BY <2>2
  <2>. QED  BY <2>2, <2>3
<1>2. PICK E : lists \subseteq Seq(E)
  BY DEF Folds
<1>3. /\ n.children \in lists /\ n.leading \in Comments /\ n.trailing \in Comments
      /\ text \in texts
  BY NodeFields DEF Gathers
<1>4. /\ ChildrenOf(blocks) \in Seq(lists)
      /\ LeadingOf(blocks) \in Seq(Comments) /\ TrailingOf(blocks) \in Seq(Comments)
      /\ ChildrenOf(more) = Append(ChildrenOf(blocks), n.children)
      /\ LeadingOf(more) = Append(LeadingOf(blocks), n.leading)
      /\ TrailingOf(more) = Append(TrailingOf(blocks), n.trailing)
  BY RowsOne
<1>. HIDE DEF more
<1>5. FlattenSeq(ChildrenOf(more)) = text \o n.children
  <2>1. ChildrenOf(blocks) \in Seq(Seq(E)) /\ n.children \in Seq(E)
    BY <1>2, <1>3, <1>4
  <2>. QED  BY <1>4, <2>1, FlattenOne
<1>. HIDE DEF text
<1>6. /\ text \o n.children \in texts
      /\ below[<<below[<<<<>>, text>>], n.children>>] = below[<<<<>>, text \o n.children>>]
  BY <1>3 DEF Folds
<1>7. /\ Gathered(LeadingOf(more)) = ConcatComments(Gathered(LeadingOf(blocks)), n.leading)
      /\ Gathered(TrailingOf(more)) = ConcatComments(Gathered(TrailingOf(blocks)), n.trailing)
  BY <1>3, <1>4, GatheredOne
<1>8. /\ old.kind = "block" /\ old.key = blocks[1].key /\ old.kind = blocks[1].kind
      /\ old.value = blocks[1].value /\ old.items = blocks[1].items
      /\ old.children = below[<<<<>>, text>>]
      /\ old.leading = Gathered(LeadingOf(blocks)) /\ old.trailing = Gathered(TrailingOf(blocks))
  BY DEF Gathers, text
<1>9. /\ node.key = old.key /\ node.kind = old.kind /\ node.value = old.value
      /\ node.items = old.items /\ node.children = below[<<old.children, n.children>>]
      /\ node.leading = ConcatComments(old.leading, n.leading)
      /\ node.trailing = ConcatComments(old.trailing, n.trailing)
  BY DEF Joined
<1>10. Gathers(texts, below, more, node)
  BY <1>1, <1>5, <1>6, <1>7, <1>8, <1>9, Zenon DEF Gathers
<1>. QED  BY <1>10 DEF more

\* What is left of a key when a node was appended: what the node before it and it
\* combine to.
LEMMA LeavesNext ==
  ASSUME NEW lists, NEW values, NEW texts, NEW below, Folds(lists, texts, below),
         NEW blocks \in Seq(Nodes(lists, values)), NEW last, NEW old \in Nodes(lists, values),
         Leaves(texts, below, blocks, last, old), NEW n \in Nodes(lists, values)
  PROVE  Leaves(texts, below,
                IF ~ IsBarrier(n) THEN Append(blocks, n)
                ELSE IF n.kind = "block" THEN <<n>> ELSE <<>>,
                n, Combine(below, old, n))
<1>. DEFINE c == Combine(below, old, n)
<1>1. c \in Nodes(lists, values) /\ Combined(below, old, n, c)
  BY CombineNode DEF Folds
<1>. HIDE DEF c
<1>2. CASE Merges(old, n)
  <2>1. Joined(below, old, n, c) /\ ~ IsBarrier(n) /\ n.kind = "block" /\ old.kind = "block"
    BY <1>1, <1>2 DEF Combined, Merges, IsBarrier
  <2>2. Gathers(texts, below, blocks, old)
    BY <2>1 DEF Leaves
  <2>3. Gathers(texts, below, Append(blocks, n), c)
    BY <2>1, <2>2, GathersNext
  <2>4. Leaves(texts, below, Append(blocks, n), n, c)
    BY <2>1, <2>3 DEF Leaves, Gathers
  <2>. QED  BY <2>1, <2>4 DEF c
<1>3. CASE ~ Merges(old, n)
  <2>1. Resembles(c, n)
    BY <1>1, <1>3 DEF Combined, Replaces, Resembles
  <2>2. Leaves(texts, below, IF n.kind = "block" THEN <<n>> ELSE <<>>, n, c)
    BY <2>1, LeavesAlone
  <2>3. CASE IsBarrier(n)
    BY <2>2, <2>3 DEF c
  <2>4. CASE ~ IsBarrier(n)
    <3>1. n.kind = "block" /\ old.kind # "block"
      BY <1>3, <2>4 DEF Merges, IsBarrier
    <3>2. blocks = <<>>
      BY <3>1 DEF Leaves
    <3>3. Append(blocks, n) = <<n>>
      BY <3>2
    <3>. QED  BY <2>2, <2>4, <3>1, <3>3 DEF c
  <2>. QED  BY <2>3, <2>4
<1>. QED  BY <1>2, <1>3

\* A text laid over nothing has the keys of the text, and of each what the text
\* leaves of it.
LEMMA LaidLeaves ==
  ASSUME NEW lists, NEW values, NEW texts, NEW below, Folds(lists, texts, below),
         NEW flat \in Seq(Nodes(lists, values))
  PROVE  LET list == Laid(below, <<>>, flat)
         IN  /\ Keys(list) = Keys(flat)
             /\ \A k \in Keys(flat) :
                  Leaves(texts, below, BlocksOf(flat, k), LastNode(flat, k), KeyNode(list, k))
<1>. DEFINE E == Nodes(lists, values)
            P(t) == LET list == Laid(below, <<>>, t)
                    IN  /\ Keys(list) = Keys(t)
                        /\ \A k \in Keys(t) : Leaves(texts, below, BlocksOf(t, k), LastNode(t, k),
                                                     KeyNode(list, k))
            S == {t \in Seq(E) : P(t)}
<1>0. Joins(lists, below) /\ <<>> \in NextLists(lists, values)
  BY DEF Folds, NextLists, KeysOnce
<1>1. <<>> \in S
  <2>1. Laid(below, <<>>, <<>>) = <<>>
    BY <1>0, LaidNone
  <2>2. Keys(<<>>) = {} /\ <<>> \in Seq(E)
    BY DEF Keys
  <2>. QED  BY <2>1, <2>2
<1>2. ASSUME NEW t \in Seq(E), NEW n \in E, t \in S PROVE Append(t, n) \in S
  <2>. DEFINE r == Laid(below, <<>>, t)
              more == Append(t, n)
              now == Put(below, r, n)
  <2>1. r \in NextLists(lists, values) /\ Laid(below, <<>>, more) = now
    BY <1>0, LaidType, LaidOne
  <2>2. /\ Keys(r) = Keys(t)
        /\ \A k \in Keys(t) :
             Leaves(texts, below, BlocksOf(t, k), LastNode(t, k), KeyNode(r, k))
    BY <1>2
  <2>3. Keys(more) = Keys(t) \cup {n.key} /\ more \in Seq(E)
    <3>1. /\ DOMAIN t = 1..Len(t) /\ DOMAIN more = 1..(Len(t) + 1) /\ more[Len(t) + 1] = n
          /\ \A i \in 1..Len(t) : more[i] = t[i] /\ i \in 1..(Len(t) + 1)
          /\ Len(t) + 1 \in 1..(Len(t) + 1)
          /\ \A i \in 1..(Len(t) + 1) : i \in 1..Len(t) \/ i = Len(t) + 1
          /\ more \in Seq(E)
      OBVIOUS
    <3>. HIDE DEF more
    <3>. QED  BY <3>1 DEF Keys
  <2>. HIDE DEF r, E
  <2>4. Keys(now) = Keys(r) \cup {n.key}
    BY <1>0, <2>1, PutIs DEF E
  <2>5. ASSUME NEW k \in Keys(more)
        PROVE  Leaves(texts, below, BlocksOf(more, k), LastNode(more, k), KeyNode(now, k))
    <3>1. CASE k # n.key
      <4>1. k \in Keys(t)
        BY <2>3, <3>1
      <4>2. BlocksOf(more, k) = BlocksOf(t, k)
        BY <3>1, BlocksOne DEF E
      <4>3. LastNode(more, k) = LastNode(t, k)
        BY <3>1, <4>1, LastOne
      <4>4. KeyNode(now, k) = KeyNode(r, k)
        BY <1>0, <2>1, <2>2, <3>1, <4>1, PutKeyNode DEF E
      <4>. QED  BY <2>2, <4>1, <4>2, <4>3, <4>4
    <3>2. CASE k = n.key
      <4>1. LastNode(more, k) = n
        BY <3>2, LastOne
      <4>2. BlocksOf(more, k) = IF ~ IsBarrier(n) THEN Append(BlocksOf(t, k), n)
                                ELSE IF n.kind = "block" THEN <<n>> ELSE <<>>
        <5>1. BlocksOf(Append(t, n), k)
                = IF n.key # k THEN BlocksOf(t, k)
                  ELSE IF ~ IsBarrier(n) THEN Append(BlocksOf(t, k), n)
                  ELSE IF n.kind = "block" THEN <<n>> ELSE <<>>
          BY BlocksOne DEF E
        <5>. QED  BY <3>2, <5>1
      <4>3. CASE k \in Keys(t)
        <5>1. KeyNode(now, k) = Combine(below, KeyNode(r, k), n)
          BY <1>0, <2>1, <2>2, <3>2, <4>3, PutKeyNode DEF E
        <5>2. KeyNode(r, k) \in E
          <6>1. Slot(r, k) \in DOMAIN r /\ \A i \in DOMAIN r : r[i] \in E
            BY <2>1, <2>2, <4>3, SlotIs, ListFacts DEF E
          <6>. QED  BY <6>1 DEF KeyNode
        <5>3. BlocksOf(t, k) \in Seq(E)
          BY KeptType DEF BlocksOf
        <5>. DEFINE old == KeyNode(r, k)
                    blocks == BlocksOf(t, k)
        <5>4. Leaves(texts, below, blocks, LastNode(t, k), old)
          BY <2>2, <4>3
        <5>. HIDE DEF old, blocks
        <5>5. Leaves(texts, below, IF ~ IsBarrier(n) THEN Append(blocks, n)
                       ELSE IF n.kind = "block" THEN <<n>> ELSE <<>>, n, Combine(below, old, n))
          BY <5>2, <5>3, <5>4, LeavesNext DEF E, old, blocks
        <5>. QED  BY <4>1, <4>2, <5>1, <5>5 DEF old, blocks
      <4>4. CASE k \notin Keys(t)
        <5>1. KeyNode(now, k) = n
          BY <1>0, <2>1, <2>2, <3>2, <4>4, PutKeyNode DEF E
        <5>2. BlocksOf(t, k) = <<>>
          BY <4>4, BlocksNone
        <5>3. Append(<<>>, n) = <<n>>
          OBVIOUS
        <5>4. BlocksOf(more, k) = IF n.kind = "block" THEN <<n>> ELSE <<>>
          BY <4>2, <5>2, <5>3 DEF IsBarrier
        <5>5. Leaves(texts, below, IF n.kind = "block" THEN <<n>> ELSE <<>>, n, n)
          BY LeavesAlone DEF Resembles, E
        <5>. QED  BY <4>1, <5>1, <5>4, <5>5
      <4>. QED  BY <4>3, <4>4
    <3>. QED  BY <3>1, <3>2
  <2>6. P(more)
    <3>. HIDE DEF more, now
    <3>. QED  BY <2>1, <2>2, <2>3, <2>4, <2>5
  <2>. QED  BY <2>3, <2>6
<1>3. Seq(E) \subseteq S
  <2>. HIDE DEF S
  <2>. QED  BY <1>1, <1>2, SeqInduct
<1>4. P(flat)
  <2>. HIDE DEF P
  <2>. QED  BY <1>3
<1>. QED  BY <1>4

\* The keys of a list, in order.
KeysOf(list) == [i \in DOMAIN list |-> list[i].key]

\* They are keys, and those of a list and one node more.
LEMMA KeysOfOne ==
  ASSUME NEW lists, NEW values, NEW list \in Seq(Nodes(lists, values)),
         NEW n \in Nodes(lists, values)
  PROVE  /\ KeysOf(list) \in Seq(KeyName) /\ Len(KeysOf(list)) = Len(list)
         /\ KeysOf(Append(list, n)) = Append(KeysOf(list), n.key)
<1>. DEFINE E == Nodes(lists, values)
            h == [x \in E |-> x.key]
            more == Append(list, n)
<1>1. more \in Seq(E)
  OBVIOUS
<1>2. \A x \in E : x.key \in KeyName
  BY NodeFields
<1>3. (\A x \in E : h[x] = x.key) /\ Maps(h, E, KeyName)
  BY <1>2 DEF Maps
<1>4. ASSUME NEW s \in Seq(E) PROVE KeysOf(s) = Each(h, s)
  <2>1. \A i \in DOMAIN s : s[i] \in E
    OBVIOUS
  <2>. HIDE DEF E, h
  <2>. QED  BY <1>3, <2>1 DEF KeysOf, Each
<1>5. n \in E /\ list \in Seq(E) /\ h[n] = n.key
  BY <1>3
<1>. HIDE DEF E, h, more
<1>6. /\ Each(h, list) \in Seq(KeyName) /\ Len(Each(h, list)) = Len(list)
      /\ Each(h, Append(list, n)) = Append(Each(h, list), h[n])
  BY <1>3, <1>5, EachOne
<1>7. KeysOf(more) = Each(h, more) /\ KeysOf(list) = Each(h, list)
  BY <1>1, <1>4, <1>5
<1>. QED  BY <1>5, <1>6, <1>7 DEF more

\* Where keys are written first, when a node was appended.
LEMMA FirstPlacesOne ==
  ASSUME NEW E, NEW flat \in Seq(E), NEW n \in E
  PROVE  /\ \A i \in 1..Len(flat) : i \in FirstPlaces(flat) <=> i \in FirstPlaces(Append(flat, n))
         /\ Len(flat) + 1 \in FirstPlaces(Append(flat, n)) <=> n.key \notin Keys(flat)
<1>. DEFINE more == Append(flat, n)
            l == Len(flat)
<1>1. /\ l \in Nat /\ DOMAIN flat = 1..l /\ DOMAIN more = 1..(l + 1) /\ more[l + 1] = n
      /\ \A i \in 1..l : more[i] = flat[i] /\ i \in 1..(l + 1)
      /\ l + 1 \in 1..(l + 1) /\ (l + 1) - 1 = l
      /\ \A i \in 1..l : \A j \in 1..(i - 1) : j \in 1..l
  OBVIOUS
<1>. HIDE DEF more, l
<1>2. ASSUME NEW i \in 1..l PROVE i \in FirstPlaces(flat) <=> i \in FirstPlaces(more)
  BY <1>1 DEF FirstPlaces
<1>3. l + 1 \in FirstPlaces(more) <=> n.key \notin Keys(flat)
  BY <1>1 DEF FirstPlaces, Keys
<1>. QED  BY <1>2, <1>3 DEF more, l

\* A text laid over nothing has each key at the place where it was first written.
LEMMA LaidInOrder ==
  ASSUME NEW lists, NEW values, NEW below, Joins(lists, below),
         NEW flat \in Seq(Nodes(lists, values))
  PROVE  KeysOf(Laid(below, <<>>, flat)) = Kept(KeysOf(flat), FirstPlaces(flat))
<1>. DEFINE E == Nodes(lists, values)
            S == {t \in Seq(E) : KeysOf(Laid(below, <<>>, t)) = Kept(KeysOf(t), FirstPlaces(t))
                                   /\ Keys(Laid(below, <<>>, t)) = Keys(t)}
<1>0. <<>> \in NextLists(lists, values)
  BY DEF NextLists, KeysOnce
<1>1. <<>> \in S
  <2>1. Laid(below, <<>>, <<>>) = <<>>
    BY <1>0, LaidNone
  <2>2. KeysOf(<<>>) = <<>> /\ <<>> \in Seq(E)
    BY DEF KeysOf
  <2>. QED  BY <2>1, <2>2, KeptNone
<1>2. ASSUME NEW t \in Seq(E), NEW n \in E, t \in S PROVE Append(t, n) \in S
  <2>. DEFINE r == Laid(below, <<>>, t)
              more == Append(t, n)
              now == Put(below, r, n)
              ks == KeysOf(t)
              A == FirstPlaces(t)
              B == FirstPlaces(more)
  <2>1. r \in NextLists(lists, values) /\ Laid(below, <<>>, more) = now
    BY <1>0, LaidType, LaidOne
  <2>2. KeysOf(r) = Kept(ks, A) /\ Keys(r) = Keys(t)
    BY <1>2
  <2>3. /\ ks \in Seq(KeyName) /\ Len(ks) = Len(t) /\ KeysOf(more) = Append(ks, n.key)
        /\ n.key \in KeyName
    BY KeysOfOne, NodeFields
  <2>4. (\A i \in 1..Len(t) : i \in A <=> i \in B) /\ (Len(t) + 1 \in B <=> n.key \notin Keys(t))
    BY FirstPlacesOne
  <2>5. Keys(more) = Keys(t) \cup {n.key} /\ more \in Seq(E)
    <3>1. /\ DOMAIN t = 1..Len(t) /\ DOMAIN more = 1..(Len(t) + 1) /\ more[Len(t) + 1] = n
          /\ \A i \in 1..Len(t) : more[i] = t[i] /\ i \in 1..(Len(t) + 1)
          /\ Len(t) + 1 \in 1..(Len(t) + 1)
          /\ \A i \in 1..(Len(t) + 1) : i \in 1..Len(t) \/ i = Len(t) + 1
          /\ more \in Seq(E)
      OBVIOUS
    <3>. HIDE DEF more
    <3>. QED  BY <3>1 DEF Keys
  <2>. HIDE DEF r, ks, A, B
  <2>6. Keys(now) = Keys(r) \cup {n.key}
    BY <2>1, PutIs
  <2>7. Kept(KeysOf(more), B) = IF n.key \in Keys(t) THEN KeysOf(r) ELSE Append(KeysOf(r), n.key)
    <3>. DEFINE k == n.key
    <3>1. k \in KeyName /\ KeysOf(more) = Append(ks, k)
      BY <2>3
    <3>. HIDE DEF k
    <3>2. Kept(Append(ks, k), B) = IF Len(ks) + 1 \in B THEN Append(Kept(ks, B), k)
            ELSE Kept(ks, B)
      BY <2>3, <3>1, KeptOne
    <3>3. Kept(ks, A) = Kept(ks, B)
      BY <2>3, <2>4, KeptSame
    <3>. QED  BY <2>2, <2>3, <2>4, <3>1, <3>2, <3>3 DEF k
  <2>8. KeysOf(now) = IF n.key \in Keys(r) THEN KeysOf(r) ELSE Append(KeysOf(r), n.key)
    <3>0. /\ r \in Seq(E) /\ DOMAIN r = 1..Len(r) /\ \A i \in DOMAIN r : r[i] \in E
      BY <2>1, ListFacts
    <3>1. CASE n.key \notin Keys(r)
      <4>1. now = Append(r, n)
        BY <3>1 DEF Put
      <4>. HIDE DEF now
      <4>. QED  BY <3>0, <3>1, <4>1, KeysOfOne
    <3>2. CASE n.key \in Keys(r)
      <4>. DEFINE i == Slot(r, n.key)
                  c == Combine(below, r[i], n)
      <4>1. i \in DOMAIN r /\ r[i].key = n.key /\ r[i] \in E
        BY <2>1, <3>0, <3>2, SlotIs
      <4>2. c.key = n.key
        BY <4>1, CombineNode
      <4>3. now = [r EXCEPT ![i] = c]
        BY <3>2 DEF Put
      <4>. HIDE DEF i, c, now
      <4>4. DOMAIN now = DOMAIN r /\ \A j \in DOMAIN r : now[j].key = r[j].key
        BY <4>1, <4>2, <4>3
      <4>5. KeysOf(now) = KeysOf(r)
        BY <4>4 DEF KeysOf
      <4>. QED  BY <3>2, <4>5
    <3>. QED  BY <3>1, <3>2
  <2>9. KeysOf(Laid(below, <<>>, more)) = Kept(KeysOf(more), B)
    BY <2>1, <2>2, <2>7, <2>8
  <2>. QED  BY <2>1, <2>2, <2>5, <2>6, <2>9 DEF B
<1>3. Seq(E) \subseteq S
  <2>. HIDE DEF S
  <2>. QED  BY <1>1, <1>2, SeqInduct
<1>. QED  BY <1>3

-----------------------------------------------------------------------------
\* What finishing makes of what was composed.

\* Finishing what a text was folded to gives what the text means, and finishing a
\* value what the value means.
Agrees(texts, values, below, finish, mean) ==
  /\ \A a \in texts : finish.lists[below[<<<<>>, a>>]] = mean.lists[a]
  /\ \A v \in values : finish.values[v] = mean.values[v]

\* A node, finished, field by field.
FinishedAs(f, n) ==
  [key |-> n.key, kind |-> n.kind, value |-> f.values[n.value], children |-> f.lists[n.children],
   items |-> Each(f.values, n.items), replace |-> FALSE, leading |-> n.leading,
   trailing |-> n.trailing]

\* Records of a node's fields with the same fields are the same.
LEMMA FieldsEqual ==
  ASSUME NEW K1, NEW K2, NEW K3, NEW K4, NEW K5, NEW K6, NEW K7, NEW K8,
         NEW x \in [key: K1, kind: K2, value: K3, children: K4, items: K5, replace: K6,
                    leading: K7, trailing: K8],
         NEW y \in [key: K1, kind: K2, value: K3, children: K4, items: K5, replace: K6,
                    leading: K7, trailing: K8],
         x.key = y.key, x.kind = y.kind, x.value = y.value, x.children = y.children,
         x.items = y.items, x.replace = y.replace, x.leading = y.leading,
         x.trailing = y.trailing
  PROVE  x = y
OBVIOUS

\* A finished node is that record.
LEMMA FinishedIs ==
  ASSUME NEW lists, NEW values, NEW n \in Nodes(lists, values), NEW f
  PROVE  Finished(f, n) = FinishedAs(f, n)
<1>. DEFINE v == f.values[n.value]
            c == f.lists[n.children]
            s == Each(f.values, n.items)
<1>1. Finished(f, n) = [n EXCEPT !.replace = FALSE, !.children = c, !.value = v, !.items = s]
  BY DEF Finished
<1>2. FinishedAs(f, n) = [key |-> n.key, kind |-> n.kind, value |-> v, children |-> c, items |-> s,
                          replace |-> FALSE, leading |-> n.leading, trailing |-> n.trailing]
  BY DEF FinishedAs
<1>. HIDE DEF v, c, s
<1>3. [n EXCEPT !.replace = FALSE, !.children = c, !.value = v, !.items = s]
        = [key |-> n.key, kind |-> n.kind, value |-> v, children |-> c, items |-> s,
           replace |-> FALSE, leading |-> n.leading, trailing |-> n.trailing]
  <2>. DEFINE R == [key: {n.key}, kind: {n.kind}, value: {v}, children: {c}, items: {s},
                    replace: {FALSE}, leading: {n.leading}, trailing: {n.trailing}]
  <2>1. [n EXCEPT !.replace = FALSE, !.children = c, !.value = v, !.items = s] \in R
    BY DEF Nodes
  <2>2. [key |-> n.key, kind |-> n.kind, value |-> v, children |-> c, items |-> s,
         replace |-> FALSE, leading |-> n.leading, trailing |-> n.trailing] \in R
    OBVIOUS
  <2>3. ASSUME NEW x \in R, NEW y \in R PROVE x = y
    <3>1. /\ x.key = y.key /\ x.kind = y.kind /\ x.value = y.value
          /\ x.children = y.children /\ x.items = y.items /\ x.replace = y.replace
          /\ x.leading = y.leading /\ x.trailing = y.trailing
      OBVIOUS
    <3>. QED  BY <3>1, FieldsEqual
  <2>. QED  BY <2>1, <2>2, <2>3
<1>. QED  BY <1>1, <1>2, <1>3

\* What blocks mean, field by field.
LEMMA MeantBlockIs ==
  ASSUME NEW lists, NEW values, NEW blocks, blocks[1] \in Nodes(lists, values), NEW f
  PROVE  MeantBlock(f, blocks)
           = [key |-> blocks[1].key, kind |-> blocks[1].kind, value |-> f.values[blocks[1].value],
              children |-> f.lists[FlattenSeq(ChildrenOf(blocks))],
              items |-> Each(f.values, blocks[1].items), replace |-> FALSE,
              leading |-> Gathered(LeadingOf(blocks)), trailing |-> Gathered(TrailingOf(blocks))]
<1>. DEFINE c == f.lists[FlattenSeq(ChildrenOf(blocks))]
            l == Gathered(LeadingOf(blocks))
            t == Gathered(TrailingOf(blocks))
            n == blocks[1]
<1>1. MeantBlock(f, blocks) = [Finished(f, n) EXCEPT !.children = c, !.leading = l, !.trailing = t]
  BY DEF MeantBlock, ChildrenOf, LeadingOf, TrailingOf
<1>2. Finished(f, n) = FinishedAs(f, n)
  BY FinishedIs
<1>. HIDE DEF c, l, t, n
<1>3. [FinishedAs(f, n) EXCEPT !.children = c, !.leading = l, !.trailing = t]
        = [key |-> n.key, kind |-> n.kind, value |-> f.values[n.value], children |-> c,
           items |-> Each(f.values, n.items), replace |-> FALSE, leading |-> l, trailing |-> t]
  <2>. DEFINE v == f.values[n.value]
              s == Each(f.values, n.items)
              R == [key: {n.key}, kind: {n.kind}, value: {v}, children: {c}, items: {s},
                    replace: {FALSE}, leading: {l}, trailing: {t}]
  <2>1. [FinishedAs(f, n) EXCEPT !.children = c, !.leading = l, !.trailing = t] \in R
    BY DEF FinishedAs
  <2>2. [key |-> n.key, kind |-> n.kind, value |-> v, children |-> c, items |-> s,
         replace |-> FALSE, leading |-> l, trailing |-> t] \in R
    OBVIOUS
  <2>3. ASSUME NEW x \in R, NEW y \in R PROVE x = y
    <3>1. /\ x.key = y.key /\ x.kind = y.kind /\ x.value = y.value
          /\ x.children = y.children /\ x.items = y.items /\ x.replace = y.replace
          /\ x.leading = y.leading /\ x.trailing = y.trailing
      OBVIOUS
    <3>. QED  BY <3>1, FieldsEqual
  <2>. QED  BY <2>1, <2>2, <2>3
<1>. QED  BY <1>1, <1>2, <1>3 DEF c, l, t, n

\* Finishing agrees on the lists themselves, and on sequences of values.
LEMMA AgreesBelow ==
  ASSUME NEW lists, NEW values, NEW texts, NEW below, Folds(lists, texts, below),
         NEW f, NEW g, Agrees(texts, values, below, f, g)
  PROVE  /\ \A x \in lists : f.lists[x] = g.lists[x]
         /\ \A v \in values : f.values[v] = g.values[v]
         /\ \A s \in Seq(values) : Each(f.values, s) = Each(g.values, s)
<1>1. ASSUME NEW x \in lists PROVE f.lists[x] = g.lists[x]
  <2>1. x \in texts /\ below[<<<<>>, x>>] = x
    BY DEF Folds
  <2>. QED  BY <2>1 DEF Agrees
<1>2. \A v \in values : f.values[v] = g.values[v]
  BY DEF Agrees
<1>3. ASSUME NEW s \in Seq(values) PROVE Each(f.values, s) = Each(g.values, s)
  <2>1. \A i \in DOMAIN s : s[i] \in values
    OBVIOUS
  <2>. QED  BY <1>2, <2>1 DEF Each
<1>. QED  BY <1>1, <1>2, <1>3

\* The node of a key, finished, is what the text means for the key.
LEMMA KeyMeans ==
  ASSUME NEW lists, NEW values, NEW texts, NEW below, Folds(lists, texts, below),
         NEW f, NEW g, Agrees(texts, values, below, f, g),
         NEW blocks \in Seq(Nodes(lists, values)), NEW last \in Nodes(lists, values),
         NEW node \in Nodes(lists, values), Leaves(texts, below, blocks, last, node)
  PROVE  Finished(f, node) = IF last.kind = "block" THEN MeantBlock(g, blocks)
           ELSE Finished(g, last)
<1>1. Finished(f, node) = FinishedAs(f, node)
  BY FinishedIs
<1>2. /\ node.value \in values /\ node.items \in Seq(values) /\ node.children \in lists
  BY NodeFields
<1>3. f.values[node.value] = g.values[node.value]
      /\ Each(f.values, node.items) = Each(g.values, node.items)
      /\ f.lists[node.children] = g.lists[node.children]
  BY <1>2, AgreesBelow
<1>4. CASE last.kind = "block"
  <2>1. Gathers(texts, below, blocks, node)
    BY <1>4 DEF Leaves
  <2>2. blocks[1] \in Nodes(lists, values)
    <3>1. blocks # <<>>
      BY <2>1 DEF Gathers
    <3>2. Len(blocks) \in Nat /\ Len(blocks) # 0
      BY <3>1, EmptySeq
    <3>. QED  BY <3>2
  <2>. DEFINE text == FlattenSeq(ChildrenOf(blocks))
  <2>3. f.lists[node.children] = g.lists[text]
    BY <2>1 DEF Gathers, Agrees
  <2>4. MeantBlock(g, blocks)
          = [key |-> blocks[1].key, kind |-> blocks[1].kind, value |-> g.values[blocks[1].value],
              children |-> g.lists[text],
              items |-> Each(g.values, blocks[1].items), replace |-> FALSE,
              leading |-> Gathered(LeadingOf(blocks)), trailing |-> Gathered(TrailingOf(blocks))]
    BY <2>2, MeantBlockIs
  <2>. HIDE DEF text
  <2>5. /\ node.key = blocks[1].key /\ node.kind = blocks[1].kind
        /\ node.value = blocks[1].value /\ node.items = blocks[1].items
        /\ node.leading = Gathered(LeadingOf(blocks))
        /\ node.trailing = Gathered(TrailingOf(blocks))
    BY <2>1 DEF Gathers
  <2>6. FinishedAs(f, node) = MeantBlock(g, blocks)
    BY <1>3, <2>3, <2>4, <2>5, Zenon DEF FinishedAs
  <2>. QED  BY <1>1, <1>4, <2>6
<1>5. CASE last.kind # "block"
  <2>1. Resembles(node, last)
    BY <1>5 DEF Leaves
  <2>2. Finished(g, last) = FinishedAs(g, last)
    BY FinishedIs
  <2>3. /\ node.key = last.key /\ node.kind = last.kind /\ node.value = last.value
        /\ node.items = last.items /\ node.children = last.children
        /\ node.leading = last.leading /\ node.trailing = last.trailing
    BY <2>1 DEF Resembles
  <2>4. FinishedAs(f, node) = FinishedAs(g, last)
    BY <1>3, <2>3, Zenon DEF FinishedAs
  <2>. QED  BY <1>1, <1>5, <2>2, <2>4
<1>. QED  BY <1>4, <1>5

\* A text laid over nothing, finished, is what the text means.
LEMMA ListMeans ==
  ASSUME NEW lists, NEW values, NEW texts, NEW below, Folds(lists, texts, below),
         NEW f, NEW g, Agrees(texts, values, below, f, g),
         NEW flat \in Seq(Nodes(lists, values))
  PROVE  FinishedList(f, Laid(below, <<>>, flat)) = MeantList(g, flat)
<1>. DEFINE E == Nodes(lists, values)
            r == Laid(below, <<>>, flat)
            K == Keys(flat)
            h == [k \in K |-> Finished(f, KeyNode(r, k))]
            H == {h[k] : k \in K}
            ks == KeysOf(flat)
            D == {k \in K : LastNode(flat, k).kind # "delete"}
            A == FirstPlaces(flat)
<1>0. Joins(lists, below) /\ <<>> \in NextLists(lists, values)
  BY DEF Folds, NextLists, KeysOnce
<1>1. r \in NextLists(lists, values)
  BY <1>0, LaidType
<1>2. /\ r \in Seq(E) /\ DOMAIN r = 1..Len(r)
      /\ \A j \in DOMAIN r : r[j] \in E /\ r[j].key \in Keys(r)
  BY <1>1, ListFacts
<1>3. /\ Keys(r) = K
      /\ \A k \in K : Leaves(texts, below, BlocksOf(flat, k), LastNode(flat, k), KeyNode(r, k))
  BY LaidLeaves
<1>4. KeysOf(r) = Kept(ks, A)
  BY <1>0, LaidInOrder
<1>5. ks \in Seq(K) /\ DOMAIN ks = DOMAIN flat
      /\ \A i \in DOMAIN flat : ks[i] = flat[i].key /\ ks[i] \in K
  <2>1. DOMAIN flat = 1..Len(flat) /\ Len(flat) \in Nat
    OBVIOUS
  <2>2. ks = [i \in 1..Len(flat) |-> flat[i].key]
    BY <2>1 DEF KeysOf
  <2>3. \A i \in 1..Len(flat) : flat[i].key \in K
    BY <2>1 DEF Keys
  <2>. QED  BY <2>1, <2>2, <2>3
<1>6. Maps(h, K, H)
  BY DEF Maps
<1>. HIDE DEF r, E, K, h, H, ks, D, A
<1>7. Kept(Each(h, Kept(ks, A)), Among(Kept(ks, A), D))
        = Kept(Each(h, ks), AmongThose(ks, A, D))
  BY <1>5, <1>6, KeptTwice
<1>8. \A k \in K : h[k] = Finished(f, KeyNode(r, k))
  BY DEF h
<1>9. \A j \in DOMAIN r : KeyNode(r, r[j].key) = r[j]
  <2>1. \A j \in DOMAIN r : Slot(r, r[j].key) = j
    BY <1>1, SlotIs
  <2>. QED  BY <2>1 DEF KeyNode
<1>10. DOMAIN KeysOf(r) = DOMAIN r /\ \A j \in DOMAIN r : KeysOf(r)[j] = r[j].key /\ r[j].key \in K
  BY <1>2, <1>3 DEF KeysOf
<1>11. Each(h, KeysOf(r)) = [j \in DOMAIN r |-> Finished(f, r[j])]
  <2>1. \A j \in DOMAIN r : h[KeysOf(r)[j]] = Finished(f, r[j])
    BY <1>8, <1>9, <1>10
  <2>. QED  BY <1>10, <2>1 DEF Each
<1>12. Among(KeysOf(r), D) = {j \in DOMAIN r : r[j].kind # "delete"}
  <2>1. ASSUME NEW j \in DOMAIN r PROVE KeysOf(r)[j] \in D <=> r[j].kind # "delete"
    <3>1. Leaves(texts, below, BlocksOf(flat, r[j].key), LastNode(flat, r[j].key), r[j])
      BY <1>3, <1>9, <1>10
    <3>2. r[j].kind = LastNode(flat, r[j].key).kind
      BY <3>1 DEF Leaves
    <3>. QED  BY <1>10, <3>2 DEF D
  <2>. QED  BY <1>10, <2>1 DEF Among
<1>13. FinishedList(f, r) = Kept(Each(h, KeysOf(r)), Among(KeysOf(r), D))
  BY <1>11, <1>12 DEF FinishedList
<1>14. ASSUME NEW k \in K
       PROVE  Finished(f, KeyNode(r, k)) = Meant(g, flat, k)
  <2>. DEFINE blocks == BlocksOf(flat, k)
              last == LastNode(flat, k)
              node == KeyNode(r, k)
  <2>1. blocks \in Seq(E)
    BY KeptType DEF BlocksOf, E
  <2>2. last \in E
    <3>1. LastPlace(flat, k) \in DOMAIN flat
      BY LastOf DEF K
    <3>. QED  BY <3>1 DEF LastNode, E
  <2>3. node \in E
    <3>1. Slot(r, k) \in DOMAIN r
      BY <1>1, <1>3, SlotIs
    <3>. QED  BY <1>2, <3>1 DEF KeyNode
  <2>4. Leaves(texts, below, blocks, last, node)
    BY <1>3
  <2>5. Meant(g, flat, k) = IF last.kind = "block" THEN MeantBlock(g, blocks)
          ELSE Finished(g, last)
    BY DEF Meant, BlocksOf, LastNode
  <2>. HIDE DEF blocks, last, node
  <2>6. Finished(f, node) = IF last.kind = "block" THEN MeantBlock(g, blocks)
          ELSE Finished(g, last)
    BY <2>1, <2>2, <2>3, <2>4, KeyMeans DEF E
  <2>. QED  BY <2>5, <2>6 DEF node
<1>15. Each(h, ks) = [i \in DOMAIN flat |-> Meant(g, flat, flat[i].key)]
  <2>1. \A i \in DOMAIN flat : h[ks[i]] = Meant(g, flat, flat[i].key)
    BY <1>5, <1>8, <1>14
  <2>. QED  BY <1>5, <2>1 DEF Each
<1>16. AmongThose(ks, A, D)
         = {i \in A : flat[LastPlace(flat, flat[i].key)].kind # "delete"}
  <2>1. A \subseteq DOMAIN flat
    BY DEF A, FirstPlaces
  <2>2. \A i \in DOMAIN flat : ks[i] \in D <=> flat[LastPlace(flat, flat[i].key)].kind # "delete"
    BY <1>5 DEF D, LastNode
  <2>. QED  BY <1>5, <2>1, <2>2 DEF AmongThose
<1>17. MeantList(g, flat) = Kept(Each(h, ks), AmongThose(ks, A, D))
  BY <1>15, <1>16 DEF MeantList, A
<1>. QED  BY <1>4, <1>7, <1>13, <1>17 DEF r

\* Finishing where nothing nests, and where a depth below is finished already.
FirstFinishing == [lists |-> [list \in Lists(0) |-> <<>>], values |-> [v \in Values(0) |-> v]]

NextFinishing(n, below) ==
  [lists |-> [list \in Lists(n) |-> FinishedList(below, list)],
   values |-> [v \in Values(n) |-> Rebuilt(below, v)]]

\* f says what finishing does, to a depth.
FinishingUpTo(n, f) ==
  f[0] = FirstFinishing /\ \A i \in 1..n : f[i] = NextFinishing(i, f[i - 1])

\* To every depth there is such a finishing.
LEMMA FinishingExists ==
  ASSUME NEW n \in Nat
  PROVE  \E f : FinishingUpTo(n, f)
<1>. DEFINE S == {m \in Nat : \E f : FinishingUpTo(m, f)}
<1>1. 0 \in S
  <2>1. FinishingUpTo(0, [i \in 0..0 |-> FirstFinishing])
    BY DEF FinishingUpTo
  <2>. QED  BY <2>1
<1>2. ASSUME NEW m \in Nat, m \in S PROVE m + 1 \in S
  <2>1. PICK f : FinishingUpTo(m, f)
    BY <1>2
  <2>. DEFINE h == [i \in 0..(m + 1) |-> IF i = m + 1 THEN NextFinishing(m + 1, f[m]) ELSE f[i]]
  <2>2. /\ h[0] = f[0] /\ h[m + 1] = NextFinishing(m + 1, f[m]) /\ h[m] = f[m]
        /\ \A i \in 1..m : h[i] = f[i] /\ h[i - 1] = f[i - 1]
    OBVIOUS
  <2>3. f[0] = FirstFinishing /\ \A i \in 1..m : f[i] = NextFinishing(i, f[i - 1])
    BY <2>1 DEF FinishingUpTo
  <2>. HIDE DEF h
  <2>4. \A i \in 1..(m + 1) : h[i] = NextFinishing(i, h[i - 1])
    <3>1. \A i \in 1..(m + 1) : i \in 1..m \/ i = m + 1
      OBVIOUS
    <3>2. (m + 1) - 1 = m
      OBVIOUS
    <3>. QED  BY <2>2, <2>3, <3>1, <3>2
  <2>5. FinishingUpTo(m + 1, h)
    BY <2>2, <2>3, <2>4 DEF FinishingUpTo
  <2>. QED  BY <2>5
<1>3. Nat \subseteq S
  <2>. HIDE DEF S
  <2>. QED  BY <1>1, <1>2, Induct
<1>. QED  BY <1>3

\* Finishing at a depth is finishing what nodes and values hold at the depth below.
LEMMA FinishingUnfold ==
  /\ finishing[0] = FirstFinishing
  /\ \A n \in Nat : finishing[n + 1] = NextFinishing(n + 1, finishing[n])
<1>. DEFINE upTo == [n \in Nat |-> CHOOSE f : FinishingUpTo(n, f)]
            F == [n \in Nat |-> upTo[n][n]]
            R(f) == f = [n \in Nat |->
                          [lists |-> [list \in Lists(n) |->
                                        IF n = 0 THEN <<>> ELSE FinishedList(f[n - 1], list)],
                           values |-> [v \in Values(n) |->
                                         IF n = 0 THEN v ELSE Rebuilt(f[n - 1], v)]]]
<1>1. \A n \in Nat : FinishingUpTo(n, upTo[n])
  BY FinishingExists
<1>. HIDE DEF upTo
<1>2. \A n \in Nat : /\ upTo[n][0] = FirstFinishing
                     /\ \A i \in 1..n : upTo[n][i] = NextFinishing(i, upTo[n][i - 1])
  BY <1>1 DEF FinishingUpTo
<1>3. ASSUME NEW n \in Nat PROVE upTo[n + 1][n] = upTo[n][n]
  <2>1. ASSUME NEW f, NEW h, FinishingUpTo(n + 1, f), FinishingUpTo(n, h) PROVE f[n] = h[n]
    <3>1. InStep(f, h, n)
      <4>1. \A i \in 1..n : i \in 1..(n + 1)
        OBVIOUS
      <4>. QED  BY <2>1, <4>1 DEF InStep, FinishingUpTo
    <3>. QED  BY <3>1, StepAgree
  <2>2. n + 1 \in Nat
    OBVIOUS
  <2>. QED  BY <1>1, <2>1, <2>2
<1>4. F[0] = FirstFinishing
  BY <1>2
<1>5. ASSUME NEW n \in Nat PROVE F[n + 1] = NextFinishing(n + 1, F[n])
  <2>1. n + 1 \in Nat /\ n + 1 \in 1..(n + 1) /\ (n + 1) - 1 = n
    OBVIOUS
  <2>2. upTo[n + 1][n + 1] = NextFinishing(n + 1, upTo[n + 1][n])
    BY <1>2, <2>1
  <2>. QED  BY <1>3, <2>1, <2>2
<1>6. F = [n \in Nat |-> F[n]]
  OBVIOUS
<1>. HIDE DEF F
<1>7. \A n \in Nat : F[n] = IF n = 0 THEN FirstFinishing ELSE NextFinishing(n, F[n - 1])
  <2>1. \A n \in Nat : n = 0 \/ (n - 1 \in Nat /\ (n - 1) + 1 = n)
    OBVIOUS
  <2>. QED  BY <1>4, <1>5, <2>1
<1>8. R(F)
  <2>1. ASSUME NEW n \in Nat
        PROVE  F[n] =
             [lists |-> [list \in Lists(n) |->
                           IF n = 0 THEN <<>> ELSE FinishedList(F[n - 1], list)],
              values |-> [v \in Values(n) |->
                            IF n = 0 THEN v ELSE Rebuilt(F[n - 1], v)]]
    <3>1. CASE n = 0
      BY <1>7, <3>1 DEF FirstFinishing
    <3>2. CASE n # 0
      BY <1>7, <3>2 DEF NextFinishing
    <3>. QED  BY <3>1, <3>2
  <2>. QED  BY <1>6, <2>1
<1>9. R(finishing)
  <2>1. finishing = CHOOSE f : R(f)
    BY DEF finishing
  <2>. HIDE DEF R
  <2>. QED  BY <1>8, <2>1
<1>10. \A n \in Nat : finishing[n] = IF n = 0 THEN FirstFinishing
         ELSE NextFinishing(n, finishing[n - 1])
  BY <1>9 DEF FirstFinishing, NextFinishing
<1>11. \A n \in Nat : n + 1 \in Nat /\ n + 1 # 0 /\ (n + 1) - 1 = n
  OBVIOUS
<1>. HIDE DEF R
<1>. QED  BY <1>10, <1>11

\* What is meant where nothing nests, and where a depth below is known already.
FirstMeaning == [lists |-> [flat \in Written(0) |-> <<>>], values |-> [v \in Values(0) |-> v]]

NextMeaning(n, below) ==
  [lists |-> [flat \in Written(n) |-> MeantList(below, flat)],
   values |-> [v \in Values(n) |-> Rebuilt(below, v)]]

\* f says what texts mean, to a depth.
MeaningUpTo(n, f) ==
  f[0] = FirstMeaning /\ \A i \in 1..n : f[i] = NextMeaning(i, f[i - 1])

\* To every depth there is such a meaning.
LEMMA MeaningExists ==
  ASSUME NEW n \in Nat
  PROVE  \E f : MeaningUpTo(n, f)
<1>. DEFINE S == {m \in Nat : \E f : MeaningUpTo(m, f)}
<1>1. 0 \in S
  <2>1. MeaningUpTo(0, [i \in 0..0 |-> FirstMeaning])
    BY DEF MeaningUpTo
  <2>. QED  BY <2>1
<1>2. ASSUME NEW m \in Nat, m \in S PROVE m + 1 \in S
  <2>1. PICK f : MeaningUpTo(m, f)
    BY <1>2
  <2>. DEFINE h == [i \in 0..(m + 1) |-> IF i = m + 1 THEN NextMeaning(m + 1, f[m]) ELSE f[i]]
  <2>2. /\ h[0] = f[0] /\ h[m + 1] = NextMeaning(m + 1, f[m]) /\ h[m] = f[m]
        /\ \A i \in 1..m : h[i] = f[i] /\ h[i - 1] = f[i - 1]
    OBVIOUS
  <2>3. f[0] = FirstMeaning /\ \A i \in 1..m : f[i] = NextMeaning(i, f[i - 1])
    BY <2>1 DEF MeaningUpTo
  <2>. HIDE DEF h
  <2>4. \A i \in 1..(m + 1) : h[i] = NextMeaning(i, h[i - 1])
    <3>1. \A i \in 1..(m + 1) : i \in 1..m \/ i = m + 1
      OBVIOUS
    <3>2. (m + 1) - 1 = m
      OBVIOUS
    <3>. QED  BY <2>2, <2>3, <3>1, <3>2
  <2>5. MeaningUpTo(m + 1, h)
    BY <2>2, <2>3, <2>4 DEF MeaningUpTo
  <2>. QED  BY <2>5
<1>3. Nat \subseteq S
  <2>. HIDE DEF S
  <2>. QED  BY <1>1, <1>2, Induct
<1>. QED  BY <1>3

\* What is meant at a depth is said with what is meant at the depth below.
LEMMA MeaningUnfold ==
  /\ meaning[0] = FirstMeaning
  /\ \A n \in Nat : meaning[n + 1] = NextMeaning(n + 1, meaning[n])
<1>. DEFINE upTo == [n \in Nat |-> CHOOSE f : MeaningUpTo(n, f)]
            F == [n \in Nat |-> upTo[n][n]]
            R(f) == f = [n \in Nat |->
                          [lists |-> [flat \in Written(n) |->
                                        IF n = 0 THEN <<>> ELSE MeantList(f[n - 1], flat)],
                           values |-> [v \in Values(n) |->
                                         IF n = 0 THEN v ELSE Rebuilt(f[n - 1], v)]]]
<1>1. \A n \in Nat : MeaningUpTo(n, upTo[n])
  BY MeaningExists
<1>. HIDE DEF upTo
<1>2. \A n \in Nat : /\ upTo[n][0] = FirstMeaning
                     /\ \A i \in 1..n : upTo[n][i] = NextMeaning(i, upTo[n][i - 1])
  BY <1>1 DEF MeaningUpTo
<1>3. ASSUME NEW n \in Nat PROVE upTo[n + 1][n] = upTo[n][n]
  <2>1. ASSUME NEW f, NEW h, MeaningUpTo(n + 1, f), MeaningUpTo(n, h) PROVE f[n] = h[n]
    <3>1. InStep(f, h, n)
      <4>1. \A i \in 1..n : i \in 1..(n + 1)
        OBVIOUS
      <4>. QED  BY <2>1, <4>1 DEF InStep, MeaningUpTo
    <3>. QED  BY <3>1, StepAgree
  <2>2. n + 1 \in Nat
    OBVIOUS
  <2>. QED  BY <1>1, <2>1, <2>2
<1>4. F[0] = FirstMeaning
  BY <1>2
<1>5. ASSUME NEW n \in Nat PROVE F[n + 1] = NextMeaning(n + 1, F[n])
  <2>1. n + 1 \in Nat /\ n + 1 \in 1..(n + 1) /\ (n + 1) - 1 = n
    OBVIOUS
  <2>2. upTo[n + 1][n + 1] = NextMeaning(n + 1, upTo[n + 1][n])
    BY <1>2, <2>1
  <2>. QED  BY <1>3, <2>1, <2>2
<1>6. F = [n \in Nat |-> F[n]]
  OBVIOUS
<1>. HIDE DEF F
<1>7. \A n \in Nat : F[n] = IF n = 0 THEN FirstMeaning ELSE NextMeaning(n, F[n - 1])
  <2>1. \A n \in Nat : n = 0 \/ (n - 1 \in Nat /\ (n - 1) + 1 = n)
    OBVIOUS
  <2>. QED  BY <1>4, <1>5, <2>1
<1>8. R(F)
  <2>1. ASSUME NEW n \in Nat
        PROVE  F[n] =
             [lists |-> [flat \in Written(n) |->
                           IF n = 0 THEN <<>> ELSE MeantList(F[n - 1], flat)],
              values |-> [v \in Values(n) |->
                            IF n = 0 THEN v ELSE Rebuilt(F[n - 1], v)]]
    <3>1. CASE n = 0
      BY <1>7, <3>1 DEF FirstMeaning
    <3>2. CASE n # 0
      BY <1>7, <3>2 DEF NextMeaning
    <3>. QED  BY <3>1, <3>2
  <2>. QED  BY <1>6, <2>1
<1>9. R(meaning)
  <2>1. meaning = CHOOSE f : R(f)
    BY DEF meaning
  <2>. HIDE DEF R
  <2>. QED  BY <1>8, <2>1
<1>10. \A n \in Nat : meaning[n] = IF n = 0 THEN FirstMeaning ELSE NextMeaning(n, meaning[n - 1])
  BY <1>9 DEF FirstMeaning, NextMeaning
<1>11. \A n \in Nat : n + 1 \in Nat /\ n + 1 # 0 /\ (n + 1) - 1 = n
  OBVIOUS
<1>. HIDE DEF R
<1>. QED  BY <1>10, <1>11

-----------------------------------------------------------------------------
\* Every depth again.

\* Laying a text and then another is laying the one behind the other.
LEMMA LaidConcat ==
  ASSUME NEW lists, NEW values, NEW below, Joins(lists, below),
         NEW base \in NextLists(lists, values), NEW a \in Seq(Nodes(lists, values)),
         NEW c \in Seq(Nodes(lists, values))
  PROVE  Laid(below, Laid(below, base, a), c) = Laid(below, base, a \o c)
<1>. DEFINE E == Nodes(lists, values)
            S == {t \in Seq(E) : Laid(below, Laid(below, base, a), t) = Laid(below, base, a \o t)}
<1>0. Laid(below, base, a) \in NextLists(lists, values)
  BY LaidType
<1>1. <<>> \in S
  <2>1. <<>> \in Seq(E) /\ a \o <<>> = a
    OBVIOUS
  <2>2. Laid(below, Laid(below, base, a), <<>>) = Laid(below, base, a)
    BY <1>0, LaidNone
  <2>. QED  BY <2>1, <2>2
<1>2. ASSUME NEW t \in Seq(E), NEW n \in E, t \in S PROVE Append(t, n) \in S
  <2>1. Append(t, n) \in Seq(E) /\ a \o t \in Seq(E) /\ a \o Append(t, n) = Append(a \o t, n)
    OBVIOUS
  <2>2. Laid(below, base, Append(a \o t, n)) = Put(below, Laid(below, base, a \o t), n)
    <3>. DEFINE at == a \o t
    <3>1. at \in Seq(E)
      BY <2>1
    <3>. HIDE DEF at
    <3>2. Laid(below, base, Append(at, n)) = Put(below, Laid(below, base, at), n)
      BY <3>1, LaidOne
    <3>. QED  BY <3>2 DEF at
  <2>3. Laid(below, Laid(below, base, a), Append(t, n))
          = Put(below, Laid(below, Laid(below, base, a), t), n)
    BY <1>0, LaidOne
  <2>4. Laid(below, Laid(below, base, a), t) = Laid(below, base, a \o t)
    BY <1>2
  <2>5. Laid(below, Laid(below, base, a), Append(t, n)) = Laid(below, base, a \o Append(t, n))
    BY <2>1, <2>2, <2>3, <2>4
  <2>. QED  BY <2>1, <2>5
<1>3. Seq(E) \subseteq S
  <2>. HIDE DEF S, E
  <2>. QED  BY <1>1, <1>2, SeqInduct
<1>. QED  BY <1>3

\* At every depth merging folds what was written into lists.
LEMMA EveryDepthFolds ==
  ASSUME NEW n \in Nat
  PROVE  Folds(Lists(n), Written(n), merging[n])
<1>1. CASE n = 0
  <2>1. Lists(0) = {<<>>} /\ Written(0) = {<<>>}
    BY ListsUnfold DEF Written
  <2>2. merging[0][<<<<>>, <<>>>>] = <<>>
    BY <2>1, MergingUnfold DEF FirstMerging
  <2>3. <<>> \o <<>> = <<>> /\ <<>> \in Seq({})
    OBVIOUS
  <2>4. Joins(Lists(0), merging[0])
    BY EveryDepthJoins
  <2>5. \E E : Lists(0) \subseteq Seq(E)
    BY <2>1, <2>3
  <2>6. Folds(Lists(0), Written(0), merging[0])
    BY <2>1, <2>2, <2>3, <2>4, <2>5 DEF Folds
  <2>. QED  BY <1>1, <2>6
<1>2. ASSUME NEW m \in Nat, n = m + 1 PROVE Folds(Lists(n), Written(n), merging[n])
  <2>. DEFINE L == Lists(n)
              W == Written(n)
              mg == merging[n]
              below == merging[m]
              E == Nodes(Lists(m), Values(m))
  <2>1. /\ L = NextLists(Lists(m), Values(m)) /\ W = Seq(E)
        /\ Joins(Lists(m), below) /\ L \subseteq W
        /\ \A x \in L, y \in W : mg[<<x, y>>] = Laid(below, x, y)
    BY <1>2, MergingIsLaying
  <2>2. Joins(L, mg)
    BY EveryDepthJoins
  <2>. HIDE DEF L, W, mg, below
  <2>3. <<>> \in L
    BY <2>1 DEF NextLists, KeysOnce
  <2>4. \E X : L \subseteq Seq(X)
    BY <2>1
  <2>5. \A x \in L : mg[<<<<>>, x>>] = x
    BY <2>1, <2>3, LaidOverNone
  <2>6. \A a \in W : Laid(below, <<>>, a) \in L
    BY <2>1, <2>3, LaidType
  <2>7. \A a \in W : mg[<<<<>>, a>>] \in L
    BY <2>1, <2>3, <2>6
  <2>8. ASSUME NEW a \in W, NEW c \in L
        PROVE  a \o c \in W /\ mg[<<mg[<<<<>>, a>>], c>>] = mg[<<<<>>, a \o c>>]
    <3>1. a \in Seq(E) /\ c \in Seq(E) /\ c \in W
      BY <2>1
    <3>2. a \o c \in W
      <4>. HIDE DEF E
      <4>. QED  BY <2>1, <3>1
    <3>3. mg[<<<<>>, a>>] = Laid(below, <<>>, a)
          /\ mg[<<<<>>, a \o c>>] = Laid(below, <<>>, a \o c)
      BY <2>1, <2>3, <3>2
    <3>4. mg[<<Laid(below, <<>>, a), c>>] = Laid(below, Laid(below, <<>>, a), c)
      BY <2>1, <2>6, <3>1
    <3>5. <<>> \in NextLists(Lists(m), Values(m))
      BY <2>1, <2>3
    <3>6. Laid(below, Laid(below, <<>>, a), c) = Laid(below, <<>>, a \o c)
      <4>. DEFINE none == <<>>
      <4>1. none \in NextLists(Lists(m), Values(m))
        BY <3>5
      <4>. HIDE DEF none
      <4>2. Laid(below, Laid(below, none, a), c) = Laid(below, none, a \o c)
        BY <2>1, <3>1, <4>1, LaidConcat DEF E
      <4>. QED  BY <4>2 DEF none
    <3>. QED  BY <3>2, <3>3, <3>4, <3>6
  <2>9. Folds(L, W, mg)
    BY <2>1, <2>2, <2>4, <2>5, <2>7, <2>8, Zenon DEF Folds
  <2>. QED  BY <2>9 DEF L, W, mg
<1>3. n = 0 \/ (n - 1 \in Nat /\ n = (n - 1) + 1)
  OBVIOUS
<1>. QED  BY <1>1, <1>2, <1>3

\* A value rebuilt twice from the same parts is the same.
LEMMA RebuiltAgrees ==
  ASSUME NEW lists, NEW values, NEW texts, NEW below, Folds(lists, texts, below),
         NEW f, NEW g, Agrees(texts, values, below, f, g), NEW v \in Holding(lists, values)
  PROVE  Rebuilt(f, v) = Rebuilt(g, v)
<1>1. v.children \in lists /\ v.items \in Seq(values)
  BY DEF Holding
<1>2. f.lists[v.children] = g.lists[v.children]
      /\ Each(f.values, v.items) = Each(g.values, v.items)
  BY <1>1, AgreesBelow
<1>. QED  BY <1>2, Zenon DEF Rebuilt

\* At every depth, finishing what a text is folded to gives what the text means.
LEMMA EveryDepthAgrees ==
  \A n \in Nat : Agrees(Written(n), Values(n), merging[n], finishing[n], meaning[n])
<1>. DEFINE P(n) == Agrees(Written(n), Values(n), merging[n], finishing[n], meaning[n])
            S == {n \in Nat : P(n)}
<1>1. 0 \in S
  <2>1. Lists(0) = {<<>>} /\ Written(0) = {<<>>}
    BY ListsUnfold DEF Written
  <2>2. merging[0][<<<<>>, <<>>>>] = <<>>
    BY <2>1, MergingUnfold DEF FirstMerging
  <2>3. /\ finishing[0].lists[<<>>] = <<>> /\ meaning[0].lists[<<>>] = <<>>
        /\ \A v \in Values(0) : finishing[0].values[v] = v /\ meaning[0].values[v] = v
    BY <2>1, FinishingUnfold, MeaningUnfold DEF FirstFinishing, FirstMeaning
  <2>4. P(0)
    BY <2>1, <2>2, <2>3 DEF Agrees
  <2>. QED  BY <2>4
<1>2. ASSUME NEW n \in Nat, n \in S PROVE n + 1 \in S
  <2>. DEFINE below == merging[n]
              f == finishing[n]
              g == meaning[n]
              more == n + 1
  <2>1. Folds(Lists(n), Written(n), below) /\ Agrees(Written(n), Values(n), below, f, g)
    BY <1>2, EveryDepthFolds
  <2>2. /\ Lists(more) = NextLists(Lists(n), Values(n))
        /\ Written(more) = Seq(Nodes(Lists(n), Values(n)))
        /\ Values(more) = Holding(Lists(n), Values(n))
        /\ \A x \in Lists(more), y \in Written(more) : merging[more][<<x, y>>] = Laid(below, x, y)
    BY MergingIsLaying, ListsUnfold
  <2>3. finishing[more] = NextFinishing(more, f) /\ meaning[more] = NextMeaning(more, g)
    BY FinishingUnfold, MeaningUnfold
  <2>4. Folds(Lists(more), Written(more), merging[more])
    BY EveryDepthFolds
  <2>. HIDE DEF below, f, g, more
  <2>5. /\ \A list \in Lists(more) : finishing[more].lists[list] = FinishedList(f, list)
        /\ \A a \in Written(more) : meaning[more].lists[a] = MeantList(g, a)
        /\ \A v \in Values(more) :
             finishing[more].values[v] = Rebuilt(f, v) /\ meaning[more].values[v] = Rebuilt(g, v)
    BY <2>3 DEF NextFinishing, NextMeaning
  <2>6. ASSUME NEW a \in Written(more)
        PROVE  finishing[more].lists[merging[more][<<<<>>, a>>]] = meaning[more].lists[a]
    <3>1. <<>> \in Lists(more)
      BY <2>2 DEF NextLists, KeysOnce
    <3>2. merging[more][<<<<>>, a>>] = Laid(below, <<>>, a)
      BY <2>2, <3>1
    <3>3. merging[more][<<<<>>, a>>] \in Lists(more)
      BY <2>4 DEF Folds
    <3>4. finishing[more].lists[merging[more][<<<<>>, a>>]] = FinishedList(f, Laid(below, <<>>, a))
      BY <2>5, <3>2, <3>3
    <3>5. FinishedList(f, Laid(below, <<>>, a)) = MeantList(g, a)
      BY <2>1, <2>2, ListMeans
    <3>. QED  BY <2>5, <3>4, <3>5
  <2>7. \A v \in Values(more) : finishing[more].values[v] = meaning[more].values[v]
    BY <2>1, <2>2, <2>5, RebuiltAgrees
  <2>8. P(more)
    BY <2>6, <2>7 DEF Agrees
  <2>9. more \in Nat
    BY DEF more
  <2>10. more \in S
    <3>. HIDE DEF P
    <3>. QED  BY <2>8, <2>9
  <2>. QED  BY <2>10 DEF more
<1>3. Nat \subseteq S
  <2>. HIDE DEF S
  <2>. QED  BY <1>1, <1>2, Induct
<1>4. \A n \in Nat : P(n)
  <2>. HIDE DEF P
  <2>. QED  BY <1>3
<1>. QED  BY <1>4

-----------------------------------------------------------------------------
\* What layers mean.

\* Layers are what all their nodes in a row fold to.
LEMMA LayeredFolds ==
  ASSUME NEW run \in Seq(Overlays)
  PROVE  /\ FlattenSeq(run) \in Written(Nesting)
         /\ Layered(run) = MergeNodes(<<>>, FlattenSeq(run))
<1>. DEFINE P(r) == /\ FlattenSeq(r) \in Written(Nesting)
                    /\ Layered(r) = MergeNodes(<<>>, FlattenSeq(r))
            S == {r \in Seq(Overlays) : P(r)}
<1>1. Folds(Overlays, Written(Nesting), merging[Nesting])
  BY EveryDepthFolds, NestingAssumption DEF Overlays
<1>2. PICK E : Overlays \subseteq Seq(E)
  BY <1>1 DEF Folds
<1>3. <<>> \in Overlays /\ \A x \in Overlays : MergeNodes(<<>>, x) = x
  BY OverlaysCompose
<1>4. <<>> \in S
  <2>1. <<>> \in Written(Nesting)
    BY <1>1, <1>3 DEF Folds
  <2>2. <<>> \in Seq(Overlays)
    OBVIOUS
  <2>3. MergeNodes(<<>>, <<>>) = <<>>
    BY <1>3
  <2>4. P(<<>>)
    BY <2>1, <2>3, FlattenNone, LayeredNone
  <2>. QED  BY <2>2, <2>4
<1>5. ASSUME NEW r \in Seq(Overlays), NEW doc \in Overlays, r \in S PROVE Append(r, doc) \in S
  <2>. DEFINE text == FlattenSeq(r)
              more == Append(r, doc)
  <2>1. r \in Seq(Seq(E)) /\ doc \in Seq(E) /\ more \in Seq(Overlays)
    BY <1>2
  <2>2. FlattenSeq(more) = text \o doc
    BY <2>1, FlattenOne
  <2>3. Layered(more) = MergeNodes(Layered(r), doc)
    BY LayeredOne
  <2>4. text \in Written(Nesting) /\ Layered(r) = MergeNodes(<<>>, text)
    BY <1>5
  <2>. HIDE DEF text, more
  <2>5. /\ text \o doc \in Written(Nesting)
        /\ MergeNodes(MergeNodes(<<>>, text), doc) = MergeNodes(<<>>, text \o doc)
    BY <1>1, <2>4 DEF Folds, MergeNodes
  <2>6. P(more)
    BY <2>2, <2>3, <2>4, <2>5
  <2>7. more \in S
    <3>. HIDE DEF P
    <3>. QED  BY <2>1, <2>6
  <2>. QED  BY <2>7 DEF more
<1>6. Seq(Overlays) \subseteq S
  <2>. HIDE DEF S
  <2>. QED  BY <1>4, <1>5, SeqInduct
<1>7. P(run)
  <2>. HIDE DEF P
  <2>. QED  BY <1>6
<1>. QED  BY <1>7

\* Materializing composed layers gives what the layers mean, however deep blocks and
\* values nest: Denote never composes, so what merge_nodes does to a key level by
\* level, and materialize_nodes afterwards, adds up to the key's place, its last
\* occurrence, and the blocks behind its last barrier.
THEOREM MaterializedMeaning ==
  \A run \in Seq(Overlays) : MaterializeNodes(Layered(run)) = Denote(run)
<1>. SUFFICES ASSUME NEW run \in Seq(Overlays)
              PROVE  MaterializeNodes(Layered(run)) = Denote(run)
  OBVIOUS
<1>. DEFINE text == FlattenSeq(run)
<1>1. text \in Written(Nesting) /\ Layered(run) = MergeNodes(<<>>, text)
  BY LayeredFolds
<1>. HIDE DEF text
<1>2. Agrees(Written(Nesting), Values(Nesting), merging[Nesting], finishing[Nesting],
             meaning[Nesting])
  BY EveryDepthAgrees, NestingAssumption
<1>3. finishing[Nesting].lists[MergeNodes(<<>>, text)] = meaning[Nesting].lists[text]
  BY <1>1, <1>2 DEF Agrees, MergeNodes
<1>. QED  BY <1>1, <1>3 DEF MaterializeNodes, Denote, text

\* ComposedMeaning, for any sources and any number of layers.
THEOREM AlwaysComposedMeaning == Spec => []ComposedMeaning
<1>1. ASSUME CompositionInv PROVE ComposedMeaning
  <2>. SUFFICES ASSUME NEW j \in DOMAIN parts
                PROVE  MaterializeNodes(parts[j].doc) = Denote(Run(parts[j]))
    BY DEF ComposedMeaning
  <2>1. layers \in Seq(Overlays) /\ parts[j] \in Parts
    BY <1>1 DEF CompositionInv, PartsTyped
  <2>2. 1 <= parts[j].lo /\ parts[j].lo <= parts[j].hi /\ parts[j].hi <= Len(layers)
    BY <1>1 DEF CompositionInv, PartsInOrder
  <2>3. parts[j].doc = Layered(Run(parts[j]))
    BY <1>1 DEF CompositionInv, BracketingIrrelevant
  <2>4. Run(parts[j]) \in Seq(Overlays)
    BY <2>1, <2>2 DEF Run, Parts
  <2>. QED  BY <2>3, <2>4, MaterializedMeaning
<1>. QED  BY InvInit, InvNext, <1>1, PTL DEF Spec
=============================================================================

---------------------------- MODULE LexerProofs -----------------------------
(***************************************************************************)
(* Proofs about Lexer, for sources of any length: where tokens and errors  *)
(* are placed, which numbers are read, what strings are decoded to, and    *)
(* which sources are let in.                                               *)
(***************************************************************************)
EXTENDS Lexer, SequenceLemmas

\* LineOf, ColOf and the cursor at a place, of any text.
LineIn(text, pos) == 1 + Cardinality({i \in 1..(pos - 1) : text[i] = NL})

BreaksIn(text, pos) == {i \in 0..(pos - 1) : i = 0 \/ text[i] = NL}

ColIn(text, pos) == pos - Max(BreaksIn(text, pos))

PlaceIn(text, pos) == [pos |-> pos, line |-> LineIn(text, pos), col |-> ColIn(text, pos)]

At(pos) == PlaceIn(src, pos)

Places == 1..(Len(src) + 1)

-----------------------------------------------------------------------------
(* The cursor *)

\* A finite set of naturals that is not empty has a largest element, and Max is it.
LEMMA MaxIs ==
  ASSUME NEW S, NEW m \in S, S \subseteq Int, \A k \in S : k <= m
  PROVE  Max(S) = m
<1>1. \A k \in S : m >= k
  OBVIOUS
<1>2. \A k \in S : (\A j \in S : k >= j) => k = m
  OBVIOUS
<1>. QED  BY <1>1, <1>2 DEF Max

\* The least element of a set of integers.
LEMMA MinIs ==
  ASSUME NEW S, NEW m \in S, S \subseteq Int, \A k \in S : m <= k
  PROVE  Min(S) = m
<1>1. \A k \in S : (\A j \in S : k <= j) => k = m
  OBVIOUS
<1>. QED  BY <1>1 DEF Min

\* There is a last line end, or the beginning, before a place.
LEMMA LastBreak ==
  ASSUME NEW text, NEW p \in Nat \ {0}
  PROVE  \E m \in BreaksIn(text, p) : /\ \A k \in BreaksIn(text, p) : k <= m
                                      /\ m \in Nat /\ m < p /\ Max(BreaksIn(text, p)) = m
<1>. DEFINE S == {n \in Nat : n < p => \E m \in BreaksIn(text, p) :
                       m <= n /\ \A k \in BreaksIn(text, p) : k <= n => k <= m}
<1>1. 0 \in S
  BY DEF BreaksIn
<1>2. ASSUME NEW n \in Nat, n \in S PROVE n + 1 \in S
  <2>1. SUFFICES ASSUME n + 1 < p
                 PROVE  \E m \in BreaksIn(text, p) :
                          m <= n + 1 /\ \A k \in BreaksIn(text, p) : k <= n + 1 => k <= m
    OBVIOUS
  <2>2. PICK m \in BreaksIn(text, p) : m <= n /\ \A k \in BreaksIn(text, p) : k <= n => k <= m
    BY <1>2, <2>1
  <2>3. BreaksIn(text, p) \subseteq Nat
    BY DEF BreaksIn
  <2>4. CASE n + 1 \in BreaksIn(text, p)
    BY <2>4
  <2>5. CASE n + 1 \notin BreaksIn(text, p)
    <3>1. m <= n + 1
      BY <2>2, <2>3
    <3>2. \A k \in BreaksIn(text, p) : k <= n + 1 => k <= m
      BY <2>2, <2>3, <2>5
    <3>. QED  BY <3>1, <3>2
  <2>. QED  BY <2>4, <2>5
<1>3. p - 1 \in S
  <2>. HIDE DEF S
  <2>1. Nat \subseteq S
    BY <1>1, <1>2, Induct
  <2>. QED  BY <2>1
<1>4. PICK m \in BreaksIn(text, p) :
        m <= p - 1 /\ \A k \in BreaksIn(text, p) : k <= p - 1 => k <= m
  BY <1>3
<1>5. BreaksIn(text, p) \subseteq 0..(p - 1)
  BY DEF BreaksIn
<1>6. \A k \in BreaksIn(text, p) : k <= m
  BY <1>4, <1>5
<1>7. BreaksIn(text, p) \subseteq Int /\ m \in Nat /\ m < p
  BY <1>4, <1>5
<1>8. Max(BreaksIn(text, p)) = m
  BY <1>6, <1>7, MaxIs
<1>. QED  BY <1>6, <1>7, <1>8

\* Lines and columns are counted from one.
LEMMA PlaceTyped ==
  ASSUME NEW text, NEW p \in Nat \ {0}
  PROVE  LineIn(text, p) \in Nat /\ ColIn(text, p) \in Nat
<1>1. ColIn(text, p) \in Nat
  BY LastBreak DEF ColIn
<1>2. {i \in 1..(p - 1) : text[i] = NL} \subseteq 1..(p - 1) /\ IsFiniteSet(1..(p - 1))
  BY FS_Interval
<1>3. IsFiniteSet({i \in 1..(p - 1) : text[i] = NL})
  BY <1>2, FS_Subset
<1>4. Cardinality({i \in 1..(p - 1) : text[i] = NL}) \in Nat
  BY <1>3, FS_CardinalityType
<1>. QED  BY <1>1, <1>4 DEF LineIn

\* Over bytes none of which ends a line, the line stays and the column grows.
LEMMA PlaceOnLine ==
  ASSUME NEW text, NEW p \in Nat \ {0}, NEW q \in Nat, p <= q,
         \A i \in p..(q - 1) : text[i] # NL
  PROVE  LineIn(text, q) = LineIn(text, p) /\ ColIn(text, q) = ColIn(text, p) + (q - p)
<1>1. {i \in 1..(q - 1) : text[i] = NL} = {i \in 1..(p - 1) : text[i] = NL}
  OBVIOUS
<1>2. BreaksIn(text, q) = BreaksIn(text, p)
  BY DEF BreaksIn
<1>3. PICK m : m \in Nat /\ Max(BreaksIn(text, p)) = m
  BY LastBreak
<1>4. LineIn(text, q) = LineIn(text, p)
  BY <1>1 DEF LineIn
<1>5. ColIn(text, q) = q - m /\ ColIn(text, p) = p - m
  BY <1>2, <1>3 DEF ColIn
<1>. QED  BY <1>3, <1>4, <1>5

\* Past a line end, the next line begins.
LEMMA PlaceNextLine ==
  ASSUME NEW text, NEW p \in Nat \ {0}, text[p] = NL
  PROVE  LineIn(text, p + 1) = LineIn(text, p) + 1 /\ ColIn(text, p + 1) = 1
<1>. DEFINE before == {i \in 1..(p - 1) : text[i] = NL}
<1>1. {i \in 1..((p + 1) - 1) : text[i] = NL} = before \cup {p}
  OBVIOUS
<1>2. IsFiniteSet(before) /\ p \notin before
  BY FS_Interval, FS_Subset
<1>3. Cardinality(before \cup {p}) = Cardinality(before) + 1 /\ Cardinality(before) \in Nat
  <2>. HIDE DEF before
  <2>. QED  BY <1>2, FS_AddElement, FS_CardinalityType
<1>4. Max(BreaksIn(text, p + 1)) = p
  <2>1. /\ p \in BreaksIn(text, p + 1) /\ BreaksIn(text, p + 1) \subseteq Int
        /\ \A k \in BreaksIn(text, p + 1) : k <= p
    BY DEF BreaksIn
  <2>. QED  BY <2>1, MaxIs
<1>5. LineIn(text, p) = 1 + Cardinality(before)
  BY DEF LineIn
<1>6. LineIn(text, p + 1) = 1 + Cardinality(before \cup {p})
  BY <1>1 DEF LineIn
<1>7. ColIn(text, p + 1) = (p + 1) - p
  BY <1>4 DEF ColIn
<1>. HIDE DEF before
<1>. QED  BY <1>3, <1>5, <1>6, <1>7

\* The start.
LEMMA PlaceFirst ==
  ASSUME NEW text
  PROVE  PlaceIn(text, 1) = Start
<1>1. {i \in 1..(1 - 1) : text[i] = NL} = {}
  OBVIOUS
<1>2. BreaksIn(text, 1) = {0}
  BY DEF BreaksIn
<1>3. Max({0}) = 0
  BY MaxIs
<1>. QED  BY <1>1, <1>2, <1>3, FS_EmptySet DEF LineIn, ColIn, PlaceIn, Start

\* advance moves the cursor by one byte.
LEMMA AdvanceIs ==
  ASSUME src \in Seq(Byte), NEW p \in 1..Len(src)
  PROVE  Advance(At(p)) = At(p + 1)
<1>1. At(p).pos = p /\ ~ AtEnd(At(p)) /\ Peek(At(p)) = src[p] /\ p \in Nat \ {0}
  BY DEF At, PlaceIn, AtEnd, Peek
<1>2. CASE src[p] = NL
  BY <1>1, <1>2, PlaceNextLine DEF Advance, Jump, At, PlaceIn
<1>3. CASE src[p] # NL
  <2>1. LineIn(src, p + 1) = LineIn(src, p) /\ ColIn(src, p + 1) = ColIn(src, p) + 1
    BY <1>1, <1>3, PlaceOnLine
  <2>. QED  BY <1>1, <1>3, <2>1 DEF Advance, Jump, At, PlaceIn
<1>. QED  BY <1>2, <1>3

\* So does a jump over bytes none of which ends a line.
LEMMA JumpIs ==
  ASSUME src \in Seq(Byte), NEW p \in Places, NEW q \in Places, p <= q,
         \A i \in p..(q - 1) : src[i] # NL
  PROVE  Jump(At(p), q - p) = At(q)
<1>1. p \in Nat \ {0} /\ q \in Nat
  BY DEF Places
<1>2. LineIn(src, q) = LineIn(src, p) /\ ColIn(src, q) = ColIn(src, p) + (q - p)
  BY <1>1, PlaceOnLine
<1>3. /\ LineIn(src, p) \in Nat /\ ColIn(src, p) \in Nat
      /\ p + (q - p) = q
  BY <1>1, PlaceTyped
<1>4. Jump(At(p), q - p) = [pos |-> p + (q - p), line |-> LineIn(src, p),
                            col |-> ColIn(src, p) + (q - p)]
  BY DEF Jump, At, PlaceIn
<1>. QED  BY <1>2, <1>3, <1>4 DEF At, PlaceIn

\* f is the cursor at every turn of a loop of advances.
AdvancedRun(c, count, f) == f[0] = c /\ \A i \in 1..count : f[i] = Advance(f[i - 1])

Cursors == [pos : Nat, line : Nat, col : Nat]

\* What Advanced computes is the last cursor of such a run.
LEMMA AdvancedUnfold ==
  ASSUME NEW c \in Cursors, NEW n \in Nat
  PROVE  \E f : AdvancedRun(c, n, f) /\ Advanced(c, n) = f[n]
<1>. DEFINE D == Cursors
            g == [p \in D \X (1..n) |-> Advance(p[1])]
            R(after) == after = [i \in 0..n |-> IF i = 0 THEN c ELSE Advance(after[i - 1])]
<1>1. \A t \in D, i \in 1..n : g[<<t, i>>] = Advance(t)
  OBVIOUS
<1>2. g \in [D \X (1..n) -> D]
  <2>1. \A t \in D : Advance(t) \in D
    <3>1. ASSUME NEW t \in D PROVE Advance(t) \in D
      <4>1. /\ t = [pos |-> t.pos, line |-> t.line, col |-> t.col]
            /\ t.pos \in Nat /\ t.line \in Nat /\ t.col \in Nat
        BY DEF Cursors
      <4>3. \/ Advance(t) = [pos |-> t.pos + 1, line |-> t.line + 1, col |-> 1]
            \/ Advance(t) = [pos |-> t.pos + 1, line |-> t.line, col |-> t.col + 1]
        BY DEF Advance, Jump
      <4>. QED  BY <4>1, <4>3 DEF Cursors
    <3>. QED  BY <3>1
  <2>2. \A p \in D \X (1..n) : p[1] \in D
    OBVIOUS
  <2>. HIDE DEF D
  <2>. QED  BY <2>1, <2>2
<1>. HIDE DEF g, D
<1>3. PICK f \in [0..n -> D] : Folding(f, c, g, n)
  <2>1. c \in D
    BY DEF D
  <2>. QED  BY <1>2, <2>1, FoldExists
<1>4. \A i \in 1..n : i - 1 \in 0..n /\ i \in 0..n /\ i # 0
  OBVIOUS
<1>5. AdvancedRun(c, n, f)
  BY <1>1, <1>3, <1>4 DEF Folding, AdvancedRun
<1>6. R(f)
  <2>1. f = [i \in 0..n |-> f[i]]
    OBVIOUS
  <2>2. \A i \in 0..n : i = 0 \/ i \in 1..n
    OBVIOUS
  <2>3. \A i \in 0..n : f[i] = IF i = 0 THEN c ELSE Advance(f[i - 1])
    BY <1>5, <2>2 DEF AdvancedRun
  <2>. QED  BY <2>1, <2>3
<1>7. PICK h : R(h) /\ Advanced(c, n) = h[n]
  <2>. DEFINE h == CHOOSE after : R(after)
  <2>1. Advanced(c, n) = h[n]
    BY DEF Advanced
  <2>2. R(h)
    <3>. HIDE DEF R
    <3>. QED  BY <1>6
  <2>. QED  BY <2>1, <2>2
<1>8. AdvancedRun(c, n, h)
  <2>1. \A i \in 0..n : h[i] = IF i = 0 THEN c ELSE Advance(h[i - 1])
    BY <1>7
  <2>. QED  BY <1>4, <2>1 DEF AdvancedRun
<1>. QED  BY <1>7, <1>8

\* The cursor at a place is a cursor.
LEMMA AtTyped ==
  ASSUME src \in Seq(Byte), NEW p \in Places
  PROVE  At(p) \in Cursors /\ At(p).pos = p
<1>1. p \in Nat \ {0}
  BY DEF Places
<1>. QED  BY <1>1, PlaceTyped DEF At, PlaceIn, Cursors

\* That many advances move the cursor by as many bytes.
LEMMA AdvancedIs ==
  ASSUME src \in Seq(Byte), NEW p \in Places, NEW n \in Nat, p + n \in Places
  PROVE  Advanced(At(p), n) = At(p + n)
<1>1. PICK f : AdvancedRun(At(p), n, f) /\ Advanced(At(p), n) = f[n]
  BY AtTyped, AdvancedUnfold
<1>. DEFINE S == {i \in Nat : i <= n => f[i] = At(p + i)}
<1>2. p \in Nat \ {0} /\ Len(src) \in Nat
  BY DEF Places
<1>3. 0 \in S
  <2>1. p + 0 = p
    BY <1>2
  <2>. QED  BY <1>1, <2>1 DEF AdvancedRun
<1>4. ASSUME NEW i \in Nat, i \in S PROVE i + 1 \in S
  <2>1. SUFFICES ASSUME i + 1 <= n PROVE f[i + 1] = At(p + (i + 1))
    OBVIOUS
  <2>2. i + 1 \in 1..n /\ (i + 1) - 1 = i /\ p + i \in 1..Len(src) /\ p + (i + 1) = (p + i) + 1
    BY <1>2, <2>1 DEF Places
  <2>3. f[i] = At(p + i)
    BY <1>4, <2>1
  <2>4. f[i + 1] = Advance(f[i])
    BY <1>1, <2>2 DEF AdvancedRun
  <2>. QED  BY <2>2, <2>3, <2>4, AdvanceIs
<1>5. n \in S
  <2>. HIDE DEF S
  <2>1. Nat \subseteq S
    BY <1>3, <1>4, Induct
  <2>. QED  BY <2>1
<1>. QED  BY <1>1, <1>5

\* Where a run of bytes of a class ends.
LEMMA RunEndIs ==
  ASSUME src \in Seq(Byte), NEW p \in Places, NEW class
  PROVE  \E q \in Places : /\ RunEnd(At(p), class) = q /\ p <= q
                           /\ \A i \in p..(q - 1) : src[i] \in class
                           /\ q <= Len(src) => src[q] \notin class
<1>. DEFINE ends == {i \in p..Len(src) : src[i] \notin class} \cup {Len(src) + 1}
<1>1. ends \subseteq Nat /\ ends # {} /\ ends \subseteq Places /\ \A k \in ends : p <= k
  BY DEF Places
<1>2. PICK q \in ends : \A k \in ends : q <= k
  <2>. HIDE DEF ends
  <2>. QED  BY <1>1, Least
<1>3. RunEnd(At(p), class) = Min(ends)
  BY AtTyped DEF RunEnd
<1>4. Min(ends) = q
  <2>1. ends \subseteq Int
    BY <1>1
  <2>. HIDE DEF ends
  <2>. QED  BY <1>2, <2>1, MinIs
<1>5. q \in Places /\ p <= q
  BY <1>1
<1>6. \A i \in p..(q - 1) : src[i] \in class
  BY <1>1, <1>2 DEF Places
<1>7. q <= Len(src) => src[q] \notin class
  BY <1>5 DEF Places
<1>. QED  BY <1>3, <1>4, <1>5, <1>6, <1>7

\* Where the cursor is past the bytes of a class.
LEMMA AdvanceWhileIs ==
  ASSUME src \in Seq(Byte), NEW p \in Places, NEW class
  PROVE  \E q \in Places : /\ AdvanceWhile(At(p), class) = At(q) /\ p <= q
                           /\ \A i \in p..(q - 1) : src[i] \in class
                           /\ q <= Len(src) => src[q] \notin class
<1>1. PICK q \in Places : /\ RunEnd(At(p), class) = q /\ p <= q
                          /\ \A i \in p..(q - 1) : src[i] \in class
                          /\ q <= Len(src) => src[q] \notin class
  BY RunEndIs
<1>2. q - p \in Nat /\ p + (q - p) = q
  BY <1>1 DEF Places
<1>3. Advanced(At(p), q - p) = At(q)
  BY <1>2, AdvancedIs
<1>4. AdvanceWhile(At(p), class) = At(q)
  BY <1>1, <1>3, AtTyped DEF AdvanceWhile
<1>. QED  BY <1>1, <1>4

-----------------------------------------------------------------------------
(* The invariant *)

\* NumberRun, of any text.
RunIn(text, pos) ==
  LET after == IF text[pos] = "-" THEN pos + 1 ELSE pos
      ends == {i \in after..Len(text) : text[i] \notin IdentChar \cup {"."}} \cup {Len(text) + 1}
  IN  SubSeq(text, pos, Min(ends) - 1)

\* What a string token is decoded to.
Decodes(raw) ==
  IF Len(raw) > 2 /\ SubSeq(raw, 1, 3) = TripleQuote
  THEN Unescape(raw) = SubSeq(raw, 4, Len(raw) - 3)
  ELSE ~ Contains(Unescape(raw), InvalidEscape)

\* What a token's text may be, by its tag and the place where it begins.
Fits(text, tag, pos, read) ==
  /\ tag \in {"int", "float"} => read = RunIn(text, pos)
  /\ tag = "int" => IsIntLiteral(read)
  /\ tag = "float" => IsFloatLiteral(read)
  /\ tag = "string" => Decodes(read)

TokenRight(text, token) ==
  /\ token.line = LineIn(text, token.from) /\ token.col = ColIn(text, token.from)
  /\ Fits(text, token.tag, token.from, token.text)

\* What an error says of the text, by its code and its place.
Tells(text, code, pos) ==
  /\ code \in {"INVALID_INT", "INVALID_FLOAT"} =>
       ~ IsIntLiteral(RunIn(text, pos)) /\ ~ IsFloatLiteral(RunIn(text, pos))
  /\ code = "INVALID_UTF8" =>
       /\ IsUtf8(SubSeq(text, 1, pos - 1))
       /\ \A end \in pos..Len(text) : ~ IsUtf8(SubSeq(text, pos, end))

FailureRight(text, f) ==
  /\ f.code # "none"
  /\ f.line = LineIn(text, f.pos) /\ f.col = ColIn(text, f.pos)
  /\ Tells(text, f.code, f.pos)

\* The cursor is in step with what is before it, every token and every error is as
\* it should be, and nothing but UTF-8 is read.
IInv ==
  /\ src \in Seq(Byte) /\ IsSeq(tokens)
  /\ \/ cursor.pos = 0
     \/ IsUtf8(src) /\ \E p \in Places : cursor = At(p)
  /\ \A i \in DOMAIN tokens : TokenRight(src, tokens[i])
  /\ failure = None \/ FailureRight(src, failure)

\* The invariant is kept by a token that fits.
LEMMA Emitted ==
  ASSUME IInv, IsUtf8(src), NEW b \in Places, Begin = At(b), NEW q \in Places, NEW tag,
         NEW read, Emit(tag, At(q), read), Fits(src, tag, b, read)
  PROVE  IInv'
<1>. DEFINE token == [tag |-> tag, line |-> Begin.line, col |-> Begin.col,
                      from |-> Begin.pos, to |-> At(q).pos, text |-> read]
<1>1. TokenRight(src, token)
  <2>1. Begin.line = LineIn(src, b) /\ Begin.col = ColIn(src, b) /\ Begin.pos = b
    BY DEF At, PlaceIn
  <2>. QED  BY <2>1 DEF TokenRight
<1>2. /\ tokens' = Append(tokens, token) /\ cursor' = At(q)
      /\ src' = src /\ failure' = failure
  BY DEF Emit
<1>. HIDE DEF token
<1>3. /\ IsSeq(tokens') /\ Len(tokens') = Len(tokens) + 1
      /\ \A i \in 1..Len(tokens) : tokens'[i] = tokens[i]
      /\ tokens'[Len(tokens) + 1] = token
  BY <1>2, SeqAppend DEF IInv
<1>4. \A i \in DOMAIN tokens' : TokenRight(src, tokens'[i])
  <2>1. Len(tokens) \in Nat /\ DOMAIN tokens = 1..Len(tokens) /\ DOMAIN tokens' = 1..Len(tokens')
    BY <1>3, SeqLen DEF IInv
  <2>2. \A i \in DOMAIN tokens' : i \in DOMAIN tokens \/ i = Len(tokens) + 1
    BY <1>3, <2>1
  <2>. QED  BY <1>1, <1>3, <2>1, <2>2 DEF IInv
<1>5. \E p \in Places' : cursor' = At(p)'
  BY <1>2 DEF At, Places
<1>. QED  BY <1>2, <1>3, <1>4, <1>5 DEF IInv

\* The invariant is kept by an error that tells the truth.
LEMMA Failed ==
  ASSUME IInv, IsUtf8(src), NEW b \in Places, Begin = At(b), NEW q \in Places, NEW code,
         Fail(code, At(q)), code # "none", Tells(src, code, q)
  PROVE  IInv'
<1>1. /\ failure' = [code |-> code, line |-> LineIn(src, q), col |-> ColIn(src, q), pos |-> q]
      /\ cursor' = At(b) /\ src' = src /\ tokens' = tokens
  BY DEF Fail, At, PlaceIn
<1>2. FailureRight(src, failure')
  BY <1>1 DEF FailureRight
<1>3. \E p \in Places' : cursor' = At(p)'
  BY <1>1 DEF At, Places
<1>. QED  BY <1>1, <1>2, <1>3 DEF IInv

\* What the cursor points at.
LEMMA PeekIs ==
  ASSUME src \in Seq(Byte), NEW p \in Places
  PROVE  /\ AtEnd(At(p)) <=> p = Len(src) + 1
         /\ p = Len(src) + 1 => Peek(At(p)) = "end"
         /\ p # Len(src) + 1 => p \in 1..Len(src) /\ Peek(At(p)) = src[p] /\ src[p] \in Byte
         /\ \A n \in Nat : IF p + n > Len(src) THEN PeekAhead(At(p), n) = "end"
                           ELSE /\ PeekAhead(At(p), n) = src[p + n] /\ src[p + n] \in Byte
                                /\ p + n \in 1..Len(src)
BY AtTyped DEF Places, AtEnd, Peek, PeekAhead

\* The same, at the end or not.
LEMMA PeekAt ==
  ASSUME src \in Seq(Byte), NEW p \in Places
  PROVE  Peek(At(p)) = IF p <= Len(src) THEN src[p] ELSE "end"
<1>1. p \in Nat /\ Len(src) \in Nat /\ p <= Len(src) + 1 /\ At(p).pos = p
  BY AtTyped DEF Places
<1>. QED  BY <1>1 DEF Peek, AtEnd

\* The end is no byte, and no byte is of two kinds.
LEMMA Bytes ==
  /\ "end" \notin Byte /\ InvalidEscape \notin Byte /\ NL \in Byte
  /\ Digit \subseteq IdentChar /\ IdentStart \subseteq IdentChar
  /\ IdentChar \subseteq Byte /\ Punctuators \subseteq Byte /\ Spaces \subseteq Byte
  /\ Strange \subseteq Byte /\ Quote \in Byte
  /\ NL \notin IdentChar /\ "." \notin IdentChar /\ "-" \notin IdentChar
  /\ Punctuators \cap {"int", "float", "string"} = {}
BY DEF Byte, InvalidEscape, NL, CR, Tab, Space, Quote, Backslash, Digit, IdentChar, IdentStart,
       Punctuators, Spaces, Strange, Width

\* While there are tokens to read, the source is UTF-8 and the next one begins at
\* a place that has no space.
LEMMA BeginIs ==
  ASSUME IInv, Lexing
  PROVE  /\ IsUtf8(src) /\ src \in Seq(Byte)
         /\ \E b \in Places : Begin = At(b) /\ (b <= Len(src) => src[b] \notin Spaces)
<1>1. PICK p \in Places : IsUtf8(src) /\ cursor = At(p)
  BY DEF IInv, Lexing
<1>2. src \in Seq(Byte)
  BY DEF IInv
<1>3. \E q \in Places : /\ AdvanceWhile(At(p), Spaces) = At(q) /\ p <= q
                        /\ \A i \in p..(q - 1) : src[i] \in Spaces
                        /\ q <= Len(src) => src[q] \notin Spaces
  BY <1>2, AdvanceWhileIs
<1>. QED  BY <1>1, <1>2, <1>3 DEF Begin

\* The end of the file.
LEMMA EndKeeps ==
  ASSUME IInv, EndOfFile
  PROVE  IInv'
<1>1. PICK b \in Places : IsUtf8(src) /\ Begin = At(b)
  BY BeginIs DEF EndOfFile
<1>2. Fits(src, "eof", b, <<>>)
  BY DEF Fits
<1>. QED  BY <1>1, <1>2, Emitted DEF EndOfFile

\* A bracket, a colon, a comma or an at sign.
LEMMA PunctuationKeeps ==
  ASSUME IInv, Punctuation
  PROVE  IInv'
<1>1. PICK b \in Places : IsUtf8(src) /\ src \in Seq(Byte) /\ Begin = At(b)
  BY BeginIs DEF Punctuation
<1>. DEFINE c == Peek(Begin)
<1>2. c \in Punctuators /\ Emit(c, Advance(Begin), <<c>>)
  BY DEF Punctuation
<1>3. b \in 1..Len(src)
  BY <1>1, <1>2, PeekIs, Bytes
<1>4. Advance(Begin) = At(b + 1) /\ b + 1 \in Places
  BY <1>1, <1>3, AdvanceIs DEF Places
<1>. HIDE DEF c
<1>5. Fits(src, c, b, <<c>>)
  BY <1>2, Bytes DEF Fits
<1>. QED  BY <1>1, <1>2, <1>4, <1>5, Emitted

\* A comment.
LEMMA CommentKeeps ==
  ASSUME IInv, LexComment
  PROVE  IInv'
<1>1. PICK b \in Places : IsUtf8(src) /\ src \in Seq(Byte) /\ Begin = At(b)
  BY BeginIs DEF LexComment
<1>. DEFINE to == Jump(Begin, RunEnd(Begin, Byte \ {NL}) - Begin.pos)
<1>2. Emit("comment", to, CommentText(to))
  BY DEF LexComment
<1>3. PICK q \in Places : /\ RunEnd(At(b), Byte \ {NL}) = q /\ b <= q
                          /\ \A i \in b..(q - 1) : src[i] \in Byte \ {NL}
  BY <1>1, RunEndIs
<1>4. to = At(q)
  BY <1>1, <1>3, JumpIs, AtTyped
<1>5. Fits(src, "comment", b, CommentText(to))
  BY DEF Fits
<1>. HIDE DEF to
<1>. QED  BY <1>1, <1>2, <1>4, <1>5, Emitted

\* A name or a value literal.
LEMMA IdentKeeps ==
  ASSUME IInv, LexIdent
  PROVE  IInv'
<1>1. PICK b \in Places : IsUtf8(src) /\ src \in Seq(Byte) /\ Begin = At(b)
  BY BeginIs DEF LexIdent
<1>. DEFINE to == AdvanceWhile(Begin, IdentChar)
            text == Text(Begin, to)
            tag == IF text \in Reserved THEN "literal" ELSE "ident"
<1>2. Emit(tag, to, text)
  BY DEF LexIdent
<1>3. \E q \in Places : to = At(q)
  BY <1>1, AdvanceWhileIs
<1>4. Fits(src, tag, b, text)
  BY DEF Fits
<1>. HIDE DEF to, text, tag
<1>. QED  BY <1>1, <1>2, <1>3, <1>4, Emitted

-----------------------------------------------------------------------------
(* Numbers *)

\* Where the digits of a number begin.
After(text, pos) == IF text[pos] = "-" THEN pos + 1 ELSE pos

AreDigits(text, from, to) == \A i \in from..to : text[i] \in Digit

\* The bytes from a place up to another are an integer's literal.
IntOn(text, from, to) ==
  LET start == After(text, from)
  IN  from <= to /\ start <= to /\ AreDigits(text, start, to) /\ (text[start] = "0" => start = to)

\* They are a float's.
FloatOn(text, from, to) ==
  \E dot \in from..to : /\ text[dot] = "." /\ IntOn(text, from, dot - 1)
                        /\ dot < to /\ AreDigits(text, dot + 1, to)

\* A run of a sequence.
LEMMA RunIs ==
  ASSUME NEW S, NEW text \in Seq(S), NEW a \in 1..(Len(text) + 1), NEW z \in Nat,
         z <= Len(text), a <= z + 1
  PROVE  /\ SubSeq(text, a, z) \in Seq(S) /\ Len(SubSeq(text, a, z)) = z - a + 1
         /\ \A i \in 1..(z - a + 1) : SubSeq(text, a, z)[i] = text[a + i - 1]
OBVIOUS

\* A run of a run.
LEMMA RunOfRun ==
  ASSUME NEW S, NEW text \in Seq(S), NEW a \in 1..(Len(text) + 1), NEW z \in Nat,
         z <= Len(text), a <= z + 1,
         NEW b \in 1..(z - a + 2), NEW y \in Nat, y <= z - a + 1, b <= y + 1
  PROVE  SubSeq(SubSeq(text, a, z), b, y) = SubSeq(text, a + b - 1, a + y - 1)
<1>. DEFINE u == SubSeq(text, a, z)
            v == SubSeq(u, b, y)
            w == SubSeq(text, a + b - 1, a + y - 1)
<1>1. /\ u \in Seq(S) /\ Len(u) = z - a + 1
      /\ \A i \in 1..(z - a + 1) : u[i] = text[a + i - 1]
  BY RunIs
<1>2. /\ v \in Seq(S) /\ Len(v) = y - b + 1
      /\ \A i \in 1..(y - b + 1) : v[i] = u[b + i - 1]
  <2>. HIDE DEF u
  <2>1. b \in 1..(Len(u) + 1) /\ y <= Len(u)
    BY <1>1
  <2>. QED  BY <1>1, <2>1, RunIs
<1>3. /\ w \in Seq(S) /\ Len(w) = y - b + 1
      /\ \A i \in 1..(y - b + 1) : w[i] = text[a + b - 1 + i - 1]
  <2>1. /\ a + b - 1 \in 1..(Len(text) + 1) /\ a + y - 1 \in Nat /\ a + y - 1 <= Len(text)
        /\ a + b - 1 <= (a + y - 1) + 1 /\ (a + y - 1) - (a + b - 1) + 1 = y - b + 1
    OBVIOUS
  <2>. QED  BY <2>1, RunIs
<1>4. \A i \in 1..(y - b + 1) : /\ b + i - 1 \in 1..(z - a + 1)
                                /\ a + (b + i - 1) - 1 = a + b - 1 + i - 1
  OBVIOUS
<1>. HIDE DEF u, v, w
<1>5. \A i \in 1..(y - b + 1) : v[i] = w[i]
  BY <1>1, <1>2, <1>3, <1>4
<1>6. v = w
  <2>1. Len(v) = Len(w) /\ Len(v) = y - b + 1
    BY <1>2, <1>3
  <2>2. \A i \in 1..Len(v) : v[i] = w[i]
    BY <1>5, <2>1
  <2>. QED  BY <1>2, <1>3, <2>1, <2>2, SeqEqual
<1>. QED  BY <1>6 DEF u, v, w

\* The literals of integers, byte by byte.
LEMMA IntAt ==
  ASSUME NEW text \in Seq(Byte), NEW a \in 1..(Len(text) + 1), NEW z \in Nat,
         z <= Len(text), a <= z + 1
  PROVE  IsIntLiteral(SubSeq(text, a, z)) <=> IntOn(text, a, z)
<1>. DEFINE u == SubSeq(text, a, z)
            d == Unsigned(u)
            start == After(text, a)
<1>1. /\ u \in Seq(Byte) /\ Len(u) = z - a + 1
      /\ \A i \in 1..(z - a + 1) : u[i] = text[a + i - 1]
  BY RunIs
<1>2. CASE a > z
  <2>1. u = <<>>
    BY <1>1, <1>2
  <2>. HIDE DEF u
  <2>2. Unsigned(u) = <<>>
    BY <2>1 DEF Unsigned
  <2>3. ~ IsIntLiteral(u)
    BY <2>2 DEF IsIntLiteral, Digits
  <2>. QED  BY <1>2, <2>3 DEF IntOn, u
<1>3. CASE a <= z
  <2>1. u # <<>> /\ u[1] = text[a]
    BY <1>1, <1>3
  <2>. HIDE DEF u
  <2>2. /\ d \in Seq(Byte) /\ Len(d) = z - start + 1 /\ start \in Nat /\ start <= z + 1
        /\ \A i \in 1..(z - start + 1) : d[i] = text[start + i - 1]
    <3>1. CASE text[a] = "-"
      <4>1. d = Tail(u) /\ start = a + 1
        BY <2>1, <3>1 DEF Unsigned, After
      <4>2. Tail(u) \in Seq(Byte) /\ Len(Tail(u)) = Len(u) - 1
            /\ \A i \in 1..(Len(u) - 1) : Tail(u)[i] = u[i + 1]
        BY <1>1, <2>1
      <4>. HIDE DEF d, start
      <4>3. Len(d) = z - start + 1 /\ start \in Nat /\ start <= z + 1
        BY <1>1, <1>3, <4>1, <4>2
      <4>4. ASSUME NEW i \in 1..(z - start + 1) PROVE d[i] = text[start + i - 1]
        <5>1. i \in 1..(Len(u) - 1) /\ i + 1 \in 1..(z - a + 1) /\ a + (i + 1) - 1 = start + i - 1
          BY <1>1, <1>3, <4>1
        <5>2. d[i] = u[i + 1] /\ u[i + 1] = text[a + (i + 1) - 1]
          BY <1>1, <4>1, <4>2, <5>1
        <5>. QED  BY <5>1, <5>2
      <4>. QED  BY <4>1, <4>2, <4>3, <4>4
    <3>2. CASE text[a] # "-"
      <4>1. d = u /\ start = a
        BY <2>1, <3>2 DEF Unsigned, After
      <4>. QED  BY <1>1, <1>3, <4>1
    <3>. QED  BY <3>1, <3>2
  <2>. HIDE DEF d, start
  <2>3. (d # <<>> <=> start <= z) /\ DOMAIN d = 1..(z - start + 1)
    BY <2>2
  <2>4. (\A i \in DOMAIN d : d[i] \in Digit) <=> AreDigits(text, start, z)
    <3>1. ASSUME \A i \in DOMAIN d : d[i] \in Digit, NEW j \in start..z
          PROVE  text[j] \in Digit
      <4>1. j - start + 1 \in 1..(z - start + 1) /\ start + (j - start + 1) - 1 = j
        BY <2>2
      <4>. QED  BY <2>2, <2>3, <3>1, <4>1
    <3>2. ASSUME AreDigits(text, start, z), NEW i \in DOMAIN d
          PROVE  d[i] \in Digit
      <4>1. i \in 1..(z - start + 1) /\ start + i - 1 \in start..z
        BY <2>2, <2>3
      <4>. QED  BY <2>2, <3>2, <4>1 DEF AreDigits
    <3>. QED  BY <3>1, <3>2 DEF AreDigits
  <2>5. start <= z => d[1] = text[start] /\ (Len(d) = 1 <=> start = z)
    BY <2>2
  <2>6. IsIntLiteral(u) <=> Digits(d) /\ (d[1] = "0" => Len(d) = 1)
    BY DEF IsIntLiteral, d
  <2>7. Digits(d) <=> start <= z /\ AreDigits(text, start, z)
    BY <2>3, <2>4 DEF Digits
  <2>8. IsIntLiteral(u) <=> IntOn(text, a, z)
    BY <1>3, <2>5, <2>6, <2>7 DEF IntOn, start
  <2>. QED  BY <2>8 DEF u
<1>. QED  BY <1>2, <1>3

\* The literals of floats, byte by byte.
LEMMA FloatAt ==
  ASSUME NEW text \in Seq(Byte), NEW a \in 1..(Len(text) + 1), NEW z \in Nat,
         z <= Len(text), a <= z + 1
  PROVE  IsFloatLiteral(SubSeq(text, a, z)) <=> FloatOn(text, a, z)
<1>. DEFINE u == SubSeq(text, a, z)
<1>1. /\ u \in Seq(Byte) /\ Len(u) = z - a + 1 /\ DOMAIN u = 1..(z - a + 1)
      /\ \A i \in 1..(z - a + 1) : u[i] = text[a + i - 1]
  BY RunIs
<1>2. ASSUME NEW k \in 1..(z - a + 1)
      PROVE  /\ u[k] = text[a + k - 1]
             /\ IsIntLiteral(SubSeq(u, 1, k - 1)) <=> IntOn(text, a, (a + k - 1) - 1)
             /\ Digits(SubSeq(u, k + 1, Len(u))) <=>
                  a + k - 1 < z /\ AreDigits(text, (a + k - 1) + 1, z)
  <2>1. SubSeq(u, 1, k - 1) = SubSeq(text, a, (a + k - 1) - 1)
    <3>1. k - 1 \in Nat /\ k - 1 <= z - a + 1 /\ 1 \in 1..(z - a + 2) /\ 1 <= (k - 1) + 1
          /\ a + 1 - 1 = a /\ a + (k - 1) - 1 = (a + k - 1) - 1
      OBVIOUS
    <3>. QED  BY <3>1, RunOfRun
  <2>2. IsIntLiteral(SubSeq(text, a, (a + k - 1) - 1)) <=> IntOn(text, a, (a + k - 1) - 1)
    <3>1. (a + k - 1) - 1 \in Nat /\ (a + k - 1) - 1 <= Len(text) /\ a <= ((a + k - 1) - 1) + 1
      OBVIOUS
    <3>. QED  BY <3>1, IntAt
  <2>3. SubSeq(u, k + 1, Len(u)) = SubSeq(text, a + k, z)
    <3>1. /\ k + 1 \in 1..(z - a + 2) /\ z - a + 1 \in Nat /\ z - a + 1 <= z - a + 1
          /\ k + 1 <= (z - a + 1) + 1 /\ a + (k + 1) - 1 = a + k /\ a + (z - a + 1) - 1 = z
      OBVIOUS
    <3>2. SubSeq(u, k + 1, z - a + 1) = SubSeq(text, a + (k + 1) - 1, a + (z - a + 1) - 1)
      BY <3>1, RunOfRun
    <3>. QED  BY <1>1, <3>1, <3>2
  <2>. DEFINE v == SubSeq(text, a + k, z)
  <2>4. /\ v \in Seq(Byte) /\ Len(v) = z - (a + k) + 1 /\ DOMAIN v = 1..(z - (a + k) + 1)
        /\ \A i \in 1..(z - (a + k) + 1) : v[i] = text[a + k + i - 1]
    <3>1. a + k \in 1..(Len(text) + 1) /\ a + k <= z + 1
      OBVIOUS
    <3>. QED  BY <3>1, RunIs
  <2>. HIDE DEF v, u
  <2>5. v # <<>> <=> a + k - 1 < z
    BY <2>4
  <2>6. (\A i \in DOMAIN v : v[i] \in Digit) <=> AreDigits(text, (a + k - 1) + 1, z)
    <3>1. ASSUME \A i \in DOMAIN v : v[i] \in Digit, NEW j \in ((a + k - 1) + 1)..z
          PROVE  text[j] \in Digit
      <4>1. j - (a + k) + 1 \in 1..(z - (a + k) + 1) /\ a + k + (j - (a + k) + 1) - 1 = j
        OBVIOUS
      <4>. QED  BY <2>4, <3>1, <4>1
    <3>2. ASSUME AreDigits(text, (a + k - 1) + 1, z), NEW i \in DOMAIN v
          PROVE  v[i] \in Digit
      <4>1. i \in 1..(z - (a + k) + 1) /\ a + k + i - 1 \in ((a + k - 1) + 1)..z
        BY <2>4
      <4>. QED  BY <2>4, <3>2, <4>1 DEF AreDigits
    <3>. QED  BY <3>1, <3>2 DEF AreDigits
  <2>7. Digits(v) <=> a + k - 1 < z /\ AreDigits(text, (a + k - 1) + 1, z)
    BY <2>5, <2>6 DEF Digits
  <2>8. Digits(SubSeq(u, k + 1, Len(u))) <=>
          a + k - 1 < z /\ AreDigits(text, (a + k - 1) + 1, z)
    BY <2>3, <2>7 DEF v
  <2>. QED  BY <1>1, <2>1, <2>2, <2>8
<1>. HIDE DEF u
<1>3. IsFloatLiteral(u) <=> \E k \in 1..(z - a + 1) :
        /\ u[k] = "." /\ IsIntLiteral(SubSeq(u, 1, k - 1)) /\ Digits(SubSeq(u, k + 1, Len(u)))
  BY <1>1 DEF IsFloatLiteral
<1>4. ASSUME IsFloatLiteral(u) PROVE FloatOn(text, a, z)
  <2>1. PICK k \in 1..(z - a + 1) :
          u[k] = "." /\ IsIntLiteral(SubSeq(u, 1, k - 1)) /\ Digits(SubSeq(u, k + 1, Len(u)))
    BY <1>3, <1>4
  <2>2. a + k - 1 \in a..z
    OBVIOUS
  <2>. QED  BY <1>2, <2>1, <2>2 DEF FloatOn
<1>5. ASSUME FloatOn(text, a, z) PROVE IsFloatLiteral(u)
  <2>1. PICK dot \in a..z : /\ text[dot] = "." /\ IntOn(text, a, dot - 1)
                            /\ dot < z /\ AreDigits(text, dot + 1, z)
    BY <1>5 DEF FloatOn
  <2>. DEFINE k == dot - a + 1
  <2>2. k \in 1..(z - a + 1) /\ a + k - 1 = dot
    OBVIOUS
  <2>. HIDE DEF k
  <2>. QED  BY <1>2, <1>3, <2>1, <2>2
<1>6. IsFloatLiteral(u) <=> FloatOn(text, a, z)
  BY <1>4, <1>5
<1>. QED  BY <1>6 DEF u

\* The longest run of bytes that could belong to a number ends somewhere.
LEMMA RunReaches ==
  ASSUME NEW text \in Seq(Byte), NEW a \in 1..Len(text)
  PROVE  \E e \in After(text, a)..(Len(text) + 1) :
           /\ RunIn(text, a) = SubSeq(text, a, e - 1)
           /\ \A i \in After(text, a)..(e - 1) : text[i] \in IdentChar \cup {"."}
           /\ e <= Len(text) => text[e] \notin IdentChar \cup {"."}
<1>. DEFINE class == IdentChar \cup {"."}
            start == After(text, a)
            ends == {i \in start..Len(text) : text[i] \notin class} \cup {Len(text) + 1}
<1>1. start \in Nat /\ start <= Len(text) + 1
  BY DEF After
<1>. HIDE DEF start, class
<1>2. ends \subseteq Nat /\ ends # {} /\ \A k \in ends : start <= k /\ k <= Len(text) + 1
  BY <1>1
<1>3. PICK e \in ends : \A k \in ends : e <= k
  <2>. HIDE DEF ends
  <2>. QED  BY <1>2, Least
<1>4. Min(ends) = e
  <2>1. ends \subseteq Int
    BY <1>2
  <2>. HIDE DEF ends
  <2>. QED  BY <1>3, <2>1, MinIs
<1>5. RunIn(text, a) = SubSeq(text, a, e - 1)
  BY <1>4 DEF RunIn, After, start, class
<1>6. e \in start..(Len(text) + 1)
  BY <1>1, <1>2
<1>7. \A i \in start..(e - 1) : text[i] \in class
  BY <1>1, <1>3, <1>6
<1>8. e <= Len(text) => text[e] \notin class
  BY <1>1, <1>6
<1>. QED  BY <1>5, <1>6, <1>7, <1>8 DEF start, class

\* What could be a number is none: it is no integer's literal and no float's.
NoNumber(text, from, to) == ~ IntOn(text, from, to) /\ ~ FloatOn(text, from, to)

\* What that says of the longest run.
LEMMA RunTells ==
  ASSUME NEW text \in Seq(Byte), NEW a \in 1..Len(text), NEW e \in a..(Len(text) + 1),
         RunIn(text, a) = SubSeq(text, a, e - 1)
  PROVE  /\ IsIntLiteral(RunIn(text, a)) <=> IntOn(text, a, e - 1)
         /\ IsFloatLiteral(RunIn(text, a)) <=> FloatOn(text, a, e - 1)
<1>1. /\ a \in 1..(Len(text) + 1) /\ e - 1 \in Nat /\ e - 1 <= Len(text) /\ a <= (e - 1) + 1
  OBVIOUS
<1>. QED  BY <1>1, IntAt, FloatAt

\* No byte is both a digit and a point or a sign.
LEMMA DigitIs ==
  /\ "." \notin Digit /\ "-" \notin Digit /\ "end" \notin Digit \cup IdentChar \cup {"."}
  /\ Digit \subseteq IdentChar
BY DEF Digit, IdentChar, IdentStart

\* Only one place can be the point of a float: past the digits.
LEMMA PointIs ==
  ASSUME NEW text \in Seq(Byte), NEW a \in 1..Len(text), NEW m \in Nat,
         After(text, a) < m, m <= Len(text) + 1, AreDigits(text, After(text, a), m - 1),
         m <= Len(text) => text[m] \notin Digit,
         NEW dot \in a..Len(text), text[dot] = ".", IntOn(text, a, dot - 1)
  PROVE  dot = m
<1>. DEFINE start == After(text, a)
<1>1. start \in Nat /\ a <= start /\ (start = a \/ (start = a + 1 /\ text[a] = "-"))
  BY DEF After
<1>2. start <= dot - 1 /\ \A i \in start..(dot - 1) : text[i] \in Digit
  BY DEF IntOn, AreDigits
<1>3. \A i \in start..(m - 1) : text[i] \in Digit
  BY DEF AreDigits
<1>4. start < m
  OBVIOUS
<1>. HIDE DEF start
<1>5. ~ dot < m
  <2>1. SUFFICES ASSUME dot < m PROVE FALSE
    OBVIOUS
  <2>2. dot \in start..(m - 1)
    BY <1>1, <1>2, <2>1
  <2>. QED  BY <1>3, <2>2, DigitIs
<1>6. ~ m < dot
  <2>1. SUFFICES ASSUME m < dot PROVE FALSE
    OBVIOUS
  <2>2. m \in start..(dot - 1) /\ m <= Len(text)
    BY <1>1, <1>4, <2>1
  <2>. QED  BY <1>2, <2>2
<1>. QED  BY <1>5, <1>6

\* The digits that lex_number reads first.
DigitsRead(text, a, m) ==
  /\ After(text, a) < m /\ m <= Len(text) + 1 /\ AreDigits(text, After(text, a), m - 1)
  /\ m <= Len(text) => text[m] \notin Digit

\* They begin with a zero too many.
ZeroLeads(text, a, m) == m - After(text, a) > 1 /\ text[After(text, a)] = "0"

\* An integer is read when its run ends with its digits.
LEMMA IntRead ==
  ASSUME NEW text \in Seq(Byte), NEW a \in 1..Len(text), NEW m \in Nat, DigitsRead(text, a, m),
         ~ ZeroLeads(text, a, m), m <= Len(text) => text[m] \notin IdentChar \cup {"."}
  PROVE  RunIn(text, a) = SubSeq(text, a, m - 1) /\ IsIntLiteral(RunIn(text, a))
<1>. DEFINE start == After(text, a)
            class == IdentChar \cup {"."}
<1>1. start \in Nat /\ a <= start
  BY DEF After
<1>2. /\ start < m /\ m <= Len(text) + 1 /\ \A i \in start..(m - 1) : text[i] \in Digit
      /\ m - start > 1 => text[start] # "0"
  BY DEF DigitsRead, AreDigits, ZeroLeads
<1>3. PICK e \in start..(Len(text) + 1) :
        /\ RunIn(text, a) = SubSeq(text, a, e - 1)
        /\ \A i \in start..(e - 1) : text[i] \in class
        /\ e <= Len(text) => text[e] \notin class
  BY RunReaches
<1>4. Digit \subseteq class
  BY DigitIs
<1>5. m <= Len(text) => text[m] \notin class
  OBVIOUS
<1>6. AreDigits(text, start, m - 1)
  BY DEF DigitsRead
<1>. HIDE DEF start, class
<1>7. e = m
  <2>1. ~ e < m
    <3>1. SUFFICES ASSUME e < m PROVE FALSE
      OBVIOUS
    <3>2. e \in start..(m - 1) /\ e <= Len(text)
      BY <1>1, <1>2, <3>1
    <3>. QED  BY <1>2, <1>3, <1>4, <3>2
  <2>2. ~ m < e
    <3>1. SUFFICES ASSUME m < e PROVE FALSE
      OBVIOUS
    <3>2. m \in start..(e - 1) /\ m <= Len(text)
      BY <1>1, <1>2, <3>1
    <3>. QED  BY <1>3, <1>5, <3>2
  <2>. QED  BY <1>1, <2>1, <2>2
<1>8. IntOn(text, a, m - 1)
  BY <1>1, <1>2, <1>6 DEF IntOn, start
<1>9. e \in a..(Len(text) + 1)
  BY <1>1, <1>3
<1>. QED  BY <1>3, <1>7, <1>8, <1>9, RunTells

\* No number is read when there is a zero too many, or when the digits run on, and not to
\* a point.
LEMMA IntRefused ==
  ASSUME NEW text \in Seq(Byte), NEW a \in 1..Len(text), NEW m \in Nat, DigitsRead(text, a, m),
         ZeroLeads(text, a, m) \/ (m <= Len(text) /\ text[m] \in IdentChar)
  PROVE  ~ IsIntLiteral(RunIn(text, a)) /\ ~ IsFloatLiteral(RunIn(text, a))
<1>. DEFINE start == After(text, a)
            class == IdentChar \cup {"."}
<1>1. start \in Nat /\ a <= start
  BY DEF After
<1>2. /\ start < m /\ m <= Len(text) + 1 /\ \A i \in start..(m - 1) : text[i] \in Digit
      /\ m <= Len(text) => text[m] \notin Digit
  BY DEF DigitsRead, AreDigits
<1>3. PICK e \in start..(Len(text) + 1) :
        /\ RunIn(text, a) = SubSeq(text, a, e - 1)
        /\ \A i \in start..(e - 1) : text[i] \in class
        /\ e <= Len(text) => text[e] \notin class
  BY RunReaches
<1>4. \/ m - start > 1 /\ text[start] = "0"
      \/ m <= Len(text) /\ text[m] \in class /\ text[m] # "."
  BY Bytes DEF ZeroLeads
<1>5. Digit \subseteq class
  BY DigitIs
<1>6. \A z \in Nat :
        IntOn(text, a, z) => /\ a <= z /\ start <= z /\ (text[start] = "0" => start = z)
                                        /\ \A i \in start..z : text[i] \in Digit
  BY DEF IntOn, AreDigits
<1>. HIDE DEF start, class
<1>7. e >= m
  <2>1. SUFFICES ASSUME e < m PROVE FALSE
    BY <1>1
  <2>2. e \in start..(m - 1) /\ e <= Len(text)
    BY <1>1, <1>2, <2>1
  <2>. QED  BY <1>2, <1>3, <1>5, <2>2
<1>8. e \in a..(Len(text) + 1) /\ e - 1 \in Nat
  BY <1>1, <1>2, <1>7
<1>9. ~ IntOn(text, a, e - 1)
  <2>1. SUFFICES ASSUME IntOn(text, a, e - 1) PROVE FALSE
    OBVIOUS
  <2>2. (text[start] = "0" => start = e - 1) /\ \A i \in start..(e - 1) : text[i] \in Digit
    BY <1>6, <1>8, <2>1
  <2>3. m <= Len(text) /\ text[m] \in class
    BY <1>1, <1>2, <1>4, <1>7, <2>2
  <2>4. e # m
    BY <1>3, <2>3
  <2>5. m \in start..(e - 1)
    BY <1>1, <1>2, <1>7, <2>4
  <2>. QED  BY <1>2, <2>2, <2>3, <2>5
<1>10. ~ FloatOn(text, a, e - 1)
  <2>1. SUFFICES ASSUME FloatOn(text, a, e - 1) PROVE FALSE
    OBVIOUS
  <2>2. PICK dot \in a..(e - 1) : text[dot] = "." /\ IntOn(text, a, dot - 1)
    BY <2>1 DEF FloatOn
  <2>3. dot \in a..Len(text)
    BY <1>1
  <2>4. dot = m
    BY <2>2, <2>3, PointIs DEF DigitsRead
  <2>5. m - 1 \in Nat /\ text[m] = "."
    BY <1>1, <1>2, <2>2, <2>4
  <2>6. text[start] = "0" => start = m - 1
    BY <1>6, <2>2, <2>4, <2>5
  <2>. QED  BY <1>1, <1>2, <1>4, <2>5, <2>6
<1>. QED  BY <1>3, <1>8, <1>9, <1>10, RunTells

\* The digits that lex_number reads past a point.
FractionRead(text, m, n) ==
  /\ m < n /\ n <= Len(text) + 1 /\ AreDigits(text, m + 1, n - 1)
  /\ n <= Len(text) => text[n] \notin Digit

\* A float is read when its run ends with its digits.
FloatEnds(text, n) == n <= Len(text) => text[n] \notin IdentChar \cup {"."}

\* The run of a float is read, or refused, with reason.
LEMMA FloatRead ==
  ASSUME NEW text \in Seq(Byte), NEW a \in 1..Len(text), NEW m \in Nat, DigitsRead(text, a, m),
         m <= Len(text), text[m] = ".", NEW n \in Nat, FractionRead(text, m, n)
  PROVE  IF n = m + 1 \/ ZeroLeads(text, a, m) \/ ~ FloatEnds(text, n)
         THEN ~ IsIntLiteral(RunIn(text, a)) /\ ~ IsFloatLiteral(RunIn(text, a))
         ELSE RunIn(text, a) = SubSeq(text, a, n - 1) /\ IsFloatLiteral(RunIn(text, a))
<1>. DEFINE start == After(text, a)
            class == IdentChar \cup {"."}
<1>1. start \in Nat /\ a <= start
  BY DEF After
<1>2. /\ start < m /\ m < n /\ n <= Len(text) + 1
      /\ \A i \in start..(m - 1) : text[i] \in Digit
      /\ \A i \in (m + 1)..(n - 1) : text[i] \in Digit
      /\ n <= Len(text) => text[n] \notin Digit
  BY DEF DigitsRead, FractionRead, AreDigits
<1>3. PICK e \in start..(Len(text) + 1) :
        /\ RunIn(text, a) = SubSeq(text, a, e - 1)
        /\ \A i \in start..(e - 1) : text[i] \in class
        /\ e <= Len(text) => text[e] \notin class
  BY RunReaches
<1>4. Digit \subseteq class /\ "." \in class /\ "." \notin Digit
  BY DigitIs
<1>5. FloatEnds(text, n) <=> (n <= Len(text) => text[n] \notin class)
  BY DEF FloatEnds
<1>6. /\ AreDigits(text, start, m - 1)
      /\ ZeroLeads(text, a, m) <=> m - start > 1 /\ text[start] = "0"
  BY DEF DigitsRead, ZeroLeads
<1>7. \A z \in Nat : IntOn(text, a, z) <=> /\ a <= z /\ start <= z /\ AreDigits(text, start, z)
                                           /\ (text[start] = "0" => start = z)
  BY DEF IntOn
<1>. HIDE DEF start, class
<1>8. e >= n
  <2>1. SUFFICES ASSUME e < n PROVE FALSE
    BY <1>1, <1>3
  <2>2. e \in start..(m - 1) \/ e = m \/ e \in (m + 1)..(n - 1)
    BY <1>1, <1>2, <2>1
  <2>3. e <= Len(text) /\ text[e] \in class
    BY <1>1, <1>2, <1>4, <2>1, <2>2
  <2>. QED  BY <1>3, <2>3
<1>9. e \in a..(Len(text) + 1) /\ e - 1 \in Nat /\ m \in a..(e - 1) /\ m \in start..(e - 1)
  BY <1>1, <1>2, <1>8
<1>10. ~ IntOn(text, a, e - 1)
  <2>1. SUFFICES ASSUME IntOn(text, a, e - 1) PROVE FALSE
    OBVIOUS
  <2>2. text[m] \in Digit
    BY <1>7, <1>9, <2>1 DEF AreDigits
  <2>. QED  BY <1>4, <2>2
<1>11. IntOn(text, a, m - 1) <=> ~ ZeroLeads(text, a, m)
  <2>1. m - 1 \in Nat /\ a <= m - 1 /\ start <= m - 1 /\ (m - start > 1 <=> start # m - 1)
    BY <1>1, <1>2
  <2>. QED  BY <1>6, <1>7, <2>1
<1>12. FloatOn(text, a, e - 1) => n = e /\ n # m + 1 /\ ~ ZeroLeads(text, a, m)
  <2>1. SUFFICES ASSUME FloatOn(text, a, e - 1)
                 PROVE  n = e /\ n # m + 1 /\ ~ ZeroLeads(text, a, m)
    OBVIOUS
  <2>2. PICK dot \in a..(e - 1) : /\ text[dot] = "." /\ IntOn(text, a, dot - 1)
                                  /\ dot < e - 1 /\ AreDigits(text, dot + 1, e - 1)
    BY <2>1 DEF FloatOn
  <2>3. dot \in a..Len(text)
    BY <1>1
  <2>4. dot = m
    BY <2>2, <2>3, PointIs DEF DigitsRead
  <2>5. n = e
    <3>1. SUFFICES ASSUME n < e PROVE FALSE
      BY <1>1, <1>8
    <3>2. n \in (m + 1)..(e - 1) /\ n <= Len(text)
      BY <1>1, <1>2, <3>1
    <3>. QED  BY <1>2, <2>2, <2>4, <3>2 DEF AreDigits
  <2>6. n # m + 1
    BY <1>1, <1>2, <2>2, <2>4, <2>5
  <2>. QED  BY <1>11, <2>2, <2>4, <2>5, <2>6
<1>13. FloatEnds(text, n) => n = e
  <2>1. SUFFICES ASSUME FloatEnds(text, n), n < e PROVE FALSE
    BY <1>1, <1>8
  <2>2. n \in start..(e - 1) /\ n <= Len(text)
    BY <1>1, <1>2, <2>1
  <2>. QED  BY <1>3, <1>5, <2>1, <2>2
<1>14. n = e => FloatEnds(text, n)
  BY <1>3, <1>5
<1>15. n = e /\ n # m + 1 /\ ~ ZeroLeads(text, a, m) => FloatOn(text, a, e - 1)
  <2>1. SUFFICES ASSUME n = e, n # m + 1, ~ ZeroLeads(text, a, m)
                 PROVE  FloatOn(text, a, e - 1)
    OBVIOUS
  <2>2. m < e - 1
    BY <1>1, <1>2, <2>1
  <2>3. AreDigits(text, m + 1, e - 1)
    BY <1>2, <2>1 DEF AreDigits
  <2>. QED  BY <1>9, <1>11, <2>1, <2>2, <2>3 DEF FloatOn
<1>16. /\ IsIntLiteral(RunIn(text, a)) <=> IntOn(text, a, e - 1)
       /\ IsFloatLiteral(RunIn(text, a)) <=> FloatOn(text, a, e - 1)
  BY <1>3, <1>9, RunTells
<1>. QED  BY <1>3, <1>10, <1>12, <1>13, <1>14, <1>15, <1>16

\* Numbers.
LEMMA NumberKeeps ==
  ASSUME IInv, LexNumber
  PROVE  IInv'
<1>1. PICK b \in Places : IsUtf8(src) /\ src \in Seq(Byte) /\ Begin = At(b)
  BY BeginIs DEF LexNumber
<1>. DEFINE s == After(src, b)
<1>2. Peek(Begin) \in Digit \cup {"-"}
  BY DEF LexNumber
<1>3. b \in 1..Len(src) /\ src[b] \in Digit \cup {"-"} /\ Peek(Begin) = src[b]
  <2>1. "end" \notin Digit \cup {"-"}
    BY DigitIs
  <2>. QED  BY <1>1, <1>2, <2>1, PeekIs
<1>4. AfterMinus = At(s) /\ s \in Places /\ b <= s
  <2>1. Advance(At(b)) = At(b + 1)
    BY <1>1, <1>3, AdvanceIs
  <2>. QED  BY <1>1, <1>3, <2>1 DEF AfterMinus, After, Places
<1>5. CASE Peek(AfterMinus) \notin Digit
  <2>1. Fail("UNEXPECTED_CHAR", At(b))
    BY <1>1, <1>5 DEF LexNumber
  <2>2. Tells(src, "UNEXPECTED_CHAR", b)
    BY DEF Tells
  <2>. QED  BY <1>1, <2>1, <2>2, Failed
<1>6. CASE Peek(AfterMinus) \in Digit
  <2>1. s <= Len(src) /\ src[s] \in Digit /\ Peek(AfterMinus) = src[s]
    <3>. HIDE DEF s
    <3>. QED  BY <1>1, <1>4, <1>6, DigitIs, PeekIs
  <2>2. PICK m \in Places : /\ AdvanceWhile(At(s), Digit) = At(m) /\ s <= m
                            /\ \A i \in s..(m - 1) : src[i] \in Digit
                            /\ m <= Len(src) => src[m] \notin Digit
    <3>. HIDE DEF s
    <3>. QED  BY <1>1, <1>4, AdvanceWhileIs
  <2>3. IntEnd = At(m) /\ IntEnd.pos = m /\ AfterMinus.pos = s
    <3>. HIDE DEF s
    <3>. QED  BY <1>1, <1>4, <2>2, AtTyped DEF IntEnd
  <2>4. m \in Nat /\ DigitsRead(src, b, m)
    <3>1. m \in Nat /\ s \in Nat /\ m <= Len(src) + 1 /\ s # m
      BY <1>4, <2>1, <2>2 DEF Places
    <3>. QED  BY <2>2, <3>1 DEF DigitsRead, AreDigits
  <2>5. LeadingZero <=> ZeroLeads(src, b, m)
    BY <2>1, <2>3 DEF LeadingZero, ZeroLeads
  <2>6. Peek(IntEnd) = IF m <= Len(src) THEN src[m] ELSE "end"
    BY <1>1, <2>3, PeekAt
  <2>. HIDE DEF s
  <2>7. CASE Peek(IntEnd) = "."
    <3>1. m <= Len(src) /\ src[m] = "." /\ m + 1 \in Places /\ m \in 1..Len(src)
      BY <2>6, <2>7 DEF Places
    <3>2. FractionStart = At(m + 1)
      BY <1>1, <2>3, <3>1, AdvanceIs DEF FractionStart
    <3>3. PICK n \in Places : /\ AdvanceWhile(At(m + 1), Digit) = At(n) /\ m + 1 <= n
                              /\ \A i \in (m + 1)..(n - 1) : src[i] \in Digit
                              /\ n <= Len(src) => src[n] \notin Digit
      BY <1>1, <3>1, AdvanceWhileIs
    <3>4. /\ FractionEnd = At(n) /\ FractionEnd.pos = n /\ FractionStart.pos = m + 1
      BY <1>1, <3>1, <3>2, <3>3, AtTyped DEF FractionEnd
    <3>5. n \in Nat /\ FractionRead(src, m, n)
      BY <3>3 DEF Places, FractionRead, AreDigits
    <3>6. Suffixed(FractionEnd) <=> ~ FloatEnds(src, n)
      <4>1. Peek(At(n)) = IF n <= Len(src) THEN src[n] ELSE "end"
        BY <1>1, PeekAt
      <4>. QED  BY <3>4, <4>1, DigitIs DEF Suffixed, FloatEnds
    <3>7. LexFloat
      BY <1>6, <2>7 DEF LexNumber
    <3>8. IF n = m + 1 \/ ZeroLeads(src, b, m) \/ ~ FloatEnds(src, n)
          THEN ~ IsIntLiteral(RunIn(src, b)) /\ ~ IsFloatLiteral(RunIn(src, b))
          ELSE RunIn(src, b) = SubSeq(src, b, n - 1) /\ IsFloatLiteral(RunIn(src, b))
      BY <1>1, <1>3, <2>4, <3>1, <3>5, FloatRead
    <3>9. CASE n = m + 1 \/ ZeroLeads(src, b, m) \/ ~ FloatEnds(src, n)
      <4>1. Fail("INVALID_FLOAT", At(b))
        BY <1>1, <2>5, <3>4, <3>6, <3>7, <3>9 DEF LexFloat
      <4>2. Tells(src, "INVALID_FLOAT", b)
        BY <3>8, <3>9 DEF Tells
      <4>. QED  BY <1>1, <4>1, <4>2, Failed
    <3>10. CASE ~ (n = m + 1 \/ ZeroLeads(src, b, m) \/ ~ FloatEnds(src, n))
      <4>1. Emit("float", At(n), Text(At(b), At(n)))
        BY <1>1, <2>5, <3>4, <3>6, <3>7, <3>10 DEF LexFloat
      <4>2. Text(At(b), At(n)) = SubSeq(src, b, n - 1)
        BY <1>1, AtTyped DEF Text
      <4>3. Fits(src, "float", b, SubSeq(src, b, n - 1))
        BY <3>8, <3>10 DEF Fits
      <4>. QED  BY <1>1, <4>1, <4>2, <4>3, Emitted
    <3>. QED  BY <3>9, <3>10
  <2>8. CASE Peek(IntEnd) # "."
    <3>1. LexInt
      BY <1>6, <2>8 DEF LexNumber
    <3>2. m <= Len(src) => src[m] # "."
      BY <2>6, <2>8
    <3>3. Suffixed(IntEnd) <=> m <= Len(src) /\ src[m] \in IdentChar
      BY <2>6, <3>2, DigitIs DEF Suffixed
    <3>4. CASE LeadingZero \/ Suffixed(IntEnd)
      <4>1. ~ IsIntLiteral(RunIn(src, b)) /\ ~ IsFloatLiteral(RunIn(src, b))
        BY <1>1, <1>3, <2>4, <2>5, <3>3, <3>4, IntRefused
      <4>2. \E code \in {"INVALID_INT", "INVALID_FLOAT"} : Fail(code, At(b))
        BY <1>1, <3>1, <3>4 DEF LexInt
      <4>3. PICK code \in {"INVALID_INT", "INVALID_FLOAT"} : Fail(code, At(b))
        BY <4>2
      <4>4. Tells(src, code, b) /\ code # "none"
        BY <4>1 DEF Tells
      <4>. QED  BY <1>1, <4>3, <4>4, Failed
    <3>5. CASE ~ LeadingZero /\ ~ Suffixed(IntEnd)
      <4>1. Emit("int", At(m), Text(At(b), At(m)))
        BY <1>1, <2>3, <3>1, <3>5 DEF LexInt
      <4>2. Text(At(b), At(m)) = SubSeq(src, b, m - 1)
        BY <1>1, AtTyped DEF Text
      <4>3. m <= Len(src) => src[m] \notin IdentChar \cup {"."}
        BY <3>2, <3>3, <3>5
      <4>4. RunIn(src, b) = SubSeq(src, b, m - 1) /\ IsIntLiteral(RunIn(src, b))
        BY <1>1, <1>3, <2>4, <2>5, <3>5, <4>3, IntRead
      <4>5. Fits(src, "int", b, SubSeq(src, b, m - 1))
        BY <4>4 DEF Fits
      <4>. QED  BY <1>1, <4>1, <4>2, <4>5, Emitted
    <3>. QED  BY <3>4, <3>5
  <2>. QED  BY <2>7, <2>8
<1>. QED  BY <1>5, <1>6

\* What can begin no token.
LEMMA UnexpectedKeeps ==
  ASSUME IInv, Unexpected
  PROVE  IInv'
<1>1. PICK b \in Places : IsUtf8(src) /\ src \in Seq(Byte) /\ Begin = At(b)
  BY BeginIs DEF Unexpected
<1>2. CASE ~ (Peek(Begin) = "." /\ PeekAhead(Begin, 1) \in Digit)
  <2>1. Fail("UNEXPECTED_CHAR", At(b))
    BY <1>1, <1>2 DEF Unexpected
  <2>2. Tells(src, "UNEXPECTED_CHAR", b)
    BY DEF Tells
  <2>. QED  BY <1>1, <2>1, <2>2, Failed
<1>3. CASE Peek(Begin) = "." /\ PeekAhead(Begin, 1) \in Digit
  <2>1. b \in 1..Len(src) /\ src[b] = "."
    BY <1>1, <1>3, PeekIs
  <2>2. After(src, b) = b
    BY <2>1 DEF After
  <2>3. PICK e \in b..(Len(src) + 1) :
          /\ RunIn(src, b) = SubSeq(src, b, e - 1)
          /\ e <= Len(src) => src[e] \notin IdentChar \cup {"."}
    BY <1>1, <2>1, <2>2, RunReaches
  <2>4. e > b
    BY <1>1, <2>1, <2>3
  <2>5. \A z \in Int : ~ IntOn(src, b, z)
    <3>1. SUFFICES ASSUME NEW z \in Int, IntOn(src, b, z) PROVE FALSE
      OBVIOUS
    <3>2. b <= z /\ \A i \in b..z : src[i] \in Digit
      BY <2>2, <3>1 DEF IntOn, AreDigits
    <3>3. b \in b..z
      BY <2>1, <3>2
    <3>. QED  BY <2>1, <3>2, <3>3, DigitIs
  <2>6. ~ FloatOn(src, b, e - 1)
    <3>1. \A dot \in b..(e - 1) : dot - 1 \in Int
      OBVIOUS
    <3>. QED  BY <2>5, <3>1 DEF FloatOn
  <2>7. ~ IsIntLiteral(RunIn(src, b)) /\ ~ IsFloatLiteral(RunIn(src, b))
    <3>1. ~ IntOn(src, b, e - 1)
      BY <2>5
    <3>. QED  BY <1>1, <2>1, <2>3, <2>6, <3>1, RunTells
  <2>8. Fail("INVALID_FLOAT", At(b))
    BY <1>1, <1>3 DEF Unexpected
  <2>9. Tells(src, "INVALID_FLOAT", b)
    BY <2>7 DEF Tells
  <2>. QED  BY <1>1, <2>8, <2>9, Failed
<1>. QED  BY <1>2, <1>3

-----------------------------------------------------------------------------
(* UTF-8 *)

\* The bytes that begin a sequence, and how long it is.
LEMMA WidthIs ==
  /\ DOMAIN Width = {"lead2", "lead3", "lead4"} /\ \A c \in DOMAIN Width : Width[c] \in 2..4
  /\ "more" \notin DOMAIN Width /\ "bad" \notin DOMAIN Width
BY DEF Width

\* The bytes after one that begins a sequence continue it, up to a place.
Begun(text, to, i) ==
  /\ i + Width[text[i]] - 1 <= to
  /\ \A j \in (i + 1)..(i + Width[text[i]] - 1) : text[j] = "more"

\* A byte is in a sequence that begins from a place on.
Follows(text, from, i) ==
  \E j \in from..(i - 1) : text[j] \in DOMAIN Width /\ i - j < Width[text[j]]

\* A byte has its place in a UTF-8 text.
InPlace(text, from, to, i) ==
  /\ text[i] # "bad"
  /\ text[i] \in DOMAIN Width => Begun(text, to, i)
  /\ text[i] = "more" => Follows(text, from, i)

\* The bytes from a place up to another are UTF-8.
Utf8On(text, from, to) == \A i \in from..to : InPlace(text, from, to, i)

\* Of a whole text.
LEMMA Utf8Is ==
  ASSUME NEW S, NEW text \in Seq(S)
  PROVE  IsUtf8(text) <=> Utf8On(text, 1, Len(text))
<1>1. DOMAIN text = 1..Len(text)
  OBVIOUS
<1>2. ASSUME NEW i \in 1..Len(text)
      PROVE  (CASE text[i] = "bad" -> FALSE
                [] text[i] \in DOMAIN Width ->
                     /\ i + Width[text[i]] - 1 <= Len(text)
                     /\ \A j \in (i + 1)..(i + Width[text[i]] - 1) : text[j] = "more"
                [] text[i] = "more" ->
                     \E j \in 1..(i - 1) : text[j] \in DOMAIN Width /\ i - j < Width[text[j]]
                [] OTHER -> TRUE) <=> InPlace(text, 1, Len(text), i)
  <2>1. CASE text[i] = "bad"
    BY <2>1, WidthIs DEF InPlace
  <2>2. CASE text[i] \in DOMAIN Width
    BY <2>2, WidthIs DEF InPlace, Begun
  <2>3. CASE text[i] = "more"
    BY <2>3, WidthIs DEF InPlace, Follows
  <2>4. CASE text[i] # "bad" /\ text[i] \notin DOMAIN Width /\ text[i] # "more"
    BY <2>4, WidthIs DEF InPlace
  <2>. QED  BY <2>1, <2>2, <2>3, <2>4
<1>. QED  BY <1>1, <1>2 DEF IsUtf8, Utf8On

\* Of a run of a text.
LEMMA Utf8At ==
  ASSUME NEW S, NEW text \in Seq(S), NEW a \in 1..(Len(text) + 1), NEW z \in Nat,
         z <= Len(text), a <= z + 1
  PROVE  IsUtf8(SubSeq(text, a, z)) <=> Utf8On(text, a, z)
<1>. DEFINE u == SubSeq(text, a, z)
            n == z - a + 1
<1>1. u \in Seq(S) /\ Len(u) = n /\ \A i \in 1..n : u[i] = text[a + i - 1]
  BY RunIs
<1>2. IsUtf8(u) <=> Utf8On(u, 1, n)
  BY <1>1, Utf8Is
<1>. HIDE DEF u
<1>3. ASSUME NEW k \in 1..n PROVE InPlace(u, 1, n, k) <=> InPlace(text, a, z, a + k - 1)
  <2>1. u[k] = text[a + k - 1] /\ a + k - 1 \in a..z
    BY <1>1
  <2>2. ASSUME u[k] \in DOMAIN Width PROVE Begun(u, n, k) <=> Begun(text, z, a + k - 1)
    <3>. DEFINE w == Width[u[k]]
    <3>1. w \in 2..4 /\ w = Width[text[a + k - 1]]
      BY <2>1, <2>2, WidthIs
    <3>. HIDE DEF w
    <3>0. w \in Nat /\ k \in Nat /\ a \in Nat /\ n \in Int /\ n = z - a + 1 /\ k >= 1
      BY ONLY <3>1, a \in 1..(Len(text) + 1), z \in Nat, k \in 1..n
    <3>. HIDE DEF n
    <3>2. k + w - 1 <= n <=> (a + k - 1) + w - 1 <= z
      BY <3>0
    <3>3. ASSUME k + w - 1 <= n
          PROVE  (\A j \in (k + 1)..(k + w - 1) : u[j] = "more") <=>
                 (\A j \in ((a + k - 1) + 1)..((a + k - 1) + w - 1) : text[j] = "more")
      <4>1. \A j \in (k + 1)..(k + w - 1) : /\ j \in 1..n /\ u[j] = text[a + j - 1]
              /\ a + j - 1 \in ((a + k - 1) + 1)..((a + k - 1) + w - 1)
        <5>1. ASSUME NEW j \in (k + 1)..(k + w - 1)
              PROVE  j \in 1..n /\ a + j - 1 \in ((a + k - 1) + 1)..((a + k - 1) + w - 1)
          BY <3>0, <3>3
        <5>. QED  BY <1>1, <5>1
      <4>2. \A j \in ((a + k - 1) + 1)..((a + k - 1) + w - 1) :
              /\ j - a + 1 \in (k + 1)..(k + w - 1) /\ a + (j - a + 1) - 1 = j
        BY <3>0
      <4>3. ASSUME \A j \in (k + 1)..(k + w - 1) : u[j] = "more",
                   NEW j \in ((a + k - 1) + 1)..((a + k - 1) + w - 1)
            PROVE  text[j] = "more"
        BY <4>1, <4>2, <4>3
      <4>. QED  BY <4>1, <4>3
    <3>. QED  BY <3>1, <3>2, <3>3 DEF Begun, w
  <2>3. Follows(u, 1, k) <=> Follows(text, a, a + k - 1)
    <3>1. ASSUME NEW j \in 1..(k - 1), u[j] \in DOMAIN Width, k - j < Width[u[j]]
          PROVE  Follows(text, a, a + k - 1)
      <4>1. /\ a + j - 1 \in a..((a + k - 1) - 1) /\ u[j] = text[a + j - 1]
            /\ (a + k - 1) - (a + j - 1) = k - j
        BY <1>1
      <4>. QED  BY <3>1, <4>1 DEF Follows
    <3>2. ASSUME NEW j \in a..((a + k - 1) - 1), text[j] \in DOMAIN Width,
                 (a + k - 1) - j < Width[text[j]]
          PROVE  Follows(u, 1, k)
      <4>1. /\ j - a + 1 \in 1..(k - 1) /\ j - a + 1 \in 1..n /\ a + (j - a + 1) - 1 = j
            /\ k - (j - a + 1) = (a + k - 1) - j
        OBVIOUS
      <4>2. u[j - a + 1] = text[j]
        BY <1>1, <4>1
      <4>. QED  BY <3>2, <4>1, <4>2 DEF Follows
    <3>. QED  BY <3>1, <3>2 DEF Follows
  <2>. QED  BY <2>1, <2>2, <2>3 DEF InPlace
<1>4. \A i \in a..z : i - a + 1 \in 1..n /\ a + (i - a + 1) - 1 = i
  OBVIOUS
<1>5. \A k \in 1..n : a + k - 1 \in a..z
  OBVIOUS
<1>. HIDE DEF n
<1>6. Utf8On(u, 1, n) <=> Utf8On(text, a, z)
  <2>1. ASSUME Utf8On(u, 1, n), NEW i \in a..z PROVE InPlace(text, a, z, i)
    <3>1. InPlace(u, 1, n, i - a + 1)
      BY <1>4, <2>1 DEF Utf8On
    <3>. QED  BY <1>3, <1>4, <3>1
  <2>2. ASSUME Utf8On(text, a, z), NEW k \in 1..n PROVE InPlace(u, 1, n, k)
    <3>1. InPlace(text, a, z, a + k - 1)
      BY <1>5, <2>2 DEF Utf8On
    <3>. QED  BY <1>3, <3>1
  <2>. QED  BY <2>1, <2>2 DEF Utf8On
<1>. QED  BY <1>2, <1>6 DEF u

\* One more sequence keeps a text UTF-8, and nothing else could go on there.
LEMMA Utf8More ==
  ASSUME NEW text \in Seq(Byte), NEW p \in 1..Len(text), Utf8On(text, 1, p - 1),
         IsSequence(text, p)
  PROVE  LET w == WidthOf(text[p])
         IN  /\ w \in 1..4 /\ p + w <= Len(text) + 1 /\ Utf8On(text, 1, (p + w) - 1)
             /\ \A i \in (p + 1)..((p + w) - 1) : text[i] = "more"
<1>. DEFINE w == WidthOf(text[p])
<1>1. /\ w > 0 /\ p + w - 1 <= Len(text) /\ \A i \in (p + 1)..(p + w - 1) : text[i] = "more"
  BY DEF IsSequence
<1>2. \/ text[p] \in DOMAIN Width /\ w = Width[text[p]] /\ w \in 2..4
      \/ text[p] \notin DOMAIN Width \cup {"more", "bad"} /\ w = 1
  BY <1>1, WidthIs DEF WidthOf
<1>. HIDE DEF w
<1>3. w \in 1..4
  BY <1>2
<1>4. ASSUME NEW i \in 1..((p + w) - 1) PROVE InPlace(text, 1, (p + w) - 1, i)
  <2>1. CASE i < p
    <3>1. InPlace(text, 1, p - 1, i)
      BY <2>1 DEF Utf8On
    <3>2. text[i] \in DOMAIN Width => Begun(text, (p + w) - 1, i)
      <4>1. SUFFICES ASSUME text[i] \in DOMAIN Width PROVE Begun(text, (p + w) - 1, i)
        OBVIOUS
      <4>2. Begun(text, p - 1, i) /\ Width[text[i]] \in 2..4
        BY <3>1, <4>1, WidthIs DEF InPlace
      <4>. QED  BY <1>3, <4>2 DEF Begun
    <3>. QED  BY <3>1, <3>2 DEF InPlace
  <2>2. CASE i = p
    <3>1. text[p] \in DOMAIN Width => Begun(text, (p + w) - 1, p)
      BY <1>1, <1>2, <1>3 DEF Begun
    <3>2. text[p] # "bad" /\ text[p] # "more"
      BY <1>2, WidthIs
    <3>. QED  BY <2>2, <3>1, <3>2 DEF InPlace
  <2>3. CASE i > p
    <3>1. text[i] = "more" /\ w > 1
      BY <1>1, <1>3, <2>3
    <3>2. text[p] \in DOMAIN Width /\ i - p < Width[text[p]] /\ p \in 1..(i - 1)
      BY <1>2, <2>3, <3>1
    <3>3. Follows(text, 1, i)
      BY <3>2 DEF Follows
    <3>. QED  BY <3>1, <3>3, WidthIs DEF InPlace
  <2>. QED  BY <2>1, <2>2, <2>3
<1>5. Utf8On(text, 1, (p + w) - 1)
  BY <1>4 DEF Utf8On
<1>6. p + w <= Len(text) + 1 /\ (p + w) - 1 = p + w - 1
  BY <1>1, <1>3
<1>. QED  BY <1>1, <1>3, <1>5, <1>6 DEF w

\* Where no sequence is, no text that is UTF-8 begins.
LEMMA Utf8Less ==
  ASSUME NEW text \in Seq(Byte), NEW p \in 1..Len(text), ~ IsSequence(text, p),
         NEW q \in p..Len(text)
  PROVE  ~ IsUtf8(SubSeq(text, p, q))
<1>1. SUFFICES ASSUME Utf8On(text, p, q) PROVE FALSE
  <2>1. p \in 1..(Len(text) + 1) /\ q \in Nat /\ q <= Len(text) /\ p <= q + 1
    OBVIOUS
  <2>. QED  BY <2>1, Utf8At
<1>2. InPlace(text, p, q, p)
  <2>1. p \in p..q
    OBVIOUS
  <2>. QED  BY <1>1, <2>1 DEF Utf8On
<1>3. ~ Follows(text, p, p)
  BY DEF Follows
<1>4. text[p] \notin {"bad", "more"}
  BY <1>2, <1>3 DEF InPlace
<1>5. CASE text[p] \in DOMAIN Width
  <2>1. Begun(text, q, p) /\ Width[text[p]] \in 2..4 /\ WidthOf(text[p]) = Width[text[p]]
    BY <1>2, <1>5, WidthIs DEF InPlace, WidthOf
  <2>. QED  BY <2>1 DEF Begun, IsSequence
<1>6. CASE text[p] \notin DOMAIN Width
  <2>1. WidthOf(text[p]) = 1
    BY <1>4, <1>6 DEF WidthOf
  <2>. QED  BY <2>1 DEF IsSequence
<1>. QED  BY <1>5, <1>6

\* f is the cursor at every turn of the loop of first_invalid_utf8.
ValidatedRun(text, f) ==
  f[0] = Start /\ \A i \in 1..Len(text) : f[i] = Validated(text, f[i - 1])

\* What FirstInvalid computes is the last cursor of such a run.
LEMMA FirstInvalidUnfold ==
  ASSUME NEW text \in Seq(Byte)
  PROVE  \E f : ValidatedRun(text, f) /\ FirstInvalid(text) = f[Len(text)]
<1>. DEFINE D == Cursors
            n == Len(text)
            g == [p \in D \X (1..n) |-> Validated(text, p[1])]
            R(after) == after = [i \in 0..Len(text) |->
                          IF i = 0 THEN Start ELSE Validated(text, after[i - 1])]
<1>1. \A t \in D, i \in 1..n : g[<<t, i>>] = Validated(text, t)
  OBVIOUS
<1>2. g \in [D \X (1..n) -> D]
  <2>1. ASSUME NEW t \in D PROVE Validated(text, t) \in D
    <3>1. t.pos \in Nat /\ t.line \in Nat /\ t.col \in Nat
      BY DEF Cursors
    <3>2. WidthOf(text[t.pos]) \in Nat
      BY WidthIs DEF WidthOf
    <3>. QED  BY <3>1, <3>2 DEF Validated, Cursors
  <2>2. \A p \in D \X (1..n) : p[1] \in D
    OBVIOUS
  <2>. HIDE DEF D
  <2>. QED  BY <2>1, <2>2
<1>3. n \in Nat /\ n = Len(text) /\ Start \in D
  BY DEF Start, Cursors
<1>. HIDE DEF g, D, n
<1>4. PICK f \in [0..n -> D] : Folding(f, Start, g, n)
  BY <1>2, <1>3, FoldExists
<1>5. \A i \in 1..n : i - 1 \in 0..n /\ i \in 0..n /\ i # 0
  BY <1>3
<1>6. ValidatedRun(text, f)
  BY <1>1, <1>3, <1>4, <1>5 DEF Folding, ValidatedRun
<1>7. R(f)
  <2>1. f = [i \in 0..Len(text) |-> f[i]]
    BY <1>3
  <2>2. \A i \in 0..Len(text) : i = 0 \/ i \in 1..Len(text)
    OBVIOUS
  <2>3. \A i \in 0..Len(text) : f[i] = IF i = 0 THEN Start ELSE Validated(text, f[i - 1])
    BY <1>6, <2>2 DEF ValidatedRun
  <2>. QED  BY <2>1, <2>3
<1>8. PICK h : R(h) /\ FirstInvalid(text) = h[Len(text)]
  <2>. DEFINE h == CHOOSE after : R(after)
  <2>1. FirstInvalid(text) = h[Len(text)]
    BY DEF FirstInvalid
  <2>2. R(h)
    <3>. HIDE DEF R
    <3>. QED  BY <1>7
  <2>. QED  BY <2>1, <2>2
<1>9. ValidatedRun(text, h)
  <2>1. \A i \in 0..Len(text) : h[i] = IF i = 0 THEN Start ELSE Validated(text, h[i - 1])
    BY <1>8
  <2>. QED  BY <1>3, <1>5, <2>1 DEF ValidatedRun
<1>. QED  BY <1>8, <1>9

\* A turn goes past a sequence, if there is one.
LEMMA ValidatedIs ==
  ASSUME NEW text \in Seq(Byte), NEW p \in 1..(Len(text) + 1), Utf8On(text, 1, p - 1)
  PROVE  \/ /\ p > Len(text) \/ ~ IsSequence(text, p)
            /\ Validated(text, PlaceIn(text, p)) = PlaceIn(text, p)
         \/ \E q \in (p + 1)..(Len(text) + 1) :
              Utf8On(text, 1, q - 1) /\ Validated(text, PlaceIn(text, p)) = PlaceIn(text, q)
<1>. DEFINE c == PlaceIn(text, p)
<1>1. c.pos = p /\ c.line = LineIn(text, p) /\ c.col = ColIn(text, p)
  BY DEF PlaceIn
<1>. HIDE DEF c
<1>2. CASE p > Len(text) \/ ~ IsSequence(text, p)
  BY <1>1, <1>2 DEF Validated, c
<1>3. CASE p <= Len(text) /\ IsSequence(text, p)
  <2>. DEFINE w == WidthOf(text[p])
  <2>1. /\ w \in 1..4 /\ p + w <= Len(text) + 1 /\ Utf8On(text, 1, (p + w) - 1)
        /\ \A i \in (p + 1)..((p + w) - 1) : text[i] = "more"
    <3>1. p \in 1..Len(text)
      BY <1>3
    <3>. QED  BY <1>3, <3>1, Utf8More
  <2>2. CASE text[p] = NL
    <3>1. Validated(text, c) = PlaceIn(text, p + 1)
      BY <1>1, <1>3, <2>2, PlaceNextLine DEF Validated, PlaceIn
    <3>2. w = 1
      BY <2>2 DEF WidthOf, Width, NL
    <3>3. p + 1 \in (p + 1)..(Len(text) + 1)
      BY <1>3
    <3>. QED  BY <2>1, <3>1, <3>2, <3>3 DEF c
  <2>3. CASE text[p] # NL
    <3>. HIDE DEF w
    <3>1. \A i \in p..((p + w) - 1) : text[i] # NL
      <4>1. \A i \in p..((p + w) - 1) : i = p \/ i \in (p + 1)..((p + w) - 1)
        BY <2>1
      <4>. QED  BY <2>1, <2>3, <4>1 DEF NL
    <3>2. /\ LineIn(text, p + w) = LineIn(text, p)
          /\ ColIn(text, p + w) = ColIn(text, p) + ((p + w) - p)
      <4>1. p + w \in Nat /\ p <= p + w
        BY <2>1
      <4>. QED  BY <3>1, <4>1, PlaceOnLine
    <3>3. Validated(text, c) =
            [pos |-> p + w, line |-> LineIn(text, p), col |-> ColIn(text, p) + w]
      BY <1>1, <1>3, <2>3 DEF Validated, w
    <3>4. (p + w) - p = w /\ p + w \in (p + 1)..(Len(text) + 1)
      BY <2>1
    <3>5. Validated(text, c) = PlaceIn(text, p + w)
      BY <3>2, <3>3, <3>4 DEF PlaceIn
    <3>. QED  BY <2>1, <3>4, <3>5 DEF c
  <2>. QED  BY <2>2, <2>3
<1>. QED  BY <1>2, <1>3

\* Where first_invalid_utf8 stops: all before is UTF-8, and nothing goes on from there.
LEMMA FirstInvalidIs ==
  ASSUME NEW text \in Seq(Byte)
  PROVE  \E p \in 1..(Len(text) + 1) :
           /\ FirstInvalid(text) = PlaceIn(text, p) /\ Utf8On(text, 1, p - 1)
           /\ p <= Len(text) => ~ IsSequence(text, p)
<1>. DEFINE n == Len(text)
            Far(p, i) == p > i \/ ~ IsSequence(text, p)
<1>1. PICK f : ValidatedRun(text, f) /\ FirstInvalid(text) = f[n]
  BY FirstInvalidUnfold
<1>. DEFINE Good(i) == \E p \in 1..(n + 1) :
              f[i] = PlaceIn(text, p) /\ Utf8On(text, 1, p - 1) /\ Far(p, i)
            S == {i \in Nat : i <= n => Good(i)}
<1>2. n \in Nat
  OBVIOUS
<1>3. 0 \in S
  <2>1. f[0] = PlaceIn(text, 1) /\ 1 \in 1..(n + 1) /\ 1 > 0
    BY <1>1, PlaceFirst DEF ValidatedRun
  <2>2. Utf8On(text, 1, 1 - 1)
    BY DEF Utf8On
  <2>. QED  BY <2>1, <2>2
<1>4. ASSUME NEW i \in Nat, i \in S PROVE i + 1 \in S
  <2>1. SUFFICES ASSUME i + 1 <= n PROVE Good(i + 1)
    OBVIOUS
  <2>2. PICK p \in 1..(n + 1) : f[i] = PlaceIn(text, p) /\ Utf8On(text, 1, p - 1) /\ Far(p, i)
    BY <1>4, <2>1
  <2>3. f[i + 1] = Validated(text, PlaceIn(text, p))
    <3>1. i + 1 \in 1..Len(text) /\ (i + 1) - 1 = i
      BY <2>1
    <3>. QED  BY <1>1, <2>2, <3>1 DEF ValidatedRun
  <2>4. CASE /\ p > Len(text) \/ ~ IsSequence(text, p)
             /\ Validated(text, PlaceIn(text, p)) = PlaceIn(text, p)
    <3>1. Far(p, i + 1)
      BY <2>1, <2>4
    <3>. QED  BY <2>2, <2>3, <2>4, <3>1
  <2>5. ASSUME NEW q \in (p + 1)..(Len(text) + 1), Utf8On(text, 1, q - 1),
               Validated(text, PlaceIn(text, p)) = PlaceIn(text, q),
               ~ (p > Len(text) \/ ~ IsSequence(text, p))
        PROVE  Good(i + 1)
    <3>1. q \in 1..(n + 1) /\ Far(q, i + 1)
      BY <2>2, <2>5
    <3>. QED  BY <2>3, <2>5, <3>1
  <2>6. \/ /\ p > Len(text) \/ ~ IsSequence(text, p)
           /\ Validated(text, PlaceIn(text, p)) = PlaceIn(text, p)
        \/ \E q \in (p + 1)..(Len(text) + 1) :
             Utf8On(text, 1, q - 1) /\ Validated(text, PlaceIn(text, p)) = PlaceIn(text, q)
    BY <2>2, ValidatedIs
  <2>7. p > Len(text) \/ ~ IsSequence(text, p) =>
          Validated(text, PlaceIn(text, p)) = PlaceIn(text, p)
    BY DEF Validated, PlaceIn
  <2>. QED  BY <2>4, <2>5, <2>6, <2>7
<1>5. n \in S
  <2>. HIDE DEF S
  <2>1. Nat \subseteq S
    BY <1>3, <1>4, Induct
  <2>. QED  BY <1>2, <2>1
<1>6. PICK p \in 1..(n + 1) : f[n] = PlaceIn(text, p) /\ Utf8On(text, 1, p - 1) /\ Far(p, n)
  BY <1>2, <1>5
<1>7. p <= n => ~ IsSequence(text, p)
  BY <1>2, <1>6
<1>. QED  BY <1>1, <1>6, <1>7

\* The encoding is looked at before anything else.
LEMMA ValidateKeeps ==
  ASSUME IInv, failure = None, Validate
  PROVE  IInv'
<1>1. src \in Seq(Byte) /\ src' = src /\ tokens' = tokens /\ Len(src) \in Nat
  BY DEF IInv, Validate
<1>2. PICK p \in 1..(Len(src) + 1) :
        /\ FirstInvalid(src) = PlaceIn(src, p) /\ Utf8On(src, 1, p - 1)
        /\ p <= Len(src) => ~ IsSequence(src, p)
  BY <1>1, FirstInvalidIs
<1>3. IsUtf8(SubSeq(src, 1, p - 1))
  <2>1. 1 \in 1..(Len(src) + 1) /\ p - 1 \in Nat /\ p - 1 <= Len(src) /\ 1 <= (p - 1) + 1
    BY <1>1
  <2>. QED  BY <1>1, <1>2, <2>1, Utf8At
<1>4. PlaceIn(src, p).pos = p
  BY DEF PlaceIn
<1>5. CASE p = Len(src) + 1
  <2>1. cursor' = Start /\ failure' = failure
    BY <1>1, <1>2, <1>4, <1>5 DEF Validate, AtEnd
  <2>2. IsUtf8(src)
    BY <1>1, <1>2, <1>5, Utf8Is
  <2>3. \E q \in Places' : cursor' = At(q)'
    <3>1. Start = PlaceIn(src', 1)
      BY PlaceFirst
    <3>2. 1 \in Places'
      BY <1>1 DEF Places
    <3>. QED  BY <2>1, <3>1, <3>2 DEF At
  <2>. QED  BY <1>1, <2>1, <2>2, <2>3 DEF IInv
<1>6. CASE p <= Len(src)
  <2>1. /\ failure' = [code |-> "INVALID_UTF8", line |-> LineIn(src, p), col |-> ColIn(src, p),
                       pos |-> p]
        /\ cursor' = cursor
    BY <1>1, <1>2, <1>6 DEF Validate, AtEnd, PlaceIn
  <2>2. \A end \in p..Len(src) : ~ IsUtf8(SubSeq(src, p, end))
    <3>1. p \in 1..Len(src)
      BY <1>6
    <3>. QED  BY <1>1, <1>2, <1>6, <3>1, Utf8Less
  <2>3. FailureRight(src, failure')
    BY <1>3, <2>1, <2>2 DEF FailureRight, Tells
  <2>4. cursor.pos = 0
    BY DEF Validate
  <2>. QED  BY <1>1, <2>1, <2>3, <2>4 DEF IInv
<1>. QED  BY <1>1, <1>5, <1>6

-----------------------------------------------------------------------------
(* Strings *)

\* What a scan comes to.
Scans == [code : {"open", "none", "UNTERMINATED_STRING", "INVALID_ESCAPE"}, at : Cursors]

\* Where advances and jumps lead is a cursor.
LEMMA AdvancedTyped ==
  ASSUME NEW c \in Cursors
  PROVE  Advance(c) \in Cursors /\ Jump(c, 2) \in Cursors /\ Advanced(c, 3) \in Cursors
<1>1. ASSUME NEW d \in Cursors PROVE Advance(d) \in Cursors /\ Jump(d, 2) \in Cursors
  <2>1. d.pos \in Nat /\ d.line \in Nat /\ d.col \in Nat
    BY DEF Cursors
  <2>. QED  BY <2>1 DEF Cursors, Advance, Jump
<1>2. PICK f : AdvancedRun(c, 3, f) /\ Advanced(c, 3) = f[3]
  BY AdvancedUnfold
<1>3. f[0] = c /\ f[1] = Advance(f[0]) /\ f[2] = Advance(f[1]) /\ f[3] = Advance(f[2])
  <2>1. 1 \in 1..3 /\ 2 \in 1..3 /\ 3 \in 1..3 /\ 1 - 1 = 0 /\ 2 - 1 = 1 /\ 3 - 1 = 2
    OBVIOUS
  <2>2. f[0] = c /\ \A i \in 1..3 : f[i] = Advance(f[i - 1])
    BY <1>2 DEF AdvancedRun
  <2>. QED  BY <2>1, <2>2
<1>. QED  BY <1>1, <1>2, <1>3

\* f is the scan at every turn of the loop of lex_string.
StringRun(c, f) == f[0] = Open(c) /\ \A i \in 1..Len(src) : f[i] = StringTurn(f[i - 1])

\* What ScanString computes is the last scan of such a run.
LEMMA ScanStringUnfold ==
  ASSUME src \in Seq(Byte), NEW c \in Cursors
  PROVE  \E f : StringRun(c, f) /\ ScanString(c) = f[Len(src)]
<1>. DEFINE D == Scans
            n == Len(src)
            g == [p \in D \X (1..n) |-> StringTurn(p[1])]
            R(after) == after = [i \in 0..Len(src) |->
                          IF i = 0 THEN Open(c) ELSE StringTurn(after[i - 1])]
<1>1. \A t \in D, i \in 1..n : g[<<t, i>>] = StringTurn(t)
  OBVIOUS
<1>2. g \in [D \X (1..n) -> D]
  <2>1. ASSUME NEW t \in D PROVE StringTurn(t) \in D
    <3>1. t.at \in Cursors
      BY DEF Scans
    <3>2. Advance(t.at) \in Cursors /\ Jump(t.at, 2) \in Cursors
      BY <3>1, AdvancedTyped
    <3>. QED  BY <3>1, <3>2 DEF StringTurn, Scans, Open, Closed, Broken
  <2>2. \A p \in D \X (1..n) : p[1] \in D
    OBVIOUS
  <2>. HIDE DEF D
  <2>. QED  BY <2>1, <2>2
<1>3. n \in Nat /\ n = Len(src) /\ Open(c) \in D
  BY DEF Open, Scans
<1>. HIDE DEF g, D, n
<1>4. PICK f \in [0..n -> D] : Folding(f, Open(c), g, n)
  BY <1>2, <1>3, FoldExists
<1>5. \A i \in 1..n : i - 1 \in 0..n /\ i \in 0..n /\ i # 0
  BY <1>3
<1>6. StringRun(c, f)
  BY <1>1, <1>3, <1>4, <1>5 DEF Folding, StringRun
<1>7. R(f)
  <2>1. f = [i \in 0..Len(src) |-> f[i]]
    BY <1>3
  <2>2. \A i \in 0..Len(src) : i = 0 \/ i \in 1..Len(src)
    BY <1>3
  <2>3. \A i \in 0..Len(src) : f[i] = IF i = 0 THEN Open(c) ELSE StringTurn(f[i - 1])
    BY <1>6, <2>2 DEF StringRun
  <2>. QED  BY <2>1, <2>3
<1>8. PICK h : R(h) /\ ScanString(c) = h[Len(src)]
  <2>. DEFINE h == CHOOSE after : R(after)
  <2>1. ScanString(c) = h[Len(src)]
    BY DEF ScanString
  <2>2. R(h)
    <3>. HIDE DEF R
    <3>. QED  BY <1>7
  <2>. QED  BY <2>1, <2>2
<1>9. StringRun(c, h)
  <2>1. \A i \in 0..Len(src) : h[i] = IF i = 0 THEN Open(c) ELSE StringTurn(h[i - 1])
    BY <1>8
  <2>. QED  BY <1>3, <1>5, <2>1 DEF StringRun
<1>. QED  BY <1>8, <1>9

\* f is the scan at every turn of the loop of lex_multiline_string.
MultilineRun(c, f) == f[0] = Open(c) /\ \A i \in 1..Len(src) : f[i] = MultilineTurn(f[i - 1])

\* What ScanMultiline computes is the last scan of such a run.
LEMMA ScanMultilineUnfold ==
  ASSUME src \in Seq(Byte), NEW c \in Cursors
  PROVE  \E f : MultilineRun(c, f) /\ ScanMultiline(c) = f[Len(src)]
<1>. DEFINE D == Scans
            n == Len(src)
            g == [p \in D \X (1..n) |-> MultilineTurn(p[1])]
            R(after) == after = [i \in 0..Len(src) |->
                          IF i = 0 THEN Open(c) ELSE MultilineTurn(after[i - 1])]
<1>1. \A t \in D, i \in 1..n : g[<<t, i>>] = MultilineTurn(t)
  OBVIOUS
<1>2. g \in [D \X (1..n) -> D]
  <2>1. ASSUME NEW t \in D PROVE MultilineTurn(t) \in D
    <3>1. t.at \in Cursors
      BY DEF Scans
    <3>2. Advance(t.at) \in Cursors /\ Advanced(t.at, 3) \in Cursors
      BY <3>1, AdvancedTyped
    <3>. QED  BY <3>1, <3>2 DEF MultilineTurn, Scans, Open, Closed, Broken
  <2>2. \A p \in D \X (1..n) : p[1] \in D
    OBVIOUS
  <2>. HIDE DEF D
  <2>. QED  BY <2>1, <2>2
<1>3. n \in Nat /\ n = Len(src) /\ Open(c) \in D
  BY DEF Open, Scans
<1>. HIDE DEF g, D, n
<1>4. PICK f \in [0..n -> D] : Folding(f, Open(c), g, n)
  BY <1>2, <1>3, FoldExists
<1>5. \A i \in 1..n : i - 1 \in 0..n /\ i \in 0..n /\ i # 0
  BY <1>3
<1>6. MultilineRun(c, f)
  BY <1>1, <1>3, <1>4, <1>5 DEF Folding, MultilineRun
<1>7. R(f)
  <2>1. f = [i \in 0..Len(src) |-> f[i]]
    BY <1>3
  <2>2. \A i \in 0..Len(src) : i = 0 \/ i \in 1..Len(src)
    BY <1>3
  <2>3. \A i \in 0..Len(src) : f[i] = IF i = 0 THEN Open(c) ELSE MultilineTurn(f[i - 1])
    BY <1>6, <2>2 DEF MultilineRun
  <2>. QED  BY <2>1, <2>3
<1>8. PICK h : R(h) /\ ScanMultiline(c) = h[Len(src)]
  <2>. DEFINE h == CHOOSE after : R(after)
  <2>1. ScanMultiline(c) = h[Len(src)]
    BY DEF ScanMultiline
  <2>2. R(h)
    <3>. HIDE DEF R
    <3>. QED  BY <1>7
  <2>. QED  BY <2>1, <2>2
<1>9. MultilineRun(c, h)
  <2>1. \A i \in 0..Len(src) : h[i] = IF i = 0 THEN Open(c) ELSE MultilineTurn(h[i - 1])
    BY <1>8
  <2>. QED  BY <1>3, <1>5, <2>1 DEF MultilineRun
<1>. QED  BY <1>8, <1>9

\* Three quotes at a place.
QuotesAt(text, q) ==
  q + 2 <= Len(text) /\ text[q] = Quote /\ text[q + 1] = Quote /\ text[q + 2] = Quote

\* What the lexer sees of them.
LEMMA ThreeIs ==
  ASSUME src \in Seq(Byte), NEW q \in Places
  PROVE  ThreeQuotes(At(q)) <=> QuotesAt(src, q)
<1>1. q \in Nat /\ Len(src) \in Nat /\ At(q).pos = q
  BY AtTyped DEF Places
<1>2. ThreeQuotes(At(q)) <=>
        Peek(At(q)) = Quote /\ PeekAhead(At(q), 1) = Quote /\ PeekAhead(At(q), 2) = Quote
  BY DEF ThreeQuotes, TripleQuote
<1>3. "end" # Quote
  BY DEF Quote
<1>. QED  BY <1>1, <1>2, <1>3 DEF Peek, PeekAhead, AtEnd, QuotesAt

\* What a run of three bytes is.
LEMMA ThreeOf ==
  ASSUME NEW text \in Seq(Byte), NEW q \in 1..Len(text), q + 2 <= Len(text)
  PROVE  SubSeq(text, q, q + 2) = TripleQuote <=> QuotesAt(text, q)
<1>. DEFINE u == SubSeq(text, q, q + 2)
<1>1. /\ u \in Seq(Byte) /\ Len(u) = 3
      /\ u[1] = text[q] /\ u[2] = text[q + 1] /\ u[3] = text[q + 2]
  <2>1. /\ u \in Seq(Byte) /\ Len(u) = (q + 2) - q + 1
        /\ \A i \in 1..((q + 2) - q + 1) : u[i] = text[q + i - 1]
    <3>1. q \in 1..(Len(text) + 1) /\ q + 2 \in Nat /\ q <= (q + 2) + 1
      OBVIOUS
    <3>. QED  BY <3>1, RunIs
  <2>2. (q + 2) - q + 1 = 3 /\ 1 \in 1..3 /\ 2 \in 1..3 /\ 3 \in 1..3
        /\ q + 1 - 1 = q /\ q + 2 - 1 = q + 1 /\ q + 3 - 1 = q + 2
    OBVIOUS
  <2>. QED  BY <2>1, <2>2
<1>. HIDE DEF u
<1>2. u = TripleQuote <=> u[1] = Quote /\ u[2] = Quote /\ u[3] = Quote
  BY <1>1 DEF TripleQuote
<1>3. u = TripleQuote <=> QuotesAt(text, q)
  BY <1>1, <1>2 DEF QuotesAt
<1>. QED  BY <1>3 DEF u

ScanCodes == {"open", "none", "UNTERMINATED_STRING", "INVALID_ESCAPE"}

\* What a turn of lex_string does at a place.
StringMove(q, r, code) ==
  \/ /\ q = Len(src) + 1 \/ src[q] = NL
     /\ r = q /\ code = "UNTERMINATED_STRING"
  \/ /\ q <= Len(src) /\ src[q] = Quote
     /\ r = q + 1 /\ code = "none"
  \/ /\ q <= Len(src) /\ src[q] = Backslash
     /\ \/ /\ r = q /\ code \in {"UNTERMINATED_STRING", "INVALID_ESCAPE"}
           /\ ~ (q + 1 <= Len(src) /\ src[q + 1] \in Escapes)
        \/ /\ r = q + 2 /\ code = "open" /\ q + 1 <= Len(src) /\ src[q + 1] \in Escapes
  \/ /\ q <= Len(src) /\ src[q] \notin {NL, Quote, Backslash}
     /\ r = q + 1 /\ code = "open"

\* Those are the moves.
LEMMA StringTurnIs ==
  ASSUME src \in Seq(Byte), NEW q \in Places
  PROVE  \E r \in Places, code \in ScanCodes :
           StringMove(q, r, code) /\ StringTurn(Open(At(q))) = [code |-> code, at |-> At(r)]
<1>. DEFINE c == At(q)
            s == Open(c)
            turn == StringTurn(s)
            Goal(r, code) == StringMove(q, r, code) /\ turn = [code |-> code, at |-> At(r)]
<1>1. q \in Nat /\ Len(src) \in Nat /\ 1 <= q /\ q <= Len(src) + 1
  BY DEF Places
<1>2. s.code = "open" /\ s.at = c
  BY DEF Open
<1>3. Peek(c) = IF q <= Len(src) THEN src[q] ELSE "end"
  BY PeekAt
<1>4. \/ q + 1 > Len(src) /\ PeekAhead(c, 1) = "end"
      \/ q + 1 <= Len(src) /\ PeekAhead(c, 1) = src[q + 1] /\ src[q + 1] # "end"
  BY PeekIs, Bytes
<1>5. /\ NL # Quote /\ NL # Backslash /\ Quote # Backslash /\ "end" \notin {NL, Quote, Backslash}
      /\ NL \notin Escapes
  BY DEF NL, Quote, Backslash, Escapes
<1>6. q <= Len(src) => q \in 1..Len(src) /\ q + 1 \in Places /\ src[q] # "end"
  <2>1. q <= Len(src) => q # Len(src) + 1
    BY <1>1
  <2>2. q <= Len(src) => src[q] \in Byte
    BY <2>1, PeekIs
  <2>. QED  BY <1>1, <2>2, Bytes DEF Places
<1>7. /\ \A t : Closed(t) = [code |-> "none", at |-> t] /\ Open(t) = [code |-> "open", at |-> t]
      /\ \A t, code : Broken(code, t) = [code |-> code, at |-> t]
      /\ {"UNTERMINATED_STRING", "INVALID_ESCAPE", "none", "open"} \subseteq ScanCodes
  BY DEF Closed, Open, Broken, ScanCodes
<1>8. \A r \in Places, code \in ScanCodes : Goal(r, code) =>
         \E x \in Places, y \in ScanCodes :
           StringMove(q, x, y) /\ StringTurn(Open(At(q))) = [code |-> y, at |-> At(x)]
  OBVIOUS
<1>9. c = At(q)
  OBVIOUS
<1>. HIDE DEF c, s
<1>10. CASE q = Len(src) + 1 \/ src[q] = NL
  <2>1. Peek(c) \in {"end", NL}
    BY <1>1, <1>3, <1>10
  <2>2. turn = Broken("UNTERMINATED_STRING", c)
    BY <1>2, <1>5, <2>1 DEF StringTurn
  <2>3. StringMove(q, q, "UNTERMINATED_STRING")
    BY <1>10 DEF StringMove
  <2>4. Goal(q, "UNTERMINATED_STRING")
    BY <1>7, <1>9, <2>2, <2>3
  <2>. HIDE DEF Goal
  <2>. QED  BY <1>7, <1>8, <2>4
<1>11. CASE q <= Len(src) /\ src[q] = Quote
  <2>1. turn = Closed(Advance(c))
    BY <1>2, <1>3, <1>5, <1>11 DEF StringTurn
  <2>2. Advance(c) = At(q + 1)
    BY <1>6, <1>11, <1>9, AdvanceIs
  <2>3. StringMove(q, q + 1, "none")
    BY <1>11 DEF StringMove
  <2>4. Goal(q + 1, "none")
    BY <1>7, <2>1, <2>2, <2>3
  <2>. HIDE DEF Goal
  <2>. QED  BY <1>7, <1>8, <1>6, <1>11, <2>4
<1>12. CASE q <= Len(src) /\ src[q] = Backslash
  <2>1. turn = IF PeekAhead(c, 1) = "end" THEN Broken("UNTERMINATED_STRING", c)
               ELSE IF PeekAhead(c, 1) \notin Escapes THEN Broken("INVALID_ESCAPE", c)
               ELSE Open(Jump(c, 2))
    BY <1>2, <1>3, <1>5, <1>6, <1>12 DEF StringTurn
  <2>2. CASE PeekAhead(c, 1) = "end"
    <3>1. StringMove(q, q, "UNTERMINATED_STRING")
      <4>1. ~ q + 1 <= Len(src)
        BY <1>1, <1>4, <2>2
      <4>. QED  BY <1>12, <4>1 DEF StringMove
    <3>2. Goal(q, "UNTERMINATED_STRING")
      BY <1>7, <1>9, <2>1, <2>2, <3>1
    <3>. HIDE DEF Goal
    <3>. QED  BY <1>7, <1>8, <3>2
  <2>3. CASE PeekAhead(c, 1) # "end" /\ PeekAhead(c, 1) \notin Escapes
    <3>1. StringMove(q, q, "INVALID_ESCAPE")
      <4>1. ~ (q + 1 <= Len(src) /\ src[q + 1] \in Escapes)
        BY <1>1, <1>4, <2>3
      <4>. QED  BY <1>12, <4>1 DEF StringMove
    <3>2. Goal(q, "INVALID_ESCAPE")
      BY <1>7, <1>9, <2>1, <2>3, <3>1
    <3>. HIDE DEF Goal
    <3>. QED  BY <1>7, <1>8, <3>2
  <2>4. CASE PeekAhead(c, 1) # "end" /\ PeekAhead(c, 1) \in Escapes
    <3>1. q + 1 <= Len(src) /\ src[q + 1] \in Escapes /\ q + 2 \in Places
      BY <1>1, <1>4, <2>4 DEF Places
    <3>2. \A i \in q..((q + 2) - 1) : src[i] # NL
      <4>1. \A i \in q..((q + 2) - 1) : i = q \/ i = q + 1
        BY <1>1
      <4>. QED  BY <1>5, <1>12, <3>1, <4>1
    <3>3. Jump(c, (q + 2) - q) = At(q + 2) /\ (q + 2) - q = 2
      <4>1. Jump(At(q), (q + 2) - q) = At(q + 2)
        BY <1>1, <3>1, <3>2, JumpIs
      <4>. QED  BY <1>1, <1>9, <4>1
    <3>4. turn = [code |-> "open", at |-> At(q + 2)]
      BY <1>7, <2>1, <2>4, <3>3
    <3>5. StringMove(q, q + 2, "open")
      BY <1>12, <3>1 DEF StringMove
    <3>6. Goal(q + 2, "open")
      BY <3>4, <3>5
    <3>. HIDE DEF Goal
    <3>. QED  BY <1>7, <1>8, <3>1, <3>6
  <2>. QED  BY <2>2, <2>3, <2>4
<1>13. CASE q <= Len(src) /\ src[q] \notin {NL, Quote, Backslash}
  <2>1. turn = Open(Advance(c))
    BY <1>2, <1>3, <1>6, <1>13 DEF StringTurn
  <2>2. Advance(c) = At(q + 1)
    BY <1>6, <1>13, <1>9, AdvanceIs
  <2>3. StringMove(q, q + 1, "open")
    BY <1>13 DEF StringMove
  <2>4. Goal(q + 1, "open")
    BY <1>7, <2>1, <2>2, <2>3
  <2>. HIDE DEF Goal
  <2>. QED  BY <1>7, <1>8, <1>6, <1>13, <2>4
<1>. QED  BY <1>1, <1>10, <1>11, <1>12, <1>13

\* A scan that has ended stays as it is.
LEMMA ScanEnded ==
  ASSUME NEW scan, scan.code # "open"
  PROVE  StringTurn(scan) = scan /\ MultilineTurn(scan) = scan
BY DEF StringTurn, MultilineTurn

\* Where the scan of a string is after i turns: at r, by its code.
Scanned(f, i, r, code) == f[i] = [code |-> code, at |-> At(r)]

\* And so does its run.
LEMMA ScanStays ==
  ASSUME src \in Seq(Byte), NEW c, NEW f, StringRun(c, f) \/ MultilineRun(c, f),
         NEW i \in 0..Len(src), f[i].code # "open"
  PROVE  f[Len(src)] = f[i]
<1>. DEFINE S == {j \in Nat : i <= j /\ j <= Len(src) => f[j] = f[i]}
<1>1. 0 \in S
  OBVIOUS
<1>2. ASSUME NEW j \in Nat, j \in S PROVE j + 1 \in S
  <2>1. SUFFICES ASSUME i <= j + 1, j + 1 <= Len(src) PROVE f[j + 1] = f[i]
    OBVIOUS
  <2>2. CASE i = j + 1
    BY <2>2
  <2>3. CASE i <= j
    <3>1. f[j] = f[i] /\ j + 1 \in 1..Len(src) /\ (j + 1) - 1 = j
      BY <1>2, <2>1, <2>3
    <3>2. f[j + 1] = StringTurn(f[j]) \/ f[j + 1] = MultilineTurn(f[j])
      BY <3>1 DEF StringRun, MultilineRun
    <3>. QED  BY <3>1, <3>2, ScanEnded
  <2>. QED  BY <1>2, <2>1, <2>2, <2>3
<1>3. Len(src) \in S
  <2>. HIDE DEF S
  <2>1. Nat \subseteq S
    BY <1>1, <1>2, Induct
  <2>. QED  BY <2>1
<1>. QED  BY <1>3

\* Every turn has the scan at a place, and while it is open it goes on.
LEMMA StringPlaces ==
  ASSUME src \in Seq(Byte), NEW p \in Places, NEW f, StringRun(At(p), f)
  PROVE  \A i \in 0..Len(src) : \E r \in Places, code \in ScanCodes :
           /\ Scanned(f, i, r, code) /\ (code = "open" => r >= p + i) /\ r >= p
           /\ code = "none" => r > p /\ src[r - 1] = Quote
<1>. DEFINE Good(i) == \E r \in Places, code \in ScanCodes :
              /\ Scanned(f, i, r, code) /\ (code = "open" => r >= p + i) /\ r >= p
              /\ code = "none" => r > p /\ src[r - 1] = Quote
            S == {i \in Nat : i <= Len(src) => Good(i)}
<1>1. p \in Nat /\ Len(src) \in Nat /\ \A r \in Places : r \in Nat
  BY DEF Places
<1>2. 0 \in S
  <2>1. Scanned(f, 0, p, "open") /\ p >= p + 0
    BY <1>1 DEF StringRun, Scanned, Open
  <2>. QED  BY <1>1, <2>1 DEF ScanCodes
<1>3. ASSUME NEW i \in Nat, i \in S PROVE i + 1 \in S
  <2>1. SUFFICES ASSUME i + 1 <= Len(src) PROVE Good(i + 1)
    OBVIOUS
  <2>2. PICK q \in Places, code \in ScanCodes :
          /\ Scanned(f, i, q, code) /\ (code = "open" => q >= p + i) /\ q >= p
          /\ code = "none" => q > p /\ src[q - 1] = Quote
    BY <1>1, <1>3, <2>1
  <2>3. f[i + 1] = StringTurn(f[i])
    <3>1. i + 1 \in 1..Len(src) /\ (i + 1) - 1 = i
      BY <1>1, <2>1
    <3>. QED  BY <3>1 DEF StringRun
  <2>4. CASE code # "open"
    <3>1. Scanned(f, i + 1, q, code)
      BY <2>2, <2>3, <2>4, ScanEnded DEF Scanned
    <3>. QED  BY <2>2, <2>4, <3>1
  <2>5. CASE code = "open"
    <3>1. f[i] = Open(At(q))
      BY <2>2, <2>5 DEF Scanned, Open
    <3>2. PICK r \in Places, to \in ScanCodes :
            StringMove(q, r, to) /\ StringTurn(Open(At(q))) = [code |-> to, at |-> At(r)]
      BY StringTurnIs
    <3>3. r >= q /\ (to = "open" => r >= q + 1)
      BY <1>1, <3>2 DEF StringMove
    <3>4. Scanned(f, i + 1, r, to)
      BY <2>3, <3>1, <3>2 DEF Scanned
    <3>5. q \in Nat /\ r \in Nat /\ q >= p + i
      BY <1>1, <2>2, <2>5
    <3>6. r >= p /\ (to = "open" => r >= p + (i + 1))
      BY <1>1, <2>2, <3>3, <3>5
    <3>7. to = "none" => r > p /\ src[r - 1] = Quote
      <4>1. to = "none" => r = q + 1 /\ src[q] = Quote
        BY <3>2 DEF StringMove
      <4>. QED  BY <1>1, <2>2, <3>5, <4>1
    <3>. QED  BY <3>4, <3>6, <3>7
  <2>. QED  BY <2>4, <2>5
<1>4. Nat \subseteq S
  <2>. HIDE DEF S
  <2>. QED  BY <1>2, <1>3, Induct
<1>. QED  BY <1>4

\* A scan that will close, and is open at a place, closes past it.
LEMMA StringCloses ==
  ASSUME src \in Seq(Byte), NEW p \in Places, NEW f, StringRun(At(p), f),
         NEW i \in 0..Len(src), NEW q \in Places, Scanned(f, i, q, "open"),
         NEW r \in Places, Scanned(f, Len(src), r, "none")
  PROVE  q < r
<1>. DEFINE Good(k) == \E x \in Places, code \in ScanCodes :
              /\ Scanned(f, k, x, code) /\ x >= q
              /\ code = "none" => x > q
            S == {k \in Nat : i <= k /\ k <= Len(src) => Good(k)}
<1>1. i \in Nat /\ Len(src) \in Nat /\ \A x \in Places : x \in Nat
  BY DEF Places
<1>2. 0 \in S
  <2>1. SUFFICES ASSUME i = 0 PROVE Good(0)
    BY <1>1
  <2>. QED  BY <1>1, <2>1 DEF ScanCodes
<1>3. ASSUME NEW k \in Nat, k \in S PROVE k + 1 \in S
  <2>1. SUFFICES ASSUME i <= k + 1, k + 1 <= Len(src) PROVE Good(k + 1)
    OBVIOUS
  <2>2. CASE i = k + 1
    <3>1. Scanned(f, k + 1, q, "open") /\ q >= q
      BY <1>1, <2>2
    <3>. QED  BY <3>1 DEF ScanCodes
  <2>3. CASE i <= k
    <3>1. PICK x \in Places, code \in ScanCodes :
            Scanned(f, k, x, code) /\ x >= q /\ (code = "none" => x > q)
      BY <1>1, <1>3, <2>1, <2>3
    <3>2. f[k + 1] = StringTurn(f[k])
      <4>1. k + 1 \in 1..Len(src) /\ (k + 1) - 1 = k
        BY <1>1, <2>1
      <4>. QED  BY <4>1 DEF StringRun
    <3>3. CASE code # "open"
      <4>1. Scanned(f, k + 1, x, code)
        BY <3>1, <3>2, <3>3, ScanEnded DEF Scanned
      <4>. QED  BY <3>1, <4>1
    <3>4. CASE code = "open"
      <4>1. f[k] = Open(At(x))
        BY <3>1, <3>4 DEF Scanned, Open
      <4>2. PICK y \in Places, to \in ScanCodes :
              StringMove(x, y, to) /\ StringTurn(Open(At(x))) = [code |-> to, at |-> At(y)]
        BY StringTurnIs
      <4>3. y >= x /\ (to = "none" => y > x)
        BY <1>1, <4>2 DEF StringMove
      <4>4. Scanned(f, k + 1, y, to)
        BY <3>2, <4>1, <4>2 DEF Scanned
      <4>5. x \in Nat /\ y \in Nat /\ q \in Nat
        BY <1>1
      <4>6. y >= q /\ (to = "none" => y > q)
        BY <3>1, <4>3, <4>5
      <4>. QED  BY <4>4, <4>6
    <3>. QED  BY <3>3, <3>4
  <2>. QED  BY <1>1, <2>1, <2>2, <2>3
<1>4. Len(src) \in S
  <2>. HIDE DEF S
  <2>1. Nat \subseteq S
    BY <1>2, <1>3, Induct
  <2>. QED  BY <1>1, <2>1
<1>5. PICK x \in Places, code \in ScanCodes :
        Scanned(f, Len(src), x, code) /\ (code = "none" => x > q)
  BY <1>1, <1>4
<1>6. code = "none" /\ x = r
  <2>1. [code |-> code, at |-> At(x)] = [code |-> "none", at |-> At(r)]
    BY <1>5 DEF Scanned
  <2>2. code = "none" /\ At(x) = At(r)
    BY <2>1
  <2>. QED  BY <2>2, AtTyped
<1>. QED  BY <1>1, <1>5, <1>6

\* What a decoder's turn has put out, and where it is.
Decodings == [out : Seq(Byte \cup {InvalidEscape}), next : Nat \ {0}]

\* f is that at every turn of the loop of unescape_string.
DecodedRun(inner, f) ==
  /\ f[0] = [out |-> <<>>, next |-> 1]
  /\ \A i \in 1..Len(inner) : f[i] = DecodeTurn(inner, f[i - 1])

\* What is decoded is put out by the last turn of such a run.
LEMMA DecodedUnfold ==
  ASSUME NEW inner \in Seq(Byte)
  PROVE  \E f : DecodedRun(inner, f) /\ Decoded(inner) = f[Len(inner)].out
<1>. DEFINE D == Decodings
            n == Len(inner)
            none == <<>>
            first == [out |-> none, next |-> 1]
            g == [p \in D \X (1..n) |-> DecodeTurn(inner, p[1])]
            R(after) == after = [i \in 0..Len(inner) |->
                          IF i = 0 THEN [out |-> <<>>, next |-> 1]
                          ELSE DecodeTurn(inner, after[i - 1])]
<1>1. \A t \in D, i \in 1..n : g[<<t, i>>] = DecodeTurn(inner, t)
  OBVIOUS
<1>2. g \in [D \X (1..n) -> D]
  <2>1. ASSUME NEW t \in D PROVE DecodeTurn(inner, t) \in D
    <3>1. t.out \in Seq(Byte \cup {InvalidEscape}) /\ t.next \in Nat \ {0}
      BY DEF Decodings
    <3>2. \A c \in DOMAIN Unescaped : Unescaped[c] \in Byte
      BY DEF Unescaped, Byte, IdentChar, IdentStart, Spaces, Strange, Quote, Backslash, NL, Tab
    <3>3. \A k \in 1..Len(inner) : inner[k] \in Byte
      OBVIOUS
    <3>4. \A c \in Byte \cup {InvalidEscape} : Append(t.out, c) \in Seq(Byte \cup {InvalidEscape})
      BY <3>1
    <3>5. t.next <= Len(inner) => t.next \in 1..Len(inner)
      BY <3>1
    <3>6. t.next + 1 \in Nat \ {0} /\ t.next + 2 \in Nat \ {0} /\ Len(inner) + 1 \in Nat \ {0}
      BY <3>1
    <3>. HIDE DEF D
    <3>. QED  BY <3>2, <3>3, <3>4, <3>5, <3>6 DEF DecodeTurn, Decodings, D
  <2>2. \A p \in D \X (1..n) : p[1] \in D
    OBVIOUS
  <2>. HIDE DEF D
  <2>. QED  BY <2>1, <2>2
<1>3. n \in Nat /\ n = Len(inner) /\ first \in D
  BY DEF Decodings
<1>4. first = [out |-> <<>>, next |-> 1]
  OBVIOUS
<1>. HIDE DEF g, D, n, first
<1>5. PICK f \in [0..n -> D] : Folding(f, first, g, n)
  BY <1>2, <1>3, FoldExists
<1>6. \A i \in 1..n : i - 1 \in 0..n /\ i \in 0..n /\ i # 0
  BY <1>3
<1>7. DecodedRun(inner, f)
  BY <1>1, <1>3, <1>4, <1>5, <1>6 DEF Folding, DecodedRun
<1>8. R(f)
  <2>1. f = [i \in 0..Len(inner) |-> f[i]]
    BY <1>3
  <2>2. \A i \in 0..Len(inner) : i = 0 \/ i \in 1..Len(inner)
    OBVIOUS
  <2>3. \A i \in 0..Len(inner) : f[i] = IF i = 0 THEN [out |-> <<>>, next |-> 1]
                                        ELSE DecodeTurn(inner, f[i - 1])
    BY <1>7, <2>2 DEF DecodedRun
  <2>. QED  BY <2>1, <2>3
<1>9. PICK h : R(h) /\ Decoded(inner) = h[Len(inner)].out
  <2>. DEFINE h == CHOOSE after : R(after)
  <2>1. Decoded(inner) = h[Len(inner)].out
    BY DEF Decoded
  <2>2. R(h)
    <3>. HIDE DEF R
    <3>. QED  BY <1>8
  <2>. QED  BY <2>1, <2>2
<1>10. DecodedRun(inner, h)
  <2>1. \A i \in 0..Len(inner) : h[i] = IF i = 0 THEN [out |-> <<>>, next |-> 1]
                                        ELSE DecodeTurn(inner, h[i - 1])
    BY <1>9
  <2>2. \A i \in 1..Len(inner) : i - 1 \in 0..Len(inner) /\ i \in 0..Len(inner) /\ i # 0
    OBVIOUS
  <2>3. 0 \in 0..Len(inner)
    OBVIOUS
  <2>. HIDE DEF R
  <2>. QED  BY <2>1, <2>2, <2>3 DEF DecodedRun
<1>. QED  BY <1>9, <1>10

\* The escapes, and what they stand for.
LEMMA EscapesAre ==
  /\ DOMAIN Unescaped = Escapes /\ \A c \in Escapes : Unescaped[c] \in Byte
  /\ Escapes \subseteq Byte /\ Backslash \in Byte
BY DEF Unescaped, Escapes, Byte, IdentChar, IdentStart, Spaces, Strange, Quote, Backslash, NL, Tab

\* What a turn of unescape_string does, of a byte and of an escape.
LEMMA DecodeTurnIs ==
  ASSUME NEW inner \in Seq(Byte), NEW out, NEW k \in 1..Len(inner)
  PROVE  /\ inner[k] # Backslash =>
              DecodeTurn(inner, [out |-> out, next |-> k]) =
                [out |-> Append(out, inner[k]), next |-> k + 1]
         /\ inner[k] = Backslash /\ k < Len(inner) /\ inner[k + 1] \in Escapes =>
              DecodeTurn(inner, [out |-> out, next |-> k]) =
                [out |-> Append(out, Unescaped[inner[k + 1]]), next |-> k + 2]
<1>. DEFINE s == [out |-> out, next |-> k]
<1>1. s.out = out /\ s.next = k /\ k <= Len(inner) /\ ~ k > Len(inner)
  OBVIOUS
<1>. HIDE DEF s
<1>2. inner[k] # Backslash =>
        DecodeTurn(inner, s) = [out |-> Append(out, inner[k]), next |-> k + 1]
  BY <1>1 DEF DecodeTurn
<1>3. inner[k] = Backslash /\ k < Len(inner) /\ inner[k + 1] \in Escapes =>
        DecodeTurn(inner, s) = [out |-> Append(out, Unescaped[inner[k + 1]]), next |-> k + 2]
  BY <1>1, EscapesAre DEF DecodeTurn
<1>. QED  BY <1>2, <1>3 DEF s

\* And when there is no more.
LEMMA DecodeTurnDone ==
  ASSUME NEW inner \in Seq(Byte), NEW s, s.next = Len(inner) + 1
  PROVE  DecodeTurn(inner, s) = s
<1>1. s.next > Len(inner) /\ Len(inner) \in Nat
  OBVIOUS
<1>. QED  BY <1>1 DEF DecodeTurn

\* What the scan of a string comes to: an error at a place, or past a closing quote.
LEMMA ScanStringIs ==
  ASSUME src \in Seq(Byte), NEW p \in Places, p >= 2
  PROVE  \E f : \E r \in Places, code \in ScanCodes :
           /\ StringRun(At(p), f) /\ Scanned(f, Len(src), r, code)
           /\ ScanString(At(p)) = [code |-> code, at |-> At(r)]
           /\ code # "open" /\ (code = "none" => r > p /\ src[r - 1] = Quote)
<1>1. PICK f : StringRun(At(p), f) /\ ScanString(At(p)) = f[Len(src)]
  BY AtTyped, ScanStringUnfold
<1>2. /\ Len(src) \in 0..Len(src) /\ Len(src) \in Nat /\ p \in Nat
      /\ \A r \in Places : r <= Len(src) + 1
  BY DEF Places
<1>3. PICK r \in Places, code \in ScanCodes :
        /\ Scanned(f, Len(src), r, code) /\ (code = "open" => r >= p + Len(src))
        /\ code = "none" => r > p /\ src[r - 1] = Quote
  BY <1>1, <1>2, StringPlaces
<1>4. code # "open"
  <2>1. r \in Nat /\ r <= Len(src) + 1
    BY <1>2 DEF Places
  <2>. QED  BY <1>2, <1>3, <2>1
<1>5. ScanString(At(p)) = [code |-> code, at |-> At(r)]
  BY <1>1, <1>3 DEF Scanned
<1>6. /\ StringRun(At(p), f) /\ Scanned(f, Len(src), r, code)
      /\ ScanString(At(p)) = [code |-> code, at |-> At(r)]
      /\ code # "open" /\ (code = "none" => r > p /\ src[r - 1] = Quote)
  BY <1>1, <1>3, <1>4, <1>5
<1>. QED  BY <1>6

\* What a scan of a string went past decodes to bytes: every escape has its meaning.
LEMMA QuotedDecodes ==
  ASSUME src \in Seq(Byte), NEW b \in 1..Len(src), NEW f, StringRun(At(b + 1), f),
         NEW r \in Places, r > b + 1, Scanned(f, Len(src), r, "none")
  PROVE  Decoded(SubSeq(src, b + 1, r - 2)) \in Seq(Byte)
<1>. DEFINE inner == SubSeq(src, b + 1, r - 2)
            n == r - 2 - b
            none == <<>>
<1>1. /\ b + 1 \in Places /\ r \in Nat /\ n \in Nat /\ n <= Len(src) /\ r <= Len(src) + 1
  BY DEF Places
<1>2. /\ inner \in Seq(Byte) /\ Len(inner) = n
      /\ \A k \in 1..n : inner[k] = src[b + k]
  <2>1. /\ b + 1 \in 1..(Len(src) + 1) /\ r - 2 \in Nat /\ r - 2 <= Len(src)
        /\ b + 1 <= (r - 2) + 1 /\ (r - 2) - (b + 1) + 1 = n
    BY <1>1
  <2>2. /\ inner \in Seq(Byte) /\ Len(inner) = n
        /\ \A k \in 1..n : inner[k] = src[(b + 1) + k - 1]
    BY <2>1, RunIs
  <2>3. \A k \in 1..n : (b + 1) + k - 1 = b + k
    OBVIOUS
  <2>. QED  BY <2>2, <2>3
<1>. HIDE DEF inner
<1>3. PICK d : DecodedRun(inner, d) /\ Decoded(inner) = d[n].out
  BY <1>2, DecodedUnfold
<1>. DEFINE Good(i) == \E out \in Seq(Byte), k \in 1..(n + 1) :
              /\ d[i] = [out |-> out, next |-> k]
              /\ k <= n => Scanned(f, i, b + k, "open")
            S == {i \in Nat : i <= n => Good(i)}
<1>4. n \in Nat
  BY <1>1
<1>. HIDE DEF n
<1>5. 0 \in S
  <2>1. none \in Seq(Byte) /\ d[0] = [out |-> none, next |-> 1] /\ 1 \in 1..(n + 1)
    BY <1>1, <1>3 DEF DecodedRun
  <2>2. Scanned(f, 0, b + 1, "open")
    BY DEF StringRun, Scanned, Open
  <2>. HIDE DEF none
  <2>3. Good(0)
    BY <2>1, <2>2
  <2>. QED  BY <2>3
<1>6. ASSUME NEW i \in Nat, i \in S PROVE i + 1 \in S
  <2>1. SUFFICES ASSUME i + 1 <= n PROVE Good(i + 1)
    OBVIOUS
  <2>2. PICK out \in Seq(Byte), k \in 1..(n + 1) :
          /\ d[i] = [out |-> out, next |-> k]
          /\ k <= n => Scanned(f, i, b + k, "open")
    <3>1. i <= n
      BY <1>4, <2>1
    <3>2. Good(i)
      BY <1>6, <3>1
    <3>. QED  BY <3>2
  <2>3. d[i + 1] = DecodeTurn(inner, d[i])
    <3>1. i + 1 \in 1..Len(inner) /\ (i + 1) - 1 = i
      BY <1>1, <1>2, <2>1
    <3>. QED  BY <1>3, <3>1 DEF DecodedRun
  <2>4. CASE k = n + 1
    <3>1. d[i].next = Len(inner) + 1
      BY <1>2, <2>2, <2>4
    <3>2. d[i + 1] = d[i]
      BY <1>2, <2>3, <3>1, DecodeTurnDone
    <3>3. d[i + 1] = [out |-> out, next |-> k] /\ ~ k <= n
      BY <1>4, <2>2, <2>4, <3>2
    <3>. QED  BY <3>3
  <2>5. CASE k <= n
    <3>. DEFINE q == b + k
    <3>1. q \in Places /\ q <= Len(src) /\ q + 1 < r /\ q \in Nat /\ k \in 1..n
          /\ i \in 0..Len(src) /\ i + 1 \in 1..Len(src) /\ i + 1 \in 0..Len(src)
      BY <1>1, <2>1, <2>5 DEF Places, n
    <3>2. Scanned(f, i, q, "open")
      BY <2>2, <2>5
    <3>3. inner[k] = src[q]
      BY <1>2, <3>1
    <3>. HIDE DEF q
    <3>4. PICK x \in Places, to \in ScanCodes :
            StringMove(q, x, to) /\ StringTurn(Open(At(q))) = [code |-> to, at |-> At(x)]
      BY <3>1, StringTurnIs
    <3>5. Scanned(f, i + 1, x, to)
      <4>1. f[i + 1] = StringTurn(f[i])
        <5>1. (i + 1) - 1 = i
          OBVIOUS
        <5>. QED  BY <3>1, <5>1 DEF StringRun
      <4>. QED  BY <3>2, <3>4, <4>1 DEF Scanned, Open
    <3>6. to = "open"
      <4>1. SUFFICES ASSUME to # "open" PROVE FALSE
        OBVIOUS
      <4>2. f[Len(src)] = f[i + 1]
        <5>1. f[i + 1].code # "open"
          BY <3>5, <4>1 DEF Scanned
        <5>. QED  BY <3>1, <5>1, ScanStays
      <4>3. to = "none" /\ At(x) = At(r)
        BY <3>5, <4>2 DEF Scanned
      <4>4. x = r
        BY <4>3, AtTyped
      <4>. QED  BY <1>1, <3>1, <3>4, <4>3, <4>4 DEF StringMove
    <3>7. x < r
      BY <1>1, <3>1, <3>5, <3>6, StringCloses
    <3>8. CASE src[q] # Backslash
      <4>1. x = q + 1
        BY <3>4, <3>6, <3>8 DEF StringMove
      <4>2. d[i + 1] = [out |-> Append(out, inner[k]), next |-> k + 1]
        <5>1. k \in 1..Len(inner) /\ inner[k] # Backslash
          BY <1>2, <3>1, <3>3, <3>8
        <5>2. DecodeTurn(inner, [out |-> out, next |-> k]) =
                [out |-> Append(out, inner[k]), next |-> k + 1]
          BY <1>2, <5>1, DecodeTurnIs
        <5>. QED  BY <2>2, <2>3, <5>2
      <4>3. Append(out, inner[k]) \in Seq(Byte)
        BY <1>2, <3>1
      <4>4. k + 1 \in 1..(n + 1) /\ b + (k + 1) = q + 1
        BY <1>1, <3>1 DEF q
      <4>5. k + 1 <= n => Scanned(f, i + 1, b + (k + 1), "open")
        BY <3>5, <3>6, <4>1, <4>4
      <4>. DEFINE more == Append(out, inner[k])
                  next == k + 1
      <4>6. /\ more \in Seq(Byte) /\ next \in 1..(n + 1)
            /\ d[i + 1] = [out |-> more, next |-> next]
            /\ next <= n => Scanned(f, i + 1, b + next, "open")
        BY <4>2, <4>3, <4>4, <4>5
      <4>. HIDE DEF more, next
      <4>. QED  BY <4>6
    <3>9. CASE src[q] = Backslash
      <4>1. x = q + 2 /\ src[q + 1] \in Escapes
        <5>1. Quote # Backslash /\ NL # Backslash
          BY DEF Quote, Backslash, NL
        <5>. QED  BY <3>1, <3>4, <3>6, <3>9, <5>1 DEF StringMove
      <4>2. k + 2 \in 1..(n + 1) /\ k < n /\ k + 1 \in 1..n /\ b + (k + 1) = q + 1
            /\ b + (k + 2) = q + 2
        BY <1>1, <3>1, <3>7, <4>1 DEF q, n
      <4>3. inner[k + 1] \in Escapes
        BY <1>2, <4>1, <4>2
      <4>4. d[i + 1] = [out |-> Append(out, Unescaped[inner[k + 1]]), next |-> k + 2]
        <5>1. k \in 1..Len(inner) /\ inner[k] = Backslash /\ k < Len(inner)
          BY <1>2, <3>1, <3>3, <3>9, <4>2
        <5>2. DecodeTurn(inner, [out |-> out, next |-> k]) =
                [out |-> Append(out, Unescaped[inner[k + 1]]), next |-> k + 2]
          <6>1. inner \in Seq(Byte)
            BY <1>2
          <6>. QED  BY <4>3, <5>1, <6>1, DecodeTurnIs, Zenon
        <5>. QED  BY <2>2, <2>3, <5>2
      <4>5. Append(out, Unescaped[inner[k + 1]]) \in Seq(Byte)
        BY <4>3, EscapesAre
      <4>6. k + 2 <= n => Scanned(f, i + 1, b + (k + 2), "open")
        BY <3>5, <3>6, <4>1, <4>2
      <4>. DEFINE more == Append(out, Unescaped[inner[k + 1]])
                  next == k + 2
      <4>7. /\ more \in Seq(Byte) /\ next \in 1..(n + 1)
            /\ d[i + 1] = [out |-> more, next |-> next]
            /\ next <= n => Scanned(f, i + 1, b + next, "open")
        BY <4>2, <4>4, <4>5, <4>6
      <4>. HIDE DEF more, next
      <4>. QED  BY <4>7
    <3>. QED  BY <3>8, <3>9
  <2>6. k = n + 1 \/ k <= n
    BY <1>4
  <2>. QED  BY <2>4, <2>5, <2>6
<1>7. n \in S
  <2>. HIDE DEF S
  <2>1. Nat \subseteq S
    BY <1>5, <1>6, Induct
  <2>. QED  BY <1>1, <2>1
<1>8. d[n].out \in Seq(Byte)
  <2>1. n <= n
    BY <1>4
  <2>2. n <= n => Good(n)
    <3>. HIDE DEF Good
    <3>. QED  BY <1>7
  <2>3. Good(n)
    BY <2>1, <2>2
  <2>. QED  BY <2>3
<1>. QED  BY <1>3, <1>8 DEF inner

\* What a turn of lex_multiline_string does at a place.
MultilineMove(q, r, code) ==
  \/ q = Len(src) + 1 /\ r = q /\ code = "UNTERMINATED_STRING"
  \/ QuotesAt(src, q) /\ r = q + 3 /\ code = "none"
  \/ q <= Len(src) /\ ~ QuotesAt(src, q) /\ r = q + 1 /\ code = "open"

\* Those are the moves.
LEMMA MultilineTurnIs ==
  ASSUME src \in Seq(Byte), NEW q \in Places
  PROVE  \E r \in Places, code \in ScanCodes :
           /\ MultilineMove(q, r, code)
           /\ MultilineTurn(Open(At(q))) = [code |-> code, at |-> At(r)]
<1>. DEFINE c == At(q)
            s == Open(c)
<1>1. q \in Nat /\ Len(src) \in Nat /\ 1 <= q /\ q <= Len(src) + 1
  BY DEF Places
<1>2. s.code = "open" /\ s.at = c
  BY DEF Open
<1>3. /\ \A t : Closed(t) = [code |-> "none", at |-> t] /\ Open(t) = [code |-> "open", at |-> t]
      /\ \A t, code : Broken(code, t) = [code |-> code, at |-> t]
      /\ {"UNTERMINATED_STRING", "none", "open"} \subseteq ScanCodes
  BY DEF Closed, Open, Broken, ScanCodes
<1>4. (AtEnd(c) <=> q = Len(src) + 1) /\ (ThreeQuotes(c) <=> QuotesAt(src, q))
  BY PeekIs, ThreeIs
<1>5. c = At(q)
  OBVIOUS
<1>. HIDE DEF c, s
<1>6. CASE q = Len(src) + 1
  <2>1. MultilineTurn(s) = Broken("UNTERMINATED_STRING", c)
    <3>1. ~ ThreeQuotes(c)
      BY <1>1, <1>4, <1>6 DEF QuotesAt
    <3>. QED  BY <1>2, <1>4, <1>6, <3>1 DEF MultilineTurn
  <2>2. MultilineMove(q, q, "UNTERMINATED_STRING")
    BY <1>6 DEF MultilineMove
  <2>3. MultilineTurn(Open(At(q))) = [code |-> "UNTERMINATED_STRING", at |-> At(q)]
    BY <1>3, <1>5, <2>1 DEF s
  <2>. QED  BY <1>3, <2>2, <2>3
<1>7. CASE q <= Len(src) /\ QuotesAt(src, q)
  <2>1. MultilineTurn(s) = Closed(Advanced(c, 3))
    BY <1>1, <1>2, <1>4, <1>7 DEF MultilineTurn
  <2>2. q + 3 \in Places /\ Advanced(At(q), 3) = At(q + 3)
    <3>1. q + 3 \in Places /\ 3 \in Nat
      BY <1>1, <1>7 DEF QuotesAt, Places
    <3>. QED  BY <3>1, AdvancedIs
  <2>3. MultilineMove(q, q + 3, "none")
    BY <1>7 DEF MultilineMove
  <2>4. MultilineTurn(Open(At(q))) = [code |-> "none", at |-> At(q + 3)]
    BY <1>3, <1>5, <2>1, <2>2 DEF s
  <2>. QED  BY <1>3, <2>2, <2>3, <2>4
<1>8. CASE q <= Len(src) /\ ~ QuotesAt(src, q)
  <2>1. MultilineTurn(s) = Open(Advance(c))
    BY <1>1, <1>2, <1>4, <1>8 DEF MultilineTurn
  <2>2. q + 1 \in Places /\ Advance(At(q)) = At(q + 1)
    <3>1. q + 1 \in Places /\ q \in 1..Len(src)
      BY <1>1, <1>8 DEF Places
    <3>. QED  BY <3>1, AdvanceIs
  <2>3. MultilineMove(q, q + 1, "open")
    BY <1>8 DEF MultilineMove
  <2>4. MultilineTurn(Open(At(q))) = [code |-> "open", at |-> At(q + 1)]
    BY <1>3, <1>5, <2>1, <2>2 DEF s
  <2>. QED  BY <1>3, <2>2, <2>3, <2>4
<1>9. q = Len(src) + 1 \/ q <= Len(src)
  BY <1>1
<1>. QED  BY <1>6, <1>7, <1>8, <1>9

\* What the scan of a multiline string comes to: an error at a place, or past the
\* first three quotes from where it began.
LEMMA ScanMultilineIs ==
  ASSUME src \in Seq(Byte), NEW p \in Places, p >= 2
  PROVE  \E r \in Places, code \in ScanCodes :
           /\ ScanMultiline(At(p)) = [code |-> code, at |-> At(r)] /\ code # "open"
           /\ code = "none" => r >= p + 3 /\ QuotesAt(src, r - 3)
<1>1. PICK f : MultilineRun(At(p), f) /\ ScanMultiline(At(p)) = f[Len(src)]
  BY AtTyped, ScanMultilineUnfold
<1>. DEFINE Good(i) == \E r \in Places, code \in ScanCodes :
              /\ Scanned(f, i, r, code) /\ (code = "open" => r >= p + i)
              /\ code = "none" => r >= p + 3 /\ QuotesAt(src, r - 3)
            S == {i \in Nat : i <= Len(src) => Good(i)}
<1>2. p \in Nat /\ p >= 1 /\ Len(src) \in Nat /\ \A r \in Places : r \in Nat /\ r <= Len(src) + 1
  BY DEF Places
<1>3. 0 \in S
  <2>1. Scanned(f, 0, p, "open") /\ p >= p + 0
    BY <1>1, <1>2 DEF MultilineRun, Scanned, Open
  <2>. QED  BY <1>2, <2>1 DEF ScanCodes
<1>4. ASSUME NEW i \in Nat, i \in S PROVE i + 1 \in S
  <2>1. SUFFICES ASSUME i + 1 <= Len(src) PROVE Good(i + 1)
    OBVIOUS
  <2>2. PICK q \in Places, code \in ScanCodes :
          /\ Scanned(f, i, q, code) /\ (code = "open" => q >= p + i)
          /\ code = "none" => q >= p + 3 /\ QuotesAt(src, q - 3)
    BY <1>2, <1>4, <2>1
  <2>3. f[i + 1] = MultilineTurn(f[i])
    <3>1. i + 1 \in 1..Len(src) /\ (i + 1) - 1 = i
      BY <1>2, <2>1
    <3>. QED  BY <1>1, <3>1 DEF MultilineRun
  <2>4. CASE code # "open"
    <3>1. Scanned(f, i + 1, q, code)
      BY <2>2, <2>3, <2>4, ScanEnded DEF Scanned
    <3>. QED  BY <2>2, <2>4, <3>1
  <2>5. CASE code = "open"
    <3>1. f[i] = Open(At(q)) /\ q >= p + i
      BY <2>2, <2>5 DEF Scanned, Open
    <3>2. PICK r \in Places, to \in ScanCodes :
            /\ MultilineMove(q, r, to)
            /\ MultilineTurn(Open(At(q))) = [code |-> to, at |-> At(r)]
      BY MultilineTurnIs
    <3>3. Scanned(f, i + 1, r, to)
      BY <2>3, <3>1, <3>2 DEF Scanned
    <3>4. to = "open" => r >= p + (i + 1)
      <4>1. to = "open" => r = q + 1
        BY <3>2 DEF MultilineMove
      <4>. QED  BY <1>2, <3>1, <4>1
    <3>5. to = "none" => r >= p + 3 /\ QuotesAt(src, r - 3)
      <4>1. to = "none" => r = q + 3 /\ QuotesAt(src, q)
        BY <3>2 DEF MultilineMove
      <4>2. (q + 3) - 3 = q /\ q + 3 >= p + 3
        BY <1>2, <3>1
      <4>. QED  BY <4>1, <4>2
    <3>. QED  BY <3>3, <3>4, <3>5
  <2>. QED  BY <2>4, <2>5
<1>5. Good(Len(src))
  <2>1. Nat \subseteq S
    <3>. HIDE DEF S
    <3>. QED  BY <1>3, <1>4, Induct
  <2>2. Len(src) \in S /\ Len(src) <= Len(src)
    BY <1>2, <2>1
  <2>. HIDE DEF Good
  <2>. QED  BY <2>2
<1>6. PICK r \in Places, code \in ScanCodes :
        /\ Scanned(f, Len(src), r, code) /\ (code = "open" => r >= p + Len(src))
        /\ code = "none" => r >= p + 3 /\ QuotesAt(src, r - 3)
  BY <1>5
<1>7. code # "open"
  <2>1. r \in Nat /\ r <= Len(src) + 1
    BY <1>2
  <2>. QED  BY <1>2, <1>6, <2>1
<1>8. ScanMultiline(At(p)) = [code |-> code, at |-> At(r)]
  BY <1>1, <1>6 DEF Scanned
<1>. QED  BY <1>6, <1>7, <1>8

\* A run of the source, from its first byte to its last.
LEMMA RawIs ==
  ASSUME src \in Seq(Byte), NEW b \in 1..Len(src), NEW r \in Places, b < r
  PROVE  /\ SubSeq(src, b, r - 1) \in Seq(Byte) /\ Len(SubSeq(src, b, r - 1)) = r - b
         /\ SubSeq(src, b, r - 1)[1] = src[b] /\ Last(SubSeq(src, b, r - 1)) = src[r - 1]
<1>. DEFINE raw == SubSeq(src, b, r - 1)
<1>1. /\ b \in 1..(Len(src) + 1) /\ r - 1 \in Nat /\ r - 1 <= Len(src) /\ b <= (r - 1) + 1
      /\ (r - 1) - b + 1 = r - b /\ 1 \in 1..(r - b) /\ r - b \in 1..(r - b)
      /\ b + 1 - 1 = b /\ b + (r - b) - 1 = r - 1
  BY DEF Places
<1>2. /\ raw \in Seq(Byte) /\ Len(raw) = (r - 1) - b + 1
      /\ \A i \in 1..((r - 1) - b + 1) : raw[i] = src[b + i - 1]
  BY <1>1, RunIs
<1>3. Last(raw) = raw[Len(raw)]
  BY DEF Last
<1>. HIDE DEF raw
<1>4. /\ raw \in Seq(Byte) /\ Len(raw) = r - b /\ raw[1] = src[b] /\ Last(raw) = src[r - 1]
  BY <1>1, <1>2, <1>3
<1>. QED  BY <1>4 DEF raw

\* A string or a multiline string.
LEMMA StringKeeps ==
  ASSUME IInv, LexString
  PROVE  IInv'
<1>1. PICK b \in Places : IsUtf8(src) /\ src \in Seq(Byte) /\ Begin = At(b)
  BY BeginIs DEF LexString
<1>2. b \in 1..Len(src) /\ src[b] = Quote
  <2>1. Peek(At(b)) = Quote /\ "end" # Quote
    BY <1>1 DEF LexString, Quote
  <2>. QED  BY <1>1, <2>1, PeekIs
<1>. DEFINE end == IF ThreeQuotes(Begin) THEN ScanMultiline(Advanced(Begin, 3))
                   ELSE ScanString(Advance(Begin))
<1>3. IF end.code = "none" THEN Emit("string", end.at, Text(Begin, end.at))
      ELSE Fail(end.code, end.at)
  BY DEF LexString
<1>4. \A r \in Places : Text(At(b), At(r)) = SubSeq(src, b, r - 1)
  BY <1>1, AtTyped DEF Text
<1>5. ASSUME NEW r \in Places, NEW code \in ScanCodes, code # "open",
             end = [code |-> code, at |-> At(r)],
             code = "none" => Decodes(SubSeq(src, b, r - 1))
      PROVE  IInv'
  <2>1. end.code = code /\ end.at = At(r)
    BY <1>5
  <2>. HIDE DEF end
  <2>2. CASE code = "none"
    <3>1. Emit("string", At(r), SubSeq(src, b, r - 1))
      BY <1>1, <1>3, <1>4, <2>1, <2>2
    <3>2. Fits(src, "string", b, SubSeq(src, b, r - 1))
      BY <1>5, <2>2 DEF Fits
    <3>. QED  BY <1>1, <3>1, <3>2, Emitted
  <2>3. CASE code # "none"
    <3>1. Fail(code, At(r))
      BY <1>3, <2>1, <2>3
    <3>2. Tells(src, code, r)
      BY <1>5 DEF Tells, ScanCodes
    <3>. QED  BY <1>1, <2>3, <3>1, <3>2, Failed
  <2>. QED  BY <2>2, <2>3
<1>6. CASE ~ ThreeQuotes(At(b))
  <2>1. b + 1 \in Places /\ b + 1 >= 2 /\ Advance(At(b)) = At(b + 1)
    BY <1>1, <1>2, AdvanceIs DEF Places
  <2>2. PICK f : \E r \in Places, code \in ScanCodes :
          /\ StringRun(At(b + 1), f) /\ Scanned(f, Len(src), r, code)
          /\ ScanString(At(b + 1)) = [code |-> code, at |-> At(r)]
          /\ code # "open" /\ (code = "none" => r > b + 1 /\ src[r - 1] = Quote)
    BY <1>1, <2>1, ScanStringIs
  <2>3. PICK r \in Places, code \in ScanCodes :
          /\ StringRun(At(b + 1), f) /\ Scanned(f, Len(src), r, code)
          /\ ScanString(At(b + 1)) = [code |-> code, at |-> At(r)]
          /\ code # "open" /\ (code = "none" => r > b + 1 /\ src[r - 1] = Quote)
    BY <2>2
  <2>4. end = [code |-> code, at |-> At(r)]
    BY <1>1, <1>6, <2>1, <2>3
  <2>5. ASSUME code = "none" PROVE Decodes(SubSeq(src, b, r - 1))
    <3>. DEFINE raw == SubSeq(src, b, r - 1)
    <3>1. r > b + 1 /\ b < r /\ src[r - 1] = Quote /\ r \in Nat /\ b \in Nat
          /\ r <= Len(src) + 1 /\ Len(src) \in Nat
      BY <1>1, <1>2, <2>3, <2>5 DEF Places
    <3>2. /\ raw \in Seq(Byte) /\ Len(raw) = r - b /\ raw[1] = Quote /\ Last(raw) = Quote
      BY <1>1, <1>2, <3>1, RawIs
    <3>3. ~ (Len(raw) > 2 /\ SubSeq(raw, 1, 3) = TripleQuote)
      <4>1. SUFFICES ASSUME r - b > 2 PROVE SubSeq(raw, 1, 3) # TripleQuote
        BY <3>2
      <4>2. SubSeq(raw, 1, 3) = SubSeq(src, b, b + 2)
        <5>1. /\ b \in 1..(Len(src) + 1) /\ r - 1 \in Nat /\ r - 1 <= Len(src)
              /\ b <= (r - 1) + 1 /\ 1 \in 1..((r - 1) - b + 2) /\ 3 \in Nat
              /\ 3 <= (r - 1) - b + 1 /\ 1 <= 3 + 1 /\ b + 1 - 1 = b /\ b + 3 - 1 = b + 2
          BY <1>2, <3>1, <4>1
        <5>. QED  BY <1>1, <5>1, RunOfRun
      <4>3. b + 2 <= Len(src) /\ ~ QuotesAt(src, b)
        BY <1>1, <1>6, <3>1, <4>1, ThreeIs
      <4>. QED  BY <1>1, <1>2, <4>2, <4>3, ThreeOf
    <3>4. SubSeq(raw, 2, Len(raw) - 1) = SubSeq(src, b + 1, r - 2)
      <4>1. /\ b \in 1..(Len(src) + 1) /\ r - 1 \in Nat /\ r - 1 <= Len(src)
            /\ b <= (r - 1) + 1 /\ 2 \in 1..((r - 1) - b + 2) /\ r - b - 1 \in Nat
            /\ r - b - 1 <= (r - 1) - b + 1 /\ 2 <= (r - b - 1) + 1
            /\ b + 2 - 1 = b + 1 /\ b + (r - b - 1) - 1 = r - 2
        BY <1>2, <3>1
      <4>2. SubSeq(SubSeq(src, b, r - 1), 2, r - b - 1)
              = SubSeq(src, b + 2 - 1, b + (r - b - 1) - 1)
        BY <1>1, <4>1, RunOfRun
      <4>. QED  BY <3>2, <4>1, <4>2
    <3>5. Decoded(SubSeq(src, b + 1, r - 2)) \in Seq(Byte)
      BY <1>1, <1>2, <2>3, <2>5, <3>1, QuotedDecodes
    <3>. HIDE DEF raw
    <3>6. IsQuoted(raw) /\ ~ IsVerbatim(raw)
      BY <3>1, <3>2, <3>3 DEF IsQuoted, IsVerbatim
    <3>7. Unescape(raw) = Decoded(SubSeq(raw, 2, Len(raw) - 1))
      BY <3>6 DEF Unescape
    <3>8. Unescape(raw) \in Seq(Byte)
      BY <3>4, <3>5, <3>7
    <3>9. ~ Contains(Unescape(raw), InvalidEscape)
      BY <3>8, Bytes DEF Contains
    <3>10. Decodes(raw)
      BY <3>3, <3>9 DEF Decodes
    <3>. QED  BY <3>10 DEF raw
  <2>. QED  BY <1>5, <2>3, <2>4, <2>5
<1>7. CASE ThreeQuotes(At(b))
  <2>1. QuotesAt(src, b)
    BY <1>1, <1>7, ThreeIs
  <2>2. b + 3 \in Places /\ b + 3 >= 2 /\ Advanced(At(b), 3) = At(b + 3)
    <3>1. b + 3 \in Places /\ 3 \in Nat /\ b + 3 >= 2
      BY <1>1, <1>2, <2>1 DEF QuotesAt, Places
    <3>. QED  BY <1>1, <3>1, AdvancedIs
  <2>3. PICK r \in Places, code \in ScanCodes :
          /\ ScanMultiline(At(b + 3)) = [code |-> code, at |-> At(r)] /\ code # "open"
          /\ code = "none" => r >= (b + 3) + 3 /\ QuotesAt(src, r - 3)
    BY <1>1, <2>2, ScanMultilineIs
  <2>4. end = [code |-> code, at |-> At(r)]
    BY <1>1, <1>7, <2>2, <2>3
  <2>5. ASSUME code = "none" PROVE Decodes(SubSeq(src, b, r - 1))
    <3>. DEFINE raw == SubSeq(src, b, r - 1)
    <3>1. /\ r >= b + 6 /\ b < r /\ r \in Nat /\ b \in Nat /\ r <= Len(src) + 1
          /\ Len(src) \in Nat /\ QuotesAt(src, r - 3)
      BY <1>1, <1>2, <2>3, <2>5 DEF Places
    <3>2. src[r - 1] = Quote
      <4>1. (r - 3) + 2 = r - 1
        BY <3>1
      <4>. QED  BY <3>1, <4>1 DEF QuotesAt
    <3>3. /\ raw \in Seq(Byte) /\ Len(raw) = r - b /\ raw[1] = Quote /\ Last(raw) = Quote
      BY <1>1, <1>2, <3>1, <3>2, RawIs
    <3>4. /\ b \in 1..(Len(src) + 1) /\ r - 1 \in Nat /\ r - 1 <= Len(src) /\ b <= (r - 1) + 1
      BY <1>2, <3>1
    <3>5. SubSeq(raw, 1, 3) = TripleQuote
      <4>1. /\ 1 \in 1..((r - 1) - b + 2) /\ 3 \in Nat /\ 3 <= (r - 1) - b + 1 /\ 1 <= 3 + 1
            /\ b + 1 - 1 = b /\ b + 3 - 1 = b + 2
        BY <3>1
      <4>2. SubSeq(SubSeq(src, b, r - 1), 1, 3) = SubSeq(src, b + 1 - 1, b + 3 - 1)
        BY <1>1, <3>4, <4>1, RunOfRun
      <4>3. SubSeq(src, b, b + 2) = TripleQuote
        BY <1>1, <1>2, <2>1, <3>1, ThreeOf DEF QuotesAt
      <4>. QED  BY <4>1, <4>2, <4>3
    <3>6. SubSeq(raw, Len(raw) - 2, Len(raw)) = TripleQuote
      <4>1. /\ r - b - 2 \in 1..((r - 1) - b + 2) /\ r - b \in Nat /\ r - b <= (r - 1) - b + 1
            /\ r - b - 2 <= (r - b) + 1
            /\ b + (r - b - 2) - 1 = r - 3 /\ b + (r - b) - 1 = (r - 3) + 2
        BY <3>1
      <4>2. SubSeq(SubSeq(src, b, r - 1), r - b - 2, r - b)
              = SubSeq(src, b + (r - b - 2) - 1, b + (r - b) - 1)
        BY <1>1, <3>4, <4>1, RunOfRun
      <4>3. r - 3 \in 1..Len(src) /\ (r - 3) + 2 <= Len(src)
        BY <1>2, <3>1
      <4>4. SubSeq(src, r - 3, (r - 3) + 2) = TripleQuote
        BY <1>1, <3>1, <4>3, ThreeOf
      <4>5. SubSeq(SubSeq(src, b, r - 1), r - b - 2, r - b) = TripleQuote
        BY <4>1, <4>2, <4>4
      <4>. QED  BY <3>3, <4>5
    <3>. HIDE DEF raw
    <3>7. IsQuoted(raw) /\ IsVerbatim(raw) /\ Len(raw) > 2
      BY <3>1, <3>3, <3>5, <3>6 DEF IsQuoted, IsVerbatim
    <3>8. Unescape(raw) = SubSeq(raw, 4, Len(raw) - 3)
      BY <3>7 DEF Unescape
    <3>9. Decodes(raw)
      BY <3>5, <3>7, <3>8 DEF Decodes
    <3>. QED  BY <3>9 DEF raw
  <2>. QED  BY <1>5, <2>3, <2>4, <2>5
<1>. QED  BY <1>6, <1>7

-----------------------------------------------------------------------------
(* The sources, and the theorems *)

\* f is what write_escaped has written after every byte.
EscapedRun(text, f) ==
  /\ f[0] = <<>> /\ \A i \in 0..Len(text) : f[i] \in Seq(Byte)
  /\ \A i \in 1..Len(text) : f[i] = f[i - 1] \o Escaped(text[i])

\* What it writes is the last of such a run.
LEMMA WriteEscapedUnfold ==
  ASSUME NEW text \in Seq(Byte)
  PROVE  \E f : EscapedRun(text, f) /\ WriteEscaped(text) = f[Len(text)]
<1>. DEFINE D == Seq(Byte)
            none == <<>>
            g == [p \in D \X Byte |-> p[1] \o Escaped(p[2])]
            R(out) == out = [i \in 0..Len(text) |->
                        IF i = 0 THEN <<>> ELSE out[i - 1] \o Escaped(text[i])]
<1>1. \A c \in Byte : Escaped(c) \in Seq(Byte)
  <2>1. {Quote, Backslash, NL, Tab, "n", "t"} \subseteq Byte
    BY DEF Byte, IdentChar, IdentStart, Spaces, Strange, Quote, Backslash, NL, Tab
  <2>. QED  BY <2>1 DEF Escaped
<1>2. g \in [D \X Byte -> D] /\ \A o \in D, c \in Byte : g[<<o, c>>] = o \o Escaped(c)
  <2>1. \A p \in D \X Byte : p[1] \o Escaped(p[2]) \in D
    BY <1>1
  <2>. QED  BY <2>1
<1>3. none \in D /\ none = <<>>
  OBVIOUS
<1>4. Len(text) \in Nat /\ \A i \in 1..Len(text) : text[i] \in Byte /\ i - 1 \in 0..Len(text)
  OBVIOUS
<1>. HIDE DEF g, D, none
<1>5. PICK f \in [0..Len(text) -> D] : Looping(f, none, g, text)
  BY <1>2, <1>3, LoopExists
<1>6. R(f)
  <2>1. f = [i \in 0..Len(text) |-> f[i]]
    OBVIOUS
  <2>2. \A i \in 0..Len(text) : i = 0 \/ (i \in 1..Len(text) /\ i # 0)
    BY <1>4
  <2>3. \A i \in 1..Len(text) : f[i] = f[i - 1] \o Escaped(text[i])
    BY <1>2, <1>4, <1>5 DEF Looping
  <2>4. \A i \in 0..Len(text) : f[i] = IF i = 0 THEN <<>> ELSE f[i - 1] \o Escaped(text[i])
    BY <1>3, <1>5, <2>2, <2>3 DEF Looping
  <2>. QED  BY <2>1, <2>4
<1>7. PICK h : R(h) /\ WriteEscaped(text) = h[Len(text)]
  <2>. DEFINE h == CHOOSE out : R(out)
  <2>1. WriteEscaped(text) = h[Len(text)]
    BY DEF WriteEscaped
  <2>2. R(h)
    <3>. HIDE DEF R
    <3>. QED  BY <1>6
  <2>. QED  BY <2>1, <2>2
<1>. DEFINE S == {i \in Nat : i <= Len(text) => h[i] \in Seq(Byte)}
<1>8. /\ h[0] = <<>>
      /\ \A i \in 1..Len(text) : h[i] = h[i - 1] \o Escaped(text[i])
  <2>1. \A i \in 0..Len(text) : h[i] = IF i = 0 THEN <<>> ELSE h[i - 1] \o Escaped(text[i])
    BY <1>7
  <2>2. 0 \in 0..Len(text) /\ \A i \in 1..Len(text) : i \in 0..Len(text) /\ i # 0
    BY <1>4
  <2>. QED  BY <2>1, <2>2
<1>9. 0 \in S
  BY <1>8
<1>10. ASSUME NEW i \in Nat, i \in S PROVE i + 1 \in S
  <2>1. SUFFICES ASSUME i + 1 <= Len(text) PROVE h[i + 1] \in Seq(Byte)
    OBVIOUS
  <2>2. i + 1 \in 1..Len(text) /\ (i + 1) - 1 = i /\ h[i] \in Seq(Byte)
    BY <1>4, <1>10, <2>1
  <2>3. h[i + 1] = h[i] \o Escaped(text[i + 1]) /\ Escaped(text[i + 1]) \in Seq(Byte)
    BY <1>1, <1>4, <1>8, <2>2
  <2>. QED  BY <2>2, <2>3
<1>11. Nat \subseteq S
  <2>. HIDE DEF S
  <2>. QED  BY <1>9, <1>10, Induct
<1>12. \A i \in 0..Len(text) : h[i] \in Seq(Byte)
  BY <1>4, <1>11
<1>. QED  BY <1>7, <1>8, <1>12 DEF EscapedRun

\* It is bytes.
LEMMA WriteEscapedTyped ==
  ASSUME NEW text \in Seq(Byte)
  PROVE  WriteEscaped(text) \in Seq(Byte)
<1>1. PICK f : EscapedRun(text, f) /\ WriteEscaped(text) = f[Len(text)]
  BY WriteEscapedUnfold
<1>2. Len(text) \in 0..Len(text)
  OBVIOUS
<1>. QED  BY <1>1, <1>2 DEF EscapedRun

\* So is what it writes for a string and for a key.
LEMMA WrittenTyped ==
  ASSUME NEW text \in Seq(Byte), NEW depth
  PROVE  WriteString(text) \in Seq(Byte) /\ WriteKey(text, depth) \in Seq(Byte)
<1>1. TripleQuote \in Seq(Byte) /\ <<Quote>> \in Seq(Byte)
  BY Bytes DEF TripleQuote
<1>2. WriteQuoted(text) \in Seq(Byte)
  BY <1>1, WriteEscapedTyped DEF WriteQuoted
<1>3. TripleQuote \o text \o TripleQuote \in Seq(Byte)
  BY <1>1
<1>. QED  BY <1>2, <1>3 DEF WriteString, WriteKey

\* Every source there is, is bytes, and nothing of it is read yet.
LEMMA InitHolds ==
  ASSUME Init
  PROVE  IInv
<1>1. <<NL>> \in Seq(Byte) /\ <<":">> \in Seq(Byte)
  BY DEF Byte, Spaces, NL, Punctuators
<1>2. src \in Seq(Byte)
  <2>1. CASE src \in Sources
    BY <2>1, SourcesAssumption
  <2>2. CASE \E text \in Strings : src = WriteString(text) \o <<NL>>
    <3>1. PICK text \in Strings : src = WriteString(text) \o <<NL>>
      BY <2>2
    <3>2. WriteString(text) \in Seq(Byte)
      BY TextsAssumption, WrittenTyped
    <3>. QED  BY <1>1, <3>1, <3>2
  <2>3. CASE \E key \in Strings, depth \in {0, 1} : src = WriteKey(key, depth) \o <<":">>
    <3>1. PICK key \in Strings, depth \in {0, 1} : src = WriteKey(key, depth) \o <<":">>
      BY <2>3
    <3>2. WriteKey(key, depth) \in Seq(Byte)
      BY TextsAssumption, WrittenTyped
    <3>. QED  BY <1>1, <3>1, <3>2
  <2>4. CASE \E text \in CommentTexts : src = text \o <<NL>>
    <3>1. PICK text \in CommentTexts : src = text \o <<NL>>
      BY <2>4
    <3>2. text \in Seq(Byte)
      BY TextsAssumption
    <3>. QED  BY <1>1, <3>1, <3>2
  <2>. QED  BY <2>1, <2>2, <2>3, <2>4 DEF Init
<1>3. cursor.pos = 0 /\ tokens = <<>> /\ failure = None
  BY DEF Init
<1>4. IsSeq(tokens) /\ DOMAIN tokens = {}
  BY <1>3, SeqEmpty, SeqLen
<1>. QED  BY <1>2, <1>3, <1>4 DEF IInv

\* Every step keeps the invariant.
LEMMA NextKeeps ==
  ASSUME IInv, [Next]_vars
  PROVE  IInv'
<1>1. CASE failure = None /\ Validate
  BY <1>1, ValidateKeeps
<1>2. CASE EndOfFile
  BY <1>2, EndKeeps
<1>3. CASE Punctuation
  BY <1>3, PunctuationKeeps
<1>4. CASE LexComment
  BY <1>4, CommentKeeps
<1>5. CASE LexString
  BY <1>5, StringKeeps
<1>6. CASE LexNumber
  BY <1>6, NumberKeeps
<1>7. CASE LexIdent
  BY <1>7, IdentKeeps
<1>8. CASE Unexpected
  BY <1>8, UnexpectedKeeps
<1>9. CASE UNCHANGED vars
  <2>1. src' = src /\ cursor' = cursor /\ tokens' = tokens /\ failure' = failure
    BY <1>9 DEF vars
  <2>. QED  BY <2>1 DEF IInv, At, Places
<1>. QED  BY <1>1, <1>2, <1>3, <1>4, <1>5, <1>6, <1>7, <1>8, <1>9 DEF Next, Lex

\* The invariant of the lexer.
THEOREM LexerInductive == Spec => []IInv
<1>1. Init => IInv
  BY InitHolds
<1>2. IInv /\ [Next]_vars => IInv'
  BY NextKeeps
<1>. QED  BY <1>1, <1>2, PTL DEF Spec

\* For any source, every token and every error is at the line and the column that
\* the bytes before it say: next and advance, lex_comment's jump and lex_string's
\* over an escape, and the cursor of first_invalid_utf8, never lose a line.
THEOREM LexerPositionsExact == Spec => []PositionsExact
<1>1. IInv => PositionsExact
  <2>1. \A pos : LineOf(pos) = LineIn(src, pos) /\ ColOf(pos) = ColIn(src, pos)
    BY DEF LineOf, LineIn, ColOf, ColIn, LineBefore, BreaksIn
  <2>. QED  BY <2>1 DEF IInv, TokenRight, FailureRight, PositionsExact
<1>. QED  BY <1>1, LexerInductive, PTL

\* For any source, a number is read when, and only when, the longest run of bytes
\* that could be one is a literal: lex_number never splits it in two tokens, and
\* refuses none that the grammar has.
THEOREM LexerNumbersAsSpecified == Spec => []NumbersAsSpecified
<1>1. IInv => NumbersAsSpecified
  <2>1. \A pos : NumberRun(pos) = RunIn(src, pos)
    BY DEF NumberRun, RunIn
  <2>2. None.code \notin {"INVALID_INT", "INVALID_FLOAT"}
    BY DEF None
  <2>3. ASSUME IInv, NEW i \in DOMAIN tokens, tokens[i].tag \in {"int", "float"}
        PROVE  /\ tokens[i].text = NumberRun(tokens[i].from)
               /\ tokens[i].tag = "int" => IsIntLiteral(tokens[i].text)
               /\ tokens[i].tag = "float" => IsFloatLiteral(tokens[i].text)
    BY <2>1, <2>3 DEF IInv, TokenRight, Fits
  <2>4. ASSUME IInv, failure.code \in {"INVALID_INT", "INVALID_FLOAT"}
        PROVE  ~ IsIntLiteral(NumberRun(failure.pos)) /\ ~ IsFloatLiteral(NumberRun(failure.pos))
    BY <2>1, <2>2, <2>4 DEF IInv, FailureRight, Tells
  <2>. QED  BY <2>3, <2>4 DEF NumbersAsSpecified
<1>. QED  BY <1>1, LexerInductive, PTL

\* For any source, unescape_string meets no escape it does not know in a string
\* that lex_string let through, and takes for a multiline string exactly what
\* lex_multiline_string read.
THEOREM LexerStringsDecode == Spec => []StringsDecode
<1>1. IInv => StringsDecode
  <2>1. ASSUME IInv, NEW i \in DOMAIN tokens, tokens[i].tag = "string"
        PROVE  Decodes(tokens[i].text)
    BY <2>1 DEF IInv, TokenRight, Fits
  <2>. QED  BY <2>1 DEF StringsDecode, Decodes
<1>. QED  BY <1>1, LexerInductive, PTL

\* For any source, only UTF-8 is read, and first_invalid_utf8 stops at the first
\* byte that is in no sequence.
THEOREM LexerUtf8Located == Spec => []Utf8Located
<1>1. IInv => Utf8Located
  <2>1. None.code # "INVALID_UTF8"
    BY DEF None
  <2>2. ASSUME IInv, cursor.pos > 0 PROVE IsUtf8(src)
    BY <2>2 DEF IInv
  <2>3. ASSUME IInv, failure.code = "INVALID_UTF8"
        PROVE  /\ IsUtf8(SubSeq(src, 1, failure.pos - 1))
               /\ \A end \in failure.pos..Len(src) : ~ IsUtf8(SubSeq(src, failure.pos, end))
    BY <2>1, <2>3 DEF IInv, FailureRight, Tells
  <2>. QED  BY <2>2, <2>3 DEF Utf8Located
<1>. QED  BY <1>1, LexerInductive, PTL

-----------------------------------------------------------------------------
(* What the emitter writes is read again *)

\* What has to be escaped.
Special == {Quote, Backslash, NL, Tab}

\* How a byte is written.
LEMMA EscapedIs ==
  ASSUME NEW c \in Byte
  PROVE  \/ c \notin Special /\ Escaped(c) = <<c>>
         \/ c \in Special /\ \E e \in Escapes : Escaped(c) = <<Backslash, e>> /\ Unescaped[e] = c
<1>1. CASE c \notin Special
  BY <1>1 DEF Special, Escaped
<1>2. CASE c \in Special
  <2>1. CASE c = Quote
    <3>1. Escaped(c) = <<Backslash, Quote>> /\ Unescaped[Quote] = Quote /\ Quote \in Escapes
      BY <2>1 DEF Escaped, Unescaped, Escapes, Quote, Backslash, NL, Tab
    <3>. QED  BY <1>2, <2>1, <3>1
  <2>2. CASE c = Backslash
    <3>1. Escaped(c) = <<Backslash, Backslash>> /\ Unescaped[Backslash] = Backslash
          /\ Backslash \in Escapes
      BY <2>2 DEF Escaped, Unescaped, Escapes, Quote, Backslash, NL, Tab
    <3>. QED  BY <1>2, <2>2, <3>1
  <2>3. CASE c = NL
    <3>1. Escaped(c) = <<Backslash, "n">> /\ Unescaped["n"] = NL /\ "n" \in Escapes
      BY <2>3 DEF Escaped, Unescaped, Escapes, Quote, Backslash, NL, Tab
    <3>. QED  BY <1>2, <2>3, <3>1
  <2>4. CASE c = Tab
    <3>1. Escaped(c) = <<Backslash, "t">> /\ Unescaped["t"] = Tab /\ "t" \in Escapes
      BY <2>4 DEF Escaped, Unescaped, Escapes, Quote, Backslash, NL, Tab
    <3>. QED  BY <1>2, <2>4, <3>1
  <2>. QED  BY <1>2, <2>1, <2>2, <2>3, <2>4 DEF Special
<1>. QED  BY <1>1, <1>2

\* From a place up to another stands how a byte is written.
EscapedAt(out, p, c, q) ==
  \/ c \notin Special /\ q = p + 1 /\ out[p] = c
  \/ /\ c \in Special /\ q = p + 2
     /\ out[p] = Backslash /\ out[p + 1] \in Escapes /\ Unescaped[out[p + 1]] = c

\* place is where each byte of a text is written, and where the end is.
SpelledAt(out, text, place) ==
  /\ place[1] = 1 /\ place[Len(text) + 1] = Len(out) + 1
  /\ \A i \in 1..(Len(text) + 1) : place[i] \in 1..(Len(out) + 1)
  /\ \A i \in 1..Len(text) : EscapedAt(out, place[i], text[i], place[i + 1])

\* Every byte of an escaped text has its place.
LEMMA SpelledIs ==
  ASSUME NEW text \in Seq(Byte)
  PROVE  \E place : SpelledAt(WriteEscaped(text), text, place)
<1>. DEFINE n == Len(text)
            out == WriteEscaped(text)
<1>1. PICK f : EscapedRun(text, f) /\ out = f[n]
  BY WriteEscapedUnfold
<1>. DEFINE place == [i \in 1..(n + 1) |-> Len(f[i - 1]) + 1]
            S == {j \in Nat : j <= n => \A i \in 0..j :
                    /\ Len(f[i]) <= Len(f[j])
                    /\ \A k \in 1..Len(f[i]) : f[j][k] = f[i][k]}
<1>2. n \in Nat /\ out \in Seq(Byte) /\ \A i \in 1..n : text[i] \in Byte
  BY WriteEscapedTyped
<1>. HIDE DEF n, out
<1>3. \A i \in 0..n : f[i] \in Seq(Byte) /\ Len(f[i]) \in Nat
  BY <1>1 DEF EscapedRun, n
<1>4. ASSUME NEW i \in 1..n
      PROVE  LET e == Escaped(text[i]) IN
             /\ e \in Seq(Byte) /\ Len(f[i]) = Len(f[i - 1]) + Len(e)
             /\ \A k \in 1..Len(f[i - 1]) : f[i][k] = f[i - 1][k]
             /\ \A k \in 1..Len(e) : f[i][Len(f[i - 1]) + k] = e[k]
  <2>. DEFINE e == Escaped(text[i])
              a == f[i - 1]
  <2>1. e \in Seq(Byte)
    <3>1. {Backslash, text[i]} \cup Escapes \subseteq Byte
      BY <1>2, EscapesAre
    <3>2. \A x \in Escapes : <<Backslash, x>> \in Seq(Byte)
      BY <3>1
    <3>3. <<text[i]>> \in Seq(Byte)
      BY <3>1
    <3>4. e = <<text[i]>> \/ \E x \in Escapes : e = <<Backslash, x>>
      BY <3>1, EscapedIs
    <3>. QED  BY <3>2, <3>3, <3>4
  <2>2. i - 1 \in 0..n
    BY <1>2
  <2>3. a \in Seq(Byte) /\ f[i] = a \o e
    BY <1>1, <1>3, <2>2 DEF EscapedRun, n
  <2>. HIDE DEF a, e
  <2>4. /\ e \in Seq(Byte) /\ Len(f[i]) = Len(a) + Len(e)
        /\ \A k \in 1..Len(a) : f[i][k] = a[k]
        /\ \A k \in 1..Len(e) : f[i][Len(a) + k] = e[k]
    BY <2>1, <2>3
  <2>. QED  BY <2>4 DEF a, e
<1>5. 0 \in S
  <2>1. \A i \in 0..0 : i = 0
    OBVIOUS
  <2>2. Len(f[0]) \in Nat
    BY <1>2, <1>3
  <2>. QED  BY <2>1, <2>2
<1>6. ASSUME NEW j \in Nat, j \in S PROVE j + 1 \in S
  <2>1. SUFFICES ASSUME j + 1 <= n, NEW i \in 0..(j + 1)
                 PROVE  /\ Len(f[i]) <= Len(f[j + 1])
                        /\ \A k \in 1..Len(f[i]) : f[j + 1][k] = f[i][k]
    OBVIOUS
  <2>2. CASE i = j + 1
    <3>1. Len(f[i]) \in Nat
      BY <1>3, <2>1
    <3>. QED  BY <2>2, <3>1
  <2>3. CASE i \in 0..j
    <3>1. /\ Len(f[i]) <= Len(f[j])
          /\ \A k \in 1..Len(f[i]) : f[j][k] = f[i][k]
      BY <1>2, <1>6, <2>1, <2>3
    <3>2. j + 1 \in 1..n /\ (j + 1) - 1 = j
      BY <1>2, <2>1
    <3>3. /\ Escaped(text[j + 1]) \in Seq(Byte)
          /\ Len(f[j + 1]) = Len(f[j]) + Len(Escaped(text[j + 1]))
          /\ \A k \in 1..Len(f[j]) : f[j + 1][k] = f[j][k]
      <4>. DEFINE e == Escaped(text[j + 1])
      <4>1. /\ e \in Seq(Byte) /\ Len(f[j + 1]) = Len(f[(j + 1) - 1]) + Len(e)
            /\ \A k \in 1..Len(f[(j + 1) - 1]) : f[j + 1][k] = f[(j + 1) - 1][k]
        BY <1>4, <3>2, Zenon
      <4>. QED  BY ONLY <3>2, <4>1
    <3>4. i \in 0..n /\ j \in 0..n
      BY <1>2, <2>1, <2>3
    <3>5. Len(f[j]) \in Nat /\ Len(f[i]) \in Nat /\ Len(Escaped(text[j + 1])) \in Nat
      BY <1>3, <3>3, <3>4
    <3>6. \A k \in 1..Len(f[i]) : k \in 1..Len(f[j])
      BY <3>1, <3>5
    <3>7. Len(f[i]) <= Len(f[j + 1])
      <4>. DEFINE x == Len(f[i])
                  y == Len(f[j])
                  z == Len(Escaped(text[j + 1]))
      <4>1. x \in Nat /\ y \in Nat /\ z \in Nat /\ x <= y /\ Len(f[j + 1]) = y + z
        BY <3>1, <3>3, <3>5
      <4>2. x <= y + z
        <5>. HIDE DEF x, y, z
        <5>. QED  BY <4>1
      <4>. QED  BY <4>1, <4>2
    <3>. QED  BY <3>1, <3>3, <3>6, <3>7
  <2>4. i = j + 1 \/ i \in 0..j
    OBVIOUS
  <2>. QED  BY <2>2, <2>3, <2>4
<1>7. \A i \in 0..n : Len(f[i]) <= Len(out) /\ \A k \in 1..Len(f[i]) : out[k] = f[i][k]
  <2>1. Nat \subseteq S
    <3>. HIDE DEF S
    <3>. QED  BY <1>5, <1>6, Induct
  <2>. QED  BY <1>1, <1>2, <2>1
<1>8. ASSUME NEW i \in 1..(n + 1)
      PROVE  /\ place[i] = Len(f[i - 1]) + 1 /\ i - 1 \in 0..n
             /\ place[i] \in 1..(Len(out) + 1)
  <2>1. i - 1 \in 0..n
    BY <1>2
  <2>2. Len(f[i - 1]) \in Nat /\ Len(f[i - 1]) <= Len(out) /\ Len(out) \in Nat
    BY <1>2, <1>3, <1>7, <2>1
  <2>. QED  BY <2>1, <2>2
<1>9. place[1] = 1
  <2>1. 1 \in 1..(n + 1) /\ 1 - 1 = 0
    BY <1>2
  <2>2. Len(f[0]) = 0
    BY <1>1 DEF EscapedRun
  <2>. QED  BY <1>8, <2>1, <2>2
<1>10. place[n + 1] = Len(out) + 1
  <2>1. n + 1 \in 1..(n + 1) /\ (n + 1) - 1 = n
    BY <1>2
  <2>. QED  BY <1>1, <1>8, <2>1
<1>. HIDE DEF place
<1>11. ASSUME NEW i \in 1..n
       PROVE  EscapedAt(out, place[i], text[i], place[i + 1])
  <2>. DEFINE e == Escaped(text[i])
              m == Len(f[i - 1])
  <2>1. /\ i \in 1..(n + 1) /\ i + 1 \in 1..(n + 1) /\ (i + 1) - 1 = i /\ i - 1 \in 0..n
        /\ i \in 0..n
    BY <1>2
  <2>2. place[i] = m + 1 /\ place[i + 1] = Len(f[i]) + 1 /\ m \in Nat
    BY <1>3, <1>8, <2>1
  <2>3. /\ e \in Seq(Byte) /\ Len(f[i]) = m + Len(e)
        /\ \A k \in 1..Len(e) : f[i][m + k] = e[k]
    BY <1>4
  <2>4. \A k \in 1..Len(e) : out[m + k] = e[k]
    <3>0. Len(e) \in Nat
      BY <2>3
    <3>1. \A k \in 1..Len(e) : m + k \in 1..Len(f[i])
      <4>. DEFINE z == Len(e)
      <4>1. m \in Nat /\ z \in Nat /\ Len(f[i]) = m + z
        BY <2>2, <2>3, <3>0
      <4>2. \A k \in 1..z : m + k \in 1..(m + z)
        <5>. HIDE DEF m, z
        <5>. QED  BY <4>1
      <4>. QED  BY <4>1, <4>2
    <3>. QED  BY <1>7, <2>1, <2>3, <3>1
  <2>. HIDE DEF m, e
  <2>5. CASE text[i] \notin Special /\ e = <<text[i]>>
    <3>1. Len(e) = 1 /\ e[1] = text[i] /\ 1 \in 1..Len(e)
      BY <2>5
    <3>. QED  BY <2>2, <2>3, <2>4, <2>5, <3>1 DEF EscapedAt
  <2>6. CASE /\ text[i] \in Special
             /\ \E x \in Escapes : e = <<Backslash, x>> /\ Unescaped[x] = text[i]
    <3>1. PICK x \in Escapes : e = <<Backslash, x>> /\ Unescaped[x] = text[i]
      BY <2>6
    <3>2. Len(e) = 2 /\ e[1] = Backslash /\ e[2] = x /\ 1 \in 1..Len(e) /\ 2 \in 1..Len(e)
      BY <3>1
    <3>3. out[m + 1] = Backslash /\ out[m + 2] = x /\ (m + 1) + 1 = m + 2
          /\ place[i + 1] = (m + 1) + 2
      BY <2>2, <2>3, <2>4, <3>2
    <3>. QED  BY <2>2, <2>6, <3>1, <3>3 DEF EscapedAt
  <2>. QED  BY <1>2, <2>5, <2>6, EscapedIs DEF e
<1>. QED  BY <1>8, <1>9, <1>10, <1>11 DEF SpelledAt, n, out

\* Every byte of an escaped text is of what is written for some byte.
LEMMA SpelledCovers ==
  ASSUME NEW text \in Seq(Byte), NEW out \in Seq(Byte), NEW place, SpelledAt(out, text, place),
         NEW i \in 1..Len(out)
  PROVE  \E k \in 1..Len(text) : place[k] <= i /\ i < place[k + 1]
<1>. DEFINE n == Len(text)
            S == {k \in Nat : k <= n /\ i < place[k + 1] =>
                     \E j \in 1..n : place[j] <= i /\ i < place[j + 1]}
<1>1. n \in Nat /\ i \in Nat /\ i >= 1
  OBVIOUS
<1>. HIDE DEF n
<1>2. \A k \in 1..(n + 1) : place[k] \in Nat
  BY DEF SpelledAt, n
<1>3. place[1] = 1 /\ place[n + 1] > i
  BY DEF SpelledAt, n
<1>4. 0 \in S
  <2>1. 0 + 1 = 1 /\ ~ i < 1
    BY <1>1
  <2>2. ~ i < place[0 + 1]
    BY <1>3, <2>1
  <2>. QED  BY <2>2
<1>5. ASSUME NEW k \in Nat, k \in S PROVE k + 1 \in S
  <2>1. SUFFICES ASSUME k + 1 <= n, i < place[(k + 1) + 1]
                 PROVE  \E j \in 1..n : place[j] <= i /\ i < place[j + 1]
    OBVIOUS
  <2>2. k + 1 \in 1..n /\ k + 1 \in 1..(n + 1) /\ k <= n
    BY <1>1, <2>1
  <2>3. CASE i < place[k + 1]
    BY <1>5, <2>2, <2>3
  <2>4. CASE ~ i < place[k + 1]
    <3>1. place[k + 1] <= i
      BY <1>1, <1>2, <2>2, <2>4
    <3>. QED  BY <2>1, <2>2, <3>1
  <2>. QED  BY <2>3, <2>4
<1>6. n \in S
  <2>. HIDE DEF S
  <2>1. Nat \subseteq S
    BY <1>4, <1>5, Induct
  <2>. QED  BY <1>1, <2>1
<1>7. i < place[n + 1]
  BY <1>1, <1>2, <1>3
<1>8. \E j \in 1..n : place[j] <= i /\ i < place[j + 1]
  BY <1>1, <1>6, <1>7
<1>. QED  BY <1>8 DEF n

\* That many bytes from a place on are not escaped.
Unescapable(text, k, m) ==
  m \in Nat /\ k + m <= Len(text) + 1 /\ \A j \in 0..(m - 1) : text[k + j] \notin Special

\* They stand one behind the other, as they did.
Copied(out, text, place, k, m) ==
  /\ \A j \in 0..m : place[k + j] = place[k] + j
  /\ \A j \in 0..(m - 1) : out[place[k] + j] = text[k + j]

\* Bytes that are not escaped do.
LEMMA SpelledRun ==
  ASSUME NEW text \in Seq(Byte), NEW out \in Seq(Byte), NEW place, SpelledAt(out, text, place),
         NEW k \in 1..Len(text), NEW m, Unescapable(text, k, m)
  PROVE  Copied(out, text, place, k, m)
<1>. DEFINE n == Len(text)
            S == {j \in Nat : j <= m => place[k + j] = place[k] + j}
<1>1. /\ n \in Nat /\ k \in Nat /\ k >= 1 /\ m \in Nat /\ k + m <= n + 1
      /\ \A j \in 0..(m - 1) : text[k + j] \notin Special
  BY DEF Unescapable
<1>. HIDE DEF n
<1>2. \A j \in 0..m : k + j \in 1..(n + 1)
  BY <1>1
<1>3. \A j \in 1..(n + 1) : place[j] \in Nat
  BY DEF SpelledAt, n
<1>4. ASSUME NEW j \in 0..(m - 1)
      PROVE  place[k + (j + 1)] = place[k + j] + 1 /\ out[place[k + j]] = text[k + j]
  <2>1. k + j \in 1..n /\ (k + j) + 1 = k + (j + 1)
    BY <1>1
  <2>2. EscapedAt(out, place[k + j], text[k + j], place[(k + j) + 1])
    BY <2>1 DEF SpelledAt, n
  <2>3. text[k + j] \notin Special
    BY <1>1
  <2>. QED  BY <2>1, <2>2, <2>3 DEF EscapedAt
<1>5. 0 \in S
  <2>1. k + 0 = k /\ k \in 1..(n + 1)
    BY <1>1, <1>2
  <2>. QED  BY <1>3, <2>1
<1>6. ASSUME NEW j \in Nat, j \in S PROVE j + 1 \in S
  <2>1. SUFFICES ASSUME j + 1 <= m PROVE place[k + (j + 1)] = place[k] + (j + 1)
    OBVIOUS
  <2>2. j \in 0..(m - 1) /\ k \in 1..(n + 1)
    BY <1>1, <2>1
  <2>3. place[k + j] = place[k] + j
    BY <1>1, <1>6, <2>1
  <2>4. place[k + (j + 1)] = place[k + j] + 1 /\ place[k] \in Nat
    BY <1>3, <1>4, <2>2
  <2>. DEFINE q == place[k]
              r == place[k + j]
  <2>5. q \in Nat /\ r = q + j /\ place[k + (j + 1)] = r + 1
    BY <2>3, <2>4
  <2>6. r + 1 = q + (j + 1)
    <3>. HIDE DEF q, r
    <3>. QED  BY <2>5
  <2>. QED  BY <2>5, <2>6
<1>7. \A j \in 0..m : place[k + j] = place[k] + j
  <2>. HIDE DEF S
  <2>1. Nat \subseteq S
    BY <1>5, <1>6, Induct
  <2>. QED  BY <2>1 DEF S
<1>8. \A j \in 0..(m - 1) : j \in 0..m
  BY <1>1
<1>. QED  BY <1>4, <1>7, <1>8 DEF Copied

\* The bytes that continue a sequence, and those that begin one, are not escaped;
\* what an escape is made of is in no sequence.
LEMMA PlainBytes ==
  /\ "more" \notin Special /\ "bad" \notin Special /\ Special \cap DOMAIN Width = {}
  /\ \A c \in {Quote, Backslash, NL, Tab, ":", "#"} \cup Escapes :
       c \notin DOMAIN Width /\ c # "more" /\ c # "bad"
BY DEF Special, Escapes, Width, Quote, Backslash, NL, Tab

\* A sequence of the text stands in the escaped text as it is.
LEMMA SpelledSequence ==
  ASSUME NEW text \in Seq(Byte), NEW out \in Seq(Byte), NEW place, SpelledAt(out, text, place),
         NEW k \in 1..Len(text), text[k] \in DOMAIN Width, Begun(text, Len(text), k)
  PROVE  LET w == Width[text[k]] IN
         /\ \A j \in 0..w : k + j \in 1..(Len(text) + 1) /\ place[k + j] = place[k] + j
         /\ \A j \in 0..(w - 1) : out[place[k] + j] = text[k + j]
<1>. DEFINE w == Width[text[k]]
<1>1. w \in 2..4 /\ k + w - 1 <= Len(text) /\ \A j \in (k + 1)..(k + w - 1) : text[j] = "more"
  BY WidthIs DEF Begun
<1>. HIDE DEF w
<1>2. w \in Nat /\ k + w <= Len(text) + 1
  BY <1>1
<1>3. \A j \in 0..(w - 1) : text[k + j] \notin Special
  <2>1. ASSUME NEW j \in 0..(w - 1)
        PROVE  (j = 0 /\ k + j = k) \/ k + j \in (k + 1)..(k + w - 1)
    BY <1>1
  <2>. QED  BY <1>1, <2>1, PlainBytes
<1>4. /\ \A j \in 0..w : place[k + j] = place[k] + j
      /\ \A j \in 0..(w - 1) : out[place[k] + j] = text[k + j]
  <2>1. Unescapable(text, k, w)
    BY <1>2, <1>3 DEF Unescapable
  <2>2. Copied(out, text, place, k, w)
    BY <2>1, SpelledRun
  <2>. QED  BY <2>2 DEF Copied
<1>5. \A j \in 0..w : k + j \in 1..(Len(text) + 1)
  BY <1>2
<1>. QED  BY <1>4, <1>5 DEF w

\* An escaped text is UTF-8 when the text is.
LEMMA EscapedUtf8 ==
  ASSUME NEW text \in Seq(Byte), IsUtf8(text)
  PROVE  IsUtf8(WriteEscaped(text))
<1>. DEFINE out == WriteEscaped(text)
            n == Len(text)
            m == Len(out)
<1>1. PICK place : SpelledAt(out, text, place)
  BY SpelledIs
<1>2. out \in Seq(Byte) /\ n \in Nat /\ m \in Nat
  BY WriteEscapedTyped
<1>. HIDE DEF out
<1>3. \A k \in 1..n : InPlace(text, 1, n, k)
  BY Utf8Is DEF Utf8On
<1>4. \A k \in 1..(n + 1) : place[k] \in 1..(m + 1)
  BY <1>1 DEF SpelledAt
<1>5. ASSUME NEW i \in 1..m PROVE InPlace(out, 1, m, i)
  <2>1. PICK k \in 1..n : place[k] <= i /\ i < place[k + 1]
    BY <1>1, <1>2, SpelledCovers
  <2>2. EscapedAt(out, place[k], text[k], place[k + 1]) /\ place[k] \in Nat /\ place[k] >= 1
    BY <1>1, <1>4 DEF SpelledAt
  <2>3. CASE text[k] \in Special
    <3>1. i = place[k] \/ i = place[k] + 1
      BY <2>1, <2>2, <2>3 DEF EscapedAt
    <3>2. out[i] \in {Backslash} \cup Escapes
      BY <2>2, <2>3, <3>1 DEF EscapedAt
    <3>. QED  BY <3>2, PlainBytes DEF InPlace
  <2>4. CASE text[k] \notin Special
    <3>1. i = place[k] /\ out[i] = text[k] /\ InPlace(text, 1, n, k)
      BY <1>3, <2>1, <2>2, <2>4 DEF EscapedAt
    <3>2. ASSUME text[k] \in DOMAIN Width PROVE Begun(out, m, i)
      <4>. DEFINE w == Width[text[k]]
      <4>1. Begun(text, n, k) /\ w \in 2..4
        BY <3>1, <3>2, WidthIs DEF InPlace
      <4>2. /\ \A j \in 0..w : k + j \in 1..(n + 1) /\ place[k + j] = place[k] + j
            /\ \A j \in 0..(w - 1) : out[place[k] + j] = text[k + j]
        BY <1>1, <1>2, <3>2, <4>1, SpelledSequence
      <4>3. \A j \in (k + 1)..(k + w - 1) : text[j] = "more"
        BY <4>1 DEF Begun
      <4>. HIDE DEF w, n, m
      <4>4. i + w <= m + 1
        <5>1. w \in 0..w
          BY <4>1
        <5>2. place[k + w] = i + w /\ place[k + w] \in 1..(m + 1)
          BY <1>4, <3>1, <4>2, <5>1
        <5>. QED  BY <1>2, <5>2
      <4>5. ASSUME NEW x \in (i + 1)..(i + w - 1) PROVE out[x] = "more"
        <5>1. x - i \in 0..(w - 1) /\ k + (x - i) \in (k + 1)..(k + w - 1)
              /\ i + (x - i) = x
          BY <1>2, <4>1
        <5>2. out[i + (x - i)] = text[k + (x - i)]
          BY <3>1, <4>2, <5>1
        <5>. QED  BY <4>3, <5>1, <5>2
      <4>6. i + w - 1 <= m
        BY <1>2, <4>1, <4>4
      <4>. QED  BY <3>1, <4>5, <4>6 DEF Begun, w
    <3>3. ASSUME text[k] = "more" PROVE Follows(out, 1, i)
      <4>1. PICK j \in 1..(k - 1) : text[j] \in DOMAIN Width /\ k - j < Width[text[j]]
        BY <3>1, <3>3 DEF InPlace, Follows
      <4>. DEFINE w == Width[text[j]]
                  d == k - j
      <4>2. j \in 1..n /\ w \in 2..4 /\ d \in 1..(w - 1) /\ j + d = k
        BY <1>2, <4>1, WidthIs
      <4>3. Begun(text, n, j)
        BY <1>3, <4>1, <4>2 DEF InPlace
      <4>4. /\ \A x \in 0..w : place[j + x] = place[j] + x
            /\ \A x \in 0..(w - 1) : out[place[j] + x] = text[j + x]
        BY <1>1, <1>2, <4>1, <4>2, <4>3, SpelledSequence
      <4>5. place[j] \in Nat /\ place[j] >= 1
        BY <1>4, <4>2
      <4>. HIDE DEF w, d
      <4>6. d \in 0..w /\ 0 \in 0..(w - 1) /\ place[j] + 0 = place[j] /\ j + 0 = j
        BY <4>2, <4>5
      <4>7. i = place[j] + d /\ out[place[j]] = text[j]
        BY <3>1, <4>2, <4>4, <4>6
      <4>8. place[j] \in 1..(i - 1) /\ i - place[j] = d /\ d < w
        <5>. DEFINE q == place[j]
        <5>1. q \in Nat /\ q >= 1 /\ i = q + d /\ d \in 1..(w - 1) /\ w \in 2..4
          BY <4>2, <4>5, <4>7
        <5>2. q \in 1..(i - 1) /\ i - q = d /\ d < w
          <6>. HIDE DEF q
          <6>. QED  BY <5>1
        <5>. QED  BY <5>2
      <4>. QED  BY <4>1, <4>7, <4>8 DEF Follows, w
    <3>. QED  BY <3>1, <3>2, <3>3 DEF InPlace
  <2>. QED  BY <2>3, <2>4
<1>6. IsUtf8(out)
  BY <1>2, <1>5, Utf8Is DEF Utf8On
<1>. QED  BY <1>6 DEF out

\* A source is UTF-8 when a run of it is and the bytes around that run are in no
\* sequence.
LEMMA FramedUtf8 ==
  ASSUME src \in Seq(Byte), NEW a \in Nat \ {0}, NEW z \in Nat, a <= z + 1, z <= Len(src),
         IsUtf8(SubSeq(src, a, z)),
         \A i \in 1..Len(src) : i < a \/ z < i =>
            src[i] \notin DOMAIN Width /\ src[i] # "more" /\ src[i] # "bad"
  PROVE  IsUtf8(src)
<1>1. Len(src) \in Nat /\ a \in 1..(Len(src) + 1)
  OBVIOUS
<1>2. \A i \in a..z : InPlace(src, a, z, i)
  BY <1>1, Utf8At DEF Utf8On
<1>3. ASSUME NEW i \in 1..Len(src) PROVE InPlace(src, 1, Len(src), i)
  <2>1. CASE i < a \/ z < i
    BY <2>1 DEF InPlace
  <2>2. CASE i \in a..z
    <3>1. InPlace(src, a, z, i)
      BY <1>2, <2>2
    <3>2. src[i] \in DOMAIN Width => Begun(src, Len(src), i)
      <4>1. SUFFICES ASSUME src[i] \in DOMAIN Width PROVE Begun(src, Len(src), i)
        OBVIOUS
      <4>2. Begun(src, z, i) /\ Width[src[i]] \in 2..4
        BY <3>1, <4>1, WidthIs DEF InPlace
      <4>. QED  BY <1>1, <4>2 DEF Begun
    <3>3. src[i] = "more" => Follows(src, 1, i)
      <4>1. \A j \in a..(i - 1) : j \in 1..(i - 1)
        OBVIOUS
      <4>. QED  BY <3>1, <4>1 DEF InPlace, Follows
    <3>. QED  BY <3>1, <3>2, <3>3 DEF InPlace
  <2>. QED  BY <1>1, <2>1, <2>2
<1>. QED  BY <1>3, Utf8Is DEF Utf8On

\* A text stands in the source behind a place.
Behind(p, text) ==
  /\ p + Len(text) <= Len(src)
  /\ \A i \in 1..Len(text) : src[p + i] = text[i]

\* An escaped byte is scanned in one turn.
LEMMA EscapedScans ==
  ASSUME src \in Seq(Byte), NEW out \in Seq(Byte), Behind(1, out), Len(src) = Len(out) + 3,
         NEW p \in 1..(Len(out) + 1), NEW c, NEW q \in 1..(Len(out) + 1), EscapedAt(out, p, c, q)
  PROVE  StringTurn(Open(At(p + 1))) = Open(At(q + 1))
<1>1. /\ Len(out) \in Nat /\ p + 1 \in Places /\ p \in 1..Len(out)
      /\ src[p + 1] = out[p] /\ p + 1 <= Len(src)
  <2>1. Len(out) \in Nat /\ p + 1 \in Places /\ p \in 1..Len(out)
    BY DEF Places, EscapedAt
  <2>2. src[1 + p] = out[p] /\ 1 + p = p + 1
    BY <2>1 DEF Behind
  <2>. QED  BY <2>1, <2>2
<1>2. PICK r \in Places, code \in ScanCodes :
        /\ StringMove(p + 1, r, code)
        /\ StringTurn(Open(At(p + 1))) = [code |-> code, at |-> At(r)]
  BY <1>1, StringTurnIs
<1>3. p + 1 # Len(src) + 1
  BY <1>1
<1>4. r = q + 1 /\ code = "open"
  <2>1. CASE c \notin Special /\ q = p + 1 /\ out[p] = c
    <3>1. src[p + 1] \notin {NL, Quote, Backslash}
      BY <1>1, <2>1 DEF Special
    <3>. QED  BY <1>2, <1>3, <2>1, <3>1 DEF StringMove
  <2>2. CASE q = p + 2 /\ out[p] = Backslash /\ out[p + 1] \in Escapes
    <3>1. src[p + 1] = Backslash /\ Backslash # NL /\ Backslash # Quote
      BY <1>1, <2>2 DEF Backslash, NL, Quote
    <3>2. (p + 1) + 1 <= Len(src) /\ src[(p + 1) + 1] \in Escapes /\ (p + 1) + 2 = q + 1
      <4>1. p + 1 \in 1..Len(out) /\ 1 + (p + 1) = (p + 1) + 1
        BY <1>1, <2>2
      <4>2. src[1 + (p + 1)] = out[p + 1]
        BY <4>1 DEF Behind
      <4>. QED  BY <1>1, <2>2, <4>1, <4>2
    <3>. QED  BY <1>2, <1>3, <3>1, <3>2 DEF StringMove
  <2>. QED  BY <2>1, <2>2 DEF EscapedAt
<1>. QED  BY <1>2, <1>4 DEF Open

\* The scan of what was written between quotes ends behind the second of them.
LEMMA QuotedScans ==
  ASSUME src \in Seq(Byte), NEW text \in Seq(Byte), Behind(1, WriteEscaped(text)),
         Len(src) = Len(WriteEscaped(text)) + 3, src[Len(src) - 1] = Quote
  PROVE  ScanString(At(2)) = [code |-> "none", at |-> At(Len(src))]
<1>. DEFINE out == WriteEscaped(text)
            n == Len(text)
            m == Len(out)
<1>1. PICK place : SpelledAt(out, text, place)
  BY SpelledIs
<1>2. out \in Seq(Byte) /\ n \in Nat /\ m \in Nat /\ Len(src) = m + 3 /\ 2 \in Places
  BY WriteEscapedTyped DEF Places
<1>3. PICK f : StringRun(At(2), f) /\ ScanString(At(2)) = f[Len(src)]
  BY <1>2, AtTyped, ScanStringUnfold
<1>4. Behind(1, out)
  OBVIOUS
<1>. HIDE DEF out
<1>5. \A k \in 1..(n + 1) : place[k] \in 1..(m + 1)
  BY <1>1 DEF SpelledAt
<1>. DEFINE S == {i \in Nat : i <= n =>
                    f[i] = Open(At(place[i + 1] + 1)) /\ place[i + 1] >= i + 1}
<1>6. 0 \in S
  <2>1. place[0 + 1] = 1 /\ f[0] = Open(At(2))
    BY <1>1, <1>3 DEF SpelledAt, StringRun
  <2>2. place[0 + 1] + 1 = 2 /\ place[0 + 1] >= 0 + 1
    BY <2>1
  <2>. QED  BY <2>1, <2>2
<1>7. ASSUME NEW i \in Nat, i \in S PROVE i + 1 \in S
  <2>1. SUFFICES ASSUME i + 1 <= n
                 PROVE  /\ f[i + 1] = Open(At(place[(i + 1) + 1] + 1))
                        /\ place[(i + 1) + 1] >= (i + 1) + 1
    OBVIOUS
  <2>. DEFINE p == place[i + 1]
              q == place[(i + 1) + 1]
  <2>2. i + 1 \in 1..n /\ i + 1 \in 1..(n + 1) /\ (i + 1) + 1 \in 1..(n + 1)
    BY <1>2, <2>1
  <2>3. f[i] = Open(At(p + 1)) /\ p >= i + 1 /\ p \in 1..(m + 1) /\ q \in 1..(m + 1)
    BY <1>2, <1>5, <1>7, <2>1, <2>2
  <2>4. EscapedAt(out, p, text[i + 1], q)
    BY <1>1, <2>2 DEF SpelledAt
  <2>. HIDE DEF p, q, n
  <2>5. StringTurn(Open(At(p + 1))) = Open(At(q + 1))
    BY <1>2, <1>4, <2>3, <2>4, EscapedScans
  <2>6. q >= (i + 1) + 1
    BY <2>3, <2>4 DEF EscapedAt
  <2>7. f[i + 1] = StringTurn(f[i])
    <3>1. i + 1 \in 1..Len(src) /\ (i + 1) - 1 = i
      BY <1>2, <2>3
    <3>. QED  BY <1>3, <3>1 DEF StringRun
  <2>. QED  BY <2>3, <2>5, <2>6, <2>7 DEF p, q
<1>8. f[n] = Open(At(m + 2)) /\ n <= m
  <2>1. Nat \subseteq S
    <3>. HIDE DEF S
    <3>. QED  BY <1>6, <1>7, Induct
  <2>2. f[n] = Open(At(place[n + 1] + 1)) /\ place[n + 1] >= n + 1
    BY <1>2, <2>1
  <2>3. place[n + 1] = m + 1
    BY <1>1 DEF SpelledAt
  <2>4. (m + 1) + 1 = m + 2 /\ (m + 1 >= n + 1 => n <= m)
    BY <1>2
  <2>. QED  BY <2>2, <2>3, <2>4
<1>9. StringTurn(Open(At(m + 2))) = [code |-> "none", at |-> At(m + 3)]
  <2>1. m + 2 \in Places /\ m + 2 # Len(src) + 1 /\ (m + 2) + 1 = m + 3
    BY <1>2 DEF Places
  <2>2. src[m + 2] = Quote /\ Quote # NL /\ Quote # Backslash
    <3>1. Len(src) - 1 = m + 2
      BY <1>2
    <3>2. Quote # NL /\ Quote # Backslash
      BY DEF Quote, NL, Backslash
    <3>. QED  BY <3>1, <3>2
  <2>3. PICK r \in Places, code \in ScanCodes :
          /\ StringMove(m + 2, r, code)
          /\ StringTurn(Open(At(m + 2))) = [code |-> code, at |-> At(r)]
    BY <2>1, StringTurnIs
  <2>. QED  BY <2>1, <2>2, <2>3 DEF StringMove
<1>10. f[n + 1] = [code |-> "none", at |-> At(Len(src))]
  <2>1. n + 1 \in 1..Len(src) /\ (n + 1) - 1 = n
    BY <1>2, <1>8
  <2>. QED  BY <1>2, <1>3, <1>8, <1>9, <2>1 DEF StringRun
<1>11. f[Len(src)] = f[n + 1]
  <2>1. n + 1 \in 0..Len(src) /\ f[n + 1].code # "open"
    BY <1>2, <1>8, <1>10
  <2>. QED  BY <1>3, <2>1, ScanStays
<1>. QED  BY <1>3, <1>10, <1>11

\* A text and its next byte are a longer part of it.
LEMMA PartAppend ==
  ASSUME NEW text \in Seq(Byte), NEW i \in Nat, i + 1 <= Len(text)
  PROVE  Append(SubSeq(text, 1, i), text[i + 1]) = SubSeq(text, 1, i + 1)
<1>. DEFINE u == SubSeq(text, 1, i)
            v == SubSeq(text, 1, i + 1)
<1>1. /\ u \in Seq(Byte) /\ Len(u) = i /\ \A k \in 1..i : u[k] = text[k]
      /\ v \in Seq(Byte) /\ Len(v) = i + 1 /\ \A k \in 1..(i + 1) : v[k] = text[k]
      /\ text[i + 1] \in Byte
  OBVIOUS
<1>. HIDE DEF u, v
<1>2. /\ Append(u, text[i + 1]) \in Seq(Byte) /\ Len(Append(u, text[i + 1])) = Len(v)
      /\ \A k \in 1..Len(v) : Append(u, text[i + 1])[k] = v[k]
  BY <1>1
<1>3. Append(u, text[i + 1]) = v
  BY <1>1, <1>2, SeqEqual
<1>. QED  BY <1>3 DEF u, v

\* An escaped byte is decoded in one turn.
LEMMA EscapedDecodes ==
  ASSUME NEW inner \in Seq(Byte), NEW out, NEW p \in 1..(Len(inner) + 1), NEW c,
         NEW q \in 1..(Len(inner) + 1), EscapedAt(inner, p, c, q)
  PROVE  DecodeTurn(inner, [out |-> out, next |-> p]) = [out |-> Append(out, c), next |-> q]
<1>1. p \in 1..Len(inner)
  BY DEF EscapedAt
<1>2. CASE c \notin Special /\ q = p + 1 /\ inner[p] = c
  <2>1. inner[p] # Backslash
    BY <1>2 DEF Special
  <2>. QED  BY <1>1, <1>2, <2>1, DecodeTurnIs
<1>3. CASE /\ q = p + 2 /\ inner[p] = Backslash /\ inner[p + 1] \in Escapes
           /\ Unescaped[inner[p + 1]] = c
  <2>1. p < Len(inner)
    BY <1>3
  <2>. QED  BY <1>1, <1>3, <2>1, DecodeTurnIs
<1>. QED  BY <1>2, <1>3 DEF EscapedAt

\* What was escaped is decoded to what it was.
LEMMA EscapedReadsBack ==
  ASSUME NEW text \in Seq(Byte)
  PROVE  Decoded(WriteEscaped(text)) = text
<1>. DEFINE out == WriteEscaped(text)
            n == Len(text)
            m == Len(out)
<1>1. PICK place : SpelledAt(out, text, place)
  BY SpelledIs
<1>2. out \in Seq(Byte) /\ n \in Nat /\ m \in Nat
  BY WriteEscapedTyped
<1>. HIDE DEF out
<1>3. PICK d : DecodedRun(out, d) /\ Decoded(out) = d[m].out
  BY <1>2, DecodedUnfold
<1>4. \A k \in 1..(n + 1) : place[k] \in 1..(m + 1)
  BY <1>1 DEF SpelledAt
<1>. DEFINE Read(i) == [out |-> SubSeq(text, 1, i), next |-> place[i + 1]]
            S == {i \in Nat : i <= n => d[i] = Read(i) /\ place[i + 1] >= i + 1}
<1>5. 0 \in S
  <2>1. SubSeq(text, 1, 0) = <<>>
    OBVIOUS
  <2>2. place[0 + 1] = 1 /\ place[0 + 1] >= 0 + 1
    BY <1>1 DEF SpelledAt
  <2>3. d[0] = [out |-> <<>>, next |-> 1]
    BY <1>3 DEF DecodedRun
  <2>. QED  BY <2>1, <2>2, <2>3
<1>6. ASSUME NEW i \in Nat, i \in S PROVE i + 1 \in S
  <2>1. SUFFICES ASSUME i + 1 <= n
                 PROVE  d[i + 1] = Read(i + 1) /\ place[(i + 1) + 1] >= (i + 1) + 1
    OBVIOUS
  <2>. DEFINE p == place[i + 1]
              q == place[(i + 1) + 1]
              u == SubSeq(text, 1, i)
  <2>2. i + 1 \in 1..n /\ i + 1 \in 1..(n + 1) /\ (i + 1) + 1 \in 1..(n + 1)
    BY <1>2, <2>1
  <2>3. d[i] = [out |-> u, next |-> p] /\ p >= i + 1 /\ p \in 1..(m + 1) /\ q \in 1..(m + 1)
    BY <1>2, <1>4, <1>6, <2>1, <2>2
  <2>4. EscapedAt(out, p, text[i + 1], q)
    BY <1>1, <2>2 DEF SpelledAt
  <2>5. Append(u, text[i + 1]) = SubSeq(text, 1, i + 1)
    BY <2>1, PartAppend
  <2>. HIDE DEF p, q, u, n
  <2>6. DecodeTurn(out, [out |-> u, next |-> p]) = [out |-> Append(u, text[i + 1]), next |-> q]
    <3>1. out \in Seq(Byte) /\ p \in 1..(Len(out) + 1) /\ q \in 1..(Len(out) + 1)
      BY <1>2, <2>3
    <3>2. PICK c : c = text[i + 1]
      OBVIOUS
    <3>3. EscapedAt(out, p, c, q)
      BY <2>4, <3>2
    <3>4. DecodeTurn(out, [out |-> u, next |-> p]) = [out |-> Append(u, c), next |-> q]
      BY ONLY <3>1, <3>3, EscapedDecodes
    <3>. QED  BY ONLY <3>2, <3>4
  <2>7. q >= (i + 1) + 1
    BY <2>3, <2>4 DEF EscapedAt
  <2>8. d[i + 1] = DecodeTurn(out, d[i])
    <3>1. i + 1 \in 1..m /\ (i + 1) - 1 = i
      BY <1>2, <2>3, <2>7
    <3>. QED  BY <1>3, <3>1 DEF DecodedRun
  <2>. QED  BY <2>3, <2>5, <2>6, <2>7, <2>8 DEF q
<1>7. d[n] = [out |-> text, next |-> m + 1] /\ n <= m
  <2>1. Nat \subseteq S
    <3>. HIDE DEF S
    <3>. QED  BY <1>5, <1>6, Induct
  <2>2. d[n] = Read(n) /\ place[n + 1] >= n + 1
    BY <1>2, <2>1
  <2>3. place[n + 1] = m + 1 /\ SubSeq(text, 1, n) = text
    BY <1>1 DEF SpelledAt
  <2>4. m + 1 >= n + 1 => n <= m
    BY <1>2
  <2>. QED  BY <2>2, <2>3, <2>4
<1>. DEFINE T == {j \in Nat : n <= j /\ j <= m => d[j] = d[n]}
<1>8. 0 \in T
  <2>1. n <= 0 => n = 0
    BY <1>2
  <2>. QED  BY <2>1
<1>9. ASSUME NEW j \in Nat, j \in T PROVE j + 1 \in T
  <2>1. SUFFICES ASSUME n <= j + 1, j + 1 <= m PROVE d[j + 1] = d[n]
    OBVIOUS
  <2>2. CASE n <= j
    <3>1. d[j] = d[n] /\ j + 1 \in 1..m /\ (j + 1) - 1 = j
      BY <1>2, <1>9, <2>1, <2>2
    <3>2. d[j + 1] = DecodeTurn(out, d[j])
      BY <1>3, <3>1 DEF DecodedRun
    <3>3. d[j].next = Len(out) + 1
      BY <1>7, <3>1
    <3>. QED  BY <1>2, <3>1, <3>2, <3>3, DecodeTurnDone
  <2>3. CASE n = j + 1
    BY <2>3
  <2>. QED  BY <1>2, <2>1, <2>2, <2>3
<1>10. d[m] = d[n]
  <2>1. Nat \subseteq T
    <3>. HIDE DEF T
    <3>. QED  BY <1>8, <1>9, Induct
  <2>. QED  BY <1>2, <1>7, <2>1
<1>. QED  BY <1>3, <1>7, <1>10 DEF out

\* Where three quotes stand in a text, it has three quotes as a part.
LEMMA QuotesArePart ==
  ASSUME NEW text \in Seq(Byte), NEW i \in 1..Len(text), QuotesAt(text, i)
  PROVE  HasPart(text, TripleQuote)
<1>1. i + 2 <= Len(text) /\ Len(TripleQuote) = 3
  BY DEF QuotesAt, TripleQuote
<1>2. SubSeq(text, i, i + 2) = TripleQuote
  BY <1>1, ThreeOf
<1>3. i \in 1..(Len(text) - 3 + 1) /\ i + 3 - 1 = i + 2
  BY <1>1
<1>. QED  BY <1>1, <1>2, <1>3 DEF HasPart

\* The scan of what was written between three quotes ends behind the last three.
LEMMA MultilineScans ==
  ASSUME src \in Seq(Byte), NEW text \in Seq(Byte), text # <<>>, CanEmitMultiline(text),
         Behind(3, text), Len(src) = Len(text) + 7,
         \A i \in 4..6 : src[Len(text) + i] = Quote
  PROVE  ScanMultiline(At(4)) = [code |-> "none", at |-> At(Len(src))]
<1>. DEFINE n == Len(text)
<1>1. n \in Nat /\ n >= 1 /\ Len(src) = n + 7 /\ 4 \in Places
  BY EmptySeq DEF Places
<1>2. \A i \in 1..n : src[3 + i] = text[i]
  BY DEF Behind
<1>3. Last(text) = text[n] /\ text[n] # Quote
  BY DEF CanEmitMultiline, Last
<1>4. \A i \in 4..6 : src[n + i] = Quote
  OBVIOUS
<1>5. \A i \in 1..n : ~ QuotesAt(text, i)
  BY QuotesArePart DEF CanEmitMultiline
<1>. HIDE DEF n
<1>6. ASSUME NEW i \in 1..n PROVE ~ QuotesAt(src, i + 3)
  <2>1. SUFFICES ASSUME src[i + 3] = Quote, src[(i + 3) + 1] = Quote, src[(i + 3) + 2] = Quote
                 PROVE  FALSE
    BY DEF QuotesAt
  <2>2. src[3 + n] = text[n]
    <3>1. n \in 1..n
      BY <1>1
    <3>. QED  BY <1>2, <3>1
  <2>3. CASE i + 2 <= n
    <3>1. i \in 1..n /\ i + 1 \in 1..n /\ i + 2 \in 1..n
      BY <1>1, <2>3
    <3>2. /\ src[3 + i] = text[i] /\ src[3 + (i + 1)] = text[i + 1]
          /\ src[3 + (i + 2)] = text[i + 2]
      BY <1>2, <3>1
    <3>3. 3 + i = i + 3 /\ 3 + (i + 1) = (i + 3) + 1 /\ 3 + (i + 2) = (i + 3) + 2
      OBVIOUS
    <3>4. QuotesAt(text, i)
      BY <2>1, <2>3, <3>2, <3>3 DEF QuotesAt, n
    <3>. QED  BY <1>5, <3>4
  <2>4. CASE i + 1 = n
    <3>1. 3 + n = (i + 3) + 1
      BY <2>4
    <3>. QED  BY <1>3, <2>1, <2>2, <3>1
  <2>5. CASE i = n
    <3>1. 3 + n = i + 3
      BY <1>1, <2>5
    <3>. QED  BY <1>3, <2>1, <2>2, <3>1
  <2>6. i + 2 <= n \/ i + 1 = n \/ i = n
    BY <1>1
  <2>. QED  BY <2>3, <2>4, <2>5, <2>6
<1>7. PICK f : MultilineRun(At(4), f) /\ ScanMultiline(At(4)) = f[Len(src)]
  BY <1>1, AtTyped, ScanMultilineUnfold
<1>8. \A i \in 1..Len(src) : f[i] = MultilineTurn(f[i - 1])
  BY <1>7 DEF MultilineRun
<1>. DEFINE S == {i \in Nat : i <= n => f[i] = Open(At(i + 4))}
<1>9. 0 \in S
  <2>1. f[0] = Open(At(4)) /\ 0 + 4 = 4
    BY <1>7 DEF MultilineRun
  <2>. QED  BY <2>1
<1>10. ASSUME NEW i \in Nat, i \in S PROVE i + 1 \in S
  <2>1. SUFFICES ASSUME i + 1 <= n PROVE f[i + 1] = Open(At((i + 1) + 4))
    OBVIOUS
  <2>2. /\ i + 1 \in 1..Len(src) /\ (i + 1) - 1 = i /\ i + 1 \in 1..n
        /\ i + 4 \in Places /\ i + 4 # Len(src) + 1 /\ (i + 1) + 3 = i + 4
        /\ (i + 4) + 1 = (i + 1) + 4 /\ i <= n
    BY <1>1, <2>1 DEF Places
  <2>3. f[i + 1] = MultilineTurn(Open(At(i + 4)))
    BY <1>8, <1>10, <2>2
  <2>4. PICK r \in Places, code \in ScanCodes :
          /\ MultilineMove(i + 4, r, code)
          /\ MultilineTurn(Open(At(i + 4))) = [code |-> code, at |-> At(r)]
    BY <2>2, MultilineTurnIs
  <2>5. ~ QuotesAt(src, i + 4)
    BY <1>6, <2>2
  <2>6. r = (i + 1) + 4 /\ code = "open"
    BY <2>2, <2>4, <2>5 DEF MultilineMove
  <2>. QED  BY <2>3, <2>4, <2>6 DEF Open
<1>11. f[n] = Open(At(n + 4))
  <2>1. Nat \subseteq S
    <3>. HIDE DEF S
    <3>. QED  BY <1>9, <1>10, Induct
  <2>. QED  BY <1>1, <2>1
<1>12. MultilineTurn(Open(At(n + 4))) = [code |-> "none", at |-> At(n + 7)]
  <2>1. n + 4 \in Places /\ n + 4 # Len(src) + 1 /\ (n + 4) + 3 = n + 7
        /\ (n + 4) + 1 = n + 5 /\ (n + 4) + 2 = n + 6 /\ n + 6 <= Len(src)
    BY <1>1 DEF Places
  <2>2. QuotesAt(src, n + 4)
    <3>1. src[n + 4] = Quote /\ src[n + 5] = Quote /\ src[n + 6] = Quote
      BY <1>4
    <3>. QED  BY <2>1, <3>1 DEF QuotesAt
  <2>3. PICK r \in Places, code \in ScanCodes :
          /\ MultilineMove(n + 4, r, code)
          /\ MultilineTurn(Open(At(n + 4))) = [code |-> code, at |-> At(r)]
    BY <2>1, MultilineTurnIs
  <2>. QED  BY <2>1, <2>2, <2>3 DEF MultilineMove
<1>13. f[n + 1] = [code |-> "none", at |-> At(Len(src))]
  <2>1. n + 1 \in 1..Len(src) /\ (n + 1) - 1 = n
    BY <1>1
  <2>. QED  BY <1>1, <1>8, <1>11, <1>12, <2>1
<1>14. f[Len(src)] = f[n + 1]
  <2>1. n + 1 \in 0..Len(src) /\ f[n + 1].code # "open"
    BY <1>1, <1>13
  <2>. QED  BY <1>7, <2>1, ScanStays
<1>. QED  BY <1>7, <1>13, <1>14

\* What lex_string makes of a string that begins at the cursor.
StringEnd(c) ==
  IF ThreeQuotes(c) THEN ScanMultiline(Advanced(c, 3)) ELSE ScanString(Advance(c))

\* All of the source but its last byte is a string, and decoded to a text.
ReadsBack(text) ==
  /\ Len(src) >= 2 /\ src[1] = Quote
  /\ StringEnd(At(1)) = [code |-> "none", at |-> At(Len(src))]
  /\ Unescape(SubSeq(src, 1, Len(src) - 1)) = text

\* The first byte of an escaped text is no quote.
LEMMA EscapedFirst ==
  ASSUME NEW text \in Seq(Byte), WriteEscaped(text) # <<>>
  PROVE  WriteEscaped(text)[1] # Quote
<1>. DEFINE out == WriteEscaped(text)
<1>1. PICK place : SpelledAt(out, text, place)
  BY SpelledIs
<1>2. out \in Seq(Byte) /\ Len(out) \in Nat /\ Len(out) >= 1 /\ Len(text) \in Nat
  BY WriteEscapedTyped, EmptySeq
<1>. HIDE DEF out
<1>3. Len(text) >= 1
  <2>1. SUFFICES ASSUME Len(text) = 0 PROVE FALSE
    BY <1>2
  <2>2. place[1] = 1 /\ place[0 + 1] = Len(out) + 1
    BY <1>1, <2>1 DEF SpelledAt
  <2>. QED  BY <1>2, <2>2
<1>4. EscapedAt(out, 1, text[1], place[1 + 1])
  <2>1. 1 \in 1..Len(text)
    BY <1>2, <1>3
  <2>. QED  BY <1>1, <2>1 DEF SpelledAt
<1>5. out[1] # Quote
  <2>1. Backslash # Quote
    BY DEF Backslash, Quote
  <2>. QED  BY <1>4, <2>1 DEF EscapedAt, Special
<1>. QED  BY <1>5 DEF out

\* What two texts are, one behind the other.
LEMMA ConcatIs ==
  ASSUME NEW a \in Seq(Byte), NEW b \in Seq(Byte), NEW both, both = a \o b
  PROVE  /\ both \in Seq(Byte) /\ Len(both) = Len(a) + Len(b)
         /\ \A i \in 1..Len(a) : both[i] = a[i]
         /\ \A i \in 1..Len(b) : both[Len(a) + i] = b[i]
OBVIOUS

\* What a text is between quotes, one or three.
LEMMA Between ==
  ASSUME NEW out \in Seq(Byte), NEW q \in Seq(Byte), NEW begun, begun = q \o out,
         NEW raw, raw = begun \o q
  PROVE  /\ raw \in Seq(Byte) /\ Len(raw) = Len(q) + Len(out) + Len(q)
         /\ \A i \in 1..Len(q) : raw[i] = q[i] /\ raw[Len(q) + Len(out) + i] = q[i]
         /\ \A i \in 1..Len(out) : raw[Len(q) + i] = out[i]
         /\ SubSeq(raw, Len(q) + 1, Len(raw) - Len(q)) = out
<1>1. /\ begun \in Seq(Byte) /\ Len(begun) = Len(q) + Len(out)
      /\ \A i \in 1..Len(q) : begun[i] = q[i]
      /\ \A i \in 1..Len(out) : begun[Len(q) + i] = out[i]
  BY ConcatIs
<1>2. begun \in Seq(Byte)
  BY <1>1
<1>3. /\ raw \in Seq(Byte) /\ Len(raw) = Len(begun) + Len(q)
      /\ \A i \in 1..Len(begun) : raw[i] = begun[i]
      /\ \A i \in 1..Len(q) : raw[Len(begun) + i] = q[i]
  BY <1>2, ConcatIs
<1>4. Len(q) \in Nat /\ Len(out) \in Nat
  OBVIOUS
<1>5. /\ \A i \in 1..Len(q) : i \in 1..Len(begun)
      /\ \A i \in 1..Len(out) : Len(q) + i \in 1..Len(begun)
  BY <1>1, <1>4
<1>6. /\ raw \in Seq(Byte) /\ Len(raw) = Len(q) + Len(out) + Len(q)
      /\ \A i \in 1..Len(q) : raw[i] = q[i] /\ raw[Len(q) + Len(out) + i] = q[i]
      /\ \A i \in 1..Len(out) : raw[Len(q) + i] = out[i]
  BY <1>1, <1>3, <1>5
<1>7. SubSeq(raw, Len(q) + 1, Len(raw) - Len(q)) = out
  <2>. DEFINE k == Len(q)
              m == Len(out)
              u == SubSeq(raw, k + 1, Len(raw) - k)
  <2>1. k \in Nat /\ m \in Nat /\ Len(raw) = k + m + k /\ Len(raw) \in Nat
    BY <1>4, <1>6
  <2>2. u \in Seq(Byte) /\ Len(u) = m /\ \A i \in 1..m : u[i] = raw[(k + 1) + i - 1]
    <3>1. /\ k + 1 \in 1..(Len(raw) + 1) /\ Len(raw) - k \in Nat /\ Len(raw) - k <= Len(raw)
          /\ k + 1 <= (Len(raw) - k) + 1 /\ (Len(raw) - k) - (k + 1) + 1 = m
      <4>. HIDE DEF k, m
      <4>. QED  BY <2>1
    <3>2. raw \in Seq(Byte)
      BY <1>6
    <3>3. PICK a, z : a = k + 1 /\ z = Len(raw) - k
      OBVIOUS
    <3>. HIDE DEF k, m
    <3>4. /\ SubSeq(raw, a, z) \in Seq(Byte) /\ Len(SubSeq(raw, a, z)) = z - a + 1
          /\ \A i \in 1..(z - a + 1) : SubSeq(raw, a, z)[i] = raw[a + i - 1]
      <4>1. a \in 1..(Len(raw) + 1) /\ z \in Nat /\ z <= Len(raw) /\ a <= z + 1
        BY <3>1, <3>3
      <4>. QED  BY <3>2, <4>1, RunIs
    <3>. QED  BY <3>1, <3>3, <3>4
  <2>3. \A i \in 1..m : (k + 1) + i - 1 = k + i
    BY <2>1
  <2>4. \A i \in 1..m : u[i] = out[i]
    <3>1. \A i \in 1..m : raw[k + i] = out[i]
      BY <1>6
    <3>. HIDE DEF u, k, m
    <3>. QED  BY <2>2, <2>3, <3>1
  <2>5. out \in Seq(Byte) /\ Len(out) = m
    OBVIOUS
  <2>. HIDE DEF u, k, m
  <2>6. u = out
    BY <2>2, <2>4, <2>5, SeqEqual
  <2>. QED  BY <2>6 DEF u, k
<1>. QED  BY <1>6, <1>7

\* What is written between quotes.
LEMMA QuotedIs ==
  ASSUME NEW text \in Seq(Byte)
  PROVE  LET out == WriteEscaped(text)
             raw == WriteQuoted(text)
         IN  /\ out \in Seq(Byte) /\ raw \in Seq(Byte) /\ Len(raw) = Len(out) + 2
             /\ raw[1] = Quote /\ raw[Len(out) + 2] = Quote
             /\ \A i \in 1..Len(out) : raw[1 + i] = out[i]
             /\ SubSeq(raw, 2, Len(raw) - 1) = out
<1>. DEFINE out == WriteEscaped(text)
            raw == WriteQuoted(text)
<1>1. PICK q : q = <<Quote>>
  OBVIOUS
<1>2. q \in Seq(Byte) /\ Len(q) = 1 /\ q[1] = Quote
  BY <1>1, Bytes
<1>3. out \in Seq(Byte) /\ Len(out) \in Nat
  BY WriteEscapedTyped
<1>4. PICK begun : begun = q \o out /\ raw = begun \o q
  BY <1>1 DEF WriteQuoted
<1>. HIDE DEF out, raw
<1>5. /\ raw \in Seq(Byte) /\ Len(raw) = Len(q) + Len(out) + Len(q)
      /\ \A i \in 1..Len(q) : raw[i] = q[i] /\ raw[Len(q) + Len(out) + i] = q[i]
      /\ \A i \in 1..Len(out) : raw[Len(q) + i] = out[i]
      /\ SubSeq(raw, Len(q) + 1, Len(raw) - Len(q)) = out
  <2>1. q \in Seq(Byte)
    BY <1>2
  <2>2. out \in Seq(Byte)
    BY <1>3
  <2>. QED  BY <1>4, <2>1, <2>2, Between
<1>6. 1 \in 1..Len(q) /\ 1 + Len(out) + 1 = Len(out) + 2 /\ 1 + 1 = 2
  BY <1>2, <1>3
<1>. QED  BY <1>2, <1>3, <1>5, <1>6 DEF out, raw

\* What is written between quotes is decoded to what it was.
LEMMA QuotedUnescapes ==
  ASSUME NEW text \in Seq(Byte)
  PROVE  Unescape(WriteQuoted(text)) = text
<1>. DEFINE out == WriteEscaped(text)
            raw == WriteQuoted(text)
<1>1. /\ out \in Seq(Byte) /\ raw \in Seq(Byte) /\ Len(raw) = Len(out) + 2
      /\ raw[1] = Quote /\ raw[Len(out) + 2] = Quote
      /\ \A i \in 1..Len(out) : raw[1 + i] = out[i]
      /\ SubSeq(raw, 2, Len(raw) - 1) = out
  BY QuotedIs
<1>2. Decoded(out) = text
  BY EscapedReadsBack
<1>3. Len(out) >= 1 => out[1] # Quote
  BY EscapedFirst
<1>. HIDE DEF out, raw
<1>4. IsQuoted(raw)
  <2>1. Len(out) \in Nat
    BY <1>1
  <2>. QED  BY <1>1, <2>1 DEF IsQuoted, Last
<1>5. ~ IsVerbatim(raw)
  <2>1. SUFFICES ASSUME Len(raw) >= 6, SubSeq(raw, 1, 3) = TripleQuote PROVE FALSE
    BY DEF IsVerbatim
  <2>2. 1 \in 1..Len(raw) /\ 1 + 2 <= Len(raw) /\ 1 + 2 = 3 /\ Len(out) \in Nat /\ Len(out) >= 1
    BY <1>1, <2>1
  <2>3. QuotesAt(raw, 1)
    BY <1>1, <2>1, <2>2, ThreeOf
  <2>4. raw[1 + 1] = out[1]
    <3>1. 1 \in 1..Len(out)
      BY <2>2
    <3>. QED  BY <1>1, <3>1
  <2>. QED  BY <1>3, <2>2, <2>3, <2>4 DEF QuotesAt
<1>6. Unescape(raw) = Decoded(SubSeq(raw, 2, Len(raw) - 1))
  BY <1>4, <1>5 DEF Unescape
<1>. QED  BY <1>1, <1>2, <1>6 DEF raw

\* The source is bytes, and one more.
LEMMA OneMore ==
  ASSUME NEW raw \in Seq(Byte), NEW c \in Byte, src = raw \o <<c>>
  PROVE  /\ src \in Seq(Byte) /\ Len(src) = Len(raw) + 1 /\ src[Len(src)] = c
         /\ \A i \in 1..Len(raw) : src[i] = raw[i]
         /\ SubSeq(src, 1, Len(src) - 1) = raw
<1>. DEFINE q == <<c>>
<1>1. q \in Seq(Byte) /\ Len(q) = 1 /\ q[1] = c /\ Len(raw) \in Nat
  OBVIOUS
<1>2. src = raw \o q
  OBVIOUS
<1>. HIDE DEF q
<1>3. /\ src \in Seq(Byte) /\ Len(src) = Len(raw) + 1 /\ src[Len(raw) + 1] = c
      /\ \A i \in 1..Len(raw) : src[i] = raw[i]
  BY <1>1, <1>2
<1>4. SubSeq(src, 1, Len(raw)) = raw
  <2>. DEFINE u == SubSeq(src, 1, Len(raw))
  <2>1. u \in Seq(Byte) /\ Len(u) = Len(raw) /\ \A i \in 1..Len(raw) : u[i] = src[i]
    BY <1>1, <1>3
  <2>. HIDE DEF u
  <2>2. u = raw
    BY <1>3, <2>1, SeqEqual
  <2>. QED  BY <2>2 DEF u
<1>5. Len(src) - 1 = Len(raw)
  BY <1>1, <1>3
<1>. QED  BY <1>3, <1>4, <1>5

\* What is written between quotes is UTF-8 and one string, whatever stands behind it
\* that is no quote.
LEMMA QuotedReads ==
  ASSUME NEW text \in Seq(Byte), IsUtf8(text), NEW c \in {NL, ":"},
         src = WriteQuoted(text) \o <<c>>
  PROVE  src \in Seq(Byte) /\ IsUtf8(src) /\ src[Len(src)] = c /\ ReadsBack(text)
<1>. DEFINE out == WriteEscaped(text)
            raw == WriteQuoted(text)
            m == Len(out)
<1>1. /\ out \in Seq(Byte) /\ raw \in Seq(Byte) /\ Len(raw) = m + 2
      /\ raw[1] = Quote /\ raw[m + 2] = Quote
      /\ \A i \in 1..m : raw[1 + i] = out[i]
      /\ SubSeq(raw, 2, Len(raw) - 1) = out
  BY QuotedIs
<1>2. IsUtf8(out) /\ Unescape(raw) = text /\ (Len(out) >= 1 => out[1] # Quote)
  BY EscapedUtf8, QuotedUnescapes, EscapedFirst
<1>3. c \in Byte /\ c # Quote
  BY DEF Byte, Spaces, Punctuators, NL, Quote
<1>4. src = raw \o <<c>>
  OBVIOUS
<1>. HIDE DEF raw
<1>5. /\ src \in Seq(Byte) /\ Len(src) = Len(raw) + 1 /\ src[Len(src)] = c
      /\ \A i \in 1..Len(raw) : src[i] = raw[i]
      /\ SubSeq(src, 1, Len(src) - 1) = raw
  BY <1>1, <1>3, <1>4, OneMore
<1>6. m \in Nat
  BY <1>1
<1>7. out = WriteEscaped(text)
  OBVIOUS
<1>. HIDE DEF out, m
<1>8. /\ Len(src) = m + 3 /\ src[1] = Quote /\ src[m + 2] = Quote /\ src[m + 3] = c
      /\ \A i \in 1..m : src[1 + i] = out[i]
  <2>1. 1 \in 1..Len(raw) /\ m + 2 \in 1..Len(raw) /\ \A i \in 1..m : 1 + i \in 1..Len(raw)
    BY <1>1, <1>6
  <2>. QED  BY <1>1, <1>5, <1>6, <2>1
<1>9. Behind(1, out)
  BY <1>6, <1>8 DEF Behind, m
<1>10. IsUtf8(src)
  <2>1. SubSeq(src, 2, m + 1) = out
    <3>. DEFINE u == SubSeq(src, 2, m + 1)
    <3>1. u \in Seq(Byte) /\ Len(u) = m /\ \A i \in 1..m : u[i] = src[2 + i - 1]
      <4>1. /\ 2 \in 1..(Len(src) + 1) /\ m + 1 \in Nat /\ m + 1 <= Len(src)
            /\ 2 <= (m + 1) + 1 /\ (m + 1) - 2 + 1 = m
        BY <1>6, <1>8
      <4>. QED  BY <1>5, <4>1, RunIs
    <3>2. \A i \in 1..m : 2 + i - 1 = 1 + i
      BY <1>6
    <3>. HIDE DEF u
    <3>3. \A i \in 1..m : u[i] = out[i]
      BY <1>8, <3>1, <3>2
    <3>4. u = out
      BY <1>1, <3>1, <3>3, SeqEqual DEF m
    <3>. QED  BY <3>4 DEF u
  <2>2. ASSUME NEW i \in 1..Len(src), i < 2 \/ m + 1 < i
        PROVE  src[i] \notin DOMAIN Width /\ src[i] # "more" /\ src[i] # "bad"
    <3>1. i = 1 \/ i = m + 2 \/ i = m + 3
      BY <1>6, <1>8, <2>2
    <3>2. src[i] \in {Quote, NL, ":"}
      BY <1>8, <3>1
    <3>. QED  BY <3>2, PlainBytes
  <2>3. 2 \in Nat \ {0} /\ m + 1 \in Nat /\ 2 <= (m + 1) + 1 /\ m + 1 <= Len(src)
    BY <1>6, <1>8
  <2>. QED  BY <1>2, <1>5, <2>1, <2>2, <2>3, FramedUtf8
<1>11. ~ ThreeQuotes(At(1))
  <2>1. 1 \in Places
    BY <1>6, <1>8 DEF Places
  <2>2. ~ QuotesAt(src, 1)
    <3>1. SUFFICES ASSUME src[1 + 1] = Quote, src[1 + 2] = Quote PROVE FALSE
      BY DEF QuotesAt
    <3>2. CASE m = 0
      BY <1>3, <1>8, <3>1, <3>2
    <3>3. CASE m >= 1
      <4>1. src[1 + 1] = out[1]
        <5>1. 1 \in 1..m
          BY <1>6, <3>3
        <5>. QED  BY <1>8, <5>1
      <4>. QED  BY <1>2, <3>1, <3>3, <4>1 DEF m
    <3>. QED  BY <1>6, <3>2, <3>3
  <2>. QED  BY <1>5, <2>1, <2>2, ThreeIs
<1>12. Advance(At(1)) = At(2)
  <2>1. 1 \in 1..Len(src)
    BY <1>6, <1>8
  <2>. QED  BY <1>5, <2>1, AdvanceIs
<1>13. ScanString(At(2)) = [code |-> "none", at |-> At(Len(src))]
  <2>1. Len(src) = Len(out) + 3 /\ src[Len(src) - 1] = Quote
    BY <1>6, <1>8 DEF m
  <2>. QED  BY <1>5, <1>7, <1>9, <2>1, QuotedScans
<1>14. ReadsBack(text)
  <2>1. StringEnd(At(1)) = [code |-> "none", at |-> At(Len(src))]
    BY <1>11, <1>12, <1>13 DEF StringEnd
  <2>2. Unescape(SubSeq(src, 1, Len(src) - 1)) = text
    BY <1>2, <1>5
  <2>3. Len(src) >= 2 /\ src[1] = Quote
    BY <1>6, <1>8
  <2>. QED  BY <2>1, <2>2, <2>3 DEF ReadsBack
<1>. QED  BY <1>5, <1>10, <1>14

\* What is written between three quotes is UTF-8 and one string.
LEMMA MultilineReads ==
  ASSUME NEW text \in Seq(Byte), IsUtf8(text), text # <<>>, CanEmitMultiline(text),
         src = (TripleQuote \o text \o TripleQuote) \o <<NL>>
  PROVE  src \in Seq(Byte) /\ IsUtf8(src) /\ src[Len(src)] = NL /\ ReadsBack(text)
<1>. DEFINE n == Len(text)
<1>1. PICK q : q = TripleQuote
  OBVIOUS
<1>2. q \in Seq(Byte) /\ Len(q) = 3 /\ q[1] = Quote /\ q[2] = Quote /\ q[3] = Quote
  BY <1>1, Bytes DEF TripleQuote
<1>3. PICK begun, raw : begun = q \o text /\ raw = begun \o q /\ src = raw \o <<NL>>
  BY <1>1
<1>4. /\ raw \in Seq(Byte) /\ Len(raw) = Len(q) + n + Len(q)
      /\ \A i \in 1..Len(q) : raw[i] = q[i] /\ raw[Len(q) + n + i] = q[i]
      /\ \A i \in 1..n : raw[Len(q) + i] = text[i]
      /\ SubSeq(raw, Len(q) + 1, Len(raw) - Len(q)) = text
  <2>1. q \in Seq(Byte)
    BY <1>2
  <2>. QED  BY <1>3, <2>1, Between
<1>5. n \in Nat /\ n >= 1 /\ \A i \in 1..3 : q[i] = Quote
  <2>1. \A i \in 1..3 : i = 1 \/ i = 2 \/ i = 3
    OBVIOUS
  <2>. QED  BY <1>2, <2>1, EmptySeq
<1>6. /\ raw \in Seq(Byte) /\ Len(raw) = n + 6
      /\ \A i \in 1..3 : raw[i] = Quote /\ raw[n + 3 + i] = Quote
      /\ \A i \in 1..n : raw[3 + i] = text[i]
      /\ SubSeq(raw, 4, Len(raw) - 3) = text
  <2>1. Len(q) + n + Len(q) = n + 6 /\ Len(q) + n = n + 3 /\ Len(q) + 1 = 4
    BY <1>2, <1>5
  <2>. QED  BY <1>2, <1>4, <1>5, <2>1
<1>7. /\ src \in Seq(Byte) /\ Len(src) = Len(raw) + 1 /\ src[Len(src)] = NL
      /\ \A i \in 1..Len(raw) : src[i] = raw[i]
      /\ SubSeq(src, 1, Len(src) - 1) = raw
  BY <1>3, <1>6, Bytes, OneMore
<1>. HIDE DEF n
<1>8. /\ Len(src) = n + 7 /\ src[n + 7] = NL
      /\ \A i \in 1..3 : src[i] = Quote /\ src[n + 3 + i] = Quote
      /\ \A i \in 1..n : src[3 + i] = text[i]
  <2>1. /\ \A i \in 1..3 : i \in 1..Len(raw) /\ n + 3 + i \in 1..Len(raw)
        /\ \A i \in 1..n : 3 + i \in 1..Len(raw)
    BY <1>5, <1>6
  <2>. QED  BY <1>5, <1>6, <1>7, <2>1
<1>9. src[1] = Quote /\ src[2] = Quote /\ src[3] = Quote
  <2>1. \A i \in 1..3 : src[i] = Quote
    BY <1>8
  <2>2. 1 \in 1..3 /\ 2 \in 1..3 /\ 3 \in 1..3
    OBVIOUS
  <2>. QED  BY ONLY <2>1, <2>2
<1>10. IsUtf8(src)
  <2>1. SubSeq(src, 4, n + 3) = text
    <3>. DEFINE u == SubSeq(src, 4, n + 3)
    <3>1. u \in Seq(Byte) /\ Len(u) = n /\ \A i \in 1..n : u[i] = src[4 + i - 1]
      <4>1. PICK z : z = n + 3
        OBVIOUS
      <4>2. /\ 4 \in 1..(Len(src) + 1) /\ z \in Nat /\ z <= Len(src) /\ 4 <= z + 1
            /\ z - 4 + 1 = n
        BY <1>5, <1>8, <4>1
      <4>3. src \in Seq(Byte)
        BY <1>7
      <4>4. /\ SubSeq(src, 4, z) \in Seq(Byte) /\ Len(SubSeq(src, 4, z)) = z - 4 + 1
            /\ \A i \in 1..(z - 4 + 1) : SubSeq(src, 4, z)[i] = src[4 + i - 1]
        BY ONLY <4>2, <4>3, RunIs
      <4>. QED  BY ONLY <4>1, <4>2, <4>4 DEF u
    <3>2. \A i \in 1..n : 4 + i - 1 = 3 + i
      BY <1>5
    <3>. HIDE DEF u
    <3>3. \A i \in 1..n : u[i] = text[i]
      BY <1>8, <3>1, <3>2
    <3>4. u = text
      BY <3>1, <3>3, SeqEqual DEF n
    <3>. QED  BY <3>4 DEF u
  <2>2. ASSUME NEW i \in 1..Len(src), i < 4 \/ n + 3 < i
        PROVE  src[i] \notin DOMAIN Width /\ src[i] # "more" /\ src[i] # "bad"
    <3>1. \/ i \in 1..3
          \/ i - (n + 3) \in 1..3 /\ n + 3 + (i - (n + 3)) = i
          \/ i = n + 7
      BY <1>5, <1>8, <2>2
    <3>2. src[i] \in {Quote, NL}
      BY <1>8, <3>1
    <3>. QED  BY <3>2, PlainBytes
  <2>3. 4 \in Nat \ {0} /\ n + 3 \in Nat /\ 4 <= (n + 3) + 1 /\ n + 3 <= Len(src)
    BY <1>5, <1>8
  <2>. QED  BY <1>7, <2>1, <2>2, <2>3, FramedUtf8
<1>11. ThreeQuotes(At(1))
  <2>1. 1 \in Places /\ 1 + 2 <= Len(src) /\ 1 + 1 = 2 /\ 1 + 2 = 3
    BY <1>5, <1>8 DEF Places
  <2>2. QuotesAt(src, 1)
    BY <1>9, <2>1 DEF QuotesAt
  <2>. QED  BY <1>7, <2>1, <2>2, ThreeIs
<1>12. Advanced(At(1), 3) = At(4)
  <2>1. 1 \in Places /\ 1 + 3 \in Places /\ 1 + 3 = 4 /\ 3 \in Nat
    BY <1>5, <1>8 DEF Places
  <2>2. Advanced(At(1), 3) = At(1 + 3)
    BY <1>7, <2>1, AdvancedIs, Zenon
  <2>. QED  BY ONLY <2>1, <2>2
<1>13. ScanMultiline(At(4)) = [code |-> "none", at |-> At(Len(src))]
  <2>1. Behind(3, text)
    BY <1>5, <1>8 DEF Behind, n
  <2>2. ASSUME NEW i \in 4..6 PROVE src[Len(text) + i] = Quote
    <3>1. i - 3 \in 1..3 /\ n + 3 + (i - 3) = n + i
      BY <1>5
    <3>. QED  BY <1>8, <3>1 DEF n
  <2>3. Len(src) = Len(text) + 7
    BY <1>8 DEF n
  <2>. QED  BY <1>7, <2>1, <2>2, <2>3, MultilineScans
<1>14. Unescape(raw) = text
  <2>1. IsQuoted(raw)
    <3>1. raw[1] = Quote /\ raw[n + 3 + 3] = Quote /\ n + 3 + 3 = Len(raw) /\ Len(raw) >= 2
      BY <1>5, <1>6
    <3>. QED  BY <3>1 DEF IsQuoted, Last
  <2>2. IsVerbatim(raw)
    <3>1. /\ 1 \in 1..Len(raw) /\ 1 + 2 <= Len(raw) /\ 1 + 1 = 2 /\ 1 + 2 = 3
          /\ n + 4 \in 1..Len(raw) /\ (n + 4) + 2 <= Len(raw)
          /\ Len(raw) - 2 = n + 4 /\ (n + 4) + 2 = Len(raw) /\ Len(raw) >= 6
          /\ n + 3 + 1 = n + 4 /\ n + 3 + 2 = (n + 4) + 1 /\ n + 3 + 3 = (n + 4) + 2
      BY <1>5, <1>6
    <3>2. raw[1] = Quote /\ raw[2] = Quote /\ raw[3] = Quote
      BY <1>6
    <3>3. raw[n + 3 + 1] = Quote /\ raw[n + 3 + 2] = Quote /\ raw[n + 3 + 3] = Quote
      BY <1>6
    <3>4. QuotesAt(raw, 1) /\ QuotesAt(raw, n + 4)
      BY <3>1, <3>2, <3>3 DEF QuotesAt
    <3>5. SubSeq(raw, 1, 1 + 2) = TripleQuote
      BY <1>6, <3>1, <3>4, ThreeOf
    <3>6. SubSeq(raw, n + 4, (n + 4) + 2) = TripleQuote
      BY <1>6, <3>1, <3>4, ThreeOf
    <3>. QED  BY <3>1, <3>5, <3>6 DEF IsVerbatim
  <2>. QED  BY <1>6, <2>1, <2>2 DEF Unescape
<1>15. ReadsBack(text)
  <2>1. StringEnd(At(1)) = [code |-> "none", at |-> At(Len(src))]
    BY <1>11, <1>12, <1>13 DEF StringEnd
  <2>2. Unescape(SubSeq(src, 1, Len(src) - 1)) = text
    BY <1>7, <1>14
  <2>3. Len(src) >= 2
    BY <1>5, <1>8
  <2>. QED  BY <1>9, <2>1, <2>2, <2>3 DEF ReadsBack
<1>. QED  BY <1>7, <1>10, <1>15

\* A name that is written bare is UTF-8 and one name.
NamesBare(text) ==
  /\ Len(src) >= 2 /\ src[1] \in IdentStart
  /\ \A i \in 1..(Len(src) - 1) : src[i] \in IdentChar
  /\ SubSeq(src, 1, Len(src) - 1) = text /\ text \notin Reserved /\ Unescape(text) = text

\* An identifier does.
LEMMA BareReads ==
  ASSUME NEW text \in Seq(Byte), IsIdentifier(text), src = text \o <<":">>
  PROVE  src \in Seq(Byte) /\ IsUtf8(src) /\ src[Len(src)] = ":" /\ NamesBare(text)
<1>1. ":" \in Byte
  BY DEF Byte, Punctuators
<1>2. /\ src \in Seq(Byte) /\ Len(src) = Len(text) + 1 /\ src[Len(src)] = ":"
      /\ \A i \in 1..Len(text) : src[i] = text[i]
      /\ SubSeq(src, 1, Len(src) - 1) = text
  BY <1>1, OneMore
<1>3. /\ Len(text) \in Nat /\ Len(text) >= 1 /\ text[1] \in IdentStart /\ text \notin Reserved
      /\ \A i \in 1..Len(text) : text[i] \in IdentChar
  BY EmptySeq DEF IsIdentifier
<1>4. IsUtf8(src)
  <2>1. ASSUME NEW i \in 1..Len(src) PROVE InPlace(src, 1, Len(src), i)
    <3>1. i \in 1..Len(text) \/ i = Len(src)
      BY <1>2, <1>3
    <3>2. src[i] \in IdentChar \cup {":"}
      BY <1>2, <1>3, <3>1
    <3>3. \A c \in IdentChar \cup {":"} : c \notin DOMAIN Width /\ c # "more" /\ c # "bad"
      BY DEF IdentChar, IdentStart, Digit, Width
    <3>. QED  BY <3>2, <3>3 DEF InPlace
  <2>. QED  BY <1>2, <2>1, Utf8Is DEF Utf8On
<1>5. Unescape(text) = text
  <2>1. Quote \notin IdentStart
    BY DEF Quote, IdentStart
  <2>2. ~ IsQuoted(text)
    BY <1>3, <2>1 DEF IsQuoted
  <2>. QED  BY <2>2 DEF Unescape
<1>6. Len(src) >= 2 /\ src[1] \in IdentStart /\ \A i \in 1..(Len(src) - 1) : src[i] \in IdentChar
  BY <1>2, <1>3
<1>. QED  BY <1>2, <1>3, <1>4, <1>5, <1>6 DEF NamesBare

\* A comment is a sign and the rest of its line.
CommentStands(text) ==
  /\ Len(src) >= 2 /\ src[1] = "#" /\ \A i \in 1..(Len(src) - 1) : src[i] # NL
  /\ SubSeq(src, 1, Len(src) - 1) = text

\* A comment that is written is.
LEMMA CommentReads ==
  ASSUME NEW text \in Seq(Byte), IsUtf8(text), text # <<>>, text[1] = "#",
         ~ Contains(text, NL), src = text \o <<NL>>
  PROVE  src \in Seq(Byte) /\ IsUtf8(src) /\ src[Len(src)] = NL /\ CommentStands(text)
<1>1. /\ src \in Seq(Byte) /\ Len(src) = Len(text) + 1 /\ src[Len(src)] = NL
      /\ \A i \in 1..Len(text) : src[i] = text[i]
      /\ SubSeq(src, 1, Len(src) - 1) = text
  BY Bytes, OneMore
<1>2. Len(text) \in Nat /\ Len(text) >= 1 /\ \A i \in 1..Len(text) : text[i] # NL
  BY EmptySeq DEF Contains
<1>3. IsUtf8(src)
  <2>1. ASSUME NEW i \in 1..Len(src), i < 1 \/ Len(text) < i
        PROVE  src[i] \notin DOMAIN Width /\ src[i] # "more" /\ src[i] # "bad"
    <3>1. i = Len(src)
      BY <1>1, <1>2, <2>1
    <3>. QED  BY <1>1, <3>1, PlainBytes
  <2>2. /\ 1 \in Nat \ {0} /\ 1 <= Len(text) + 1 /\ Len(text) <= Len(src)
        /\ SubSeq(src, 1, Len(text)) = text
    <3>1. Len(src) - 1 = Len(text)
      BY <1>1, <1>2
    <3>. QED  BY <1>1, <1>2, <3>1
  <2>. QED  BY <1>1, <1>2, <2>1, <2>2, FramedUtf8
<1>4. Len(src) >= 2 /\ src[1] = "#" /\ \A i \in 1..(Len(src) - 1) : src[i] # NL
  BY <1>1, <1>2
<1>. QED  BY <1>1, <1>3, <1>4 DEF CommentStands

\* What is written for a string is UTF-8, one string and the end of its line.
LEMMA StringReads ==
  ASSUME NEW text \in Seq(Byte), IsUtf8(text), src = WriteString(text) \o <<NL>>
  PROVE  src \in Seq(Byte) /\ IsUtf8(src) /\ src[Len(src)] = NL /\ ReadsBack(text)
<1>1. CASE Contains(text, NL) /\ CanEmitMultiline(text)
  <2>1. text # <<>>
    <3>1. SUFFICES ASSUME text = <<>> PROVE FALSE
      OBVIOUS
    <3>2. Len(text) = 0
      BY <3>1
    <3>. QED  BY <1>1, <3>2 DEF Contains
  <2>2. src = (TripleQuote \o text \o TripleQuote) \o <<NL>>
    BY <1>1 DEF WriteString
  <2>. QED  BY <1>1, <2>1, <2>2, MultilineReads
<1>2. CASE ~ (Contains(text, NL) /\ CanEmitMultiline(text))
  <2>1. src = WriteQuoted(text) \o <<NL>>
    BY <1>2 DEF WriteString
  <2>2. NL \in {NL, ":"}
    OBVIOUS
  <2>. QED  BY <2>1, <2>2, QuotedReads
<1>. QED  BY <1>1, <1>2

\* The source is what the emitter writes for the text that is meant: a string or a key
\* that is read again as itself, or a comment.
Stands ==
  /\ src \in Seq(Byte) /\ IsUtf8(src) /\ Len(src) >= 2
  /\ \/ meant.kind = "string" /\ src[Len(src)] = NL /\ ReadsBack(meant.text)
     \/ /\ meant.kind = "key" /\ src[Len(src)] = ":"
        /\ \/ ReadsBack(meant.text)
           \/ NamesBare(meant.text) /\ ~ (meant.depth = 0 /\ meant.text \in Directives)
     \/ meant.kind = "comment" /\ src[Len(src)] = NL /\ CommentStands(meant.text)

\* At first the source stands for what is meant, if anything is.
LEMMA InitStands ==
  ASSUME Init, meant # Nothing
  PROVE  Stands
<1>1. CASE \E text \in Strings : /\ src = WriteString(text) \o <<NL>>
                                 /\ meant = [kind |-> "string", text |-> text]
  <2>1. PICK text \in Strings : /\ src = WriteString(text) \o <<NL>>
                                /\ meant = [kind |-> "string", text |-> text]
    BY <1>1
  <2>2. text \in Seq(Byte) /\ IsUtf8(text)
    BY TextsAssumption
  <2>3. src \in Seq(Byte) /\ IsUtf8(src) /\ src[Len(src)] = NL /\ ReadsBack(text)
    BY <2>1, <2>2, StringReads
  <2>4. Len(src) >= 2
    BY <2>3 DEF ReadsBack
  <2>. QED  BY <2>1, <2>3, <2>4 DEF Stands
<1>2. CASE \E key \in Strings, depth \in {0, 1} :
             /\ src = WriteKey(key, depth) \o <<":">>
             /\ meant = [kind |-> "key", text |-> key, depth |-> depth]
  <2>1. PICK key \in Strings, depth \in {0, 1} :
             /\ src = WriteKey(key, depth) \o <<":">>
             /\ meant = [kind |-> "key", text |-> key, depth |-> depth]
    BY <1>2
  <2>2. key \in Seq(Byte) /\ IsUtf8(key)
    BY TextsAssumption
  <2>3. CASE IsIdentifier(key) /\ (depth > 0 \/ key \notin Directives)
    <3>1. src = key \o <<":">>
      BY <2>1, <2>3 DEF WriteKey
    <3>2. src \in Seq(Byte) /\ IsUtf8(src) /\ src[Len(src)] = ":" /\ NamesBare(key)
      BY <2>2, <2>3, <3>1, BareReads
    <3>3. Len(src) >= 2
      BY <3>2 DEF NamesBare
    <3>4. ~ (meant.depth = 0 /\ meant.text \in Directives)
      BY <2>1, <2>3
    <3>. QED  BY <2>1, <3>2, <3>3, <3>4 DEF Stands
  <2>4. CASE ~ (IsIdentifier(key) /\ (depth > 0 \/ key \notin Directives))
    <3>1. src = WriteQuoted(key) \o <<":">>
      BY <2>1, <2>4 DEF WriteKey
    <3>2. ":" \in {NL, ":"}
      OBVIOUS
    <3>3. src \in Seq(Byte) /\ IsUtf8(src) /\ src[Len(src)] = ":" /\ ReadsBack(key)
      BY <2>2, <3>1, <3>2, QuotedReads
    <3>4. Len(src) >= 2
      BY <3>3 DEF ReadsBack
    <3>. QED  BY <2>1, <3>3, <3>4 DEF Stands
  <2>. QED  BY <2>3, <2>4
<1>3. CASE \E text \in CommentTexts : /\ src = text \o <<NL>>
                                      /\ meant = [kind |-> "comment", text |-> text]
  <2>1. PICK text \in CommentTexts : /\ src = text \o <<NL>>
                                     /\ meant = [kind |-> "comment", text |-> text]
    BY <1>3
  <2>2. /\ text \in Seq(Byte) /\ IsUtf8(text) /\ text # <<>> /\ text[1] = "#"
        /\ ~ Contains(text, NL)
    BY TextsAssumption
  <2>3. src \in Seq(Byte) /\ IsUtf8(src) /\ src[Len(src)] = NL /\ CommentStands(text)
    BY <2>1, <2>2, CommentReads
  <2>4. Len(src) >= 2
    BY <2>3 DEF CommentStands
  <2>. QED  BY <2>1, <2>3, <2>4 DEF Stands
<1>. QED  BY <1>1, <1>2, <1>3 DEF Init

-----------------------------------------------------------------------------
(* What is written is read *)

\* Where no space stands, the next token begins there.
LEMMA BeginsHere ==
  ASSUME src \in Seq(Byte), NEW p \in Places, cursor = At(p), p <= Len(src) => src[p] \notin Spaces
  PROVE  Begin = At(p)
<1>1. PICK q \in Places : /\ AdvanceWhile(At(p), Spaces) = At(q) /\ p <= q
                          /\ \A i \in p..(q - 1) : src[i] \in Spaces
  BY AdvanceWhileIs
<1>2. p \in Int /\ q \in Int /\ Len(src) \in Nat /\ q <= Len(src) + 1
  BY DEF Places
<1>3. ASSUME p < q PROVE FALSE
  <2>1. p \in p..(q - 1) /\ p <= Len(src)
    BY <1>2, <1>3
  <2>. QED  BY <1>1, <2>1
<1>4. p = q
  BY <1>1, <1>2, <1>3
<1>. QED  BY <1>1, <1>4 DEF Begin

\* Before the last line end there is only the end.
LEMMA BeginsAtEnd ==
  ASSUME src \in Seq(Byte), Len(src) >= 1, src[Len(src)] = NL, cursor = At(Len(src))
  PROVE  Begin = At(Len(src) + 1)
<1>1. Len(src) \in Places /\ Len(src) \in Nat /\ NL \in Spaces
  BY DEF Places, Spaces
<1>2. PICK q \in Places : /\ AdvanceWhile(At(Len(src)), Spaces) = At(q) /\ Len(src) <= q
                          /\ q <= Len(src) => src[q] \notin Spaces
  BY <1>1, AdvanceWhileIs
<1>3. q \in Int /\ q <= Len(src) + 1
  BY <1>1 DEF Places
<1>4. q # Len(src)
  BY <1>1, <1>2
<1>5. q = Len(src) + 1
  BY <1>1, <1>2, <1>3, <1>4
<1>. QED  BY <1>2, <1>5 DEF Begin

\* No byte is of two kinds, and none of a space.
LEMMA KindsApart ==
  /\ {"end"} \cap (Punctuators \cup {"#", Quote, "-"} \cup Digit \cup IdentStart \cup Strange) = {}
  /\ Punctuators \cap ({"#", Quote, "-"} \cup Digit \cup IdentStart \cup Strange) = {}
  /\ {"#"} \cap ({Quote, "-"} \cup Digit \cup IdentStart \cup Strange) = {}
  /\ {Quote} \cap ({"-"} \cup Digit \cup IdentStart \cup Strange) = {}
  /\ IdentStart \cap ({"-"} \cup Digit \cup Strange) = {}
  /\ Spaces \cap ({"#", Quote} \cup IdentStart \cup Punctuators) = {}
BY DEF Quote, Backslash, Digit, IdentStart, Punctuators, Strange, Width, Spaces, NL, CR, Tab, Space

\* The byte the next token begins with tells which it is.
LEMMA KindTells ==
  ASSUME src \in Seq(Byte), NEW b \in Places, Begin = At(b), Lex
  PROVE  /\ Peek(Begin) = "end" => EndOfFile
         /\ Peek(Begin) \in Punctuators => Punctuation
         /\ Peek(Begin) = "#" => LexComment
         /\ Peek(Begin) = Quote => LexString
         /\ Peek(Begin) \in IdentStart => LexIdent
<1>. DEFINE c == Peek(Begin)
<1>1. CASE EndOfFile
  <2>1. c = "end"
    BY <1>1 DEF EndOfFile, Peek
  <2>. QED  BY <1>1, <2>1, KindsApart
<1>2. CASE Punctuation
  <2>1. c \in Punctuators
    BY <1>2 DEF Punctuation
  <2>. HIDE DEF c
  <2>2. c # "end" /\ c # "#" /\ c # Quote /\ c \notin IdentStart
    BY <2>1, KindsApart
  <2>. QED  BY <1>2, <2>2 DEF c
<1>3. CASE LexComment
  <2>1. c = "#"
    BY <1>3 DEF LexComment
  <2>. HIDE DEF c
  <2>2. c # "end" /\ c \notin Punctuators /\ c # Quote /\ c \notin IdentStart
    BY <2>1, KindsApart
  <2>. QED  BY <1>3, <2>2 DEF c
<1>4. CASE LexString
  <2>1. c = Quote
    BY <1>4 DEF LexString
  <2>. HIDE DEF c
  <2>2. c # "end" /\ c \notin Punctuators /\ c # "#" /\ c \notin IdentStart
    BY <2>1, KindsApart
  <2>. QED  BY <1>4, <2>2 DEF c
<1>5. CASE LexNumber
  <2>1. c \in Digit \cup {"-"}
    BY <1>5 DEF LexNumber
  <2>. HIDE DEF c
  <2>2. c # "end" /\ c \notin Punctuators /\ c # "#" /\ c # Quote /\ c \notin IdentStart
    BY <2>1, KindsApart
  <2>. QED  BY <2>2 DEF c
<1>6. CASE LexIdent
  <2>1. c \in IdentStart
    BY <1>6 DEF LexIdent
  <2>. HIDE DEF c
  <2>2. c # "end" /\ c \notin Punctuators /\ c # "#" /\ c # Quote
    BY <2>1, KindsApart
  <2>. QED  BY <1>6, <2>2 DEF c
<1>7. CASE Unexpected
  <2>1. c \in Strange
    BY <1>7 DEF Unexpected
  <2>. HIDE DEF c
  <2>2. c # "end" /\ c \notin Punctuators /\ c # "#" /\ c # Quote /\ c \notin IdentStart
    BY <2>1, KindsApart
  <2>. QED  BY <2>2 DEF c
<1>. QED  BY <1>1, <1>2, <1>3, <1>4, <1>5, <1>6, <1>7 DEF Lex

\* The first token of what is written: it is what is meant.
First(token) ==
  /\ token.tag # "eof"
  /\ (meant.kind = "comment" /\ Last(meant.text) = CR) \/ Reads(token, meant)

\* A token to the last byte, which is the first of all.
Hands(token, to) ==
  /\ tokens' = Append(tokens, token) /\ cursor' = At(to)
  /\ UNCHANGED <<src, meant, failure>>

\* What is handed out has a kind and a text.
LEMMA EmitHands ==
  ASSUME NEW tag, NEW text, NEW to, Emit(tag, At(to), text)
  PROVE  \E token : Hands(token, to) /\ token.tag = tag /\ token.text = text
<1>. DEFINE token == [tag |-> tag, line |-> Begin.line, col |-> Begin.col,
                      from |-> Begin.pos, to |-> At(to).pos, text |-> text]
<1>1. token.tag = tag /\ token.text = text
  OBVIOUS
<1>2. tokens' = Append(tokens, token) /\ cursor' = At(to) /\ UNCHANGED <<src, meant, failure>>
  BY DEF Emit
<1>. HIDE DEF token
<1>. QED  BY <1>1, <1>2 DEF Hands

\* A string that reads back is one token.
LEMMA StringFirst ==
  ASSUME src \in Seq(Byte), cursor = At(1), Lex, NEW text, ReadsBack(text)
  PROVE  \E token : Hands(token, Len(src)) /\ token.tag = "string" /\ Unescape(token.text) = text
<1>1. /\ Len(src) \in Nat /\ Len(src) >= 2 /\ 1 \in Places /\ Len(src) \in Places
      /\ src[1] = Quote
  BY DEF ReadsBack, Places
<1>2. Begin = At(1)
  BY <1>1, BeginsHere, KindsApart
<1>3. Peek(Begin) = Quote
  BY <1>1, <1>2, PeekAt
<1>4. LexString
  BY <1>1, <1>2, <1>3, KindTells
<1>5. StringEnd(Begin) = [code |-> "none", at |-> At(Len(src))]
  BY <1>2 DEF ReadsBack
<1>6. Emit("string", At(Len(src)), Text(Begin, At(Len(src))))
  BY <1>4, <1>5 DEF LexString, StringEnd
<1>7. Text(Begin, At(Len(src))) = SubSeq(src, 1, Len(src) - 1)
  BY <1>1, <1>2, AtTyped DEF Text
<1>. QED  BY <1>6, <1>7, EmitHands DEF ReadsBack

\* A name that is written bare is.
LEMMA NameFirst ==
  ASSUME src \in Seq(Byte), cursor = At(1), Lex, NEW text, NamesBare(text), src[Len(src)] = ":"
  PROVE  \E token : Hands(token, Len(src)) /\ token.tag = "ident" /\ token.text = text
<1>1. /\ Len(src) \in Nat /\ Len(src) >= 2 /\ 1 \in Places /\ Len(src) \in Places
      /\ src[1] \in IdentStart
  BY DEF NamesBare, Places
<1>2. Begin = At(1)
  BY <1>1, BeginsHere, KindsApart
<1>3. Peek(Begin) \in IdentStart
  BY <1>1, <1>2, PeekAt
<1>4. LexIdent
  BY <1>1, <1>2, <1>3, KindTells
<1>5. PICK q \in Places : /\ AdvanceWhile(At(1), IdentChar) = At(q) /\ 1 <= q
                          /\ \A i \in 1..(q - 1) : src[i] \in IdentChar
                          /\ q <= Len(src) => src[q] \notin IdentChar
  BY <1>1, AdvanceWhileIs
<1>6. q = Len(src)
  <2>1. q \in Int /\ q <= Len(src) + 1
    BY <1>1 DEF Places
  <2>2. ":" \notin IdentChar
    BY DEF IdentChar, IdentStart, Digit
  <2>3. ASSUME q < Len(src) PROVE FALSE
    <3>1. q \in 1..(Len(src) - 1) /\ q <= Len(src)
      BY <1>1, <1>5, <2>1, <2>3
    <3>2. \A i \in 1..(Len(src) - 1) : src[i] \in IdentChar
      BY DEF NamesBare
    <3>. QED  BY <1>5, <3>1, <3>2
  <2>4. ASSUME q = Len(src) + 1 PROVE FALSE
    <3>1. Len(src) \in 1..(q - 1)
      BY <1>1, <2>4
    <3>. QED  BY <1>5, <2>2, <3>1
  <2>. QED  BY <1>1, <2>1, <2>3, <2>4
<1>7. AdvanceWhile(Begin, IdentChar) = At(Len(src))
  BY <1>2, <1>5, <1>6
<1>8. Text(Begin, At(Len(src))) = text
  <2>1. Text(Begin, At(Len(src))) = SubSeq(src, 1, Len(src) - 1)
    BY <1>1, <1>2, AtTyped DEF Text
  <2>. QED  BY <2>1 DEF NamesBare
<1>9. Emit("ident", At(Len(src)), text)
  <2>1. text \notin Reserved
    BY DEF NamesBare
  <2>. QED  BY <1>4, <1>7, <1>8, <2>1 DEF LexIdent
<1>. QED  BY <1>9, EmitHands

\* A comment is, but for a carriage return.
LEMMA CommentFirst ==
  ASSUME src \in Seq(Byte), cursor = At(1), Lex, NEW text, CommentStands(text),
         src[Len(src)] = NL
  PROVE  \E token : /\ Hands(token, Len(src)) /\ token.tag = "comment"
                    /\ Last(text) = CR \/ token.text = text
<1>1. /\ Len(src) \in Nat /\ Len(src) >= 2 /\ 1 \in Places /\ Len(src) \in Places
      /\ src[1] = "#"
  BY DEF CommentStands, Places
<1>2. Begin = At(1)
  BY <1>1, BeginsHere, KindsApart
<1>3. Peek(Begin) = "#"
  BY <1>1, <1>2, PeekAt
<1>4. LexComment
  BY <1>1, <1>2, <1>3, KindTells
<1>. DEFINE class == Byte \ {NL}
<1>5. PICK q \in Places : /\ RunEnd(At(1), class) = q /\ 1 <= q
                          /\ \A i \in 1..(q - 1) : src[i] \in class
                          /\ q <= Len(src) => src[q] \notin class
  <2>. HIDE DEF class
  <2>. QED  BY <1>1, RunEndIs
<1>6. q = Len(src)
  <2>1. q \in Int /\ q <= Len(src) + 1
    BY <1>1 DEF Places
  <2>3. ASSUME q < Len(src) PROVE FALSE
    <3>1. q \in 1..(Len(src) - 1) /\ q \in 1..Len(src)
      BY <1>1, <1>5, <2>1, <2>3
    <3>2. src[q] # NL /\ src[q] \in Byte
      BY <3>1 DEF CommentStands
    <3>3. q <= Len(src) /\ src[q] \in class
      BY <1>1, <2>1, <2>3, <3>2
    <3>. QED  BY <1>5, <3>3
  <2>4. ASSUME q = Len(src) + 1 PROVE FALSE
    <3>1. Len(src) \in 1..(q - 1)
      BY <1>1, <2>4
    <3>. QED  BY <1>5, <3>1
  <2>. QED  BY <1>1, <2>1, <2>3, <2>4
<1>7. Jump(Begin, RunEnd(Begin, class) - Begin.pos) = At(Len(src))
  <2>1. Begin.pos = 1 /\ RunEnd(Begin, class) = Len(src) /\ 1 <= Len(src)
    BY <1>1, <1>2, <1>5, <1>6, AtTyped
  <2>2. \A i \in 1..(Len(src) - 1) : src[i] # NL
    BY DEF CommentStands
  <2>3. Jump(At(1), Len(src) - 1) = At(Len(src))
    BY <1>1, <2>1, <2>2, JumpIs
  <2>. QED  BY <1>2, <2>1, <2>3
<1>8. Emit("comment", At(Len(src)), CommentText(At(Len(src))))
  BY <1>4, <1>7 DEF LexComment
<1>9. SubSeq(src, 1, Len(src) - 1) = text
  BY DEF CommentStands
<1>10. Last(text) = src[Len(src) - 1]
  <2>1. 1 \in 1..Len(src) /\ 1 < Len(src)
    BY <1>1
  <2>. QED  BY <1>1, <1>9, <2>1, RawIs
<1>11. Last(text) = CR \/ CommentText(At(Len(src))) = text
  <2>1. Text(Begin, At(Len(src))) = text
    BY <1>1, <1>2, <1>9, AtTyped DEF Text
  <2>2. At(Len(src)).pos = Len(src)
    BY <1>1, AtTyped
  <2>. QED  BY <1>10, <2>1, <2>2 DEF CommentText
<1>. QED  BY <1>8, <1>11, EmitHands

\* The first token is what is meant.
LEMMA FirstRead ==
  ASSUME Stands, cursor = At(1), Lex
  PROVE  \E token : Hands(token, Len(src)) /\ First(token)
<1>1. src \in Seq(Byte)
  BY DEF Stands
<1>2. CASE meant.kind \in {"string", "key"} /\ ReadsBack(meant.text)
  <2>1. PICK token : /\ Hands(token, Len(src)) /\ token.tag = "string"
                     /\ Unescape(token.text) = meant.text
    BY <1>1, <1>2, StringFirst
  <2>2. First(token)
    BY <1>2, <2>1 DEF First, Reads
  <2>. QED  BY <2>1, <2>2
<1>3. CASE /\ meant.kind = "key" /\ src[Len(src)] = ":" /\ NamesBare(meant.text)
           /\ ~ (meant.depth = 0 /\ meant.text \in Directives)
  <2>1. PICK token : Hands(token, Len(src)) /\ token.tag = "ident" /\ token.text = meant.text
    BY <1>1, <1>3, NameFirst
  <2>2. Unescape(meant.text) = meant.text
    BY <1>3 DEF NamesBare
  <2>3. First(token)
    BY <1>3, <2>1, <2>2 DEF First, Reads
  <2>. QED  BY <2>1, <2>3
<1>4. CASE meant.kind = "comment" /\ src[Len(src)] = NL /\ CommentStands(meant.text)
  <2>1. PICK token : /\ Hands(token, Len(src)) /\ token.tag = "comment"
                     /\ Last(meant.text) = CR \/ token.text = meant.text
    BY <1>1, <1>4, CommentFirst
  <2>2. First(token)
    BY <1>4, <2>1 DEF First, Reads
  <2>. QED  BY <2>1, <2>2
<1>. QED  BY <1>2, <1>3, <1>4 DEF Stands

\* At the end there is only the end to read.
LEMMA EndRead ==
  ASSUME src \in Seq(Byte), Begin = At(Len(src) + 1), Lex
  PROVE  \E token : Hands(token, Len(src) + 1) /\ token.tag = "eof"
<1>1. Len(src) + 1 \in Places /\ Len(src) \in Nat
  BY DEF Places
<1>2. Peek(Begin) = "end"
  BY <1>1, PeekAt
<1>3. EndOfFile
  BY <1>1, <1>2, KindTells
<1>. QED  BY <1>3, EmitHands DEF EndOfFile

\* Behind a key there is the colon.
LEMMA ColonRead ==
  ASSUME src \in Seq(Byte), Len(src) >= 1, src[Len(src)] = ":", cursor = At(Len(src)), Lex
  PROVE  \E token : Hands(token, Len(src) + 1) /\ token.tag = ":"
<1>1. Len(src) \in Places /\ Len(src) \in 1..Len(src) /\ ":" \in Punctuators
  BY DEF Places, Punctuators
<1>2. Begin = At(Len(src))
  BY <1>1, BeginsHere, KindsApart
<1>3. Peek(Begin) = ":"
  BY <1>1, <1>2, PeekAt
<1>4. Punctuation
  BY <1>1, <1>2, <1>3, KindTells
<1>5. Advance(Begin) = At(Len(src) + 1)
  BY <1>1, <1>2, AdvanceIs
<1>. QED  BY <1>3, <1>4, <1>5, EmitHands DEF Punctuation

\* Nothing is read yet, or what is meant, or the colon behind it, or all.
Unread == tokens = <<>> /\ (cursor.pos = 0 \/ cursor = At(1))

ReadOne == Len(tokens) = 1 /\ First(tokens[1]) /\ cursor = At(Len(src))

ReadKey ==
  /\ meant.kind = "key" /\ cursor = At(Len(src) + 1)
  /\ Len(tokens) = 2 /\ First(tokens[1]) /\ tokens[2].tag = ":"

ReadAll ==
  /\ cursor = At(Len(src) + 1)
  /\ Len(tokens) = Written(meant) /\ First(tokens[1]) /\ Last(tokens).tag = "eof"

\* How far the lexer is in what was written, and that nothing has failed.
WInv ==
  meant # Nothing =>
    Stands /\ failure = None /\ (Unread \/ ReadOne \/ ReadKey \/ ReadAll)

\* One more token.
LEMMA HandsIs ==
  ASSUME IsSeq(tokens), NEW token, NEW to, Hands(token, to)
  PROVE  /\ Len(tokens') = Len(tokens) + 1 /\ tokens'[Len(tokens) + 1] = token
         /\ Len(tokens) \in Nat /\ \A i \in 1..Len(tokens) : tokens'[i] = tokens[i]
BY SeqAppend, SeqLen DEF Hands

\* What stands is not touched.
LEMMA SameStands ==
  ASSUME UNCHANGED <<src, meant>>
  PROVE  /\ Stands' <=> Stands
         /\ \A p : At(p)' = At(p)
         /\ \A token : First(token)' <=> First(token)
<1>1. src' = src /\ meant' = meant
  OBVIOUS
<1>2. \A p : At(p)' = At(p)
  BY <1>1 DEF At
<1>3. \A token : First(token)' <=> First(token)
  BY <1>1 DEF First
<1>4. \A c : StringEnd(c)' = StringEnd(c)
  BY <1>1 DEF StringEnd, ThreeQuotes, Peek, PeekAhead, AtEnd, ScanMultiline, ScanString,
              Advanced, Advance, MultilineTurn, StringTurn
<1>5. \A text : ReadsBack(text)' <=> ReadsBack(text)
  BY <1>1, <1>2, <1>4 DEF ReadsBack
<1>6. Stands' <=> Stands
  BY <1>1, <1>5 DEF Stands, NamesBare, CommentStands
<1>. QED  BY <1>2, <1>3, <1>6

\* UTF-8 is let in.
LEMMA ValidateWritten ==
  ASSUME Stands, Validate
  PROVE  cursor' = At(1) /\ UNCHANGED <<src, meant, tokens, failure>>
<1>1. src \in Seq(Byte) /\ IsUtf8(src) /\ Len(src) \in Nat
  BY DEF Stands
<1>2. PICK p \in 1..(Len(src) + 1) :
        /\ FirstInvalid(src) = PlaceIn(src, p) /\ Utf8On(src, 1, p - 1)
        /\ p <= Len(src) => ~ IsSequence(src, p)
  BY <1>1, FirstInvalidIs
<1>3. ASSUME p <= Len(src) PROVE FALSE
  <2>1. p \in 1..Len(src) /\ ~ IsSequence(src, p)
    BY <1>1, <1>2, <1>3
  <2>2. InPlace(src, 1, Len(src), p)
    BY <1>1, <2>1, Utf8Is DEF Utf8On
  <2>3. src[p] # "more"
    <3>1. SUFFICES ASSUME src[p] = "more" PROVE FALSE
      OBVIOUS
    <3>2. PICK j \in 1..(p - 1) : src[j] \in DOMAIN Width /\ p - j < Width[src[j]]
      BY <2>2, <3>1 DEF InPlace, Follows
    <3>3. Begun(src, p - 1, j) /\ Width[src[j]] \in 2..4
      BY <1>2, <3>2, WidthIs DEF Utf8On, InPlace
    <3>. QED  BY <2>1, <3>2, <3>3 DEF Begun
  <2>4. CASE src[p] \in DOMAIN Width
    <3>1. Begun(src, Len(src), p) /\ Width[src[p]] \in 2..4 /\ WidthOf(src[p]) = Width[src[p]]
      BY <2>2, <2>4, WidthIs DEF InPlace, WidthOf
    <3>. QED  BY <2>1, <3>1 DEF Begun, IsSequence
  <2>5. CASE src[p] \notin DOMAIN Width
    <3>1. WidthOf(src[p]) = 1
      BY <2>2, <2>3, <2>5 DEF InPlace, WidthOf
    <3>. QED  BY <2>1, <3>1 DEF IsSequence
  <2>. QED  BY <2>4, <2>5
<1>4. p = Len(src) + 1
  BY <1>1, <1>3
<1>5. AtEnd(FirstInvalid(src))
  <2>1. PlaceIn(src, p).pos = p
    BY DEF PlaceIn
  <2>. QED  BY <1>1, <1>2, <1>4, <2>1 DEF AtEnd
<1>6. cursor' = Start /\ UNCHANGED <<src, meant, tokens, failure>>
  BY <1>5 DEF Validate
<1>. QED  BY <1>6, PlaceFirst DEF At

\* Nothing but what was written is read.
LEMMA WrittenStep ==
  ASSUME IInv, WInv, meant # Nothing, Lex
  PROVE  WInv'
<1>1. /\ Stands /\ failure = None /\ src \in Seq(Byte) /\ Len(src) \in Nat /\ Len(src) >= 2
      /\ IsSeq(tokens)
  BY DEF WInv, Stands, IInv
<1>2. /\ cursor.pos # 0
      /\ tokens # <<>> => Last(tokens).tag # "eof"
  BY DEF Lex, Lexing, EndOfFile, Punctuation, LexComment, LexString, LexNumber, LexIdent,
         Unexpected
<1>3. ASSUME NEW token, NEW to, Hands(token, to)
      PROVE  /\ Stands' /\ failure' = None /\ meant' = meant /\ src' = src
             /\ cursor' = At(to) /\ \A p : At(p)' = At(p)
             /\ \A t : First(t)' <=> First(t)
  <2>1. UNCHANGED <<src, meant>>
    BY <1>3 DEF Hands
  <2>2. failure' = failure /\ cursor' = At(to)
    BY <1>3 DEF Hands
  <2>. QED  BY <1>1, <2>1, <2>2, SameStands
<1>4. CASE Unread
  <2>1. tokens = <<>> /\ cursor = At(1)
    BY <1>2, <1>4 DEF Unread
  <2>2. PICK token : Hands(token, Len(src)) /\ First(token)
    BY <1>1, <2>1, FirstRead
  <2>3. Len(tokens') = 1 /\ tokens'[1] = token
    <3>1. Len(tokens) = 0
      BY <2>1
    <3>. QED  BY <1>1, <2>2, <3>1, HandsIs
  <2>4. ReadOne'
    BY <1>3, <2>2, <2>3 DEF ReadOne
  <2>. QED  BY <1>3, <2>2, <2>4 DEF WInv
<1>5. CASE ReadOne /\ meant.kind = "key"
  <2>1. src[Len(src)] = ":" /\ cursor = At(Len(src)) /\ Len(tokens) = 1 /\ First(tokens[1])
    BY <1>1, <1>5 DEF ReadOne, Stands
  <2>2. PICK token : Hands(token, Len(src) + 1) /\ token.tag = ":"
    BY <1>1, <2>1, ColonRead
  <2>3. Len(tokens') = 2 /\ tokens'[1] = tokens[1] /\ tokens'[2] = token
    BY <1>1, <2>1, <2>2, HandsIs
  <2>4. ReadKey'
    BY <1>3, <1>5, <2>1, <2>2, <2>3 DEF ReadKey
  <2>. QED  BY <1>3, <2>2, <2>4 DEF WInv
<1>6. CASE ReadOne /\ meant.kind # "key"
  <2>1. src[Len(src)] = NL /\ cursor = At(Len(src)) /\ Len(tokens) = 1 /\ First(tokens[1])
    BY <1>1, <1>6 DEF ReadOne, Stands
  <2>2. Begin = At(Len(src) + 1)
    BY <1>1, <2>1, BeginsAtEnd
  <2>3. PICK token : Hands(token, Len(src) + 1) /\ token.tag = "eof"
    BY <1>1, <2>2, EndRead
  <2>4. Len(tokens') = 2 /\ tokens'[1] = tokens[1] /\ tokens'[2] = token
    BY <1>1, <2>1, <2>3, HandsIs
  <2>5. ReadAll'
    BY <1>3, <1>6, <2>1, <2>3, <2>4 DEF ReadAll, Written, Last
  <2>. QED  BY <1>3, <2>3, <2>5 DEF WInv
<1>7. CASE ReadKey
  <2>1. /\ cursor = At(Len(src) + 1) /\ Len(tokens) = 2 /\ First(tokens[1])
        /\ meant.kind = "key"
    BY <1>7 DEF ReadKey
  <2>2. Begin = At(Len(src) + 1)
    <3>1. Len(src) + 1 \in Places /\ ~ (Len(src) + 1 <= Len(src))
      BY <1>1 DEF Places
    <3>. QED  BY <1>1, <2>1, <3>1, BeginsHere
  <2>3. PICK token : Hands(token, Len(src) + 1) /\ token.tag = "eof"
    BY <1>1, <2>2, EndRead
  <2>4. Len(tokens') = 3 /\ tokens'[1] = tokens[1] /\ tokens'[3] = token
    BY <1>1, <2>1, <2>3, HandsIs
  <2>5. ReadAll'
    BY <1>3, <2>1, <2>3, <2>4 DEF ReadAll, Written, Last
  <2>. QED  BY <1>3, <2>3, <2>5 DEF WInv
<1>8. CASE ReadAll
  <2>1. tokens # <<>>
    <3>1. Len(tokens) >= 2
      BY <1>8 DEF ReadAll, Written
    <3>. QED  BY <3>1
  <2>. QED  BY <1>2, <1>8, <2>1 DEF ReadAll
<1>. QED  BY <1>4, <1>5, <1>6, <1>7, <1>8 DEF WInv

\* The lexer goes through what was written as it should.
LEMMA WrittenKept ==
  ASSUME IInv, WInv, [Next]_vars
  PROVE  WInv'
<1>1. CASE meant = Nothing
  <2>1. meant' = meant
    BY DEF Next, Lex, Validate, EndOfFile, Punctuation, LexComment, LexString, LexNumber, LexIdent,
           LexInt, LexFloat, Unexpected, Emit, Fail, vars
  <2>. QED  BY <1>1, <2>1 DEF WInv
<1>2. CASE meant # Nothing /\ Lex
  BY <1>2, WrittenStep
<1>3. CASE meant # Nothing /\ Validate
  <2>1. Stands /\ failure = None /\ cursor.pos = 0 /\ Len(src) \in Nat /\ Len(src) >= 2
    BY <1>3 DEF WInv, Stands, Validate
  <2>2. cursor' = At(1) /\ UNCHANGED <<src, meant, tokens, failure>>
    BY <1>3, <2>1, ValidateWritten
  <2>3. tokens = <<>>
    <3>1. cursor # At(Len(src)) /\ cursor # At(Len(src) + 1)
      BY <2>1 DEF At, PlaceIn
    <3>. QED  BY <1>3, <3>1 DEF WInv, Unread, ReadOne, ReadKey, ReadAll
  <2>4. Stands' /\ At(1)' = At(1)
    BY <2>1, <2>2, SameStands
  <2>5. Unread'
    BY <2>2, <2>3, <2>4 DEF Unread
  <2>. QED  BY <2>1, <2>2, <2>4, <2>5 DEF WInv
<1>4. CASE meant # Nothing /\ UNCHANGED vars
  <2>1. /\ UNCHANGED <<src, meant>>
        /\ cursor' = cursor /\ tokens' = tokens /\ failure' = failure /\ src' = src
        /\ meant' = meant
    BY <1>4 DEF vars
  <2>2. (Stands' <=> Stands) /\ (\A p : At(p)' = At(p)) /\ \A t : First(t)' <=> First(t)
    BY <2>1, SameStands
  <2>3. (Unread' <=> Unread) /\ (ReadOne' <=> ReadOne)
    BY <2>1, <2>2 DEF Unread, ReadOne
  <2>4. (ReadKey' <=> ReadKey) /\ (ReadAll' <=> ReadAll)
    BY <2>1, <2>2 DEF ReadKey, ReadAll
  <2>. QED  BY <2>1, <2>2, <2>3, <2>4 DEF WInv
<1>. QED  BY <1>1, <1>2, <1>3, <1>4 DEF Next

\* The emitter against the lexer and the decoder of strings, for texts of any length:
\* what write_quoted, emit_value or write_key writes for a text is one token again, of
\* that text, with nothing behind it but what the emitter put there; and no data key
\* at the top is taken for a directive.
THEOREM LexerWrittenIsRead == Spec => []WrittenIsRead
<1>1. Init => WInv
  <2>1. SUFFICES ASSUME Init, meant # Nothing PROVE WInv
    BY DEF WInv
  <2>2. Stands
    BY <2>1, InitStands
  <2>3. tokens = <<>> /\ cursor.pos = 0 /\ failure = None
    BY <2>1 DEF Init
  <2>. QED  BY <2>2, <2>3 DEF WInv, Unread
<1>2. IInv /\ WInv /\ [Next]_vars => WInv'
  BY WrittenKept
<1>3. IInv /\ WInv => WrittenIsRead
  <2>1. SUFFICES ASSUME IInv, WInv, meant # Nothing, Ended
                 PROVE  /\ failure = None /\ Len(tokens) = Written(meant)
                        /\ \/ meant.kind = "comment" /\ Last(meant.text) = CR
                           \/ Reads(tokens[1], meant)
    BY DEF WrittenIsRead
  <2>2. /\ failure = None
        /\ Unread \/ ReadOne \/ ReadKey \/ ReadAll
        /\ tokens # <<>> /\ Last(tokens).tag = "eof"
    BY <2>1 DEF WInv, Ended
  <2>3. ~ Unread
    BY <2>2 DEF Unread
  <2>4. ~ ReadOne
    BY <2>2 DEF ReadOne, First, Last
  <2>5. ~ ReadKey
    BY <2>2 DEF ReadKey, Last
  <2>. QED  BY <2>2, <2>3, <2>4, <2>5 DEF ReadAll, First
<1>. QED  BY <1>1, <1>2, <1>3, LexerInductive, PTL DEF Spec
=============================================================================

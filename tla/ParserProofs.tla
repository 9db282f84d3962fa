----------------------------- MODULE ParserProofs ----------------------------
(***************************************************************************)
(* The depth guard of the parser counts the brackets that are open, and a  *)
(* text that is one array is taken as the specification of arrays says,    *)
(* for texts of any length and nesting, and any maximum.                   *)
(*                                                                         *)
(* The argument for the guard: the guard, the call stack and the brackets  *)
(* change by one together, on every path through the recursive functions   *)
(* but those that fail; the brackets of an import list are of no call, and *)
(* are known by the place in the grammar.                                  *)
(*                                                                         *)
(* The argument for arrays: the frame of the array holds all that the      *)
(* elements so far say of what may come next, that is their one type if it *)
(* is known, whether a value is due, and whether commas are missing that   *)
(* only a later element can show to be needed.                             *)
(***************************************************************************)
EXTENDS Parser, SequenceLemmas, FiniteSetTheorems, TLAPS

\* The file's list is at the bottom, and there is none other of a file.
FramesSound(frames) ==
  /\ IsSeq(frames) /\ Len(frames) \in Nat \ {0}
  /\ \A i \in 1..Len(frames) :
       /\ "kind" \in DOMAIN frames[i]
       /\ frames[i].kind \in {"file", "object", "array"}
       /\ frames[i].kind = "file" <=> i = 1

InputSound ==
  /\ IsSeq(input) /\ pos \in Nat
  /\ open => pos <= Len(input)

Opening == {"{", "["}

Closing == {"}", "]"}

Brackets == Count(Opening) - Count(Closing)

\* The brackets that are open in a place but of no call.
Listed(place) == IF place \in {"path", "separator"} THEN 1 ELSE 0

GuardSound ==
  /\ depth \in Nat /\ depth = Brackets - Listed(expecting)
  /\ Len(stack) = depth + 1 /\ depth <= MaxNestingDepth

IInv ==
  /\ expecting # "failed" => InputSound /\ FramesSound(stack) /\ GuardSound
  /\ expecting = "failed" /\ result.code = "NESTING_TOO_DEEP" =>
       depth = Brackets /\ depth = MaxNestingDepth + 1

-----------------------------------------------------------------------------
\* Counting.

\* What a token changes.
Bracket(t) == IF t.tag \in Opening THEN 1 ELSE IF t.tag \in Closing THEN -1 ELSE 0

\* The tags that are brackets, and those that are not.
LEMMA BracketTags ==
  /\ "{" \in Opening /\ "[" \in Opening /\ "}" \in Closing /\ "]" \in Closing
  /\ \A tag \in Opening : tag \notin Closing
  /\ \A tag \in Scalars \cup {"ident", "eof", "@", ":", ",", "comment"} :
       tag \notin Opening /\ tag \notin Closing
BY Zenon DEF Opening, Closing, Scalars

\* A token with such a tag.
LEMMA NoBracket ==
  ASSUME NEW t, t.tag \in Scalars \cup {"ident", "eof", "@", ":", ",", "comment"}
  PROVE  Bracket(t) = 0
BY BracketTags DEF Bracket

\* The end of the text is no bracket.
LEMMA EofTag == Eof.tag = "eof" /\ Bracket(Eof) = 0
<1>1. Eof.tag = "eof"  BY DEF Eof, Token
<1>. QED  BY <1>1, NoBracket

\* Reading goes on by one token, the one that was taken.
LEMMA ReadNext ==
  ASSUME InputSound, NEW t \in Upcoming, Read(t)
  PROVE  /\ InputSound' /\ pos' = pos + 1
         /\ \/ /\ pos < Len(input) /\ input' = input /\ t = input[pos + 1]
            \/ /\ pos = Len(input) /\ IsSeq(input') /\ Len(input') = Len(input) + 1
               /\ \A i \in 1..pos : input'[i] = input[i]
               /\ input'[pos + 1] = t
            \/ t = Eof /\ pos >= Len(input) /\ input' = input
<1>1. IsSeq(input) /\ pos \in Nat /\ Len(input) \in Nat /\ pos' = pos + 1
      /\ open' = (open /\ t # Eof)
  BY SeqLen DEF InputSound, Read
<1>2. CASE pos < Len(input)
  <2>1. input' = input /\ t = input[pos + 1]  BY <1>2 DEF Read, Upcoming
  <2>. QED  BY <1>1, <1>2, <2>1 DEF InputSound
<1>3. CASE ~ (pos < Len(input)) /\ t = Eof
  <2>1. input' = input /\ ~ open'  BY <1>1, <1>3 DEF Read
  <2>. QED  BY <1>1, <1>3, <2>1 DEF InputSound
<1>4. CASE ~ (pos < Len(input)) /\ t # Eof
  <2>1. open /\ pos = Len(input)  BY <1>1, <1>4 DEF Upcoming, InputSound
  <2>2. input' = Append(input, t)  BY <1>4 DEF Read
  <2>3. /\ IsSeq(input') /\ Len(input') = Len(input) + 1
        /\ \A i \in 1..pos : input'[i] = input[i]
        /\ input'[pos + 1] = t
    BY <1>1, <2>1, <2>2, SeqAppend
  <2>. QED  BY <1>1, <2>1, <2>3 DEF InputSound
<1>. QED  BY <1>2, <1>3, <1>4

\* A count is a number.
LEMMA CountNat ==
  ASSUME pos \in Nat, NEW tags
  PROVE  Count(tags) \in Nat
<1>1. IsFiniteSet(1..pos)  BY FS_Interval
<1>2. IsFiniteSet({i \in 1..pos : i <= Len(input) /\ input[i].tag \in tags})
  BY <1>1, FS_Subset
<1>. QED  BY <1>2, FS_CardinalityType DEF Count

\* The token that is taken is counted.
LEMMA CountNext ==
  ASSUME InputSound, NEW t \in Upcoming, Read(t), NEW tags, "eof" \notin tags
  PROVE  Count(tags)' = Count(tags) + (IF t.tag \in tags THEN 1 ELSE 0)
<1>. DEFINE S == {i \in 1..pos : i <= Len(input) /\ input[i].tag \in tags}
            T == {i \in 1..pos' : i <= Len(input') /\ input'[i].tag \in tags}
<1>1. /\ pos \in Nat /\ Len(input) \in Nat /\ pos' = pos + 1
      /\ \/ /\ pos < Len(input) /\ input' = input /\ t = input[pos + 1]
         \/ /\ pos = Len(input) /\ Len(input') = Len(input) + 1
            /\ \A i \in 1..pos : input'[i] = input[i]
            /\ input'[pos + 1] = t
         \/ t = Eof /\ pos >= Len(input) /\ input' = input
  BY ReadNext, SeqLen DEF InputSound
<1>2. IsFiniteSet(S)
  <2>1. IsFiniteSet(1..pos)  BY <1>1, FS_Interval
  <2>. QED  BY <2>1, FS_Subset
<1>3. pos + 1 \notin S  BY <1>1
<1>4. T = IF t.tag \in tags THEN S \cup {pos + 1} ELSE S
  <2>1. CASE pos < Len(input) /\ input' = input /\ t = input[pos + 1]
    BY <1>1, <2>1
  <2>2. CASE /\ pos = Len(input) /\ Len(input') = Len(input) + 1
             /\ \A i \in 1..pos : input'[i] = input[i]
             /\ input'[pos + 1] = t
    BY <1>1, <2>2
  <2>3. CASE t = Eof /\ pos >= Len(input) /\ input' = input
    BY <1>1, <2>3, EofTag
  <2>. QED  BY <1>1, <2>1, <2>2, <2>3
<1>. HIDE DEF S, T
<1>5. Cardinality(S) \in Nat  BY <1>2, FS_CardinalityType
<1>6. Cardinality(T) = Cardinality(S) + (IF t.tag \in tags THEN 1 ELSE 0)
  <2>1. Cardinality(S \cup {pos + 1}) = Cardinality(S) + 1  BY <1>2, <1>3, FS_AddElement
  <2>. QED  BY <1>4, <1>5, <2>1
<1>7. Count(tags)' = Cardinality(T)  BY DEF Count, T
<1>8. Count(tags) = Cardinality(S)  BY DEF Count, S
<1>. QED  BY <1>6, <1>7, <1>8

\* Brackets open and close.
LEMMA BracketsNext ==
  ASSUME InputSound, NEW t \in Upcoming, Read(t)
  PROVE  Brackets \in Int /\ Brackets' = Brackets + Bracket(t)
<1>1. /\ Count(Opening)' = Count(Opening) + (IF t.tag \in Opening THEN 1 ELSE 0)
      /\ Count(Closing)' = Count(Closing) + (IF t.tag \in Closing THEN 1 ELSE 0)
  <2>1. "eof" \notin Opening /\ "eof" \notin Closing  BY BracketTags
  <2>2. \A tags : "eof" \notin tags =>
          Count(tags)' = Count(tags) + (IF t.tag \in tags THEN 1 ELSE 0)
    BY CountNext
  <2>. QED  BY <2>1, <2>2 DEF Opening, Closing
<1>2. Count(Opening) \in Nat /\ Count(Closing) \in Nat
  BY CountNat DEF InputSound
<1>3. PICK a, b : a = Count(Opening) /\ b = Count(Closing)  OBVIOUS
<1>4. PICK c, d : c = Count(Opening)' /\ d = Count(Closing)'  OBVIOUS
<1>5. Brackets = a - b /\ Brackets' = c - d  BY <1>3, <1>4 DEF Brackets
<1>6. /\ a \in Nat /\ b \in Nat
      /\ c = a + (IF t.tag \in Opening THEN 1 ELSE 0)
      /\ d = b + (IF t.tag \in Closing THEN 1 ELSE 0)
  BY <1>1, <1>2, <1>3, <1>4
<1>7. ~ (t.tag \in Opening /\ t.tag \in Closing)  BY BracketTags
<1>. QED  BY <1>5, <1>6, <1>7 DEF Bracket

-----------------------------------------------------------------------------
\* What a token does to the guard and the stack.

\* A parse that goes on, and one that fails for its nesting or for anything else.
Outcome(t) ==
  \/ /\ expecting' # "failed" /\ FramesSound(stack')
     /\ depth' \in Nat /\ depth' <= MaxNestingDepth /\ Len(stack') = depth' + 1
     /\ depth' = depth + Bracket(t) + Listed(expecting) - Listed(expecting')
  \/ expecting' = "failed" /\ result'.code # "NESTING_TOO_DEEP"
  \/ /\ expecting' = "failed" /\ depth' = MaxNestingDepth + 1
     /\ depth' = depth + Bracket(t) + Listed(expecting)

Other(code) == code # "NESTING_TOO_DEEP"

\* Any failure but that of the guard.
LEMMA AbortOutcome ==
  ASSUME NEW t, NEW code, Other(code), Abort(code)
  PROVE  Outcome(t)
BY DEF Abort, Outcome, Other

\* The list on top may change, but not its kind.
LEMMA TopChanged ==
  ASSUME NEW frames, FramesSound(frames), NEW f, "kind" \in DOMAIN f,
         f.kind = frames[Len(frames)].kind
  PROVE  /\ FramesSound([frames EXCEPT ![Len(frames)] = f])
         /\ Len([frames EXCEPT ![Len(frames)] = f]) = Len(frames)
         /\ [frames EXCEPT ![Len(frames)] = f][Len(frames)] = f
<1>. DEFINE n == Len(frames)
            new == [frames EXCEPT ![n] = f]
<1>1. IsSeq(frames) /\ n \in Nat /\ n \in 1..n  BY DEF FramesSound
<1>2. /\ IsSeq(new) /\ Len(new) = n /\ new[n] = f
      /\ \A i \in 1..n : i # n => new[i] = frames[i]
  BY <1>1, SeqExcept
<1>. HIDE DEF new
<1>3. ASSUME NEW i \in 1..n
      PROVE  /\ "kind" \in DOMAIN new[i] /\ new[i].kind \in {"file", "object", "array"}
             /\ new[i].kind = "file" <=> i = 1
  BY <1>2 DEF FramesSound
<1>4. FramesSound(new)  BY <1>1, <1>2, <1>3 DEF FramesSound
<1>. QED  BY <1>2, <1>4 DEF new

\* A list is begun.
LEMMA Pushed ==
  ASSUME NEW frames, FramesSound(frames), NEW kind \in {"object", "array"}
  PROVE  /\ FramesSound(Append(frames, Frame(kind)))
         /\ Len(Append(frames, Frame(kind))) = Len(frames) + 1
<1>. DEFINE n == Len(frames)
            new == Append(frames, Frame(kind))
<1>1. IsSeq(frames) /\ n \in Nat \ {0}  BY DEF FramesSound
<1>2. /\ IsSeq(new) /\ Len(new) = n + 1 /\ new[n + 1] = Frame(kind)
      /\ \A i \in 1..n : new[i] = frames[i]
  BY <1>1, SeqAppend
<1>3. "kind" \in DOMAIN Frame(kind) /\ Frame(kind).kind = kind  BY DEF Frame
<1>. HIDE DEF new
<1>4. ASSUME NEW i \in 1..n + 1
      PROVE  /\ "kind" \in DOMAIN new[i] /\ new[i].kind \in {"file", "object", "array"}
             /\ new[i].kind = "file" <=> i = 1
  <2>1. CASE i \in 1..n  BY <1>1, <1>2, <2>1 DEF FramesSound
  <2>2. CASE i = n + 1  BY <1>1, <1>2, <1>3, <2>2
  <2>. QED  BY <1>1, <2>1, <2>2
<1>5. FramesSound(new)  BY <1>1, <1>2, <1>4 DEF FramesSound
<1>. QED  BY <1>2, <1>5 DEF new

\* A list is left; the file's is not.
LEMMA Popped ==
  ASSUME FramesSound(stack), Top.kind # "file"
  PROVE  FramesSound(Below) /\ Len(Below) = Len(stack) - 1
<1>. DEFINE n == Len(stack)
<1>1. PICK S : stack \in Seq(S)  BY DEF FramesSound, IsSeq
<1>2. n \in Nat /\ n > 1  BY <1>1 DEF FramesSound, Top
<1>3. /\ SubSeq(stack, 1, n - 1) \in Seq(S) /\ Len(SubSeq(stack, 1, n - 1)) = n - 1
      /\ \A i \in 1..(n - 1) : SubSeq(stack, 1, n - 1)[i] = stack[i]
  BY <1>1, <1>2
<1>4. /\ IsSeq(Below) /\ Len(Below) = n - 1 /\ \A i \in 1..(n - 1) : Below[i] = stack[i]
  BY <1>3 DEF IsSeq, Below
<1>. QED  BY <1>2, <1>4 DEF FramesSound

\* A token that is no bracket, where the lists stay as many as they are.
LEMMA StayOutcome ==
  ASSUME IInv, expecting # "failed", NEW t, Bracket(t) = 0, UNCHANGED depth,
         FramesSound(stack'), Len(stack') = Len(stack), expecting' # "failed",
         Listed(expecting') = Listed(expecting)
  PROVE  Outcome(t)
BY DEF IInv, GuardSound, Outcome, Listed

\* The value of the list on top, or a failure.
LEMMA CompleteStack ==
  ASSUME NEW frames, FramesSound(frames), NEW v, Complete(frames, v)
  PROVE  \/ /\ FramesSound(stack') /\ Len(stack') = Len(frames)
            /\ expecting' \in {"trailing", "entry"}
         \/ expecting' = "failed" /\ result'.code # "NESTING_TOO_DEEP"
<1>. DEFINE n == Len(frames)
            f == frames[n]
            node == NodeOf(f.head, v)
            g == [f EXCEPT !.children = Append(f.children, node), !.head = NoKey]
            elements == ElementType(f.elements, v.type)
            h == [f EXCEPT !.items = Append(f.items, v), !.elements = elements,
                           !.needValue = FALSE, !.missing = f.missing /\ elements # "object"]
<1>1. "kind" \in DOMAIN f  BY DEF FramesSound
<1>2. "kind" \in DOMAIN g /\ g.kind = f.kind  BY <1>1
<1>3. "kind" \in DOMAIN h /\ h.kind = f.kind  BY <1>1
<1>4. \/ Abort("MIXED_ARRAY_TYPES") \/ Abort("EXPECTED_COMMA")
      \/ /\ stack' = [frames EXCEPT ![n] = g] /\ expecting' \in {"trailing", "entry"}
      \/ /\ stack' = [frames EXCEPT ![n] = h] /\ expecting' = "entry"
  BY DEF Complete, Become
<1>. HIDE DEF g, h
<1>. QED  BY <1>2, <1>3, <1>4, TopChanged DEF Abort

\* A call is entered, if it is not one too many.
LEMMA EnterOutcome ==
  ASSUME IInv, NEW t, t.tag \in Opening, NEW kind \in {"object", "array"},
         NEW frames, FramesSound(frames), Len(frames) = Len(stack),
         Enter(kind, frames), expecting \in {"entry", "trailing", "body", "value", "replacement"}
  PROVE  Outcome(t)
<1>1. Bracket(t) = 1 /\ Listed(expecting) = 0  BY DEF Bracket, Listed
<1>2. /\ depth \in Nat /\ Len(frames) = depth + 1 /\ depth <= MaxNestingDepth
      /\ MaxNestingDepth \in Nat /\ depth' = depth + 1
  BY TokensAssumption DEF IInv, GuardSound, Enter
<1>3. CASE depth + 1 > MaxNestingDepth
  BY <1>1, <1>2, <1>3 DEF Enter, Abort, Outcome
<1>4. CASE ~ (depth + 1 > MaxNestingDepth)
  <2>1. stack' = Append(frames, Frame(kind)) /\ expecting' = "entry"
    BY <1>4 DEF Enter, Become
  <2>2. FramesSound(stack') /\ Len(stack') = depth' + 1  BY <1>2, <2>1, Pushed
  <2>. QED  BY <1>1, <1>2, <1>4, <2>1, <2>2 DEF Outcome, Listed
<1>. QED  BY <1>3, <1>4

\* A call is left.
LEMMA CloseOutcome ==
  ASSUME IInv, NEW t, t.tag \in Closing, NEW v, Close(v), Top.kind # "file",
         expecting \in {"entry", "trailing"}
  PROVE  Outcome(t)
<1>1. Bracket(t) = -1 /\ Listed(expecting) = 0  BY BracketTags DEF Bracket, Listed
<1>2. FramesSound(Below) /\ Len(Below) = Len(stack) - 1  BY Popped DEF IInv
<1>3. /\ depth \in Nat /\ Len(stack) = depth + 1 /\ depth <= MaxNestingDepth
      /\ MaxNestingDepth \in Nat /\ depth' = depth - 1
  BY TokensAssumption DEF IInv, GuardSound, Close, Leave
<1>4. Len(Below) \in Nat \ {0}  BY <1>2 DEF FramesSound
<1>5. \/ /\ FramesSound(stack') /\ Len(stack') = Len(Below)
         /\ expecting' \in {"trailing", "entry"}
      \/ expecting' = "failed" /\ result'.code # "NESTING_TOO_DEEP"
  BY <1>2, CompleteStack DEF Close
<1>. QED  BY <1>1, <1>2, <1>3, <1>4, <1>5 DEF Outcome, Listed

\* A value is parsed.
LEMMA ParseValueOutcome ==
  ASSUME IInv, NEW t, NEW frames, FramesSound(frames), Len(frames) = Len(stack),
         ParseValue(t, frames), expecting \in {"entry", "trailing", "value"}
  PROVE  Outcome(t)
<1>1. CASE t.tag \in Scalars
  <2>1. Bracket(t) = 0  BY <1>1, NoBracket
  <2>2. Complete(frames, ScalarOf(t)) /\ UNCHANGED depth  BY <1>1 DEF ParseValue
  <2>3. \/ /\ FramesSound(stack') /\ Len(stack') = Len(frames)
           /\ expecting' \in {"trailing", "entry"}
        \/ expecting' = "failed" /\ result'.code # "NESTING_TOO_DEEP"
    BY <2>2, CompleteStack
  <2>4. CASE expecting' = "failed" /\ result'.code # "NESTING_TOO_DEEP"  BY <2>4 DEF Outcome
  <2>5. CASE /\ FramesSound(stack') /\ Len(stack') = Len(frames)
             /\ expecting' \in {"trailing", "entry"}
    BY <2>1, <2>2, <2>5, StayOutcome DEF Listed
  <2>. QED  BY <2>3, <2>4, <2>5
<1>2. \/ t.tag \in Scalars
      \/ t.tag = "{" /\ Enter("object", frames)
      \/ t.tag = "[" /\ Enter("array", frames)
      \/ Fail("EXPECTED_VALUE")
  BY Zenon DEF ParseValue
<1>3. CASE t.tag = "{" /\ Enter("object", frames)
  BY <1>3, BracketTags, EnterOutcome
<1>4. CASE t.tag = "[" /\ Enter("array", frames)
  BY <1>4, BracketTags, EnterOutcome
<1>5. CASE Fail("EXPECTED_VALUE")  BY <1>5, AbortOutcome DEF Fail, Other
<1>. QED  BY <1>1, <1>2, <1>3, <1>4, <1>5

-----------------------------------------------------------------------------
\* The places of the grammar.

\* What a token finds where the parse goes on.
LEMMA Placed0 ==
  ASSUME IInv, expecting # "failed"
  PROVE  /\ FramesSound(stack) /\ "kind" \in DOMAIN Top
         /\ Top.kind \in {"file", "object", "array"}
BY DEF IInv, FramesSound, Top

\* The list on top changes, and nothing else.
LEMMA WithTopOutcome ==
  ASSUME IInv, expecting # "failed", NEW t, Bracket(t) = 0, UNCHANGED depth, NEW f,
         "kind" \in DOMAIN f, f.kind = Top.kind, NEW place, Become(WithTop(f), place),
         place # "failed", Listed(place) = Listed(expecting)
  PROVE  Outcome(t)
<1>1. stack' = [stack EXCEPT ![Len(stack)] = f] /\ expecting' = place
  BY DEF Become, WithTop
<1>2. FramesSound(stack') /\ Len(stack') = Len(stack)
  BY <1>1, Placed0, TopChanged DEF Top
<1>. QED  BY <1>1, <1>2, StayOutcome

\* A node's first token.
LEMMA NodeStartOutcome ==
  ASSUME IInv, expecting \in {"entry", "trailing"}, NEW t, NEW leading, NodeStart(t, leading)
  PROVE  Outcome(t)
<1>1. UNCHANGED depth /\ "kind" \in DOMAIN Top  BY Placed0 DEF NodeStart
<1>2. CASE t.tag = "@"
  <2>. DEFINE f == [Top EXCEPT !.head = KeyPart("", leading)]
  <2>1. "kind" \in DOMAIN f /\ f.kind = Top.kind  BY <1>1
  <2>2. Become(WithTop(f), "operation")  BY <1>2 DEF NodeStart
  <2>. HIDE DEF f
  <2>. QED  BY <1>1, <1>2, <2>1, <2>2, WithTopOutcome, NoBracket DEF Listed
<1>3. CASE t.tag # "@" /\ Key(t)
  <2>. DEFINE f == [Top EXCEPT !.head = KeyPart(t.text, leading)]
  <2>1. "kind" \in DOMAIN f /\ f.kind = Top.kind  BY <1>1
  <2>2. Become(WithTop(f), "body")  BY <1>3 DEF NodeStart
  <2>. HIDE DEF f
  <2>. QED  BY <1>1, <1>3, <2>1, <2>2, WithTopOutcome, NoBracket DEF Listed, Key, Scalars
<1>4. CASE t.tag # "@" /\ ~ Key(t)
  BY <1>4, AbortOutcome DEF NodeStart, Other
<1>. QED  BY <1>2, <1>3, <1>4

\* The header and the list on top as they are, in another place of the grammar.
LEMMA BecomeOutcome ==
  ASSUME IInv, expecting # "failed", NEW t, NEW place,
         Bracket(t) + Listed(expecting) = Listed(place), Become(stack, place), place # "failed", UNCHANGED depth
  PROVE  Outcome(t)
<1>1. stack' = stack /\ expecting' = place  BY DEF Become
<1>2. /\ depth \in Nat /\ Len(stack) = depth + 1 /\ depth <= MaxNestingDepth
      /\ FramesSound(stack)
  BY DEF IInv, GuardSound
<1>3. Bracket(t) \in {0, 1, -1}  BY DEF Bracket
<1>4. Listed(expecting) \in {0, 1} /\ Listed(place) \in {0, 1}  BY DEF Listed
<1>5. depth' = depth + Bracket(t) + Listed(expecting) - Listed(expecting')
  BY <1>1, <1>2, <1>3, <1>4
<1>. QED  BY <1>1, <1>2, <1>5 DEF Outcome

\* The next token of a file: the end, a directive, or a node.
LEMMA FileEntryOutcome ==
  ASSUME IInv, expecting \in {"entry", "trailing"}, NEW t, FileEntry(t)
  PROVE  Outcome(t)
<1>1. CASE t = Eof
  <2>1. /\ stack' = stack /\ expecting' = "done" /\ UNCHANGED depth
    BY <1>1 DEF FileEntry, Finish
  <2>2. FramesSound(stack)  BY Placed0
  <2>. QED  BY <1>1, <2>1, <2>2, EofTag, StayOutcome DEF Listed
<1>2. CASE t # Eof /\ ~ Directive(t)
  BY <1>2, NodeStartOutcome DEF FileEntry
<1>3. CASE Fail("DIRECTIVE_AFTER_BODY")  BY <1>3, AbortOutcome DEF Fail, Other
<1>4. CASE /\ Directive(t) /\ UNCHANGED depth
           /\ Become(stack, "import") \/ Become(stack, "colon")
  <2>1. Bracket(t) = 0  BY <1>4, NoBracket DEF Directive
  <2>. QED  BY <1>4, <2>1, BecomeOutcome DEF Listed
<1>5. \/ t = Eof \/ (t # Eof /\ ~ Directive(t)) \/ Fail("DIRECTIVE_AFTER_BODY")
      \/ /\ Directive(t) /\ UNCHANGED depth
         /\ Become(stack, "import") \/ Become(stack, "colon")
  BY DEF FileEntry
<1>. QED  BY <1>1, <1>2, <1>3, <1>4, <1>5

\* The next token of an object.
LEMMA ObjectEntryOutcome ==
  ASSUME IInv, expecting \in {"entry", "trailing"}, Top.kind = "object", NEW t, ObjectEntry(t)
  PROVE  Outcome(t)
<1>1. \/ t.tag = "}" /\ Close(FinishedObject)
      \/ Fail("UNTERMINATED_BLOCK")
      \/ NodeStart(t, buffer)
  BY Zenon DEF ObjectEntry
<1>2. CASE t.tag = "}" /\ Close(FinishedObject)
  <2>1. t.tag \in Closing /\ Top.kind # "file"  BY <1>2, BracketTags
  <2>. QED  BY <1>2, <2>1, CloseOutcome
<1>3. CASE Fail("UNTERMINATED_BLOCK")  BY <1>3, AbortOutcome DEF Fail, Other
<1>4. CASE NodeStart(t, buffer)  BY <1>4, NodeStartOutcome
<1>. QED  BY <1>1, <1>2, <1>3, <1>4

\* The next token of an array.
LEMMA ArrayEntryOutcome ==
  ASSUME IInv, expecting \in {"entry", "trailing"}, Top.kind = "array", NEW t, ArrayEntry(t)
  PROVE  Outcome(t)
<1>. DEFINE f == [Top EXCEPT !.needValue = TRUE]
            g == [Top EXCEPT !.missing = Top.missing \/ ~ Top.needValue]
<1>1. \/ t.tag = "]" /\ Close(FinishedArray)
      \/ \E code \in {"EXPECTED_COMMA", "EXPECTED_VALUE", UnterminatedArray} : Fail(code)
      \/ t.tag = "," /\ Become(WithTop(f), "entry") /\ UNCHANGED depth
      \/ ParseValue(t, WithTop(g))
  BY Zenon DEF ArrayEntry
<1>2. "kind" \in DOMAIN Top  BY Placed0
<1>3. CASE t.tag = "]" /\ Close(FinishedArray)
  <2>1. t.tag \in Closing /\ Top.kind # "file"  BY <1>3, BracketTags
  <2>. QED  BY <1>3, <2>1, CloseOutcome
<1>4. CASE \E code \in {"EXPECTED_COMMA", "EXPECTED_VALUE", UnterminatedArray} : Fail(code)
  <2>1. \A code \in {"EXPECTED_COMMA", "EXPECTED_VALUE", UnterminatedArray} : Other(code)
    BY DEF Other, UnterminatedArray
  <2>. QED  BY <1>4, <2>1, AbortOutcome DEF Fail
<1>5. CASE t.tag = "," /\ Become(WithTop(f), "entry") /\ UNCHANGED depth
  <2>1. "kind" \in DOMAIN f /\ f.kind = Top.kind  BY <1>2
  <2>. HIDE DEF f
  <2>2. Bracket(t) = 0  BY <1>5, NoBracket
  <2>. QED  BY <1>5, <2>1, <2>2, WithTopOutcome DEF Listed
<1>6. CASE ParseValue(t, WithTop(g))
  <2>1. "kind" \in DOMAIN g /\ g.kind = Top.kind  BY <1>2
  <2>. HIDE DEF g
  <2>2. FramesSound(WithTop(g)) /\ Len(WithTop(g)) = Len(stack)
    BY <2>1, Placed0, TopChanged DEF WithTop, Top
  <2>. QED  BY <1>6, <2>2, ParseValueOutcome
<1>. QED  BY <1>1, <1>3, <1>4, <1>5, <1>6

\* The loop that is under way takes the token.
LEMMA EntryOutcome ==
  ASSUME IInv, NEW t, Entry(t)
  PROVE  Outcome(t)
<1>1. expecting \in {"entry", "trailing"}  BY DEF Entry
<1>2. Top.kind \in {"file", "object", "array"}  BY <1>1, Placed0
<1>3. \/ Top.kind = "file" /\ FileEntry(t)
      \/ Top.kind = "object" /\ ObjectEntry(t)
      \/ Top.kind = "array" /\ ArrayEntry(t)
  BY <1>2 DEF Entry
<1>. QED  BY <1>1, <1>3, FileEntryOutcome, ObjectEntryOutcome, ArrayEntryOutcome

\* Between a key and its value.
LEMMA ValueOutcome ==
  ASSUME IInv, NEW t, NodeBody(t) \/ FieldValue(t) \/ Replacement(t)
  PROVE  Outcome(t)
<1>. DEFINE f == [Top EXCEPT !.head.colonless = TRUE]
<1>1. CASE NodeBody(t)
  <2>1. expecting = "body"  BY <1>1 DEF NodeBody
  <2>2. FramesSound(stack) /\ "kind" \in DOMAIN Top  BY <2>1, Placed0
  <2>3. \/ t.tag = ":" /\ Become(stack, "value") /\ UNCHANGED depth
        \/ t.tag = "{" /\ Enter("object", stack)
        \/ t.tag = "[" /\ Enter("array", WithTop(f))
        \/ Fail("EXPECTED_NODE_BODY")
    BY <1>1, Zenon DEF NodeBody
  <2>4. FramesSound(WithTop(f)) /\ Len(WithTop(f)) = Len(stack)
    <3>1. "kind" \in DOMAIN f /\ f.kind = Top.kind  BY <2>2
    <3>. HIDE DEF f
    <3>. QED  BY <2>2, <3>1, TopChanged DEF WithTop, Top
  <2>. HIDE DEF f
  <2>5. CASE t.tag = ":" /\ Become(stack, "value") /\ UNCHANGED depth
    <3>1. Bracket(t) = 0  BY <2>5, NoBracket
    <3>. QED  BY <2>1, <2>5, <3>1, BecomeOutcome DEF Listed
  <2>6. CASE t.tag = "{" /\ Enter("object", stack)
    BY <2>1, <2>2, <2>6, BracketTags, EnterOutcome
  <2>7. CASE t.tag = "[" /\ Enter("array", WithTop(f))
    BY <2>1, <2>4, <2>7, BracketTags, EnterOutcome
  <2>8. CASE Fail("EXPECTED_NODE_BODY")  BY <2>8, AbortOutcome DEF Fail, Other
  <2>. QED  BY <2>3, <2>5, <2>6, <2>7, <2>8
<1>2. CASE FieldValue(t)
  <2>1. expecting = "value" /\ ParseValue(t, stack)  BY <1>2 DEF FieldValue
  <2>. QED  BY <2>1, Placed0, ParseValueOutcome
<1>3. CASE Replacement(t)
  <2>1. /\ expecting = "replacement"
        /\ \/ t.tag = "{" /\ Enter("object", stack)
           \/ Fail("EXPECTED_REPLACEMENT_BLOCK")
    BY <1>3, Zenon DEF Replacement
  <2>2. CASE t.tag = "{" /\ Enter("object", stack)
    BY <2>1, <2>2, Placed0, BracketTags, EnterOutcome
  <2>3. CASE Fail("EXPECTED_REPLACEMENT_BLOCK")  BY <2>3, AbortOutcome DEF Fail, Other
  <2>. QED  BY <2>1, <2>2, <2>3
<1>. QED  BY <1>1, <1>2, <1>3

\* The operations.
LEMMA OperationOutcome ==
  ASSUME IInv, NEW t, Operation(t) \/ DeletedKey(t) \/ ReplacedKey(t)
  PROVE  Outcome(t)
<1>1. CASE Operation(t)
  <2>1. expecting = "operation"  BY <1>1 DEF Operation
  <2>2. \/ \E code \in {"EXPECTED_IDENT", "UNKNOWN_OVERLAY_OPERATION"} : Fail(code)
        \/ /\ t.tag = "ident" /\ UNCHANGED depth
           /\ Become(stack, "deleted") \/ Become(stack, "replaced")
    BY <1>1 DEF Operation
  <2>3. CASE \E code \in {"EXPECTED_IDENT", "UNKNOWN_OVERLAY_OPERATION"} : Fail(code)
    BY <2>3, AbortOutcome DEF Fail, Other
  <2>4. CASE /\ t.tag = "ident" /\ UNCHANGED depth
             /\ Become(stack, "deleted") \/ Become(stack, "replaced")
    <3>1. Bracket(t) = 0  BY <2>4, NoBracket
    <3>. QED  BY <2>1, <2>4, <3>1, BecomeOutcome DEF Listed
  <2>. QED  BY <2>2, <2>3, <2>4
<1>2. CASE DeletedKey(t)
  <2>. DEFINE node == [Node(t.text, "delete") EXCEPT !.leading = Top.head.leading]
              f == [Top EXCEPT !.head = NoKey, !.children = Append(Top.children, node)]
  <2>1. expecting = "deleted"  BY <1>2 DEF DeletedKey
  <2>2. \/ Fail("EXPECTED_IDENT")
        \/ Key(t) /\ Become(WithTop(f), "trailing") /\ UNCHANGED depth
    BY <1>2 DEF DeletedKey
  <2>3. CASE Fail("EXPECTED_IDENT")  BY <2>3, AbortOutcome DEF Fail, Other
  <2>4. CASE Key(t) /\ Become(WithTop(f), "trailing") /\ UNCHANGED depth
    <3>1. "kind" \in DOMAIN Top  BY <2>1, Placed0
    <3>2. "kind" \in DOMAIN f /\ f.kind = Top.kind  BY <3>1
    <3>. HIDE DEF f
    <3>3. Bracket(t) = 0  BY <2>4, NoBracket DEF Key, Scalars
    <3>. QED  BY <2>1, <2>4, <3>2, <3>3, WithTopOutcome DEF Listed
  <2>. QED  BY <2>2, <2>3, <2>4
<1>3. CASE ReplacedKey(t)
  <2>. DEFINE f == [Top EXCEPT !.head.key = t.text, !.head.replace = TRUE]
  <2>1. expecting = "replaced"  BY <1>3 DEF ReplacedKey
  <2>2. \/ Fail("EXPECTED_IDENT")
        \/ Key(t) /\ Become(WithTop(f), "replacement") /\ UNCHANGED depth
    BY <1>3 DEF ReplacedKey
  <2>3. CASE Fail("EXPECTED_IDENT")  BY <2>3, AbortOutcome DEF Fail, Other
  <2>4. CASE Key(t) /\ Become(WithTop(f), "replacement") /\ UNCHANGED depth
    <3>1. "kind" \in DOMAIN Top  BY <2>1, Placed0
    <3>2. "kind" \in DOMAIN f /\ f.kind = Top.kind  BY <3>1
    <3>. HIDE DEF f
    <3>3. Bracket(t) = 0  BY <2>4, NoBracket DEF Key, Scalars
    <3>. QED  BY <2>1, <2>4, <3>2, <3>3, WithTopOutcome DEF Listed
  <2>. QED  BY <2>2, <2>3, <2>4
<1>. QED  BY <1>1, <1>2, <1>3

\* The header, whose lists are of no call.
LEMMA HeaderOutcome ==
  ASSUME IInv, NEW t,
         DirectiveColon(t) \/ DirectiveText(t) \/ Import(t) \/ ImportPath(t) \/ ImportSeparator(t)
  PROVE  Outcome(t)
<1>. DEFINE Codes == {"EXPECTED_COLON", "EXPECTED_STRING", "DUPLICATE_SKG_VERSION",
              "MALFORMED_SKG_VERSION", "UNSUPPORTED_SKG_VERSION", "DUPLICATE_SCHEMA_VERSION",
              "ABSOLUTE_IMPORT_PATH", "EXPECTED_IMPORT_PATH", "UNTERMINATED_IMPORT_LIST",
              "EXPECTED_COMMA"}
<1>1. CASE \E code \in Codes : Fail(code)
  BY <1>1, AbortOutcome DEF Fail, Other
<1>2. ASSUME NEW place, Goes(place), place # "failed", expecting # "failed",
             Bracket(t) + Listed(expecting) = Listed(place)
      PROVE  Outcome(t)
  BY <1>2, BecomeOutcome DEF Goes
<1>3. CASE DirectiveColon(t)
  <2>1. expecting = "colon" /\ ((t.tag = ":" /\ Goes("text")) \/ \E code \in Codes : Fail(code))
    BY <1>3 DEF DirectiveColon
  <2>2. t.tag = ":" => Bracket(t) = 0  BY NoBracket
  <2>. QED  BY <1>1, <1>2, <2>1, <2>2 DEF Listed
<1>4. String(t) => Bracket(t) = 0  BY NoBracket DEF String, Scalars
<1>5. CASE DirectiveText(t)
  <2>1. expecting = "text" /\ ((String(t) /\ Goes("entry")) \/ \E code \in Codes : Fail(code))
    BY <1>5 DEF DirectiveText, SkgVersion, SchemaVersion
  <2>. QED  BY <1>1, <1>2, <1>4, <2>1 DEF Listed
<1>6. CASE Import(t)
  <2>1. /\ expecting = "import"
        /\ \/ String(t) /\ Goes("entry")
           \/ t.tag = "[" /\ Goes("path")
           \/ \E code \in Codes : Fail(code)
    BY <1>6 DEF Import, AppendImport
  <2>2. t.tag = "[" => Bracket(t) = 1  BY BracketTags DEF Bracket
  <2>. QED  BY <1>1, <1>2, <1>4, <2>1, <2>2 DEF Listed
<1>7. t.tag = "]" => Bracket(t) = -1  BY BracketTags DEF Bracket
<1>8. CASE ImportPath(t)
  <2>1. /\ expecting = "path"
        /\ \/ String(t) /\ Goes("separator")
           \/ t.tag = "]" /\ Goes("entry")
           \/ \E code \in Codes : Fail(code)
    BY <1>8 DEF ImportPath, AppendImport, EndOfImports
  <2>. QED  BY <1>1, <1>2, <1>4, <1>7, <2>1 DEF Listed
<1>9. CASE ImportSeparator(t)
  <2>1. /\ expecting = "separator"
        /\ \/ t.tag = "," /\ Goes("path")
           \/ t.tag = "]" /\ Goes("entry")
           \/ \E code \in Codes : Fail(code)
    BY <1>9 DEF ImportSeparator, EndOfImports
  <2>2. t.tag = "," => Bracket(t) = 0  BY NoBracket
  <2>3. CASE t.tag = "," /\ Goes("path")
    <3>1. Listed(expecting) = 1 /\ Listed("path") = 1 /\ expecting # "failed"
      BY <2>1 DEF Listed
    <3>2. t.tag = "," /\ Goes("path")  BY <2>3
    <3>3. Bracket(t) = 0  BY <2>2, <3>2, Zenon
    <3>4. Bracket(t) + Listed(expecting) = Listed("path")  BY <3>1, <3>3
    <3>. QED  BY <1>2, <3>1, <3>2, <3>4
  <2>4. CASE t.tag = "]" /\ Goes("entry")
    BY <1>2, <1>7, <2>1, <2>4 DEF Listed
  <2>. QED  BY <1>1, <2>1, <2>3, <2>4
<1>. QED  BY <1>3, <1>5, <1>6, <1>8, <1>9

\* Comments that are skipped, and one that is the last node's.
LEMMA SkipOutcome ==
  ASSUME IInv, expecting # "failed", NEW t, SkipComment(t)
  PROVE  Outcome(t)
<1>. DEFINE f == [Top EXCEPT !.children[Len(Top.children)].trailing = <<t.id>>]
<1>1. Bracket(t) = 0 /\ UNCHANGED depth
  <2>1. t.tag = "comment" /\ UNCHANGED depth  BY DEF SkipComment, Skips
  <2>. QED  BY <2>1, NoBracket
<1>2. \/ expecting = "trailing" /\ Become(WithTop(f), "entry")
      \/ expecting = "trailing" /\ Become(stack, "entry")
      \/ Become(stack, expecting)
  BY DEF SkipComment, AttachTrailing
<1>3. "kind" \in DOMAIN f /\ f.kind = Top.kind  BY Placed0
<1>. HIDE DEF f
<1>4. Listed(expecting) \in {0, 1}  BY DEF Listed
<1>5. CASE expecting = "trailing" /\ Become(WithTop(f), "entry")
  BY <1>1, <1>3, <1>5, WithTopOutcome DEF Listed
<1>6. CASE expecting = "trailing" /\ Become(stack, "entry")
  BY <1>1, <1>6, BecomeOutcome DEF Listed
<1>7. CASE Become(stack, expecting)
  <2>1. Bracket(t) + Listed(expecting) = Listed(expecting)  BY <1>1, <1>4
  <2>. QED  BY <1>1, <1>7, <2>1, BecomeOutcome
<1>. QED  BY <1>2, <1>5, <1>6, <1>7

\* Every step has one of the outcomes.
LEMMA StepOutcome ==
  ASSUME IInv, expecting # "failed", NEW t, Step(t)
  PROVE  Outcome(t)
<1>1. CASE SkipComment(t)  BY <1>1, SkipOutcome
<1>2. CASE LexicalError(t)  BY <1>2, AbortOutcome DEF LexicalError, Fail, Other
<1>3. CASE Entry(t)  BY <1>3, EntryOutcome
<1>4. CASE NodeBody(t) \/ FieldValue(t) \/ Replacement(t)  BY <1>4, ValueOutcome
<1>5. CASE Operation(t) \/ DeletedKey(t) \/ ReplacedKey(t)  BY <1>5, OperationOutcome
<1>6. CASE DirectiveColon(t) \/ DirectiveText(t) \/ Import(t) \/ ImportPath(t) \/ ImportSeparator(t)
  BY <1>6, HeaderOutcome
<1>. QED  BY <1>1, <1>2, <1>3, <1>4, <1>5, <1>6 DEF Step

-----------------------------------------------------------------------------

\* Initially nothing is open.
LEMMA InitIInv == Init => IInv
<1>. SUFFICES ASSUME Init PROVE IInv  OBVIOUS
<1>1. IsSeq(input) /\ pos = 0 /\ Len(input) \in Nat
  BY TokensAssumption, SeqLen DEF Init, IsSeq
<1>2. ASSUME NEW tags
      PROVE  Count(tags) = 0
  <2>1. {i \in 1..pos : i <= Len(input) /\ input[i].tag \in tags} = {}  BY <1>1
  <2>. QED  BY <2>1, FS_EmptySet DEF Count
<1>3. Brackets = 0 /\ Listed(expecting) = 0
  BY <1>2 DEF Brackets, Listed, Init
<1>4. FramesSound(stack) /\ Len(stack) = 1
  <2>1. stack = <<Frame("file")>>  BY DEF Init
  <2>2. "kind" \in DOMAIN Frame("file") /\ Frame("file").kind = "file"  BY DEF Frame
  <2>3. stack \in Seq({Frame("file")})  BY <2>1
  <2>4. IsSeq(stack)  BY <2>3 DEF IsSeq
  <2>5. Len(stack) = 1 /\ stack[1] = Frame("file")  BY <2>1
  <2>. QED  BY <2>2, <2>4, <2>5 DEF FramesSound
<1>. QED  BY <1>1, <1>3, <1>4, TokensAssumption DEF Init, IInv, InputSound, GuardSound

\* Each step keeps the guard, the stack and the brackets in step.
LEMMA NextIInv == IInv /\ [Next]_vars => IInv'
<1>. SUFFICES ASSUME IInv, [Next]_vars PROVE IInv'  OBVIOUS
<1>1. CASE UNCHANGED vars
  BY <1>1 DEF vars, IInv, InputSound, FramesSound, GuardSound, Brackets, Count
<1>2. CASE Parse
  <2>1. PICK t \in Upcoming : Read(t) /\ Step(t)  BY <1>2 DEF Parse
  <2>2. expecting # "failed"  BY <1>2 DEF Parse, Ended
  <2>3. InputSound /\ GuardSound  BY <2>2 DEF IInv
  <2>4. Outcome(t)  BY <2>1, <2>2, StepOutcome
  <2>5. InputSound'  BY <2>1, <2>3, ReadNext
  <2>6. Brackets \in Int /\ Brackets' = Brackets + Bracket(t)  BY <2>1, <2>3, BracketsNext
  <2>7. /\ Bracket(t) \in {0, 1, -1} /\ Listed(expecting) \in {0, 1}
        /\ Listed(expecting') \in {0, 1}
    BY DEF Bracket, Listed
  <2>8. depth = Brackets - Listed(expecting) /\ depth \in Nat  BY <2>3 DEF GuardSound
  <2>9. CASE expecting' # "failed"
    <3>1. /\ FramesSound(stack') /\ depth' \in Nat /\ depth' <= MaxNestingDepth
          /\ Len(stack') = depth' + 1
          /\ depth' = depth + Bracket(t) + Listed(expecting) - Listed(expecting')
      BY <2>4, <2>9 DEF Outcome
    <3>2. depth' = Brackets' - Listed(expecting')  BY <2>6, <2>7, <2>8, <3>1
    <3>3. GuardSound'  BY <3>1, <3>2 DEF GuardSound
    <3>. QED  BY <2>5, <2>9, <3>1, <3>3 DEF IInv, FramesSound
  <2>10. CASE expecting' = "failed"
    <3>1. \/ result'.code # "NESTING_TOO_DEEP"
          \/ /\ depth' = MaxNestingDepth + 1
             /\ depth' = depth + Bracket(t) + Listed(expecting)
      BY <2>4, <2>10 DEF Outcome
    <3>2. result'.code = "NESTING_TOO_DEEP" => depth' = Brackets' /\ depth' = MaxNestingDepth + 1
      BY <2>6, <2>7, <2>8, <3>1
    <3>. QED  BY <2>10, <3>2 DEF IInv
  <2>. QED  BY <2>9, <2>10
<1>. QED  BY <1>1, <1>2 DEF Next

\* The guard, the lists under way and the brackets of the text stay in step, for
\* every style of texts and every maximum (parser.rs, enter and leave, and every
\* return of the three recursive functions).
THEOREM ParserInductive == Spec => []IInv
BY InitIInv, NextIInv, PTL DEF Spec

\* The depth guard is the number of brackets that are open in the text, and no
\* parse goes on beyond the maximum (parser.rs, enter and leave).
THEOREM DepthGuard == Spec => []DepthIsNesting
<1>1. IInv => DepthIsNesting
  <2>1. Nesting = Brackets - Listed(expecting)
    BY DEF Nesting, Brackets, Opening, Closing, Listed
  <2>2. expecting = "failed" => Listed(expecting) = 0  BY DEF Listed
  <2>3. ASSUME IInv, expecting # "failed"
        PROVE  depth = Nesting /\ Len(stack) = depth + 1 /\ depth <= MaxNestingDepth
    BY <2>1, <2>3 DEF IInv, GuardSound
  <2>4. ASSUME IInv, expecting = "failed", result.code = "NESTING_TOO_DEEP"
        PROVE  depth = Nesting /\ depth = MaxNestingDepth + 1
    <3>1. depth = Brackets /\ depth = MaxNestingDepth + 1  BY <2>4 DEF IInv
    <3>2. depth - 0 = depth  BY <3>1, TokensAssumption
    <3>. QED  BY <2>1, <2>2, <2>4, <3>1, <3>2
  <2>. QED  BY <2>3, <2>4 DEF DepthIsNesting
<1>. QED  BY <1>1, ParserInductive, PTL

-----------------------------------------------------------------------------
\* Texts that are one array: what Without keeps.

\* What Without returns is the last value of a recursion over the tokens.
LEMMA WithoutUnfold ==
  ASSUME NEW E, NEW ts \in Seq(E), NEW tags
  PROVE  \E f : /\ f \in [0..Len(ts) -> Seq(E)] /\ f[0] = <<>> /\ Without(ts, tags) = f[Len(ts)]
                /\ \A i \in 1..Len(ts) :
                     f[i] = IF ts[i].tag \in tags THEN f[i - 1] ELSE Append(f[i - 1], ts[i])
<1>. DEFINE n == Len(ts)
            g == [p \in Seq(E) \X E |-> IF p[2].tag \in tags THEN p[1] ELSE Append(p[1], p[2])]
            K(h) == [i \in 0..n |-> IF i = 0 THEN <<>>
                                    ELSE IF ts[i].tag \in tags THEN h[i - 1]
                                    ELSE Append(h[i - 1], ts[i])]
<1>1. g \in [Seq(E) \X E -> Seq(E)]  OBVIOUS
<1>2. <<>> \in Seq(E) /\ n \in Nat /\ \A i \in 1..n : ts[i] \in E  OBVIOUS
<1>. HIDE DEF g
<1>3. PICK f \in [0..n -> Seq(E)] : Looping(f, <<>>, g, ts)
  BY <1>1, <1>2, LoopExists
<1>4. ASSUME NEW i \in 1..n
      PROVE  f[i] = IF ts[i].tag \in tags THEN f[i - 1] ELSE Append(f[i - 1], ts[i])
  <2>1. f[i] = g[<<f[i - 1], ts[i]>>]  BY <1>3 DEF Looping
  <2>2. f[i - 1] \in Seq(E) /\ ts[i] \in E  BY <1>2, <1>3
  <2>. QED  BY <2>1, <2>2 DEF g
<1>5. f[0] = <<>>  BY <1>3 DEF Looping
<1>6. f = K(f)
  <2>1. \A i \in 0..n : f[i] = K(f)[i]
    <3>1. \A i \in 0..n : i = 0 \/ i \in 1..n  BY <1>2
    <3>. QED  BY <1>4, <1>5, <3>1
  <2>. QED  BY <1>3, <2>1
<1>7. PICK h : h = K(h) /\ Without(ts, tags) = h[n]
  <2>1. Without(ts, tags) = (CHOOSE h : h = K(h))[n]  BY DEF Without
  <2>. QED  BY <1>6, <2>1
<1>8. \A i \in 0..n : h[i] = K(h)[i]  BY <1>7
<1>9. h[0] = <<>> /\ \A i \in 1..n :
         h[i] = IF ts[i].tag \in tags THEN h[i - 1] ELSE Append(h[i - 1], ts[i])
  BY <1>2, <1>8
<1>. HIDE DEF K
<1>10. InStep(f, h, n)
  BY <1>2, <1>4, <1>5, <1>9 DEF InStep
<1>11. f[n] = h[n]  BY <1>2, <1>10, StepAgree
<1>. QED  BY <1>3, <1>4, <1>5, <1>7, <1>11

\* One more token is left out, or is one more.
LEMMA WithoutAppend ==
  ASSUME NEW ts, IsSeq(ts), NEW t, NEW tags
  PROVE  /\ Without(Append(ts, t), tags)
              = IF t.tag \in tags THEN Without(ts, tags) ELSE Append(Without(ts, tags), t)
         /\ IsSeq(Without(ts, tags))
<1>1. PICK S : ts \in Seq(S)  BY DEF IsSeq
<1>. DEFINE E == S \cup {t}
            n == Len(ts)
            us == Append(ts, t)
<1>2. /\ ts \in Seq(E) /\ us \in Seq(E) /\ n \in Nat /\ Len(us) = n + 1 /\ us[n + 1] = t
      /\ \A i \in 1..n : us[i] = ts[i]
  BY <1>1
<1>. HIDE DEF us, E
<1>3. PICK f : /\ f \in [0..n -> Seq(E)] /\ f[0] = <<>> /\ Without(ts, tags) = f[n]
               /\ \A i \in 1..n :
                    f[i] = IF ts[i].tag \in tags THEN f[i - 1] ELSE Append(f[i - 1], ts[i])
  <2>1. ts \in Seq(E)  BY <1>2
  <2>. HIDE DEF n
  <2>. QED  BY ONLY <2>1, WithoutUnfold DEF n
<1>4. PICK h : /\ h[0] = <<>> /\ Without(us, tags) = h[n + 1]
               /\ \A i \in 1..(n + 1) :
                    h[i] = IF us[i].tag \in tags THEN h[i - 1] ELSE Append(h[i - 1], us[i])
  BY <1>2, WithoutUnfold
<1>5. InStep(f, h, n)
  <2>1. \A i \in 1..n : i \in 1..(n + 1)  BY <1>2
  <2>. QED  BY <1>2, <1>3, <1>4, <2>1 DEF InStep
<1>6. f[n] = h[n]  BY <1>2, <1>5, StepAgree
<1>7. h[n + 1] = IF t.tag \in tags THEN h[n] ELSE Append(h[n], t)
  <2>1. n + 1 \in 1..(n + 1) /\ (n + 1) - 1 = n  BY <1>2
  <2>. QED  BY <1>2, <1>4, <2>1
<1>8. f[n] \in Seq(E)  BY <1>2, <1>3
<1>. QED  BY <1>3, <1>4, <1>6, <1>7, <1>8 DEF us, IsSeq

\* Of no tokens there are none.
LEMMA WithoutNone ==
  ASSUME NEW ts, ts = <<>>, NEW tags
  PROVE  Without(ts, tags) = <<>>
<1>1. PICK E : ts \in Seq(E)
  <2>1. ts \in Seq({})  OBVIOUS
  <2>. QED  BY <2>1
<1>2. PICK f : f[0] = <<>> /\ Without(ts, tags) = f[Len(ts)]
  BY ONLY <1>1, WithoutUnfold
<1>3. Len(ts) = 0  OBVIOUS
<1>. QED  BY <1>2, <1>3

-----------------------------------------------------------------------------

\* What an element or a comma may be: an object is its brace.
ElementTags == (Scalars \ {"string"}) \cup {"{", ","}

IsElements(es) == IsSeq(es) /\ \A i \in 1..Len(es) : es[i].tag \in ElementTags

\* A text that is one array, whose bracket is its token b.
ArrayText(s, b) ==
  /\ IsSeq(s) /\ b \in {2, 3} /\ b <= Len(s)
  /\ \A i \in 1..Len(s) : s[i].tag = "[" <=> i = b

\* The elements and commas behind the bracket.
Behind(s, b) == Without(SubSeq(s, b + 1, Len(s)), Closing)

\* The brackets, braces and commas are no scalars.
LEMMA ArrayTags ==
  /\ "{" \in ElementTags /\ "," \in ElementTags
  /\ \A tag \in ElementTags : tag \notin Closing /\ tag # "["
  /\ \A tag \in Closing : tag # "["
BY Zenon DEF ElementTags, Closing, Scalars

\* What the property calls the elements.
LEMMA ElementsBehind ==
  ASSUME NEW b, ArrayText(input, b), pos \in Nat, pos >= Len(input)
  PROVE  Taken = input /\ Elements = Behind(input, b)
<1>1. PICK S : input \in Seq(S)  BY DEF ArrayText, IsSeq
<1>2. Taken = input  BY <1>1 DEF Taken
<1>3. (CHOOSE i \in DOMAIN input : input[i].tag = "[") = b
  BY <1>1 DEF ArrayText
<1>4. Elements = Without(SubSeq(input, b + 1, Len(input)), {"}", "]"})
  BY <1>2, <1>3 DEF Elements
<1>. QED  BY <1>2, <1>4 DEF Behind, Closing

\* One more token is one more element, or it closes something.
LEMMA BehindNext ==
  ASSUME NEW s, NEW b, ArrayText(s, b), IsElements(Behind(s, b)),
         NEW t, t.tag \in ElementTags \cup Closing
  PROVE  /\ ArrayText(Append(s, t), b) /\ IsElements(Behind(Append(s, t), b))
         /\ Behind(Append(s, t), b)
              = IF t.tag \in Closing THEN Behind(s, b) ELSE Append(Behind(s, b), t)
<1>. DEFINE n == Len(s)
            u == Append(s, t)
            es == Behind(s, b)
<1>1. PICK S : s \in Seq(S)  BY DEF ArrayText, IsSeq
<1>2. /\ n \in Nat /\ b \in Nat /\ b <= n /\ IsSeq(u) /\ Len(u) = n + 1 /\ u[n + 1] = t
      /\ \A i \in 1..n : u[i] = s[i]
  BY <1>1, SeqAppend, SeqLen DEF ArrayText
<1>3. ArrayText(u, b)
  <2>1. t.tag # "["  BY ArrayTags
  <2>2. \A i \in 1..(n + 1) : i \in 1..n \/ i = n + 1  BY <1>2
  <2>. HIDE DEF u
  <2>3. ASSUME NEW i \in 1..(n + 1) PROVE u[i].tag = "[" <=> i = b
    BY <1>2, <2>1, <2>2 DEF ArrayText
  <2>. QED  BY <1>2, <2>3 DEF ArrayText
<1>4. SubSeq(u, b + 1, n + 1) = Append(SubSeq(s, b + 1, n), t) /\ IsSeq(SubSeq(s, b + 1, n))
  <2>1. s \in Seq(S \cup {t}) /\ u \in Seq(S \cup {t})  BY <1>1
  <2>2. SubSeq(s, b + 1, n) \in Seq(S)  BY <1>1, <1>2
  <2>3. SubSeq(u, b + 1, n + 1) = Append(SubSeq(s, b + 1, n), t)
    <3>1. b + 1 \in Nat /\ 1 <= b + 1 /\ b + 1 <= n + 1  BY <1>2
    <3>2. SubSeq(Append(s, t), b + 1, n + 1) = Append(SubSeq(s, b + 1, n), t)
      <4>1. s \in Seq(S \cup {t}) /\ t \in S \cup {t}  BY <2>1
      <4>. QED  BY <3>1, <4>1, RunAppend, Zenon
    <3>. QED  BY <3>2
  <2>. QED  BY <2>2, <2>3 DEF IsSeq
<1>5. Behind(u, b) = IF t.tag \in Closing THEN es ELSE Append(es, t)
  <2>1. Behind(u, b) = Without(Append(SubSeq(s, b + 1, n), t), Closing)
    BY <1>2, <1>4 DEF Behind
  <2>2. es = Without(SubSeq(s, b + 1, n), Closing)  BY DEF Behind
  <2>3. Without(Append(SubSeq(s, b + 1, n), t), Closing)
          = IF t.tag \in Closing THEN Without(SubSeq(s, b + 1, n), Closing)
            ELSE Append(Without(SubSeq(s, b + 1, n), Closing), t)
    BY <1>4, WithoutAppend
  <2>. QED  BY ONLY <2>1, <2>2, <2>3
<1>6. t.tag \notin Closing => IsElements(Append(es, t))
  <2>. SUFFICES ASSUME t.tag \notin Closing PROVE IsElements(Append(es, t))  OBVIOUS
  <2>. HIDE DEF es
  <2>1. /\ IsSeq(es) /\ Len(es) \in Nat /\ IsSeq(Append(es, t)) /\ Len(Append(es, t)) = Len(es) + 1
        /\ \A i \in 1..Len(es) : Append(es, t)[i] = es[i]
        /\ Append(es, t)[Len(es) + 1] = t
    BY SeqAppend, SeqLen DEF IsElements, es
  <2>2. \A i \in 1..(Len(es) + 1) : i \in 1..Len(es) \/ i = Len(es) + 1  BY <2>1
  <2>. QED  BY <2>1, <2>2 DEF IsElements, es
<1>. QED  BY <1>3, <1>5, <1>6

-----------------------------------------------------------------------------

\* The types that elements can fix.
Types == {"int", "float", "bool", "string", "object"}

\* A value is due: nothing is there, or a comma is the last.
Wants(es) == es = <<>> \/ es[Len(es)].tag = ","

\* The three parts of what lets elements go on.
OneType(es) == \A x, y \in TypesIn(es) : x = y

CommasSound(es) == \A i \in DOMAIN es : es[i].tag = "," => i > 1 /\ es[i - 1].tag # ","

\* Values may stay without commas between them.
Loose(es) == TypesIn(es) \subseteq {"object"}

Values(es) == Without(es, {","})

\* The three things that let elements go on.
LEMMA ViableIs ==
  ASSUME NEW es
  PROVE  Viable(es) <=> OneType(es) /\ CommasSound(es) /\ (Loose(es) \/ Separated(es))
BY DEF Viable, OneType, CommasSound, Loose

\* An element that is no comma has a type, which its value gets from the parser.
LEMMA TypeKnown ==
  ASSUME NEW t, t.tag \in ElementTags \ {","}
  PROVE  /\ TypeOf(t) \in Types \cup {"null"}
         /\ t.tag \in Scalars => ScalarOf(t).type = TypeOf(t) /\ t.tag # "{"
         /\ t.tag = "{" => TypeOf(t) = "object" /\ t.tag \notin Scalars
         /\ t.tag = "{" \/ t.tag \in Scalars
<1>1. ScalarOf(t).type = IF t.tag = "triple" THEN "string" ELSE t.tag
  BY DEF ScalarOf, Value
<1>. QED  BY <1>1 DEF TypeOf, ElementTags, Scalars, Types

\* Elements and one more.
LEMMA NextElement ==
  ASSUME NEW es, IsElements(es), NEW t, t.tag \in ElementTags
  PROVE  /\ IsSeq(es) /\ Len(es) \in Nat /\ DOMAIN es = 1..Len(es) /\ (es = <<>> <=> Len(es) = 0)
         /\ IsElements(Append(es, t)) /\ Append(es, t) # <<>>
         /\ Len(Append(es, t)) = Len(es) + 1 /\ DOMAIN Append(es, t) = 1..(Len(es) + 1)
         /\ \A i \in 1..Len(es) : Append(es, t)[i] = es[i]
         /\ Append(es, t)[Len(es) + 1] = t
<1>1. PICK S : es \in Seq(S)  BY DEF IsElements, IsSeq
<1>2. /\ IsSeq(es) /\ Len(es) \in Nat /\ DOMAIN es = 1..Len(es) /\ (es = <<>> <=> Len(es) = 0)
      /\ IsSeq(Append(es, t)) /\ Len(Append(es, t)) = Len(es) + 1
      /\ \A i \in 1..Len(es) : Append(es, t)[i] = es[i]
      /\ Append(es, t)[Len(es) + 1] = t
  BY <1>1, SeqAppend DEF IsElements
<1>3. DOMAIN Append(es, t) = 1..(Len(es) + 1) /\ Append(es, t) # <<>>
  <2>1. PICK u : u = Append(es, t)  OBVIOUS
  <2>2. DOMAIN u = 1..Len(u) /\ Len(u) = Len(es) + 1  BY <1>2, <2>1, SeqLen
  <2>3. u # <<>>
    <3>1. Len(u) # 0  BY <1>2, <2>2
    <3>. QED  BY <3>1, SeqEmpty
  <2>. QED  BY <2>1, <2>2, <2>3
<1>4. \A i \in 1..(Len(es) + 1) : i \in 1..Len(es) \/ i = Len(es) + 1
  BY <1>2
<1>5. IsElements(Append(es, t))
  BY <1>2, <1>4 DEF IsElements
<1>. QED  BY <1>2, <1>3, <1>5

\* A value is due behind a comma, and behind nothing else.
LEMMA WantsNext ==
  ASSUME NEW es, IsElements(es), NEW t, t.tag \in ElementTags
  PROVE  Wants(Append(es, t)) <=> t.tag = ","
<1>1. PICK u : u = Append(es, t)  OBVIOUS
<1>2. u # <<>> /\ u[Len(u)] = t  BY <1>1, NextElement
<1>. QED  BY <1>1, <1>2 DEF Wants

\* Elements stay separated if a comma is the last of them or the next.
LEMMA SeparatedNext ==
  ASSUME NEW es, IsElements(es), NEW t, t.tag \in ElementTags
  PROVE  Separated(Append(es, t)) <=> Separated(es) /\ (Wants(es) \/ t.tag = ",")
<1>. DEFINE n == Len(es)
            u == Append(es, t)
<1>1. /\ n \in Nat /\ (es = <<>> <=> n = 0) /\ Len(u) = n + 1 /\ u[n + 1] = t
      /\ \A i \in 1..n : u[i] = es[i]
  BY NextElement
<1>. HIDE DEF u
<1>2. Separated(es) <=> \A i \in 2..n : "," \in {u[i - 1].tag, u[i].tag}
  <2>1. \A i \in 2..n : i \in 1..n /\ i - 1 \in 1..n  BY <1>1
  <2>. QED  BY <1>1, <2>1 DEF Separated
<1>3. Separated(u) <=> \A i \in 2..(n + 1) : "," \in {u[i - 1].tag, u[i].tag}
  BY <1>1 DEF Separated
<1>4. CASE n = 0
  <2>1. Separated(es) /\ Separated(u)  BY <1>1, <1>2, <1>3, <1>4
  <2>2. Wants(es)  BY <1>1, <1>4 DEF Wants
  <2>. QED  BY <2>1, <2>2 DEF u
<1>5. CASE n # 0
  <2>1. n + 1 \in 2..(n + 1) /\ (n + 1) - 1 = n /\ n \in 1..n  BY <1>1, <1>5
  <2>2. \A i \in 2..(n + 1) : i \in 2..n \/ i = n + 1  BY <1>1
  <2>3. \A i \in 2..n : i \in 2..(n + 1)  BY <1>1
  <2>4. Wants(es) <=> u[n].tag = ","  BY <1>1, <1>5, <2>1 DEF Wants
  <2>5. Separated(u) <=> Separated(es) /\ "," \in {u[n].tag, u[n + 1].tag}
    BY <1>2, <1>3, <2>1, <2>2, <2>3
  <2>. QED  BY <1>1, <2>4, <2>5 DEF u
<1>. QED  BY <1>4, <1>5

\* Commas stay single if the next one does not come where a value is due.
LEMMA CommasNext ==
  ASSUME NEW es, IsElements(es), NEW t, t.tag \in ElementTags
  PROVE  CommasSound(Append(es, t)) <=> CommasSound(es) /\ (t.tag = "," => ~ Wants(es))
<1>. DEFINE n == Len(es)
            u == Append(es, t)
            ok(s, i) == s[i].tag = "," => i > 1 /\ s[i - 1].tag # ","
<1>1. /\ n \in Nat /\ (es = <<>> <=> n = 0) /\ DOMAIN es = 1..n
      /\ DOMAIN u = 1..(n + 1) /\ u[n + 1] = t
      /\ \A i \in 1..n : u[i] = es[i]
  BY NextElement
<1>. HIDE DEF u
<1>2. \A i \in 1..n : ok(u, i) <=> ok(es, i)
  <2>1. \A i \in 1..n : i > 1 => i - 1 \in 1..n  BY <1>1
  <2>. QED  BY <1>1, <2>1
<1>3. ok(u, n + 1) <=> (t.tag = "," => ~ Wants(es))
  <2>1. CASE n = 0  BY <1>1, <2>1 DEF Wants
  <2>2. CASE n # 0
    <3>1. n + 1 > 1 /\ (n + 1) - 1 = n /\ n \in 1..n  BY <1>1, <2>2
    <3>. QED  BY <1>1, <2>2, <3>1 DEF Wants
  <2>. QED  BY <2>1, <2>2
<1>4. CommasSound(es) <=> \A i \in 1..n : ok(es, i)  BY <1>1 DEF CommasSound
<1>5. CommasSound(u) <=> \A i \in 1..(n + 1) : ok(u, i)  BY <1>1 DEF CommasSound
<1>. HIDE DEF ok
<1>6. \A i \in 1..(n + 1) : i \in 1..n \/ i = n + 1  BY <1>1
<1>7. n + 1 \in 1..(n + 1) /\ \A i \in 1..n : i \in 1..(n + 1)  BY <1>1
<1>8. CommasSound(u) <=> CommasSound(es) /\ ok(u, n + 1)
  BY <1>2, <1>4, <1>5, <1>6, <1>7
<1>. QED  BY <1>3, <1>8 DEF u

\* The next element adds its type, unless it is a comma or a null.
LEMMA TypesNext ==
  ASSUME NEW es, IsElements(es), NEW t, t.tag \in ElementTags
  PROVE  TypesIn(Append(es, t))
           = IF t.tag = "," THEN TypesIn(es) ELSE TypesIn(es) \cup ({TypeOf(t)} \ {"null"})
<1>. DEFINE n == Len(es)
            u == Append(es, t)
            I == {j \in DOMAIN es : es[j].tag # ","}
            J == {j \in DOMAIN u : u[j].tag # ","}
<1>1. /\ n \in Nat /\ DOMAIN es = 1..n /\ DOMAIN u = 1..(n + 1) /\ u[n + 1] = t
      /\ \A i \in 1..n : u[i] = es[i]
  BY NextElement
<1>. HIDE DEF u
<1>2. J = I \cup (IF t.tag = "," THEN {} ELSE {n + 1})
  <2>1. \A i \in 1..(n + 1) : i \in 1..n \/ i = n + 1  BY <1>1
  <2>2. n + 1 \in 1..(n + 1) /\ \A i \in 1..n : i \in 1..(n + 1)  BY <1>1
  <2>. QED  BY <1>1, <2>1, <2>2
<1>3. \A i \in I : u[i] = es[i]  BY <1>1
<1>. HIDE DEF I, J
<1>4. {TypeOf(u[i]) : i \in J}
        = {TypeOf(es[i]) : i \in I} \cup (IF t.tag = "," THEN {} ELSE {TypeOf(t)})
  BY <1>1, <1>2, <1>3
<1>5. TypesIn(u) = {TypeOf(u[i]) : i \in J} \ {"null"}  BY DEF TypesIn, J
<1>6. TypesIn(es) = {TypeOf(es[i]) : i \in I} \ {"null"}  BY DEF TypesIn, I
<1>7. TypesIn(u) = IF t.tag = "," THEN TypesIn(es) ELSE TypesIn(es) \cup ({TypeOf(t)} \ {"null"})
  BY <1>4, <1>5, <1>6
<1>. QED  BY <1>7 DEF u

\* The types of elements are those of scalars and of objects, without null.
LEMMA TypesKnown ==
  ASSUME NEW es, IsElements(es)
  PROVE  TypesIn(es) \subseteq Types
<1>1. DOMAIN es = 1..Len(es)  BY SeqLen DEF IsElements
<1>2. \A i \in DOMAIN es : es[i].tag \in ElementTags  BY <1>1 DEF IsElements
<1>3. \A i \in DOMAIN es : es[i].tag # "," => TypeOf(es[i]) \in Types \cup {"null"}
  BY <1>2, TypeKnown
<1>. QED  BY <1>3 DEF TypesIn

-----------------------------------------------------------------------------

\* What the frame of the array holds as its type: none before the first value, null as
\* long as there are only nulls.
TypeFits(type, es) ==
  IF Values(es) = <<>> THEN type = NoType /\ TypesIn(es) = {}
  ELSE IF TypesIn(es) = {} THEN type = "null"
  ELSE TypesIn(es) = {type}

\* Commas that are not there, and that nothing but a later object can excuse.
Missing(es) == ~ Separated(es) /\ "object" \notin TypesIn(es)

\* The frame of an array.
IsArray(f) ==
  f = [kind |-> "array", head |-> f.head, children |-> f.children, items |-> f.items,
       elements |-> f.elements, needValue |-> f.needValue, missing |-> f.missing]

\* The frame holds what the elements so far say.
Fits(f, es) ==
  /\ IsArray(f) /\ IsSeq(f.items) /\ Len(f.items) = Len(Values(es))
  /\ TypeFits(f.elements, es) /\ Viable(es)
  /\ f.needValue \in BOOLEAN /\ (f.needValue <=> Wants(es))
  /\ f.missing \in BOOLEAN /\ (f.missing <=> Missing(es))

\* The next element adds a value, unless it is a comma.
LEMMA ValuesNext ==
  ASSUME NEW es, IsElements(es), NEW t, t.tag \in ElementTags
  PROVE  /\ Values(Append(es, t)) = IF t.tag = "," THEN Values(es) ELSE Append(Values(es), t)
         /\ IsSeq(Values(es)) /\ Len(Values(es)) \in Nat
         /\ t.tag # "," =>
              Values(Append(es, t)) # <<>> /\ Len(Values(Append(es, t))) = Len(Values(es)) + 1
<1>1. IsSeq(es)  BY DEF IsElements
<1>2. /\ Values(Append(es, t)) = IF t.tag = "," THEN Values(es) ELSE Append(Values(es), t)
      /\ IsSeq(Values(es))
  BY <1>1, WithoutAppend DEF Values
<1>3. PICK vs : vs = Values(es)  OBVIOUS
<1>4. PICK ws : ws = Append(vs, t)  OBVIOUS
<1>5. IsSeq(ws) /\ Len(vs) \in Nat /\ Len(ws) = Len(vs) + 1
  BY <1>2, <1>3, <1>4, SeqAppend, SeqLen
<1>6. ws # <<>>
  <2>1. Len(ws) # 0  BY <1>5
  <2>. QED  BY <2>1, SeqEmpty
<1>. QED  BY <1>2, <1>3, <1>4, <1>5, <1>6

\* The parser's type of an array tells whether the elements have one, and which.
LEMMA TypeFitsMeans ==
  ASSUME NEW es, IsElements(es), NEW type, TypeFits(type, es)
  PROVE  /\ Unfixed(type) <=> TypesIn(es) = {}
         /\ ~ Unfixed(type) => TypesIn(es) = {type}
         /\ type = "object" <=> "object" \in TypesIn(es)
         /\ OneType(es)
         /\ Loose(es) <=> Unfixed(type) \/ type = "object"
<1>1. TypesIn(es) \subseteq Types  BY TypesKnown
<1>. QED  BY <1>1 DEF TypeFits, Types, Unfixed, NoType, OneType, Loose

\* The type stays in step with the elements, or the next one shows two types.
LEMMA TypeTaken ==
  ASSUME NEW es, IsElements(es), NEW t, t.tag \in ElementTags \ {","},
         NEW type, TypeFits(type, es)
  PROVE  IF ~ Unfixed(type) /\ TypeOf(t) \notin {"null", type} THEN ~ OneType(Append(es, t))
         ELSE TypeFits(ElementType(type, TypeOf(t)), Append(es, t))
<1>1. TypesIn(Append(es, t)) = TypesIn(es) \cup ({TypeOf(t)} \ {"null"})
  BY TypesNext
<1>2. Values(Append(es, t)) # <<>>  BY ValuesNext
<1>3. TypeOf(t) \in Types \cup {"null"}  BY TypeKnown
<1>4. /\ Unfixed(type) <=> TypesIn(es) = {}
      /\ ~ Unfixed(type) => TypesIn(es) = {type}
  BY TypeFitsMeans
<1>5. CASE ~ Unfixed(type) /\ TypeOf(t) \notin {"null", type}
  BY <1>1, <1>4, <1>5 DEF OneType
<1>6. CASE ~ Unfixed(type) /\ TypeOf(t) \in {"null", type}
  <2>1. TypesIn(Append(es, t)) = {type}  BY <1>1, <1>4, <1>6
  <2>. QED  BY <1>2, <1>6, <2>1 DEF TypeFits, ElementType
<1>7. CASE Unfixed(type)
  <2>1. TypesIn(Append(es, t)) = {TypeOf(t)} \ {"null"}  BY <1>1, <1>4, <1>7
  <2>2. ElementType(type, TypeOf(t)) = TypeOf(t)  BY <1>7 DEF ElementType
  <2>3. TypeFits(TypeOf(t), Append(es, t))
    BY <1>2, <2>1 DEF TypeFits
  <2>. QED  BY <1>7, <2>2, <2>3
<1>. QED  BY <1>5, <1>6, <1>7

\* A value goes to the array as the elements say.
LEMMA ValueTaken ==
  ASSUME NEW es, IsElements(es), NEW t, t.tag \in ElementTags \ {","},
         NEW f, Fits(f, es), NEW g, g = [f EXCEPT !.missing = f.missing \/ ~ f.needValue],
         NEW frames, IsSeq(frames), Len(frames) = 2, frames[2] = g,
         NEW v, v.type = TypeOf(t), Complete(frames, v)
  PROVE  \/ /\ expecting' = "entry" /\ UNCHANGED result
            /\ \E h : stack' = [frames EXCEPT ![2] = h] /\ Fits(h, Append(es, t))
         \/ expecting' = "failed" /\ UNCHANGED stack /\ ~ Viable(Append(es, t))
<1>. DEFINE us == Append(es, t)
            e == ElementType(f.elements, v.type)
            h == [g EXCEPT !.items = Append(g.items, v), !.elements = e,
                           !.needValue = FALSE, !.missing = g.missing /\ e # "object"]
<1>1. /\ IsArray(f) /\ IsSeq(f.items) /\ Len(f.items) = Len(Values(es))
      /\ TypeFits(f.elements, es) /\ OneType(es) /\ CommasSound(es) /\ (Loose(es) \/ Separated(es))
      /\ f.needValue \in BOOLEAN /\ (f.needValue <=> Wants(es))
      /\ f.missing \in BOOLEAN /\ (f.missing <=> Missing(es))
  BY ViableIs DEF Fits
<1>2. /\ g.kind = "array" /\ g.elements = f.elements /\ g.items = f.items
      /\ g.missing \in BOOLEAN /\ (g.missing <=> Missing(es) \/ ~ Wants(es)) /\ IsArray(g)
  <2>1. PICK m : m = (f.missing \/ ~ f.needValue)  OBVIOUS
  <2>2. m \in BOOLEAN /\ (m <=> f.missing \/ ~ f.needValue)  BY <2>1, Zenon
  <2>3. g = [f EXCEPT !.missing = m]  BY <2>1, Zenon
  <2>4. g = [kind |-> "array", head |-> f.head, children |-> f.children, items |-> f.items,
             elements |-> f.elements, needValue |-> f.needValue, missing |-> m]
    BY ONLY <1>1, <2>3 DEF IsArray
  <2>. HIDE DEF IsArray
  <2>5. g.missing = m  BY ONLY <2>4
  <2>6. g.missing \in BOOLEAN /\ (g.missing <=> Missing(es) \/ ~ Wants(es))  BY <1>1, <2>2, <2>5
  <2>7. /\ g.kind = "array" /\ g.elements = f.elements /\ g.items = f.items /\ IsArray(g)
    BY ONLY <2>4 DEF IsArray
  <2>. QED  BY <2>6, <2>7
<1>3. /\ Separated(us) <=> Separated(es) /\ Wants(es)
      /\ CommasSound(us) /\ ~ Wants(us)
  BY <1>1, SeparatedNext, CommasNext, WantsNext
<1>4. TypesIn(es) \subseteq TypesIn(us) /\ IsElements(us)
  <2>1. IsElements(us)  BY NextElement
  <2>2. TypesIn(us) = TypesIn(es) \cup ({TypeOf(t)} \ {"null"})  BY TypesNext
  <2>. QED  BY <2>1, <2>2
<1>5. IF ~ Unfixed(f.elements) /\ v.type \notin {"null", f.elements}
      THEN Abort("MIXED_ARRAY_TYPES")
      ELSE IF g.missing /\ ~ Unfixed(e) /\ e # "object" THEN Abort("EXPECTED_COMMA")
      ELSE Become([frames EXCEPT ![2] = h], "entry")
  <2>. DEFINE n == Len(frames)
              c == frames[n]
              ec == ElementType(c.elements, v.type)
  <2>1. IF c.kind # "array" THEN TRUE
        ELSE IF ~ Unfixed(c.elements) /\ v.type \notin {"null", c.elements}
        THEN Abort("MIXED_ARRAY_TYPES")
        ELSE IF c.missing /\ ~ Unfixed(ec) /\ ec # "object" THEN Abort("EXPECTED_COMMA")
        ELSE Become([frames EXCEPT ![n] =
               [c EXCEPT !.items = Append(c.items, v), !.elements = ec,
                         !.needValue = FALSE, !.missing = c.missing /\ ec # "object"]], "entry")
    BY Zenon DEF Complete
  <2>2. n = 2 /\ c = g  OBVIOUS
  <2>. HIDE DEF n, c
  <2>3. ec = e  BY <1>2, <2>2
  <2>. QED  BY <1>2, <2>1, <2>2, <2>3, Zenon
<1>. HIDE DEF us, h
<1>6. CASE ~ Unfixed(f.elements) /\ v.type \notin {"null", f.elements}
  <2>1. ~ OneType(us)
    <3>1. ~ Unfixed(f.elements) /\ TypeOf(t) \notin {"null", f.elements}  BY <1>6
    <3>. QED  BY <1>1, <3>1, TypeTaken DEF us
  <2>2. Abort("MIXED_ARRAY_TYPES")  BY <1>5, <1>6
  <2>. QED  BY <2>1, <2>2, ViableIs DEF Abort, us
<1>7. CASE ~ (~ Unfixed(f.elements) /\ v.type \notin {"null", f.elements})
  <2>1. TypeFits(e, us)  BY <1>1, <1>7, TypeTaken DEF us
  <2>. HIDE DEF e
  <2>2. /\ e = "object" <=> "object" \in TypesIn(us)
        /\ OneType(us)
        /\ Loose(us) <=> Unfixed(e) \/ e = "object"
    BY <1>4, <2>1, TypeFitsMeans
  <2>3. CASE g.missing /\ ~ Unfixed(e) /\ e # "object"
    <3>1. ~ Loose(us) /\ ~ Separated(us)
      BY <1>2, <1>3, <2>2, <2>3 DEF Missing
    <3>2. Abort("EXPECTED_COMMA")  BY <1>5, <1>7, <2>3
    <3>. QED  BY <3>1, <3>2, ViableIs DEF Abort, us
  <2>4. CASE ~ (g.missing /\ ~ Unfixed(e) /\ e # "object")
    <3>1. stack' = [frames EXCEPT ![2] = h] /\ expecting' = "entry" /\ UNCHANGED result
      BY <1>5, <1>7, <2>4 DEF Become
    <3>2. Loose(us) \/ Separated(us)
      BY <1>2, <1>3, <1>4, <2>2, <2>4 DEF Missing
    <3>3. Viable(us)  BY <1>3, <2>2, <3>2, ViableIs
    <3>4. g.missing /\ e # "object" <=> Missing(us)
      BY <1>2, <1>3, <1>4, <2>2 DEF Missing
    <3>5. PICK m : m = (g.missing /\ e # "object")  OBVIOUS
    <3>6. /\ IsArray(h) /\ h.items = Append(f.items, v) /\ h.elements = e
          /\ h.needValue = FALSE /\ h.missing = m
      <4>1. h = [g EXCEPT !.items = Append(g.items, v), !.elements = e,
                          !.needValue = FALSE, !.missing = m]
        BY <3>5, Zenon DEF h
      <4>2. h = [kind |-> "array", head |-> g.head, children |-> g.children,
                 items |-> Append(g.items, v), elements |-> e, needValue |-> FALSE, missing |-> m]
        BY ONLY <1>2, <4>1 DEF IsArray
      <4>. QED  BY ONLY <1>2, <4>2 DEF IsArray
    <3>7. IsSeq(h.items) /\ Len(h.items) = Len(Values(us))
      <4>1. /\ IsSeq(Append(f.items, v)) /\ Len(Append(f.items, v)) = Len(f.items) + 1
        BY <1>1, SeqAppend
      <4>2. Len(Values(us)) = Len(Values(es)) + 1  BY ValuesNext DEF us
      <4>. QED  BY <1>1, <3>6, <4>1, <4>2
    <3>8. h.missing \in BOOLEAN /\ (h.missing <=> Missing(us))  BY <3>4, <3>5, <3>6
    <3>9. h.needValue \in BOOLEAN /\ (h.needValue <=> Wants(us))  BY <1>3, <3>6
    <3>10. IsArray(h) /\ TypeFits(h.elements, us)  BY <2>1, <3>6
    <3>11. Fits(h, us)  BY <3>3, <3>7, <3>8, <3>9, <3>10 DEF Fits
    <3>. QED  BY <3>1, <3>11 DEF us
  <2>. QED  BY <2>3, <2>4
<1>. QED  BY <1>6, <1>7

-----------------------------------------------------------------------------

\* The place of the array's bracket.
Start == Len(style.beginning)

\* One node repeats no key, and is not folded.
FoldsOne == Len(Top.children) = 1 => Fold(Top.children) = Top.children

\* The file's frame before its node is complete.
OpenFile(f) ==
  /\ f = [kind |-> "file", head |-> f.head, children |-> <<>>, items |-> f.items,
          elements |-> f.elements, needValue |-> f.needValue, missing |-> f.missing]
  /\ f.head = [key |-> f.head.key, leading |-> f.head.leading, replace |-> f.head.replace,
               colonless |-> f.head.colonless]

\* The node that the elements make.
NodeFits(node, es, colonless) ==
  /\ WellFormedArray(es)
  /\ IF "object" \in TypesIn(es) \/ (Values(es) = <<>> /\ colonless)
     THEN node.kind = "array" /\ Len(node.items) = Len(Values(es))
     ELSE /\ node.kind = "field" /\ Len(node.value.items) = Len(Values(es))
          /\ node.value.elements = IF Values(es) = <<>> THEN "string"
                                   ELSE IF TypesIn(es) = {} THEN "null"
                                   ELSE CHOOSE x \in TypesIn(es) : TRUE

\* What the list and the elements make of what came last.
Rejected(kind, t, es) ==
  /\ kind = "array" /\ t.tag # "}" => IF t.tag = "]" THEN ~ WellFormedArray(es) ELSE ~ Viable(es)
  /\ kind = "object" /\ t.tag = "}" => ~ Viable(es)

\* The phases.  The key, the colon and the bracket are being read.
InBeginning ==
  /\ input = style.beginning /\ pos \in Nat /\ pos < Len(input)
  /\ \E f : /\ stack = <<f>> /\ OpenFile(f)
            /\ \/ pos = 0 /\ expecting = "entry"
               \/ pos = 1 /\ expecting = "body" /\ f.head.colonless = FALSE
               \/ pos = 2 /\ expecting = "value" /\ f.head.colonless = FALSE

\* The beginning is behind, and the elements are those of the text so far.
InText ==
  /\ ArrayText(input, Start) /\ IsElements(Behind(input, Start))
  /\ pos \in Nat /\ pos >= Len(input)

\* The frame of the file, whose key owns the array.
Owner(f) ==
  OpenFile(f) /\ f.head.colonless \in BOOLEAN /\ (f.head.colonless <=> Start = 2)

\* Between two elements.
InArray ==
  /\ InText /\ pos = Len(input) /\ expecting = "entry"
  /\ \E f, g : stack = <<f, g>> /\ Owner(f) /\ Fits(g, Behind(input, Start))

\* Behind the brace of an object.
InObject ==
  /\ InText /\ pos = Len(input) /\ expecting = "entry"
  /\ \E f, g, h, es, t :
       /\ stack = <<f, h, Frame("object")>> /\ Owner(f)
       /\ Behind(input, Start) = Append(es, t) /\ IsElements(es) /\ t.tag = "{"
       /\ Fits(g, es) /\ h = [g EXCEPT !.missing = g.missing \/ ~ g.needValue]

\* Behind the array.
BehindArray ==
  /\ InText /\ pos = Len(input) /\ expecting \in {"entry", "trailing"}
  /\ \E f, node : /\ stack = <<f>> /\ f.kind = "file" /\ f.children = <<node>>
                  /\ NodeFits(node, Behind(input, Start), Start = 2)

\* The text is accepted.
ArrayDone ==
  /\ InText /\ expecting = "done"
  /\ \E node : /\ result.doc.children = <<node>>
               /\ NodeFits(node, Behind(input, Start), Start = 2)

\* The text is rejected, for its nesting, for its end, or for what came last.
ArrayFailed ==
  /\ expecting = "failed"
  /\ \/ result.code = "NESTING_TOO_DEEP"
     \/ InText /\ pos > Len(input)
     \/ InText /\ Rejected(Top.kind, input[Len(input)], Behind(input, Start))

\* The inductive invariant: a text with a beginning is in one of the phases.
ArrayInv ==
  style \in Styles /\ (style.beginning # <<>> =>
    InBeginning \/ InArray \/ InObject \/ BehindArray \/ ArrayDone \/ ArrayFailed)

\* The lists of a file, and of a file and what it holds.
LEMMA Tuples ==
  ASSUME NEW f, NEW g, NEW h
  PROVE  /\ Len(<<f>>) = 1 /\ Len(<<f, g>>) = 2 /\ IsSeq(<<f>>) /\ IsSeq(<<f, g>>)
         /\ [<<f>> EXCEPT ![1] = g] = <<g>> /\ [<<f, g>> EXCEPT ![2] = h] = <<f, h>>
<1>1. <<f>> \in Seq({f}) /\ <<f, g>> \in Seq({f, g})  OBVIOUS
<1>2. IsSeq(<<f>>) /\ IsSeq(<<f, g>>)  BY <1>1, SeqIs
<1>3. [<<f>> EXCEPT ![1] = g] = <<g>> /\ [<<f, g>> EXCEPT ![2] = h] = <<f, h>>  OBVIOUS
<1>. QED  BY <1>2, <1>3

\* A list on the file's, and one on that.
LEMMA Second ==
  ASSUME NEW f, NEW g, NEW s, s = <<f, g>>
  PROVE  Len(s) = 2 /\ s[2] = g /\ SubSeq(s, 1, 1) = <<f>>
<1>1. Len(s) = 2 /\ s[2] = g /\ s[1] = f /\ s \in Seq({f, g})  OBVIOUS
<1>2. PICK u : u = SubSeq(s, 1, 1)  OBVIOUS
<1>3. u \in Seq({f, g}) /\ Len(u) = 1 /\ u[1] = f
  <2>1. u \in Seq({f, g}) /\ Len(u) = 1 /\ \A i \in 1..1 : u[i] = s[i]
    BY ONLY <1>1, <1>2
  <2>. QED  BY <1>1, <2>1
<1>4. u = <<f>>  BY ONLY <1>3
<1>. QED  BY <1>1, <1>2, <1>4

\* A list on the file's.
LEMMA Pushed2 ==
  ASSUME NEW f, NEW g, NEW s, s = <<f>>
  PROVE  Append(s, g) = <<f, g>>
<1>1. s \in Seq({f, g}) /\ Len(s) = 1 /\ s[1] = f  OBVIOUS
<1>2. PICK u : u = Append(s, g)  OBVIOUS
<1>3. u \in Seq({f, g}) /\ Len(u) = 2 /\ u[1] = f /\ u[2] = g
  BY ONLY <1>1, <1>2
<1>4. u = <<f, g>>  BY ONLY <1>3
<1>. QED  BY <1>2, <1>4

\* A list on another and on the file's.
LEMMA Third ==
  ASSUME NEW f, NEW g, NEW h, NEW s, s = <<f, g, h>>
  PROVE  Len(s) = 3 /\ s[3] = h /\ SubSeq(s, 1, 2) = <<f, g>>
<1>1. Len(s) = 3 /\ s[3] = h /\ s[1] = f /\ s[2] = g /\ s \in Seq({f, g, h})  OBVIOUS
<1>2. PICK u : u = SubSeq(s, 1, 2)  OBVIOUS
<1>3. u \in Seq({f, g, h}) /\ Len(u) = 2 /\ u[1] = f /\ u[2] = g
  <2>1. u \in Seq({f, g, h}) /\ Len(u) = 2 /\ \A i \in 1..2 : u[i] = s[i]
    BY ONLY <1>1, <1>2
  <2>. QED  BY <1>1, <2>1
<1>4. u = <<f, g>>  BY ONLY <1>3
<1>. QED  BY <1>1, <1>2, <1>4

\* And how it gets there.
LEMMA Pushed3 ==
  ASSUME NEW f, NEW g, NEW h, NEW s, s = <<f, g>>
  PROVE  Append(s, h) = <<f, g, h>>
<1>0. PICK E : E = {f, g, h}  OBVIOUS
<1>1. s \in Seq(E) /\ Len(s) = 2 /\ s[1] = f /\ s[2] = g /\ h \in E  BY <1>0
<1>2. PICK u : u = Append(s, h)  OBVIOUS
<1>3. u \in Seq(E) /\ Len(u) = 3 /\ u[3] = h /\ \A i \in 1..2 : u[i] = s[i]
  <2>1. u \in Seq(E)  BY ONLY <1>1, <1>2
  <2>2. IsSeq(s)  BY <1>1, SeqIs
  <2>3. Len(u) = Len(s) + 1 /\ u[Len(s) + 1] = h /\ \A i \in 1..Len(s) : u[i] = s[i]
    BY ONLY <1>2, <2>2, SeqAppend
  <2>. QED  BY ONLY <1>1, <2>1, <2>3
<1>4. u[1] = f /\ u[2] = g  BY <1>1, <1>3
<1>5. u = <<f, g, h>>  BY ONLY <1>3, <1>4
<1>. QED  BY <1>2, <1>5

\* The node that an array's list makes.
LEMMA NodeMade ==
  ASSUME NEW f, Owner(f), NEW g, NEW es, IsElements(es), Fits(g, es), ~ g.missing,
         NEW trailing, NEW v,
         v = Array(IF g.elements = NoType THEN "string" ELSE g.elements, g.items, trailing)
  PROVE  NodeFits(NodeOf(f.head, v), es, Start = 2) /\ v.type = "array"
<1>. DEFINE node == NodeOf(f.head, v)
            type == g.elements
<1>1. /\ TypeFits(type, es) /\ Len(g.items) = Len(Values(es)) /\ IsSeq(g.items) /\ Viable(es)
      /\ ~ Missing(es)
  BY DEF Fits
<1>2. WellFormedArray(es)  BY <1>1 DEF WellFormedArray, Missing
<1>3. /\ v.type = "array" /\ v.items = g.items
      /\ v.elements = IF type = NoType THEN "string" ELSE type
  BY DEF Array, Value
<1>4. /\ type = "object" <=> "object" \in TypesIn(es)
      /\ ~ Unfixed(type) => TypesIn(es) = {type}
  BY <1>1, TypeFitsMeans
<1>5. g.items = <<>> <=> Values(es) = <<>>
  <2>1. IsSeq(Values(es))
    BY WithoutAppend DEF IsElements, Values
  <2>. QED  BY <1>1, <2>1, SeqLen, SeqEmpty
<1>6. v.elements = "object" <=> "object" \in TypesIn(es)
  BY <1>3, <1>4 DEF NoType
<1>7. f.head.colonless <=> Start = 2  BY DEF Owner
<1>8. CASE v.elements = "object" \/ (f.head.colonless /\ v.items = <<>>)
  <2>1. node = [[Node(f.head.key, "array") EXCEPT !.leading = f.head.leading]
                   EXCEPT !.items = v.items, !.trailing = v.trailing]
    BY <1>3, <1>8 DEF NodeOf
  <2>2. node.kind = "array" /\ node.items = v.items  BY <2>1 DEF Node
  <2>. QED  BY <1>1, <1>2, <1>3, <1>5, <1>6, <1>7, <1>8, <2>2 DEF NodeFits
<1>9. CASE ~ (v.elements = "object" \/ (f.head.colonless /\ v.items = <<>>))
  <2>1. node = [[Node(f.head.key, "field") EXCEPT !.leading = f.head.leading] EXCEPT !.value = v]
    BY <1>3, <1>9 DEF NodeOf
  <2>2. node.kind = "field" /\ node.value = v  BY <2>1 DEF Node
  <2>3. v.elements = IF Values(es) = <<>> THEN "string"
                     ELSE IF TypesIn(es) = {} THEN "null"
                     ELSE CHOOSE x \in TypesIn(es) : TRUE
    <3>1. CASE Values(es) = <<>>  BY <1>1, <1>3, <3>1 DEF TypeFits
    <3>2. CASE Values(es) # <<>> /\ TypesIn(es) = {}
      BY <1>1, <1>3, <3>2 DEF TypeFits, NoType
    <3>3. CASE Values(es) # <<>> /\ TypesIn(es) # {}
      <4>1. TypesIn(es) = {type}  BY <1>1, <3>3 DEF TypeFits
      <4>2. type # NoType  BY <4>1, TypesKnown DEF Types, NoType
      <4>. QED  BY <1>3, <3>3, <4>1, <4>2
    <3>. QED  BY <3>1, <3>2, <3>3
  <2>. QED  BY <1>1, <1>2, <1>3, <1>5, <1>6, <1>7, <1>9, <2>2, <2>3 DEF NodeFits
<1>. QED  BY <1>3, <1>8, <1>9

-----------------------------------------------------------------------------

\* A token of a text that is one array: there is one more, or the end.
LEMMA ArrayToken ==
  ASSUME style \in Styles, style.beginning # <<>>, InText, pos = Len(input),
         NEW t \in Upcoming, Read(t)
  PROVE  /\ style' = style /\ pos' = pos + 1 /\ InText'
         /\ \/ /\ t = Eof /\ t.tag = "eof" /\ pos' > Len(input')
               /\ Behind(input, Start)' = Behind(input, Start)
            \/ /\ t.tag \in ElementTags \cup Closing
               /\ pos' = Len(input') /\ input'[Len(input')] = t
               /\ Behind(input, Start)' = IF t.tag \in Closing THEN Behind(input, Start)
                                          ELSE Append(Behind(input, Start), t)
<1>1. style' = style /\ pos' = pos + 1 /\ pos \in Nat /\ IsSeq(input) /\ ~ (pos < Len(input))
  BY DEF Read, InText, ArrayText
<1>2. Start' = Start  BY <1>1 DEF Start
<1>3. CASE t = Eof
  <2>1. input' = input  BY <1>3 DEF Read
  <2>. QED  BY <1>1, <1>2, <1>3, <2>1, EofTag DEF InText
<1>4. CASE t # Eof
  <2>1. PICK u \in style.tokens : t = Placed(u)  BY <1>1, <1>4 DEF Upcoming
  <2>2. u = Token(u.tag, u.text, u.sameLine) /\ u.tag \in ElementTags \cup Closing
    BY TokensAssumption, ArraysAssumption DEF ElementTags, Closing
  <2>3. t.tag = u.tag  BY <2>1, <2>2 DEF Placed, Token
  <2>4. input' = Append(input, t)  BY <1>1, <1>4 DEF Read
  <2>5. /\ Len(input') = Len(input) + 1 /\ input'[Len(input) + 1] = t /\ Len(input) \in Nat
    BY <1>1, <2>4, SeqAppend, SeqLen
  <2>6. /\ ArrayText(Append(input, t), Start) /\ IsElements(Behind(Append(input, t), Start))
        /\ Behind(Append(input, t), Start)
              = IF t.tag \in Closing THEN Behind(input, Start) ELSE Append(Behind(input, Start), t)
    <3>1. ArrayText(input, Start) /\ IsElements(Behind(input, Start))  BY DEF InText
    <3>2. t.tag \in ElementTags \cup Closing  BY <2>2, <2>3
    <3>. QED  BY <3>1, <3>2, BehindNext
  <2>7. pos' = Len(input')  BY <1>1, <2>5
  <2>8. InText'  BY <1>1, <1>2, <2>4, <2>6, <2>7 DEF InText
  <2>. QED  BY <1>1, <1>2, <2>2, <2>3, <2>4, <2>5, <2>6, <2>7, <2>8
<1>. QED  BY <1>3, <1>4

\* Where such a token goes.
LEMMA ArrayPlace ==
  ASSUME NEW t, t.tag \notin {"comment", "invalid"}, Step(t)
  PROVE  /\ expecting \in {"entry", "trailing"} => Entry(t)
         /\ expecting = "body" => NodeBody(t)
         /\ expecting = "value" => FieldValue(t)
BY DEF Step, SkipComment, Skips, LexicalError, Entry, NodeBody, FieldValue, Operation, DeletedKey,
  ReplacedKey, Replacement, DirectiveColon, DirectiveText, Import, ImportPath, ImportSeparator

\* Nobody but the key has a place in a list of nodes.
LEMMA NoNode ==
  ASSUME NEW t, t.tag \in ElementTags \cup Closing, NEW leading, NodeStart(t, leading)
  PROVE  Abort("EXPECTED_IDENT")
BY DEF NodeStart, Key, ElementTags, Closing, Scalars

\* The list of the file, when an array is its only value.
LEMMA BehindStep ==
  ASSUME FoldsOne, style \in Styles, style.beginning # <<>>, BehindArray,
         NEW t \in Upcoming, Read(t), Step(t)
  PROVE  ArrayInv'
<1>1. PICK f, node : /\ stack = <<f>> /\ f.kind = "file" /\ f.children = <<node>>
                     /\ NodeFits(node, Behind(input, Start), Start = 2)
  BY DEF BehindArray
<1>2. /\ style' = style /\ InText' /\ pos' = pos + 1
      /\ \/ /\ t = Eof /\ t.tag = "eof" /\ pos' > Len(input')
            /\ Behind(input, Start)' = Behind(input, Start)
         \/ t.tag \in ElementTags \cup Closing
  BY ArrayToken DEF BehindArray
<1>3. Top = f  BY <1>1, Tuples DEF Top
<1>4. FileEntry(t)
  <2>1. t.tag \notin {"comment", "invalid"}  BY <1>2 DEF ElementTags, Closing, Scalars
  <2>2. Entry(t)  BY <2>1, ArrayPlace DEF BehindArray
  <2>. QED  BY <1>1, <1>3, <2>2 DEF Entry
<1>5. CASE t = Eof
  <2>1. Finish  BY <1>4, <1>5 DEF FileEntry
  <2>2. Fold(Top.children) = <<node>>
    <3>1. Top.children = <<node>> /\ Len(<<node>>) = 1  BY <1>1, <1>3, Tuples
    <3>. QED  BY <3>1 DEF FoldsOne
  <2>3. expecting' = "done" /\ result'.doc.children = <<node>>
    BY <2>1, <2>2 DEF Finish, FinishedDocument, DocumentOf
  <2>4. Start' = Start  BY <1>2 DEF Start
  <2>5. t.tag \notin ElementTags \cup Closing
    BY <1>5, EofTag DEF ElementTags, Closing, Scalars
  <2>6. NodeFits(node, Behind(input, Start), Start = 2)'
    BY <1>1, <1>2, <2>4, <2>5 DEF NodeFits
  <2>7. ArrayDone'  BY <1>2, <2>3, <2>6 DEF ArrayDone
  <2>. QED  BY <1>2, <2>7 DEF ArrayInv
<1>6. CASE t.tag \in ElementTags \cup Closing
  <2>1. t # Eof /\ ~ Directive(t)
    BY <1>6, EofTag DEF ElementTags, Closing, Scalars, Directive
  <2>2. PICK leading : NodeStart(t, leading)  BY <1>4, <2>1 DEF FileEntry
  <2>3. Abort("EXPECTED_IDENT")  BY <1>6, <2>2, NoNode
  <2>4. expecting' = "failed" /\ Top' = f  BY <1>3, <2>3 DEF Abort, Top
  <2>5. Rejected(Top.kind, input[Len(input)], Behind(input, Start))'
    BY <1>1, <2>4 DEF Rejected
  <2>6. ArrayFailed'  BY <1>2, <2>4, <2>5 DEF ArrayFailed
  <2>. QED  BY <1>2, <2>6 DEF ArrayInv
<1>. QED  BY <1>2, <1>5, <1>6

\* A list is entered, or one too many.
LEMMA Entered ==
  ASSUME NEW kind, NEW frames, Enter(kind, frames)
  PROVE  \/ expecting' = "failed" /\ result'.code = "NESTING_TOO_DEEP"
         \/ stack' = Append(frames, Frame(kind)) /\ expecting' = "entry"
BY DEF Enter, Abort, Become

\* An object in the array.
LEMMA ObjectStep ==
  ASSUME style \in Styles, style.beginning # <<>>, InObject,
         NEW t \in Upcoming, Read(t), Step(t)
  PROVE  ArrayInv'
<1>1. PICK f, g, h, es, u :
       /\ stack = <<f, h, Frame("object")>> /\ Owner(f)
       /\ Behind(input, Start) = Append(es, u) /\ IsElements(es) /\ u.tag = "{"
       /\ Fits(g, es) /\ h = [g EXCEPT !.missing = g.missing \/ ~ g.needValue]
  BY DEF InObject
<1>2. /\ style' = style /\ InText' /\ pos' = pos + 1
      /\ \/ /\ t = Eof /\ t.tag = "eof" /\ pos' > Len(input')
            /\ Behind(input, Start)' = Behind(input, Start)
         \/ /\ t.tag \in ElementTags \cup Closing /\ pos' = Len(input') /\ input'[Len(input')] = t
            /\ Behind(input, Start)' = IF t.tag \in Closing THEN Behind(input, Start)
                                       ELSE Append(Behind(input, Start), t)
  BY ArrayToken DEF InObject
<1>3. Start' = Start  BY <1>2 DEF Start
<1>4. Top = Frame("object") /\ Top.kind = "object" /\ Below = <<f, h>>
  <2>1. PICK o : o = Frame("object")  OBVIOUS
  <2>2. stack = <<f, h, o>>  BY <1>1, <2>1
  <2>3. Len(stack) = 3 /\ stack[3] = o /\ SubSeq(stack, 1, 2) = <<f, h>>
    BY ONLY <2>2, Third
  <2>4. Top = o /\ Below = <<f, h>>  BY <2>3 DEF Top, Below
  <2>. QED  BY <2>1, <2>4 DEF Frame
<1>5. ObjectEntry(t)
  <2>1. t.tag \notin {"comment", "invalid"}  BY <1>2 DEF ElementTags, Closing, Scalars
  <2>2. Entry(t)  BY <2>1, ArrayPlace DEF InObject
  <2>. QED  BY <1>4, <2>2 DEF Entry
<1>6. CASE t.tag = "}"
  <2>1. Complete(<<f, h>>, FinishedObject)  BY <1>4, <1>5, <1>6 DEF ObjectEntry, Close
  <2>2. u.tag \in ElementTags \ {","} /\ TypeOf(u) = "object"
    BY <1>1 DEF ElementTags, TypeOf
  <2>3. FinishedObject.type = TypeOf(u)  BY <2>2 DEF FinishedObject, Object, Value
  <2>4. /\ t.tag \in Closing /\ pos' = Len(input') /\ input'[Len(input')] = t
        /\ Behind(input, Start)' = Append(es, u)
    BY <1>1, <1>2, <1>6 DEF Closing
  <2>5. IsSeq(<<f, h>>) /\ Len(<<f, h>>) = 2 /\ <<f, h>>[2] = h  BY Tuples
  <2>6. \/ /\ expecting' = "entry"
           /\ \E k : stack' = [<<f, h>> EXCEPT ![2] = k] /\ Fits(k, Append(es, u))
        \/ expecting' = "failed" /\ UNCHANGED stack /\ ~ Viable(Append(es, u))
    BY <1>1, <2>1, <2>2, <2>3, <2>5, ValueTaken
  <2>7. CASE expecting' = "failed" /\ UNCHANGED stack /\ ~ Viable(Append(es, u))
    <3>1. Top'.kind = "object"  BY <1>4, <2>7 DEF Top
    <3>2. Rejected(Top.kind, input[Len(input)], Behind(input, Start))'
      BY <2>4, <2>7, <3>1 DEF Rejected
    <3>3. ArrayFailed'  BY <1>2, <2>7, <3>2 DEF ArrayFailed
    <3>. QED  BY <1>2, <3>3 DEF ArrayInv
  <2>8. CASE /\ expecting' = "entry"
             /\ \E k : stack' = [<<f, h>> EXCEPT ![2] = k] /\ Fits(k, Append(es, u))
    <3>1. PICK k : stack' = [<<f, h>> EXCEPT ![2] = k] /\ Fits(k, Append(es, u))  BY <2>8
    <3>2. stack' = <<f, k>>  BY <3>1, Tuples
    <3>3. Owner(f)'  BY <1>1, <1>3 DEF Owner
    <3>4. InArray'  BY <1>2, <2>4, <2>8, <3>1, <3>2, <3>3 DEF InArray
    <3>. QED  BY <1>2, <3>4 DEF ArrayInv
  <2>. QED  BY <2>6, <2>7, <2>8
<1>7. CASE t = Eof
  <2>1. t.tag = "eof" /\ t.tag \notin ElementTags \cup Closing
    BY <1>7, EofTag DEF ElementTags, Closing, Scalars
  <2>2. expecting' = "failed"  BY <1>5, <1>7, <2>1 DEF ObjectEntry, Fail, Abort
  <2>3. ArrayFailed'  BY <1>2, <2>1, <2>2 DEF ArrayFailed
  <2>. QED  BY <1>2, <2>3 DEF ArrayInv
<1>8. CASE t.tag # "}" /\ t # Eof
  <2>1. NodeStart(t, buffer)  BY <1>5, <1>8 DEF ObjectEntry
  <2>2. Abort("EXPECTED_IDENT")  BY <1>2, <1>8, <2>1, NoNode
  <2>3. expecting' = "failed" /\ Top'.kind = "object"  BY <1>4, <2>2 DEF Abort, Top
  <2>4. Rejected(Top.kind, input[Len(input)], Behind(input, Start))'
    BY <1>2, <1>8, <2>3 DEF Rejected
  <2>5. ArrayFailed'  BY <1>2, <2>3, <2>4 DEF ArrayFailed
  <2>. QED  BY <1>2, <2>5 DEF ArrayInv
<1>. QED  BY <1>6, <1>7, <1>8

\* The array, between its elements.
LEMMA ArrayStep ==
  ASSUME style \in Styles, style.beginning # <<>>, InArray,
         NEW t \in Upcoming, Read(t), Step(t)
  PROVE  ArrayInv'
<1>. DEFINE es == Behind(input, Start)
<1>1. PICK f, g : stack = <<f, g>> /\ Owner(f) /\ Fits(g, es)
  BY DEF InArray
<1>2. /\ style' = style /\ InText' /\ pos' = pos + 1
      /\ \/ /\ t = Eof /\ t.tag = "eof" /\ pos' > Len(input')
            /\ Behind(input, Start)' = es
         \/ /\ t.tag \in ElementTags \cup Closing /\ pos' = Len(input') /\ input'[Len(input')] = t
            /\ Behind(input, Start)' = IF t.tag \in Closing THEN es ELSE Append(es, t)
  BY ArrayToken DEF InArray
<1>3. Start' = Start  BY <1>2 DEF Start
<1>. HIDE DEF es
<1>4. Top = g /\ g.kind = "array" /\ Below = <<f>> /\ Len(stack) = 2
  <2>1. Len(stack) = 2 /\ stack[2] = g /\ SubSeq(stack, 1, 1) = <<f>>  BY <1>1, Second
  <2>2. Top = g /\ Below = <<f>>  BY <2>1 DEF Top, Below
  <2>. QED  BY <1>1, <2>1, <2>2 DEF Fits, IsArray
<1>5. ArrayEntry(t)
  <2>1. t.tag \notin {"comment", "invalid"}  BY <1>2 DEF ElementTags, Closing, Scalars
  <2>2. Entry(t)  BY <2>1, ArrayPlace DEF InArray
  <2>. QED  BY <1>4, <2>2 DEF Entry
<1>6. IsElements(es)  BY DEF InArray, InText, es
<1>7. /\ IsArray(g) /\ TypeFits(g.elements, es) /\ Viable(es)
      /\ g.needValue \in BOOLEAN /\ (g.needValue <=> Wants(es))
      /\ g.missing \in BOOLEAN /\ (g.missing <=> Missing(es))
  BY <1>1 DEF Fits
<1>8. ASSUME NEW code, Fail(code),
             t.tag # "}" => IF t.tag = "]" THEN ~ WellFormedArray(es) ELSE ~ Viable(Append(es, t)),
             t # Eof
      PROVE  ArrayInv'
  <2>1. expecting' = "failed" /\ Top'.kind = "array"  BY <1>4, <1>8 DEF Fail, Abort, Top
  <2>2. Rejected(Top.kind, input[Len(input)], Behind(input, Start))'
    BY <1>2, <1>8, <2>1 DEF Rejected, Closing
  <2>3. ArrayFailed'  BY <1>2, <2>1, <2>2 DEF ArrayFailed
  <2>. QED  BY <1>2, <2>3 DEF ArrayInv
<1>9. ASSUME NEW k, stack' = <<f, k>>, expecting' = "entry", Fits(k, Append(es, t)),
             t.tag \in ElementTags
      PROVE  ArrayInv'
  <2>1. Behind(input, Start)' = Append(es, t) /\ pos' = Len(input')
    BY <1>2, <1>9, ArrayTags DEF ElementTags, Scalars
  <2>2. Owner(f)'  BY <1>1, <1>3 DEF Owner
  <2>3. InArray'  BY <1>2, <1>9, <2>1, <2>2 DEF InArray
  <2>. QED  BY <1>2, <2>3 DEF ArrayInv
<1>10. CASE t.tag = "]"
  <2>1. t \notin {Eof}  BY <1>10, EofTag
  <2>2. CASE g.missing
    <3>1. Fail("EXPECTED_COMMA")  BY <1>4, <1>5, <1>10, <2>2 DEF ArrayEntry
    <3>2. ~ WellFormedArray(es)  BY <1>7, <2>2 DEF Missing, WellFormedArray
    <3>. QED  BY <1>8, <1>10, <2>1, <3>1, <3>2
  <2>3. CASE ~ g.missing
    <3>1. Complete(<<f>>, FinishedArray)
      BY <1>4, <1>5, <1>10, <2>3 DEF ArrayEntry, Close
    <3>0. PICK node : node = NodeOf(f.head, FinishedArray)  OBVIOUS
    <3>2. NodeFits(node, es, Start = 2)
      <4>1. FinishedArray =
              Array(IF g.elements = NoType THEN "string" ELSE g.elements, g.items, buffer)
        BY <1>4 DEF FinishedArray
      <4>. QED  BY <1>1, <1>6, <2>3, <3>0, <4>1, NodeMade
    <3>3. /\ f.kind = "file" /\ f.children = <<>>
          /\ f = [kind |-> "file", head |-> f.head, children |-> <<>>, items |-> f.items,
                  elements |-> f.elements, needValue |-> f.needValue, missing |-> f.missing]
      BY <1>1 DEF Owner, OpenFile
    <3>. DEFINE k == [f EXCEPT !.children = Append(f.children, node), !.head = NoKey]
    <3>4. stack' = [<<f>> EXCEPT ![1] = k] /\ expecting' \in {"entry", "trailing"}
      <4>1. Len(<<f>>) = 1 /\ <<f>>[1] = f  OBVIOUS
      <4>. QED  BY <3>0, <3>1, <3>3, <4>1 DEF Complete, Become
    <3>5. Append(<<>>, node) = <<node>>  OBVIOUS
    <3>6. k.kind = "file" /\ k.children = <<node>>  BY <3>3, <3>5
    <3>. HIDE DEF k
    <3>7. stack' = <<k>>  BY <3>4, Tuples
    <3>8. Behind(input, Start)' = es /\ pos' = Len(input')
      BY <1>2, <1>10 DEF Closing
    <3>9. NodeFits(node, Behind(input, Start), Start = 2)'
      BY <1>3, <3>2, <3>8 DEF NodeFits
    <3>10. BehindArray'  BY <1>2, <3>4, <3>6, <3>7, <3>8, <3>9 DEF BehindArray
    <3>. QED  BY <1>2, <3>10 DEF ArrayInv
  <2>. QED  BY <2>2, <2>3
<1>11. CASE t = Eof
  <2>1. t.tag = "eof" /\ t.tag \notin ElementTags \cup Closing
    BY <1>11, EofTag DEF ElementTags, Closing, Scalars
  <2>2. expecting' = "failed"
    <3>1. t.tag # "]" /\ t.tag # ","  BY <2>1
    <3>. QED  BY <1>5, <1>11, <3>1 DEF ArrayEntry, Fail, Abort
  <2>3. ArrayFailed'  BY <1>2, <2>1, <2>2 DEF ArrayFailed
  <2>. QED  BY <1>2, <2>3 DEF ArrayInv
<1>12. CASE t.tag = ","
  <2>1. t # Eof /\ t.tag \in ElementTags /\ t.tag # "]"
    BY <1>12, EofTag DEF ElementTags
  <2>2. CASE g.needValue
    <3>1. Fail("EXPECTED_VALUE")  BY <1>4, <1>5, <1>12, <2>1, <2>2 DEF ArrayEntry
    <3>2. ~ Viable(Append(es, t))
      BY <1>6, <1>7, <1>12, <2>1, <2>2, CommasNext, ViableIs
    <3>. QED  BY <1>8, <2>1, <3>1, <3>2
  <2>3. CASE ~ g.needValue
    <3>. DEFINE k == [g EXCEPT !.needValue = TRUE]
    <3>1. stack' = [stack EXCEPT ![2] = k] /\ expecting' = "entry"
      BY <1>4, <1>5, <1>12, <2>1, <2>3 DEF ArrayEntry, Become, WithTop
    <3>3. /\ IsArray(k) /\ k.items = g.items /\ k.elements = g.elements
          /\ k.needValue = TRUE /\ k.missing = g.missing
      <4>1. k = [kind |-> "array", head |-> g.head, children |-> g.children, items |-> g.items,
                 elements |-> g.elements, needValue |-> TRUE, missing |-> g.missing]
        <5>1. PICK m : m = TRUE  OBVIOUS
        <5>2. k = [g EXCEPT !.needValue = m]  BY ONLY <5>1, Zenon DEF k
        <5>3. k = [kind |-> "array", head |-> g.head, children |-> g.children, items |-> g.items,
                   elements |-> g.elements, needValue |-> m, missing |-> g.missing]
          BY ONLY <1>7, <5>2 DEF IsArray
        <5>. QED  BY ONLY <5>1, <5>3, Zenon
      <4>. HIDE DEF k
      <4>. QED  BY ONLY <4>1 DEF IsArray
    <3>. HIDE DEF k
    <3>2. stack' = <<f, k>>  BY <1>1, <3>1, Tuples
    <3>4. Values(Append(es, t)) = Values(es)  BY <1>6, <1>12, <2>1, ValuesNext
    <3>5. TypesIn(Append(es, t)) = TypesIn(es)  BY <1>6, <1>12, <2>1, TypesNext
    <3>6. Separated(Append(es, t)) <=> Separated(es)
      BY <1>6, <1>12, <2>1, SeparatedNext
    <3>7. Viable(Append(es, t))
      <4>1. CommasSound(Append(es, t)) <=> CommasSound(es)
        BY <1>6, <1>7, <1>12, <2>1, <2>3, CommasNext
      <4>. QED  BY <1>7, <3>5, <3>6, <4>1, ViableIs DEF OneType, Loose
    <3>8. TypeFits(k.elements, Append(es, t))
      BY <1>7, <3>3, <3>4, <3>5 DEF TypeFits
    <3>9. k.needValue \in BOOLEAN /\ (k.needValue <=> Wants(Append(es, t)))
      BY <1>6, <1>12, <2>1, <3>3, WantsNext
    <3>10. k.missing \in BOOLEAN /\ (k.missing <=> Missing(Append(es, t)))
      BY <1>7, <3>3, <3>5, <3>6 DEF Missing
    <3>11. IsSeq(k.items) /\ Len(k.items) = Len(Values(Append(es, t)))
      BY <1>1, <3>3, <3>4 DEF Fits
    <3>12. Fits(k, Append(es, t))  BY <3>3, <3>7, <3>8, <3>9, <3>10, <3>11 DEF Fits
    <3>. QED  BY <1>9, <2>1, <3>1, <3>2, <3>12
  <2>. QED  BY <1>7, <2>2, <2>3
<1>13. CASE t.tag = "}"
  <2>1. t # Eof /\ t.tag \notin Scalars \cup {"{", "[", ",", "]"}
    BY <1>13, EofTag DEF Scalars
  <2>2. \E code : Fail(code)
    BY <1>4, <1>5, <2>1 DEF ArrayEntry, ParseValue
  <2>. QED  BY <1>8, <1>13, <2>1, <2>2
<1>14. CASE t.tag \in ElementTags \ {","}
  <2>1. /\ t # Eof /\ t.tag \notin {",", "]", "}", "["}
        /\ t.tag \in ElementTags /\ t.tag \notin Closing
    BY <1>14, EofTag DEF ElementTags, Closing, Scalars
  <2>2. CASE ~ g.needValue /\ ~ Unfixed(g.elements) /\ g.elements # "object"
    <3>1. Fail("EXPECTED_COMMA")  BY <1>4, <1>5, <2>1, <2>2 DEF ArrayEntry
    <3>2. ~ Separated(Append(es, t))
      BY <1>6, <1>7, <2>1, <2>2, SeparatedNext
    <3>3. ~ Loose(Append(es, t))
      <4>1. TypesIn(es) = {g.elements}  BY <1>6, <1>7, <2>2, TypeFitsMeans
      <4>2. TypesIn(es) \subseteq TypesIn(Append(es, t))  BY <1>6, <2>1, TypesNext
      <4>. QED  BY <2>2, <4>1, <4>2 DEF Loose
    <3>. QED  BY <1>8, <2>1, <3>1, <3>2, <3>3, ViableIs
  <2>3. CASE ~ (~ g.needValue /\ ~ Unfixed(g.elements) /\ g.elements # "object")
    <3>. DEFINE h == [g EXCEPT !.missing = g.missing \/ ~ g.needValue]
    <3>1. ParseValue(t, [stack EXCEPT ![2] = h])
      BY <1>4, <1>5, <2>1, <2>3 DEF ArrayEntry, WithTop
    <3>2. [stack EXCEPT ![2] = h] = <<f, h>>  BY <1>1, Tuples
    <3>. HIDE DEF h
    <3>3. ParseValue(t, <<f, h>>)  BY <3>1, <3>2
    <3>4. CASE t.tag \in Scalars
      <4>1. Complete(<<f, h>>, ScalarOf(t))  BY <3>3, <3>4 DEF ParseValue
      <4>2. ScalarOf(t).type = TypeOf(t)  BY <1>14, <3>4, TypeKnown
      <4>3. IsSeq(<<f, h>>) /\ Len(<<f, h>>) = 2 /\ <<f, h>>[2] = h  BY Tuples
      <4>4. h = [g EXCEPT !.missing = g.missing \/ ~ g.needValue]  BY DEF h
      <4>5. \/ /\ expecting' = "entry"
               /\ \E k : stack' = [<<f, h>> EXCEPT ![2] = k] /\ Fits(k, Append(es, t))
            \/ expecting' = "failed" /\ UNCHANGED stack /\ ~ Viable(Append(es, t))
        BY <1>1, <1>6, <1>14, <4>1, <4>2, <4>3, <4>4, ValueTaken
      <4>6. CASE expecting' = "failed" /\ UNCHANGED stack /\ ~ Viable(Append(es, t))
        <5>1. Top'.kind = "array"  BY <1>4, <4>6 DEF Top
        <5>2. Rejected(Top.kind, input[Len(input)], Behind(input, Start))'
          BY <1>2, <2>1, <4>6, <5>1 DEF Rejected
        <5>3. ArrayFailed'  BY <1>2, <4>6, <5>2 DEF ArrayFailed
        <5>. QED  BY <1>2, <5>3 DEF ArrayInv
      <4>7. CASE /\ expecting' = "entry"
                 /\ \E k : stack' = [<<f, h>> EXCEPT ![2] = k] /\ Fits(k, Append(es, t))
        <5>1. PICK k : stack' = [<<f, h>> EXCEPT ![2] = k] /\ Fits(k, Append(es, t))  BY <4>7
        <5>2. stack' = <<f, k>>  BY <5>1, Tuples
        <5>. QED  BY <1>9, <2>1, <4>7, <5>1, <5>2
      <4>. QED  BY <4>5, <4>6, <4>7
    <3>5. CASE t.tag = "{"
      <4>1. Enter("object", <<f, h>>)
        <5>1. t.tag \notin Scalars  BY <3>5 DEF Scalars
        <5>. QED  BY <3>3, <3>5, <5>1 DEF ParseValue
      <4>2. \/ expecting' = "failed" /\ result'.code = "NESTING_TOO_DEEP"
            \/ stack' = Append(<<f, h>>, Frame("object")) /\ expecting' = "entry"
        BY <4>1, Entered
      <4>3. CASE expecting' = "failed" /\ result'.code = "NESTING_TOO_DEEP"
        <5>1. ArrayFailed'  BY <4>3 DEF ArrayFailed
        <5>. QED  BY <1>2, <5>1 DEF ArrayInv
      <4>4. CASE stack' = Append(<<f, h>>, Frame("object")) /\ expecting' = "entry"
        <5>1. stack' = <<f, h, Frame("object")>>
          <6>1. PICK o : o = Frame("object")  OBVIOUS
          <6>2. stack' = <<f, h, o>>  BY ONLY <4>4, <6>1, Pushed3
          <6>. QED  BY <6>1, <6>2
        <5>2. Owner(f)'  BY <1>1, <1>3 DEF Owner
        <5>3. Behind(input, Start)' = Append(es, t) /\ pos' = Len(input')
          BY <1>2, <2>1, EofTag
        <5>4. h = [g EXCEPT !.missing = g.missing \/ ~ g.needValue]  BY DEF h
        <5>5. InObject'
          BY <1>1, <1>2, <1>6, <3>5, <4>4, <5>1, <5>2, <5>3, <5>4 DEF InObject
        <5>. QED  BY <1>2, <5>5 DEF ArrayInv
      <4>. QED  BY <4>2, <4>3, <4>4
    <3>. QED  BY <1>14, <3>4, <3>5, TypeKnown
  <2>. QED  BY <2>2, <2>3
<1>15. t = Eof \/ t.tag \in {"]", "}", ","} \/ t.tag \in ElementTags \ {","}
  BY <1>2 DEF Closing
<1>. QED  BY <1>10, <1>11, <1>12, <1>13, <1>14, <1>15

\* The beginning is an array's, without elements yet.
LEMMA BeginText ==
  ASSUME style \in Styles, style.beginning # <<>>, NEW s, s = style.beginning
  PROVE  /\ IsSeq(s) /\ Start \in {2, 3} /\ Len(s) = Start
         /\ s[1].tag \in {"ident", "string"} /\ ~ Directive(s[1])
         /\ s[Start].tag = "[" /\ (Start = 3 => s[2].tag = ":")
         /\ ArrayText(s, Start) /\ Behind(s, Start) = <<>>
<1>1. IsSeq(s)  BY TokensAssumption, SeqIs
<1>2. /\ Start \in {2, 3} /\ Len(s) = Start
      /\ s[1].tag \in {"ident", "string"} /\ ~ Directive(s[1])
      /\ s[Start].tag = "[" /\ (Start = 3 => s[2].tag = ":")
  BY ArraysAssumption DEF Start, Key
<1>3. ArrayText(s, Start)
  <2>1. \A i \in 1..Start : i = 1 \/ i = Start \/ (i = 2 /\ Start = 3)  BY <1>2
  <2>2. \A i \in 1..Start : s[i].tag = "[" <=> i = Start  BY <1>2, <2>1
  <2>. QED  BY <1>1, <1>2, <2>2 DEF ArrayText
<1>4. Behind(s, Start) = <<>>
  <2>1. PICK S : s \in Seq(S)  BY <1>1 DEF IsSeq
  <2>2. SubSeq(s, Start + 1, Start) = <<>>  BY <1>2, <2>1
  <2>. QED  BY <1>2, <2>2, WithoutNone DEF Behind
<1>. QED  BY <1>1, <1>2, <1>3, <1>4

\* A list without elements.
LEMMA NoElements ==
  ASSUME NEW es, es = <<>>
  PROVE  IsElements(es) /\ Fits(Frame("array"), es)
<1>1. IsElements(es)  BY SeqEmpty DEF IsElements
<1>2. Len(es) = 0 /\ DOMAIN es = {}  BY SeqEmpty
<1>3. Values(es) = <<>>  BY WithoutNone DEF Values
<1>4. TypesIn(es) = {} /\ Separated(es) /\ Wants(es)
  BY <1>2 DEF TypesIn, Separated, Wants
<1>5. Viable(es)  BY <1>2, <1>4 DEF Viable
<1>6. PICK g : g = Frame("array")  OBVIOUS
<1>7. /\ IsArray(g) /\ g.items = <<>> /\ g.elements = NoType
      /\ g.needValue = TRUE /\ g.missing = FALSE
  BY <1>6 DEF Frame, IsArray
<1>8. IsSeq(g.items) /\ Len(g.items) = Len(Values(es))  BY <1>3, <1>7, SeqEmpty
<1>9. TypeFits(g.elements, es)  BY <1>3, <1>4, <1>7 DEF TypeFits
<1>10. ~ Missing(es)  BY <1>4 DEF Missing
<1>11. Fits(g, es)  BY <1>4, <1>5, <1>7, <1>8, <1>9, <1>10 DEF Fits
<1>. QED  BY <1>1, <1>6, <1>11

\* The list of the array is entered, at the end of the beginning.
LEMMA ArrayEntered ==
  ASSUME style \in Styles, style.beginning # <<>>, input = style.beginning,
         UNCHANGED <<style, input>>, pos' = Len(input),
         NEW f, Owner(f), NEW frames, frames = <<f>>, Enter("array", frames)
  PROVE  ArrayInv'
<1>1. /\ IsSeq(input) /\ Start \in {2, 3} /\ Len(input) = Start
      /\ ArrayText(input, Start) /\ Behind(input, Start) = <<>>
  BY BeginText
<1>2. Start' = Start  BY DEF Start
<1>3. Behind(input, Start)' = <<>> /\ Behind(input', Start') = <<>>  BY <1>1, <1>2
<1>4. InText'
  BY <1>1, <1>2, <1>3, NoElements DEF InText
<1>5. CASE expecting' = "failed" /\ result'.code = "NESTING_TOO_DEEP"
  <2>1. ArrayFailed'  BY <1>5 DEF ArrayFailed
  <2>. QED  BY <2>1 DEF ArrayInv
<1>6. CASE stack' = Append(frames, Frame("array")) /\ expecting' = "entry"
  <2>1. PICK g : g = Frame("array")  OBVIOUS
  <2>2. Append(frames, g) = <<f, g>>  BY ONLY frames = <<f>>, Pushed2
  <2>3. stack' = <<f, g>>  BY <1>6, <2>1, <2>2
  <2>4. Fits(g, Behind(input, Start)')  BY <1>3, <2>1, NoElements
  <2>5. Owner(f)'  BY <1>2 DEF Owner
  <2>6. InArray'  BY <1>4, <1>6, <2>3, <2>4, <2>5 DEF InArray
  <2>. QED  BY <2>6 DEF ArrayInv
<1>. QED  BY <1>5, <1>6, Entered

\* The key, the colon and the bracket.
LEMMA BeginningStep ==
  ASSUME style \in Styles, style.beginning # <<>>, InBeginning,
         NEW t \in Upcoming, Read(t), Step(t)
  PROVE  ArrayInv'
<1>1. PICK f : /\ stack = <<f>> /\ OpenFile(f)
               /\ \/ pos = 0 /\ expecting = "entry"
                  \/ pos = 1 /\ expecting = "body" /\ f.head.colonless = FALSE
                  \/ pos = 2 /\ expecting = "value" /\ f.head.colonless = FALSE
  BY DEF InBeginning
<1>2. /\ input = style.beginning /\ pos \in Nat /\ pos < Len(input)
      /\ t = input[pos + 1] /\ pos' = pos + 1 /\ UNCHANGED <<style, input>>
  BY DEF InBeginning, Upcoming, Read
<1>3. /\ Start \in {2, 3} /\ Len(input) = Start
      /\ input[1].tag \in {"ident", "string"} /\ ~ Directive(input[1])
      /\ input[Start].tag = "[" /\ (Start = 3 => input[2].tag = ":")
  BY <1>2, BeginText
<1>4. Top = f /\ f.kind = "file" /\ \A k : WithTop(k) = <<k>>
  <2>1. Top = f /\ f.kind = "file"  BY <1>1 DEF Top, OpenFile
  <2>2. \A k : WithTop(k) = <<k>>  BY <1>1, Tuples DEF WithTop
  <2>. QED  BY <2>1, <2>2
<1>5. /\ f = [kind |-> "file", head |-> f.head, children |-> <<>>, items |-> f.items,
              elements |-> f.elements, needValue |-> f.needValue, missing |-> f.missing]
      /\ f.head = [key |-> f.head.key, leading |-> f.head.leading, replace |-> f.head.replace,
                   colonless |-> f.head.colonless]
  BY <1>1 DEF OpenFile
<1>6. t.tag \in {"ident", "string", ":", "["} /\ t.tag \notin {"comment", "invalid"}
  BY <1>1, <1>2, <1>3
<1>7. CASE pos = 0
  <2>1. expecting = "entry" /\ t = input[1]  BY <1>1, <1>2, <1>7
  <2>2. FileEntry(t)
    <3>1. Entry(t)  BY <1>6, <2>1, ArrayPlace
    <3>. QED  BY <1>4, <3>1 DEF Entry
  <2>3. t # Eof /\ Key(t) /\ t.tag # "@"
    BY <1>3, <2>1, EofTag DEF Key
  <2>4. PICK leading : NodeStart(t, leading)  BY <1>3, <2>1, <2>2, <2>3 DEF FileEntry
  <2>5. PICK head : head = KeyPart(t.text, leading)  OBVIOUS
  <2>6. PICK k : k = [f EXCEPT !.head = head]  OBVIOUS
  <2>7. stack' = <<k>> /\ expecting' = "body"
    BY <1>4, <2>3, <2>4, <2>5, <2>6 DEF NodeStart, Become
  <2>8. OpenFile(k) /\ k.head.colonless = FALSE
    <3>1. k = [kind |-> "file", head |-> head, children |-> <<>>, items |-> f.items,
               elements |-> f.elements, needValue |-> f.needValue, missing |-> f.missing]
      BY ONLY <1>5, <2>6
    <3>2. head = [key |-> t.text, leading |-> leading, replace |-> FALSE, colonless |-> FALSE]
      BY <2>5 DEF KeyPart
    <3>. QED  BY ONLY <3>1, <3>2 DEF OpenFile
  <2>9. /\ input' = style'.beginning /\ pos' = 1 /\ pos' < Len(input')
        /\ stack' = <<k>> /\ expecting' = "body"
    BY <1>2, <1>3, <1>7, <2>7
  <2>10. InBeginning'  BY <2>8, <2>9 DEF InBeginning
  <2>. QED  BY <1>2, <2>10 DEF ArrayInv
<1>8. CASE pos = 1
  <2>1. expecting = "body" /\ f.head.colonless = FALSE /\ t = input[2]  BY <1>1, <1>2, <1>8
  <2>2. NodeBody(t)  BY <1>6, <2>1, ArrayPlace
  <2>3. CASE Start = 2
    <3>1. t.tag = "["  BY <1>3, <2>1, <2>3
    <3>2. PICK k : k = [f EXCEPT !.head.colonless = TRUE]  OBVIOUS
    <3>3. Enter("array", WithTop(k))  BY <1>4, <2>2, <3>1, <3>2 DEF NodeBody
    <3>4. Owner(k)
      <4>1. PICK m : m = TRUE  OBVIOUS
      <4>2. PICK head : head = [f.head EXCEPT !.colonless = m]  OBVIOUS
      <4>3. k = [f EXCEPT !.head = head]  BY ONLY <1>5, <3>2, <4>1, <4>2
      <4>4. k = [kind |-> "file", head |-> head, children |-> <<>>, items |-> f.items,
                 elements |-> f.elements, needValue |-> f.needValue, missing |-> f.missing]
        BY ONLY <1>5, <4>3
      <4>5. head = [key |-> f.head.key, leading |-> f.head.leading, replace |-> f.head.replace,
                    colonless |-> m]
        BY ONLY <1>5, <4>2
      <4>6. OpenFile(k) /\ k.head.colonless = m  BY ONLY <4>4, <4>5 DEF OpenFile
      <4>. QED  BY <2>3, <4>1, <4>6 DEF Owner
    <3>5. PICK frames : frames = WithTop(k)  OBVIOUS
    <3>6. frames = <<k>> /\ Enter("array", frames)  BY <1>4, <3>3, <3>5
    <3>. QED  BY <1>2, <1>3, <1>8, <2>3, <3>4, <3>6, ArrayEntered
  <2>4. CASE Start = 3
    <3>1. t.tag = ":"  BY <1>3, <2>1, <2>4
    <3>2. stack' = stack /\ expecting' = "value"  BY <2>2, <3>1 DEF NodeBody, Become
    <3>3. /\ input' = style'.beginning /\ pos' = 2 /\ pos' < Len(input')
          /\ stack' = <<f>> /\ expecting' = "value"
      BY <1>1, <1>2, <1>3, <1>8, <2>4, <3>2
    <3>4. InBeginning'  BY <1>1, <2>1, <3>3 DEF InBeginning
    <3>. QED  BY <1>2, <3>4 DEF ArrayInv
  <2>. QED  BY <1>3, <2>3, <2>4
<1>9. CASE pos = 2
  <2>1. /\ expecting = "value" /\ f.head.colonless = FALSE /\ t = input[3]
        /\ Start = 3 /\ t.tag = "["
    BY <1>1, <1>2, <1>3, <1>9
  <2>2. FieldValue(t)  BY <1>6, <2>1, ArrayPlace
  <2>3. Enter("array", stack)
    <3>1. t.tag \notin Scalars  BY <2>1 DEF Scalars
    <3>. QED  BY <2>1, <2>2, <3>1 DEF FieldValue, ParseValue
  <2>4. Owner(f)
    <3>1. f.head.colonless \in BOOLEAN /\ ~ f.head.colonless  BY <2>1, Zenon
    <3>2. Start # 2  BY <2>1
    <3>. QED  BY <1>1, <3>1, <3>2 DEF Owner
  <2>. QED  BY <1>1, <1>2, <1>3, <1>9, <2>1, <2>3, <2>4, ArrayEntered
<1>. QED  BY <1>1, <1>7, <1>8, <1>9

-----------------------------------------------------------------------------

\* Initially, the text is its beginning and the parser is at its start.
LEMMA InitArrayInv == Init => ArrayInv
<1>. SUFFICES ASSUME Init PROVE ArrayInv  OBVIOUS
<1>. SUFFICES ASSUME style.beginning # <<>> PROVE InBeginning
  BY DEF Init, ArrayInv
<1>1. style \in Styles /\ input = style.beginning /\ pos = 0 /\ expecting = "entry"
  BY DEF Init
<1>2. pos < Len(input)  BY <1>1, BeginText
<1>3. PICK f : f = Frame("file")  OBVIOUS
<1>4. stack = <<f>>  BY <1>3 DEF Init
<1>5. OpenFile(f)  BY <1>3 DEF OpenFile, Frame, NoKey, KeyPart
<1>. QED  BY <1>1, <1>2, <1>4, <1>5 DEF InBeginning

\* Each step keeps to the phases.
LEMMA NextArrayInv == FoldsOne /\ ArrayInv /\ [Next]_vars => ArrayInv'
<1>. SUFFICES ASSUME FoldsOne, ArrayInv, [Next]_vars PROVE ArrayInv'  OBVIOUS
<1>1. CASE UNCHANGED vars
  <2>1. /\ style' = style /\ input' = input /\ pos' = pos /\ stack' = stack
        /\ expecting' = expecting /\ result' = result
    BY <1>1 DEF vars
  <2>2. Start' = Start /\ Top' = Top  BY <2>1 DEF Start, Top
  <2>3. InText' <=> InText  BY <2>1, <2>2, Zenon DEF InText
  <2>4. \A f : Owner(f)' <=> Owner(f)  BY <2>2, Zenon DEF Owner
  <2>5. InBeginning' <=> InBeginning  BY <2>1, Zenon DEF InBeginning
  <2>6. InArray' <=> InArray  BY <2>1, <2>2, <2>3, <2>4, Zenon DEF InArray
  <2>7. InObject' <=> InObject  BY <2>1, <2>2, <2>3, <2>4, Zenon DEF InObject
  <2>8. BehindArray' <=> BehindArray  BY <2>1, <2>2, <2>3, Zenon DEF BehindArray
  <2>9. ArrayDone' <=> ArrayDone  BY <2>1, <2>2, <2>3, Zenon DEF ArrayDone
  <2>10. ArrayFailed' <=> ArrayFailed  BY <2>1, <2>2, <2>3, Zenon DEF ArrayFailed
  <2>. QED  BY <2>1, <2>5, <2>6, <2>7, <2>8, <2>9, <2>10 DEF ArrayInv
<1>2. CASE Parse
  <2>1. PICK t \in Upcoming : Read(t) /\ Step(t)  BY <1>2 DEF Parse
  <2>2. style' = style /\ style \in Styles  BY <2>1 DEF Read, ArrayInv
  <2>3. CASE style.beginning = <<>>  BY <2>2, <2>3 DEF ArrayInv
  <2>4. CASE style.beginning # <<>>
    <3>1. InBeginning \/ InArray \/ InObject \/ BehindArray
      BY <1>2, <2>4 DEF ArrayInv, ArrayDone, ArrayFailed, Parse, Ended
    <3>. QED  BY <2>1, <2>2, <2>4, <3>1, BeginningStep, ArrayStep, ObjectStep, BehindStep
  <2>. QED  BY <2>3, <2>4
<1>. QED  BY <1>1, <1>2 DEF Next

\* A text that is one array is taken as long as the specification of arrays lets it
\* go on, and makes the node that it says, for texts of any length and any way to
\* fold that leaves a single node alone (parser.rs, the loop of parse_array).
THEOREM ArraysTaken == Spec /\ []FoldsOne => []ArraysAsSpecified
<1>1. ArrayInv => ArraysAsSpecified
  <2>. SUFFICES ASSUME ArrayInv, style.beginning # <<>> PROVE ArraysAsSpecified
    BY DEF ArraysAsSpecified
  <2>. DEFINE es == Behind(input, Start)
  <2>0. InText => Elements = es /\ Taken = input
    BY ElementsBehind DEF InText
  <2>1. CASE InBeginning
    <3>1. PICK f : stack = <<f>> /\ f.kind = "file"  BY <2>1 DEF InBeginning, OpenFile
    <3>2. Top.kind = "file" /\ expecting \notin {"failed", "done"}
      BY <2>1, <3>1 DEF InBeginning, Top
    <3>. QED  BY <3>2 DEF ArraysAsSpecified
  <2>2. CASE InArray
    <3>1. Viable(Elements) /\ expecting = "entry"  BY <2>0, <2>2 DEF InArray, Fits
    <3>. QED  BY <3>1 DEF ArraysAsSpecified
  <2>3. CASE InObject
    <3>1. PICK f, h, o : stack = <<f, h, o>> /\ o = Frame("object")  BY <2>3 DEF InObject
    <3>2. Top = o  BY <3>1, Third DEF Top
    <3>3. Top.kind = "object" /\ expecting = "entry"  BY <2>3, <3>1, <3>2 DEF InObject, Frame
    <3>. QED  BY <3>3 DEF ArraysAsSpecified
  <2>4. CASE BehindArray
    <3>1. Top.kind = "file" /\ expecting \in {"entry", "trailing"}
      BY <2>4, Tuples DEF BehindArray, Top
    <3>. QED  BY <3>1 DEF ArraysAsSpecified
  <2>5. CASE ArrayDone
    <3>1. PICK node : result.doc.children = <<node>> /\ NodeFits(node, es, Start = 2)
      BY <2>5 DEF ArrayDone
    <3>2. Elements = es /\ Taken = input /\ expecting = "done" /\ result.doc.children[1] = node
      BY <2>0, <2>5, <3>1 DEF ArrayDone
    <3>3. input[2].tag = "[" <=> Start = 2
      <4>1. ArrayText(input, Start)  BY <2>5 DEF ArrayDone, InText
      <4>2. 2 \in 1..Len(input)  BY <4>1, SeqLen DEF ArrayText
      <4>. QED  BY <4>1, <4>2 DEF ArrayText
    <3>4. /\ WellFormedArray(es)
          /\ IF "object" \in TypesIn(es) \/ (Values(es) = <<>> /\ input[2].tag = "[")
             THEN node.kind = "array" /\ Len(node.items) = Len(Values(es))
             ELSE /\ node.kind = "field" /\ Len(node.value.items) = Len(Values(es))
                  /\ node.value.elements = IF Values(es) = <<>> THEN "string"
                                           ELSE IF TypesIn(es) = {} THEN "null"
                                           ELSE CHOOSE x \in TypesIn(es) : TRUE
      BY <3>1, <3>3 DEF NodeFits
    <3>. HIDE DEF es
    <3>. QED  BY <3>2, <3>4 DEF ArraysAsSpecified, Values, Ended
  <2>6. CASE ArrayFailed
    <3>1. expecting = "failed"  BY <2>6 DEF ArrayFailed
    <3>2. CASE result.code = "NESTING_TOO_DEEP" \/ pos > Len(input)
      <4>1. InText \/ result.code = "NESTING_TOO_DEEP"  BY <2>6 DEF ArrayFailed
      <4>2. result.code = "NESTING_TOO_DEEP" \/ ~ (pos <= Len(input))
        <5>1. CASE InText /\ pos > Len(input)
          <6>1. pos \in Nat /\ Len(input) \in Nat  BY <5>1, SeqLen DEF InText, ArrayText
          <6>. QED  BY <5>1, <6>1
        <5>. QED  BY <3>2, <4>1, <5>1
      <4>. QED  BY <3>1, <4>2 DEF ArraysAsSpecified, Ended
    <3>3. CASE InText /\ Rejected(Top.kind, input[Len(input)], es)
      <4>1. Elements = es /\ Taken = input  BY <2>0, <3>3
      <4>. HIDE DEF es
      <4>. QED  BY <3>1, <3>3, <4>1 DEF ArraysAsSpecified, Rejected, Ended
    <3>. QED  BY <2>6, <3>2, <3>3 DEF ArrayFailed
  <2>. QED  BY <2>1, <2>2, <2>3, <2>4, <2>5, <2>6 DEF ArrayInv
<1>. QED  BY <1>1, InitArrayInv, NextArrayInv, PTL DEF Spec
=============================================================================

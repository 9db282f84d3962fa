------------------------------- MODULE Lexer --------------------------------
(***************************************************************************)
(* The lexer of rust/src/lexer.rs over one source: one action for each     *)
(* kind of token next hands out, and for each error.  The source is any    *)
(* short text, or what the emitter writes for a string, a key or a         *)
(* comment; meant is then the text it was asked to write.                  *)
(***************************************************************************)
EXTENDS Spelling

CONSTANTS
  Sources,    \* what a caller may hand to the parser
  Strings,    \* texts a document may hold
  CommentTexts   \* texts the lexer gives comments

ASSUME SourcesAssumption == Sources \subseteq Seq(Byte)

\* A document's strings are Rust's, which are UTF-8; its comments are what a
\* comment token holds: a sign, and the rest of its line.
ASSUME TextsAssumption ==
  /\ \A text \in Strings \cup CommentTexts : text \in Seq(Byte) /\ IsUtf8(text)
  /\ \A text \in CommentTexts : text # <<>> /\ text[1] = "#" /\ ~ Contains(text, NL)

VARIABLES src, meant, cursor, tokens, failure

vars == <<src, meant, cursor, tokens, failure>>

Nothing == [kind |-> "none"]

None == [code |-> "none"]

Init ==
  /\ \/ src \in Sources /\ meant = Nothing
     \/ \E text \in Strings :
          /\ src = WriteString(text) \o <<NL>>
          /\ meant = [kind |-> "string", text |-> text]
     \/ \E key \in Strings, depth \in {0, 1} :
          /\ src = WriteKey(key, depth) \o <<":">>
          /\ meant = [kind |-> "key", text |-> key, depth |-> depth]
     \/ \E text \in CommentTexts :
          /\ src = text \o <<NL>>
          /\ meant = [kind |-> "comment", text |-> text]
  /\ cursor = [pos |-> 0, line |-> 0, col |-> 0]
  /\ tokens = <<>>
  /\ failure = None

-----------------------------------------------------------------------------
\* The cursor, and where it stands after some bytes.

AtEnd(c) == c.pos > Len(src)

Peek(c) == IF AtEnd(c) THEN "end" ELSE src[c.pos]

PeekAhead(c, offset) == IF c.pos + offset > Len(src) THEN "end" ELSE src[c.pos + offset]

\* Over bytes none of which ends a line.
Jump(c, count) == [pos |-> c.pos + count, line |-> c.line, col |-> c.col + count]

\* (Mutant.)  A new line does not begin a new column.
AdvanceColumn(c) ==
  IF Peek(c) = NL THEN [pos |-> c.pos + 1, line |-> c.line + 1, col |-> c.col + 1]
  ELSE Jump(c, 1)

\* advance
Advance(c) ==
  IF Peek(c) = NL THEN [pos |-> c.pos + 1, line |-> c.line + 1, col |-> 1] ELSE Jump(c, 1)

\* The cursor after that many bytes.
Advanced(c, count) ==
  LET after[i \in 0..count] == IF i = 0 THEN c ELSE Advance(after[i - 1])
  IN  after[count]

\* The place of the first byte from the cursor on that is not of a class.
RunEnd(c, class) == Min({p \in c.pos..Len(src) : src[p] \notin class} \cup {Len(src) + 1})

\* The cursor past the bytes of a class.
AdvanceWhile(c, class) == Advanced(c, RunEnd(c, class) - c.pos)

\* Where the next token begins.
Begin == AdvanceWhile(cursor, Spaces)

Text(from, to) == SubSeq(src, from.pos, to.pos - 1)

Emit(tag, to, text) ==
  /\ tokens' = Append(tokens, [tag |-> tag, line |-> Begin.line, col |-> Begin.col,
                               from |-> Begin.pos, to |-> to.pos, text |-> text])
  /\ cursor' = to
  /\ UNCHANGED <<src, meant, failure>>

Fail(code, at) ==
  /\ failure' = [code |-> code, line |-> at.line, col |-> at.col, pos |-> at.pos]
  /\ cursor' = Begin
  /\ UNCHANGED <<src, meant, tokens>>

-----------------------------------------------------------------------------
\* parse_bytes looks at the encoding before anything else.

Validate ==
  /\ cursor.pos = 0
  /\ LET stop == FirstInvalid(src) IN
     IF AtEnd(stop)
     THEN cursor' = Start /\ UNCHANGED failure
     ELSE /\ failure' = [code |-> "INVALID_UTF8",
                         line |-> stop.line, col |-> stop.col, pos |-> stop.pos]
          /\ UNCHANGED cursor
  /\ UNCHANGED <<src, meant, tokens>>

Lexing ==
  /\ cursor.pos > 0 /\ failure = None
  /\ tokens # <<>> => Last(tokens).tag # "eof"

EndOfFile ==
  /\ Lexing /\ AtEnd(Begin)
  /\ Emit("eof", Begin, <<>>)

Punctuation ==
  /\ Lexing /\ Peek(Begin) \in Punctuators
  /\ Emit(Peek(Begin), Advance(Begin), <<Peek(Begin)>>)

\* A line ending's carriage return is no part of the comment.
CommentText(to) ==
  IF src[to.pos - 1] = CR THEN SubSeq(src, Begin.pos, to.pos - 2) ELSE Text(Begin, to)

LexComment ==
  /\ Lexing /\ Peek(Begin) = "#"
  /\ LET to == Jump(Begin, RunEnd(Begin, Byte \ {NL}) - Begin.pos)
     IN  Emit("comment", to, CommentText(to))

\* A scan that goes on, or its end: the cursor past the closing quotes, or an error
\* at the cursor.
Open(c) == [code |-> "open", at |-> c]

Closed(c) == [code |-> "none", at |-> c]

Broken(code, c) == [code |-> code, at |-> c]

\* (Mutant.)  More escapes are let through than are decoded.
EscapesAndMore == {Quote, Backslash, "n", "t", "a"}

Escapes == {Quote, Backslash, "n", "t"}

\* One turn of the loop of lex_string.
StringTurn(scan) ==
  LET c == scan.at IN
  CASE scan.code # "open" -> scan
    [] scan.code = "open" /\ Peek(c) \in {"end", NL} -> Broken("UNTERMINATED_STRING", c)
    [] scan.code = "open" /\ Peek(c) = Quote -> Closed(Advance(c))
    [] scan.code = "open" /\ Peek(c) = Backslash ->
         IF PeekAhead(c, 1) = "end" THEN Broken("UNTERMINATED_STRING", c)
         ELSE IF PeekAhead(c, 1) \notin Escapes THEN Broken("INVALID_ESCAPE", c)
         ELSE Open(Jump(c, 2))
    [] OTHER -> Open(Advance(c))

ScanString(c) ==
  LET after[i \in 0..Len(src)] ==
        IF i = 0 THEN Open(c) ELSE StringTurn(after[i - 1])
  IN  after[Len(src)]

ThreeQuotes(c) == <<Peek(c), PeekAhead(c, 1), PeekAhead(c, 2)>> = TripleQuote

\* One turn of the loop of lex_multiline_string.
MultilineTurn(scan) ==
  LET c == scan.at IN
  CASE scan.code # "open" -> scan
    [] scan.code = "open" /\ AtEnd(c) -> Broken("UNTERMINATED_STRING", c)
    [] scan.code = "open" /\ ThreeQuotes(c) -> Closed(Advanced(c, 3))
    [] OTHER -> Open(Advance(c))

ScanMultiline(c) ==
  LET after[i \in 0..Len(src)] ==
        IF i = 0 THEN Open(c) ELSE MultilineTurn(after[i - 1])
  IN  after[Len(src)]

LexString ==
  /\ Lexing /\ Peek(Begin) = Quote
  /\ LET end == IF ThreeQuotes(Begin)
                THEN ScanMultiline(Advanced(Begin, 3))
                ELSE ScanString(Advance(Begin))
     IN  IF end.code = "none"
         THEN Emit("string", end.at, Text(Begin, end.at))
         ELSE Fail(end.code, end.at)

-----------------------------------------------------------------------------
\* Numbers.

AfterMinus == IF Peek(Begin) = "-" THEN Advance(Begin) ELSE Begin

IntEnd == AdvanceWhile(AfterMinus, Digit)

FractionStart == Advance(IntEnd)

FractionEnd == AdvanceWhile(FractionStart, Digit)

LeadingZero == IntEnd.pos - AfterMinus.pos > 1 /\ Peek(AfterMinus) = "0"

\* (Mutant.)  What follows the digits is left for the next token.
NoSuffix(c) == FALSE

\* Whether the byte at the cursor would run on from a float.
Suffixed(c) == Peek(c) \in IdentChar \cup {"."}

LexFloat ==
  IF FractionEnd.pos = FractionStart.pos \/ LeadingZero \/ Suffixed(FractionEnd)
  THEN Fail("INVALID_FLOAT", Begin)
  ELSE Emit("float", FractionEnd, Text(Begin, FractionEnd))

LexInt ==
  CASE LeadingZero -> Fail("INVALID_INT", Begin)
    [] ~ LeadingZero /\ Suffixed(IntEnd) ->
         Fail(IF Peek(IntEnd) = "e" THEN "INVALID_FLOAT" ELSE "INVALID_INT", Begin)
    [] OTHER -> Emit("int", IntEnd, Text(Begin, IntEnd))

LexNumber ==
  /\ Lexing /\ Peek(Begin) \in Digit \cup {"-"}
  /\ IF Peek(AfterMinus) \notin Digit THEN Fail("UNEXPECTED_CHAR", Begin)
     ELSE IF Peek(IntEnd) = "." THEN LexFloat ELSE LexInt

LexIdent ==
  /\ Lexing /\ Peek(Begin) \in IdentStart
  /\ LET to == AdvanceWhile(Begin, IdentChar)
         text == Text(Begin, to)
     IN  Emit(IF text \in Reserved THEN "literal" ELSE "ident", to, text)

Unexpected ==
  /\ Lexing /\ Peek(Begin) \in Strange
  /\ Fail(IF Peek(Begin) = "." /\ PeekAhead(Begin, 1) \in Digit THEN "INVALID_FLOAT"
          ELSE "UNEXPECTED_CHAR", Begin)

Lex ==
  \/ EndOfFile
  \/ Punctuation
  \/ LexComment
  \/ LexString
  \/ LexNumber
  \/ LexIdent
  \/ Unexpected

Ended == failure # None \/ (tokens # <<>> /\ Last(tokens).tag = "eof")

Next ==
  \/ failure = None /\ Validate
  \/ Lex
  \/ Ended /\ UNCHANGED vars

Spec == Init /\ [][Next]_vars

-----------------------------------------------------------------------------

\* The line of a byte, and its column, counted in bytes.
LineOf(pos) == 1 + Cardinality({i \in 1..(pos - 1) : src[i] = NL})

LineBefore(pos) == {i \in 0..(pos - 1) : i = 0 \/ src[i] = NL}

ColOf(pos) == pos - Max(LineBefore(pos))

\* A token and an error are placed by the lines and the bytes before them, though
\* strings and comments move the cursor without looking for line ends.
PositionsExact ==
  /\ \A i \in DOMAIN tokens :
       tokens[i].line = LineOf(tokens[i].from) /\ tokens[i].col = ColOf(tokens[i].from)
  /\ failure # None =>
       failure.line = LineOf(failure.pos) /\ failure.col = ColOf(failure.pos)

Digits(text) == text # <<>> /\ \A i \in DOMAIN text : text[i] \in Digit

Unsigned(text) == IF text # <<>> /\ text[1] = "-" THEN Tail(text) ELSE text

\* docs/spec.md: one spelling for each integer.
IsIntLiteral(text) ==
  LET digits == Unsigned(text) IN Digits(digits) /\ (digits[1] = "0" => Len(digits) = 1)

IsFloatLiteral(text) ==
  \E dot \in DOMAIN text :
    /\ text[dot] = "." /\ IsIntLiteral(SubSeq(text, 1, dot - 1))
    /\ Digits(SubSeq(text, dot + 1, Len(text)))

\* The bytes that could belong to a number that begins at pos: its longest match.
NumberRun(pos) ==
  LET after == IF src[pos] = "-" THEN pos + 1 ELSE pos
      ends == {i \in after..Len(src) : src[i] \notin IdentChar \cup {"."}} \cup {Len(src) + 1}
  IN  SubSeq(src, pos, Min(ends) - 1)

\* A number is read when, and only when, the longest run of bytes that could be
\* one is a literal of the grammar: it is never split in two tokens.
NumbersAsSpecified ==
  /\ \A i \in DOMAIN tokens :
       tokens[i].tag \in {"int", "float"} =>
         /\ tokens[i].text = NumberRun(tokens[i].from)
         /\ tokens[i].tag = "int" => IsIntLiteral(tokens[i].text)
         /\ tokens[i].tag = "float" => IsFloatLiteral(tokens[i].text)
  /\ failure.code \in {"INVALID_INT", "INVALID_FLOAT"} =>
       ~ IsIntLiteral(NumberRun(failure.pos)) /\ ~ IsFloatLiteral(NumberRun(failure.pos))

\* "The lexer has already validated every escape, so the error paths here are
\* unreachable for tokens this lexer produced" (parser.rs, unescape_string); and
\* what the lexer took for a multiline string is decoded as one.
StringsDecode ==
  \A i \in DOMAIN tokens :
    tokens[i].tag = "string" =>
      LET raw == tokens[i].text IN
      IF Len(raw) > 2 /\ SubSeq(raw, 1, 3) = TripleQuote
      THEN Unescape(raw) = SubSeq(raw, 4, Len(raw) - 3)
      ELSE ~ Contains(Unescape(raw), InvalidEscape)

\* The tokens that name the same thing as a text: a key, or a string's contents.
Reads(token, want) ==
  CASE want.kind = "string" -> token.tag = "string" /\ Unescape(token.text) = want.text
    [] want.kind = "key" -> /\ token.tag \in {"ident", "string"}
                            /\ Unescape(token.text) = want.text
                            /\ (want.depth = 0 /\ want.text \in Directives) => token.tag = "string"
    [] want.kind = "comment" -> token.tag = "comment" /\ token.text = want.text

\* How many tokens the emitter writes, with the end.
Written(want) == IF want.kind = "key" THEN 3 ELSE 2

\* What the emitter writes for a string, a key or a comment is one token again,
\* with the same text; and a data key at the top is never taken for a directive.
\* (Only of a comment that ends in a carriage return is that one byte lost.)
WrittenIsRead ==
  meant # Nothing /\ Ended =>
    /\ failure = None
    /\ Len(tokens) = Written(meant)
    /\ \/ meant.kind = "comment" /\ Last(meant.text) = CR
       \/ Reads(tokens[1], meant)

\* Only UTF-8 is read; and an encoding error is at the first byte that is in no
\* sequence: all before it is well formed, and nothing that begins with it is.
Utf8Located ==
  /\ cursor.pos > 0 => IsUtf8(src)
  /\ failure.code = "INVALID_UTF8" =>
       /\ IsUtf8(SubSeq(src, 1, failure.pos - 1))
       /\ \A end \in failure.pos..Len(src) : ~ IsUtf8(SubSeq(src, failure.pos, end))
=============================================================================

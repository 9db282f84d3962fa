------------------------------ MODULE Spelling ------------------------------
(***************************************************************************)
(* Texts byte by byte: which may be written bare, how the emitter writes   *)
(* strings and keys (rust/src/emit.rs), what the decoder makes of them     *)
(* again (rust/src/parser.rs), and which bytes are UTF-8.                  *)
(*                                                                         *)
(* A byte stands for its class: "a" for the underscore and the letters     *)
(* other than e, n and t, "1" for the digits but zero, "?" for the ASCII   *)
(* bytes the grammar has no use for; lead2, lead3, lead4 begin a UTF-8     *)
(* sequence of that length, more continues one, and bad does neither.      *)
(***************************************************************************)
EXTENDS Integers, Sequences, SequencesExt

CONSTANTS
  Reserved,    \* the texts of the value literals true, false and null
  Directives   \* the texts of the header directives

Quote == "\""
Backslash == "\\"
NL == "NL"
CR == "CR"
Tab == "TAB"
Space == "SP"

Digit == {"0", "1"}

\* is_ident_start
IdentStart == {"a", "e", "n", "t"}

\* is_ident_char
IdentChar == IdentStart \cup Digit

Spaces == {Space, Tab, CR, NL}

Punctuators == {"@", ":", "{", "}", "[", "]", ","}

Width == [c \in {"lead2", "lead3", "lead4"} |->
            CASE c = "lead2" -> 2 [] c = "lead3" -> 3 [] c = "lead4" -> 4]

\* What has no place outside of strings and comments.
Strange == {".", "+", "?", Backslash} \cup DOMAIN Width

Byte == IdentChar \cup Spaces \cup Punctuators \cup Strange
          \cup {Quote, "#", "-", "more", "bad"}

\* is_identifier
IsIdentifier(key) ==
  /\ key # <<>> /\ key[1] \in IdentStart
  /\ \A i \in DOMAIN key : key[i] \in IdentChar
  /\ key \notin Reserved

HasPart(text, part) ==
  \E i \in 1..(Len(text) - Len(part) + 1) : SubSeq(text, i, i + Len(part) - 1) = part

-----------------------------------------------------------------------------
\* emit.rs

Escaped(c) ==
  CASE c = Quote -> <<Backslash, Quote>> [] c = Backslash -> <<Backslash, Backslash>>
    [] c = NL -> <<Backslash, "n">> [] c = Tab -> <<Backslash, "t">> [] OTHER -> <<c>>

\* write_escaped
WriteEscaped(text) ==
  LET out[i \in 0..Len(text)] == IF i = 0 THEN <<>> ELSE out[i - 1] \o Escaped(text[i])
  IN  out[Len(text)]

WriteQuoted(text) == <<Quote>> \o WriteEscaped(text) \o <<Quote>>

TripleQuote == <<Quote, Quote, Quote>>

\* (Mutant.)  What the text ends with is not looked at.
CanEmitAnyEnd(text) == ~ HasPart(text, TripleQuote)

\* can_emit_multiline
CanEmitMultiline(text) == ~ HasPart(text, TripleQuote) /\ Last(text) # Quote

\* emit_value, of a string.
WriteString(text) ==
  IF Contains(text, NL) /\ CanEmitMultiline(text)
  THEN TripleQuote \o text \o TripleQuote
  ELSE WriteQuoted(text)

\* write_key
WriteKey(key, depth) ==
  IF IsIdentifier(key) /\ (depth > 0 \/ key \notin Directives) THEN key ELSE WriteQuoted(key)

-----------------------------------------------------------------------------
\* parser.rs

IsQuoted(raw) == Len(raw) >= 2 /\ raw[1] = Quote /\ Last(raw) = Quote

IsVerbatim(raw) ==
  /\ Len(raw) >= 6
  /\ SubSeq(raw, 1, 3) = TripleQuote /\ SubSeq(raw, Len(raw) - 2, Len(raw)) = TripleQuote

\* What stands where an escape has no meaning.
InvalidEscape == "invalid escape"

Unescaped ==
  [c \in {Quote, Backslash, "n", "t"} |-> CASE c = "n" -> NL [] c = "t" -> Tab [] OTHER -> c]

\* One turn of the loop of unescape_string: a byte, or an escape, goes out.
DecodeTurn(inner, s) ==
  CASE s.next > Len(inner) -> s
    [] s.next <= Len(inner) /\ inner[s.next] # Backslash ->
         [out |-> Append(s.out, inner[s.next]), next |-> s.next + 1]
    [] /\ s.next < Len(inner) /\ inner[s.next] = Backslash
       /\ inner[s.next + 1] \in DOMAIN Unescaped ->
         [out |-> Append(s.out, Unescaped[inner[s.next + 1]]), next |-> s.next + 2]
    [] OTHER -> [out |-> Append(s.out, InvalidEscape), next |-> Len(inner) + 1]

Decoded(inner) ==
  LET after[i \in 0..Len(inner)] ==
        IF i = 0 THEN [out |-> <<>>, next |-> 1] ELSE DecodeTurn(inner, after[i - 1])
  IN  after[Len(inner)].out

\* unescape_string
Unescape(raw) ==
  CASE ~ IsQuoted(raw) -> raw
    [] IsQuoted(raw) /\ IsVerbatim(raw) -> SubSeq(raw, 4, Len(raw) - 3)
    [] OTHER -> Decoded(SubSeq(raw, 2, Len(raw) - 1))

\* (Mutant.)  Every sequence of several bytes is taken for one of two.
WidthTwo(c) == CASE c \in DOMAIN Width -> 2 [] c \in {"more", "bad"} -> 0 [] OTHER -> 1

\* How many bytes the byte at the start of a sequence announces; none when it
\* can start none.
WidthOf(c) ==
  CASE c \in DOMAIN Width -> Width[c] [] c \in {"more", "bad"} -> 0 [] OTHER -> 1

\* Whether a sequence is at a place.
IsSequence(text, pos) ==
  LET width == WidthOf(text[pos])
  IN  /\ width > 0 /\ pos + width - 1 <= Len(text)
      /\ \A i \in (pos + 1)..(pos + width - 1) : text[i] = "more"

Start == [pos |-> 1, line |-> 1, col |-> 1]

\* One turn of the loop of first_invalid_utf8: past a sequence, if there is one.
Validated(text, c) ==
  CASE c.pos > Len(text) \/ ~ IsSequence(text, c.pos) -> c
    [] c.pos <= Len(text) /\ IsSequence(text, c.pos) /\ text[c.pos] = NL ->
         [pos |-> c.pos + 1, line |-> c.line + 1, col |-> 1]
    [] OTHER -> LET width == WidthOf(text[c.pos])
                IN  [pos |-> c.pos + width, line |-> c.line, col |-> c.col + width]

\* first_invalid_utf8: where it stops, past the end when there is none.
FirstInvalid(text) ==
  LET after[i \in 0..Len(text)] == IF i = 0 THEN Start ELSE Validated(text, after[i - 1])
  IN  after[Len(text)]

-----------------------------------------------------------------------------

\* Every sequence is begun and continued as it must be.
IsUtf8(text) ==
  \A i \in DOMAIN text :
    CASE text[i] = "bad" -> FALSE
      [] text[i] \in DOMAIN Width ->
           /\ i + Width[text[i]] - 1 <= Len(text)
           /\ \A j \in (i + 1)..(i + Width[text[i]] - 1) : text[j] = "more"
      [] text[i] = "more" ->
           \E j \in 1..(i - 1) : text[j] \in DOMAIN Width /\ i - j < Width[text[j]]
      [] OTHER -> TRUE
=============================================================================

------------------------------ MODULE MCLexer -------------------------------
(***************************************************************************)
(* Every short source over alphabets that bring one part of the lexer to   *)
(* bear each: quotes and escapes, numbers, layout and comments, encodings. *)
(***************************************************************************)
EXTENDS Lexer

Words(alphabet, n) == UNION {[1..k -> alphabet] : k \in 0..n}

Quoting == Words({Quote, Backslash, NL, "n"}, 7)

Escaping == Words({Quote, Backslash, "a", Tab}, 5)

Numbering == Words({"-", "0", "1", ".", "e"}, 5)

Layout == Words({Space, NL, CR, "#", "a", ":"}, 5)

Encoded == Words({"a", NL, Quote, "lead2", "lead3", "lead4", "more", "bad"}, 4)

Other == Words({"a", "1", "+", ",", "@", "?", "-"}, 3)

MCSources == Quoting \cup Escaping \cup Numbering \cup Layout \cup Encoded \cup Other

\* What strings may hold, the last of them in the encoding that strings have.
MCStrings ==
  Words({Quote, Backslash, NL, "n", "a"}, 5) \cup Words({Quote, NL, CR, Tab, "1"}, 4)
    \cup {text \in Words({Quote, NL, "lead2", "lead3", "more"}, 4) : IsUtf8(text)}

\* The texts the lexer gives comments: what follows a sign up to the line's end.
MCCommentTexts == {<<"#">> \o text : text \in Words({"a", CR, Space}, 3)}

\* "a" and "n" stand for a value literal and a directive.
MCReserved == {<<"a">>}

MCDirectives == {<<"n">>}
=============================================================================

----------------------------- MODULE MCRoundTrip -----------------------------
(***************************************************************************)
(* Styles of texts for the parser and the round trip.  A text is any       *)
(* sequence of the tokens of one style, up to the first error.             *)
(***************************************************************************)
EXTENDS RoundTrip

\* The list of a file is in no block.
O == INSTANCE Overlay
       WITH KeyName <- STRING, Datum <- Any, CommentName <- Nat, Nesting <- 2 * MaxNestingDepth + 1

MCFold(nodes) == O!MergeNodes(<<>>, nodes)

Signs(tags) == {Token(tag, "", TRUE) : tag \in tags}

Words(texts) == {Token("ident", text, TRUE) : text \in texts}

Strings(texts) == {Token("string", text, TRUE) : text \in texts}

One == Token("int", "1", TRUE)

Comments == {Token("comment", "", sameLine) : sameLine \in BOOLEAN}

\* Operations and repeated keys, one of them a directive's name.
OverlayTokens ==
  Signs({":", "{", "}", "@"}) \cup Words({"a", "delete", "replace"})
    \cup Strings({"import"}) \cup {One}

\* Lists in lists.
ListTokens == Signs({":", "{", "}", "[", "]", ",", "null"}) \cup Words({"a"}) \cup {One}

\* Comments at every place of a body.
CommentTokens == Signs({":", "{", "}", "[", "]"}) \cup Words({"a", "b"}) \cup {One} \cup Comments

\* Headers, with texts that the lexer or a directive rejects.
HeaderTokens ==
  Signs({":", "[", "]", ",", "invalid"}) \cup Words({"skg_version", "import", "schema_version", "a"})
    \cup Strings({"1.0", "2.0", "/p"}) \cup Comments

\* Values of one array.
ElementTokens == Signs({"null", "{", "}", "]", ","}) \cup {One, Token("triple", "a", TRUE)}

\* The colonless and the colon form.
ArrayBeginnings ==
  LET word == Token("ident", "a", FALSE)
      sign(tag) == Token(tag, "", TRUE)
  IN  {<<word, sign("[")>>, <<word, sign(":"), sign("[")>>}

Style(tokens, max) == [beginning |-> <<>>, tokens |-> tokens, max |-> max]

CommentStyle == {Style(CommentTokens, 9)}

AnyStyle ==
  CommentStyle \cup {Style(OverlayTokens, 10), Style(ListTokens, 11), Style(HeaderTokens, 8)}
    \cup {[beginning |-> first, tokens |-> ElementTokens, max |-> 11] : first \in ArrayBeginnings}
=============================================================================

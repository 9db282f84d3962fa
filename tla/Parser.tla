------------------------------- MODULE Parser -------------------------------
(***************************************************************************)
(* The parser of rust/src/parser.rs: the recursive descent of one call of  *)
(* parse_bytes, one token a step, with the call stack made explicit.       *)
(*                                                                         *)
(* A text is revealed token by token as the parser asks for them, so that  *)
(* it ends where the first error does, unless it is given whole.  A token  *)
(* has a tag, a text, and whether it is on the line of the one before; a   *)
(* comment has its place among the comments as its name.                   *)
(***************************************************************************)
EXTENDS Document, FiniteSets

CONSTANTS
  Styles,            \* of texts: a beginning, what may follow, a bound on the length
  MaxNestingDepth,
  AbsolutePaths, MalformedVersions, UnsupportedVersions,   \* texts of strings
  Fold(_)            \* merge_nodes: repeated keys of one list folded

Tags ==
  {"ident", "string", "triple", "int", "float", "bool", "null", ":", "{", "}", "[", "]", ",", "@",
   "comment", "invalid", "eof"}

Token(tag, text, sameLine) == [tag |-> tag, text |-> text, sameLine |-> sameLine, id |-> 0]

ASSUME TokensAssumption ==
  /\ \A s \in Styles :
       /\ \A t \in s.tokens : t.tag \in Tags \ {"eof"} /\ t = Token(t.tag, t.text, t.sameLine)
       /\ s.beginning \in Seq({s.beginning[k] : k \in DOMAIN s.beginning}) /\ s.max \in Nat
  /\ MaxNestingDepth \in Nat

VARIABLES
  style,
  input,      \* the tokens known so far
  open,       \* whether more may be revealed
  pos,        \* how many the parser has taken
  stack,      \* the lists being built: the file's, then one for each call
  expecting,  \* the place in the grammar
  buffer,     \* the comments not attached yet
  depth,      \* the depth guard
  header,     \* the directives so far
  result

vars == <<style, input, open, pos, stack, expecting, buffer, depth, header, result>>

-----------------------------------------------------------------------------

\* The part of a node that precedes its value.
KeyPart(key, leading) == [key |-> key, leading |-> leading, replace |-> FALSE, colonless |-> FALSE]

NoKey == KeyPart("", <<>>)

Frame(kind) ==
  [kind |-> kind, head |-> NoKey, children |-> <<>>, items |-> <<>>, elements |-> NoType,
   needValue |-> TRUE, missing |-> FALSE]

NoText == "none"

NoHeader ==
  [directive |-> NoText, skg |-> NoText, schema |-> NoText, imports |-> <<>>,
   leading |-> <<>>, captured |-> FALSE]

Pending == [status |-> "pending"]

Init ==
  /\ style \in Styles
  /\ input = style.beginning
  /\ open = TRUE
  /\ pos = 0
  /\ stack = <<Frame("file")>>
  /\ expecting = "entry"
  /\ buffer = <<>>
  /\ depth = 0
  /\ header = NoHeader
  /\ result = Pending

Eof == Token("eof", "", FALSE)

\* A comment runs to the end of its line.
Placed(t) ==
  [t EXCEPT !.sameLine = @ /\ input # <<>> /\ input[Len(input)].tag # "comment",
            !.id = IF t.tag # "comment" THEN 0
                   ELSE Len(SelectSeq(input, LAMBDA u : u.tag = "comment")) + 1]

Upcoming ==
  IF pos < Len(input) THEN {input[pos + 1]}
  ELSE {Eof} \cup (IF open /\ Len(input) < style.max
                   THEN {Placed(t) : t \in style.tokens} ELSE {})

Read(t) ==
  /\ input' = IF pos < Len(input) \/ t = Eof THEN input ELSE Append(input, t)
  /\ open' = (open /\ t # Eof)
  /\ pos' = pos + 1
  /\ UNCHANGED style

-----------------------------------------------------------------------------

Top == stack[Len(stack)]

Below == SubSeq(stack, 1, Len(stack) - 1)

WithTop(f) == [stack EXCEPT ![Len(stack)] = f]

Become(frames, place) == stack' = frames /\ expecting' = place /\ UNCHANGED result

Abort(code) ==
  /\ expecting' = "failed"
  /\ result' = [status |-> "failed", code |-> code]
  /\ UNCHANGED stack

\* The guard of the depth is not unwound: nobody looks at it any more.
Fail(code) == Abort(code) /\ UNCHANGED <<buffer, depth, header>>

Key(t) == t.tag \in {"ident", "string"}

DirectiveNames == {"skg_version", "schema_version", "import"}

Directive(t) == t.tag = "ident" /\ t.text \in DirectiveNames

\* What a key and a value make.
NodeOf(head, v) ==
  LET node(kind) == [Node(head.key, kind) EXCEPT !.leading = head.leading] IN
  IF v.type = "object"
  THEN [node("block") EXCEPT !.children = v.children, !.trailing = v.trailing,
                             !.replace = head.replace]
  ELSE IF v.type = "array" /\ (v.elements = "object" \/ (head.colonless /\ v.items = <<>>))
  THEN [node("array") EXCEPT !.items = v.items, !.trailing = v.trailing]
  ELSE [node("field") EXCEPT !.value = v]

\* Null does not fix the type of an array's elements.
Unfixed(type) == type \in {NoType, "null"}

\* (Mutant.)  The array's type is that of its first element.
TypeOfFirst(elements, type) == IF elements = NoType THEN type ELSE elements

ElementType(elements, type) == IF Unfixed(elements) THEN type ELSE elements

\* A value is complete and goes to the list on top of frames.
Complete(frames, v) ==
  LET f == frames[Len(frames)]
      put(g) == [frames EXCEPT ![Len(frames)] = g]
      elements == ElementType(f.elements, v.type)
  IN
  IF f.kind # "array"
  THEN LET node == NodeOf(f.head, v) IN
       Become(put([f EXCEPT !.children = Append(@, node), !.head = NoKey]),
              IF node.kind = "field" THEN "trailing" ELSE "entry")
  ELSE IF ~ Unfixed(f.elements) /\ v.type \notin {"null", f.elements}
  THEN Abort("MIXED_ARRAY_TYPES")
  ELSE IF f.missing /\ ~ Unfixed(elements) /\ elements # "object"
  THEN Abort("EXPECTED_COMMA")
  ELSE Become(put([f EXCEPT !.items = Append(@, v), !.elements = elements,
                            !.needValue = FALSE, !.missing = @ /\ elements # "object"]),
              "entry")

\* enter, and the list that is entered.
Enter(kind, frames) ==
  /\ depth' = depth + 1
  /\ UNCHANGED <<buffer, header>>
  /\ IF depth + 1 > MaxNestingDepth THEN Abort("NESTING_TOO_DEEP")
     ELSE Become(Append(frames, Frame(kind)), "entry")

\* (Mutant.)  The guard is not left with the list.
LeaveNothing == UNCHANGED depth

Leave == depth' = depth - 1

\* The end of the list on top: v is what it makes.
Close(v) ==
  /\ Leave
  /\ buffer' = <<>>
  /\ Complete(Below, v)
  /\ UNCHANGED header

Scalars == {"int", "float", "bool", "string", "triple", "null"}

ScalarOf(t) ==
  [Value(IF t.tag = "triple" THEN "string" ELSE t.tag) EXCEPT !.val = t.text]

\* parse_value, for the list on top of frames.
ParseValue(t, frames) ==
  IF t.tag \in Scalars
  THEN Complete(frames, ScalarOf(t)) /\ UNCHANGED <<buffer, depth, header>>
  ELSE IF t.tag = "{" THEN Enter("object", frames)
  ELSE IF t.tag = "[" THEN Enter("array", frames)
  ELSE Fail("EXPECTED_VALUE")

-----------------------------------------------------------------------------
\* The three loops.

\* The first token of a node; leading are the comments it gets.
NodeStart(t, leading) ==
  /\ buffer' = <<>>
  /\ UNCHANGED depth
  /\ IF t.tag = "@" THEN Become(WithTop([Top EXCEPT !.head = KeyPart("", leading)]), "operation")
     ELSE IF Key(t) THEN Become(WithTop([Top EXCEPT !.head = KeyPart(t.text, leading)]), "body")
     ELSE Abort("EXPECTED_IDENT")

\* (Mutant.)  Comments before the first node stay in the buffer for the header.
CapturedNothing == header

\* The file's leading comments are those before its first directive or node, and
\* those between directives.
Captured ==
  IF header.captured THEN header
  ELSE [header EXCEPT !.leading = buffer, !.captured = TRUE]

DocumentOf(children) ==
  [skg |-> header.skg, schema |-> header.schema, imports |-> header.imports,
   children |-> children,
   leading |-> IF header.captured THEN header.leading ELSE buffer,
   trailing |-> IF header.captured THEN buffer ELSE <<>>]

\* (Mutant.)  Only what a file nests is folded.
DocumentUnfolded == DocumentOf(Top.children)

FinishedDocument == DocumentOf(Fold(Top.children))

Finish ==
  /\ expecting' = "done"
  /\ result' = [status |-> "done", doc |-> FinishedDocument]
  /\ UNCHANGED <<stack, buffer, depth, header>>

FileEntry(t) ==
  IF t = Eof THEN Finish
  ELSE IF ~ Directive(t)
  THEN NodeStart(t, IF header.captured THEN buffer ELSE <<>>) /\ header' = Captured
  ELSE IF Top.children # <<>> THEN Fail("DIRECTIVE_AFTER_BODY")
  ELSE /\ header' = [header EXCEPT !.leading = @ \o buffer, !.captured = TRUE,
                                   !.directive = t.text]
       /\ buffer' = <<>>
       /\ Become(stack, IF t.text = "import" THEN "import" ELSE "colon")
       /\ UNCHANGED depth

FinishedObject == Object(Fold(Top.children), buffer)

ObjectEntry(t) ==
  IF t.tag = "}" THEN Close(FinishedObject)
  ELSE IF t = Eof THEN Fail("UNTERMINATED_BLOCK")
  ELSE NodeStart(t, buffer) /\ UNCHANGED header

FinishedArray ==
  Array(IF Top.elements = NoType THEN "string" ELSE Top.elements, Top.items, buffer)

UnterminatedArray ==
  LET owner == Below[Len(Below)] IN
  IF owner.kind # "array" /\ owner.head.colonless /\ Top.elements \in {NoType, "object"}
  THEN "UNTERMINATED_BLOCK_ARRAY" ELSE "UNTERMINATED_ARRAY"

\* Separators may be left out only between objects and nulls; that nulls need
\* them may show only later.
ArrayEntry(t) ==
  IF t.tag = "]"
  THEN IF Top.missing THEN Fail("EXPECTED_COMMA") ELSE Close(FinishedArray)
  ELSE IF ~ Top.needValue /\ t.tag = ","
  THEN Become(WithTop([Top EXCEPT !.needValue = TRUE]), "entry") /\ UNCHANGED <<buffer, depth, header>>
  ELSE IF t = Eof THEN Fail(UnterminatedArray)
  ELSE IF t.tag = "," THEN Fail("EXPECTED_VALUE")
  ELSE IF ~ Top.needValue /\ ~ Unfixed(Top.elements) /\ Top.elements # "object"
  THEN Fail("EXPECTED_COMMA")
  ELSE ParseValue(t, WithTop([Top EXCEPT !.missing = @ \/ ~ Top.needValue]))

Entry(t) ==
  /\ expecting \in {"entry", "trailing"}
  /\ CASE Top.kind = "file"   -> FileEntry(t)
       [] Top.kind = "object" -> ObjectEntry(t)
       [] Top.kind = "array"  -> ArrayEntry(t)

-----------------------------------------------------------------------------
\* The places between a key and its value.

NodeBody(t) ==
  /\ expecting = "body"
  /\ IF t.tag = ":" THEN Become(stack, "value") /\ UNCHANGED <<buffer, depth, header>>
     ELSE IF t.tag = "{" THEN Enter("object", stack)
     ELSE IF t.tag = "[" THEN Enter("array", WithTop([Top EXCEPT !.head.colonless = TRUE]))
     ELSE Fail("EXPECTED_NODE_BODY")

FieldValue(t) == expecting = "value" /\ ParseValue(t, stack)

Operation(t) ==
  /\ expecting = "operation"
  /\ IF t.tag # "ident" THEN Fail("EXPECTED_IDENT")
     ELSE IF t.text \notin {"delete", "replace"} THEN Fail("UNKNOWN_OVERLAY_OPERATION")
     ELSE /\ Become(stack, IF t.text = "delete" THEN "deleted" ELSE "replaced")
          /\ UNCHANGED <<buffer, depth, header>>

DeletedKey(t) ==
  /\ expecting = "deleted"
  /\ IF ~ Key(t) THEN Fail("EXPECTED_IDENT")
     ELSE /\ Become(WithTop([Top EXCEPT !.head = NoKey, !.children = Append(@,
                       [Node(t.text, "delete") EXCEPT !.leading = Top.head.leading])]),
                    "trailing")
          /\ UNCHANGED <<buffer, depth, header>>

ReplacedKey(t) ==
  /\ expecting = "replaced"
  /\ IF ~ Key(t) THEN Fail("EXPECTED_IDENT")
     ELSE /\ Become(WithTop([Top EXCEPT !.head.key = t.text, !.head.replace = TRUE]), "replacement")
          /\ UNCHANGED <<buffer, depth, header>>

Replacement(t) ==
  /\ expecting = "replacement"
  /\ IF t.tag = "{" THEN Enter("object", stack) ELSE Fail("EXPECTED_REPLACEMENT_BLOCK")

-----------------------------------------------------------------------------
\* The header.

Goes(place) == Become(stack, place) /\ UNCHANGED <<buffer, depth>>

DirectiveColon(t) ==
  /\ expecting = "colon"
  /\ IF t.tag = ":" THEN Goes("text") /\ UNCHANGED header ELSE Fail("EXPECTED_COLON")

String(t) == t.tag \in {"string", "triple"}

SkgVersion(t) ==
  IF header.skg # NoText THEN Fail("DUPLICATE_SKG_VERSION")
  ELSE IF t.text \in MalformedVersions THEN Fail("MALFORMED_SKG_VERSION")
  ELSE IF t.text \in UnsupportedVersions THEN Fail("UNSUPPORTED_SKG_VERSION")
  ELSE Goes("entry") /\ header' = [header EXCEPT !.skg = t.text]

SchemaVersion(t) ==
  IF header.schema # NoText THEN Fail("DUPLICATE_SCHEMA_VERSION")
  ELSE Goes("entry") /\ header' = [header EXCEPT !.schema = t.text]

DirectiveText(t) ==
  /\ expecting = "text"
  /\ IF ~ String(t) THEN Fail("EXPECTED_STRING")
     ELSE IF header.directive = "skg_version" THEN SkgVersion(t)
     ELSE SchemaVersion(t)

AppendImport(t, place) ==
  IF t.text \in AbsolutePaths THEN Fail("ABSOLUTE_IMPORT_PATH")
  ELSE Goes(place) /\ header' = [header EXCEPT !.imports = Append(@, t.text)]

Import(t) ==
  /\ expecting = "import"
  /\ IF String(t) THEN AppendImport(t, "entry")
     ELSE IF t.tag = "[" THEN Goes("path") /\ UNCHANGED header
     ELSE Fail("EXPECTED_IMPORT_PATH")

EndOfImports(t) ==
  IF t.tag = "]" THEN Goes("entry") /\ UNCHANGED header ELSE Fail("UNTERMINATED_IMPORT_LIST")

ImportPath(t) ==
  /\ expecting = "path"
  /\ IF t.tag = "]" \/ t = Eof THEN EndOfImports(t)
     ELSE IF String(t) THEN AppendImport(t, "separator")
     ELSE Fail("EXPECTED_STRING")

ImportSeparator(t) ==
  /\ expecting = "separator"
  /\ IF t.tag = "]" \/ t = Eof THEN EndOfImports(t)
     ELSE IF t.tag = "," THEN Goes("path") /\ UNCHANGED header
     ELSE Fail("EXPECTED_COMMA")

-----------------------------------------------------------------------------
\* Tokens.

\* Places at which consume is called without a peek before it.
RawPlaces == {"colon", "text", "value", "operation"}

Skips(t) == t.tag = "comment" /\ expecting \notin RawPlaces

AttachTrailing(id) ==
  LET last == Len(Top.children) IN
  Become(WithTop([Top EXCEPT !.children[last].trailing = <<id>>]), "entry") /\ UNCHANGED buffer

\* peek buffers comments; the one on the line of a field or deletion is its own.
SkipComment(t) ==
  /\ Skips(t)
  /\ IF expecting = "trailing" /\ t.sameLine THEN AttachTrailing(t.id)
     ELSE /\ buffer' = Append(buffer, t.id)
          /\ Become(stack, IF expecting = "trailing" THEN "entry" ELSE expecting)
  /\ UNCHANGED <<depth, header>>

\* A token that no place takes, for the lexer rejects it or, if it has a bad escape
\* or is out of range, the code that decodes it does.
LexicalError(t) == t.tag = "invalid" /\ Fail("LEXICAL")

Step(t) ==
  \/ SkipComment(t)
  \/ LexicalError(t)
  \/ /\ ~ Skips(t) /\ t.tag # "invalid"
     /\ \/ Entry(t)
        \/ NodeBody(t) \/ FieldValue(t)
        \/ Operation(t) \/ DeletedKey(t) \/ ReplacedKey(t) \/ Replacement(t)
        \/ DirectiveColon(t) \/ DirectiveText(t)
        \/ Import(t) \/ ImportPath(t) \/ ImportSeparator(t)

Ended == expecting \in {"done", "failed"}

Parse == ~ Ended /\ \E t \in Upcoming : Read(t) /\ Step(t)

Next == Parse \/ (Ended /\ UNCHANGED vars)

Spec == Init /\ [][Next]_vars

-----------------------------------------------------------------------------

Taken == SubSeq(input, 1, IF pos < Len(input) THEN pos ELSE Len(input))

Count(tags) == Cardinality({i \in 1..pos : i <= Len(input) /\ input[i].tag \in tags})

\* The brackets of values that are open: an import list's are not of a value.
Nesting ==
  Count({"{", "["}) - Count({"}", "]"}) - (IF expecting \in {"path", "separator"} THEN 1 ELSE 0)

\* The guard that protects the call stack counts the calls that are active: it
\* is the number of brackets open in the text, on every path through the three
\* recursive functions, and no parse goes on beyond the maximum (parser.rs,
\* enter and leave).
DepthIsNesting ==
  /\ expecting # "failed" =>
       depth = Nesting /\ Len(stack) = depth + 1 /\ depth <= MaxNestingDepth
  /\ expecting = "failed" /\ result.code = "NESTING_TOO_DEEP" =>
       depth = Nesting /\ depth = MaxNestingDepth + 1

\* A text with a beginning is one array: a key, a colon or none, a bracket, and
\* then scalars, empty objects, commas, and what closes them.
ASSUME ArraysAssumption ==
  \A s \in Styles : s.beginning # <<>> =>
    /\ Len(s.beginning) \in {2, 3} /\ Key(s.beginning[1]) /\ ~ Directive(s.beginning[1])
    /\ Len(s.beginning) = 3 => s.beginning[2].tag = ":"
    /\ s.beginning[Len(s.beginning)].tag = "["
    /\ \A t \in s.tokens : t.tag \in (Scalars \ {"string"}) \cup {"{", "}", "]", ","}

\* The tokens that have none of some tags.
Without(ts, tags) ==
  LET kept[i \in 0..Len(ts)] ==
        IF i = 0 THEN <<>>
        ELSE IF ts[i].tag \in tags THEN kept[i - 1] ELSE Append(kept[i - 1], ts[i])
  IN  kept[Len(ts)]

\* The elements and commas of a text that is one array: an object is its brace.
Elements ==
  LET first == CHOOSE i \in DOMAIN input : input[i].tag = "["
  IN  Without(SubSeq(Taken, first + 1, Len(Taken)), {"}", "]"})

TypeOf(t) == IF t.tag = "{" THEN "object" ELSE ScalarOf(t).type

TypesIn(es) == {TypeOf(es[i]) : i \in {j \in DOMAIN es : es[j].tag # ","}} \ {"null"}

Separated(es) == \A i \in 2..Len(es) : "," \in {es[i - 1].tag, es[i].tag}

\* Whether elements may go on to be an array.
Viable(es) ==
  /\ \A x, y \in TypesIn(es) : x = y
  /\ \A i \in DOMAIN es : es[i].tag = "," => i > 1 /\ es[i - 1].tag # ","
  /\ TypesIn(es) \subseteq {"object"} \/ Separated(es)

WellFormedArray(es) == Viable(es) /\ ("object" \in TypesIn(es) \/ Separated(es))

\* A text that is one array, as those with a beginning are, is taken as long as
\* the specification of arrays (docs/spec.md, Array and Block Arrays) lets it go
\* on, and accepted if it has it: one type but for nulls, single commas after
\* values, left out only between objects and nulls, which may come before the
\* first object; or it is nested too deeply.  It is a block array, or a field with the
\* values' type, in the cases given there.
ArraysAsSpecified ==
  LET last == Taken[Len(Taken)].tag
      values == Without(Elements, {","})
      node == result.doc.children[1]
  IN
  style.beginning # <<>> =>
  /\ Top.kind = "array" /\ ~ Ended => Viable(Elements)
  /\ expecting = "failed" /\ pos <= Len(input) /\ result.code # "NESTING_TOO_DEEP" =>
       /\ Top.kind = "array" /\ last # "}" =>
            IF last = "]" THEN ~ WellFormedArray(Elements) ELSE ~ Viable(Elements)
       /\ Top.kind = "object" /\ last = "}" => ~ Viable(Elements)
  /\ expecting = "done" =>
       /\ WellFormedArray(Elements)
       /\ IF "object" \in TypesIn(Elements) \/ (values = <<>> /\ input[2].tag = "[")
          THEN node.kind = "array" /\ Len(node.items) = Len(values)
          ELSE /\ node.kind = "field" /\ Len(node.value.items) = Len(values)
               /\ node.value.elements =
                    IF values = <<>> THEN "string"
                    ELSE IF TypesIn(Elements) = {} THEN "null"
                    ELSE CHOOSE x \in TypesIn(Elements) : TRUE

\* "Comments begin with # and run to the end of the line" (docs/spec.md), and an
\* implementation that declares the comments capability preserves every one: a
\* comment is never the token that makes a text invalid.
CommentsAccepted ==
  expecting = "failed" /\ pos <= Len(input) => input[pos].tag # "comment"
=============================================================================

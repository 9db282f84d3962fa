------------------------------- MODULE Emitter -------------------------------
(***************************************************************************)
(* Canonical emission, rust/src/emit.rs, as the tokens that the emitted    *)
(* text has: a token is on the line of the one before it unless a newline  *)
(* was written in between.  Blank lines and indentation are left out.      *)
(*                                                                         *)
(* Recursive, so for TLC only.                                             *)
(***************************************************************************)
EXTENDS Parser, SequencesExt

CONSTANTS
  NotIdentifiers,   \* texts of keys that have to be quoted
  MultilineTexts    \* texts of strings that are written between triple quotes

Here(tag, text) == Token(tag, text, TRUE)

Mark(tag) == Here(tag, "")

Word(text) == Here("ident", text)

Line(tokens) == [tokens EXCEPT ![1].sameLine = FALSE]

Comment(id) == [Mark("comment") EXCEPT !.id = id]

CommentLines(ids) == [i \in DOMAIN ids |-> [Comment(ids[i]) EXCEPT !.sameLine = FALSE]]

CommentHere(ids) == [i \in DOMAIN ids |-> Comment(ids[i])]

WrittenKey(k, top) ==
  Here(IF k \in NotIdentifiers \/ (top /\ k \in DirectiveNames) THEN "string" ELSE "ident", k)

WrittenString(text) == Here(IF text \in MultilineTexts THEN "triple" ELSE "string", text)

RECURSIVE EmitNodes(_, _)

RECURSIVE EmitValue(_)

\* The end of a scalar array: on its line, unless comments have to precede it.
ArrayEnd(ids, bracket) ==
  IF ids = <<>> THEN <<bracket>> ELSE CommentLines(ids) \o Line(<<bracket>>)

\* What stands on lines of its own between brackets.
Body(lines, trailing, bracket) == lines \o CommentLines(trailing) \o Line(<<bracket>>)

EmitValue(v) ==
  CASE v.type \in {"int", "float", "bool"} -> <<Here(v.type, v.val)>>
    [] v.type = "null"   -> <<Mark("null")>>
    [] v.type = "string" -> <<WrittenString(v.val)>>
    [] v.type = "object" -> <<Mark("{")>> \o Body(EmitNodes(v.children, FALSE), v.trailing, Mark("}"))
    [] v.type = "array"  ->
         <<Mark("[")>>
           \o FlattenSeq([i \in DOMAIN v.items |->
                            (IF i > 1 THEN <<Mark(",")>> ELSE <<>>) \o EmitValue(v.items[i])])
           \o ArrayEnd(v.trailing, Mark("]"))

\* (Mutant.)  A replacement comes out as a block.
NoMarker(n) == <<>>

Marker(n) == IF n.replace THEN <<Mark("@"), Word("replace")>> ELSE <<>>

EmitNode(n, top) ==
  LET key == WrittenKey(n.key, top)
      items == [i \in DOMAIN n.items |-> Line(EmitValue(n.items[i]))]
  IN
  CommentLines(n.leading) \o
  CASE n.kind = "delete" ->
         Line(<<Mark("@"), Word("delete"), key>>) \o CommentHere(n.trailing)
    [] n.kind = "field" ->
         Line(<<key, Mark(":")>>) \o EmitValue(n.value) \o CommentHere(n.trailing)
    [] n.kind = "block" ->
         Line(Marker(n) \o <<key, Mark("{")>>)
           \o Body(EmitNodes(n.children, FALSE), n.trailing, Mark("}"))
    [] n.kind = "array" ->
         Line(<<key, Mark("[")>>) \o Body(FlattenSeq(items), n.trailing, Mark("]"))

EmitNodes(nodes, top) == FlattenSeq([i \in DOMAIN nodes |-> EmitNode(nodes[i], top)])

EmitVersion(directive, text) ==
  IF text = NoText THEN <<>> ELSE Line(<<Word(directive), Mark(":"), Here("string", text)>>)

EmitImports(paths) ==
  LET path(i) == Here("string", paths[i])
      line(i) == Line(<<path(i)>> \o (IF i < Len(paths) THEN <<Mark(",")>> ELSE <<>>))
  IN
  CASE paths = <<>>   -> <<>>
    [] Len(paths) = 1 -> Line(<<Word("import"), path(1)>>)
    [] OTHER          -> Line(<<Word("import"), Mark("[")>>)
                           \o Body(FlattenSeq([i \in DOMAIN paths |-> line(i)]), <<>>, Mark("]"))

Emit(doc) ==
  CommentLines(doc.leading)
    \o EmitVersion("skg_version", doc.skg) \o EmitImports(doc.imports)
    \o EmitVersion("schema_version", doc.schema)
    \o EmitNodes(doc.children, TRUE)
    \o CommentLines(doc.trailing)
=============================================================================

------------------------------ MODULE RoundTrip ------------------------------
(***************************************************************************)
(* What skg fmt rests on: a text is parsed, the document is emitted, and   *)
(* the emitted text is parsed again (rust/src/parser.rs, rust/src/emit.rs).*)
(***************************************************************************)
EXTENDS Emitter

VARIABLE original   \* the document of the first text, once it is emitted

roundVars == <<vars, original>>

NoDocument == [children |-> NoText]

RoundInit == Init /\ original = NoDocument

First == original = NoDocument

ParseNext == Parse /\ UNCHANGED original

\* parse(emit(document)): a parser of its own for the emitted text.
Reparse ==
  /\ First /\ expecting = "done"
  /\ original' = result.doc
  /\ input' = Emit(result.doc) /\ open' = FALSE
  /\ pos' = 0
  /\ stack' = <<Frame("file")>>
  /\ expecting' = "entry"
  /\ buffer' = <<>>
  /\ depth' = 0
  /\ header' = NoHeader
  /\ result' = Pending
  /\ UNCHANGED style

RoundNext == ParseNext \/ Reparse

RoundSpec == RoundInit /\ [][RoundNext]_roundVars

-----------------------------------------------------------------------------

CommentIds(tokens) ==
  LET comments == SelectSeq(tokens, LAMBDA t : t.tag = "comment")
  IN  [i \in DOMAIN comments |-> comments[i].id]

\* Without a header nothing tells the comments at the top of a file from those of
\* its first node: the node's are the file's as well.
AsWritten(doc) ==
  IF doc.skg # NoText \/ doc.schema # NoText \/ doc.imports # <<>> THEN doc
  ELSE IF doc.children = <<>> THEN [doc EXCEPT !.leading = @ \o doc.trailing, !.trailing = <<>>]
  ELSE [doc EXCEPT !.leading = @ \o doc.children[1].leading, !.children[1].leading = <<>>]

\* Formatting loses nothing and is idempotent: the text emitted for a document is
\* one the parser takes, whose lines end after comments, and it has that document,
\* with its operations, replacement flags, order of keys and every comment in its
\* place, and is emitted as itself.  No key, value or operation comes out in a
\* spelling that means something else where it stands (emit.rs, write_key and
\* emit_value; parser.rs, parse_file).
RoundTripKeepsDocument ==
  ~ First =>
    /\ expecting # "failed"
    /\ \A i \in 2..Len(input) : input[i - 1].tag = "comment" => ~ input[i].sameLine
    /\ expecting = "done" =>
         AsWritten(result.doc) = AsWritten(original) /\ Emit(result.doc) = input

KeyNames == {input[i].text : i \in {j \in DOMAIN input : Key(input[j])}}

NoKeyTwice == Cardinality(KeyNames) = Len(SelectSeq(input, Key))

IsOnce(ids) == ToSet(ids) = 1..Len(ids)

\* Every comment of an accepted text is emitted, and once, whatever the place it
\* stands at: between directives, in lists of imports, in arrays, after keys.
\* In texts that name a key twice, a node that is replaced
\* takes its comments with it (merge.rs), and they are left out.
CommentsEmittedOnce ==
  First /\ expecting = "done" /\ NoKeyTwice =>
    LET ids == CommentIds(Emit(result.doc)) IN
    IsOnce(ids) /\ Len(ids) = Len(CommentIds(input))

RECURSIVE NamesKeysOnce(_)

RECURSIVE ValueNamesKeysOnce(_)

ValueNamesKeysOnce(v) ==
  NamesKeysOnce(v.children) /\ \A i \in DOMAIN v.items : ValueNamesKeysOnce(v.items[i])

NamesKeysOnce(nodes) ==
  /\ \A i, j \in DOMAIN nodes : nodes[i].key = nodes[j].key => i = j
  /\ \A i \in DOMAIN nodes :
       /\ NamesKeysOnce(nodes[i].children)
       /\ ValueNamesKeysOnce(nodes[i].value)
       /\ \A j \in DOMAIN nodes[i].items : ValueNamesKeysOnce(nodes[i].items[j])

\* No list of a parsed document names a key twice, at any depth and inside
\* values: what the resolver, the native decoders and the emitter rely on when
\* they look a key up (parser.rs, merge_nodes at the end of each list).
KeysNamedOnce == expecting = "done" => NamesKeysOnce(result.doc.children)
=============================================================================

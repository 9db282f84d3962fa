------------------------------- MODULE Decoder -------------------------------
(***************************************************************************)
(* Serde decoding, rust/src/de.rs: what ValueDeserializer answers to the   *)
(* derived implementation of a native type (Native.tla), as a value or an  *)
(* error with its code and place.                                          *)
(*                                                                         *)
(* A place is the path of the value in the document and the path of the    *)
(* node whose source location is reported; the root stands for the         *)
(* document.  An error without a place has neither yet.  What reads bytes, *)
(* identifiers or any type (flatten, untagged enums) is left out.          *)
(*                                                                         *)
(* Recursive, so for TLC only.                                             *)
(***************************************************************************)
EXTENDS Native, Numbers

CONSTANTS
  MaxNativeDepth,   \* MAX_NATIVE_NESTING_DEPTH
  NumberOf(_),      \* the number that digits stand for
  Characters        \* texts of one character

NameOf(k) == [key |-> k, index |-> 0]

Index(i) == [key |-> "", index |-> i]

Context(segments, source, depth, options) ==
  [segments |-> segments, source |-> source, depth |-> depth, options |-> options]

Root(options) == Context(<<>>, <<>>, 0, options)

Ok(v) == [ok |-> TRUE, v |-> v, code |-> "", field |-> "", place |-> <<>>]

Err(code) == [ok |-> FALSE, v |-> NativeValue("none"), code |-> code, field |-> "", place |-> <<>>]

\* (Mutant.)  The outermost place wins.
AtLast(r, segments, source) ==
  IF r.ok THEN r ELSE [r EXCEPT !.place = <<[path |-> segments, source |-> source]>>]

\* The innermost place wins.
At(r, segments, source) ==
  IF r.ok \/ r.place # <<>> THEN r
  ELSE [r EXCEPT !.place = <<[path |-> segments, source |-> source]>>]

Fails(code, c) == At(Err(code), c.segments, c.source)

\* fill_struct_error: a field that is missing is named.
FillStructError(r, c) ==
  At(r, IF r.code = "missing_field" THEN Append(c.segments, NameOf(r.field)) ELSE c.segments, c.source)

FirstError(results) ==
  results[CHOOSE i \in DOMAIN results :
            ~ results[i].ok /\ \A j \in DOMAIN results : ~ results[j].ok => i <= j]

\* All of the results, or the first that is none.
Gather(results, Make(_)) ==
  IF \A i \in DOMAIN results : results[i].ok
  THEN Ok(Make([i \in DOMAIN results |-> results[i].v])) ELSE FirstError(results)

-----------------------------------------------------------------------------
\* Numbers.

DecodeInteger(type, v, c) ==
  IF v.type # "int" THEN Fails("type_mismatch", c)
  ELSE IF NumberOf(v.val) < type.lo \/ NumberOf(v.val) > type.hi THEN Fails("number_out_of_range", c)
  ELSE Ok(Number("int", NumberOf(v.val)))

\* (Mutant.)  An integer becomes a double before it becomes a single.
TwiceRounded(n) == Rounded(Rounded(n, Double), Single)

\* Integers are converted directly.
SingleOf(n) == Rounded(n, Single)

DecodeSingle(v, c) ==
  LET n == NumberOf(v.val)
      exact == IF v.type = "int" THEN integer_exact(n, Single) ELSE SingleOf(n) = n
  IN
  IF v.type \notin {"int", "float"} THEN Fails("type_mismatch", c)
  ELSE IF ~ FiniteSingle(SingleOf(n)) THEN Fails("number_out_of_range", c)
  ELSE IF ~ c.options.allow_lossy_numbers /\ ~ exact THEN Fails("inexact_number", c)
  ELSE Ok(Number("float", SingleOf(n)))

DecodeDouble(v, c) ==
  LET n == NumberOf(v.val) IN
  IF v.type \notin {"int", "float"} THEN Fails("type_mismatch", c)
  ELSE IF v.type = "float" THEN Ok(Number("float", n))
  ELSE IF ~ c.options.allow_lossy_numbers /\ ~ integer_exact(n, Double) THEN Fails("inexact_number", c)
  ELSE Ok(Number("float", Rounded(n, Double)))

-----------------------------------------------------------------------------

RECURSIVE Decode(_, _, _)

\* The value that a node has as an entry.
ViewNode(node) ==
  CASE node.kind = "field" -> node.value
    [] node.kind = "block" -> Object(node.children, <<>>)
    [] node.kind = "array" -> Array("object", node.items, <<>>)

Child(c, segment, source) == Context(Append(c.segments, segment), source, c.depth + 1, c.options)

\* (Mutant.)  The last level is lost.
TooDeepEarly(c) == c.depth + 1 >= MaxNativeDepth

TooDeep(c) == c.depth >= MaxNativeDepth

DecodeChild(type, v, c, segment, source) ==
  IF TooDeep(c) THEN Fails("nesting_too_deep", c)
  ELSE At(Decode(type, v, Child(c, segment, source)), Append(c.segments, segment), source)

\* An item is located at the named value that contains it.
DecodeItem(type, items, i, c) == DecodeChild(type, items[i], c, Index(i), c.source)

\* A node is located at itself.
DecodeNode(type, node, c) ==
  DecodeChild(type, ViewNode(node), c, NameOf(node.key), Append(c.segments, NameOf(node.key)))

DecodeSeq(type, v, c) ==
  IF v.type # "array" THEN Fails("type_mismatch", c)
  ELSE Gather([i \in DOMAIN v.items |-> DecodeItem(type.of[1], v.items, i, c)],
              LAMBDA parts : Parts("seq", parts))

DecodeTuple(type, v, c) ==
  IF v.type # "array" \/ Len(v.items) # Len(type.of) THEN Fails("type_mismatch", c)
  ELSE Gather([i \in DOMAIN v.items |-> DecodeItem(type.of[i], v.items, i, c)],
              LAMBDA parts : Parts("seq", parts))

\* A key offers a string to its type, which other types than strings do not take.
DecodeKey(type, k) ==
  IF type.t = "string" \/ (type.t = "char" /\ k \in Characters) THEN Ok(Text("string", k))
  ELSE Err("custom_error")

Entry(type, node, c) ==
  LET k == DecodeKey(type.of[1], node.key) IN
  IF k.ok THEN DecodeNode(type.of[2], node, c) ELSE k

DecodeMap(type, v, c) ==
  IF v.type # "object" THEN Fails("type_mismatch", c)
  ELSE Gather([i \in DOMAIN v.children |-> Entry(type, v.children[i], c)],
              LAMBDA parts : MapOf([i \in DOMAIN v.children |-> Text("string", v.children[i].key)], parts))

FieldOf(type, k) == CHOOSE i \in DOMAIN type.names : type.names[i] = k

Knows(type, k) == \E i \in DOMAIN type.names : type.names[i] = k

\* deserialize_ignored_any.
Ignored(node, c) ==
  IF TooDeep(c) THEN Fails("nesting_too_deep", c)
  ELSE IF c.options.reject_unknown_fields
  THEN Fails("unknown_field", Child(c, NameOf(node.key), Append(c.segments, NameOf(node.key))))
  ELSE Ok(NativeValue("unit"))

FieldEntry(type, node, c) ==
  IF Knows(type, node.key) THEN DecodeNode(type.of[FieldOf(type, node.key)], node, c)
  ELSE IF type.deny THEN Err("unknown_field")
  ELSE Ignored(node, c)

DefaultOf(type) ==
  CASE type.t = "option" -> NativeValue("none")
    [] type.t = "seq"    -> Parts("seq", <<>>)
    [] type.t = "int"    -> Number("int", 0)

\* A field that is absent; Serde takes an optional one for none.
Absent(type, i) ==
  IF type.names[i] \in type.defaults \/ type.of[i].t = "option" THEN Ok(DefaultOf(type.of[i]))
  ELSE [Err("missing_field") EXCEPT !.field = type.names[i]]

Position(nodes, k) == CHOOSE i \in DOMAIN nodes : nodes[i].key = k

Has(nodes, k) == \E i \in DOMAIN nodes : nodes[i].key = k

DecodeStruct(type, v, c) ==
  LET entries == [i \in DOMAIN v.children |-> FieldEntry(type, v.children[i], c)]
      fields == [i \in DOMAIN type.names |->
                   IF Has(v.children, type.names[i]) THEN entries[Position(v.children, type.names[i])]
                   ELSE Absent(type, i)]
      first == Gather(entries, LAMBDA parts : NativeValue("unit"))
  IN
  IF v.type # "object" THEN Fails("type_mismatch", c)
  ELSE FillStructError(IF ~ first.ok THEN first
                       ELSE Gather(fields, LAMBDA parts : Named("struct", "", type.names, parts)),
                       c)

\* A tag alone, which only unit variants have.
DecodeTag(type, tag) ==
  IF ~ Knows(type, tag) THEN Err("invalid_enum")
  ELSE IF type.kinds[FieldOf(type, tag)] = "unit" THEN Ok(Text("unit_variant", tag))
  ELSE Err("type_mismatch")

EmptyBody(v) == v.type = "object" /\ v.children = <<>>

\* The payload keeps the source of the enum.
Payload(c, tag) == Context(Append(c.segments, NameOf(tag)), c.source, c.depth + 1, c.options)

DecodePayload(type, v, c, tag) ==
  IF TooDeep(c) THEN Fails("nesting_too_deep", c)
  ELSE Decode(type, v, Payload(c, tag))

DecodeVariant(type, node, c) ==
  LET i == FieldOf(type, node.key)
      kind == type.kinds[i]
      body == ViewNode(node)
      payload == DecodePayload(type.of[i], body, c, node.key)
  IN
  IF ~ Knows(type, node.key) THEN Err("invalid_enum")
  ELSE CASE kind = "unit" ->
              IF EmptyBody(body) THEN Ok(Text("unit_variant", node.key))
              ELSE Fails("type_mismatch", Payload(c, node.key))
         [] kind = "tuple" -> Err("unsupported_type")
         [] kind = "newtype" /\ payload.ok ->
              Ok(Named("newtype_variant", node.key, <<>>, <<payload.v>>))
         [] kind = "struct" /\ payload.ok ->
              Ok(Named("struct_variant", node.key, payload.v.names, payload.v.of))
         [] OTHER -> payload

DecodeEnum(type, v, c) ==
  CASE v.type = "string" -> DecodeTag(type, v.val)
    [] v.type = "object" /\ Len(v.children) = 1 -> DecodeVariant(type, v.children[1], c)
    [] OTHER -> Fails("type_mismatch", c)

DecodeText(type, v, c) ==
  IF v.type = "string" /\ (type.t = "char" => v.val \in Characters) THEN Ok(Text("string", v.val))
  ELSE Fails("type_mismatch", c)

Decode(type, v, c) ==
  CASE type.t = "bool" ->
         IF v.type = "bool" THEN Ok(Text("bool", v.val)) ELSE Fails("type_mismatch", c)
    [] type.t = "unit" ->
         IF v.type = "null" THEN Ok(NativeValue("unit")) ELSE Fails("type_mismatch", c)
    [] type.t = "int"    -> DecodeInteger(type, v, c)
    [] type.t = "single" -> DecodeSingle(v, c)
    [] type.t = "double" -> DecodeDouble(v, c)
    [] type.t \in {"string", "char"} -> DecodeText(type, v, c)
    [] type.t = "option" ->
         IF v.type = "null" THEN Ok(NativeValue("none"))
         ELSE Gather(<<Decode(type.of[1], v, c)>>, LAMBDA parts : Parts("some", parts))
    [] type.t = "newtype" ->
         Gather(<<Decode(type.of[1], v, c)>>, LAMBDA parts : Parts("newtype", parts))
    [] type.t = "seq"    -> DecodeSeq(type, v, c)
    [] type.t = "tuple"  -> DecodeTuple(type, v, c)
    [] type.t = "map"    -> DecodeMap(type, v, c)
    [] type.t = "struct" -> DecodeStruct(type, v, c)
    [] type.t = "enum"   -> DecodeEnum(type, v, c)

\* from_document: an error that nobody placed is at the root, and has no source.
FromDocument(type, children, options) ==
  Decode(type, Object(children, <<>>), Root(options))
=============================================================================

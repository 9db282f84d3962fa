------------------------------- MODULE Mapping -------------------------------
(***************************************************************************)
(* What encoding and decoding promise (rust/README.md, Serde mapping       *)
(* rules), said without a serializer or a deserializer: which document a   *)
(* native value is, which documents conform to a native type, and which    *)
(* value a conforming document is.                                         *)
(*                                                                         *)
(* Recursive, so for TLC only.                                             *)
(***************************************************************************)
EXTENDS Decoder, Encoder

-----------------------------------------------------------------------------
\* Values as documents.

RECURSIVE Tree(_)

NodeFor(k, v) ==
  IF v.type = "object" THEN [Node(k, "block") EXCEPT !.children = v.children]
  ELSE IF v.type = "array" /\ v.elements = "object" THEN [Node(k, "array") EXCEPT !.items = v.items]
  ELSE [Node(k, "field") EXCEPT !.value = v]

\* The nodes of a struct: those of its fields that are not skipped.
Fields(v) ==
  LET written == SelectSeq(v.names, LAMBDA k : k \notin v.skip)
      at(k) == CHOOSE i \in DOMAIN v.names : v.names[i] = k
  IN  [i \in DOMAIN written |-> NodeFor(written[i], Tree(v.of[at(written[i])]))]

RECURSIVE KeyText(_)

KeyText(k) == IF k.v \in {"some", "newtype"} THEN KeyText(k.of[1]) ELSE k.s

IsText(k) == Tree(k).type = "string"

\* The nodes of a map, in the order of their keys.
Entries(v) ==
  LET node(i) == NodeFor(KeyText(v.keys[i]), Tree(v.of[i])) IN
  SortSeq([i \in DOMAIN v.keys |-> node(i)], LAMBDA m, n : Precedes(m.key, n.key))

ItemTypes(items) == {items[i].type : i \in DOMAIN items} \ {"null"}

ArrayOf(items) ==
  Array(IF items = <<>> THEN "string"
        ELSE IF ItemTypes(items) = {} THEN "null"
        ELSE CHOOSE type \in ItemTypes(items) : TRUE,
        items, <<>>)

OneNode(node) == Object(<<node>>, <<>>)

Tree(v) ==
  CASE v.v \in {"int", "float"} -> [Value(v.v) EXCEPT !.val = Digits(v.n)]
    [] v.v = "bool" -> [Value("bool") EXCEPT !.val = v.s]
    [] v.v \in {"string", "unit_variant"} -> [Value("string") EXCEPT !.val = v.s]
    [] v.v \in {"none", "unit", "tuple_variant"} -> Value("null")
    [] v.v \in {"some", "newtype"} -> Tree(v.of[1])
    [] v.v = "seq" -> ArrayOf([i \in DOMAIN v.of |-> Tree(v.of[i])])
    [] v.v = "map" -> Object(IF \A i \in DOMAIN v.keys : IsText(v.keys[i]) THEN Entries(v) ELSE <<>>, <<>>)
    [] v.v = "struct" -> Object(Fields(v), <<>>)
    [] v.v = "newtype_variant" -> OneNode(NodeFor(v.s, Tree(v.of[1])))
    [] v.v = "struct_variant" -> OneNode(NodeFor(v.s, Object(Fields(v), <<>>)))

\* The parts of a value that are encoded.
Written(v) == {v.of[i] : i \in {j \in DOMAIN v.of : v.names = <<>> \/ v.names[j] \notin v.skip}}

RECURSIVE Expressible(_)

\* What the grammar has a text for, apart from nesting.
Expressible(v) ==
  /\ v.v = "int" => v.n <= MaxInt
  /\ v.v = "float" => v.s = ""
  /\ v.v # "tuple_variant"
  /\ \A part \in Written(v) : Expressible(part)
  /\ v.v = "map" => \A i \in DOMAIN v.keys : IsText(v.keys[i])
  /\ v.v = "seq" => Cardinality(ItemTypes([i \in DOMAIN v.of |-> Tree(v.of[i])])) <= 1

RECURSIVE Levels(_)

\* The containers inside one another, a variant with its fields being one.
Levels(v) ==
  LET below == IF Written(v) = {} THEN 0 ELSE Max({Levels(part) : part \in Written(v)})
  IN  below + (IF v.v \in {"seq", "map", "struct", "newtype_variant", "struct_variant"} THEN 1 ELSE 0)

-----------------------------------------------------------------------------
\* Documents as values.

RECURSIVE Defects(_, _, _, _)

\* Where a value is: its path, and whether a variant whose payload it is in, or is,
\* is nearer than any field or entry.
Place(path, payload) == [path |-> path, payload |-> payload]

Defect(code, here) == {[code |-> code, path |-> here.path, payload |-> here.payload]}

\* Places below: of a field or an entry, of one that is missing, of the payload of a
\* variant, of an item.
InEntry(here, k) == Place(Append(here.path, NameOf(k)), FALSE)

AtMissing(here, k) == Place(Append(here.path, NameOf(k)), here.payload)

InPayload(here, tag) == Place(Append(here.path, NameOf(tag)), TRUE)

InItem(here, i) == Place(Append(here.path, Index(i)), here.payload)

FieldDefects(type, node, here, options) ==
  IF Knows(type, node.key)
  THEN Defects(type.of[FieldOf(type, node.key)], ViewNode(node), InEntry(here, node.key), options)
  ELSE IF type.deny THEN Defect("unknown_field", here)
  ELSE IF options.reject_unknown_fields THEN Defect("unknown_field", InEntry(here, node.key))
  ELSE {}

MissingFields(type, v) ==
  {k \in ToSet(type.names) :
     ~ Has(v.children, k) /\ k \notin type.defaults /\ type.of[FieldOf(type, k)].t # "option"}

\* A field that is missing is in its struct.
StructDefects(type, v, here, options) ==
  IF v.type # "object" THEN Defect("type_mismatch", here)
  ELSE UNION {FieldDefects(type, v.children[i], here, options) : i \in DOMAIN v.children}
         \cup UNION {Defect("missing_field", AtMissing(here, k)) : k \in MissingFields(type, v)}

MapDefects(type, v, here, options) ==
  LET defects(node) ==
        IF DecodeKey(type.of[1], node.key).ok
        THEN Defects(type.of[2], ViewNode(node), InEntry(here, node.key), options)
        ELSE Defect("custom_error", here)
  IN
  IF v.type # "object" THEN Defect("type_mismatch", here)
  ELSE UNION {defects(v.children[i]) : i \in DOMAIN v.children}

TagDefects(type, tag, here) ==
  IF ~ Knows(type, tag) THEN Defect("invalid_enum", here)
  ELSE IF type.kinds[FieldOf(type, tag)] # "unit" THEN Defect("type_mismatch", here)
  ELSE {}

VariantDefects(type, node, here, options) ==
  LET i == FieldOf(type, node.key)
      empty == ViewNode(node) = Object(<<>>, <<>>)
      inside == InPayload(here, node.key)
  IN
  IF ~ Knows(type, node.key) THEN Defect("invalid_enum", here)
  ELSE CASE type.kinds[i] = "unit"  -> IF empty THEN {} ELSE Defect("type_mismatch", inside)
         [] type.kinds[i] = "tuple" -> Defect("unsupported_type", here)
         [] OTHER -> Defects(type.of[i], ViewNode(node), inside, options)

EnumDefects(type, v, here, options) ==
  CASE v.type = "string" -> TagDefects(type, v.val, here)
    [] v.type = "object" /\ Len(v.children) = 1 -> VariantDefects(type, v.children[1], here, options)
    [] OTHER -> Defect("type_mismatch", here)

Misfit(type, n, lossy) ==
  CASE type.t = "int" -> IF n \in type.lo..type.hi THEN {} ELSE {"number_out_of_range"}
    [] type.t = "single" /\ ~ FiniteSingle(Rounded(n, Single)) -> {"number_out_of_range"}
    [] OTHER -> IF lossy \/ IsFloat(n, IF type.t = "single" THEN Single ELSE Double)
                THEN {} ELSE {"inexact_number"}

NumberDefects(type, v, here, options) ==
  IF v.type = "int" \/ (v.type = "float" /\ type.t # "int")
  THEN UNION {Defect(code, here) : code \in Misfit(type, NumberOf(v.val), options.allow_lossy_numbers)}
  ELSE Defect("type_mismatch", here)

ItemDefects(TypeAt(_), items, here, options) ==
  UNION {Defects(TypeAt(i), items[i], InItem(here, i), options) : i \in DOMAIN items}

Unless(holds, here) == IF holds THEN {} ELSE Defect("type_mismatch", here)

\* Everything in a value that keeps it from being one of the type.
Defects(type, v, here, options) ==
  CASE type.t \in {"bool", "string"} -> Unless(v.type = type.t, here)
    [] type.t = "char" -> Unless(v.type = "string" /\ v.val \in Characters, here)
    [] type.t = "unit" -> Unless(v.type = "null", here)
    [] type.t \in {"int", "single", "double"} -> NumberDefects(type, v, here, options)
    [] type.t = "option" -> IF v.type = "null" THEN {} ELSE Defects(type.of[1], v, here, options)
    [] type.t = "newtype" -> Defects(type.of[1], v, here, options)
    [] type.t = "seq" ->
         IF v.type # "array" THEN Defect("type_mismatch", here)
         ELSE ItemDefects(LAMBDA i : type.of[1], v.items, here, options)
    [] type.t = "tuple" ->
         IF v.type # "array" \/ Len(v.items) # Len(type.of) THEN Defect("type_mismatch", here)
         ELSE ItemDefects(LAMBDA i : type.of[i], v.items, here, options)
    [] type.t = "map" -> MapDefects(type, v, here, options)
    [] type.t = "struct" -> StructDefects(type, v, here, options)
    [] type.t = "enum" -> EnumDefects(type, v, here, options)

DocumentDefects(type, v, options) == Defects(type, v, Place(<<>>, FALSE), options)

Below(path, node) == Append(path, NameOf(node.key))

\* The nodes of a value, as paths.
RECURSIVE NodePaths(_, _)

NodePaths(v, path) ==
  UNION {{Below(path, v.children[i])} \cup NodePaths(ViewNode(v.children[i]), Below(path, v.children[i])) :
           i \in DOMAIN v.children}
    \cup UNION {NodePaths(v.items[i], Append(path, Index(i))) : i \in DOMAIN v.items}

\* The nearest named value: the longest beginning of the path that is a node's.
NearestNamed(v, path) ==
  LET named == {p \in NodePaths(v, <<>>) : IsPrefix(p, path)} IN
  IF named = {} THEN <<>> ELSE CHOOSE p \in named : \A q \in named : Len(q) <= Len(p)

\* A number of the type that is as near to n as any other.
Nearest(type, n, m) ==
  LET precision == IF type.t = "single" THEN Single ELSE Double IN
  IF type.t = "int" THEN m = n
  ELSE /\ IsFloat(m, precision)
       /\ \A x \in 0..Magnitude(m - n) : IsFloat(n - x, precision) \/ IsFloat(n + x, precision)
                                           => x = Magnitude(m - n)

RECURSIVE Agrees(_, _, _)

AgreesPart(type, nodes, k, v) ==
  IF Has(nodes, k) THEN Agrees(type, v, ViewNode(nodes[Position(nodes, k)]))
  ELSE v = DefaultOf(type)

\* The native value nv of a type says what the value v of a document says.
Agrees(type, nv, v) ==
  LET i == FieldOf(type, nv.s) IN
  CASE type.t \in {"int", "single", "double"} -> Nearest(type, NumberOf(v.val), nv.n)
    [] type.t \in {"bool", "string", "char"} -> nv.s = v.val
    [] type.t = "unit" -> nv.v = "unit"
    [] type.t = "option" ->
         IF v.type = "null" THEN nv.v = "none" ELSE nv.v = "some" /\ Agrees(type.of[1], nv.of[1], v)
    [] type.t = "newtype" -> Agrees(type.of[1], nv.of[1], v)
    [] type.t = "seq" ->
         DOMAIN nv.of = DOMAIN v.items /\ \A j \in DOMAIN nv.of : Agrees(type.of[1], nv.of[j], v.items[j])
    [] type.t = "tuple" ->
         DOMAIN nv.of = DOMAIN v.items /\ \A j \in DOMAIN nv.of : Agrees(type.of[j], nv.of[j], v.items[j])
    [] type.t = "map" ->
         /\ {nv.keys[j].s : j \in DOMAIN nv.keys} = {v.children[j].key : j \in DOMAIN v.children}
         /\ \A j \in DOMAIN nv.of : AgreesPart(type.of[2], v.children, nv.keys[j].s, nv.of[j])
    [] type.t = "struct" ->
         /\ nv.names = type.names
         /\ \A j \in DOMAIN nv.of : AgreesPart(type.of[j], v.children, type.names[j], nv.of[j])
    [] type.t = "enum" ->
         IF type.kinds[i] = "unit"
         THEN nv.v = "unit_variant" /\ (v.type = "object" => v.children[1].key = nv.s)
         ELSE /\ v.children[1].key = nv.s
              /\ IF type.kinds[i] = "newtype" THEN AgreesPart(type.of[i], v.children, nv.s, nv.of[1])
                 ELSE AgreesPart(type.of[i], v.children, nv.s, Named("struct", "", nv.names, nv.of))
=============================================================================

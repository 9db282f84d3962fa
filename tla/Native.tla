------------------------------- MODULE Native -------------------------------
(***************************************************************************)
(* Native types and values as Serde's derived implementations see them,    *)
(* and the calls on a serializer that a value makes.  None of it is the    *)
(* repository's code: it is the environment of rust/src/ser.rs and         *)
(* rust/src/de.rs.                                                         *)
(*                                                                         *)
(* Recursive, so for TLC only.                                             *)
(***************************************************************************)
EXTENDS Document, Integers, SequencesExt, TLC

\* A type: its constructor, the types and names of its parts, the kinds of an
\* enum's variants, the names of the fields that have a default, whether unknown
\* fields are denied, the range of an integer.
Type(t) ==
  [t |-> t, of |-> <<>>, names |-> <<>>, kinds |-> <<>>, defaults |-> {}, deny |-> FALSE,
   lo |-> 0, hi |-> 0]

Of(t, parts) == [Type(t) EXCEPT !.of = parts]

IntType(lo, hi) == [Type("int") EXCEPT !.lo = lo, !.hi = hi]

Struct(names, parts, defaults) ==
  [Of("struct", parts) EXCEPT !.names = names, !.defaults = defaults]

Enum(names, kinds, parts) == [Of("enum", parts) EXCEPT !.names = names, !.kinds = kinds]

\* A value: its constructor, a number or a text, and its parts with their names or
\* keys; the names of the fields that skip_serializing_if leaves out.
NativeValue(v) == [v |-> v, n |-> 0, s |-> "", of |-> <<>>, names |-> <<>>, keys |-> <<>>, skip |-> {}]

Number(v, n) == [NativeValue(v) EXCEPT !.n = n]

Text(v, s) == [NativeValue(v) EXCEPT !.s = s]

Parts(v, parts) == [NativeValue(v) EXCEPT !.of = parts]

Named(v, s, names, parts) == [Parts(v, parts) EXCEPT !.s = s, !.names = names]

MapOf(keys, parts) == [Parts("map", parts) EXCEPT !.keys = keys]

-----------------------------------------------------------------------------
\* The calls that Serialize makes of a serializer.

Call(call) == [call |-> call, text |-> "", n |-> 0]

TextCall(call, text) == [Call(call) EXCEPT !.text = text]

RECURSIVE Calls(_)

AllCalls(values) == FlattenSeq([i \in DOMAIN values |-> Calls(values[i])])

FieldCalls(v) ==
  FlattenSeq([i \in DOMAIN v.names |->
    IF v.names[i] \in v.skip THEN <<TextCall("skip_field", v.names[i])>>
    ELSE <<TextCall("field", v.names[i])>> \o Calls(v.of[i])])

Calls(v) ==
  CASE v.v \in {"int", "float"} -> <<[Call(v.v) EXCEPT !.n = v.n, !.text = v.s]>>
    [] v.v \in {"bool", "string", "unit_variant", "tuple_variant"} -> <<TextCall(v.v, v.s)>>
    [] v.v \in {"none", "unit"} -> <<Call("null")>>
    [] v.v \in {"some", "newtype"} -> Calls(v.of[1])
    [] v.v = "seq" -> <<Call("seq")>> \o AllCalls(v.of) \o <<Call("end")>>
    [] v.v = "map" ->
         <<Call("map")>>
           \o FlattenSeq([i \in DOMAIN v.keys |->
                <<Call("key")>> \o Calls(v.keys[i]) \o <<Call("end_key")>> \o Calls(v.of[i])])
           \o <<Call("end")>>
    [] v.v = "struct" -> <<Call("struct")>> \o FieldCalls(v) \o <<Call("end")>>
    [] v.v = "struct_variant" ->
         <<TextCall("struct_variant", v.s)>> \o FieldCalls(v) \o <<Call("end_variant")>>
    [] v.v = "newtype_variant" ->
         <<TextCall("newtype_variant", v.s)>> \o Calls(v.of[1]) \o <<Call("end_newtype_variant")>>
=============================================================================

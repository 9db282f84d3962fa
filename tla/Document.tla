------------------------------ MODULE Document ------------------------------
(***************************************************************************)
(* The document model of rust/src/model.rs, as far as parsing, composing   *)
(* and emitting tell documents apart.                                      *)
(*                                                                         *)
(* A node list is a sequence of nodes.  A node has a key, a kind, the      *)
(* value of a field, the children of a block, the items of a block array,  *)
(* the replacement flag of a block, and the comments before it and at its  *)
(* end.  A value has a type; an array has items and the type of its        *)
(* elements, an object children.  Comments are named by their provenance   *)
(* (the file and the place in it), so that two are equal here exactly when *)
(* the code takes them for one.                                            *)
(***************************************************************************)
EXTENDS Naturals, Sequences

\* The type of an array's elements while it has none.
NoType == "none"

Value(type) ==
  [type |-> type, val |-> "", elements |-> NoType, items |-> <<>>, children |-> <<>>,
   trailing |-> <<>>]

Scalar(n) == [Value("int") EXCEPT !.val = n]

Object(children, trailing) == [Value("object") EXCEPT !.children = children, !.trailing = trailing]

Array(elements, items, trailing) ==
  [Value("array") EXCEPT !.elements = elements, !.items = items, !.trailing = trailing]

Kinds == {"field", "delete", "block", "array"}

Node(k, kind) ==
  [key |-> k, kind |-> kind, value |-> Value("null"), children |-> <<>>, items |-> <<>>,
   replace |-> FALSE, leading |-> <<>>, trailing |-> <<>>]
=============================================================================

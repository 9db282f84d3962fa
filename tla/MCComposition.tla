---------------------------- MODULE MCComposition ----------------------------
(***************************************************************************)
(* The documents of the composition runs.  The n-th file writes its number *)
(* in every scalar and attaches a comment of its own to every block, so    *)
(* that the run can tell whose text survived.                              *)
(***************************************************************************)
EXTENDS Meaning, TLC

D(k) == Node(k, "delete")

F(k, n) == [Node(k, "field") EXCEPT !.value = Scalar(ToString(n))]

\* A field whose value is a list of one object.
L(k, n) ==
  [Node(k, "field") EXCEPT !.value = Array("array", <<Array("object", <<Object(<<D(k)>>, <<>>)>>, <<>>)>>, <<>>)]

A(k, n) == [Node(k, "array") EXCEPT !.items = <<Object(<<F("x", n)>>, <<>>), Object(<<D("x")>>, <<>>)>>]

B(k, n, children, replace) ==
  [Node(k, "block") EXCEPT !.children = children, !.replace = replace,
                        !.leading = <<n>>, !.trailing = <<10 + n>>]

Inner(n) ==
  {<<>>, <<F("x", n)>>, <<D("x")>>, <<F("y", n), F("x", n)>>, <<B("x", n, <<F("z", n)>>, FALSE)>>,
   <<B("x", n, <<D("z")>>, FALSE)>>}

\* One key: every kind of node on it, with nested blocks.
OneKey(n) ==
  {<<F("a", n)>>, <<L("a", n)>>, <<D("a")>>, <<A("a", n)>>}
    \cup {<<B("a", n, inner, r)>> : inner \in Inner(n), r \in BOOLEAN}

\* Two keys in either order, to move slots about.
TwoKeys(n) ==
  {<<>>, <<F("b", n), F("a", n)>>, <<D("a"), F("b", n)>>,
   <<B("b", n, <<F("x", n)>>, FALSE), B("a", n, <<F("y", n)>>, FALSE)>>}

MCSources(n) == OneKey(n) \cup TwoKeys(n)
=============================================================================

----------------------------- MODULE MCResolver -----------------------------
(***************************************************************************)
(* The resolver over the overlays of module Overlay, on small sets of      *)
(* files.  Each file writes the key all files share, a key of its own, and *)
(* a block that carries a comment of its own.                              *)
(***************************************************************************)
EXTENDS Materialize, Ports, TLC

CONSTANTS A, B, C, D


Own(f) ==
  CASE f = A -> <<[Node("shared", "field") EXCEPT !.value = Scalar(A)],
                  [Node("block", "block") EXCEPT
                     !.children = <<[Node("x", "field") EXCEPT !.value = Scalar(A)]>>,
                     !.leading = <<A>>]>>
    [] f = B -> <<[Node("block", "block") EXCEPT
                     !.children = <<[Node("y", "field") EXCEPT !.value = Scalar(B)]>>,
                     !.leading = <<B>>, !.replace = TRUE]>>
    [] f = C -> <<[Node("block", "block") EXCEPT
                     !.children = <<Node("x", "delete")>>, !.leading = <<C>>],
                  [Node("shared", "field") EXCEPT !.value = Scalar(C)]>>
    [] f = D -> <<Node("shared", "delete")>>

Round(S) == S \cup {MergeNodes(a, b) : a, b \in S}

\* The documents that merging makes of the files' own: three rounds make all of
\* them, as OverlayAssumption confirms.
MCDoc == Round(Round(Round({<<>>} \cup {Own(f) : f \in File})))

MCMerge(base, overlay) == MergeNodes(base, overlay)

MCMergeWork(base, overlay) == MergeNodesWork(base, overlay)

MCMaterialize(doc) == MaterializeNodes(doc)

MCEmpty == <<>>

ImportLists(S, n) == UNION {[1..k -> S] : k \in 0..n}

Document(f, imports) ==
  [outcome |-> "document", imports |-> imports, own |-> Own(f),
   bytes |-> 1 + Len(imports), nodes |-> CountNodes(Own(f))]

Broken(f, how) ==
  [outcome |-> how, imports |-> <<>>, own |-> <<>>, bytes |-> 1, nodes |-> 0]

\* The ways a file may be broken.
AnyBroken(f) == {Broken(f, how) : how \in {"absent", "unreadable", "oversize", "invalid"}}

\* Every import list of two targets.
ReadInFull ==
  [f \in File |-> {Document(f, imports) : imports \in ImportLists(Target, 2)} \cup AnyBroken(f)]

AnyContents(f) == ReadInFull[f]

Later(f) ==
  CASE f = A -> File \ {A} [] f = B -> File \ {A, B} [] f = C -> File \ {A, B, C} [] f = D -> {}

\* Acyclic graphs of small and large files, to run into the limits: up to the
\* names of the files, all those of two imports.
Sized ==
  [f \in File |-> {[Document(f, imports) EXCEPT !.bytes = @ + extra] :
                     imports \in ImportLists(Later(f), 2), extra \in {0, 3}}]

SizedContents(f) == Sized[f]

\* Limits that refuse nothing here, and one left to its default.
AmpleOptions ==
  {[name \in LimitNames |-> 1000], [name \in LimitNames |-> IF name = "files" THEN 0 ELSE 1000]}

\* Limits that refuse the larger graphs, limits that refuse none, and a limit
\* left to its default.
SomeOptions ==
  {[bytes |-> 10, files |-> 3, nodes |-> 11, work |-> 12],
   [name \in LimitNames |-> 1000],
   [bytes |-> 8, files |-> 0, nodes |-> 1000, work |-> 1000]}

AmpleDefaults == [name \in LimitNames |-> 1000]
=============================================================================

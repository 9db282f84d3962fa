----------------------------- MODULE Materialize -----------------------------
(***************************************************************************)
(* What becomes of a composed overlay when composing is over               *)
(* (rust/src/merge.rs, materialize_nodes), and what composing is charged   *)
(* (merge_nodes_budget; rust/src/resolve.rs, count_nodes).                 *)
(*                                                                         *)
(* Lists hold values and values hold lists: each function is a pair of     *)
(* functions, for every depth.                                             *)
(***************************************************************************)
EXTENDS Overlay

\* The elements of a sequence that are at some places.
Kept(s, places) ==
  LET out[i \in 0..Len(s)] ==
        IF i = 0 THEN <<>> ELSE IF i \in places THEN Append(out[i - 1], s[i]) ELSE out[i - 1]
  IN  out[Len(s)]

Each(f, s) == [i \in DOMAIN s |-> f[s[i]]]

\* A value, or a node, with what below makes of its parts.
Rebuilt(below, v) ==
  [v EXCEPT !.children = below.lists[@], !.items = Each(below.values, @)]

Finished(below, node) ==
  [node EXCEPT !.replace = FALSE, !.children = below.lists[@], !.value = below.values[@],
               !.items = Each(below.values, @)]

\* Deletions vanish and replacement flags clear.
FinishedList(below, list) ==
  Kept([i \in DOMAIN list |-> Finished(below, list[i])],
       {i \in DOMAIN list : list[i].kind # "delete"})

finishing[depth \in Nat] ==
  [lists |-> [list \in Lists(depth) |->
                IF depth = 0 THEN <<>> ELSE FinishedList(finishing[depth - 1], list)],
   values |-> [v \in Values(depth) |->
                 IF depth = 0 THEN v ELSE Rebuilt(finishing[depth - 1], v)]]

MaterializeNodes(doc) == finishing[Nesting].lists[doc]

-----------------------------------------------------------------------------

Total(amounts) ==
  LET upTo[i \in 0..Len(amounts)] == IF i = 0 THEN 0 ELSE upTo[i - 1] + amounts[i]
  IN  upTo[Len(amounts)]

\* The slots of both lists, and of those below where two blocks merge.
Slots(below, base, overlay) ==
  Len(base) + Len(overlay)
    + Total([i \in DOMAIN overlay |->
               LET new == overlay[i] IN
               IF new.key \in Keys(base) /\ Merges(base[Slot(base, new.key)], new)
               THEN below[<<base[Slot(base, new.key)].children, new.children>>]
               ELSE 0])

working[depth \in Nat] ==
  [pair \in Lists(depth) \X Lists(depth) |->
     IF depth = 0 THEN 0 ELSE Slots(working[depth - 1], pair[1], pair[2])]

\* The budget a merge takes.  Composed lists name a key once.
MergeNodesWork(base, overlay) == working[Nesting][<<base, overlay>>]

CountBelow(below, n) ==
  CASE n.kind = "field"  -> below.values[n.value]
    [] n.kind = "delete" -> 0
    [] n.kind = "block"  -> below.lists[n.children]
    [] n.kind = "array"  -> Total(Each(below.values, n.items))

counting[depth \in Nat] ==
  [lists |-> [list \in Lists(depth) |->
                IF depth = 0 THEN 0
                ELSE Len(list) + Total([i \in DOMAIN list |->
                                          CountBelow(counting[depth - 1], list[i])])],
   values |-> [v \in Values(depth) |->
                 IF depth = 0 THEN 1
                 ELSE 1 + counting[depth - 1].lists[v.children]
                        + Total(Each(counting[depth - 1].values, v.items))]]

\* The parsed size of a document: each node, plus one for each value.
CountNodes(doc) == counting[Nesting].lists[doc]
=============================================================================

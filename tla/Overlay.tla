------------------------------- MODULE Overlay -------------------------------
(***************************************************************************)
(* Overlay composition of SKG node lists: merge_nodes of                   *)
(* rust/src/merge.rs, which the parser uses to fold repeated keys of one   *)
(* file and the resolver to layer imports under the importing file.        *)
(*                                                                         *)
(* Merging recurs where blocks meet, so it is a function for each depth to *)
(* which documents may nest.                                               *)
(***************************************************************************)
EXTENDS Document

CONSTANTS
  KeyName,       \* the keys of nodes
  Datum,         \* what scalars hold
  CommentName,   \* comments, each named by its provenance
  Nesting        \* how deep node lists and values are in one another

ASSUME NestingAssumption == Nesting \in Nat

Nodes(lists, values) ==
  [key: KeyName, kind: Kinds, value: values, children: lists, items: Seq(values),
   replace: BOOLEAN, leading: Seq(CommentName), trailing: Seq(CommentName)]

Holding(lists, values) ==
  [type: STRING, val: Datum, elements: STRING, items: Seq(values), children: lists,
   trailing: Seq(CommentName)]

KeysOnce(list) == \A i, j \in DOMAIN list : list[i].key = list[j].key => i = j

\* The node lists and the values one deeper than others.  A list names a key once.
Enclosing(below) ==
  [lists |-> {list \in Seq(Nodes(below.lists, below.values)) : KeysOnce(list)},
   values |-> Holding(below.lists, below.values)]

\* Those of at most a depth.
Trees[depth \in Nat] ==
  IF depth = 0 THEN [lists |-> {<<>>}, values |-> Holding({<<>>}, {})]
  ELSE Enclosing(Trees[depth - 1])

Lists(depth) == Trees[depth].lists

Values(depth) == Trees[depth].values

\* What is laid over a list: one as it was written, which may repeat a key.
Written(depth) ==
  IF depth = 0 THEN {<<>>} ELSE Seq(Nodes(Lists(depth - 1), Values(depth - 1)))

Overlays == Lists(Nesting)

-----------------------------------------------------------------------------

Keys(list) == {list[i].key : i \in DOMAIN list}

\* The position a key occupies: the index map of the merge loop.
Slot(list, k) == CHOOSE i \in DOMAIN list : list[i].key = k

\* (Mutant.)  The comments of a shared file are kept for each way it was reached.
ConcatAllComments(base, overlay) == base \o overlay

\* Comments of the overlay follow those of the base, less the ones the base
\* already holds.
ConcatComments(base, overlay) ==
  LET out[i \in 0..Len(overlay)] ==
        IF i = 0 THEN base
        ELSE IF \E j \in DOMAIN base : base[j] = overlay[i] THEN out[i - 1]
        ELSE Append(out[i - 1], overlay[i])
  IN  out[Len(overlay)]

\* Only a block on a block that does not ask for replacement is merged.
Merges(old, new) ==
  /\ new.kind = "block" /\ ~ new.replace
  /\ old.kind = "block"

Merged(below, old, new) ==
  [old EXCEPT !.children = below[<<old.children, new.children>>],
              !.leading = ConcatComments(old.leading, new.leading),
              !.trailing = ConcatComments(old.trailing, new.trailing)]

\* (Mutant.)  A block that replaces a scalar is no barrier to what lies below.
CombineForgetsBarrier(below, old, new) ==
  IF Merges(old, new) THEN Merged(below, old, new) ELSE new

\* What takes the slot of old when new arrives on the same key, where below merges
\* the children of blocks.  A block that does not merge becomes a replacement
\* barrier, whatever its own flag says.
Combine(below, old, new) ==
  IF Merges(old, new) THEN Merged(below, old, new)
  ELSE [new EXCEPT !.replace = (new.kind = "block")]

\* One turn of the overlay loop: a known key keeps its slot, a new one is last.
Put(below, list, node) ==
  IF node.key \in Keys(list)
  THEN [list EXCEPT ![Slot(list, node.key)] = Combine(below, @, node)]
  ELSE Append(list, node)

\* The overlay loop.
Laid(below, base, overlay) ==
  LET result[i \in 0..Len(overlay)] ==
        IF i = 0 THEN base ELSE Put(below, result[i - 1], overlay[i])
  IN  result[Len(overlay)]

merging[depth \in Nat] ==
  [pair \in Lists(depth) \X Written(depth) |->
     IF depth = 0 THEN <<>> ELSE Laid(merging[depth - 1], pair[1], pair[2])]

MergeNodes(base, overlay) == merging[Nesting][<<base, overlay>>]
=============================================================================

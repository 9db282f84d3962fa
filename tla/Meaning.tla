------------------------------- MODULE Meaning -------------------------------
(***************************************************************************)
(* What a list of overlays means, said without composing, and the          *)
(* composed and materialized document beside it.                           *)
(*                                                                         *)
(* The layers are read as one text, all at once: their nodes in a row, the *)
(* later ones behind the earlier ones.                                     *)
(***************************************************************************)
EXTENDS Composition, Materialize

\* Where a key is written first.
FirstPlaces(flat) ==
  {i \in DOMAIN flat : \A j \in 1..(i - 1) : flat[j].key # flat[i].key}

LastPlace(flat, k) == Max({i \in DOMAIN flat : flat[i].key = k})

\* Nothing written for a key before its last barrier can be seen: a deletion, a
\* scalar, a block array, or a block marked for replacement.
IsBarrier(n) == n.kind # "block" \/ n.replace

\* The blocks of a key that can be seen.
Visible(flat, k) ==
  {i \in DOMAIN flat :
     /\ flat[i].key = k /\ flat[i].kind = "block"
     /\ \A j \in (i + 1)..Len(flat) : flat[j].key = k => ~ IsBarrier(flat[j])}

\* The comments of several blocks: each adds those that none before it has.
Gathered(comments) ==
  FlattenSeq([i \in DOMAIN comments |->
                Kept(comments[i], {j \in DOMAIN comments[i] :
                       \A h \in 1..(i - 1) : comments[i][j] \notin Range(comments[h])})])

\* What is left of a key's blocks: one block, with the children of all.
MeantBlock(below, blocks) ==
  [Finished(below, blocks[1]) EXCEPT
     !.children = below.lists[FlattenSeq([i \in DOMAIN blocks |-> blocks[i].children])],
     !.leading = Gathered([i \in DOMAIN blocks |-> blocks[i].leading]),
     !.trailing = Gathered([i \in DOMAIN blocks |-> blocks[i].trailing])]

Meant(below, flat, k) ==
  LET last == flat[LastPlace(flat, k)]
  IN  IF last.kind = "block" THEN MeantBlock(below, Kept(flat, Visible(flat, k)))
      ELSE Finished(below, last)

\* Each key at the place where it was first written, with what its last occurrence
\* leaves of it.
MeantList(below, flat) ==
  Kept([i \in DOMAIN flat |-> Meant(below, flat, flat[i].key)],
       {i \in FirstPlaces(flat) : flat[LastPlace(flat, flat[i].key)].kind # "delete"})

\* A value has one layer: itself.
meaning[depth \in Nat] ==
  [lists |-> [flat \in Written(depth) |->
                IF depth = 0 THEN <<>> ELSE MeantList(meaning[depth - 1], flat)],
   values |-> [v \in Values(depth) |->
                 IF depth = 0 THEN v ELSE Rebuilt(meaning[depth - 1], v)]]

Denote(run) == meaning[Nesting].lists[FlattenSeq(run)]

-----------------------------------------------------------------------------

\* Materializing a composed overlay gives the document that the layers mean:
\* nothing deleted or replaced by a later layer comes back, what a later layer
\* wrote is there, a key stays where it was first written, and a comment of a
\* block that two imports share is there once.
ComposedMeaning ==
  \A j \in DOMAIN parts : MaterializeNodes(parts[j].doc) = Denote(Run(parts[j]))
=============================================================================

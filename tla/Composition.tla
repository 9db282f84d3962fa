----------------------------- MODULE Composition -----------------------------
(***************************************************************************)
(* Overlays composed in every order a tree of imports can ask for.         *)
(*                                                                         *)
(* The resolver never sees the flat list of overlays: an imported file is  *)
(* composed with its own imports first, cached, and the composed document  *)
(* becomes one overlay of the importing file.  layers is the flat list, in *)
(* load order; parts holds the composed documents, each the summary of a   *)
(* run of consecutive layers.  Documents are composed pairwise in any      *)
(* bracketing, and a document already loaded may be layered again, as the  *)
(* shared file of a diamond is.                                            *)
(***************************************************************************)
EXTENDS Overlay, SequencesExt

CONSTANTS
  Sources(_),   \* Sources(n): the documents the n-th file may hold
  MaxLayers     \* bound on the number of layers

ASSUME MaxLayersAssumption == MaxLayers \in Nat \ {0}

\* A file that was read is a list whose repeated keys the parser has folded.
ASSUME SourcesAssumption == \A n \in 1..MaxLayers : Sources(n) \subseteq Overlays

VARIABLES
  layers,   \* every overlay, in load order
  parts     \* composed runs of layers: [lo, hi, doc]

vars == <<layers, parts>>

Init == layers = <<>> /\ parts = <<>>

Layer(doc) ==
  /\ Len(layers) < MaxLayers
  /\ layers' = Append(layers, doc)
  /\ parts' = Append(parts, [lo |-> Len(layers) + 1, hi |-> Len(layers) + 1, doc |-> doc])

\* A file loaded for the first time.
Load == \E doc \in Sources(Len(layers) + 1) : Layer(doc)

\* A file of the cache, reached through another import.
LoadCached == \E i \in DOMAIN layers : Layer(layers[i])

\* Two neighbouring documents composed into one.
Compose(i) ==
  /\ i + 1 \in DOMAIN parts
  /\ parts' = [RemoveAt(parts, i + 1) EXCEPT
                 ![i] = [lo |-> parts[i].lo, hi |-> parts[i + 1].hi,
                         doc |-> MergeNodes(parts[i].doc, parts[i + 1].doc)]]
  /\ UNCHANGED layers

Next ==
  \/ Load
  \/ LoadCached
  \/ \E i \in DOMAIN parts : Compose(i)

Spec == Init /\ [][Next]_vars

-----------------------------------------------------------------------------

Run(p) == SubSeq(layers, p.lo, p.hi)

\* The documents of a list, laid over one another from the first to the last.
Layered(run) ==
  LET upTo[i \in 0..Len(run)] == IF i = 0 THEN <<>> ELSE MergeNodes(upTo[i - 1], run[i])
  IN  upTo[Len(run)]

\* However imports were nested, the composed overlay is the one obtained by
\* layering the same files one after the other: composing is associative, so
\* caching a composed import changes nothing (merge.rs, retained markers).
BracketingIrrelevant ==
  \A j \in DOMAIN parts : parts[j].doc = Layered(Run(parts[j]))
=============================================================================

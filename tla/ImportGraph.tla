----------------------------- MODULE ImportGraph ----------------------------
(***************************************************************************)
(* The import graph that files make, what it means, and what may be wrong  *)
(* with it: no chain, no cache, no counters, no order of traversal.        *)
(*                                                                         *)
(* src is the part of the graph that was read: the contents of each file,  *)
(* or Unread.                                                              *)
(***************************************************************************)
EXTENDS Integers, Sequences, FiniteSets

CONSTANTS
  File, Missing, Outside, Unread, MaxImportDepth,
  EmptyDoc, Merge(_, _), MergeWork(_, _), Materialize(_)

Target == File \cup {Missing, Outside}

NoOrigin == <<>>

Pending == [status |-> "pending"]

-----------------------------------------------------------------------------
\* The graph, as far as it was read.

ReadFiles(src) == {f \in File : src[f] # Unread}

Known(src) == {f \in ReadFiles(src) : src[f].outcome = "document"}

Imports(src, f) == IF f \in Known(src) THEN src[f].imports ELSE <<>>

ImportedBy(src, f) == {Imports(src, f)[i] : i \in DOMAIN Imports(src, f)}

Closed(src, S) == \A f \in S : ImportedBy(src, f) \subseteq S

\* What import statements lead to from t, t included.
Reach(src, t) == {u \in Target : \A S \in SUBSET Target : t \in S /\ Closed(src, S) => u \in S}

OnCycle(src, f) == \E g \in ImportedBy(src, f) : f \in Reach(src, g)

Reached(src, entry) == Reach(src, entry) \cap File

\* The chains of n imports from t.
Chains(src, t, n) ==
  {p \in [0..n -> Target] : p[0] = t /\ \A i \in 1..n : p[i] \in ImportedBy(src, p[i - 1])}

-----------------------------------------------------------------------------
\* The overlays of an acyclic graph in load order, a file after its imports;
\* and the document they make, one laid over the other.

\* The lists of what f imports, one after the other, up to the n-th import.
Below(src, flat, f, n) ==
  LET upTo[i \in 0..n] == IF i = 0 THEN <<>> ELSE upTo[i - 1] \o flat[Imports(src, f)[i]]
  IN  upTo[n]

FlatFile(src, flat, f) ==
  IF f \in Known(src) THEN Below(src, flat, f, Len(src[f].imports)) \o <<src[f].own>> ELSE <<>>

\* A chain that is longer than any may be has no meaning: its end counts for nothing.
Flat(src) ==
  LET level[n \in 0..(MaxImportDepth + 1)] ==
        [t \in Target |-> IF n = 0 THEN <<>> ELSE FlatFile(src, level[n - 1], t)]
  IN  level[MaxImportDepth + 1]

Layered(docs) ==
  LET upTo[i \in 0..Len(docs)] == IF i = 0 THEN EmptyDoc ELSE Merge(upTo[i - 1], docs[i])
  IN  upTo[Len(docs)]

Meaning(src, entry) == Materialize(Layered(Flat(src)[entry]))

-----------------------------------------------------------------------------
\* What the limits are about.

\* The sum of the amounts, in units one can count.
Sum(amount) == Cardinality(UNION {{x} \X (1..amount[x]) : x \in DOMAIN amount})

NoBytes == {"absent", "unreadable"}

Bytes(src) ==
  Sum([f \in {g \in ReadFiles(src) : src[g].outcome \notin NoBytes} |-> src[f].bytes])

Nodes(src) == Sum([f \in Known(src) |-> src[f].nodes])

\* The merges that compose f: of each import, and of its own nodes when it has any.
Merges(src, f) == IF Imports(src, f) = <<>> THEN {} ELSE {f} \X (1..(Len(Imports(src, f)) + 1))

MergeCost(src, f, i) ==
  LET flat == Flat(src) IN
  MergeWork(Layered(Below(src, flat, f, i - 1)),
            IF i <= Len(Imports(src, f)) THEN Layered(flat[Imports(src, f)[i]]) ELSE src[f].own)

Work(src) ==
  Sum([m \in UNION {Merges(src, f) : f \in Known(src)} |-> MergeCost(src, m[1], m[2])])

-----------------------------------------------------------------------------

TooDeepThrough(src, entry, g, t) ==
  \E above, below \in 0..(MaxImportDepth + 1) :
    /\ above + 1 + below > MaxImportDepth
    /\ \E p \in Chains(src, entry, above) : p[above] = g
    /\ Chains(src, t, below) # {}

\* What the import statement at names; the caller names the entry.
Named(entry, src, at) == IF at = NoOrigin THEN entry ELSE src[at[1]].imports[at[2]]

\* Every defect there is, with what it takes for a statement at, which names t, to
\* show it.
Defective(entry, limits, src, code, at, t) ==
  CASE code = "IMPORT_NOT_FOUND" ->
           \/ t = Missing
           \/ t \in ReadFiles(src) /\ src[t].outcome \in NoBytes
           \/ at = NoOrigin /\ ReadFiles(src) = {}
      [] code = "SYSTEM" ->
           /\ at = NoOrigin
           /\ \/ t = Missing
              \/ t \in ReadFiles(src) /\ src[t].outcome \in NoBytes
      [] code = "FILE_TOO_LARGE" ->
           t \in ReadFiles(src) /\ src[t].outcome \in {"unreadable", "oversize"}
      [] code = "PATH_OUTSIDE_ROOT" -> t = Outside
      [] code = "CIRCULAR_IMPORT" -> at # NoOrigin /\ at[1] \in Reach(src, t)
      [] code = "IMPORT_CHAIN_TOO_DEEP" -> at # NoOrigin /\ TooDeepThrough(src, entry, at[1], t)
      [] code = "RESOLUTION_FILE_LIMIT" ->
           /\ t \in File \ ReadFiles(src)
           /\ Cardinality(Reached(src, entry)) > limits.files
      [] code = "RESOLUTION_BYTE_LIMIT" -> t \in ReadFiles(src) /\ Bytes(src) > limits.bytes
      [] code = "RESOLUTION_NODE_LIMIT" -> t \in ReadFiles(src) /\ Nodes(src) > limits.nodes
      [] code = "RESOLUTION_WORK_LIMIT" -> t \in Known(src) /\ Work(src) > limits.work
      [] OTHER -> FALSE

Justified(entry, limits, src, code, at) ==
  IF at # NoOrigin /\ at[2] = 0
  THEN \/ code = "SYNTAX" /\ src[at[1]].outcome = "invalid"
       \/ code = "FILE_TOO_LARGE" /\ src[at[1]].outcome = "oversize"
  ELSE /\ at # NoOrigin =>
            /\ at[1] \in Reached(src, entry) \cap Known(src)
            /\ at[2] \in DOMAIN src[at[1]].imports
       /\ Defective(entry, limits, src, code, at, Named(entry, src, at))

\* Nothing is wrong with the graph, and all of it has been read.
Sound(entry, limits, src) ==
  /\ Reach(src, entry) \subseteq Known(src)
  /\ \A f \in Reached(src, entry) : ~ OnCycle(src, f)
  /\ Chains(src, entry, MaxImportDepth + 1) = {}
  /\ Cardinality(Reached(src, entry)) <= limits.files
  /\ Bytes(src) <= limits.bytes
  /\ Nodes(src) <= limits.nodes
  /\ Work(src) <= limits.work

Answers(entry, limits, src, o) ==
  \/ o = Pending
  \/ o.status = "failed" /\ Justified(entry, limits, src, o.code, o.at)
  \/ o.status = "done" /\ Sound(entry, limits, src) /\ o.doc = Meaning(src, entry)
=============================================================================

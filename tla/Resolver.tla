------------------------------ MODULE Resolver ------------------------------
(***************************************************************************)
(* The import resolver of rust/src/resolve.rs: one call of resolve_with,   *)
(* as the depth-first walk its recursive load makes, with the call stack   *)
(* made explicit.                                                          *)
(*                                                                         *)
(* File systems change under a running resolution.  A file's contents are  *)
(* therefore not fixed beforehand: they are whatever is there when the     *)
(* file is read, and source remembers what was read.                       *)
(*                                                                         *)
(* The overlay algebra is a parameter (Merge, MergeWork, Materialize over  *)
(* Doc); module Overlay models it and module MCResolver supplies it.       *)
(***************************************************************************)
EXTENDS Integers, Sequences

CONSTANTS
  File,              \* canonical paths that exist inside the root
  Missing,           \* a path that cannot be canonicalized
  Outside,           \* a path whose canonical form is outside the root
  Contents(_),       \* Contents(f): what a read of f may find
  Options,           \* limits that callers may ask for; 0 asks for the default
  Defaults,          \* the default limits
  MaxImportDepth,    \* import edges a chain may have
  Doc, EmptyDoc,     \* composed overlays, and the one of no nodes
  Merge(_, _),       \* the overlay on the base
  MergeWork(_, _),   \* the work units that merge is charged
  Materialize(_)     \* the final document of a composed overlay

Target == File \cup {Missing, Outside}

LimitNames == {"bytes", "files", "nodes", "work"}

\* What a read finds: no file that opens, bytes it could not get, more bytes than
\* a file may have, bytes that do not parse, or a document with its import
\* statements, its own overlay and its sizes.
Source == [outcome: {"absent", "unreadable", "oversize", "invalid", "document"},
           imports: Seq(Target), own: Doc, bytes: Nat, nodes: Nat]

Unread == [outcome |-> "unread"]

Resolved == [file: File, depth: Nat, doc: Doc]

Frame == [file: File, next: Nat \ {0}, depth: Nat, merged: Doc]

ASSUME NamesAssumption ==
  /\ Missing \notin File /\ Outside \notin File /\ Missing # Outside
ASSUME SourceAssumption == \A f \in File : Contents(f) \subseteq Source
ASSUME LimitAssumption ==
  /\ MaxImportDepth \in Nat
  /\ Options \subseteq [LimitNames -> Nat]
  /\ Defaults \in [LimitNames -> Nat \ {0}]

ClosedUnderMerge(docs) ==
  \A a, b \in docs : Merge(a, b) \in docs /\ MergeWork(a, b) \in Nat

ASSUME OverlayAssumption == EmptyDoc \in Doc /\ ClosedUnderMerge(Doc)

\* Layering is associative, and an empty overlay adds nothing, above or below.
Associative(docs) ==
  /\ \A d \in docs : Merge(EmptyDoc, d) = d /\ Merge(d, EmptyDoc) = d
  /\ \A a, b, c \in docs : Merge(a, Merge(b, c)) = Merge(Merge(a, b), c)

ASSUME LayeringAssumption == Associative(Doc)

VARIABLES
  entry,    \* the path the caller named
  limits,   \* the limits of the call
  pc,       \* where the walk is
  stack,    \* the frames of load, outermost first; the chain is their files
  target,   \* the path the next load is for
  ret,      \* what the load that returned last handed back
  done,     \* the files fully resolved, with their depth and composed overlay
  source,   \* what was read from each file
  used,     \* the bytes, files and nodes taken from the limits, and merge work
  outcome   \* the diagnostic or the document of the call

vars == <<entry, limits, pc, stack, target, ret, done, source, used, outcome>>

-----------------------------------------------------------------------------

\* A zero option asks for the default.
NonZeroOr(option, default) == IF option = 0 THEN default ELSE option

WithDefaults(options) == [name \in LimitNames |-> NonZeroOr(options[name], Defaults[name])]

Limit(name) == limits[name]

\* What asks for more than is left of a limit.
Exceeds(name, amount) == amount > Limit(name) - used[name]

Top == stack[Len(stack)]

Chain == {stack[i].file : i \in DOMAIN stack}

Imports(f) == source[f].imports

NoOrigin == <<>>

\* The import statement that the load of the (d+1)-th frame is for.
OriginAt(d) == IF d = 0 THEN NoOrigin ELSE <<stack[d].file, stack[d].next>>

ImportOrigin == OriginAt(Len(stack))

OwnOrigin == OriginAt(Len(stack) - 1)

Inside(f) == <<f, 0>>

Pending == [status |-> "pending"]

Fail(code, at) ==
  /\ pc' = "failed"
  /\ outcome' = [status |-> "failed", code |-> code, at |-> at]
  /\ UNCHANGED <<entry, limits, stack, target, ret, done>>

Refuse(code) == Fail(code, ImportOrigin) /\ UNCHANGED <<source, used>>

\* load hands its result to the caller's frame.
Return(f, depth, doc) ==
  /\ pc' = "return"
  /\ ret' = [file |-> f, depth |-> depth, doc |-> doc]

Start ==
  /\ pc = "open"
  /\ stack = <<>>
  /\ entry \in Target
  /\ target = entry
  /\ ret = <<>>
  /\ done = [f \in {} |-> <<>>]
  /\ source = [f \in File |-> Unread]
  /\ used = [name \in LimitNames |-> 0]
  /\ outcome = Pending

Init == Start /\ limits \in {WithDefaults(options) : options \in Options}

-----------------------------------------------------------------------------
\* The resolution root, canonicalized before anything is loaded.

\* (Mutant.)  The entry is not checked against the root: it is entered at once.
OpenRootUnchecked ==
  /\ pc = "open"
  /\ pc' = "read"
  /\ stack' = <<[file |-> target, next |-> 1, depth |-> 0, merged |-> EmptyDoc]>>
  /\ UNCHANGED <<entry, limits, target, ret, done, source, used, outcome>>

OpenRoot ==
  /\ pc = "open"
  /\ pc' = "load"
  /\ UNCHANGED <<entry, limits, stack, target, ret, done, source, used, outcome>>

RootNotFound ==
  /\ pc = "open"
  /\ Refuse("IMPORT_NOT_FOUND")

-----------------------------------------------------------------------------
\* load, up to the push on the chain.  The guards follow the order of its
\* early returns.

LoadUnresolvable ==
  /\ pc = "load" /\ target = Missing
  /\ Refuse("IMPORT_NOT_FOUND")

LoadOutsideRoot ==
  /\ pc = "load" /\ target = Outside
  /\ Refuse("PATH_OUTSIDE_ROOT")

\* (Mutant.)  Only the depth below the cached file is compared.
CachedFitsAlone(f) == done[f].depth <= MaxImportDepth

\* Whether a resolved file, with everything below it, fits under the chain.
CachedFits(f) == Len(stack) + done[f].depth <= MaxImportDepth

LoadCached ==
  /\ pc = "load" /\ target \in DOMAIN done
  /\ \/ /\ CachedFits(target)
        /\ Return(target, done[target].depth, done[target].doc)
        /\ UNCHANGED <<entry, limits, stack, target, done, source, used, outcome>>
     \/ /\ ~ CachedFits(target)
        /\ Refuse("IMPORT_CHAIN_TOO_DEEP")

\* (Mutant.)  Only a file that imports itself is noticed.
LoadSelfCycle ==
  /\ pc = "load" /\ stack # <<>> /\ target = Top.file
  /\ Refuse("CIRCULAR_IMPORT")

LoadCycle ==
  /\ pc = "load" /\ target \in Chain \ DOMAIN done
  /\ Refuse("CIRCULAR_IMPORT")

IsNew == target \in File \ (Chain \cup DOMAIN done)

\* (Mutant.)  The entry file is counted as an import.
ChainAtLimit == Len(stack) >= MaxImportDepth

ChainTooLong == Len(stack) > MaxImportDepth

LoadTooDeep ==
  /\ pc = "load" /\ IsNew /\ ChainTooLong
  /\ Refuse("IMPORT_CHAIN_TOO_DEEP")

LoadTooManyFiles ==
  /\ pc = "load" /\ IsNew /\ ~ ChainTooLong
  /\ Exceeds("files", 1)
  /\ Refuse("RESOLUTION_FILE_LIMIT")

Enter ==
  /\ pc = "load" /\ IsNew /\ ~ ChainTooLong
  /\ ~ Exceeds("files", 1)
  /\ pc' = "read"
  /\ stack' = Append(stack, [file |-> target, next |-> 1, depth |-> 0, merged |-> EmptyDoc])
  /\ used' = [used EXCEPT !.files = @ + 1]
  /\ UNCHANGED <<entry, limits, target, ret, done, source, outcome>>

-----------------------------------------------------------------------------
\* The file is read, parsed and counted.

Reading(c) ==
  /\ source' = [source EXCEPT ![Top.file] = c]

HasBytes(c) == c.outcome \notin {"absent", "unreadable"}

ReadFails(c) ==
  /\ Reading(c) /\ ~ HasBytes(c)
  /\ Fail("IMPORT_NOT_FOUND", OwnOrigin)
  /\ UNCHANGED used

ReadTooManyBytes(c) ==
  /\ Reading(c) /\ HasBytes(c) /\ Exceeds("bytes", c.bytes)
  /\ Fail("RESOLUTION_BYTE_LIMIT", OwnOrigin)
  /\ UNCHANGED used

\* parse_bytes refuses what is too large before it looks at it.
ParseFails(c) ==
  /\ Reading(c) /\ c.outcome \in {"oversize", "invalid"} /\ ~ Exceeds("bytes", c.bytes)
  /\ Fail(IF c.outcome = "oversize" THEN "FILE_TOO_LARGE" ELSE "SYNTAX", Inside(Top.file))
  /\ used' = [used EXCEPT !.bytes = @ + c.bytes]

ParsedTooManyNodes(c) ==
  /\ Reading(c) /\ c.outcome = "document" /\ ~ Exceeds("bytes", c.bytes)
  /\ Exceeds("nodes", c.nodes)
  /\ Fail("RESOLUTION_NODE_LIMIT", OwnOrigin)
  /\ used' = [used EXCEPT !.bytes = @ + c.bytes]

Parsed(c) ==
  /\ Reading(c) /\ c.outcome = "document" /\ ~ Exceeds("bytes", c.bytes)
  /\ ~ Exceeds("nodes", c.nodes)
  /\ pc' = "scan"
  /\ used' = [used EXCEPT !.bytes = @ + c.bytes, !.nodes = @ + c.nodes]
  /\ UNCHANGED <<entry, limits, stack, target, ret, done, outcome>>

-----------------------------------------------------------------------------
\* The imports in order, then the file's own nodes over them.

\* (Mutant.)  The imports are taken from the last to the first.
LoadImportBackwards ==
  /\ pc = "scan" /\ Top.next <= Len(Imports(Top.file))
  /\ pc' = "load"
  /\ target' = Imports(Top.file)[Len(Imports(Top.file)) + 1 - Top.next]
  /\ UNCHANGED <<entry, limits, stack, ret, done, source, used, outcome>>

LoadImport ==
  /\ pc = "scan" /\ Top.next <= Len(Imports(Top.file))
  /\ pc' = "load"
  /\ target' = Imports(Top.file)[Top.next]
  /\ UNCHANGED <<entry, limits, stack, ret, done, source, used, outcome>>

\* (Mutant.)  The edge to the import is not counted.
DeepestBelow(depth, below) == IF below > depth THEN below ELSE depth

Deeper(depth, below) == IF 1 + below > depth THEN 1 + below ELSE depth

\* The importer's frame, past the import that returned.
Advanced ==
  [file |-> Top.file, next |-> Top.next + 1,
   depth |-> Deeper(Top.depth, ret.depth), merged |-> Merge(Top.merged, ret.doc)]

MergeImport ==
  /\ pc = "return" /\ stack # <<>>
  /\ LET cost == MergeWork(Top.merged, ret.doc) IN
     \/ /\ Exceeds("work", cost)
        /\ Refuse("RESOLUTION_WORK_LIMIT")
     \/ /\ ~ Exceeds("work", cost)
        /\ pc' = "scan"
        /\ used' = [used EXCEPT !.work = @ + cost]
        /\ stack' = [stack EXCEPT ![Len(stack)] = Advanced]
        /\ UNCHANGED <<entry, limits, target, ret, done, source, outcome>>

\* A file without imports is not merged, and costs no work.
OwnWork(f, merged) ==
  IF Imports(f) = <<>> THEN 0 ELSE MergeWork(merged, source[f].own)

\* (Mutant.)  The imports are layered over the file.
ComposedUnderImports(f, merged) ==
  IF Imports(f) = <<>> THEN source[f].own ELSE Merge(source[f].own, merged)

Composed(f, merged) ==
  IF Imports(f) = <<>> THEN source[f].own ELSE Merge(merged, source[f].own)

\* (Mutant.)  The file is forgotten.
CacheNothing(f, depth, doc) == UNCHANGED done

Cache(f, depth, doc) ==
  done' = [g \in DOMAIN done \cup {f} |->
             IF g = f THEN [depth |-> depth, doc |-> doc] ELSE done[g]]

\* The file is complete: cached, popped off the chain and handed back.
Finish ==
  /\ pc = "scan" /\ Top.next > Len(Imports(Top.file))
  /\ LET cost == OwnWork(Top.file, Top.merged)
         doc == Composed(Top.file, Top.merged)
     IN
     \/ /\ Exceeds("work", cost)
        /\ Fail("RESOLUTION_WORK_LIMIT", OwnOrigin)
        /\ UNCHANGED <<source, used>>
     \/ /\ ~ Exceeds("work", cost)
        /\ used' = [used EXCEPT !.work = @ + cost]
        /\ Cache(Top.file, Top.depth, doc)
        /\ stack' = SubSeq(stack, 1, Len(stack) - 1)
        /\ Return(Top.file, Top.depth, doc)
        /\ UNCHANGED <<entry, limits, target, source, outcome>>

Deliver ==
  /\ pc = "return" /\ stack = <<>>
  /\ pc' = "done"
  /\ outcome' = [status |-> "done", doc |-> Materialize(ret.doc)]
  /\ UNCHANGED <<entry, limits, stack, target, ret, done, source, used>>

Terminated == pc \in {"done", "failed"} /\ UNCHANGED vars

Read ==
  /\ pc = "read"
  /\ \E c \in Contents(Top.file) :
       \/ ReadFails(c)
       \/ ReadTooManyBytes(c)
       \/ ParseFails(c)
       \/ ParsedTooManyNodes(c)
       \/ Parsed(c)

Load ==
  \/ LoadUnresolvable
  \/ LoadOutsideRoot
  \/ LoadCached
  \/ LoadCycle
  \/ LoadTooDeep
  \/ LoadTooManyFiles
  \/ Enter

Next ==
  \/ OpenRoot
  \/ RootNotFound
  \/ Load
  \/ Read
  \/ LoadImport
  \/ MergeImport
  \/ Finish
  \/ Deliver
  \/ Terminated

\* The call runs to its end: one thread, which waits for nobody.
Spec == Init /\ [][Next]_vars /\ WF_vars(Next)

-----------------------------------------------------------------------------

TypeOK ==
  /\ entry \in Target
  /\ limits \in [LimitNames -> Nat]
  /\ pc \in {"open", "load", "read", "scan", "return", "done", "failed"}
  /\ stack \in Seq(Frame)
  /\ target \in Target
  /\ ret \in Resolved \cup {<<>>}
  /\ DOMAIN done \subseteq File
  /\ \A f \in DOMAIN done : done[f] \in [depth: Nat, doc: Doc]
  /\ source \in [File -> Source \cup {Unread}]
  /\ used \in [LimitNames -> Nat]

\* The cache never answers for a file that is still being resolved, and no file
\* is twice on the chain: so memoization cannot hide a cycle (resolve.rs, done).
CacheAvoidsChain ==
  /\ Chain \cap DOMAIN done = {}
  /\ \A i, j \in DOMAIN stack : stack[i].file = stack[j].file => i = j

\* A cached file has everything below it in the cache, at a smaller depth.  The
\* depth is thus a rank: what a completed resolution reached has no cycle, and
\* no import chain of it is longer than the depth of the entry file.
CacheIsRanked ==
  \A f \in DOMAIN done :
    /\ source[f].outcome = "document"
    /\ \A i \in DOMAIN Imports(f) :
         /\ Imports(f)[i] \in DOMAIN done
         /\ done[Imports(f)[i]].depth < done[f].depth

\* The chain that leads to a file, and the deepest chain below it, are together
\* within the import depth, by whatever routes the file was reached before; and
\* so the whole graph is, once it is resolved.
DepthWithinLimit ==
  /\ \A i \in DOMAIN stack : (i - 1) + stack[i].depth <= MaxImportDepth
  /\ pc = "return" => Len(stack) + ret.depth <= MaxImportDepth
  /\ pc = "done" => entry \in DOMAIN done /\ done[entry].depth <= MaxImportDepth

\* No limit is ever overdrawn, so what is left of it cannot wrap below zero.
WithinLimits == \A name \in LimitNames : used[name] <= Limit(name)

\* The i-th frame is at the import statement that names t.
At(i, t) ==
  /\ stack[i].next <= Len(Imports(stack[i].file))
  /\ t = Imports(stack[i].file)[stack[i].next]

\* The imports the i-th frame is past are cached, and counted in its depth.
Scanned(i) ==
  /\ source[stack[i].file].outcome = "document"
  /\ stack[i].next <= Len(Imports(stack[i].file)) + 1
  /\ \A j \in 1..(stack[i].next - 1) :
       /\ Imports(stack[i].file)[j] \in DOMAIN done
       /\ done[Imports(stack[i].file)[j]].depth < stack[i].depth

\* While the walk is under way its frames are a route of import statements from
\* the entry file to what is being loaded: the route diagnostics print, and the
\* statement they point at (chain, Origin).
ChainIsRoute ==
  pc # "failed" =>
    /\ stack # <<>> => stack[1].file = entry
    /\ \A i \in 1..(Len(stack) - 1) : Scanned(i) /\ At(i, stack[i + 1].file)
    /\ stack # <<>> /\ pc \in {"scan", "load", "return"} => Scanned(Len(stack))
    /\ pc = "open" => stack = <<>> /\ target = entry
    /\ pc = "load" => IF stack = <<>> THEN target = entry ELSE At(Len(stack), target)
    /\ pc = "return" =>
         /\ ret \in Resolved
         /\ ret.file \in DOMAIN done /\ ret.depth = done[ret.file].depth
         /\ IF stack = <<>> THEN ret.file = entry ELSE At(Len(stack), ret.file)
    /\ pc = "read" => stack # <<>> /\ Top.next = 1 /\ source[Top.file] = Unread
    /\ pc = "scan" => stack # <<>>
    /\ \A f \in File : source[f] # Unread => f \in Chain \cup DOMAIN done

\* What all of these rest on, together: an inductive invariant.
IInv ==
  /\ TypeOK
  /\ CacheAvoidsChain
  /\ CacheIsRanked
  /\ DepthWithinLimit
  /\ WithinLimits
  /\ ChainIsRoute

\* A file is read at most once in a call, whichever routes reach it and whatever
\* happens to it meanwhile: a result never mixes two versions of one file.
ReadOnce == [][\A f \in File : source[f] # Unread => source'[f] = source[f]]_vars

Graph == INSTANCE ImportGraph

Reach(src, t) == Graph!Reach(src, t)

Answers(e, lim, src, o) == Graph!Answers(e, lim, src, o)

Contract == INSTANCE ResolveContract

\* A call ends: with a document, or with a diagnostic.
Termination == <>(pc \in {"done", "failed"})
=============================================================================

--------------------------- MODULE ResolverProofs ---------------------------
(***************************************************************************)
(* Proofs about the resolver.                                              *)
(*                                                                         *)
(* First, that IInv is inductive, and that the invariants it is made of    *)
(* hold for every set of files, every content of them, every limit and     *)
(* every overlay algebra.  One lemma per action; the theorems follow.      *)
(*                                                                         *)
(* Second, that a resolution implements the contract of module             *)
(* ResolveContract, for any files, limits and import graph.  The contract  *)
(* speaks of the graph alone; the walk has a chain, a cache and counters.  *)
(* CInv says what these mean in the graph read so far: a file that is done *)
(* stands for the whole graph below it, without a cycle, with its overlays *)
(* laid over one another and its depth the longest chain from it; a frame  *)
(* stands for the imports it has merged; and what was charged is what was  *)
(* read and merged.  Reading another file changes none of it, as what is   *)
(* done leads to nothing unread (Extends).                                 *)
(*                                                                         *)
(* There come first facts of the graph: sums, what is reached, layering,   *)
(* chains, and what they keep when a file is read.  Then CInv, with a      *)
(* lemma for each action of the walk (...Means), and why what the walk     *)
(* answers is an answer of the contract (...Answers).                      *)
(*                                                                         *)
(* Third, the same for the resolvers of Go and Zig and for the three       *)
(* called one after another.  Whatever a port does as the Rust walk does   *)
(* is a step of Resolver, and needs no proof of its own; what it does      *)
(* differently fails the call, or looks up a depth that the invariant says *)
(* is the one the load handed back.                                        *)
(*                                                                         *)
(* Fourth, that the ports agree, which needs more than an invariant of one *)
(* walk: each walk is related to the history of the Rust one.              *)
(*                                                                         *)
(* Fifth, the contract for the three callers: each sees its own port's     *)
(* walk implement it, and the others' turns as steps that change nothing.  *)
(***************************************************************************)
EXTENDS Ports, SequenceLemmas


\* Every limit of a call is a number.
LEMMA LimitType ==
  ASSUME IInv
  PROVE  \A name \in LimitNames : Limit(name) \in Nat
  BY DEF IInv, TypeOK, Limit

\* Nothing is loaded yet, and the limits are numbers.
LEMMA StartInv ==
  ASSUME Start, limits \in [LimitNames -> Nat]
  PROVE  IInv
  <1>1. TypeOK
    BY DEF Start, TypeOK, Target
  <1>2. CacheAvoidsChain /\ CacheIsRanked
    BY DEF Start, CacheAvoidsChain, CacheIsRanked, Chain
  <1>3. DepthWithinLimit /\ WithinLimits
    BY DEF Start, DepthWithinLimit, WithinLimits, Limit
  <1>4. ChainIsRoute
    BY DEF Start, ChainIsRoute, Unread
  <1>5. QED
    BY <1>1, <1>2, <1>3, <1>4 DEF IInv

\* The defaults fill in the zeros.
LEMMA DefaultsType ==
  ASSUME NEW asked \in Options
  PROVE  WithDefaults(asked) \in [LimitNames -> Nat]
  BY LimitAssumption DEF WithDefaults, NonZeroOr

\* A call begins with an empty cache and an empty chain.
LEMMA InitInv == Init => IInv
  BY StartInv, DefaultsType DEF Init

\* A failure that takes nothing leaves everything but the outcome.
LEMMA FailInv ==
  ASSUME IInv, NEW code, NEW at, Fail(code, at), UNCHANGED <<source, used>>
  PROVE  IInv'
  <1> USE DEF Fail
  <1>1. TypeOK'
    BY DEF IInv, TypeOK
  <1>2. CacheAvoidsChain'
    BY DEF IInv, CacheAvoidsChain, Chain
  <1>3. CacheIsRanked'
    BY DEF IInv, CacheIsRanked, Imports
  <1>4. DepthWithinLimit'
    BY DEF IInv, DepthWithinLimit
  <1>5. WithinLimits'
    BY DEF IInv, WithinLimits, Limit
  <1>6. ChainIsRoute'
    BY DEF ChainIsRoute
  <1>7. QED
    BY <1>1, <1>2, <1>3, <1>4, <1>5, <1>6 DEF IInv

\* The root becomes the first link of the chain.
LEMMA OpenRootInv ==
  ASSUME IInv, OpenRoot
  PROVE  IInv'
  <1> USE DEF OpenRoot
  <1>1. TypeOK'
    BY DEF IInv, TypeOK
  <1>2. CacheAvoidsChain'
    BY DEF IInv, CacheAvoidsChain, Chain
  <1>3. CacheIsRanked'
    BY DEF IInv, CacheIsRanked, Imports
  <1>4. DepthWithinLimit'
    BY DEF IInv, DepthWithinLimit
  <1>5. WithinLimits'
    BY DEF IInv, WithinLimits, Limit
  <1>6. ChainIsRoute'
    <2>1. stack = <<>> /\ target = entry
      BY DEF IInv, ChainIsRoute
    <2>2. pc' = "load" /\ stack' = <<>> /\ target' = entry' /\ 1..(Len(stack') - 1) = {}
      <3>1. stack' = <<>> /\ Len(stack') = 0
        BY <2>1
      <3>2. QED
        BY <2>1, <3>1
    <2>3. (\A i \in 1..(Len(stack) - 1) : Scanned(i) /\ At(i, stack[i + 1].file))'
      BY <2>2
    <2>4. (\A f \in File : source[f] # Unread => f \in Chain \cup DOMAIN done)'
      BY DEF IInv, ChainIsRoute, Chain
    <2>5. QED
      BY <2>2, <2>3, <2>4 DEF ChainIsRoute
  <1>7. QED
    BY <1>1, <1>2, <1>3, <1>4, <1>5, <1>6 DEF IInv

\* A refusal takes nothing, whatever its code.
LEMMA RefuseInv ==
  ASSUME IInv, NEW code, Refuse(code)
  PROVE  IInv'
  BY FailInv DEF Refuse

\* An imported file of the cache is handed back only if it fits the chain.
LEMMA LoadCachedInv ==
  ASSUME IInv, LoadCached
  PROVE  IInv'
  <1>1. CASE Refuse("IMPORT_CHAIN_TOO_DEEP")
    BY <1>1, RefuseInv
  <1>2. CASE /\ pc = "load" /\ target \in DOMAIN done
             /\ CachedFits(target)
             /\ Return(target, done[target].depth, done[target].doc)
             /\ UNCHANGED <<entry, limits, stack, target, done, source, used, outcome>>
    <2> USE <1>2 DEF Return
    <2>1. target \in File /\ done[target] \in [depth: Nat, doc: Doc]
      BY DEF IInv, TypeOK
    <2>2. ret' \in Resolved /\ ret'.file = target /\ ret'.depth = done[target].depth
      BY <2>1 DEF Resolved
    <2>3. TypeOK'
      BY <2>2 DEF IInv, TypeOK
    <2>4. CacheAvoidsChain'
      BY DEF IInv, CacheAvoidsChain, Chain
    <2>5. CacheIsRanked'
      BY DEF IInv, CacheIsRanked, Imports
    <2>6. DepthWithinLimit'
      BY <2>2 DEF IInv, DepthWithinLimit, CachedFits
    <2>7. WithinLimits'
      BY DEF IInv, WithinLimits, Limit
    <2>8. ChainIsRoute'
      <3>1. (\A i \in 1..(Len(stack) - 1) : Scanned(i) /\ At(i, stack[i + 1].file))'
        BY DEF IInv, ChainIsRoute, Scanned, At, Imports
      <3>2. stack # <<>> => Scanned(Len(stack))'
        BY DEF IInv, ChainIsRoute, Scanned, Imports
      <3>3. IF stack = <<>> THEN target = entry ELSE At(Len(stack), target)'
        BY DEF IInv, ChainIsRoute, At, Imports
      <3>4. \A f \in File : source[f] # Unread => f \in Chain' \cup DOMAIN done
        BY DEF IInv, ChainIsRoute, Chain
      <3>5. stack # <<>> => stack[1].file = entry
        BY DEF IInv, ChainIsRoute
      <3>6. QED
        BY <2>1, <2>2, <3>1, <3>2, <3>3, <3>4, <3>5 DEF ChainIsRoute, At, Imports
    <2>9. QED
      BY <2>3, <2>4, <2>5, <2>6, <2>7, <2>8 DEF IInv
  <1>3. QED
    BY <1>1, <1>2 DEF LoadCached

\* A new file is pushed only where the chain has room, and only once.
LEMMA EnterInv ==
  ASSUME IInv, Enter
  PROVE  IInv'
  <1> DEFINE n == Len(stack)
             frame == [file |-> target, next |-> 1, depth |-> 0, merged |-> EmptyDoc]
  <1>1. /\ stack \in Seq(Frame) /\ n \in Nat /\ frame \in Frame
        /\ target \in File /\ used \in [LimitNames -> Nat]
    BY OverlayAssumption DEF IInv, TypeOK, Frame, Enter, IsNew
  <1>2. stack' = Append(stack, frame)
    BY DEF Enter
  <1>3. /\ stack' \in Seq(Frame) /\ Len(stack') = n + 1
        /\ DOMAIN stack' = 1..(n + 1) /\ DOMAIN stack = 1..n
        /\ \A i \in 1..n : stack'[i] = stack[i]
        /\ stack'[n + 1] = frame
        /\ stack'[n + 1].file = target /\ stack'[n + 1].next = 1 /\ stack'[n + 1].depth = 0
    BY <1>1, <1>2
  <1>4. /\ target \notin Chain /\ target \notin DOMAIN done /\ n <= MaxImportDepth
        /\ pc = "load" /\ pc' = "read"
        /\ UNCHANGED <<entry, limits, target, ret, done, source, outcome>>
        /\ used' = [used EXCEPT !.files = @ + 1]
        /\ ~ Exceeds("files", 1)
    BY <1>1, LimitAssumption DEF Enter, IsNew, ChainTooLong
  <1>5. Chain' = Chain \cup {target}
    BY <1>1, <1>3 DEF Chain
  <1>6. source[target] = Unread
    BY <1>1, <1>4 DEF IInv, ChainIsRoute
  <1>7. TypeOK'
    <2>1. used' \in [LimitNames -> Nat]
      BY <1>1, <1>4 DEF LimitNames
    <2>2. QED
      BY <1>3, <1>4, <2>1 DEF IInv, TypeOK
  <1>8. CacheAvoidsChain'
    <2>1. (Chain \cap DOMAIN done = {})'
      BY <1>4, <1>5 DEF IInv, CacheAvoidsChain
    <2>2. \A i \in 1..n : stack[i].file # target
      BY <1>1, <1>4 DEF Chain
    <2>3. (\A i, j \in DOMAIN stack : stack[i].file = stack[j].file => i = j)'
      BY <1>1, <1>3, <2>2 DEF IInv, CacheAvoidsChain
    <2>4. QED
      BY <2>1, <2>3 DEF CacheAvoidsChain
  <1>9. CacheIsRanked'
    BY <1>4 DEF IInv, CacheIsRanked, Imports
  <1>10. DepthWithinLimit'
    <2>1. \A i \in 1..n : (i - 1) + stack[i].depth <= MaxImportDepth
      BY <1>3 DEF IInv, DepthWithinLimit
    <2>2. \A i \in 1..n : (i - 1) + stack'[i].depth <= MaxImportDepth
      BY <1>3, <2>1
    <2>3. ((n + 1) - 1) + stack'[n + 1].depth <= MaxImportDepth
      BY <1>1, <1>3, <1>4, LimitAssumption
    <2>4. \A i \in 1..(n + 1) : (i - 1) + stack'[i].depth <= MaxImportDepth
      <3>1. \A i \in 1..(n + 1) : i \in 1..n \/ i = n + 1
        BY <1>1
      <3>2. QED
        BY <2>2, <2>3, <3>1
    <2>5. QED
      BY <1>3, <1>4, <2>4 DEF DepthWithinLimit
  <1>11. WithinLimits'
    <2>1. /\ used'["files"] = used["files"] + 1
          /\ \A name \in LimitNames \ {"files"} : used'[name] = used[name]
      BY <1>1, <1>4 DEF LimitNames
    <2>2. \A name \in LimitNames :
            used[name] \in Nat /\ used[name] <= Limit(name) /\ Limit(name)' = Limit(name)
      BY <1>1, <1>4 DEF IInv, WithinLimits, Limit
    <2>3. "files" \in LimitNames
      BY DEF LimitNames
    <2>4. used["files"] + 1 <= Limit("files")
      BY <1>4, <2>2, <2>3, LimitType DEF Exceeds
    <2>5. QED
      BY <2>1, <2>2, <2>4 DEF WithinLimits
  <1>12. ChainIsRoute'
    <2>1. \A i \in 1..n : Scanned(i)' /\ At(i, stack[i + 1].file)'
      <3>1. \A i \in 1..(n - 1) : Scanned(i) /\ At(i, stack[i + 1].file)
        BY <1>4 DEF IInv, ChainIsRoute
      <3>2. n # 0 => Scanned(n) /\ At(n, target)
        BY <1>1, <1>4 DEF IInv, ChainIsRoute
      <3>3. \A i \in 1..n : Scanned(i) /\ At(i, stack'[i + 1].file)
        BY <1>1, <1>3, <3>1, <3>2
      <3>4. \A i \in 1..n : Scanned(i) => Scanned(i)'
        BY <1>3, <1>4 DEF Scanned, Imports
      <3>5. \A i \in 1..n : At(i, stack'[i + 1].file) => At(i, stack[i + 1].file)'
        BY <1>3, <1>4 DEF At, Imports
      <3>6. QED
        BY <3>3, <3>4, <3>5
    <2>2. (stack')[1].file = entry
      BY <1>1, <1>3, <1>4 DEF IInv, ChainIsRoute
    <2>3. Top' = frame
      BY <1>3 DEF Top
    <2>4. \A f \in File : source[f] # Unread => f \in Chain \cup DOMAIN done
      BY <1>4 DEF IInv, ChainIsRoute
    <2>5. (\A f \in File : source[f] # Unread => f \in Chain \cup DOMAIN done)'
      BY <1>4, <1>5, <2>4
    <2>6. (stack # <<>> /\ Top.next = 1 /\ source[Top.file] = Unread)'
      BY <1>1, <1>3, <1>4, <1>6, <2>3
    <2>7. (\A i \in 1..(Len(stack) - 1) : Scanned(i) /\ At(i, stack[i + 1].file))'
      BY <1>1, <1>3, <2>1
    <2>8. QED
      BY <1>4, <2>2, <2>5, <2>6, <2>7 DEF ChainIsRoute
  <1>13. QED
    BY <1>7, <1>8, <1>9, <1>10, <1>11, <1>12 DEF IInv

\* The file being read is on the chain alone, and not in the cache.
LEMMA ReadingOnlyTop ==
  ASSUME IInv, pc = "read", NEW c \in Contents(Top.file), Reading(c)
  PROVE  /\ Top.file \in File /\ c \in Source /\ Top.file \in Chain
         /\ Top.file \notin DOMAIN done
         /\ Len(stack) \in Nat \ {0} /\ DOMAIN stack = 1..Len(stack)
         /\ \A i \in 1..(Len(stack) - 1) : stack[i].file \in File /\ stack[i].file # Top.file
         /\ source'[Top.file] = c
         /\ \A f \in File \ {Top.file} : source'[f] = source[f]
         /\ source' \in [File -> Source \cup {Unread}]
         /\ source[Top.file] = Unread
  <1>1. stack \in Seq(Frame) /\ stack # <<>> /\ source \in [File -> Source \cup {Unread}]
    BY DEF IInv, TypeOK, ChainIsRoute
  <1>2. Len(stack) \in Nat \ {0} /\ DOMAIN stack = 1..Len(stack)
    BY <1>1
  <1>3. \A i \in 1..Len(stack) : stack[i].file \in File
    <2>1. \A i \in 1..Len(stack) : stack[i] \in Frame
      BY <1>1
    <2>2. QED
      BY <2>1 DEF Frame
  <1>4. Top.file \in File /\ Top.file \in Chain
    BY <1>2, <1>3 DEF Top, Chain
  <1>5. c \in Source
    BY <1>4, SourceAssumption
  <1>6. Top.file \notin DOMAIN done
    BY <1>4 DEF IInv, CacheAvoidsChain
  <1>7. \A i \in 1..(Len(stack) - 1) : stack[i].file # Top.file
    BY <1>2 DEF IInv, CacheAvoidsChain, Top
  <1>8. QED
    BY <1>1, <1>2, <1>3, <1>4, <1>5, <1>6, <1>7 DEF Reading, IInv, ChainIsRoute

\* What the cache says of its files does not depend on the file being read.
LEMMA ReadingKeepsCache ==
  ASSUME IInv, pc = "read", NEW c \in Contents(Top.file), Reading(c), UNCHANGED done
  PROVE  CacheIsRanked'
  <1>1. \A f \in DOMAIN done : f \in File \ {Top.file}
    BY ReadingOnlyTop DEF IInv, TypeOK
  <1>2. \A f \in DOMAIN done : source'[f] = source[f]
    BY <1>1, ReadingOnlyTop
  <1>3. QED
    BY <1>2 DEF IInv, CacheIsRanked, Imports

\* A read that fails the call.
LEMMA ReadFailedInv ==
  ASSUME IInv, pc = "read", NEW c \in Contents(Top.file), Reading(c),
         NEW code, NEW at, Fail(code, at),
         used' \in [LimitNames -> Nat], WithinLimits'
  PROVE  IInv'
  <1> USE DEF Fail
  <1>1. TypeOK'
    BY ReadingOnlyTop DEF IInv, TypeOK
  <1>2. CacheAvoidsChain'
    BY DEF IInv, CacheAvoidsChain, Chain
  <1>3. CacheIsRanked'
    BY ReadingKeepsCache
  <1>4. DepthWithinLimit'
    BY DEF IInv, DepthWithinLimit
  <1>5. ChainIsRoute'
    BY DEF ChainIsRoute
  <1>6. QED
    BY <1>1, <1>2, <1>3, <1>4, <1>5 DEF IInv

\* A document that fits the limits is kept, and its imports come next.
LEMMA ParsedInv ==
  ASSUME IInv, pc = "read", NEW c \in Contents(Top.file), Parsed(c)
  PROVE  IInv'
  <1>1. /\ Reading(c) /\ c.outcome = "document" /\ pc' = "scan"
        /\ UNCHANGED <<entry, limits, stack, target, ret, done, outcome>>
        /\ used' = [used EXCEPT !.bytes = @ + c.bytes, !.nodes = @ + c.nodes]
        /\ ~ Exceeds("bytes", c.bytes) /\ ~ Exceeds("nodes", c.nodes)
    BY DEF Parsed
  <1>2. /\ c \in Source /\ c.bytes \in Nat /\ c.nodes \in Nat /\ c.imports \in Seq(Target)
        /\ used \in [LimitNames -> Nat]
    BY <1>1, ReadingOnlyTop DEF Source, IInv, TypeOK
  <1>3. /\ used' \in [LimitNames -> Nat]
        /\ used'["bytes"] = used["bytes"] + c.bytes
        /\ used'["nodes"] = used["nodes"] + c.nodes
        /\ \A name \in LimitNames \ {"bytes", "nodes"} : used'[name] = used[name]
    <2> DEFINE taken == [used EXCEPT !.bytes = @ + c.bytes]
    <2>1. /\ taken \in [LimitNames -> Nat] /\ taken["bytes"] = used["bytes"] + c.bytes
          /\ \A name \in LimitNames \ {"bytes"} : taken[name] = used[name]
      BY <1>2 DEF LimitNames
    <2>2. used' = [taken EXCEPT !.nodes = @ + c.nodes]
      BY <1>1
    <2> HIDE DEF taken
    <2>3. taken["nodes"] = used["nodes"] /\ taken["nodes"] + c.nodes \in Nat
      BY <1>2, <2>1 DEF LimitNames
    <2>4. used' \in [LimitNames -> Nat] /\ used'["nodes"] = used["nodes"] + c.nodes
      BY <2>1, <2>2, <2>3 DEF LimitNames
    <2>5. \A name \in LimitNames \ {"nodes"} : used'[name] = taken[name]
      BY <2>1, <2>2 DEF LimitNames
    <2>6. "bytes" \in LimitNames \ {"nodes"}
      BY DEF LimitNames
    <2>7. QED
      BY <2>1, <2>4, <2>5, <2>6
  <1>4. TypeOK'
    BY <1>1, <1>3, ReadingOnlyTop DEF IInv, TypeOK
  <1>5. CacheAvoidsChain'
    BY <1>1 DEF IInv, CacheAvoidsChain, Chain
  <1>6. CacheIsRanked'
    BY <1>1, ReadingKeepsCache
  <1>7. DepthWithinLimit'
    BY <1>1 DEF IInv, DepthWithinLimit
  <1>8. WithinLimits'
    <2>1. \A name \in LimitNames : Limit(name) \in Nat /\ Limit(name)' = Limit(name)
      <3>1. \A name \in LimitNames : Limit(name) \in Nat
        BY LimitType
      <3>2. \A name \in LimitNames : Limit(name)' = Limit(name)
        BY <1>1 DEF Limit
      <3>3. QED
        BY <3>1, <3>2
    <2>2. \A name \in LimitNames : used[name] \in Nat /\ used[name] <= Limit(name)
      BY <1>2 DEF IInv, WithinLimits
    <2>3. "bytes" \in LimitNames /\ "nodes" \in LimitNames
      BY DEF LimitNames
    <2>4. used["bytes"] + c.bytes <= Limit("bytes") /\ used["nodes"] + c.nodes <= Limit("nodes")
      BY <1>1, <1>2, <2>1, <2>2, <2>3 DEF Exceeds
    <2>5. \A name \in LimitNames : used'[name] <= Limit(name)
      BY <1>3, <2>2, <2>4
    <2>6. QED
      BY <2>1, <2>5 DEF WithinLimits
  <1>9. ChainIsRoute'
    <2>1. \A i \in 1..(Len(stack) - 1) : Scanned(i) /\ At(i, stack[i + 1].file)
      BY DEF IInv, ChainIsRoute
    <2>2. \A i \in 1..(Len(stack) - 1) : Scanned(i)' /\ At(i, stack[i + 1].file)'
      <3>1. \A i \in 1..(Len(stack) - 1) : source'[stack[i].file] = source[stack[i].file]
        BY <1>1, ReadingOnlyTop
      <3>2. \A i \in 1..(Len(stack) - 1) : Scanned(i)'
        BY <1>1, <2>1, <3>1 DEF Scanned, Imports
      <3>3. \A i \in 1..(Len(stack) - 1) : At(i, stack[i + 1].file)'
        BY <1>1, <2>1, <3>1 DEF At, Imports
      <3>4. QED
        BY <3>2, <3>3
    <2>3. Top.next = 1 /\ stack # <<>> /\ stack[1].file = entry
      BY DEF IInv, ChainIsRoute
    <2>4. Len(c.imports) + 1 \in Nat /\ 1 <= Len(c.imports) + 1
      BY <1>2
    <2>5. Scanned(Len(stack))'
      BY <1>1, <2>3, <2>4, ReadingOnlyTop DEF Scanned, Imports, Top
    <2>6. \A f \in File : source'[f] # Unread => f \in Chain \cup DOMAIN done
      BY <1>1, ReadingOnlyTop DEF IInv, ChainIsRoute
    <2>7. QED
      BY <1>1, <2>2, <2>3, <2>5, <2>6 DEF ChainIsRoute, Chain
  <1>10. QED
    BY <1>4, <1>5, <1>6, <1>7, <1>8, <1>9 DEF IInv

\* Reading a file keeps the invariant, whether it is refused or parsed.
LEMMA ReadInv ==
  ASSUME IInv, Read
  PROVE  IInv'
  <1>1. pc = "read"
    BY DEF Read
  <1>2. PICK c \in Contents(Top.file) :
          \/ ReadFails(c) \/ ReadTooManyBytes(c) \/ ParseFails(c)
          \/ ParsedTooManyNodes(c) \/ Parsed(c)
    BY DEF Read
  <1>3. used \in [LimitNames -> Nat] /\ WithinLimits
    BY DEF IInv, TypeOK
  <1>4. CASE ReadFails(c) \/ ReadTooManyBytes(c)
    <2>1. used' \in [LimitNames -> Nat] /\ WithinLimits'
      BY <1>3, <1>4 DEF ReadFails, ReadTooManyBytes, Fail, WithinLimits, Limit
    <2>2. QED
      BY <1>1, <1>4, <2>1, ReadFailedInv DEF ReadFails, ReadTooManyBytes
  <1>5. CASE ParseFails(c) \/ ParsedTooManyNodes(c)
    <2>1. /\ Reading(c) /\ ~ Exceeds("bytes", c.bytes)
          /\ used' = [used EXCEPT !.bytes = @ + c.bytes] /\ limits' = limits
      BY <1>5 DEF ParseFails, ParsedTooManyNodes, Fail
    <2>2. c.bytes \in Nat
      BY <1>1, <2>1, ReadingOnlyTop DEF Source
    <2>3. used' \in [LimitNames -> Nat] /\ WithinLimits'
      BY <1>3, <2>1, <2>2, LimitType
      DEF WithinLimits, Exceeds, Limit, LimitNames
    <2>4. QED
      BY <1>1, <1>5, <2>3, ReadFailedInv DEF ParseFails, ParsedTooManyNodes
  <1>6. CASE Parsed(c)
    BY <1>1, <1>6, ParsedInv
  <1>7. QED
    BY <1>2, <1>4, <1>5, <1>6

\* Looking an import up keeps the invariant, by each way it can end.
LEMMA LoadImportInv ==
  ASSUME IInv, LoadImport
  PROVE  IInv'
  <1>1. /\ pc = "scan" /\ pc' = "load" /\ stack # <<>>
        /\ UNCHANGED <<entry, limits, stack, ret, done, source, used, outcome>>
        /\ At(Len(stack), target') /\ Scanned(Len(stack))
    BY DEF LoadImport, IInv, ChainIsRoute, At, Top
  <1>2. target' \in Target
    <2>1. stack \in Seq(Frame) /\ source \in [File -> Source \cup {Unread}]
      BY DEF IInv, TypeOK
    <2>2. Len(stack) \in 1..Len(stack)
      BY <1>1, <2>1
    <2>3. Top \in Frame
      BY <2>1, <2>2 DEF Top
    <2>4. source[Top.file] \in Source
      BY <1>1, <2>1, <2>3 DEF Scanned, Top, Frame, Unread
    <2>5. Imports(Top.file) \in Seq(Target) /\ Top.next \in Nat \ {0}
      BY <2>3, <2>4 DEF Imports, Source, Frame
    <2>6. QED
      BY <1>1, <2>5 DEF At, Top
  <1>3. TypeOK'
    BY <1>1, <1>2 DEF IInv, TypeOK
  <1>4. CacheAvoidsChain'
    BY <1>1 DEF IInv, CacheAvoidsChain, Chain
  <1>5. CacheIsRanked'
    BY <1>1 DEF IInv, CacheIsRanked, Imports
  <1>6. DepthWithinLimit'
    BY <1>1 DEF IInv, DepthWithinLimit
  <1>7. WithinLimits'
    BY <1>1 DEF IInv, WithinLimits, Limit
  <1>8. ChainIsRoute'
    BY <1>1 DEF IInv, ChainIsRoute, Chain, Scanned, At, Imports
  <1>9. QED
    BY <1>3, <1>4, <1>5, <1>6, <1>7, <1>8 DEF IInv

\* What charging a merge against the work limit keeps.
LEMMA WorkCharged ==
  ASSUME IInv, NEW cost \in Nat, ~ Exceeds("work", cost), limits' = limits,
         used' = [used EXCEPT !.work = @ + cost]
  PROVE  used' \in [LimitNames -> Nat] /\ WithinLimits'
  <1>1. used \in [LimitNames -> Nat] /\ WithinLimits /\ "work" \in LimitNames
    BY DEF IInv, TypeOK, LimitNames
  <1>2. \A name \in LimitNames : Limit(name) \in Nat /\ Limit(name)' = Limit(name)
    <2>1. \A name \in LimitNames : Limit(name) \in Nat
      BY LimitType
    <2>2. \A name \in LimitNames : Limit(name)' = Limit(name)
      BY DEF Limit
    <2>3. QED
      BY <2>1, <2>2
  <1>3. /\ used' \in [LimitNames -> Nat]
        /\ used'["work"] = used["work"] + cost
        /\ \A name \in LimitNames \ {"work"} : used'[name] = used[name]
    BY <1>1
  <1>4. used["work"] + cost <= Limit("work")
    BY <1>1, <1>2 DEF Exceeds
  <1>5. QED
    BY <1>1, <1>2, <1>3, <1>4 DEF WithinLimits

\* The import that returned joins those its importer is past.
LEMMA MergeImportInv ==
  ASSUME IInv, MergeImport
  PROVE  IInv'
  <1> DEFINE n == Len(stack)
             cost == MergeWork(Top.merged, ret.doc)
  <1>1. CASE Refuse("RESOLUTION_WORK_LIMIT")
    BY <1>1, RefuseInv
  <1>2. CASE ~ Refuse("RESOLUTION_WORK_LIMIT")
    <2>1. /\ pc = "return" /\ pc' = "scan" /\ stack # <<>>
          /\ ~ Exceeds("work", cost)
          /\ used' = [used EXCEPT !.work = @ + cost]
          /\ stack' = [stack EXCEPT ![n] = Advanced]
          /\ UNCHANGED <<entry, limits, target, ret, done, source, outcome>>
      BY <1>2 DEF MergeImport
    <2>2. /\ stack \in Seq(Frame) /\ n \in Nat \ {0} /\ DOMAIN stack = 1..n
          /\ ret \in Resolved /\ Scanned(n) /\ At(n, ret.file)
          /\ ret.file \in DOMAIN done /\ ret.depth = done[ret.file].depth
          /\ n + ret.depth <= MaxImportDepth
      BY <2>1 DEF IInv, TypeOK, ChainIsRoute, DepthWithinLimit
    <2>3. Top \in Frame /\ Top = stack[n]
      BY <2>2 DEF Top
    <2>4. /\ Top.file \in File /\ Top.next \in Nat \ {0} /\ Top.depth \in Nat
          /\ Top.merged \in Doc /\ ret.depth \in Nat /\ ret.doc \in Doc
      BY <2>2, <2>3 DEF Frame, Resolved
    <2>5. cost \in Nat /\ Merge(Top.merged, ret.doc) \in Doc
      BY <2>4, OverlayAssumption DEF ClosedUnderMerge
    <2>6. /\ Deeper(Top.depth, ret.depth) \in Nat
          /\ Top.depth <= Deeper(Top.depth, ret.depth)
          /\ ret.depth < Deeper(Top.depth, ret.depth)
          /\ Deeper(Top.depth, ret.depth) \in {Top.depth, 1 + ret.depth}
      BY <2>4 DEF Deeper
    <2>7. /\ Advanced \in Frame
          /\ Advanced.file = Top.file /\ Advanced.next = Top.next + 1
          /\ Advanced.depth = Deeper(Top.depth, ret.depth)
      <3>1. Top.next + 1 \in Nat \ {0}
        BY <2>4
      <3>2. QED
        BY <2>4, <2>5, <2>6, <3>1 DEF Frame, Advanced
    <2>8. /\ stack' \in Seq(Frame) /\ Len(stack') = n /\ DOMAIN stack' = 1..n
          /\ \A i \in 1..(n - 1) : stack'[i] = stack[i]
          /\ stack'[n] = Advanced
      <3>1. n \in 1..n
        BY <2>2
      <3>2. QED
        BY <2>1, <2>2, <2>7, <3>1, ExceptSeq
    <2>9. /\ stack'[n].file = stack[n].file /\ stack'[n].next = stack[n].next + 1
          /\ stack'[n].depth = Deeper(stack[n].depth, ret.depth)
      BY <2>3, <2>7, <2>8
    <2>10. \A i \in 1..n : stack'[i].file = stack[i].file
      BY <2>2, <2>8, <2>9
    <2> HIDE DEF n, cost
    <2>11. used' \in [LimitNames -> Nat] /\ WithinLimits'
      BY <2>1, <2>5, WorkCharged
    <2>12. TypeOK'
      BY <2>1, <2>8, <2>11 DEF IInv, TypeOK
    <2>13. Chain' = Chain
      BY <2>2, <2>8, <2>10 DEF Chain
    <2>14. CacheAvoidsChain'
      BY <2>1, <2>2, <2>8, <2>10, <2>13 DEF IInv, CacheAvoidsChain
    <2>15. CacheIsRanked'
      BY <2>1 DEF IInv, CacheIsRanked, Imports
    <2>16. DepthWithinLimit'
      <3>1. \A i \in 1..n : (i - 1) + stack[i].depth <= MaxImportDepth
        BY <2>2 DEF IInv, DepthWithinLimit
      <3>2. (n - 1) + stack'[n].depth <= MaxImportDepth
        BY <2>2, <2>3, <2>4, <2>6, <2>9, <3>1, LimitAssumption
      <3>3. \A i \in 1..n : (i - 1) + stack'[i].depth <= MaxImportDepth
        BY <2>2, <2>8, <3>1, <3>2
      <3>4. QED
        BY <2>1, <2>8, <3>3 DEF DepthWithinLimit
    <2>17. ChainIsRoute'
      <3>1. \A i \in 1..(n - 1) : Scanned(i) /\ At(i, stack[i + 1].file)
        BY <2>1 DEF IInv, ChainIsRoute, n
      <3>2. \A i \in 1..(n - 1) : i + 1 \in 1..n
        BY <2>2
      <3>3. \A i \in 1..(n - 1) : Scanned(i)' /\ At(i, stack[i + 1].file)'
        BY <2>1, <2>8, <2>10, <3>1, <3>2 DEF Scanned, At, Imports
      <3>4. Scanned(Len(stack))'
        <4> DEFINE list == Imports(stack[n].file)
        <4>1. /\ source[stack[n].file].outcome = "document"
              /\ stack[n].next <= Len(list) /\ list[stack[n].next] = ret.file
              /\ \A j \in 1..(stack[n].next - 1) :
                   list[j] \in DOMAIN done /\ done[list[j]].depth < stack[n].depth
          BY <2>2 DEF Scanned, At
        <4>2. Len(list) \in Nat
          <5>1. source[stack[n].file] \in Source
            BY <2>3, <2>4, <4>1 DEF IInv, TypeOK, Unread
          <5>2. QED
            BY <5>1 DEF Source, Imports
        <4>3. \A f \in DOMAIN done : done[f].depth \in Nat
          BY DEF IInv, TypeOK
        <4>4. \A j \in 1..(stack'[n].next - 1) :
                list[j] \in DOMAIN done /\ done[list[j]].depth < stack'[n].depth
          <5> TAKE j \in 1..(stack'[n].next - 1)
          <5>1. CASE j = stack[n].next
            BY <2>2, <2>3, <2>4, <2>6, <2>9, <4>1, <5>1
          <5>2. CASE j # stack[n].next
            <6>1. j \in 1..(stack[n].next - 1)
              BY <2>3, <2>4, <2>9, <5>2
            <6>2. list[j] \in DOMAIN done /\ done[list[j]].depth < stack[n].depth
              BY <4>1, <6>1
            <6>3. /\ stack[n].depth \in Nat /\ stack'[n].depth \in Nat
                  /\ stack[n].depth <= stack'[n].depth
              BY <2>3, <2>4, <2>6, <2>9
            <6>4. done[list[j]].depth \in Nat
              BY <4>3, <6>2
            <6>5. QED
              BY <6>2, <6>3, <6>4
          <5>3. QED
            BY <5>1, <5>2
        <4>5. stack'[n].next <= Len(list) + 1
          BY <2>3, <2>4, <2>9, <4>1, <4>2
        <4>6. /\ source'[stack'[n].file].outcome = "document"
              /\ stack'[n].next <= Len(source'[stack'[n].file].imports) + 1
              /\ \A j \in 1..(stack'[n].next - 1) :
                   /\ source'[stack'[n].file].imports[j] \in DOMAIN done'
                   /\ done'[source'[stack'[n].file].imports[j]].depth < stack'[n].depth
          BY <2>1, <2>9, <4>1, <4>4, <4>5 DEF Imports
        <4>7. QED
          BY <2>8, <4>6 DEF Scanned, Imports
      <3>5. (stack # <<>> /\ stack[1].file = entry)'
        BY <2>1, <2>2, <2>8, <2>10 DEF IInv, ChainIsRoute
      <3>6. (\A f \in File : source[f] # Unread => f \in Chain \cup DOMAIN done)'
        BY <2>1, <2>13 DEF IInv, ChainIsRoute
      <3>7. (\A i \in 1..(Len(stack) - 1) : Scanned(i) /\ At(i, stack[i + 1].file))'
        BY <2>8, <3>3
      <3>8. QED
        BY <2>1, <3>4, <3>5, <3>6, <3>7 DEF ChainIsRoute
    <2>18. QED
      BY <2>11, <2>12, <2>14, <2>15, <2>16, <2>17 DEF IInv
  <1>3. QED
    BY <1>1, <1>2
\* The file on top is complete: cached and popped.
LEMMA FinishInv ==
  ASSUME IInv, Finish
  PROVE  IInv'
  <1> DEFINE n == Len(stack)
             f == Top.file
             cost == OwnWork(f, Top.merged)
             doc == Composed(f, Top.merged)
             here == [depth |-> Top.depth, doc |-> doc]
  <1>1. CASE Fail("RESOLUTION_WORK_LIMIT", OwnOrigin) /\ UNCHANGED <<source, used>>
    BY <1>1, FailInv
  <1>2. CASE ~ (Fail("RESOLUTION_WORK_LIMIT", OwnOrigin) /\ UNCHANGED <<source, used>>)
    <2>1. /\ pc = "scan" /\ pc' = "return"
          /\ Top.next > Len(Imports(f))
          /\ ~ Exceeds("work", cost)
          /\ used' = [used EXCEPT !.work = @ + cost]
          /\ Cache(f, Top.depth, doc)
          /\ stack' = SubSeq(stack, 1, n - 1)
          /\ ret' = [file |-> f, depth |-> Top.depth, doc |-> doc]
          /\ UNCHANGED <<entry, limits, target, source, outcome>>
      BY <1>2 DEF Finish, Return
    <2>2. /\ stack \in Seq(Frame) /\ n \in Nat \ {0} /\ DOMAIN stack = 1..n
          /\ source \in [File -> Source \cup {Unread}] /\ Scanned(n)
          /\ stack[1].file = entry
      <3>1. stack \in Seq(Frame) /\ stack # <<>> /\ Scanned(Len(stack)) /\ stack[1].file = entry
            /\ source \in [File -> Source \cup {Unread}]
        BY <2>1 DEF IInv, TypeOK, ChainIsRoute
      <3>2. QED
        BY <3>1
    <2>3. Top \in Frame /\ Top = stack[n]
      BY <2>2 DEF Top
    <2>4. f \in File /\ Top.next \in Nat \ {0} /\ Top.depth \in Nat /\ Top.merged \in Doc
      BY <2>3 DEF Frame
    <2>5. source[f] \in Source /\ source[f].outcome = "document"
      BY <2>2, <2>3, <2>4 DEF Scanned, Unread
    <2>6. Len(Imports(f)) \in Nat /\ source[f].own \in Doc
      BY <2>5 DEF Imports, Source
    <2>7. cost \in Nat /\ doc \in Doc
      BY <2>4, <2>6, OverlayAssumption DEF OwnWork, Composed, ClosedUnderMerge
    <2> HIDE DEF cost, doc, n, f
    <2>8. /\ stack' \in Seq(Frame) /\ Len(stack') = n - 1 /\ DOMAIN stack' = 1..(n - 1)
          /\ \A i \in 1..(n - 1) : stack'[i] = stack[i]
      BY <2>1, <2>2
    <2>9. /\ DOMAIN done' = DOMAIN done \cup {f}
          /\ done'[f] = here
          /\ \A g \in DOMAIN done \ {f} : done'[g] = done[g]
      BY <2>1 DEF Cache
    <2> HIDE DEF here
    <2>10. f \notin DOMAIN done /\ f \in Chain
      BY <2>2, <2>3 DEF IInv, CacheAvoidsChain, Chain, f
    <2>11. \A g \in DOMAIN done : done'[g] = done[g]
      BY <2>9, <2>10
    <2>12. done'[f].depth = Top.depth /\ done'[f] \in [depth: Nat, doc: Doc]
      BY <2>4, <2>7, <2>9 DEF here
    <2>13. /\ ret' \in Resolved /\ ret'.file = f /\ ret'.depth = done'[f].depth
           /\ ret'.depth = stack[n].depth
      BY <2>1, <2>3, <2>4, <2>7, <2>12 DEF Resolved
    <2>14. used' \in [LimitNames -> Nat] /\ WithinLimits'
      BY <2>1, <2>7, WorkCharged
    <2>15. TypeOK'
      <3>1. DOMAIN done' \subseteq File
        BY <2>4, <2>9 DEF IInv, TypeOK
      <3>2. \A g \in DOMAIN done' : done'[g] \in [depth: Nat, doc: Doc]
        BY <2>9, <2>11, <2>12 DEF IInv, TypeOK
      <3>3. QED
        BY <2>1, <2>8, <2>13, <2>14, <3>1, <3>2 DEF IInv, TypeOK
    <2>16. Chain' = Chain \ {f}
      <3>1. Chain' = {stack[i].file : i \in 1..(n - 1)}
        BY <2>8 DEF Chain
      <3>2. Chain = {stack[i].file : i \in 1..n}
        BY <2>2 DEF Chain
      <3>3. \A i \in 1..(n - 1) : stack[i].file # f
        BY <2>2, <2>3 DEF IInv, CacheAvoidsChain, f
      <3>4. \A i \in 1..n : i \in 1..(n - 1) \/ stack[i].file = f
        BY <2>2, <2>3 DEF f
      <3>5. QED
        BY <2>2, <3>1, <3>2, <3>3, <3>4
    <2>17. CacheAvoidsChain'
      <3>1. (Chain \cap DOMAIN done = {})'
        BY <2>9, <2>16 DEF IInv, CacheAvoidsChain
      <3>2. (\A i, j \in DOMAIN stack : stack[i].file = stack[j].file => i = j)'
        BY <2>2, <2>8 DEF IInv, CacheAvoidsChain
      <3>3. QED
        BY <3>1, <3>2 DEF CacheAvoidsChain
    <2>18. CacheIsRanked'
      <3>1. \A g \in DOMAIN done :
              /\ source[g].outcome = "document"
              /\ \A i \in DOMAIN Imports(g) :
                   /\ Imports(g)[i] \in DOMAIN done'
                   /\ done'[Imports(g)[i]].depth < done'[g].depth
        BY <2>9, <2>11 DEF IInv, CacheIsRanked
      <3>2. \A j \in 1..(Top.next - 1) :
              Imports(f)[j] \in DOMAIN done /\ done[Imports(f)[j]].depth < Top.depth
        BY <2>2, <2>3 DEF Scanned, f
      <3>3. \A j \in DOMAIN Imports(f) : j \in 1..(Top.next - 1)
        <4>1. DOMAIN Imports(f) = 1..Len(Imports(f))
          BY <2>5 DEF Imports, Source
        <4>2. QED
          BY <2>1, <2>4, <2>6, <4>1
      <3>4. \A j \in DOMAIN Imports(f) :
              Imports(f)[j] \in DOMAIN done' /\ done'[Imports(f)[j]].depth < done'[f].depth
        BY <2>9, <2>11, <2>12, <3>2, <3>3
      <3>5. \A g \in DOMAIN done' :
              /\ source[g].outcome = "document"
              /\ \A i \in DOMAIN Imports(g) :
                   /\ Imports(g)[i] \in DOMAIN done'
                   /\ done'[Imports(g)[i]].depth < done'[g].depth
        BY <2>5, <2>9, <3>1, <3>4
      <3>6. QED
        BY <2>1, <3>5 DEF CacheIsRanked, Imports
    <2>19. DepthWithinLimit'
      <3>1. \A i \in 1..n : (i - 1) + stack[i].depth <= MaxImportDepth
        BY <2>2 DEF IInv, DepthWithinLimit
      <3>2. \A i \in 1..(n - 1) : (i - 1) + stack'[i].depth <= MaxImportDepth
        BY <2>2, <2>8, <3>1
      <3>3. (n - 1) + ret'.depth <= MaxImportDepth
        BY <2>2, <2>13, <3>1
      <3>4. QED
        BY <2>1, <2>8, <3>2, <3>3 DEF DepthWithinLimit
    <2>20. ChainIsRoute'
      <3>1. \A i \in 1..(n - 1) : Scanned(i) /\ At(i, stack[i + 1].file)
        BY <2>1 DEF IInv, ChainIsRoute, n
      <3>2. \A i \in 1..(n - 1) : Scanned(i) => Scanned(i)'
        <4>1. source' = source /\ DOMAIN done \subseteq DOMAIN done'
          BY <2>1, <2>9
        <4>2. QED
          <5> TAKE i \in 1..(n - 1)
          <5> HAVE Scanned(i)
          <5>1. stack'[i] = stack[i] /\ Imports(stack[i].file)' = Imports(stack[i].file)
            BY <2>8, <4>1 DEF Imports
          <5>2. \A g \in DOMAIN done : g \in DOMAIN done' /\ done'[g] = done[g]
            BY <2>11, <4>1
          <5>3. QED
            BY <4>1, <5>1, <5>2 DEF Scanned, Imports
      <3>3. \A i \in 1..(n - 2) : i \in 1..(n - 1) /\ i + 1 \in 1..(n - 1)
        BY <2>2
      <3>4. \A i \in 1..(n - 2) : At(i, stack[i + 1].file) => At(i, stack[i + 1].file)'
        BY <2>1, <2>8, <3>3 DEF At, Imports
      <3>5. (\A i \in 1..(Len(stack) - 1) : Scanned(i) /\ At(i, stack[i + 1].file))'
        <4>1. \A i \in 1..(n - 2) : Scanned(i)' /\ At(i, stack[i + 1].file)'
          BY <3>1, <3>2, <3>3, <3>4
        <4>2. Len(stack') - 1 = n - 2
          BY <2>2, <2>8
        <4>3. QED
          BY <4>1, <4>2
      <3>6. CASE n = 1
        <4>1. stack' = <<>> /\ f = entry
          BY <2>2, <2>3, <2>8, <3>6 DEF f
        <4>2. QED
          BY <2>1, <2>9, <2>10, <2>13, <2>16, <3>5, <4>1 DEF IInv, ChainIsRoute
      <3>7. CASE n # 1
        <4>1. n - 1 \in 1..(n - 1) /\ n - 1 \in Nat /\ 1 \in 1..(n - 1) /\ (n - 1) + 1 = n
          BY <2>2, <3>7
        <4>2. stack' # <<>> /\ stack'[1].file = entry
          BY <2>2, <2>8, <4>1
        <4>3. Scanned(n - 1) /\ At(n - 1, f)
          BY <2>3, <3>1, <4>1 DEF f
        <4>4. Scanned(Len(stack))'
          <5>1. \A i \in 1..(n - 1) : Scanned(i)'
            BY <3>1, <3>2
          <5>2. Len(stack') = n - 1
            BY <2>2, <2>8, <4>1
          <5>3. QED
            BY <4>1, <5>1, <5>2 DEF Scanned, Imports
        <4>5. At(Len(stack), ret.file)'
          <5>1. /\ stack'[n - 1].next <= Len(source'[stack'[n - 1].file].imports)
                /\ ret'.file = source'[stack'[n - 1].file].imports[stack'[n - 1].next]
            BY <2>1, <2>8, <2>13, <4>1, <4>3 DEF At, Imports
          <5>2. QED
            BY <2>8, <5>1 DEF At, Imports
        <4>6. (\A g \in File : source[g] # Unread => g \in Chain \cup DOMAIN done)'
          BY <2>1, <2>9, <2>16 DEF IInv, ChainIsRoute
        <4>7. QED
          BY <2>1, <2>9, <2>13, <3>5, <4>2, <4>4, <4>5, <4>6 DEF ChainIsRoute
      <3>8. QED
        BY <3>6, <3>7
    <2>21. QED
      BY <2>14, <2>15, <2>17, <2>18, <2>19, <2>20 DEF IInv
  <1>3. QED
    BY <1>1, <1>2

\* The call ends with the entry file's composed overlay.
LEMMA DeliverInv ==
  ASSUME IInv, Deliver
  PROVE  IInv'
  <1> USE DEF Deliver
  <1>1. TypeOK'
    BY DEF IInv, TypeOK
  <1>2. CacheAvoidsChain'
    BY DEF IInv, CacheAvoidsChain, Chain
  <1>3. CacheIsRanked'
    BY DEF IInv, CacheIsRanked, Imports
  <1>4. DepthWithinLimit'
    <2>1. entry \in DOMAIN done /\ done[entry].depth = ret.depth /\ Len(stack) + ret.depth <= MaxImportDepth
          /\ ret.depth \in Nat /\ Len(stack) = 0
      BY DEF IInv, ChainIsRoute, DepthWithinLimit, Resolved
    <2>2. QED
      BY <2>1, LimitAssumption DEF IInv, DepthWithinLimit
  <1>5. WithinLimits'
    BY DEF IInv, WithinLimits, Limit
  <1>6. ChainIsRoute'
    BY DEF IInv, ChainIsRoute, Chain, Scanned, At, Imports
  <1>7. QED
    BY <1>1, <1>2, <1>3, <1>4, <1>5, <1>6 DEF IInv

\* The invariant is about the variables alone.
LEMMA StutterInv ==
  ASSUME IInv, UNCHANGED vars
  PROVE  IInv'
  <1> USE DEF vars
  <1>1. TypeOK'
    BY DEF IInv, TypeOK
  <1>2. CacheAvoidsChain' /\ CacheIsRanked'
    BY DEF IInv, CacheAvoidsChain, Chain, CacheIsRanked, Imports
  <1>3. DepthWithinLimit' /\ WithinLimits'
    BY DEF IInv, DepthWithinLimit, WithinLimits, Limit
  <1>4. ChainIsRoute'
    BY DEF IInv, ChainIsRoute, Chain, Scanned, At, Imports, Top
  <1>5. QED
    BY <1>1, <1>2, <1>3, <1>4 DEF IInv

\* Every step of the walk, taken where the invariant holds, keeps it.
LEMMA StepInv == IInv /\ [Next]_vars => IInv'
  <1> SUFFICES ASSUME IInv, [Next]_vars PROVE IInv'
    OBVIOUS
  <1>1. CASE OpenRoot
    BY <1>1, OpenRootInv
  <1>2. CASE RootNotFound
    BY <1>2, RefuseInv DEF RootNotFound
  <1>3. CASE Load
    <2>1. CASE LoadUnresolvable
      BY <2>1, RefuseInv DEF LoadUnresolvable
    <2>2. CASE LoadOutsideRoot
      BY <2>2, RefuseInv DEF LoadOutsideRoot
    <2>3. CASE LoadCached
      BY <2>3, LoadCachedInv
    <2>4. CASE LoadCycle
      BY <2>4, RefuseInv DEF LoadCycle
    <2>5. CASE LoadTooDeep
      BY <2>5, RefuseInv DEF LoadTooDeep
    <2>6. CASE LoadTooManyFiles
      BY <2>6, RefuseInv DEF LoadTooManyFiles
    <2>7. CASE Enter
      BY <2>7, EnterInv
    <2>8. QED
      BY <1>3, <2>1, <2>2, <2>3, <2>4, <2>5, <2>6, <2>7 DEF Load
  <1>4. CASE Read
    BY <1>4, ReadInv
  <1>5. CASE LoadImport
    BY <1>5, LoadImportInv
  <1>6. CASE MergeImport
    BY <1>6, MergeImportInv
  <1>7. CASE Finish
    BY <1>7, FinishInv
  <1>8. CASE Deliver
    BY <1>8, DeliverInv
  <1>9. CASE Terminated \/ UNCHANGED vars
    BY <1>9, StutterInv DEF Terminated
  <1>10. QED
    BY <1>1, <1>2, <1>3, <1>4, <1>5, <1>6, <1>7, <1>8, <1>9 DEF Next

\* The whole of the resolver's invariant, in every reachable state.
THEOREM Inductive == Spec => []IInv
  <1>1. Init => IInv
    BY InitInv
  <1>2. IInv /\ [Next]_vars => IInv'
    BY StepInv
  <1>3. QED
    BY <1>1, <1>2, PTL DEF Spec

\* The variables keep their types: a frame's cursor, depth and overlay, the
\* cache's entries and the totals charged to each limit.
THEOREM TypeCorrect == Spec => []TypeOK
  <1>1. IInv => TypeOK
    BY DEF IInv
  <1>2. QED
    BY <1>1, Inductive, PTL

\* The cache of finished files (resolve.rs, done) never answers for a file that
\* is still on the chain, so memoization hides no import cycle.
THEOREM MemoSound == Spec => []CacheAvoidsChain
  <1>1. IInv => CacheAvoidsChain
    BY DEF IInv
  <1>2. QED
    BY <1>1, Inductive, PTL

\* The depth kept with a finished file is a rank on its imports: everything it
\* imports is finished, and strictly shallower, so what finished has no cycle.
THEOREM FinishedAcyclic == Spec => []CacheIsRanked
  <1>1. IInv => CacheIsRanked
    BY DEF IInv
  <1>2. QED
    BY <1>1, Inductive, PTL

\* No import chain of an accepted graph is longer than the limit, though a file
\* reached twice is only walked once.
THEOREM DepthBounded == Spec => []DepthWithinLimit
  <1>1. IInv => DepthWithinLimit
    BY DEF IInv
  <1>2. QED
    BY <1>1, Inductive, PTL

\* No resolution limit is overdrawn: the subtraction that computes what is left
\* of one (resolve.rs, the checks before each charge) cannot wrap.
THEOREM LimitsKept == Spec => []WithinLimits
  <1>1. IInv => WithinLimits
    BY DEF IInv
  <1>2. QED
    BY <1>1, Inductive, PTL

\* The chain a diagnostic prints is a route of import statements from the entry.
THEOREM RouteKept == Spec => []ChainIsRoute
  <1>1. IInv => ChainIsRoute
    BY DEF IInv
  <1>2. QED
    BY <1>1, Inductive, PTL

\* A step reads no file that was read before.
LEMMA ReadsOnce ==
  ASSUME IInv, [Next]_vars
  PROVE  \A f \in File : source[f] # Unread => source'[f] = source[f]
  <1>1. CASE Read
    <2>1. pc = "read"
      BY <1>1 DEF Read
    <2>2. PICK c \in Contents(Top.file) : Reading(c)
      BY <1>1 DEF Read, ReadFails, ReadTooManyBytes, ParseFails, ParsedTooManyNodes, Parsed
    <2>3. source[Top.file] = Unread /\ \A f \in File \ {Top.file} : source'[f] = source[f]
      BY <2>1, <2>2, ReadingOnlyTop
    <2>4. QED
      BY <2>3
  <1>2. CASE ~ Read
    <2>1. UNCHANGED source
      BY <1>2 DEF Next, Load, OpenRoot, RootNotFound, LoadUnresolvable, LoadOutsideRoot,
                  LoadCached, LoadCycle, LoadTooDeep, LoadTooManyFiles, Enter, Refuse, Fail,
                  LoadImport, MergeImport, Finish, Deliver, Terminated, vars
    <2>2. QED
      BY <2>1
  <1>3. QED
    BY <1>1, <1>2

\* A file that was read is not read again in the same call.
THEOREM OneVersion == Spec => ReadOnce
  <1>1. IInv /\ [Next]_vars => \A f \in File : source[f] # Unread => source'[f] = source[f]
    BY ReadsOnce
  <1>2. QED
    BY <1>1, Inductive, PTL DEF Spec, ReadOnce

-----------------------------------------------------------------------------
\* Sums, in units.

\* What a function makes of a finite set is finite.
LEMMA FiniteImage ==
  ASSUME NEW S, IsFiniteSet(S), NEW f, DOMAIN f = S, f = [x \in S |-> f[x]]
  PROVE  IsFiniteSet({f[x] : x \in S})
  <1>1. f \in Surjection(S, {f[x] : x \in S})
    BY DEF Surjection
  <1>2. QED
    BY <1>1, FS_Surjection

\* The import graph counts as everybody does.
LEMMA SameCardinality ==
  ASSUME NEW S
  PROVE  Graph!Cardinality(S) = Cardinality(S)
  BY Zenon DEF Graph!Cardinality, Cardinality

Units(amount) == UNION {{x} \X (1..amount[x]) : x \in DOMAIN amount}

\* A sum counts its units.
LEMMA SumOfUnits ==
  ASSUME NEW amount
  PROVE  Graph!Sum(amount) = Cardinality(Units(amount))
  BY SameCardinality DEF Graph!Sum, Units

\* Finitely many amounts have finitely many units, and their sum is a number.
LEMMA SumType ==
  ASSUME NEW A, IsFiniteSet(A), NEW amount \in [A -> Nat]
  PROVE  IsFiniteSet(Units(amount)) /\ Graph!Sum(amount) \in Nat
  <1> DEFINE f == [x \in A |-> {x} \X (1..amount[x])]
  <1>1. IsFiniteSet({f[x] : x \in A})
    <2>1. DOMAIN f = A /\ f = [x \in A |-> f[x]]
      OBVIOUS
    <2> HIDE DEF f
    <2>2. QED
      BY <2>1, FiniteImage
  <1>2. \A x \in A : IsFiniteSet(f[x])
    <2> SUFFICES ASSUME NEW x \in A PROVE IsFiniteSet({x} \X (1..amount[x]))
      OBVIOUS
    <2>1. IsFiniteSet({x})
      BY FS_Singleton
    <2>2. amount[x] \in Int /\ 1 \in Int
      OBVIOUS
    <2>3. IsFiniteSet(1..amount[x])
      BY <2>2, FS_Interval
    <2>4. QED
      BY <2>1, <2>3, FS_Product
  <1>3. IsFiniteSet(UNION {f[x] : x \in A})
    BY <1>1, <1>2, FS_UNION
  <1>4. UNION {f[x] : x \in A} = Units(amount)
    BY DEF Units
  <1>5. IsFiniteSet(Units(amount))
    BY <1>3, <1>4
  <1>6. QED
    BY <1>5, SumOfUnits, FS_CardinalityType

\* Part of the amounts come to no more than all.
LEMMA SumLeq ==
  ASSUME NEW A, IsFiniteSet(A), NEW amount \in [A -> Nat],
         NEW B, B \subseteq A, NEW part \in [B -> Nat], \A x \in B : part[x] = amount[x]
  PROVE  Graph!Sum(part) <= Graph!Sum(amount)
  <1>1. Units(part) \subseteq Units(amount)
    BY DEF Units
  <1>2. IsFiniteSet(Units(amount))
    BY SumType
  <1>3. Cardinality(Units(part)) <= Cardinality(Units(amount))
    BY <1>1, <1>2, FS_Subset
  <1>4. QED
    BY <1>3, SumOfUnits

\* more is amount, of the members of A, and an amount of x.
OneMore(A, amount, x, more) ==
  /\ IsFiniteSet(A) /\ amount \in [A -> Nat]
  /\ x \notin A /\ more \in [A \cup {x} -> Nat]
  /\ \A y \in A : more[y] = amount[y]

\* One more amount adds what it is.
LEMMA SumPlus ==
  ASSUME NEW A, NEW amount, NEW x, NEW more, OneMore(A, amount, x, more)
  PROVE  Graph!Sum(more) = Graph!Sum(amount) + more[x]
  <1> SUFFICES ASSUME IsFiniteSet(A), amount \in [A -> Nat],
                      x \notin A, more \in [A \cup {x} -> Nat], \A y \in A : more[y] = amount[y]
               PROVE  Graph!Sum(more) = Graph!Sum(amount) + more[x]
    BY DEF OneMore
  <1> DEFINE here == {x} \X (1..more[x])
  <1>1. Units(more) = Units(amount) \cup here
    BY DEF Units
  <1>2. Units(amount) \cap here = {}
    BY DEF Units
  <1>3. IsFiniteSet(Units(amount))
    BY SumType
  <1>4. IsFiniteSet(here) /\ Cardinality(here) = more[x]
    <2>1. more[x] \in Nat
      OBVIOUS
    <2>2. IsFiniteSet({x}) /\ Cardinality({x}) = 1
      BY FS_Singleton
    <2>3. IsFiniteSet(1..more[x]) /\ Cardinality(1..more[x]) = more[x]
      BY <2>1, FS_Interval
    <2>4. IsFiniteSet(here) /\ Cardinality(here) = Cardinality({x}) * Cardinality(1..more[x])
      BY <2>2, <2>3, FS_Product, Zenon
    <2> HIDE DEF here
    <2>5. QED
      BY <2>1, <2>2, <2>3, <2>4
  <1>5. Cardinality(Units(amount) \cup here)
          = Cardinality(Units(amount)) + Cardinality(here) - Cardinality(Units(amount) \cap here)
    <2> HIDE DEF here
    <2>1. QED
      BY <1>3, <1>4, FS_Union
  <1>6. Cardinality(Units(amount)) \in Nat /\ Cardinality({}) = 0 /\ more[x] \in Nat
    BY <1>3, FS_CardinalityType, FS_EmptySet
  <1>7. Cardinality(Units(more)) = Cardinality(Units(amount)) + more[x]
    <2> HIDE DEF here
    <2>1. Cardinality(Units(amount) \cap here) = 0
      BY <1>2, <1>6, Zenon
    <2>2. Cardinality(Units(more)) = Cardinality(Units(amount) \cup here)
      BY <1>1, Zenon
    <2>3. QED
      BY <1>4, <1>5, <1>6, <2>1, <2>2
  <1>8. QED
    BY <1>7, SumOfUnits

\* Nothing comes to nothing.
LEMMA SumEmpty ==
  ASSUME NEW amount \in [{} -> Nat]
  PROVE  Graph!Sum(amount) = 0
  <1>1. Units(amount) = {}
    BY DEF Units
  <1>2. QED
    BY <1>1, SumOfUnits, FS_EmptySet

-----------------------------------------------------------------------------
\* Layering one overlay after the other.

\* The overlays are layered by a recursion.
LEMMA LayersExist ==
  ASSUME NEW docs \in Seq(Doc)
  PROVE  \E f \in [0..Len(docs) -> Doc] :
           /\ f[0] = EmptyDoc
           /\ \A i \in 1..Len(docs) : f[i] = Merge(f[i - 1], docs[i])
           /\ Graph!Layered(docs) = f[Len(docs)]
  <1> DEFINE n == Len(docs)
             g == [x \in Doc \X (1..n) |-> Merge(x[1], docs[x[2]])]
             u == CHOOSE h : h = [i \in 0..n |-> IF i = 0 THEN EmptyDoc ELSE Merge(h[i - 1], docs[i])]
  <1>1. n \in Nat /\ EmptyDoc \in Doc
    BY OverlayAssumption
  <1>2. g \in [Doc \X (1..n) -> Doc]
    BY OverlayAssumption DEF ClosedUnderMerge
  <1>3. \A d \in Doc, i \in 1..n : g[<<d, i>>] = Merge(d, docs[i])
    OBVIOUS
  <1>4. PICK f \in [0..n -> Doc] : Folding(f, EmptyDoc, g, n)
    <2> HIDE DEF n, g
    <2>1. QED
      BY <1>1, <1>2, FoldExists
  <1>5. f[0] = EmptyDoc /\ \A i \in 1..n : f[i] = Merge(f[i - 1], docs[i])
    <2> HIDE DEF g
    <2>1. \A i \in 1..n : i - 1 \in 0..n
      BY <1>1
    <2>2. QED
      BY <1>3, <1>4, <2>1 DEF Folding
  <1>6. f = [i \in 0..n |-> IF i = 0 THEN EmptyDoc ELSE Merge(f[i - 1], docs[i])]
    <2>1. \A i \in 0..n : i = 0 \/ i \in 1..n
      BY <1>1
    <2>2. QED
      BY <1>4, <1>5, <2>1
  <1>7. u = [i \in 0..n |-> IF i = 0 THEN EmptyDoc ELSE Merge(u[i - 1], docs[i])]
    BY <1>6
  <1>8. Graph!Layered(docs) = u[n]
    BY DEF Graph!Layered
  <1> HIDE DEF u
  <1>9. u[0] = EmptyDoc /\ \A i \in 1..n : u[i] = Merge(u[i - 1], docs[i])
    <2>1. 0 \in 0..n /\ \A i \in 1..n : i \in 0..n /\ i # 0
      BY <1>1
    <2>2. QED
      BY <1>7, <2>1
  <1>10. u \in [0..n -> Doc]
    <2> DEFINE S == {i \in Nat : i <= n => u[i] \in Doc}
    <2>1. 0 \in S
      BY <1>1, <1>9
    <2>2. ASSUME NEW i \in Nat, i \in S PROVE i + 1 \in S
      <3>1. SUFFICES ASSUME i + 1 <= n PROVE u[i + 1] \in Doc
        OBVIOUS
      <3>2. i + 1 \in 1..n /\ (i + 1) - 1 = i /\ u[i] \in Doc
        BY <2>2, <3>1, <1>1
      <3>3. u[i + 1] = Merge(u[i], docs[i + 1]) /\ docs[i + 1] \in Doc
        BY <1>9, <3>2
      <3>4. QED
        BY <3>2, <3>3, OverlayAssumption DEF ClosedUnderMerge
    <2> HIDE DEF S
    <2>3. Nat \subseteq S
      BY <2>1, <2>2, Induct
    <2>4. \A i \in 0..n : u[i] \in Doc
      BY <2>3 DEF S
    <2>5. DOMAIN u = 0..n /\ u = [i \in 0..n |-> u[i]]
      BY <1>7
    <2>6. QED
      BY <2>4, <2>5
  <1>11. QED
    BY <1>8, <1>9, <1>10

\* Layering nothing gives the empty overlay, and one overlay more comes on top.
LEMMA LayeredAppend ==
  ASSUME NEW docs \in Seq(Doc), NEW d \in Doc
  PROVE  /\ Graph!Layered(docs) \in Doc
         /\ Graph!Layered(Append(docs, d)) = Merge(Graph!Layered(docs), d)
  <1> DEFINE n == Len(docs)
             more == Append(docs, d)
             g == [x \in Doc \X (1..n) |-> Merge(x[1], docs[x[2]])]
  <1>1. n \in Nat /\ more \in Seq(Doc) /\ Len(more) = n + 1
        /\ more[n + 1] = d /\ \A i \in 1..n : more[i] = docs[i]
    OBVIOUS
  <1> HIDE DEF more
  <1>2. PICK f \in [0..n -> Doc] :
          /\ f[0] = EmptyDoc
          /\ \A i \in 1..n : f[i] = Merge(f[i - 1], docs[i])
          /\ Graph!Layered(docs) = f[n]
    BY LayersExist
  <1>3. PICK h \in [0..(n + 1) -> Doc] :
          /\ h[0] = EmptyDoc
          /\ \A i \in 1..(n + 1) : h[i] = Merge(h[i - 1], more[i])
          /\ Graph!Layered(more) = h[n + 1]
    BY <1>1, LayersExist
  <1>4. \A k \in Doc, i \in 1..n : g[<<k, i>>] = Merge(k, docs[i])
    OBVIOUS
  <1> HIDE DEF g
  <1>5. \A i \in 1..n : i - 1 \in 0..n /\ i - 1 \in 0..(n + 1) /\ i \in 1..(n + 1)
    BY <1>1
  <1>6. Folding(f, EmptyDoc, g, n)
    BY <1>2, <1>4, <1>5 DEF Folding
  <1>7. Folding(h, EmptyDoc, g, n)
    <2> SUFFICES ASSUME NEW i \in 1..n PROVE h[i] = g[<<h[i - 1], i>>]
      BY <1>3 DEF Folding
    <2>1. h[i - 1] \in Doc
      BY <1>5
    <2>2. h[i] = Merge(h[i - 1], docs[i])
      BY <1>1, <1>3, <1>5
    <2>3. QED
      BY <1>4, <2>1, <2>2
  <1>8. f[n] = h[n]
    <2>1. \A i \in 0..n : f[i] = h[i]
      BY <1>1, <1>6, <1>7, FoldUnique
    <2>2. QED
      BY <1>1, <2>1
  <1>9. n + 1 \in 1..(n + 1) /\ (n + 1) - 1 = n /\ n \in 0..n
    BY <1>1
  <1>10. QED
    BY <1>1, <1>2, <1>3, <1>8, <1>9 DEF more

\* Nothing and one overlay.
LEMMA LayeredFew ==
  /\ Graph!Layered(<<>>) = EmptyDoc
  /\ \A d \in Doc : Graph!Layered(<<d>>) = d
  <1>1. Graph!Layered(<<>>) = EmptyDoc
    <2>1. <<>> \in Seq(Doc) /\ Len(<<>>) = 0
      OBVIOUS
    <2>2. QED
      BY <2>1, LayersExist
  <1>2. ASSUME NEW d \in Doc PROVE Graph!Layered(<<d>>) = d
    <2>1. <<>> \in Seq(Doc) /\ Append(<<>>, d) = <<d>>
      OBVIOUS
    <2>2. Graph!Layered(<<d>>) = Merge(EmptyDoc, d)
      BY <1>1, <2>1, LayeredAppend
    <2>3. QED
      BY <2>2, LayeringAssumption DEF Associative
  <1>3. QED
    BY <1>1, <1>2

\* Lists of overlays may be layered one list after the other.
LEMMA LayeredConcat ==
  ASSUME NEW a \in Seq(Doc), NEW b \in Seq(Doc)
  PROVE  Graph!Layered(a \o b) = Merge(Graph!Layered(a), Graph!Layered(b))
  <1> DEFINE n == Len(b)
             part(k) == SubSeq(b, 1, k)
             S == {k \in Nat : k <= n =>
                     Graph!Layered(a \o part(k)) = Merge(Graph!Layered(a), Graph!Layered(part(k)))}
  <1>1. 0 \in S
    <2>1. part(0) = <<>> /\ a \o <<>> = a
      OBVIOUS
    <2>2. Graph!Layered(a) \in Doc
      BY OverlayAssumption, LayeredAppend
    <2>3. Merge(Graph!Layered(a), EmptyDoc) = Graph!Layered(a)
      BY <2>2, LayeringAssumption DEF Associative
    <2>4. Graph!Layered(a \o <<>>) = Merge(Graph!Layered(a), Graph!Layered(<<>>))
      BY <2>1, <2>3, LayeredFew
    <2>5. QED
      BY <2>1, <2>4
  <1>2. ASSUME NEW k \in Nat, k \in S PROVE k + 1 \in S
    <2> SUFFICES ASSUME k + 1 <= n
                 PROVE  Graph!Layered(a \o part(k + 1))
                          = Merge(Graph!Layered(a), Graph!Layered(part(k + 1)))
      OBVIOUS
    <2> DEFINE c == part(k)
               d == b[k + 1]
    <2>1. c \in Seq(Doc) /\ d \in Doc /\ a \o c \in Seq(Doc)
      OBVIOUS
    <2>2. part(k + 1) = Append(c, d)
      OBVIOUS
    <2>3. Graph!Layered(a \o c) = Merge(Graph!Layered(a), Graph!Layered(c))
      BY <1>2
    <2> HIDE DEF c, d, part
    <2>4. a \o Append(c, d) = Append(a \o c, d)
      BY <2>1
    <2>5. Graph!Layered(Append(a \o c, d)) = Merge(Graph!Layered(a \o c), d)
      BY <2>1, LayeredAppend
    <2>6. Graph!Layered(Append(c, d)) = Merge(Graph!Layered(c), d)
      BY <2>1, LayeredAppend
    <2>7. Graph!Layered(a) \in Doc /\ Graph!Layered(c) \in Doc
      BY <2>1, LayeredAppend
    <2>8. Merge(Graph!Layered(a), Merge(Graph!Layered(c), d))
            = Merge(Merge(Graph!Layered(a), Graph!Layered(c)), d)
      BY <2>1, <2>7, LayeringAssumption DEF Associative
    <2>9. QED
      BY <2>2, <2>3, <2>4, <2>5, <2>6, <2>8
  <1>3. n \in S
    <2> HIDE DEF S
    <2>1. Nat \subseteq S
      BY <1>1, <1>2, Induct
    <2>2. QED
      BY <2>1
  <1>4. part(n) = b /\ n \in Nat
    OBVIOUS
  <1>5. Graph!Layered(a \o part(n)) = Merge(Graph!Layered(a), Graph!Layered(part(n)))
    BY <1>3, <1>4
  <1> HIDE DEF part
  <1>6. QED
    BY <1>4, <1>5, Zenon

-----------------------------------------------------------------------------
\* The graph, as far as it was read.

Sources == [File -> Source \cup {Unread}]

\* The import graph is about the paths of the walk.
LEMMA SameTarget == Graph!Target = Target
  BY DEF Graph!Target, Target

\* What a known file holds, and what every path imports.
LEMMA KnownFile ==
  ASSUME NEW src \in Sources
  PROVE  /\ Graph!ReadFiles(src) \subseteq File
         /\ Graph!Known(src) \subseteq Graph!ReadFiles(src)
         /\ \A f \in Graph!Known(src) :
              /\ f \in File /\ src[f] \in Source /\ src[f] # Unread
              /\ src[f].outcome = "document"
              /\ src[f].own \in Doc /\ src[f].bytes \in Nat /\ src[f].nodes \in Nat
              /\ Graph!Imports(src, f) = src[f].imports
         /\ \A f \in File :
              src[f].outcome = "document" => f \in Graph!Known(src)
  <1>1. \A f \in Graph!Known(src) : f \in File /\ src[f] \in Source /\ src[f] # Unread
    BY DEF Graph!Known, Graph!ReadFiles, Sources
  <1>2. \A f \in File : src[f].outcome = "document" => src[f] # Unread
    BY DEF Unread
  <1>3. \A f \in Graph!Known(src) :
          src[f].own \in Doc /\ src[f].bytes \in Nat /\ src[f].nodes \in Nat
    BY <1>1 DEF Source
  <1>4. QED
    BY <1>1, <1>2, <1>3 DEF Graph!Known, Graph!ReadFiles, Graph!Imports

\* Imports are paths, in a sequence.
LEMMA ImportsType ==
  ASSUME NEW src \in Sources, NEW t
  PROVE  /\ Graph!Imports(src, t) \in Seq(Target)
         /\ Len(Graph!Imports(src, t)) \in Nat
         /\ DOMAIN Graph!Imports(src, t) = 1..Len(Graph!Imports(src, t))
         /\ Graph!ImportedBy(src, t) \subseteq Target
         /\ \A i \in 1..Len(Graph!Imports(src, t)) :
              /\ Graph!Imports(src, t)[i] \in Target
              /\ Graph!Imports(src, t)[i] \in Graph!ImportedBy(src, t)
         /\ t \notin Graph!Known(src) => Graph!ImportedBy(src, t) = {}
  <1>1. Graph!Imports(src, t) \in Seq(Target)
    <2>1. CASE t \in Graph!Known(src)
      <3>1. src[t] \in Source /\ Graph!Imports(src, t) = src[t].imports
        BY <2>1, KnownFile
      <3>2. QED
        BY <3>1 DEF Source
    <2>2. CASE t \notin Graph!Known(src)
      BY <2>2 DEF Graph!Imports
    <2>3. QED
      BY <2>1, <2>2
  <1>2. /\ Len(Graph!Imports(src, t)) \in Nat
        /\ DOMAIN Graph!Imports(src, t) = 1..Len(Graph!Imports(src, t))
        /\ \A i \in 1..Len(Graph!Imports(src, t)) : Graph!Imports(src, t)[i] \in Target
    BY <1>1
  <1>3. t \notin Graph!Known(src) => Graph!ImportedBy(src, t) = {}
    BY DEF Graph!Imports, Graph!ImportedBy
  <1>4. QED
    BY <1>1, <1>2, <1>3 DEF Graph!ImportedBy

Flats == [Target -> Seq(Doc)]

\* The list d with that of f's i-th import behind it.
Behind(d, src, flat, f, i) == d \o flat[Graph!Imports(src, f)[i]]

\* h joins the lists of f's first n imports.
Joins(h, src, flat, f, n) ==
  /\ h \in [0..n -> Seq(Doc)]
  /\ h[0] = <<>>
  /\ \A i \in 1..n : h[i] = Behind(h[i - 1], src, flat, f, i)

\* The lists of a file's imports are joined by a recursion.
LEMMA BelowExists ==
  ASSUME NEW src \in Sources, NEW flat \in Flats, NEW f,
         NEW n \in Nat, n <= Len(Graph!Imports(src, f))
  PROVE  \E h : Joins(h, src, flat, f, n) /\ Graph!Below(src, flat, f, n) = h[n]
  <1> DEFINE list == [i \in 1..n |-> flat[Graph!Imports(src, f)[i]]]
             g == [x \in Seq(Doc) \X (1..n) |-> x[1] \o list[x[2]]]
             u == CHOOSE h : h = [i \in 0..n |->
                                    IF i = 0 THEN <<>>
                                    ELSE h[i - 1] \o flat[Graph!Imports(src, f)[i]]]
  <1>1. n \in Nat /\ n <= Len(Graph!Imports(src, f)) /\ <<>> \in Seq(Doc)
    BY ImportsType
  <1>2. list \in [1..n -> Seq(Doc)]
    <2>1. \A i \in 1..n : Graph!Imports(src, f)[i] \in Target
      BY <1>1, ImportsType
    <2>2. QED
      BY <2>1 DEF Flats
  <1>3. \A i \in 1..n : list[i] = flat[Graph!Imports(src, f)[i]]
    OBVIOUS
  <1> HIDE DEF list
  <1>4. g \in [Seq(Doc) \X (1..n) -> Seq(Doc)]
    BY <1>2
  <1>5. \A d \in Seq(Doc), i \in 1..n : g[<<d, i>>] = d \o list[i]
    OBVIOUS
  <1> HIDE DEF g
  <1>6. PICK h \in [0..n -> Seq(Doc)] : Folding(h, <<>>, g, n)
    BY <1>1, <1>4, FoldExists
  <1>7. h[0] = <<>> /\ \A i \in 1..n : h[i] = h[i - 1] \o list[i]
    <2>1. \A i \in 1..n : i - 1 \in 0..n
      BY <1>1
    <2>2. QED
      BY <1>5, <1>6, <2>1 DEF Folding
  <1>8. h = [i \in 0..n |-> IF i = 0 THEN <<>> ELSE h[i - 1] \o flat[Graph!Imports(src, f)[i]]]
    <2>1. \A i \in 0..n : i = 0 \/ i \in 1..n
      BY <1>1
    <2>2. QED
      BY <1>3, <1>6, <1>7, <2>1
  <1>9. u = [i \in 0..n |-> IF i = 0 THEN <<>> ELSE u[i - 1] \o flat[Graph!Imports(src, f)[i]]]
    BY <1>8
  <1>10. Graph!Below(src, flat, f, n) = u[n]
    BY DEF Graph!Below
  <1> HIDE DEF u
  <1>11. u[0] = <<>> /\ \A i \in 1..n : u[i] = u[i - 1] \o list[i]
    <2>1. 0 \in 0..n /\ \A i \in 1..n : i \in 0..n /\ i # 0
      BY <1>1
    <2>2. QED
      BY <1>3, <1>9, <2>1
  <1>12. u \in [0..n -> Seq(Doc)]
    <2> DEFINE S == {i \in Nat : i <= n => u[i] \in Seq(Doc)}
    <2>1. 0 \in S
      BY <1>1, <1>11
    <2>2. ASSUME NEW i \in Nat, i \in S PROVE i + 1 \in S
      <3>1. SUFFICES ASSUME i + 1 <= n PROVE u[i + 1] \in Seq(Doc)
        OBVIOUS
      <3>2. i + 1 \in 1..n /\ (i + 1) - 1 = i /\ u[i] \in Seq(Doc)
        BY <2>2, <3>1, <1>1
      <3>3. u[i + 1] = u[i] \o list[i + 1] /\ list[i + 1] \in Seq(Doc)
        BY <1>2, <1>11, <3>2
      <3>4. QED
        BY <3>2, <3>3
    <2> HIDE DEF S
    <2>3. Nat \subseteq S
      BY <2>1, <2>2, Induct
    <2>4. \A i \in 0..n : u[i] \in Seq(Doc)
      BY <2>3 DEF S
    <2>5. DOMAIN u = 0..n /\ u = [i \in 0..n |-> u[i]]
      BY <1>9
    <2>6. QED
      BY <2>4, <2>5
  <1>13. QED
    <2>1. Joins(u, src, flat, f, n)
      BY <1>3, <1>11, <1>12 DEF Behind, Joins
    <2>2. QED
      BY <1>10, <2>1

\* The lists of the first imports are joined to the same list, whatever else the
\* files around them hold.
LEMMA BelowSame ==
  ASSUME NEW src \in Sources, NEW flat \in Flats, NEW src2 \in Sources, NEW flat2 \in Flats,
         NEW f, NEW n \in Nat,
         n <= Len(Graph!Imports(src, f)), n <= Len(Graph!Imports(src2, f)),
         \A i \in 1..n : flat[Graph!Imports(src, f)[i]] = flat2[Graph!Imports(src2, f)[i]]
  PROVE  Graph!Below(src, flat, f, n) = Graph!Below(src2, flat2, f, n)
  <1>1. PICK h : Joins(h, src, flat, f, n) /\ Graph!Below(src, flat, f, n) = h[n]
    BY BelowExists
  <1>2. PICK k : Joins(k, src2, flat2, f, n) /\ Graph!Below(src2, flat2, f, n) = k[n]
    BY BelowExists
  <1> DEFINE S == {i \in Nat : i <= n => h[i] = k[i]}
  <1>3. 0 \in S
    BY <1>1, <1>2 DEF Joins
  <1>4. ASSUME NEW i \in Nat, i \in S PROVE i + 1 \in S
    <2>1. SUFFICES ASSUME i + 1 <= n PROVE h[i + 1] = k[i + 1]
      OBVIOUS
    <2>2. i + 1 \in 1..n /\ (i + 1) - 1 = i /\ h[i] = k[i]
      BY <1>4, <2>1
    <2>3. /\ h[i + 1] = Behind(h[i], src, flat, f, i + 1)
          /\ k[i + 1] = Behind(k[i], src2, flat2, f, i + 1)
      BY <1>1, <1>2, <2>2 DEF Joins
    <2>4. QED
      BY <2>2, <2>3 DEF Behind
  <1> HIDE DEF S
  <1>5. Nat \subseteq S
    BY <1>3, <1>4, Induct
  <1>6. h[n] = k[n]
    BY <1>5 DEF S
  <1>7. QED
    BY <1>1, <1>2, <1>6

\* One import more adds its list at the end.
LEMMA BelowNext ==
  ASSUME NEW src \in Sources, NEW flat \in Flats, NEW f
  PROVE  /\ Graph!Below(src, flat, f, 0) = <<>>
         /\ \A n \in Nat :
              n <= Len(Graph!Imports(src, f)) => Graph!Below(src, flat, f, n) \in Seq(Doc)
         /\ \A n \in Nat :
              n + 1 <= Len(Graph!Imports(src, f)) =>
                Graph!Below(src, flat, f, n + 1)
                  = Graph!Below(src, flat, f, n) \o flat[Graph!Imports(src, f)[n + 1]]
  <1> DEFINE len == Len(Graph!Imports(src, f))
             step(d, i) == Behind(d, src, flat, f, i)
  <1>1. len \in Nat
    BY ImportsType
  <1>2. Graph!Below(src, flat, f, 0) = <<>>
    <2>1. 0 \in Nat /\ 0 <= len
      BY <1>1
    <2>2. QED
      BY <2>1, BelowExists DEF Joins
  <1>3. \A n \in Nat : n <= len => Graph!Below(src, flat, f, n) \in Seq(Doc)
    <2> SUFFICES ASSUME NEW n \in Nat, n <= len PROVE Graph!Below(src, flat, f, n) \in Seq(Doc)
      OBVIOUS
    <2>1. PICK h : Joins(h, src, flat, f, n) /\ Graph!Below(src, flat, f, n) = h[n]
      BY BelowExists
    <2>2. h[n] \in Seq(Doc)
      BY <2>1 DEF Joins
    <2>3. QED
      BY <2>1, <2>2
  <1>4. ASSUME NEW n \in Nat, n + 1 <= len
        PROVE  Graph!Below(src, flat, f, n + 1) = step(Graph!Below(src, flat, f, n), n + 1)
    <2>1. n + 1 \in Nat /\ n + 1 <= len /\ n <= len
      BY <1>1, <1>4
    <2>2. PICK h : Joins(h, src, flat, f, n + 1) /\ Graph!Below(src, flat, f, n + 1) = h[n + 1]
      BY <2>1, BelowExists
    <2>3. PICK k : Joins(k, src, flat, f, n) /\ Graph!Below(src, flat, f, n) = k[n]
      BY <2>1, BelowExists
    <2> DEFINE S == {i \in Nat : i <= n => h[i] = k[i]}
    <2>4. 0 \in S
      BY <2>2, <2>3 DEF Joins
    <2>5. ASSUME NEW i \in Nat, i \in S PROVE i + 1 \in S
      <3>1. SUFFICES ASSUME i + 1 <= n PROVE h[i + 1] = k[i + 1]
        OBVIOUS
      <3>2. i + 1 \in 1..n /\ i + 1 \in 1..(n + 1) /\ (i + 1) - 1 = i /\ h[i] = k[i]
        BY <2>5, <3>1
      <3>3. h[i + 1] = step(h[i], i + 1) /\ k[i + 1] = step(k[i], i + 1)
        BY <2>2, <2>3, <3>2 DEF Joins
      <3>4. QED
        BY <3>2, <3>3
    <2> HIDE DEF S
    <2>6. Nat \subseteq S
      BY <2>4, <2>5, Induct
    <2>7. h[n] = k[n]
      BY <2>6 DEF S
    <2>8. n + 1 \in 1..(n + 1) /\ (n + 1) - 1 = n
      OBVIOUS
    <2>9. h[n + 1] = step(h[n], n + 1)
      BY <2>2, <2>8 DEF Joins
    <2>10. QED
      BY <2>2, <2>3, <2>7, <2>9
  <1>5. QED
    BY <1>2, <1>3, <1>4 DEF Behind

\* A file's list is its imports' lists and its own overlay.
LEMMA FlatFileType ==
  ASSUME NEW src \in Sources, NEW flat \in Flats, NEW f
  PROVE  Graph!FlatFile(src, flat, f) \in Seq(Doc)
  <1>1. CASE f \in Graph!Known(src)
    <2>1. Graph!Imports(src, f) = src[f].imports /\ src[f].own \in Doc
      BY <1>1, KnownFile
    <2>2. Len(src[f].imports) \in Nat /\ Len(src[f].imports) <= Len(Graph!Imports(src, f))
      BY <2>1, ImportsType
    <2>3. Graph!Below(src, flat, f, Len(src[f].imports)) \in Seq(Doc)
      BY <2>2, BelowNext
    <2>4. QED
      BY <1>1, <2>1, <2>3 DEF Graph!FlatFile
  <1>2. CASE f \notin Graph!Known(src)
    BY <1>2 DEF Graph!FlatFile
  <1>3. QED
    BY <1>1, <1>2

\* Lists for all paths are made level by level.
LEMMA FlatLevels ==
  ASSUME NEW src \in Sources
  PROVE  \E h \in [0..(MaxImportDepth + 1) -> Flats] :
           /\ h[0] = [t \in Target |-> <<>>]
           /\ \A n \in 1..(MaxImportDepth + 1) :
                h[n] = [t \in Target |-> Graph!FlatFile(src, h[n - 1], t)]
           /\ Graph!Flat(src) = h[MaxImportDepth + 1]
  <1> DEFINE m == MaxImportDepth + 1
             none == [t \in Target |-> <<>>]
             next(flat) == [t \in Target |-> Graph!FlatFile(src, flat, t)]
             g == [x \in Flats \X (1..m) |-> next(x[1])]
             u == CHOOSE h : h = [n \in 0..m |->
                    [t \in Target |-> IF n = 0 THEN <<>> ELSE Graph!FlatFile(src, h[n - 1], t)]]
  <1>1. m \in Nat /\ none \in Flats
    BY LimitAssumption DEF Flats
  <1>2. \A flat \in Flats : next(flat) \in Flats
    BY FlatFileType DEF Flats
  <1>3. g \in [Flats \X (1..m) -> Flats]
    BY <1>2
  <1>4. \A flat \in Flats, i \in 1..m : g[<<flat, i>>] = next(flat)
    OBVIOUS
  <1> HIDE DEF g
  <1>5. PICK h \in [0..m -> Flats] : Folding(h, none, g, m)
    <2> HIDE DEF m, none
    <2>1. QED
      BY <1>1, <1>3, FoldExists
  <1>6. \A n \in 1..m : n - 1 \in 0..m /\ n \in 0..m /\ n # 0
    BY <1>1
  <1>7. h[0] = none /\ \A n \in 1..m : h[n] = next(h[n - 1])
    <2> HIDE DEF m, none, next
    <2>1. QED
      BY <1>4, <1>5, <1>6 DEF Folding
  <1>8. h = [n \in 0..m |->
              [t \in Target |-> IF n = 0 THEN <<>> ELSE Graph!FlatFile(src, h[n - 1], t)]]
    <2>1. \A n \in 0..m :
            h[n] = [t \in Target |-> IF n = 0 THEN <<>> ELSE Graph!FlatFile(src, h[n - 1], t)]
      <3>1. \A n \in 0..m : n = 0 \/ n \in 1..m
        BY <1>1
      <3>2. h[0] = [t \in Target |-> IF 0 = 0 THEN <<>> ELSE Graph!FlatFile(src, h[0 - 1], t)]
        BY <1>7
      <3>3. \A n \in 1..m :
              h[n] = [t \in Target |-> IF n = 0 THEN <<>> ELSE Graph!FlatFile(src, h[n - 1], t)]
        BY <1>6, <1>7
      <3>4. QED
        BY <3>1, <3>2, <3>3
    <2>2. DOMAIN h = 0..m /\ h = [n \in 0..m |-> h[n]]
      BY <1>5
    <2>3. QED
      BY <2>1, <2>2
  <1>9. u = [n \in 0..m |->
              [t \in Target |-> IF n = 0 THEN <<>> ELSE Graph!FlatFile(src, u[n - 1], t)]]
    BY <1>8
  <1>10. Graph!Flat(src) = u[m]
    BY SameTarget DEF Graph!Flat
  <1> HIDE DEF u
  <1>11. u[0] = none /\ \A n \in 1..m : u[n] = next(u[n - 1])
    <2>1. 0 \in 0..m
      BY <1>1
    <2>2. u[0] = none
      BY <1>9, <2>1
    <2>3. \A n \in 1..m : u[n] = next(u[n - 1])
      BY <1>6, <1>9
    <2>4. QED
      BY <2>2, <2>3
  <1>12. u \in [0..m -> Flats]
    <2> DEFINE S == {i \in Nat : i <= m => u[i] \in Flats}
    <2> HIDE DEF none, next
    <2>1. 0 \in S
      BY <1>1, <1>11
    <2>2. ASSUME NEW i \in Nat, i \in S PROVE i + 1 \in S
      <3>1. SUFFICES ASSUME i + 1 <= m PROVE u[i + 1] \in Flats
        OBVIOUS
      <3>2. i + 1 \in 1..m /\ (i + 1) - 1 = i /\ u[i] \in Flats
        BY <2>2, <3>1, <1>1
      <3>3. u[i + 1] = next(u[i])
        BY <1>11, <3>2
      <3>4. QED
        BY <1>2, <3>2, <3>3
    <2> HIDE DEF S
    <2>3. Nat \subseteq S
      BY <2>1, <2>2, Induct
    <2>4. \A i \in 0..m : u[i] \in Flats
      BY <2>3 DEF S
    <2>5. DOMAIN u = 0..m /\ u = [i \in 0..m |-> u[i]]
      BY <1>9
    <2>6. QED
      BY <2>4, <2>5
  <1>13. QED
    BY <1>10, <1>11, <1>12

\* A file's list depends on what the file holds and on its imports' lists.
LEMMA FlatFileSame ==
  ASSUME NEW src \in Sources, NEW src2 \in Sources, NEW flat \in Flats, NEW flat2 \in Flats,
         NEW f \in File, src2[f] = src[f],
         \A g \in Graph!ImportedBy(src, f) : flat2[g] = flat[g]
  PROVE  Graph!FlatFile(src2, flat2, f) = Graph!FlatFile(src, flat, f)
  <1>1. f \in Graph!Known(src) <=> f \in Graph!Known(src2)
    BY DEF Graph!Known, Graph!ReadFiles
  <1>2. CASE f \in Graph!Known(src)
    <2> DEFINE n == Len(src[f].imports)
    <2>1. Graph!Imports(src, f) = src[f].imports /\ Graph!Imports(src2, f) = src[f].imports
      BY <1>1, <1>2, KnownFile
    <2>2. n \in Nat /\ n <= Len(Graph!Imports(src, f)) /\ n <= Len(Graph!Imports(src2, f))
      BY <2>1, ImportsType
    <2>3. \A i \in 1..n : flat[Graph!Imports(src, f)[i]] = flat2[Graph!Imports(src2, f)[i]]
      BY <2>1, ImportsType
    <2> HIDE DEF n
    <2>4. Graph!Below(src, flat, f, n) = Graph!Below(src2, flat2, f, n)
      BY <2>2, <2>3, BelowSame
    <2>5. QED
      BY <1>1, <1>2, <2>4 DEF Graph!FlatFile, n
  <1>3. CASE f \notin Graph!Known(src)
    BY <1>1, <1>3 DEF Graph!FlatFile
  <1>4. QED
    BY <1>2, <1>3

\* The levels that flatten the graph.
Levels(h, src) ==
  /\ h \in [0..(MaxImportDepth + 1) -> Flats]
  /\ h[0] = [t \in Target |-> <<>>]
  /\ \A n \in 1..(MaxImportDepth + 1) :
       h[n] = [t \in Target |-> Graph!FlatFile(src, h[n - 1], t)]

\* Every path has a list: the last level's.
LEMMA FlatType ==
  ASSUME NEW src \in Sources
  PROVE  /\ Graph!Flat(src) \in Flats
         /\ \E h : Levels(h, src) /\ Graph!Flat(src) = h[MaxImportDepth + 1]
  <1>1. PICK h : Levels(h, src) /\ Graph!Flat(src) = h[MaxImportDepth + 1]
    BY FlatLevels DEF Levels
  <1>2. MaxImportDepth + 1 \in 0..(MaxImportDepth + 1)
    BY LimitAssumption
  <1>3. h[MaxImportDepth + 1] \in Flats
    BY <1>1, <1>2 DEF Levels
  <1>4. QED
    BY <1>1, <1>3

\* Where a rank within the limit goes down with every import, nothing is cut off:
\* a file's list is its imports' lists and its own overlay.
LEMMA FlatRanked ==
  ASSUME NEW src \in Sources, NEW S \in SUBSET File, NEW rank \in [S -> 0..MaxImportDepth],
         \A f \in S : \A g \in Graph!ImportedBy(src, f) : g \in S /\ rank[g] < rank[f]
  PROVE  \A f \in S : Graph!Flat(src)[f] = Graph!FlatFile(src, Graph!Flat(src), f)
  <1> DEFINE m == MaxImportDepth
  <1>1. m \in Nat /\ \A f \in S : rank[f] \in Nat /\ rank[f] <= m /\ f \in Target
    BY LimitAssumption DEF Target
  <1>2. PICK h : Levels(h, src) /\ Graph!Flat(src) = h[m + 1]
    BY FlatType
  <1>3. \A n \in 0..(m + 1) : h[n] \in Flats
    BY <1>2 DEF Levels
  <1>4. \A n \in 1..(m + 1), f \in S : h[n][f] = Graph!FlatFile(src, h[n - 1], f)
    <2>1. \A n \in 1..(m + 1) : h[n] = [t \in Target |-> Graph!FlatFile(src, h[n - 1], t)]
      BY <1>2 DEF Levels
    <2>2. S \subseteq Target
      BY <1>1
    <2> HIDE DEF m
    <2>3. QED
      BY <2>1, <2>2
  <1> DEFINE settled(k) ==
               \A f \in S : rank[f] < k =>
                 \A i, j \in 0..(m + 1) : k <= i /\ k <= j => h[i][f] = h[j][f]
             T == {k \in Nat : settled(k)}
  <1> HIDE DEF m
  <1>5. 0 \in T
    BY <1>1
  <1>6. ASSUME NEW k \in Nat, k \in T PROVE k + 1 \in T
    <2> SUFFICES ASSUME NEW f \in S, rank[f] < k + 1,
                        NEW i \in 0..(m + 1), NEW j \in 0..(m + 1), k + 1 <= i, k + 1 <= j
                 PROVE  h[i][f] = h[j][f]
      OBVIOUS
    <2>1. /\ i \in 1..(m + 1) /\ j \in 1..(m + 1)
          /\ i - 1 \in 0..(m + 1) /\ j - 1 \in 0..(m + 1) /\ k <= i - 1 /\ k <= j - 1
      BY <1>1
    <2>2. \A g \in Graph!ImportedBy(src, f) : h[i - 1][g] = h[j - 1][g]
      <3> SUFFICES ASSUME NEW g \in Graph!ImportedBy(src, f) PROVE h[i - 1][g] = h[j - 1][g]
        OBVIOUS
      <3>1. g \in S /\ rank[g] < k
        BY <1>1
      <3>2. QED
        BY <1>6, <2>1, <3>1
    <2>3. h[i - 1] \in Flats /\ h[j - 1] \in Flats /\ f \in File
      BY <1>3, <2>1
    <2>4. Graph!FlatFile(src, h[i - 1], f) = Graph!FlatFile(src, h[j - 1], f)
      BY <2>2, <2>3, FlatFileSame
    <2>5. QED
      BY <1>4, <2>1, <2>4
  <1>7. settled(m)
    <2> HIDE DEF settled
    <2>1. Nat \subseteq T
      <3> HIDE DEF T
      <3>1. QED
        BY <1>5, <1>6, Induct
    <2>2. QED
      BY <1>1, <2>1
  <1>8. m \in 0..(m + 1) /\ m + 1 \in 0..(m + 1) /\ m + 1 \in 1..(m + 1) /\ (m + 1) - 1 = m
    BY <1>1
  <1>9. ASSUME NEW f \in S
        PROVE  Graph!Flat(src)[f] = Graph!FlatFile(src, Graph!Flat(src), f)
    <2>1. \A g \in Graph!ImportedBy(src, f) : h[m][g] = h[m + 1][g]
      <3> SUFFICES ASSUME NEW g \in Graph!ImportedBy(src, f) PROVE h[m][g] = h[m + 1][g]
        OBVIOUS
      <3>1. g \in S /\ rank[g] < m /\ m <= m + 1 /\ m <= m
        BY <1>1
      <3>2. QED
        BY <1>7, <1>8, <3>1
    <2>2. h[m] \in Flats /\ h[m + 1] \in Flats /\ f \in File
      BY <1>3, <1>8
    <2>3. Graph!FlatFile(src, h[m], f) = Graph!FlatFile(src, h[m + 1], f)
      BY <2>1, <2>2, FlatFileSame
    <2>4. h[m + 1][f] = Graph!FlatFile(src, h[m], f)
      BY <1>4, <1>8
    <2>5. QED
      BY <1>2, <2>3, <2>4
  <1>10. QED
    BY <1>9

\* What is read elsewhere changes no list of files that import only one another.
LEMMA FlatGrows ==
  ASSUME NEW src \in Sources, NEW src2 \in Sources, NEW S \in SUBSET File,
         \A f \in S : src2[f] = src[f] /\ Graph!ImportedBy(src, f) \subseteq S
  PROVE  \A f \in S : Graph!Flat(src2)[f] = Graph!Flat(src)[f]
  <1> DEFINE m == MaxImportDepth + 1
  <1>1. m \in Nat /\ S \subseteq Target
    BY LimitAssumption DEF Target
  <1>2. PICK h : Levels(h, src) /\ Graph!Flat(src) = h[m]
    BY FlatType
  <1>3. PICK k : Levels(k, src2) /\ Graph!Flat(src2) = k[m]
    BY FlatType
  <1>4. \A n \in 0..m : h[n] \in Flats /\ k[n] \in Flats
    BY <1>2, <1>3 DEF Levels
  <1>5. \A n \in 1..m, f \in S :
          /\ h[n][f] = Graph!FlatFile(src, h[n - 1], f)
          /\ k[n][f] = Graph!FlatFile(src2, k[n - 1], f)
    <2> SUFFICES ASSUME NEW n \in 1..m, NEW f \in S
                 PROVE  /\ h[n][f] = Graph!FlatFile(src, h[n - 1], f)
                        /\ k[n][f] = Graph!FlatFile(src2, k[n - 1], f)
      OBVIOUS
    <2>1. /\ h[n] = [t \in Target |-> Graph!FlatFile(src, h[n - 1], t)]
          /\ k[n] = [t \in Target |-> Graph!FlatFile(src2, k[n - 1], t)]
      BY <1>2, <1>3 DEF Levels
    <2>2. f \in Target
      BY <1>1
    <2>3. QED
      BY <2>1, <2>2
  <1>6. \A f \in S : h[0][f] = k[0][f]
    BY <1>1, <1>2, <1>3 DEF Levels
  <1> HIDE DEF m
  <1> DEFINE same(n) == \A f \in S : k[n][f] = h[n][f]
             T == {n \in Nat : n <= m => same(n)}
  <1>7. 0 \in T
    BY <1>6
  <1>8. ASSUME NEW n \in Nat, n \in T PROVE n + 1 \in T
    <2> SUFFICES ASSUME n + 1 <= m, NEW f \in S PROVE k[n + 1][f] = h[n + 1][f]
      OBVIOUS
    <2>1. n + 1 \in 1..m /\ (n + 1) - 1 = n /\ n \in 0..m /\ same(n)
      BY <1>1, <1>8
    <2>2. \A g \in Graph!ImportedBy(src, f) : k[n][g] = h[n][g]
      BY <2>1
    <2>3. h[n] \in Flats /\ k[n] \in Flats
      BY <1>4, <2>1
    <2>4. Graph!FlatFile(src2, k[n], f) = Graph!FlatFile(src, h[n], f)
      BY <2>2, <2>3, FlatFileSame
    <2>5. QED
      BY <1>5, <2>1, <2>4
  <1>9. same(m)
    <2> HIDE DEF same
    <2>1. Nat \subseteq T
      <3> HIDE DEF T
      <3>1. QED
        BY <1>7, <1>8, Induct
    <2>2. QED
      BY <1>1, <2>1
  <1>10. QED
    BY <1>2, <1>3, <1>9

-----------------------------------------------------------------------------
\* What is reached, and by which chains.

\* src2 holds what src holds, and perhaps more.
Extends(src, src2) == \A f \in File : src[f] # Unread => src2[f] = src[f]

\* What is known stays known, with its imports.
LEMMA KnownGrows ==
  ASSUME NEW src \in Sources, NEW src2 \in Sources, Extends(src, src2)
  PROVE  /\ Graph!Known(src) \subseteq Graph!Known(src2)
         /\ Graph!ReadFiles(src) \subseteq Graph!ReadFiles(src2)
         /\ \A f \in Graph!Known(src) :
              Graph!Imports(src2, f) = Graph!Imports(src, f) /\ src2[f] = src[f]
         /\ \A t : Graph!ImportedBy(src, t) \subseteq Graph!ImportedBy(src2, t)
  <1>1. /\ Graph!Known(src) \subseteq Graph!Known(src2)
        /\ Graph!ReadFiles(src) \subseteq Graph!ReadFiles(src2)
        /\ \A f \in Graph!Known(src) : src2[f] = src[f]
    BY DEF Extends, Graph!Known, Graph!ReadFiles
  <1>2. \A f \in Graph!Known(src) : Graph!Imports(src2, f) = Graph!Imports(src, f)
    BY <1>1, KnownFile
  <1>3. ASSUME NEW t PROVE Graph!ImportedBy(src, t) \subseteq Graph!ImportedBy(src2, t)
    <2>1. CASE t \in Graph!Known(src)
      BY <1>2, <2>1 DEF Graph!ImportedBy
    <2>2. CASE t \notin Graph!Known(src)
      BY <2>2, ImportsType
    <2>3. QED
      BY <2>1, <2>2
  <1>4. QED
    BY <1>1, <1>2, <1>3

\* A path reaches itself, what is imported there, and no more than any set of
\* paths that has it and all imports of its members.
LEMMA Reaching ==
  ASSUME NEW src \in Sources
  PROVE  /\ \A t \in Target : t \in Graph!Reach(src, t)
         /\ \A t : Graph!Reach(src, t) \subseteq Target
         /\ \A t, u : u \in Graph!Reach(src, t) =>
              Graph!ImportedBy(src, u) \subseteq Graph!Reach(src, t)
         /\ \A t : \A S \in SUBSET Target :
              t \in S /\ Graph!Closed(src, S) => Graph!Reach(src, t) \subseteq S
  <1>1. \A t, u : u \in Graph!Reach(src, t) =>
          Graph!ImportedBy(src, u) \subseteq Graph!Reach(src, t)
    <2> SUFFICES ASSUME NEW t, NEW u \in Graph!Reach(src, t),
                        NEW v \in Graph!ImportedBy(src, u)
                 PROVE  v \in Graph!Reach(src, t)
      OBVIOUS
    <2>1. v \in Target
      BY ImportsType
    <2>2. ASSUME NEW S \in SUBSET Target, t \in S, Graph!Closed(src, S) PROVE v \in S
      <3>1. u \in S
        BY <2>2, SameTarget DEF Graph!Reach
      <3>2. QED
        BY <2>2, <3>1 DEF Graph!Closed
    <2>3. QED
      BY <2>1, <2>2, SameTarget DEF Graph!Reach
  <1>2. QED
    BY <1>1, SameTarget DEF Graph!Reach

\* What was reached stays reached.
LEMMA ReachGrows ==
  ASSUME NEW src \in Sources, NEW src2 \in Sources, Extends(src, src2), NEW t
  PROVE  Graph!Reach(src, t) \subseteq Graph!Reach(src2, t)
  <1>1. \A S : Graph!Closed(src2, S) => Graph!Closed(src, S)
    BY KnownGrows DEF Graph!Closed
  <1>2. QED
    BY <1>1 DEF Graph!Reach

\* A chain leads where its start reaches.
LEMMA ChainReaches ==
  ASSUME NEW src \in Sources, NEW t \in Target, NEW n \in Nat, NEW p \in Graph!Chains(src, t, n)
  PROVE  \A i \in 0..n : p[i] \in Graph!Reach(src, t)
  <1> DEFINE S == {i \in Nat : i <= n => p[i] \in Graph!Reach(src, t)}
  <1>1. p[0] = t /\ \A i \in 1..n : p[i] \in Graph!ImportedBy(src, p[i - 1])
    BY DEF Graph!Chains
  <1>2. 0 \in S
    BY <1>1, Reaching
  <1>3. ASSUME NEW i \in Nat, i \in S PROVE i + 1 \in S
    <2> SUFFICES ASSUME i + 1 <= n PROVE p[i + 1] \in Graph!Reach(src, t)
      OBVIOUS
    <2>1. i + 1 \in 1..n /\ (i + 1) - 1 = i /\ p[i] \in Graph!Reach(src, t)
      BY <1>3
    <2>2. p[i + 1] \in Graph!ImportedBy(src, p[i])
      BY <1>1, <2>1
    <2>3. QED
      BY <2>1, <2>2, Reaching
  <1> HIDE DEF S
  <1>4. Nat \subseteq S
    BY <1>2, <1>3, Induct
  <1>5. QED
    BY <1>4 DEF S

\* Chains of no import, and of one more at the start.
LEMMA ChainsBegin ==
  ASSUME NEW src \in Sources, NEW t \in Target
  PROVE  /\ Graph!Chains(src, t, 0) # {}
         /\ \A u \in Graph!ImportedBy(src, t), n \in Nat :
              Graph!Chains(src, u, n) # {} => Graph!Chains(src, t, n + 1) # {}
  <1>1. [i \in 0..0 |-> t] \in Graph!Chains(src, t, 0)
    BY SameTarget DEF Graph!Chains
  <1>2. ASSUME NEW u \in Graph!ImportedBy(src, t), NEW n \in Nat,
               NEW p \in Graph!Chains(src, u, n)
        PROVE  Graph!Chains(src, t, n + 1) # {}
    <2> DEFINE q == [i \in 0..(n + 1) |-> IF i = 0 THEN t ELSE p[i - 1]]
    <2>1. /\ p \in [0..n -> Target] /\ p[0] = u
          /\ \A i \in 1..n : p[i] \in Graph!ImportedBy(src, p[i - 1])
      BY SameTarget DEF Graph!Chains
    <2>2. q \in [0..(n + 1) -> Target]
      <3>1. \A i \in 0..(n + 1) : i # 0 => i - 1 \in 0..n
        OBVIOUS
      <3>2. QED
        BY <2>1, <3>1
    <2>3. q[0] = t /\ q[1] = u /\ \A i \in 1..(n + 1) : q[i] = p[i - 1]
      BY <2>1
    <2> HIDE DEF q
    <2>4. \A i \in 1..(n + 1) : q[i] \in Graph!ImportedBy(src, q[i - 1])
      <3> SUFFICES ASSUME NEW i \in 1..(n + 1) PROVE q[i] \in Graph!ImportedBy(src, q[i - 1])
        OBVIOUS
      <3>1. CASE i = 1
        BY <2>3, <3>1
      <3>2. CASE i # 1
        <4>1. i - 1 \in 1..n /\ i - 1 \in 1..(n + 1)
          BY <3>2
        <4>2. q[i] = p[i - 1] /\ q[i - 1] = p[(i - 1) - 1]
          BY <2>3, <4>1
        <4>3. QED
          BY <2>1, <4>1, <4>2
      <3>3. QED
        BY <3>1, <3>2
    <2>5. q \in Graph!Chains(src, t, n + 1)
      BY <2>2, <2>3, <2>4, SameTarget DEF Graph!Chains
    <2>6. QED
      BY <2>5
  <1>3. QED
    BY <1>1, <1>2

\* A chain stays a chain.
LEMMA ChainsGrow ==
  ASSUME NEW src \in Sources, NEW src2 \in Sources, Extends(src, src2), NEW t, NEW n
  PROVE  Graph!Chains(src, t, n) \subseteq Graph!Chains(src2, t, n)
  BY KnownGrows DEF Graph!Chains

\* A rank that goes down with every import bounds the chains.
LEMMA ChainsRanked ==
  ASSUME NEW src \in Sources, NEW S \in SUBSET Target, NEW rank \in [S -> Nat],
         \A f \in S : \A g \in Graph!ImportedBy(src, f) : g \in S /\ rank[g] < rank[f],
         NEW t \in S, NEW n \in Nat, n > rank[t]
  PROVE  Graph!Chains(src, t, n) = {}
  <1> SUFFICES ASSUME NEW p \in Graph!Chains(src, t, n) PROVE FALSE
    OBVIOUS
  <1>1. p[0] = t /\ \A i \in 1..n : p[i] \in Graph!ImportedBy(src, p[i - 1])
    BY DEF Graph!Chains
  <1> DEFINE T == {i \in Nat : i <= n => p[i] \in S /\ rank[p[i]] + i <= rank[t]}
  <1>2. 0 \in T
    BY <1>1
  <1>3. ASSUME NEW i \in Nat, i \in T PROVE i + 1 \in T
    <2> SUFFICES ASSUME i + 1 <= n PROVE p[i + 1] \in S /\ rank[p[i + 1]] + (i + 1) <= rank[t]
      OBVIOUS
    <2>1. i + 1 \in 1..n /\ (i + 1) - 1 = i /\ p[i] \in S /\ rank[p[i]] + i <= rank[t]
      BY <1>3
    <2>2. p[i + 1] \in Graph!ImportedBy(src, p[i])
      BY <1>1, <2>1
    <2>3. p[i + 1] \in S /\ rank[p[i + 1]] < rank[p[i]]
      BY <2>1, <2>2
    <2>4. rank[p[i + 1]] \in Nat /\ rank[p[i]] \in Nat /\ rank[t] \in Nat
      BY <2>1, <2>3
    <2>5. QED
      BY <2>1, <2>3, <2>4
  <1> HIDE DEF T
  <1>4. Nat \subseteq T
    BY <1>2, <1>3, Induct
  <1>5. p[n] \in S /\ rank[p[n]] + n <= rank[t]
    BY <1>4 DEF T
  <1>6. rank[p[n]] \in Nat /\ rank[t] \in Nat
    BY <1>5
  <1>7. QED
    BY <1>5, <1>6

\* Finitely many files reach finitely many paths.
LEMMA ReachFinite ==
  ASSUME NEW src \in Sources, IsFiniteSet(Graph!ReadFiles(src)), NEW t \in Target
  PROVE  IsFiniteSet(Graph!Reach(src, t))
  <1> DEFINE by == [f \in Graph!Known(src) |-> Graph!ImportedBy(src, f)]
             S == {t} \cup UNION {by[f] : f \in Graph!Known(src)}
  <1>1. \A f : IsFiniteSet(Graph!ImportedBy(src, f))
    <2> SUFFICES ASSUME NEW f PROVE IsFiniteSet(Graph!ImportedBy(src, f))
      OBVIOUS
    <2> DEFINE list == Graph!Imports(src, f)
    <2>1. DOMAIN list = 1..Len(list) /\ Len(list) \in Int /\ 1 \in Int
          /\ list = [i \in DOMAIN list |-> list[i]]
      BY ImportsType
    <2>2. IsFiniteSet(1..Len(list))
      BY <2>1, FS_Interval
    <2>3. IsFiniteSet({list[i] : i \in DOMAIN list})
      <3> HIDE DEF list
      <3>1. IsFiniteSet(DOMAIN list)
        BY <2>1, <2>2
      <3>2. QED
        BY <2>1, <3>1, FiniteImage
    <2>4. QED
      BY <2>3 DEF Graph!ImportedBy
  <1>2. IsFiniteSet(Graph!Known(src))
    BY KnownFile, FS_Subset
  <1>3. IsFiniteSet({by[f] : f \in Graph!Known(src)})
    <2>1. DOMAIN by = Graph!Known(src) /\ by = [f \in Graph!Known(src) |-> by[f]]
      OBVIOUS
    <2> HIDE DEF by
    <2>2. QED
      BY <1>2, <2>1, FiniteImage
  <1>4. \A T \in {by[f] : f \in Graph!Known(src)} : IsFiniteSet(T)
    BY <1>1
  <1>5. IsFiniteSet(UNION {by[f] : f \in Graph!Known(src)}) /\ IsFiniteSet({t})
    <2> HIDE DEF by
    <2>1. QED
      BY <1>3, <1>4, FS_UNION, FS_Singleton
  <1>6. IsFiniteSet(S)
    <2> HIDE DEF by
    <2>1. QED
      BY <1>5, FS_Union
  <1>7. S \subseteq Target /\ t \in S
    BY ImportsType
  <1>8. Graph!Closed(src, S)
    <2> SUFFICES ASSUME NEW f \in S PROVE Graph!ImportedBy(src, f) \subseteq S
      BY DEF Graph!Closed
    <2>1. CASE f \in Graph!Known(src)
      BY <2>1
    <2>2. CASE f \notin Graph!Known(src)
      BY <2>2, ImportsType
    <2>3. QED
      BY <2>1, <2>2
  <1> HIDE DEF S
  <1>9. Graph!Reach(src, t) \subseteq S
    BY <1>7, <1>8, Reaching
  <1>10. QED
    BY <1>6, <1>9, FS_Subset

-----------------------------------------------------------------------------
\* The work of merging.

AllMerges(src) == UNION {Graph!Merges(src, f) : f \in Graph!Known(src)}

Amounts(src, M) == [m \in M |-> Graph!MergeCost(src, m[1], m[2])]

\* The merges there may be, and that each costs a number of units.
LEMMA MergesType ==
  ASSUME NEW src \in Sources
  PROVE  /\ \A m \in AllMerges(src) :
              /\ m[1] \in Graph!Known(src) /\ m[2] \in Nat \ {0}
              /\ m[2] <= Len(Graph!Imports(src, m[1])) + 1
              /\ m = <<m[1], m[2]>>
              /\ Graph!MergeCost(src, m[1], m[2]) \in Nat
         /\ \A f \in Graph!Known(src), i \in Nat \ {0} :
              Graph!Imports(src, f) # <<>> /\ i <= Len(Graph!Imports(src, f)) + 1
                => <<f, i>> \in AllMerges(src)
         /\ \A m \in AllMerges(src) : Graph!Imports(src, m[1]) # <<>>
         /\ IsFiniteSet(Graph!ReadFiles(src)) => IsFiniteSet(AllMerges(src))
  <1>1. \A f : Len(Graph!Imports(src, f)) \in Nat
    BY ImportsType
  <1>2. \A m \in AllMerges(src) :
          /\ m[1] \in Graph!Known(src) /\ m[2] \in Nat \ {0}
          /\ m[2] <= Len(Graph!Imports(src, m[1])) + 1
          /\ m = <<m[1], m[2]>> /\ Graph!Imports(src, m[1]) # <<>>
    <2> SUFFICES ASSUME NEW f \in Graph!Known(src), NEW m \in Graph!Merges(src, f)
                 PROVE  /\ m[1] \in Graph!Known(src) /\ m[2] \in Nat \ {0}
                        /\ m[2] <= Len(Graph!Imports(src, m[1])) + 1
                        /\ m = <<m[1], m[2]>> /\ Graph!Imports(src, m[1]) # <<>>
      BY DEF AllMerges
    <2>1. Graph!Imports(src, f) # <<>>
          /\ m \in {f} \X (1..(Len(Graph!Imports(src, f)) + 1))
      BY DEF Graph!Merges
    <2>2. m[1] = f /\ m[2] \in 1..(Len(Graph!Imports(src, f)) + 1) /\ m = <<m[1], m[2]>>
      BY <2>1
    <2>3. QED
      BY <1>1, <2>1, <2>2
  <1>3. \A f \in Graph!Known(src), i \in Nat \ {0} :
          Graph!Imports(src, f) # <<>> /\ i <= Len(Graph!Imports(src, f)) + 1
            => <<f, i>> \in AllMerges(src)
    <2> SUFFICES ASSUME NEW f \in Graph!Known(src), NEW i \in Nat \ {0},
                        Graph!Imports(src, f) # <<>>, i <= Len(Graph!Imports(src, f)) + 1
                 PROVE  <<f, i>> \in AllMerges(src)
      OBVIOUS
    <2>1. i \in 1..(Len(Graph!Imports(src, f)) + 1)
      BY <1>1
    <2>2. <<f, i>> \in Graph!Merges(src, f)
      BY <2>1 DEF Graph!Merges
    <2>3. QED
      BY <2>2 DEF AllMerges
  <1>4. ASSUME NEW m \in AllMerges(src)
        PROVE  Graph!MergeCost(src, m[1], m[2]) \in Nat
    <2> DEFINE f == m[1]
               i == m[2]
               flat == Graph!Flat(src)
               list == Graph!Imports(src, f)
    <2>1. f \in Graph!Known(src) /\ i \in Nat \ {0} /\ i <= Len(list) + 1
      BY <1>2
    <2>2. src[f].own \in Doc
      BY <2>1, KnownFile
    <2>3. flat \in Flats
      BY FlatType
    <2>4. i - 1 \in Nat /\ i - 1 <= Len(list)
      BY <1>1, <2>1
    <2>5. Graph!Below(src, flat, f, i - 1) \in Seq(Doc)
      <3> HIDE DEF f, i, flat
      <3>1. QED
        BY <2>3, <2>4, BelowNext DEF list
    <2>6. Graph!Layered(Graph!Below(src, flat, f, i - 1)) \in Doc
      BY <2>2, <2>5, LayeredAppend
    <2>7. i <= Len(list) => flat[list[i]] \in Seq(Doc)
      <3>1. i <= Len(list) => list[i] \in Target
        BY <1>1, <2>1, ImportsType
      <3>2. QED
        BY <2>3, <3>1 DEF Flats
    <2>8. i <= Len(list) => Graph!Layered(flat[list[i]]) \in Doc
      BY <2>2, <2>7, LayeredAppend
    <2>9. MergeWork(Graph!Layered(Graph!Below(src, flat, f, i - 1)),
                    IF i <= Len(list) THEN Graph!Layered(flat[list[i]]) ELSE src[f].own) \in Nat
      BY <2>2, <2>6, <2>8, OverlayAssumption DEF ClosedUnderMerge
    <2>10. QED
      BY <2>9 DEF Graph!MergeCost
  <1>5. ASSUME IsFiniteSet(Graph!ReadFiles(src)) PROVE IsFiniteSet(AllMerges(src))
    <2> DEFINE g == [f \in Graph!Known(src) |-> Graph!Merges(src, f)]
    <2>1. \A f \in Graph!Known(src) : IsFiniteSet(g[f])
      <3> SUFFICES ASSUME NEW f \in Graph!Known(src) PROVE IsFiniteSet(Graph!Merges(src, f))
        OBVIOUS
      <3> DEFINE n == Len(Graph!Imports(src, f)) + 1
      <3>1. n \in Int /\ 1 \in Int
        BY <1>1
      <3>2. IsFiniteSet({f})
        BY FS_Singleton
      <3>3. IsFiniteSet(1..n)
        BY <3>1, FS_Interval
      <3>4. IsFiniteSet({f} \X (1..n))
        BY <3>2, <3>3, FS_Product
      <3>5. QED
        BY <3>4, FS_EmptySet DEF Graph!Merges
    <2>2. IsFiniteSet(Graph!Known(src))
      BY <1>5, KnownFile, FS_Subset
    <2>3. DOMAIN g = Graph!Known(src) /\ g = [f \in Graph!Known(src) |-> g[f]]
      OBVIOUS
    <2>4. AllMerges(src) = UNION {g[f] : f \in Graph!Known(src)}
      BY DEF AllMerges
    <2> HIDE DEF g
    <2>5. IsFiniteSet({g[f] : f \in Graph!Known(src)})
      BY <2>2, <2>3, FiniteImage
    <2>6. \A T \in {g[f] : f \in Graph!Known(src)} : IsFiniteSet(T)
      BY <2>1
    <2>7. QED
      BY <2>4, <2>5, <2>6, FS_UNION
  <1>6. QED
    BY <1>2, <1>3, <1>4, <1>5

\* What is read elsewhere changes the cost of no merge of finished imports.
LEMMA CostKept ==
  ASSUME NEW src \in Sources, NEW src2 \in Sources, Extends(src, src2),
         NEW S \in SUBSET Graph!Known(src),
         \A f \in S : Graph!ImportedBy(src, f) \subseteq S,
         NEW f \in Graph!Known(src), NEW i \in Nat \ {0},
         i <= Len(Graph!Imports(src, f)) + 1,
         \A j \in 1..i : j <= Len(Graph!Imports(src, f)) => Graph!Imports(src, f)[j] \in S
  PROVE  Graph!MergeCost(src2, f, i) = Graph!MergeCost(src, f, i)
  <1> DEFINE flat == Graph!Flat(src)
             flat2 == Graph!Flat(src2)
             list == Graph!Imports(src, f)
  <1>1. Graph!Imports(src2, f) = list /\ src2[f] = src[f]
    BY KnownGrows
  <1>2. \A g \in S : flat2[g] = flat[g]
    <2>1. S \subseteq File /\ \A g \in S : src2[g] = src[g] /\ Graph!ImportedBy(src, g) \subseteq S
      BY KnownFile, KnownGrows
    <2>2. QED
      BY <2>1, FlatGrows
  <1>3. flat \in Flats /\ flat2 \in Flats /\ Len(list) \in Nat
    BY FlatType, ImportsType
  <1>4. Graph!Below(src, flat, f, i - 1) = Graph!Below(src2, flat2, f, i - 1)
    <2>1. i - 1 \in Nat /\ i - 1 <= Len(list)
      BY <1>3
    <2>2. \A j \in 1..(i - 1) :
            flat[Graph!Imports(src, f)[j]] = flat2[Graph!Imports(src2, f)[j]]
      BY <1>1, <1>2, <1>3
    <2> HIDE DEF flat, flat2
    <2>3. QED
      BY <1>1, <1>3, <2>1, <2>2, BelowSame
  <1>5. i <= Len(list) => flat2[list[i]] = flat[list[i]]
    BY <1>2, <1>3
  <1> HIDE DEF list
  <1>6. (IF i <= Len(list) THEN Graph!Layered(flat[list[i]]) ELSE src[f].own)
          = (IF i <= Len(list) THEN Graph!Layered(flat2[list[i]]) ELSE src2[f].own)
    <2> HIDE DEF flat, flat2
    <2>1. QED
      BY <1>1, <1>5
  <1>7. QED
    BY <1>1, <1>4, <1>6 DEF Graph!MergeCost, list

-----------------------------------------------------------------------------
\* The invariant by which the walk keeps the contract.

Walking == pc \notin {"done", "failed"}

\* The merges that work was charged for: those of finished files, and those that a
\* frame is past.
Paid ==
  {m \in AllMerges(source) :
     m[1] \in DOMAIN done \/ \E i \in DOMAIN stack : m[1] = stack[i].file /\ m[2] < stack[i].next}

\* A finished file is reached, its overlay is what its part of the graph means, and
\* its depth is that of a chain of imports.
CacheMeans ==
  \A f \in DOMAIN done :
    /\ done[f].depth <= MaxImportDepth
    /\ done[f].doc = Graph!Layered(Graph!Flat(source)[f])
    /\ Graph!Chains(source, f, done[f].depth) # {}
    /\ f \in Graph!Reach(source, entry)

\* A frame's overlay is what its imports so far mean.
FramesMean ==
  \A i \in DOMAIN stack :
    /\ stack[i].merged =
         Graph!Layered(Graph!Below(source, Graph!Flat(source), stack[i].file, stack[i].next - 1))
    /\ Graph!Chains(source, stack[i].file, stack[i].depth) # {}

\* What is handed back is what is cached, and nothing is at first.
EndsMean ==
  /\ pc = "return" => ret.doc = done[ret.file].doc
  /\ pc \in {"open", "load"} /\ stack = <<>> =>
       DOMAIN done = {} /\ source = [f \in File |-> Unread]

\* The totals are those of what was read and merged.
Accounted ==
  /\ IsFiniteSet(Graph!ReadFiles(source))
  /\ used["files"] = Cardinality(Graph!ReadFiles(source)) + (IF pc = "read" THEN 1 ELSE 0)
  /\ used["bytes"] = Graph!Bytes(source)
  /\ used["nodes"] = Graph!Nodes(source)
  /\ used["work"] = Graph!Sum(Amounts(source, Paid))

CInv ==
  Walking => CacheMeans /\ FramesMean /\ EndsMean /\ Accounted /\ outcome = Pending

-----------------------------------------------------------------------------
\* What the walk knows of the graph.

\* The finished files are known, and import only one another, at smaller depths.
LEMMA DoneClosed ==
  ASSUME IInv
  PROVE  /\ source \in Sources
         /\ DOMAIN done \subseteq File
         /\ DOMAIN done \subseteq Graph!Known(source)
         /\ \A f \in DOMAIN done : done[f].depth \in Nat /\ done[f].doc \in Doc
         /\ \A f \in DOMAIN done : \A g \in Graph!ImportedBy(source, f) :
              g \in DOMAIN done /\ done[g].depth < done[f].depth
  <1>1. /\ source \in Sources /\ DOMAIN done \subseteq File
        /\ \A f \in DOMAIN done : done[f].depth \in Nat /\ done[f].doc \in Doc
    BY DEF IInv, TypeOK, Sources
  <1>2. \A f \in DOMAIN done : f \in Graph!Known(source)
    BY <1>1, KnownFile DEF IInv, CacheIsRanked
  <1>3. ASSUME NEW f \in DOMAIN done, NEW g \in Graph!ImportedBy(source, f)
        PROVE  g \in DOMAIN done /\ done[g].depth < done[f].depth
    <2>1. Graph!Imports(source, f) = Imports(f)
      BY <1>1, <1>2, KnownFile DEF Imports
    <2>2. PICK i \in DOMAIN Imports(f) : g = Imports(f)[i]
      BY <2>1 DEF Graph!ImportedBy
    <2>3. QED
      BY <2>2 DEF IInv, CacheIsRanked
  <1>4. QED
    BY <1>1, <1>2, <1>3

\* The frames, and what each of them has.
LEMMA FrameType ==
  ASSUME IInv
  PROVE  /\ Len(stack) \in Nat /\ DOMAIN stack = 1..Len(stack)
         /\ \A i \in DOMAIN stack :
              /\ stack[i].file \in File /\ stack[i].file \in Target
              /\ stack[i].next \in Nat \ {0} /\ stack[i].depth \in Nat
              /\ stack[i].merged \in Doc
  <1>1. stack \in Seq(Frame)
    BY DEF IInv, TypeOK
  <1>2. /\ Len(stack) \in Nat /\ DOMAIN stack = 1..Len(stack)
        /\ \A i \in DOMAIN stack : stack[i] \in Frame
    BY <1>1
  <1>3. QED
    BY <1>2 DEF Frame, Target

\* A scanned frame's file is known, and the imports it is past are finished.
LEMMA FrameKnown ==
  ASSUME IInv, NEW i \in DOMAIN stack, Scanned(i)
  PROVE  /\ stack[i].file \in Graph!Known(source) /\ stack[i].file \in File
         /\ Graph!Imports(source, stack[i].file) = Imports(stack[i].file)
         /\ stack[i].next \in Nat \ {0}
         /\ stack[i].next <= Len(Graph!Imports(source, stack[i].file)) + 1
         /\ \A j \in 1..(stack[i].next - 1) :
              /\ Graph!Imports(source, stack[i].file)[j] \in DOMAIN done
              /\ done[Graph!Imports(source, stack[i].file)[j]].depth < stack[i].depth
  <1>1. stack[i].file \in File /\ stack[i].next \in Nat \ {0}
    BY FrameType
  <1>2. stack[i].file \in Graph!Known(source)
    BY <1>1, DoneClosed, KnownFile DEF Scanned
  <1>3. Graph!Imports(source, stack[i].file) = Imports(stack[i].file)
    BY <1>2, DoneClosed, KnownFile DEF Imports
  <1>4. QED
    BY <1>1, <1>2, <1>3 DEF Scanned

\* The statement that a frame is at imports what the frame above it is for.
LEMMA FrameImports ==
  ASSUME IInv, NEW i \in DOMAIN stack, Scanned(i), NEW t, At(i, t)
  PROVE  /\ t \in Graph!ImportedBy(source, stack[i].file)
         /\ stack[i].next \in 1..Len(Graph!Imports(source, stack[i].file))
         /\ t = Graph!Imports(source, stack[i].file)[stack[i].next]
  <1>1. /\ stack[i].next \in 1..Len(Graph!Imports(source, stack[i].file))
        /\ t = Graph!Imports(source, stack[i].file)[stack[i].next]
    BY FrameKnown, DoneClosed, ImportsType DEF At
  <1>2. QED
    BY <1>1, DoneClosed, ImportsType

\* The frames are a chain of imports.
LEMMA FramesChain ==
  ASSUME IInv, Walking, NEW i \in 1..Len(stack), NEW k \in i..Len(stack)
  PROVE  [j \in 0..(k - i) |-> stack[i + j].file] \in Graph!Chains(source, stack[i].file, k - i)
  <1> DEFINE p == [j \in 0..(k - i) |-> stack[i + j].file]
  <1>1. /\ Len(stack) \in Nat /\ DOMAIN stack = 1..Len(stack)
        /\ \A j \in DOMAIN stack : stack[j].file \in Target
    BY FrameType
  <1>2. p \in [0..(k - i) -> Target] /\ p[0] = stack[i].file
    BY <1>1
  <1>3. ASSUME NEW j \in 1..(k - i) PROVE p[j] \in Graph!ImportedBy(source, p[j - 1])
    <2>1. /\ i + j - 1 \in DOMAIN stack /\ i + j - 1 \in 1..(Len(stack) - 1)
          /\ (i + j - 1) + 1 = i + j
          /\ p[j] = stack[i + j].file /\ p[j - 1] = stack[i + j - 1].file
      BY <1>1
    <2>2. Scanned(i + j - 1) /\ At(i + j - 1, stack[i + j].file)
      BY <2>1 DEF IInv, ChainIsRoute, Walking
    <2>3. QED
      BY <2>1, <2>2, FrameImports
  <1> HIDE DEF p
  <1>4. p \in Graph!Chains(source, stack[i].file, k - i)
    BY <1>2, <1>3, SameTarget DEF Graph!Chains
  <1>5. QED
    BY <1>4 DEF p

\* So each frame's file reaches those above it, and the entry reaches them all.
LEMMA FramesReached ==
  ASSUME IInv, Walking
  PROVE  /\ \A i \in 1..Len(stack) : \A k \in i..Len(stack) :
              stack[k].file \in Graph!Reach(source, stack[i].file)
         /\ \A k \in 1..Len(stack) : stack[k].file \in Graph!Reach(source, entry)
  <1>1. Len(stack) \in Nat /\ \A j \in 1..Len(stack) : stack[j].file \in Target
    BY FrameType
  <1>2. ASSUME NEW i \in 1..Len(stack), NEW k \in i..Len(stack)
        PROVE  stack[k].file \in Graph!Reach(source, stack[i].file)
    <2>1. PICK p : p = [j \in 0..(k - i) |-> stack[i + j].file]
      OBVIOUS
    <2>2. p \in Graph!Chains(source, stack[i].file, k - i)
      BY <2>1, FramesChain
    <2>3. k - i \in Nat /\ k - i \in 0..(k - i) /\ p[k - i] = stack[k].file
      BY <1>1, <2>1
    <2>4. QED
      BY <1>1, <2>2, <2>3, DoneClosed, ChainReaches
  <1>3. \A k \in 1..Len(stack) : 1 \in 1..Len(stack) /\ k \in 1..Len(stack)
                                 /\ stack # <<>>
    BY <1>1
  <1>4. Len(stack) > 0 => stack[1].file = entry
    BY <1>1 DEF IInv, ChainIsRoute, Walking, TypeOK
  <1>5. QED
    BY <1>1, <1>2, <1>4

\* Each merge that was paid for had a cost.
LEMMA PaidType ==
  ASSUME IInv
  PROVE  /\ Paid \subseteq AllMerges(source)
         /\ Amounts(source, Paid) \in [Paid -> Nat]
         /\ IsFiniteSet(Graph!ReadFiles(source)) => IsFiniteSet(Paid)
  <1>1. Paid \subseteq AllMerges(source)
    BY DEF Paid
  <1>2. \A m \in Paid : Graph!MergeCost(source, m[1], m[2]) \in Nat
    BY <1>1, DoneClosed, MergesType
  <1>3. Amounts(source, Paid) \in [Paid -> Nat]
    BY <1>2 DEF Amounts
  <1>4. IsFiniteSet(Graph!ReadFiles(source)) => IsFiniteSet(Paid)
    BY <1>1, DoneClosed, MergesType, FS_Subset
  <1>5. QED
    BY <1>1, <1>3, <1>4

-----------------------------------------------------------------------------
\* Each step of the walk keeps that invariant.

\* Nothing is known, reached or charged when a call begins.
LEMMA StartMeans ==
  ASSUME Start
  PROVE  CInv
  <1>1. /\ stack = <<>> /\ DOMAIN done = {} /\ source = [f \in File |-> Unread]
        /\ used = [name \in LimitNames |-> 0] /\ outcome = Pending /\ pc = "open"
    BY DEF Start
  <1>2. Graph!ReadFiles(source) = {} /\ Graph!Known(source) = {}
    BY <1>1 DEF Graph!ReadFiles, Graph!Known
  <1>3. CacheMeans /\ FramesMean /\ EndsMean
    BY <1>1 DEF CacheMeans, FramesMean, EndsMean
  <1>4. Accounted
    <2>1. Paid = {}
      BY <1>2 DEF Paid, AllMerges
    <2>2. Amounts(source, Paid) \in [{} -> Nat]
      BY <2>1 DEF Amounts
    <2>3. Graph!Sum(Amounts(source, Paid)) = 0
      BY <2>2, SumEmpty
    <2>4. Graph!Nodes(source) = 0
      <3>1. [f \in Graph!Known(source) |-> source[f].nodes] \in [{} -> Nat]
        BY <1>2
      <3>2. QED
        BY <3>1, SumEmpty DEF Graph!Nodes
    <2>5. Graph!Bytes(source) = 0
      <3> DEFINE B == {g \in Graph!ReadFiles(source) : source[g].outcome \notin Graph!NoBytes}
      <3>1. [f \in B |-> source[f].bytes] \in [{} -> Nat]
        BY <1>2
      <3>2. QED
        BY <3>1, SumEmpty DEF Graph!Bytes
    <2>6. \A name \in LimitNames : used[name] = 0
      BY <1>1
    <2>7. QED
      BY <1>1, <1>2, <2>3, <2>4, <2>5, <2>6, FS_EmptySet DEF Accounted, LimitNames
  <1>5. QED
    BY <1>1, <1>3, <1>4 DEF CInv

\* Steps that change neither the cache nor what was read.
LEMMA CacheMeansSame ==
  ASSUME CacheMeans, UNCHANGED <<entry, done, source>>
  PROVE  CacheMeans'
  BY DEF CacheMeans

\* Steps that change neither the frames.
LEMMA FramesMeanSame ==
  ASSUME FramesMean, UNCHANGED <<stack, source>>
  PROVE  FramesMean'
  BY DEF FramesMean

\* Nor what is charged.
LEMMA AccountedSame ==
  ASSUME Accounted, UNCHANGED <<stack, source, done, used>>, pc # "read", pc' # "read"
  PROVE  Accounted'
  <1>1. Paid' = Paid
    BY DEF Paid
  <1>2. QED
    BY <1>1 DEF Accounted

\* The walk is about to load the entry.
LEMMA OpenRootMeans ==
  ASSUME IInv, CInv, OpenRoot
  PROVE  CInv'
  <1>1. /\ CacheMeans /\ FramesMean /\ EndsMean /\ Accounted /\ outcome = Pending
        /\ pc = "open" /\ pc' = "load"
        /\ UNCHANGED <<entry, limits, stack, target, ret, done, source, used, outcome>>
    BY DEF CInv, Walking, OpenRoot
  <1>2. EndsMean'
    BY <1>1 DEF EndsMean
  <1>3. QED
    BY <1>1, <1>2, CacheMeansSame, FramesMeanSame, AccountedSame DEF CInv

\* The cache hands back what it keeps.
LEMMA LoadCachedMeans ==
  ASSUME IInv, CInv, LoadCached
  PROVE  CInv'
  <1>1. CASE pc' = "failed"
    BY <1>1 DEF CInv, Walking
  <1>2. CASE pc' # "failed"
    <2>1. /\ CacheMeans /\ FramesMean /\ EndsMean /\ Accounted /\ outcome = Pending
          /\ pc = "load" /\ pc' = "return"
          /\ ret' = [file |-> target, depth |-> done[target].depth, doc |-> done[target].doc]
          /\ UNCHANGED <<entry, limits, stack, target, done, source, used, outcome>>
      BY <1>2 DEF CInv, Walking, LoadCached, Return, Refuse, Fail
    <2>2. EndsMean'
      BY <2>1 DEF EndsMean
    <2>3. QED
      BY <2>1, <2>2, CacheMeansSame, FramesMeanSame, AccountedSame DEF CInv
  <1>3. QED
    BY <1>1, <1>2

\* The next import is about to be loaded.
LEMMA LoadImportMeans ==
  ASSUME IInv, CInv, LoadImport
  PROVE  CInv'
  <1>1. /\ CacheMeans /\ FramesMean /\ EndsMean /\ Accounted /\ outcome = Pending
        /\ pc = "scan" /\ pc' = "load" /\ stack # <<>>
        /\ UNCHANGED <<entry, limits, stack, ret, done, source, used, outcome>>
    BY DEF CInv, Walking, LoadImport, IInv, ChainIsRoute
  <1>2. EndsMean'
    BY <1>1 DEF EndsMean
  <1>3. QED
    BY <1>1, <1>2, CacheMeansSame, FramesMeanSame, AccountedSame DEF CInv

\* A frame that imported nothing yet means nothing.
LEMMA EnterMeans ==
  ASSUME IInv, CInv, Enter
  PROVE  CInv'
  <1> DEFINE n == Len(stack)
             frame == [file |-> target, next |-> 1, depth |-> 0, merged |-> EmptyDoc]
  <1>1. /\ CacheMeans /\ FramesMean /\ EndsMean /\ Accounted /\ outcome = Pending
        /\ pc = "load" /\ pc' = "read" /\ stack' = Append(stack, frame)
        /\ target \in File /\ target \notin DOMAIN done
        /\ used' = [used EXCEPT !.files = @ + 1]
        /\ UNCHANGED <<entry, limits, target, ret, done, source, outcome>>
    BY DEF CInv, Walking, Enter, IsNew
  <1>2. /\ n \in Nat /\ DOMAIN stack = 1..n
        /\ DOMAIN stack' = 1..(n + 1)
        /\ \A i \in 1..n : stack'[i] = stack[i]
        /\ stack'[n + 1] = frame /\ stack' # <<>>
    <2>1. stack \in Seq(Frame) /\ frame \in Frame
      BY <1>1, OverlayAssumption DEF IInv, TypeOK, Frame
    <2> HIDE DEF frame
    <2>2. QED
      BY <1>1, <2>1
  <1>3. stack'[n + 1].file = target /\ stack'[n + 1].next = 1 /\ stack'[n + 1].depth = 0
        /\ stack'[n + 1].merged = EmptyDoc
    BY <1>2
  <1>4. source \in Sources /\ target \in Target
    BY <1>1, DoneClosed DEF Target
  <1> HIDE DEF n, frame
  <1>5. FramesMean'
    <2>1. Graph!Layered(Graph!Below(source, Graph!Flat(source), target, 0)) = EmptyDoc
      BY <1>4, FlatType, BelowNext, LayeredFew
    <2>2. Graph!Chains(source, target, 0) # {}
      BY <1>4, ChainsBegin
    <2>3. ASSUME NEW i \in 1..(n + 1)
          PROVE  /\ stack'[i].merged = Graph!Layered(Graph!Below(source, Graph!Flat(source),
                                                          stack'[i].file, stack'[i].next - 1))
                 /\ Graph!Chains(source, stack'[i].file, stack'[i].depth) # {}
      <3>1. CASE i = n + 1
        BY <1>3, <2>1, <2>2, <3>1
      <3>2. CASE i \in 1..n
        BY <1>1, <1>2, <3>2 DEF FramesMean
      <3>3. QED
        BY <1>2, <3>1, <3>2
    <2>4. QED
      BY <1>1, <1>2, <2>3 DEF FramesMean
  <1>6. EndsMean'
    BY <1>1, <1>2 DEF EndsMean
  <1>7. Accounted'
    <2>1. \A m \in AllMerges(source) : m[2] \in Nat \ {0}
      BY <1>4, MergesType
    <2>2. ASSUME NEW m \in AllMerges(source)
          PROVE  (\E i \in DOMAIN stack' : m[1] = stack'[i].file /\ m[2] < stack'[i].next)
                   <=> \E i \in DOMAIN stack : m[1] = stack[i].file /\ m[2] < stack[i].next
      <3>1. ~ m[2] < 1
        BY <2>1
      <3>2. QED
        BY <1>2, <1>3, <3>1
    <2>3. Paid' = Paid
      BY <1>1, <2>2 DEF Paid
    <2>4. used \in [LimitNames -> Nat] /\ used["files"] \in Nat
      BY DEF IInv, TypeOK, LimitNames
    <2>5. /\ used'["files"] = used["files"] + 1
          /\ used'["bytes"] = used["bytes"] /\ used'["nodes"] = used["nodes"]
          /\ used'["work"] = used["work"]
      BY <1>1, <2>4 DEF LimitNames
    <2>6. Cardinality(Graph!ReadFiles(source)) \in Nat
      BY <1>1, FS_CardinalityType DEF Accounted
    <2>7. QED
      BY <1>1, <2>3, <2>4, <2>5, <2>6 DEF Accounted
  <1>8. QED
    BY <1>1, <1>5, <1>6, <1>7, CacheMeansSame DEF CInv

\* What reading one more file adds to what was read.
LEMMA OneMoreRead ==
  ASSUME NEW src \in Sources, NEW src2 \in Sources, NEW f \in File,
         src[f] = Unread, src2[f] \in Source, \A g \in File \ {f} : src2[g] = src[g],
         IsFiniteSet(Graph!ReadFiles(src))
  PROVE  /\ Extends(src, src2)
         /\ f \notin Graph!ReadFiles(src)
         /\ Graph!ReadFiles(src2) = Graph!ReadFiles(src) \cup {f}
         /\ IsFiniteSet(Graph!ReadFiles(src2))
         /\ Cardinality(Graph!ReadFiles(src2)) = Cardinality(Graph!ReadFiles(src)) + 1
         /\ src2[f].outcome \notin Graph!NoBytes =>
              Graph!Bytes(src2) = Graph!Bytes(src) + src2[f].bytes
         /\ src2[f].outcome = "document" =>
              Graph!Nodes(src2) = Graph!Nodes(src) + src2[f].nodes
  <1>1. src2[f] # Unread
    BY DEF Source, Unread
  <1>2. Extends(src, src2)
    BY DEF Extends
  <1>3. /\ f \notin Graph!ReadFiles(src)
        /\ Graph!ReadFiles(src2) = Graph!ReadFiles(src) \cup {f}
        /\ Graph!ReadFiles(src) \subseteq File
    BY <1>1 DEF Graph!ReadFiles
  <1>4. /\ IsFiniteSet(Graph!ReadFiles(src2))
        /\ Cardinality(Graph!ReadFiles(src2)) = Cardinality(Graph!ReadFiles(src)) + 1
    BY <1>3, FS_AddElement
  <1>5. ASSUME NEW g \in Graph!ReadFiles(src) PROVE src2[g] = src[g] /\ src[g] \in Source
    BY <1>3 DEF Sources, Graph!ReadFiles
  <1>6. ASSUME src2[f].outcome \notin Graph!NoBytes
        PROVE  Graph!Bytes(src2) = Graph!Bytes(src) + src2[f].bytes
    <2> DEFINE A == {g \in Graph!ReadFiles(src) : src[g].outcome \notin Graph!NoBytes}
               amount == [g \in A |-> src[g].bytes]
               A2 == {g \in Graph!ReadFiles(src2) : src2[g].outcome \notin Graph!NoBytes}
               more == [g \in A2 |-> src2[g].bytes]
    <2>1. A2 = A \cup {f} /\ f \notin A
      BY <1>3, <1>5, <1>6
    <2>2. IsFiniteSet(A)
      BY FS_Subset
    <2>3. /\ \A g \in A : src[g].bytes \in Nat /\ src2[g].bytes = src[g].bytes
          /\ src2[f].bytes \in Nat
      BY <1>5 DEF Source
    <2>4. amount \in [A -> Nat]
      BY <2>3
    <2>5. \A g \in A2 : more[g] \in Nat
      BY <2>1, <2>3
    <2>6. more \in [A2 -> Nat]
      BY <2>5
    <2>7. /\ \A g \in A : more[g] = amount[g]
          /\ more[f] = src2[f].bytes
      BY <2>1, <2>3
    <2>8. Graph!Bytes(src) = Graph!Sum(amount) /\ Graph!Bytes(src2) = Graph!Sum(more)
      BY DEF Graph!Bytes
    <2> HIDE DEF A, A2, amount, more
    <2>9. QED
      <3>1. OneMore(A, amount, f, more)
        BY <2>1, <2>2, <2>4, <2>6, <2>7 DEF OneMore
      <3>2. QED
        BY <2>7, <2>8, <3>1, SumPlus
  <1>7. ASSUME src2[f].outcome = "document"
        PROVE  Graph!Nodes(src2) = Graph!Nodes(src) + src2[f].nodes
    <2> DEFINE A == Graph!Known(src)
               amount == [g \in A |-> src[g].nodes]
               A2 == Graph!Known(src2)
               more == [g \in A2 |-> src2[g].nodes]
    <2>1. A2 = A \cup {f} /\ f \notin A
      BY <1>3, <1>5, <1>7 DEF Graph!Known
    <2>2. IsFiniteSet(A)
      BY FS_Subset DEF Graph!Known
    <2>3. /\ \A g \in A : src[g].nodes \in Nat /\ src2[g].nodes = src[g].nodes
          /\ src2[f].nodes \in Nat
      BY <1>5 DEF Source, Graph!Known
    <2>4. amount \in [A -> Nat]
      BY <2>3
    <2>5. \A g \in A2 : more[g] \in Nat
      BY <2>1, <2>3
    <2>6. more \in [A2 -> Nat]
      BY <2>5
    <2>7. /\ \A g \in A : more[g] = amount[g]
          /\ more[f] = src2[f].nodes
      BY <2>1, <2>3
    <2>8. Graph!Nodes(src) = Graph!Sum(amount) /\ Graph!Nodes(src2) = Graph!Sum(more)
      BY DEF Graph!Nodes
    <2> HIDE DEF A, A2, amount, more
    <2>9. QED
      <3>1. OneMore(A, amount, f, more)
        BY <2>1, <2>2, <2>4, <2>6, <2>7 DEF OneMore
      <3>2. QED
        BY <2>7, <2>8, <3>1, SumPlus
  <1>8. QED
    BY <1>2, <1>3, <1>4, <1>6, <1>7

\* What a read of the file at the top of the chain changes in the graph.
LEMMA TopIsRead ==
  ASSUME IInv, pc = "read", NEW c \in Contents(Top.file), Reading(c),
         IsFiniteSet(Graph!ReadFiles(source))
  PROVE  /\ source \in Sources /\ source' \in Sources /\ Top.file \in File /\ c \in Source
         /\ source'[Top.file] = c
         /\ Extends(source, source')
         /\ IsFiniteSet(Graph!ReadFiles(source'))
         /\ Top.file \in Graph!ReadFiles(source')
         /\ Cardinality(Graph!ReadFiles(source')) = Cardinality(Graph!ReadFiles(source)) + 1
         /\ HasBytes(c) => Graph!Bytes(source') = Graph!Bytes(source) + c.bytes
         /\ c.outcome = "document" => Graph!Nodes(source') = Graph!Nodes(source) + c.nodes
  <1>1. /\ source \in Sources /\ source' \in Sources /\ Top.file \in File /\ c \in Source
        /\ source'[Top.file] = c /\ source[Top.file] = Unread
        /\ \A g \in File \ {Top.file} : source'[g] = source[g]
    BY ReadingOnlyTop, DoneClosed DEF Sources
  <1>2. HasBytes(c) => c.outcome \notin Graph!NoBytes
    BY DEF HasBytes, Graph!NoBytes
  <1>3. PICK src2 : src2 = source'
    OBVIOUS
  <1>4. PICK f : f = Top.file
    OBVIOUS
  <1>5. QED
    BY <1>1, <1>2, <1>3, <1>4, OneMoreRead

\* The statements that the i-th frame is past import finished files.
LEMMA PaidFrame ==
  ASSUME IInv, Walking, NEW m \in Paid
  PROVE  /\ m[1] \in Graph!Known(source) /\ m[2] \in Nat \ {0}
         /\ m[2] <= Len(Graph!Imports(source, m[1])) + 1
         /\ m = <<m[1], m[2]>>
         /\ \A j \in 1..m[2] : j <= Len(Graph!Imports(source, m[1])) =>
              Graph!Imports(source, m[1])[j] \in DOMAIN done
  <1>1. /\ m[1] \in Graph!Known(source) /\ m[2] \in Nat \ {0}
        /\ m[2] <= Len(Graph!Imports(source, m[1])) + 1
        /\ m = <<m[1], m[2]>>
    BY PaidType, DoneClosed, MergesType
  <1>2. ASSUME NEW j \in 1..m[2], j <= Len(Graph!Imports(source, m[1]))
        PROVE  Graph!Imports(source, m[1])[j] \in DOMAIN done
    <2>1. CASE m[1] \in DOMAIN done
      <3>1. j \in 1..Len(Graph!Imports(source, m[1]))
        BY <1>1, <1>2
      <3>2. Graph!Imports(source, m[1])[j] \in Graph!ImportedBy(source, m[1])
        BY <3>1, DoneClosed, ImportsType
      <3>3. QED
        BY <2>1, <3>2, DoneClosed
    <2>2. CASE \E i \in DOMAIN stack : m[1] = stack[i].file /\ m[2] < stack[i].next
      <3>1. PICK i \in DOMAIN stack : m[1] = stack[i].file /\ m[2] < stack[i].next
        BY <2>2
      <3>2. /\ Len(stack) \in Nat /\ DOMAIN stack = 1..Len(stack)
            /\ stack[i].next \in Nat /\ stack # <<>>
        BY <3>1, FrameType
      <3>3. Scanned(i)
        <4>1. CASE i < Len(stack)
          BY <3>2, <4>1 DEF IInv, ChainIsRoute, Walking
        <4>2. CASE i = Len(stack)
          <5>1. stack[i].next # 1
            BY <1>1, <3>1, <3>2
          <5>2. pc # "read" /\ pc # "open"
            BY <3>2, <4>2, <5>1 DEF IInv, ChainIsRoute, Top
          <5>3. pc \in {"scan", "load", "return"}
            BY <5>2 DEF IInv, TypeOK, Walking
          <5>4. QED
            BY <3>2, <4>2, <5>3 DEF IInv, ChainIsRoute
        <4>3. QED
          BY <3>2, <4>1, <4>2
      <3>4. j \in 1..(stack[i].next - 1)
        BY <1>1, <3>1, <3>2
      <3>5. QED
        BY <3>1, <3>3, <3>4, FrameKnown
    <2>3. QED
      BY <2>1, <2>2 DEF Paid
  <1>3. QED
    BY <1>1, <1>2

\* What was paid stays paid, at the same price, when another file is read.
LEMMA PaidKept ==
  ASSUME IInv, Walking, NEW src2 \in Sources, Extends(source, src2)
  PROVE  /\ Paid \subseteq AllMerges(src2)
         /\ Amounts(src2, Paid) = Amounts(source, Paid)
  <1>1. ASSUME NEW m \in Paid
        PROVE  /\ m \in AllMerges(src2)
               /\ Graph!MergeCost(src2, m[1], m[2]) = Graph!MergeCost(source, m[1], m[2])
    <2>1. /\ m[1] \in Graph!Known(source) /\ m[2] \in Nat \ {0}
          /\ m[2] <= Len(Graph!Imports(source, m[1])) + 1
          /\ m = <<m[1], m[2]>>
          /\ \A j \in 1..m[2] : j <= Len(Graph!Imports(source, m[1])) =>
               Graph!Imports(source, m[1])[j] \in DOMAIN done
      BY PaidFrame
    <2>2. Graph!Imports(source, m[1]) # <<>>
      BY PaidType, DoneClosed, MergesType
    <2>3. /\ m[1] \in Graph!Known(src2)
          /\ Graph!Imports(src2, m[1]) = Graph!Imports(source, m[1])
      BY <2>1, DoneClosed, KnownGrows
    <2>4. <<m[1], m[2]>> \in AllMerges(src2)
      BY <2>1, <2>2, <2>3, MergesType
    <2>5. /\ DOMAIN done \in SUBSET Graph!Known(source)
          /\ \A f \in DOMAIN done : Graph!ImportedBy(source, f) \subseteq DOMAIN done
      BY DoneClosed
    <2>6. source \in Sources
      BY DoneClosed
    <2>7. Graph!MergeCost(src2, m[1], m[2]) = Graph!MergeCost(source, m[1], m[2])
      BY <2>1, <2>5, <2>6, CostKept
    <2>8. QED
      BY <2>1, <2>4, <2>7
  <1>2. Paid \subseteq AllMerges(src2)
    BY <1>1
  <1>3. Amounts(src2, Paid) = Amounts(source, Paid)
    BY <1>1 DEF Amounts
  <1>4. QED
    BY <1>2, <1>3

\* What the finished files mean does not depend on what is read next.
LEMMA DoneMeansSame ==
  ASSUME IInv, NEW src2 \in Sources, Extends(source, src2)
  PROVE  \A f \in DOMAIN done : Graph!Flat(src2)[f] = Graph!Flat(source)[f]
  <1>1. source \in Sources /\ DOMAIN done \in SUBSET File
    BY DoneClosed
  <1>2. \A f \in DOMAIN done :
          src2[f] = source[f] /\ Graph!ImportedBy(source, f) \subseteq DOMAIN done
    BY DoneClosed, KnownGrows
  <1>3. QED
    BY <1>1, <1>2, FlatGrows

\* Reading a file leaves the other frames, and the cache, with what they mean.
LEMMA ParsedMeans ==
  ASSUME IInv, CInv, pc = "read", NEW c \in Contents(Top.file), Parsed(c)
  PROVE  CInv'
  <1> DEFINE n == Len(stack)
  <1>1. /\ CacheMeans /\ FramesMean /\ EndsMean /\ Accounted /\ outcome = Pending
        /\ Walking /\ pc' = "scan" /\ Reading(c) /\ c.outcome = "document"
        /\ used' = [used EXCEPT !.bytes = @ + c.bytes, !.nodes = @ + c.nodes]
        /\ UNCHANGED <<entry, limits, stack, target, ret, done, outcome>>
    BY DEF CInv, Walking, Parsed
  <1>2. HasBytes(c)
    BY <1>1 DEF HasBytes
  <1>3. IsFiniteSet(Graph!ReadFiles(source))
    BY <1>1 DEF Accounted
  <1>4. PICK src2 : src2 = source'
    OBVIOUS
  <1>5. /\ source \in Sources /\ src2 \in Sources /\ c \in Source
        /\ Extends(source, src2)
        /\ IsFiniteSet(Graph!ReadFiles(src2))
        /\ Cardinality(Graph!ReadFiles(src2)) = Cardinality(Graph!ReadFiles(source)) + 1
        /\ Graph!Bytes(src2) = Graph!Bytes(source) + c.bytes
        /\ Graph!Nodes(src2) = Graph!Nodes(source) + c.nodes
    BY <1>1, <1>2, <1>3, <1>4, TopIsRead
  <1>6. \A f \in DOMAIN done : Graph!Flat(src2)[f] = Graph!Flat(source)[f]
    BY <1>5, DoneMeansSame
  <1>7. CacheMeans'
    <2>1. ASSUME NEW f \in DOMAIN done
          PROVE  /\ done[f].depth <= MaxImportDepth
                 /\ done[f].doc = Graph!Layered(Graph!Flat(src2)[f])
                 /\ Graph!Chains(src2, f, done[f].depth) # {}
                 /\ f \in Graph!Reach(src2, entry)
      <3>1. /\ Graph!Chains(source, f, done[f].depth) \subseteq Graph!Chains(src2, f, done[f].depth)
            /\ Graph!Reach(source, entry) \subseteq Graph!Reach(src2, entry)
        BY <1>5, ChainsGrow, ReachGrows
      <3>2. QED
        BY <1>1, <1>6, <3>1 DEF CacheMeans
    <2>2. QED
      BY <1>1, <1>4, <2>1 DEF CacheMeans
  <1>8. FramesMean'
    <2>1. ASSUME NEW i \in DOMAIN stack
          PROVE  /\ stack[i].merged = Graph!Layered(Graph!Below(src2, Graph!Flat(src2),
                                                         stack[i].file, stack[i].next - 1))
                 /\ Graph!Chains(src2, stack[i].file, stack[i].depth) # {}
      <3> DEFINE f == stack[i].file
                 k == stack[i].next - 1
      <3>1. /\ n \in Nat /\ DOMAIN stack = 1..n /\ i \in 1..n /\ stack # <<>>
            /\ f \in File /\ k \in Nat
        BY FrameType
      <3>2. Graph!Below(src2, Graph!Flat(src2), f, k)
              = Graph!Below(source, Graph!Flat(source), f, k)
        <4>1. CASE i = n
          <5>1. k = 0
            BY <3>1, <4>1 DEF IInv, ChainIsRoute, Top
          <5>2. QED
            BY <1>5, <5>1, FlatType, BelowNext
        <4>2. CASE i < n
          <5>1. Scanned(i)
            BY <1>1, <3>1, <4>2 DEF IInv, ChainIsRoute
          <5>2. /\ f \in Graph!Known(source)
                /\ k <= Len(Graph!Imports(source, f))
                /\ \A j \in 1..k : Graph!Imports(source, f)[j] \in DOMAIN done
            <6>1. Len(Graph!Imports(source, f)) \in Nat
              BY <1>5, ImportsType
            <6>2. QED
              BY <3>1, <5>1, <6>1, FrameKnown
          <5>3. Graph!Imports(src2, f) = Graph!Imports(source, f)
            BY <1>5, <5>2, KnownGrows
          <5>4. \A j \in 1..k : Graph!Flat(source)[Graph!Imports(source, f)[j]]
                                  = Graph!Flat(src2)[Graph!Imports(src2, f)[j]]
            BY <1>6, <5>2, <5>3
          <5>5. Graph!Flat(source) \in Flats /\ Graph!Flat(src2) \in Flats
            BY <1>5, FlatType
          <5> HIDE DEF f, k
          <5>6. QED
            BY <1>5, <3>1, <5>2, <5>3, <5>4, <5>5, BelowSame
        <4>3. QED
          BY <3>1, <4>1, <4>2
      <3>3. Graph!Chains(source, f, stack[i].depth) \subseteq Graph!Chains(src2, f, stack[i].depth)
        BY <1>5, ChainsGrow
      <3>4. QED
        BY <1>1, <3>2, <3>3 DEF FramesMean
    <2>2. QED
      BY <1>1, <1>4, <2>1 DEF FramesMean
  <1>9. EndsMean'
    BY <1>1 DEF EndsMean
  <1>10. Accounted'
    <2>1. /\ Paid \subseteq AllMerges(src2)
          /\ Amounts(src2, Paid) = Amounts(source, Paid)
      BY <1>1, <1>5, PaidKept
    <2>2. ASSUME NEW m \in Paid' PROVE m \in Paid
      <3>1. /\ m \in AllMerges(src2)
            /\ m[1] \in DOMAIN done
               \/ \E i \in DOMAIN stack : m[1] = stack[i].file /\ m[2] < stack[i].next
        BY <1>1, <1>4 DEF Paid
      <3>2. /\ m[2] \in Nat \ {0} /\ m = <<m[1], m[2]>>
            /\ m[2] <= Len(Graph!Imports(src2, m[1])) + 1
            /\ Graph!Imports(src2, m[1]) # <<>>
        BY <1>5, <3>1, MergesType
      <3>3. m[1] \in Graph!Known(source)
        <4>1. CASE m[1] \in DOMAIN done
          BY <4>1, DoneClosed
        <4>2. CASE \E i \in DOMAIN stack : m[1] = stack[i].file /\ m[2] < stack[i].next
          <5>1. PICK i \in DOMAIN stack : m[1] = stack[i].file /\ m[2] < stack[i].next
            BY <4>2
          <5>2. n \in Nat /\ i \in 1..n /\ stack[i].next \in Nat
            BY FrameType
          <5>3. i # n
            BY <3>2, <5>1, <5>2 DEF IInv, ChainIsRoute, Top
          <5>4. Scanned(i)
            BY <1>1, <5>2, <5>3 DEF IInv, ChainIsRoute
          <5>5. QED
            BY <5>1, <5>4, FrameKnown
        <4>3. QED
          BY <3>1, <4>1, <4>2
      <3>4. Graph!Imports(src2, m[1]) = Graph!Imports(source, m[1])
        BY <1>5, <3>3, KnownGrows
      <3>5. <<m[1], m[2]>> \in AllMerges(source)
        BY <1>5, <3>2, <3>3, <3>4, MergesType
      <3>6. m \in AllMerges(source)
        BY <3>2, <3>5
      <3>7. QED
        BY <3>1, <3>6 DEF Paid
    <2>3. ASSUME NEW m \in Paid PROVE m \in Paid'
      <3>1. m \in AllMerges(source')
        BY <1>4, <2>1
      <3>2. QED
        BY <1>1, <3>1 DEF Paid
    <2>4. Paid' = Paid
      BY <2>2, <2>3
    <2>5. used \in [LimitNames -> Nat]
      BY DEF IInv, TypeOK
    <2>6. /\ used'["files"] = used["files"]
          /\ used'["bytes"] = used["bytes"] + c.bytes /\ used'["nodes"] = used["nodes"] + c.nodes
          /\ used'["work"] = used["work"]
      BY <1>1, <2>5 DEF LimitNames
    <2>7. /\ used["files"] = Cardinality(Graph!ReadFiles(source)) + 1
          /\ used["bytes"] = Graph!Bytes(source) /\ used["nodes"] = Graph!Nodes(source)
          /\ used["work"] = Graph!Sum(Amounts(source, Paid))
      BY <1>1 DEF Accounted
    <2>8. used'["files"] = Cardinality(Graph!ReadFiles(src2)) + 0
      <3>1. Cardinality(Graph!ReadFiles(source)) \in Nat
        BY <1>3, FS_CardinalityType
      <3>2. QED
        BY <1>5, <2>6, <2>7, <3>1
    <2>9. QED
      BY <1>1, <1>4, <1>5, <2>1, <2>4, <2>6, <2>7, <2>8 DEF Accounted
  <1>11. QED
    BY <1>1, <1>7, <1>8, <1>9, <1>10 DEF CInv

\* One merge more is paid for.
LEMMA PaysFor ==
  ASSUME IInv, NEW m \in AllMerges(source), m \notin Paid, UNCHANGED source,
         Paid' = Paid \cup {m}, Accounted,
         used' = [used EXCEPT !.work = @ + Graph!MergeCost(source, m[1], m[2])],
         pc # "read", pc' # "read"
  PROVE  Accounted'
  <1>1. IsFiniteSet(Paid) /\ Amounts(source, Paid) \in [Paid -> Nat]
    BY PaidType DEF Accounted
  <1>2. PICK more : more = Amounts(source, Paid \cup {m})
    OBVIOUS
  <1>3. \A x \in Paid \cup {m} : Graph!MergeCost(source, x[1], x[2]) \in Nat
    BY PaidType, DoneClosed, MergesType
  <1>4. more \in [Paid \cup {m} -> Nat]
    BY <1>2, <1>3 DEF Amounts
  <1>5. /\ \A x \in Paid : more[x] = Amounts(source, Paid)[x]
        /\ more[m] = Graph!MergeCost(source, m[1], m[2])
    BY <1>2 DEF Amounts
  <1>6. Graph!Sum(more)
          = Graph!Sum(Amounts(source, Paid)) + Graph!MergeCost(source, m[1], m[2])
    <2>1. PICK amount : amount = Amounts(source, Paid)
      OBVIOUS
    <2>2. PICK A : A = Paid
      OBVIOUS
    <2>3. /\ IsFiniteSet(A) /\ amount \in [A -> Nat] /\ m \notin A
          /\ more \in [A \cup {m} -> Nat] /\ \A x \in A : more[x] = amount[x]
      BY <1>1, <1>4, <1>5, <2>1, <2>2
    <2>4. Graph!Sum(more) = Graph!Sum(amount) + more[m]
      <3>1. OneMore(A, amount, m, more)
        BY <2>3 DEF OneMore
      <3>2. QED
        BY <3>1, SumPlus
    <2>5. QED
      BY <1>5, <2>1, <2>4
  <1>7. used \in [LimitNames -> Nat]
    BY DEF IInv, TypeOK
  <1>8. /\ used'["files"] = used["files"] /\ used'["bytes"] = used["bytes"]
        /\ used'["nodes"] = used["nodes"]
        /\ used'["work"] = used["work"] + Graph!MergeCost(source, m[1], m[2])
    BY <1>7 DEF LimitNames
  <1>9. Amounts(source, Paid)' = more
    <2>1. Amounts(source', Paid') = more
      BY <1>2
    <2>2. QED
      BY <2>1
  <1>10. QED
    BY <1>6, <1>8, <1>9 DEF Accounted

\* What the frame at the top makes of the import that returned.
LEMMA ImportCosts ==
  ASSUME IInv, CInv, pc = "return", stack # <<>>
  PROVE  LET f == Top.file
             k == Top.next
         IN  /\ f \in Graph!Known(source) /\ k \in 1..Len(Graph!Imports(source, f))
             /\ ret.file = Graph!Imports(source, f)[k]
             /\ ret.file \in DOMAIN done /\ ret.depth = done[ret.file].depth
             /\ Graph!Layered(Graph!Below(source, Graph!Flat(source), f, k))
                  = Merge(Top.merged, ret.doc)
             /\ Graph!MergeCost(source, f, k) = MergeWork(Top.merged, ret.doc)
             /\ <<f, k>> \in AllMerges(source) /\ <<f, k>> \notin Paid
  <1> DEFINE n == Len(stack)
             f == Top.file
             k == Top.next
  <1>1. CacheMeans /\ FramesMean /\ EndsMean
    BY DEF CInv, Walking
  <1>2. n \in DOMAIN stack /\ n \in Nat /\ DOMAIN stack = 1..n /\ Top = stack[n]
    BY DEF IInv, TypeOK, Top
  <1>3. /\ Scanned(n) /\ At(n, ret.file)
        /\ ret.file \in DOMAIN done /\ ret.depth = done[ret.file].depth
    BY DEF IInv, ChainIsRoute
  <1>4. /\ f \in Graph!Known(source) /\ f \in File
        /\ k \in 1..Len(Graph!Imports(source, f))
        /\ ret.file = Graph!Imports(source, f)[k]
    BY <1>2, <1>3, FrameKnown, FrameImports
  <1>5. source \in Sources /\ Graph!Flat(source) \in Flats /\ ret.file \in Target
    BY <1>3, DoneClosed, FlatType DEF Target
  <1>6. Len(Graph!Imports(source, f)) \in Nat /\ k - 1 \in Nat /\ k \in Nat
        /\ (k - 1) + 1 = k /\ k <= Len(Graph!Imports(source, f))
        /\ k - 1 <= Len(Graph!Imports(source, f))
    BY <1>4, <1>5, ImportsType
  <1>7. /\ Top.merged = Graph!Layered(Graph!Below(source, Graph!Flat(source), f, k - 1))
        /\ ret.doc = Graph!Layered(Graph!Flat(source)[ret.file])
    BY <1>1, <1>2, <1>3 DEF CacheMeans, FramesMean, EndsMean
  <1> HIDE DEF f, k, n
  <1>8. Graph!Layered(Graph!Below(source, Graph!Flat(source), f, k)) = Merge(Top.merged, ret.doc)
    <2>1. PICK a : a = Graph!Below(source, Graph!Flat(source), f, k - 1)
      OBVIOUS
    <2>2. PICK b : b = Graph!Flat(source)[ret.file]
      OBVIOUS
    <2>3. a \in Seq(Doc) /\ b \in Seq(Doc)
      BY <1>5, <1>6, <2>1, <2>2, BelowNext DEF Flats
    <2>4. Graph!Below(source, Graph!Flat(source), f, (k - 1) + 1)
            = Graph!Below(source, Graph!Flat(source), f, k - 1)
                \o Graph!Flat(source)[Graph!Imports(source, f)[(k - 1) + 1]]
      <3>1. k - 1 \in Nat /\ (k - 1) + 1 <= Len(Graph!Imports(source, f))
        BY <1>6
      <3>2. QED
        BY <1>5, <3>1, BelowNext, Zenon
    <2>5. Graph!Below(source, Graph!Flat(source), f, k) = a \o b
      BY <1>4, <1>6, <2>1, <2>2, <2>4, Zenon
    <2>6. Graph!Layered(a \o b) = Merge(Graph!Layered(a), Graph!Layered(b))
      BY <2>3, LayeredConcat
    <2>7. QED
      BY <1>7, <2>1, <2>2, <2>5, <2>6, Zenon
  <1>9. Graph!MergeCost(source, f, k) = MergeWork(Top.merged, ret.doc)
    BY <1>4, <1>6, <1>7 DEF Graph!MergeCost
  <1>10. <<f, k>> \in AllMerges(source)
    <2>1. Graph!Imports(source, f) # <<>>
      BY <1>4, <1>6
    <2>2. k \in Nat \ {0} /\ k <= Len(Graph!Imports(source, f)) + 1
      BY <1>4, <1>6
    <2>3. QED
      BY <1>4, <1>5, <2>1, <2>2, MergesType
  <1>11. <<f, k>> \notin Paid
    <2>1. f \notin DOMAIN done /\ \A i \in DOMAIN stack : f = stack[i].file => i = n
      BY <1>2 DEF IInv, CacheAvoidsChain, Chain, f
    <2>2. k = stack[n].next
      BY <1>2 DEF k
    <2>3. QED
      BY <1>6, <2>1, <2>2 DEF Paid
  <1>12. QED
    BY <1>3, <1>4, <1>8, <1>9, <1>10, <1>11 DEF f, k

\* An import that was merged adds its list to the frame's, and its cost.
LEMMA MergeImportMeans ==
  ASSUME IInv, CInv, MergeImport
  PROVE  CInv'
  <1> DEFINE n == Len(stack)
             f == Top.file
             k == Top.next
             cost == MergeWork(Top.merged, ret.doc)
  <1>1. CASE pc' = "failed"
    BY <1>1 DEF CInv, Walking
  <1>2. CASE pc' # "failed"
    <2>1. /\ CacheMeans /\ FramesMean /\ EndsMean /\ Accounted /\ outcome = Pending
          /\ pc = "return" /\ pc' = "scan" /\ stack # <<>>
          /\ used' = [used EXCEPT !.work = @ + cost]
          /\ stack' = [stack EXCEPT ![n] = Advanced]
          /\ UNCHANGED <<entry, limits, target, ret, done, source, outcome>>
      BY <1>2 DEF CInv, Walking, MergeImport, Refuse, Fail
    <2>2. /\ n \in Nat \ {0} /\ DOMAIN stack = 1..n /\ Top = stack[n]
          /\ k \in Nat \ {0} /\ Top.depth \in Nat /\ f \in Target
      BY <2>1, FrameType DEF Top
    <2>3. /\ DOMAIN stack' = 1..n
          /\ \A i \in 1..(n - 1) : stack'[i] = stack[i]
          /\ stack'[n] = Advanced
      BY <2>1, <2>2
    <2>4. /\ stack'[n].file = f /\ stack'[n].next = k + 1
          /\ stack'[n].depth = Deeper(Top.depth, ret.depth)
          /\ stack'[n].merged = Merge(Top.merged, ret.doc)
      BY <2>3 DEF Advanced
    <2>5. /\ f \in Graph!Known(source) /\ k \in 1..Len(Graph!Imports(source, f))
          /\ ret.file = Graph!Imports(source, f)[k]
          /\ ret.file \in DOMAIN done /\ ret.depth = done[ret.file].depth
          /\ Graph!Layered(Graph!Below(source, Graph!Flat(source), f, k))
               = Merge(Top.merged, ret.doc)
          /\ Graph!MergeCost(source, f, k) = cost
          /\ <<f, k>> \in AllMerges(source) /\ <<f, k>> \notin Paid
      BY <2>1, ImportCosts
    <2> HIDE DEF n, f, k, cost
    <2>6. Graph!Chains(source, f, stack'[n].depth) # {}
      <3>1. CASE stack'[n].depth = Top.depth
        BY <2>1, <2>2, <3>1 DEF FramesMean, f
      <3>2. CASE stack'[n].depth = done[ret.file].depth + 1
        <4>1. ret.file \in Graph!ImportedBy(source, f)
          BY <2>5, DoneClosed, ImportsType
        <4>2. done[ret.file].depth \in Nat /\ Graph!Chains(source, ret.file, done[ret.file].depth) # {}
          BY <2>1, <2>5, DoneClosed DEF CacheMeans
        <4>3. QED
          BY <2>2, <3>2, <4>1, <4>2, DoneClosed, ChainsBegin
      <3>3. done[ret.file].depth \in Nat
        BY <2>5, DoneClosed
      <3>4. QED
        BY <2>2, <2>4, <2>5, <3>1, <3>2, <3>3 DEF Deeper
    <2>7. FramesMean'
      <3>1. ASSUME NEW i \in 1..n
            PROVE  /\ stack'[i].merged = Graph!Layered(Graph!Below(source, Graph!Flat(source),
                                                          stack'[i].file, stack'[i].next - 1))
                   /\ Graph!Chains(source, stack'[i].file, stack'[i].depth) # {}
        <4>1. CASE i = n
          <5>1. stack'[n].next - 1 = k
            BY <2>2, <2>4
          <5>2. QED
            BY <2>4, <2>5, <2>6, <4>1, <5>1
        <4>2. CASE i \in 1..(n - 1)
          BY <2>1, <2>2, <2>3, <4>2 DEF FramesMean
        <4>3. QED
          BY <2>2, <4>1, <4>2
      <3>2. QED
        BY <2>1, <2>3, <3>1 DEF FramesMean
    <2>8. EndsMean'
      <3>1. stack' # <<>>
        BY <2>2, <2>3
      <3>2. QED
        BY <2>1, <3>1 DEF EndsMean
    <2>9. Accounted'
      <3>1. ASSUME NEW m \in AllMerges(source)
            PROVE  (\E i \in 1..n : m[1] = stack'[i].file /\ m[2] < stack'[i].next)
                     <=> m = <<f, k>> \/ \E i \in 1..n : m[1] = stack[i].file /\ m[2] < stack[i].next
        <4>1. m[2] \in Nat /\ m = <<m[1], m[2]>>
          BY DoneClosed, MergesType
        <4>2. m = <<f, k>> <=> m[1] = f /\ m[2] = k
          BY <4>1
        <4>3. (m[1] = f /\ m[2] < k + 1) <=> (m[1] = f /\ m[2] < k) \/ m = <<f, k>>
          BY <2>2, <4>1, <4>2
        <4>4. stack[n].file = f /\ stack[n].next = k
          BY <2>2 DEF f, k
        <4>5. QED
          BY <2>2, <2>3, <2>4, <4>3, <4>4
      <3>2. Paid' = Paid \cup {<<f, k>>}
        <4>1. Paid' = {m \in AllMerges(source) :
                         m[1] \in DOMAIN done
                         \/ \E i \in 1..n : m[1] = stack'[i].file /\ m[2] < stack'[i].next}
          BY <2>1, <2>3 DEF Paid
        <4>2. Paid = {m \in AllMerges(source) :
                         m[1] \in DOMAIN done
                         \/ \E i \in 1..n : m[1] = stack[i].file /\ m[2] < stack[i].next}
          BY <2>2 DEF Paid
        <4>3. QED
          BY <2>5, <3>1, <4>1, <4>2
      <3>3. PICK m : m = <<f, k>>
        OBVIOUS
      <3>4. m[1] = f /\ m[2] = k
        BY <3>3
      <3>5. QED
        BY <2>1, <2>5, <3>2, <3>3, <3>4, PaysFor
    <2>10. QED
      BY <2>1, <2>7, <2>8, <2>9, CacheMeansSame DEF CInv
  <1>3. QED
    BY <1>1, <1>2

\* What a file means when the frame at the top is past all of its imports.
LEMMA OwnCosts ==
  ASSUME IInv, CInv, pc = "scan", Top.next > Len(Imports(Top.file))
  PROVE  LET f == Top.file
             k == Top.next
         IN  /\ f \in Graph!Known(source) /\ f \notin DOMAIN done
             /\ \A g \in Graph!ImportedBy(source, f) : g \in DOMAIN done
             /\ Composed(f, Top.merged) = Graph!Layered(Graph!Flat(source)[f])
             /\ k = Len(Graph!Imports(source, f)) + 1
             /\ Graph!Imports(source, f) = Imports(f)
             /\ Imports(f) # <<>> =>
                  /\ Graph!MergeCost(source, f, k) = OwnWork(f, Top.merged)
                  /\ <<f, k>> \in AllMerges(source) /\ <<f, k>> \notin Paid
  <1> DEFINE n == Len(stack)
             f == Top.file
             k == Top.next
             list == Graph!Imports(source, f)
             flat == Graph!Flat(source)
  <1>1. CacheMeans /\ FramesMean
    BY DEF CInv, Walking
  <1>2. /\ stack # <<>> /\ Scanned(n)
    BY DEF IInv, ChainIsRoute
  <1>3. n \in DOMAIN stack /\ n \in Nat \ {0} /\ DOMAIN stack = 1..n /\ Top = stack[n]
    BY <1>2 DEF IInv, TypeOK, Top
  <1>4. /\ f \in Graph!Known(source) /\ f \in File /\ list = Imports(f)
        /\ k \in Nat \ {0} /\ k <= Len(list) + 1
        /\ \A j \in 1..(k - 1) : list[j] \in DOMAIN done /\ done[list[j]].depth < Top.depth
    BY <1>2, <1>3, FrameKnown
  <1>5. source \in Sources /\ flat \in Flats /\ Top.depth \in Nat /\ Top.merged \in Doc
    BY <1>3, DoneClosed, FlatType, FrameType
  <1>6. Len(list) \in Nat /\ k = Len(list) + 1 /\ k - 1 = Len(list)
    <2>1. Len(list) \in Nat
      BY <1>5, ImportsType
    <2>2. k > Len(list)
      BY <1>4
    <2> HIDE DEF k, list
    <2>3. QED
      BY <1>4, <2>1, <2>2
  <1>7. \A g \in Graph!ImportedBy(source, f) : g \in DOMAIN done /\ done[g].depth < Top.depth
    <2>1. DOMAIN list = 1..(k - 1)
      BY <1>5, <1>6, ImportsType
    <2>2. QED
      BY <1>4, <2>1 DEF Graph!ImportedBy
  <1>8. f \notin DOMAIN done /\ \A i \in DOMAIN stack : f = stack[i].file => i = n
    BY <1>3 DEF IInv, CacheAvoidsChain, Chain
  <1>9. Top.merged = Graph!Layered(Graph!Below(source, flat, f, Len(list)))
    BY <1>1, <1>3, <1>6 DEF FramesMean
  <1>10. flat[f] = Graph!FlatFile(source, flat, f)
    <2>1. PICK S : S = DOMAIN done \cup {f}
      OBVIOUS
    <2>2. PICK rank : rank = [g \in S |-> IF g = f THEN Top.depth ELSE done[g].depth]
      OBVIOUS
    <2>3. \A g \in DOMAIN done : done[g].depth \in 0..MaxImportDepth
      BY <1>1, DoneClosed, LimitAssumption DEF CacheMeans
    <2>4. Top.depth \in 0..MaxImportDepth
      <3>1. (n - 1) + Top.depth <= MaxImportDepth
        BY <1>3 DEF IInv, DepthWithinLimit
      <3>2. QED
        BY <1>3, <1>5, <3>1, LimitAssumption
    <2>5. rank \in [S -> 0..MaxImportDepth] /\ S \in SUBSET File
      BY <1>4, <2>1, <2>2, <2>3, <2>4, DoneClosed
    <2>6. ASSUME NEW h \in S, NEW g \in Graph!ImportedBy(source, h)
          PROVE  g \in S /\ rank[g] < rank[h]
      <3>1. g \in DOMAIN done /\ g \in S /\ rank[g] = done[g].depth
        BY <1>7, <1>8, <2>1, <2>2, <2>6, DoneClosed
      <3>2. QED
        BY <1>7, <1>8, <2>1, <2>2, <2>6, <3>1, DoneClosed
    <2>7. f \in S
      BY <2>1
    <2> HIDE DEF flat, f
    <2>8. QED
      BY <1>5, <2>5, <2>6, <2>7, FlatRanked DEF flat
  <1>11. source[f].own \in Doc /\ Graph!Imports(source, f) = source[f].imports
    BY <1>4, <1>5, KnownFile
  <1> HIDE DEF flat, f, list, k, n
  <1>12. Composed(f, Top.merged) = Graph!Layered(flat[f])
    <2>1. PICK a : a = Graph!Below(source, flat, f, Len(list))
      OBVIOUS
    <2>2. PICK b : b = <<source[f].own>>
      OBVIOUS
    <2>3. a \in Seq(Doc) /\ b \in Seq(Doc)
      <3>1. Len(list) <= Len(Graph!Imports(source, f))
        BY <1>6 DEF list
      <3>2. QED
        BY <1>5, <1>6, <1>11, <2>1, <2>2, <3>1, BelowNext
    <2>4. flat[f] = a \o b
      <3>1. flat[f] = Graph!Below(source, flat, f, Len(source[f].imports)) \o <<source[f].own>>
        BY <1>4, <1>10, Zenon DEF Graph!FlatFile
      <3>2. QED
        BY <1>11, <2>1, <2>2, <3>1, Zenon DEF list
    <2>5. /\ Graph!Layered(a \o b) = Merge(Graph!Layered(a), Graph!Layered(b))
          /\ Graph!Layered(b) = source[f].own
      BY <1>11, <2>2, <2>3, LayeredConcat, LayeredFew
    <2>6. Graph!Layered(flat[f]) = Merge(Top.merged, source[f].own)
      BY <1>9, <2>1, <2>4, <2>5, Zenon
    <2>7. CASE list = <<>>
      <3>1. a = <<>>
        <4>1. Len(list) = 0
          BY <2>7
        <4>2. QED
          BY <1>5, <2>1, <4>1, BelowNext
      <3>2. Top.merged = EmptyDoc
        BY <1>9, <2>1, <3>1, LayeredFew
      <3>3. Merge(Top.merged, source[f].own) = source[f].own
        BY <1>11, <3>2, LayeringAssumption DEF Associative
      <3>4. QED
        BY <1>4, <2>6, <2>7, <3>3 DEF Composed
    <2>8. CASE list # <<>>
      BY <1>4, <2>6, <2>8 DEF Composed
    <2>9. QED
      BY <2>7, <2>8
  <1>13. ASSUME Imports(f) # <<>>
         PROVE  /\ Graph!MergeCost(source, f, k) = OwnWork(f, Top.merged)
                /\ <<f, k>> \in AllMerges(source) /\ <<f, k>> \notin Paid
    <2>1. ~ (k <= Len(list))
      BY <1>6
    <2>2. Graph!MergeCost(source, f, k) = MergeWork(Top.merged, source[f].own)
      BY <1>6, <1>9, <2>1 DEF Graph!MergeCost, list, flat
    <2>3. OwnWork(f, Top.merged) = MergeWork(Top.merged, source[f].own)
      BY <1>13 DEF OwnWork
    <2>4. <<f, k>> \in AllMerges(source)
      <3>1. /\ Graph!Imports(source, f) # <<>> /\ k \in Nat \ {0}
            /\ k <= Len(Graph!Imports(source, f)) + 1
        BY <1>4, <1>6, <1>13 DEF list
      <3>2. QED
        BY <1>4, <1>5, <3>1, MergesType
    <2>5. k = stack[n].next
      BY <1>3 DEF k
    <2>6. <<f, k>> \notin Paid
      BY <1>6, <1>8, <2>5 DEF Paid
    <2>7. QED
      BY <2>2, <2>3, <2>4, <2>6
  <1>14. QED
    BY <1>4, <1>6, <1>7, <1>8, <1>12, <1>13 DEF f, k, list, flat

\* A file that is finished joins the cache with what it means, and its cost is paid.
LEMMA FinishMeans ==
  ASSUME IInv, CInv, Finish
  PROVE  CInv'
  <1> DEFINE n == Len(stack)
             f == Top.file
             k == Top.next
             cost == OwnWork(f, Top.merged)
             doc == Composed(f, Top.merged)
  <1>1. CASE pc' = "failed"
    BY <1>1 DEF CInv, Walking
  <1>2. CASE pc' # "failed"
    <2>1. /\ CacheMeans /\ FramesMean /\ EndsMean /\ Accounted /\ outcome = Pending /\ Walking
          /\ pc = "scan" /\ pc' = "return" /\ k > Len(Imports(f))
          /\ used' = [used EXCEPT !.work = @ + cost]
          /\ Cache(f, Top.depth, doc)
          /\ stack' = SubSeq(stack, 1, n - 1)
          /\ ret' = [file |-> f, depth |-> Top.depth, doc |-> doc]
          /\ UNCHANGED <<entry, limits, target, source, outcome>>
      BY <1>2 DEF CInv, Walking, Finish, Fail, Return
    <2>2. /\ f \in Graph!Known(source) /\ f \notin DOMAIN done
          /\ doc = Graph!Layered(Graph!Flat(source)[f])
          /\ k = Len(Graph!Imports(source, f)) + 1
          /\ Graph!Imports(source, f) = Imports(f)
          /\ Imports(f) # <<>> =>
               /\ Graph!MergeCost(source, f, k) = cost
               /\ <<f, k>> \in AllMerges(source) /\ <<f, k>> \notin Paid
      BY <2>1, OwnCosts
    <2>3. stack # <<>> /\ stack \in Seq(Frame)
      BY <2>1 DEF IInv, TypeOK, ChainIsRoute
    <2>4. /\ n \in Nat \ {0} /\ DOMAIN stack = 1..n /\ n \in 1..Len(stack)
          /\ stack[n].file = f /\ stack[n].next = k /\ stack[n].depth = Top.depth
          /\ k \in Nat /\ Top.depth \in Nat
      BY <2>3, FrameType DEF Top
    <2>5. /\ DOMAIN stack' = 1..(n - 1)
          /\ \A i \in 1..(n - 1) : stack'[i] = stack[i]
      BY <2>1, <2>3, <2>4
    <2> HIDE DEF n, f, k, cost, doc
    <2>6. /\ DOMAIN done' = DOMAIN done \cup {f}
          /\ done'[f] = [depth |-> Top.depth, doc |-> doc]
          /\ \A g \in DOMAIN done : done'[g] = done[g]
      BY <2>1, <2>2 DEF Cache
    <2>7. done'[f].depth = Top.depth /\ done'[f].doc = doc
      BY <2>6
    <2>8. CacheMeans'
      <3>1. Top.depth <= MaxImportDepth
        <4>1. (n - 1) + Top.depth <= MaxImportDepth
          BY <2>4 DEF IInv, DepthWithinLimit
        <4>2. QED
          BY <2>4, <4>1, LimitAssumption
      <3>2. Graph!Chains(source, f, Top.depth) # {}
        BY <2>1, <2>4 DEF FramesMean
      <3>3. f \in Graph!Reach(source, entry)
        BY <2>1, <2>4, FramesReached
      <3>4. ASSUME NEW g \in DOMAIN done'
            PROVE  /\ done'[g].depth <= MaxImportDepth
                   /\ done'[g].doc = Graph!Layered(Graph!Flat(source)[g])
                   /\ Graph!Chains(source, g, done'[g].depth) # {}
                   /\ g \in Graph!Reach(source, entry)
        <4>1. CASE g = f
          BY <2>2, <2>7, <3>1, <3>2, <3>3, <4>1
        <4>2. CASE g # f
          BY <2>1, <2>6, <4>2 DEF CacheMeans
        <4>3. QED
          BY <4>1, <4>2
      <3>5. QED
        BY <2>1, <3>4 DEF CacheMeans
    <2>9. FramesMean'
      <3>1. ASSUME NEW i \in 1..(n - 1)
            PROVE  /\ stack'[i].merged = Graph!Layered(Graph!Below(source, Graph!Flat(source),
                                                          stack'[i].file, stack'[i].next - 1))
                   /\ Graph!Chains(source, stack'[i].file, stack'[i].depth) # {}
        <4>1. i \in DOMAIN stack /\ stack'[i] = stack[i]
          BY <2>4, <2>5
        <4>2. QED
          BY <2>1, <4>1 DEF FramesMean
      <3>2. QED
        BY <2>1, <2>5, <3>1 DEF FramesMean
    <2>10. EndsMean'
      BY <2>1, <2>7 DEF EndsMean
    <2>11. Accounted'
      <3>1. ASSUME NEW m \in AllMerges(source)
            PROVE  m \in Paid' <=> m \in Paid \/ m[1] = f
        <4>1. m[2] \in Nat /\ (m[1] = f => m[2] <= k)
          BY <2>2, DoneClosed, MergesType
        <4>2. m \in Paid' <=> (m[1] \in DOMAIN done \/ m[1] = f
                \/ \E i \in 1..(n - 1) : m[1] = stack[i].file /\ m[2] < stack[i].next)
          BY <2>1, <2>5, <2>6 DEF Paid
        <4>3. m \in Paid <=> (m[1] \in DOMAIN done
                \/ \E i \in 1..n : m[1] = stack[i].file /\ m[2] < stack[i].next)
          BY <2>4 DEF Paid
        <4>4. (\E i \in 1..n : m[1] = stack[i].file /\ m[2] < stack[i].next)
                <=> (m[1] = f /\ m[2] < k)
                    \/ \E i \in 1..(n - 1) : m[1] = stack[i].file /\ m[2] < stack[i].next
          BY <2>4
        <4>5. QED
          BY <4>2, <4>3, <4>4
      <3>2. ASSUME NEW m \in AllMerges(source), m[1] = f
            PROVE  m \in Paid \/ m = <<f, k>>
        <4>1. /\ m[2] \in Nat /\ m[2] <= k /\ m = <<m[1], m[2]>>
          BY <2>2, <3>2, DoneClosed, MergesType
        <4>2. CASE m[2] = k
          BY <3>2, <4>1, <4>2
        <4>3. CASE m[2] < k
          BY <2>4, <3>2, <4>3 DEF Paid
        <4>4. QED
          BY <2>4, <4>1, <4>2, <4>3
      <3>3. Paid' \subseteq AllMerges(source) /\ Paid \subseteq AllMerges(source)
        BY <2>1 DEF Paid
      <3>4. CASE Imports(f) # <<>>
        <4>1. PICK m : m = <<f, k>>
          OBVIOUS
        <4>2. m[1] = f /\ m[2] = k /\ m \in AllMerges(source) /\ m \notin Paid
          BY <2>2, <3>4, <4>1
        <4>3. Paid' = Paid \cup {m}
          BY <3>1, <3>2, <3>3, <4>1, <4>2
        <4>4. used' = [used EXCEPT !.work = @ + Graph!MergeCost(source, m[1], m[2])]
          BY <2>1, <2>2, <3>4, <4>2
        <4>5. QED
          BY <2>1, <4>2, <4>3, <4>4, PaysFor
      <3>5. CASE Imports(f) = <<>>
        <4>1. \A m \in AllMerges(source) : m[1] # f
          BY <2>2, <3>5, DoneClosed, MergesType
        <4>2. Paid' = Paid
          BY <3>1, <3>3, <4>1
        <4>3. cost = 0
          BY <3>5 DEF cost, f, OwnWork
        <4>4. used \in [LimitNames -> Nat]
          BY DEF IInv, TypeOK
        <4>5. used' = used
          BY <2>1, <4>3, <4>4 DEF LimitNames
        <4>6. QED
          BY <2>1, <4>2, <4>5 DEF Accounted
      <3>6. QED
        BY <3>4, <3>5
    <2>12. QED
      BY <2>1, <2>8, <2>9, <2>10, <2>11 DEF CInv
  <1>3. QED
    BY <1>1, <1>2

\* What ends the walk leaves nothing to keep.
LEMMA EndMeans ==
  ASSUME pc' \in {"done", "failed"}
  PROVE  CInv'
  BY DEF CInv, Walking

\* A step that reads leaves the walk with what it means, or ends it.
LEMMA ReadMeans ==
  ASSUME IInv, CInv, Read
  PROVE  CInv'
  <1>1. PICK c \in Contents(Top.file) :
          \/ ReadFails(c) \/ ReadTooManyBytes(c) \/ ParseFails(c)
          \/ ParsedTooManyNodes(c) \/ Parsed(c)
    BY DEF Read
  <1>2. CASE Parsed(c)
    BY <1>2, ParsedMeans DEF Read
  <1>3. CASE ~ Parsed(c)
    <2>1. pc' = "failed"
      BY <1>1, <1>3 DEF ReadFails, ReadTooManyBytes, ParseFails, ParsedTooManyNodes, Fail
    <2>2. QED
      BY <2>1, EndMeans
  <1>4. QED
    BY <1>2, <1>3

\* Nothing else is done by a step that does nothing.
LEMMA StutterMeans ==
  ASSUME CInv, UNCHANGED vars
  PROVE  CInv'
  <1>1. UNCHANGED <<entry, limits, pc, stack, target, ret, done, source, used, outcome>>
    BY DEF vars
  <1>2. CacheMeans => CacheMeans'
    BY <1>1, CacheMeansSame
  <1>3. FramesMean => FramesMean'
    BY <1>1, FramesMeanSame
  <1>4. EndsMean => EndsMean'
    BY <1>1 DEF EndsMean
  <1>5. Accounted => Accounted'
    <2>1. Paid' = Paid
      BY <1>1 DEF Paid
    <2>2. QED
      BY <1>1, <2>1 DEF Accounted
  <1>6. Walking' = Walking
    BY <1>1 DEF Walking
  <1>7. QED
    BY <1>1, <1>2, <1>3, <1>4, <1>5, <1>6 DEF CInv

\* Every step keeps the invariant.
LEMMA StepMeans ==
  ASSUME IInv, CInv, [Next]_vars
  PROVE  CInv'
  <1>1. CASE Load
    <2>1. CASE LoadCached
      BY <2>1, LoadCachedMeans
    <2>2. CASE Enter
      BY <2>2, EnterMeans
    <2>3. CASE ~ LoadCached /\ ~ Enter
      <3>1. pc' = "failed"
        BY <1>1, <2>3 DEF Load, LoadUnresolvable, LoadOutsideRoot, LoadCycle, LoadTooDeep,
                          LoadTooManyFiles, Refuse, Fail
      <3>2. QED
        BY <3>1, EndMeans
    <2>4. QED
      BY <2>1, <2>2, <2>3
  <1>2. CASE RootNotFound \/ Deliver
    <2>1. pc' \in {"done", "failed"}
      BY <1>2 DEF RootNotFound, Deliver, Refuse, Fail
    <2>2. QED
      BY <2>1, EndMeans
  <1>3. CASE Terminated
    BY <1>3, StutterMeans DEF Terminated
  <1>4. CASE UNCHANGED vars
    BY <1>4, StutterMeans
  <1>5. QED
    BY <1>1, <1>2, <1>3, <1>4, OpenRootMeans, ReadMeans, LoadImportMeans, MergeImportMeans,
       FinishMeans DEF Next

-----------------------------------------------------------------------------
\* What a step answers is so.

\* A diagnostic at the statement that a frame is at, or at none for the entry,
\* names what a defect of the graph is about.
LEMMA Shown ==
  ASSUME IInv, Walking, NEW d \in 0..Len(stack), NEW t,
         d = 0 => t = entry, d > 0 => Scanned(d) /\ At(d, t),
         NEW src2 \in Sources, Extends(source, src2),
         NEW code, Graph!Defective(entry, limits, src2, code, OriginAt(d), t)
  PROVE  Graph!Justified(entry, limits, src2, code, OriginAt(d))
  <1>1. CASE d = 0
    <2>1. OriginAt(d) = Graph!NoOrigin
      BY <1>1 DEF OriginAt, NoOrigin, Graph!NoOrigin
    <2>2. Graph!Named(entry, src2, OriginAt(d)) = t
      BY <1>1, <2>1 DEF Graph!Named
    <2>3. QED
      BY <2>1, <2>2 DEF Graph!Justified
  <1>2. CASE d > 0
    <2>1. d \in 1..Len(stack) /\ d \in DOMAIN stack
      BY <1>2, FrameType
    <2>2. Scanned(d) /\ At(d, t)
      BY <1>2
    <2>3. /\ OriginAt(d) = <<stack[d].file, stack[d].next>>
          /\ OriginAt(d)[1] = stack[d].file /\ OriginAt(d)[2] = stack[d].next
          /\ OriginAt(d) # Graph!NoOrigin
      BY <1>2 DEF OriginAt, Graph!NoOrigin
    <2>4. /\ stack[d].file \in Graph!Known(source) /\ stack[d].file \in File
          /\ stack[d].next \in Nat \ {0}
          /\ stack[d].next \in 1..Len(Graph!Imports(source, stack[d].file))
          /\ t = Graph!Imports(source, stack[d].file)[stack[d].next]
      BY <2>1, <2>2, FrameKnown, FrameImports
    <2>5. /\ stack[d].file \in Graph!Known(src2)
          /\ Graph!Imports(src2, stack[d].file) = Graph!Imports(source, stack[d].file)
      BY <2>4, DoneClosed, KnownGrows
    <2>6. src2[stack[d].file].imports = Graph!Imports(source, stack[d].file)
      BY <2>5, KnownFile
    <2>7. stack[d].next \in DOMAIN src2[stack[d].file].imports
      BY <2>4, <2>6, DoneClosed, ImportsType
    <2>8. stack[d].file \in Graph!Reached(src2, entry)
      <3>1. stack[d].file \in Graph!Reach(source, entry)
        BY <2>1, FramesReached
      <3>2. Graph!Reach(source, entry) \subseteq Graph!Reach(src2, entry)
        BY DoneClosed, ReachGrows
      <3>3. QED
        BY <2>4, <3>1, <3>2 DEF Graph!Reached
    <2>9. Graph!Named(entry, src2, OriginAt(d)) = t
      BY <2>3, <2>4, <2>6 DEF Graph!Named
    <2>10. ~ (OriginAt(d)[2] = 0)
      BY <2>3, <2>4
    <2>11. QED
      BY <2>3, <2>5, <2>7, <2>8, <2>9, <2>10 DEF Graph!Justified
  <1>3. QED
    BY <1>1, <1>2

\* A justified diagnostic is an answer.
LEMMA FailAnswers ==
  ASSUME NEW code, NEW at, Fail(code, at), Graph!Justified(entry, limits, source', code, at)
  PROVE  Answers(entry, limits, source', outcome')
  <1>1. outcome'.status = "failed" /\ outcome'.code = code /\ outcome'.at = at
    BY DEF Fail
  <1>2. QED
    BY <1>1 DEF Answers, Graph!Answers

\* What is read was reached.
LEMMA ReadIsReached ==
  ASSUME IInv, CInv, Walking
  PROVE  Graph!ReadFiles(source) \subseteq Graph!Reached(source, entry)
  <1>1. ASSUME NEW f \in Graph!ReadFiles(source) PROVE f \in Graph!Reached(source, entry)
    <2>1. f \in File /\ source[f] # Unread
      BY DEF Graph!ReadFiles
    <2>2. CASE f \in DOMAIN done
      BY <2>1, <2>2 DEF CInv, CacheMeans, Graph!Reached
    <2>3. CASE f \in Chain
      BY <2>1, <2>3, FrameType, FramesReached DEF Chain, Graph!Reached
    <2>4. QED
      BY <2>1, <2>2, <2>3 DEF IInv, ChainIsRoute, Walking
  <1>2. QED
    BY <1>1

\* What is about to be loaded is imported by the frame at the top, or is the entry.
LEMMA LoadNamed ==
  ASSUME IInv, pc = "load"
  PROVE  /\ Walking /\ Len(stack) \in 0..Len(stack) /\ Len(stack) \in Nat
         /\ Len(stack) = 0 => target = entry
         /\ Len(stack) > 0 => /\ Scanned(Len(stack)) /\ At(Len(stack), target)
                              /\ Len(stack) \in DOMAIN stack /\ Top = stack[Len(stack)]
         /\ target \in Target
         /\ target \in Graph!Reach(source, entry)
  <1>1. Len(stack) \in Nat /\ (Len(stack) = 0 <=> stack = <<>>) /\ target \in Target
        /\ entry \in Target
    BY DEF IInv, TypeOK
  <1>2. /\ Len(stack) = 0 => target = entry
        /\ Len(stack) > 0 => Scanned(Len(stack)) /\ At(Len(stack), target)
    BY <1>1 DEF IInv, ChainIsRoute
  <1>3. Walking
    BY DEF Walking
  <1>4. target \in Graph!Reach(source, entry)
    <2>1. CASE Len(stack) = 0
      BY <1>1, <1>2, <2>1, DoneClosed, Reaching
    <2>2. CASE Len(stack) > 0
      <3>1. Len(stack) \in 1..Len(stack) /\ Len(stack) \in DOMAIN stack
        BY <1>1, <2>2, FrameType
      <3>2. stack[Len(stack)].file \in Graph!Reach(source, entry)
        BY <1>3, <3>1, FramesReached
      <3>3. target \in Graph!ImportedBy(source, stack[Len(stack)].file)
        BY <1>2, <2>2, <3>1, FrameImports
      <3>4. QED
        BY <3>2, <3>3, DoneClosed, Reaching
    <2>3. QED
      BY <1>1, <2>1, <2>2
  <1>5. Len(stack) > 0 => Len(stack) \in DOMAIN stack /\ Top = stack[Len(stack)]
    BY FrameType DEF Top
  <1>6. QED
    BY <1>1, <1>2, <1>3, <1>4, <1>5

\* A refusal at the statement that names what is loaded is an answer when what is
\* named has the defect.
LEMMA LoadRefusal ==
  ASSUME IInv, pc = "load", NEW code, Refuse(code),
         Graph!Defective(entry, limits, source, code, OriginAt(Len(stack)), target)
  PROVE  Answers(entry, limits, source', outcome')
  <1>1. Fail(code, OriginAt(Len(stack))) /\ source' = source
    BY DEF Refuse, ImportOrigin
  <1>2. source \in Sources /\ Extends(source, source)
    BY DoneClosed DEF Extends
  <1>3. Graph!Justified(entry, limits, source, code, OriginAt(Len(stack)))
    BY <1>2, LoadNamed, Shown
  <1>4. QED
    BY <1>1, <1>3, FailAnswers

\* What is on the chain is imported by what it reaches.
LEMMA CycleAnswers ==
  ASSUME IInv, CInv, LoadCycle
  PROVE  Answers(entry, limits, source', outcome')
  <1>1. pc = "load" /\ target \in Chain /\ Refuse("CIRCULAR_IMPORT")
    BY DEF LoadCycle
  <1>2. PICK i \in DOMAIN stack : target = stack[i].file
    BY <1>1 DEF Chain
  <1>3. /\ Len(stack) \in Nat /\ i \in 1..Len(stack) /\ Len(stack) \in i..Len(stack)
        /\ Len(stack) # 0
    BY FrameType
  <1>4. stack[Len(stack)].file \in Graph!Reach(source, target)
    BY <1>1, <1>2, <1>3, LoadNamed, FramesReached
  <1>5. /\ OriginAt(Len(stack)) # Graph!NoOrigin
        /\ OriginAt(Len(stack))[1] = stack[Len(stack)].file
    BY <1>3 DEF OriginAt, Graph!NoOrigin
  <1>6. Graph!Defective(entry, limits, source, "CIRCULAR_IMPORT", OriginAt(Len(stack)), target)
    BY <1>4, <1>5 DEF Graph!Defective
  <1>7. QED
    BY <1>1, <1>6, LoadRefusal

\* The chain and what hangs below its end make a chain that is too long.
LEMMA DeepAnswers ==
  ASSUME IInv, CInv, pc = "load", Refuse("IMPORT_CHAIN_TOO_DEEP"), NEW below \in Nat,
         Len(stack) # 0, below <= MaxImportDepth, Len(stack) + below > MaxImportDepth,
         Graph!Chains(source, target, below) # {}
  PROVE  Answers(entry, limits, source', outcome')
  <1> DEFINE n == Len(stack)
  <1>1. /\ n \in Nat \ {0} /\ Walking /\ n \in DOMAIN stack /\ 1 \in 1..n /\ n \in 1..n
        /\ DOMAIN stack = 1..n
    BY LoadNamed, FrameType
  <1>2. PICK p : p = [j \in 0..(n - 1) |-> stack[1 + j].file]
    OBVIOUS
  <1>3. p \in Graph!Chains(source, entry, n - 1)
    <2>1. stack[1].file = entry
      BY <1>1 DEF IInv, ChainIsRoute, Walking, TypeOK
    <2>2. p \in Graph!Chains(source, stack[1].file, n - 1)
      BY <1>1, <1>2, FramesChain
    <2>3. QED
      BY <2>1, <2>2
  <1>4. p[n - 1] = stack[n].file
    BY <1>1, <1>2
  <1>5. n - 1 \in 0..(MaxImportDepth + 1) /\ below \in 0..(MaxImportDepth + 1)
    <2>1. (n - 1) + stack[n].depth <= MaxImportDepth /\ stack[n].depth \in Nat
      BY <1>1, FrameType DEF IInv, DepthWithinLimit
    <2>2. QED
      BY <1>1, <2>1, LimitAssumption
  <1>6. (n - 1) + 1 + below > MaxImportDepth
    BY <1>1, LimitAssumption
  <1>7. /\ OriginAt(n) # Graph!NoOrigin /\ OriginAt(n)[1] = stack[n].file
    BY <1>1 DEF OriginAt, Graph!NoOrigin
  <1> HIDE DEF n
  <1>8. Graph!TooDeepThrough(source, entry, stack[n].file, target)
    BY <1>3, <1>4, <1>5, <1>6 DEF Graph!TooDeepThrough
  <1>9. Graph!Defective(entry, limits, source, "IMPORT_CHAIN_TOO_DEEP", OriginAt(n), target)
    BY <1>7, <1>8 DEF Graph!Defective
  <1>10. QED
    BY <1>9, LoadRefusal DEF n

\* A file that does not fit under the chain has a chain of imports as deep as was kept.
LEMMA CachedAnswers ==
  ASSUME IInv, CInv, LoadCached, pc' = "failed"
  PROVE  Answers(entry, limits, source', outcome')
  <1>1. /\ pc = "load" /\ target \in DOMAIN done /\ ~ CachedFits(target)
        /\ Refuse("IMPORT_CHAIN_TOO_DEEP")
    BY DEF LoadCached, Return
  <1>2. /\ done[target].depth <= MaxImportDepth /\ done[target].depth \in Nat
        /\ Graph!Chains(source, target, done[target].depth) # {}
    BY <1>1, DoneClosed DEF CInv, Walking, CacheMeans
  <1>3. Len(stack) # 0
    <2>1. stack # <<>>
      BY <1>1 DEF CInv, Walking, EndsMean
    <2>2. QED
      BY <2>1 DEF IInv, TypeOK
  <1>4. Len(stack) + done[target].depth > MaxImportDepth
    BY <1>1, <1>2, LoadNamed, LimitAssumption DEF CachedFits
  <1>5. QED
    BY <1>1, <1>2, <1>3, <1>4, DeepAnswers

\* A chain that is as long as any may be leads nowhere.
LEMMA TooDeepAnswers ==
  ASSUME IInv, CInv, LoadTooDeep
  PROVE  Answers(entry, limits, source', outcome')
  <1>1. pc = "load" /\ Len(stack) > MaxImportDepth /\ Refuse("IMPORT_CHAIN_TOO_DEEP")
    BY DEF LoadTooDeep, ChainTooLong
  <1>2. Graph!Chains(source, target, 0) # {}
    BY <1>1, LoadNamed, DoneClosed, ChainsBegin
  <1>3. Len(stack) \in Nat /\ Len(stack) # 0 /\ Len(stack) + 0 > MaxImportDepth
    BY <1>1, LoadNamed, LimitAssumption
  <1>4. QED
    BY <1>1, <1>2, <1>3, LimitAssumption, DeepAnswers

\* Where another file would be too many, more are reached than may be.
LEMMA FilesAnswer ==
  ASSUME IInv, CInv, LoadTooManyFiles
  PROVE  Answers(entry, limits, source', outcome')
  <1>1. /\ pc = "load" /\ target \in File /\ target \notin Chain \cup DOMAIN done
        /\ Exceeds("files", 1) /\ Refuse("RESOLUTION_FILE_LIMIT")
    BY DEF LoadTooManyFiles, IsNew
  <1>2. Walking /\ Accounted
    BY <1>1 DEF CInv, Walking
  <1>3. source[target] = Unread /\ target \notin Graph!ReadFiles(source)
    BY <1>1, <1>2 DEF IInv, ChainIsRoute, Walking, Graph!ReadFiles
  <1>4. /\ IsFiniteSet(Graph!ReadFiles(source))
        /\ used["files"] = Cardinality(Graph!ReadFiles(source))
        /\ Cardinality(Graph!ReadFiles(source)) \in Nat
    BY <1>1, <1>2, FS_CardinalityType DEF Accounted
  <1>5. PICK S : S = Graph!Reached(source, entry)
    OBVIOUS
  <1>6. IsFiniteSet(S)
    <2>1. entry \in Target
      BY DEF IInv, TypeOK
    <2>2. IsFiniteSet(Graph!Reach(source, entry))
      BY <1>4, <2>1, DoneClosed, ReachFinite
    <2>3. QED
      BY <1>5, <2>2, FS_Subset DEF Graph!Reached
  <1>7. Graph!ReadFiles(source) \cup {target} \subseteq S
    BY <1>1, <1>2, <1>5, ReadIsReached, LoadNamed DEF Graph!Reached
  <1>8. Cardinality(Graph!ReadFiles(source) \cup {target}) = Cardinality(Graph!ReadFiles(source)) + 1
    BY <1>3, <1>4, FS_AddElement
  <1>9. Cardinality(Graph!ReadFiles(source) \cup {target}) <= Cardinality(S)
    BY <1>6, <1>7, FS_Subset
  <1>10. limits["files"] \in Nat /\ 1 > limits["files"] - used["files"]
    BY <1>1, LimitType DEF Exceeds, Limit, LimitNames
  <1>11. Cardinality(S) > limits.files
    <2>1. Cardinality(S) \in Nat
      BY <1>6, FS_CardinalityType
    <2>2. QED
      BY <1>4, <1>8, <1>9, <1>10, <2>1
  <1>12. Graph!Cardinality(Graph!Reached(source, entry)) > limits.files
    BY <1>5, <1>11, SameCardinality
  <1>13. Graph!Defective(entry, limits, source, "RESOLUTION_FILE_LIMIT", OriginAt(Len(stack)), target)
    BY <1>1, <1>3, <1>12 DEF Graph!Defective
  <1>14. QED
    BY <1>1, <1>13, LoadRefusal

\* A load that fails the call answers.
LEMMA LoadAnswers ==
  ASSUME IInv, CInv, Load, pc' = "failed"
  PROVE  Answers(entry, limits, source', outcome')
  <1>1. CASE LoadUnresolvable
    <2>1. Graph!Defective(entry, limits, source, "IMPORT_NOT_FOUND", OriginAt(Len(stack)), target)
      BY <1>1 DEF LoadUnresolvable, Graph!Defective
    <2>2. QED
      BY <1>1, <2>1, LoadRefusal DEF LoadUnresolvable
  <1>2. CASE LoadOutsideRoot
    <2>1. Graph!Defective(entry, limits, source, "PATH_OUTSIDE_ROOT", OriginAt(Len(stack)), target)
      BY <1>2 DEF LoadOutsideRoot, Graph!Defective
    <2>2. QED
      BY <1>2, <2>1, LoadRefusal DEF LoadOutsideRoot
  <1>3. ~ Enter
    BY DEF Enter
  <1>4. QED
    BY <1>1, <1>2, <1>3, CachedAnswers, CycleAnswers, TooDeepAnswers, FilesAnswer DEF Load

\* The file at the top of the chain is imported by the frame below, or is the entry.
LEMMA TopNamed ==
  ASSUME IInv, pc \in {"read", "scan"}
  PROVE  /\ Walking /\ Len(stack) - 1 \in 0..Len(stack) /\ stack # <<>>
         /\ Len(stack) - 1 = 0 => Top.file = entry
         /\ Len(stack) - 1 > 0 => /\ Scanned(Len(stack) - 1)
                                  /\ At(Len(stack) - 1, Top.file)
  <1>1. Walking /\ stack # <<>>
    BY DEF IInv, ChainIsRoute, Walking
  <1>2. Len(stack) \in Nat \ {0}
    BY <1>1 DEF IInv, TypeOK
  <1>3. Len(stack) - 1 = 0 => Top.file = entry
    <2>1. stack[1].file = entry
      BY <1>1 DEF IInv, ChainIsRoute, Walking
    <2>2. Len(stack) - 1 = 0 => Len(stack) = 1
      BY <1>2
    <2>3. QED
      BY <2>1, <2>2 DEF Top
  <1>4. ASSUME Len(stack) - 1 > 0
        PROVE  Scanned(Len(stack) - 1) /\ At(Len(stack) - 1, Top.file)
    <2>1. PICK i : i = Len(stack) - 1
      OBVIOUS
    <2>2. i \in 1..(Len(stack) - 1) /\ i + 1 = Len(stack)
      BY <1>2, <1>4, <2>1
    <2>3. Scanned(i) /\ At(i, stack[i + 1].file)
      BY <1>1, <2>2 DEF IInv, ChainIsRoute, Walking
    <2>4. QED
      BY <2>1, <2>2, <2>3 DEF Top
  <1>5. QED
    BY <1>1, <1>2, <1>3, <1>4

\* A refusal at the statement that names the file at the top is an answer when the
\* file has the defect.
LEMMA TopRefusal ==
  ASSUME IInv, pc \in {"read", "scan"}, NEW code, Fail(code, OwnOrigin),
         source' \in Sources, Extends(source, source'),
         Graph!Defective(entry, limits, source', code, OwnOrigin, Top.file)
  PROVE  Answers(entry, limits, source', outcome')
  <1>1. PICK src2 : src2 = source'
    OBVIOUS
  <1>2. PICK d : d = Len(stack) - 1
    OBVIOUS
  <1>3. OwnOrigin = OriginAt(d)
    BY <1>2 DEF OwnOrigin
  <1>4. /\ Walking /\ d \in 0..Len(stack)
        /\ d = 0 => Top.file = entry
        /\ d > 0 => Scanned(d) /\ At(d, Top.file)
    BY <1>2, TopNamed
  <1>5. Graph!Justified(entry, limits, src2, code, OriginAt(d))
    BY <1>1, <1>3, <1>4, Shown
  <1>6. QED
    BY <1>1, <1>3, <1>5, FailAnswers

\* What a read finds, and what it adds to what was read.
LEMMA ReadFinds ==
  ASSUME IInv, CInv, pc = "read", NEW c \in Contents(Top.file), Reading(c)
  PROVE  /\ source' \in Sources /\ Extends(source, source')
         /\ c \in Source /\ Top.file \in File /\ source'[Top.file] = c
         /\ Top.file \in Graph!ReadFiles(source')
         /\ HasBytes(c) => Graph!Bytes(source') = used["bytes"] + c.bytes
         /\ c.outcome = "document" => Graph!Nodes(source') = used["nodes"] + c.nodes
         /\ used \in [LimitNames -> Nat] /\ limits \in [LimitNames -> Nat]
         /\ c.bytes \in Nat /\ c.nodes \in Nat
  <1>1. Accounted
    BY DEF CInv, Walking
  <1>2. IsFiniteSet(Graph!ReadFiles(source))
    BY <1>1 DEF Accounted
  <1>3. used["bytes"] = Graph!Bytes(source) /\ used["nodes"] = Graph!Nodes(source)
    BY <1>1 DEF Accounted
  <1>4. used \in [LimitNames -> Nat] /\ limits \in [LimitNames -> Nat]
    BY DEF IInv, TypeOK
  <1>5. c \in Source
    BY <1>2, TopIsRead
  <1>6. c.bytes \in Nat /\ c.nodes \in Nat
    BY <1>5 DEF Source
  <1>7. QED
    BY <1>2, <1>3, <1>4, <1>6, TopIsRead

\* Failures to get a file's bytes, and failures of what they are.
LEMMA UnreadAnswers ==
  ASSUME IInv, CInv, pc = "read", NEW c \in Contents(Top.file), Reading(c), ~ HasBytes(c),
         NEW code, Fail(code, OwnOrigin),
         code = "IMPORT_NOT_FOUND" \/ (code = "SYSTEM" /\ OwnOrigin = NoOrigin)
  PROVE  Answers(entry, limits, source', outcome')
  <1>1. Top.file \in Graph!ReadFiles(source') /\ source'[Top.file].outcome \in Graph!NoBytes
    BY ReadFinds DEF HasBytes, Graph!NoBytes
  <1>2. CASE code = "IMPORT_NOT_FOUND"
    <2>1. Graph!Defective(entry, limits, source', code, OwnOrigin, Top.file)
      BY <1>1, <1>2 DEF Graph!Defective
    <2>2. QED
      BY <2>1, ReadFinds, TopRefusal
  <1>3. CASE code = "SYSTEM" /\ OwnOrigin = NoOrigin
    <2>1. Graph!Defective(entry, limits, source', code, OwnOrigin, Top.file)
      BY <1>1, <1>3 DEF Graph!Defective, Graph!NoOrigin, NoOrigin
    <2>2. QED
      BY <2>1, ReadFinds, TopRefusal
  <1>4. QED
    BY <1>2, <1>3

\* A file that Zig cannot read to its end, or that is too large, is there to be seen.
LEMMA TooLargeAnswers ==
  ASSUME IInv, CInv, pc = "read", NEW c \in Contents(Top.file), Reading(c),
         c.outcome \in {"unreadable", "oversize"}, Fail("FILE_TOO_LARGE", OwnOrigin)
  PROVE  Answers(entry, limits, source', outcome')
  <1>1. /\ Top.file \in Graph!ReadFiles(source')
        /\ source'[Top.file].outcome \in {"unreadable", "oversize"}
    BY ReadFinds
  <1>2. Graph!Defective(entry, limits, source', "FILE_TOO_LARGE", OwnOrigin, Top.file)
    BY <1>1 DEF Graph!Defective
  <1>3. QED
    BY <1>2, ReadFinds, TopRefusal

\* The bytes that were read, with these, are more than may be.
LEMMA BytesAnswer ==
  ASSUME IInv, CInv, pc = "read", NEW c \in Contents(Top.file), ReadTooManyBytes(c)
  PROVE  Answers(entry, limits, source', outcome')
  <1>1. /\ Reading(c) /\ HasBytes(c) /\ c.bytes > limits["bytes"] - used["bytes"]
        /\ Fail("RESOLUTION_BYTE_LIMIT", OwnOrigin)
    BY DEF ReadTooManyBytes, Exceeds, Limit
  <1>2. Graph!Bytes(source') = used["bytes"] + c.bytes
    BY <1>1, ReadFinds
  <1>3. limits["bytes"] \in Nat /\ used["bytes"] \in Nat /\ c.bytes \in Nat
    BY <1>1, ReadFinds DEF LimitNames
  <1>4. Graph!Bytes(source') > limits.bytes
    BY <1>1, <1>2, <1>3
  <1>5. Graph!Defective(entry, limits, source', "RESOLUTION_BYTE_LIMIT", OwnOrigin, Top.file)
    BY <1>1, <1>4, ReadFinds DEF Graph!Defective
  <1>6. QED
    BY <1>1, <1>5, ReadFinds, TopRefusal

\* And so are the nodes.
LEMMA NodesAnswer ==
  ASSUME IInv, CInv, pc = "read", NEW c \in Contents(Top.file), ParsedTooManyNodes(c)
  PROVE  Answers(entry, limits, source', outcome')
  <1>1. /\ Reading(c) /\ c.outcome = "document" /\ c.nodes > limits["nodes"] - used["nodes"]
        /\ Fail("RESOLUTION_NODE_LIMIT", OwnOrigin)
    BY DEF ParsedTooManyNodes, Exceeds, Limit
  <1>2. Graph!Nodes(source') = used["nodes"] + c.nodes
    BY <1>1, ReadFinds
  <1>3. limits["nodes"] \in Nat /\ used["nodes"] \in Nat /\ c.nodes \in Nat
    BY <1>1, ReadFinds DEF LimitNames
  <1>4. Graph!Nodes(source') > limits.nodes
    BY <1>1, <1>2, <1>3
  <1>5. Graph!Defective(entry, limits, source', "RESOLUTION_NODE_LIMIT", OwnOrigin, Top.file)
    BY <1>1, <1>4, ReadFinds DEF Graph!Defective
  <1>6. QED
    BY <1>1, <1>5, ReadFinds, TopRefusal

\* What does not parse is anchored in the file itself.
LEMMA ParseAnswers ==
  ASSUME IInv, CInv, pc = "read", NEW c \in Contents(Top.file), ParseFails(c)
  PROVE  Answers(entry, limits, source', outcome')
  <1>1. PICK code : code = IF c.outcome = "oversize" THEN "FILE_TOO_LARGE" ELSE "SYNTAX"
    OBVIOUS
  <1>2. /\ Reading(c) /\ Fail(code, Inside(Top.file))
        /\ \/ c.outcome = "oversize" /\ code = "FILE_TOO_LARGE"
           \/ c.outcome = "invalid" /\ code = "SYNTAX"
    BY <1>1 DEF ParseFails
  <1>3. source'[Top.file] = c
    BY <1>2, ReadFinds
  <1>4. /\ Inside(Top.file) # Graph!NoOrigin /\ Inside(Top.file)[2] = 0
        /\ Inside(Top.file)[1] = Top.file
    BY DEF Inside, Graph!NoOrigin
  <1>5. Graph!Justified(entry, limits, source', code, Inside(Top.file))
    BY <1>2, <1>3, <1>4 DEF Graph!Justified
  <1>6. QED
    BY <1>2, <1>5, FailAnswers

\* A read that fails the call answers.
LEMMA ReadAnswers ==
  ASSUME IInv, CInv, pc = "read", NEW c \in Contents(Top.file),
         ReadFails(c) \/ ReadTooManyBytes(c) \/ ParseFails(c) \/ ParsedTooManyNodes(c)
  PROVE  Answers(entry, limits, source', outcome')
  <1>1. CASE ReadFails(c)
    BY <1>1, UnreadAnswers DEF ReadFails
  <1>2. QED
    BY <1>1, BytesAnswer, ParseAnswers, NodesAnswer

\* Where another merge would be too much work, the merges of what was read are.
LEMMA WorkOver ==
  ASSUME IInv, Accounted, NEW m \in AllMerges(source), m \notin Paid,
         Exceeds("work", Graph!MergeCost(source, m[1], m[2]))
  PROVE  Graph!Work(source) > limits.work
  <1>1. PICK B : B = Paid
    OBVIOUS
  <1>2. PICK A : A = AllMerges(source)
    OBVIOUS
  <1>3. PICK amount : amount = Amounts(source, A)
    OBVIOUS
  <1>4. PICK part : part = Amounts(source, B \cup {m})
    OBVIOUS
  <1>5. PICK paid : paid = Amounts(source, B)
    OBVIOUS
  <1>6. /\ IsFiniteSet(A) /\ IsFiniteSet(B) /\ B \cup {m} \subseteq A /\ m \notin B
        /\ \A x \in A : Graph!MergeCost(source, x[1], x[2]) \in Nat
    BY <1>1, <1>2, PaidType, DoneClosed, MergesType DEF Accounted
  <1>7. /\ amount \in [A -> Nat] /\ part \in [B \cup {m} -> Nat] /\ paid \in [B -> Nat]
        /\ \A x \in B \cup {m} : part[x] = amount[x]
        /\ \A x \in B : part[x] = paid[x]
        /\ part[m] = Graph!MergeCost(source, m[1], m[2])
    BY <1>3, <1>4, <1>5, <1>6 DEF Amounts
  <1>8. Graph!Sum(part) = Graph!Sum(paid) + part[m]
    <2>1. OneMore(B, paid, m, part)
      BY <1>6, <1>7 DEF OneMore
    <2>2. QED
      BY <2>1, SumPlus
  <1>9. PICK C : C = B \cup {m}
    OBVIOUS
  <1>10. Graph!Sum(part) <= Graph!Sum(amount)
    BY <1>6, <1>7, <1>9, SumLeq
  <1>11. Graph!Sum(amount) \in Nat /\ Graph!Sum(paid) \in Nat /\ part[m] \in Nat
    BY <1>6, <1>7, SumType
  <1>12. Graph!Sum(paid) = used["work"]
    BY <1>1, <1>5 DEF Accounted
  <1>13. part[m] > limits["work"] - used["work"]
    BY <1>7 DEF Exceeds, Limit
  <1>14. limits["work"] \in Nat /\ used["work"] \in Nat
    BY DEF IInv, TypeOK, LimitNames
  <1>15. Graph!Work(source) = Graph!Sum(amount)
    BY <1>2, <1>3, Zenon DEF Graph!Work, Amounts, AllMerges
  <1>16. QED
    BY <1>8, <1>10, <1>11, <1>12, <1>13, <1>14, <1>15

\* A merge that is refused answers.
LEMMA MergeAnswers ==
  ASSUME IInv, CInv, MergeImport, pc' = "failed"
  PROVE  Answers(entry, limits, source', outcome')
  <1>1. /\ pc = "return" /\ stack # <<>>
        /\ Exceeds("work", MergeWork(Top.merged, ret.doc)) /\ Refuse("RESOLUTION_WORK_LIMIT")
    BY DEF MergeImport
  <1>2. Walking /\ Accounted
    BY <1>1 DEF CInv, Walking
  <1>3. PICK m : m = <<Top.file, Top.next>>
    OBVIOUS
  <1>4. m[1] = Top.file /\ m[2] = Top.next
    BY <1>3
  <1>5. /\ m \in AllMerges(source) /\ m \notin Paid
        /\ Graph!MergeCost(source, m[1], m[2]) = MergeWork(Top.merged, ret.doc)
        /\ ret.file \in DOMAIN done
    BY <1>1, <1>3, <1>4, ImportCosts
  <1>6. Graph!Work(source) > limits.work
    BY <1>1, <1>2, <1>5, WorkOver
  <1>7. PICK d : d = Len(stack)
    OBVIOUS
  <1>8. d \in 0..Len(stack) /\ d # 0 /\ Scanned(d) /\ At(d, ret.file)
    BY <1>1, <1>7 DEF IInv, TypeOK, ChainIsRoute
  <1>9. /\ source' = source /\ source \in Sources /\ Extends(source, source)
        /\ Fail("RESOLUTION_WORK_LIMIT", OriginAt(d))
    BY <1>1, <1>7, DoneClosed DEF Refuse, ImportOrigin, Extends
  <1>10. ret.file \in Graph!Known(source)
    BY <1>5, DoneClosed
  <1>11. Graph!Defective(entry, limits, source, "RESOLUTION_WORK_LIMIT", OriginAt(d), ret.file)
    BY <1>6, <1>10 DEF Graph!Defective
  <1>12. Graph!Justified(entry, limits, source, "RESOLUTION_WORK_LIMIT", OriginAt(d))
    BY <1>2, <1>8, <1>9, <1>11, Shown
  <1>13. QED
    BY <1>9, <1>12, FailAnswers

\* So does a file's own merge.
LEMMA FinishAnswers ==
  ASSUME IInv, CInv, Finish, pc' = "failed"
  PROVE  Answers(entry, limits, source', outcome')
  <1> DEFINE f == Top.file
             cost == OwnWork(f, Top.merged)
  <1>1. /\ pc = "scan" /\ Top.next > Len(Imports(f)) /\ Exceeds("work", cost)
        /\ Fail("RESOLUTION_WORK_LIMIT", OwnOrigin) /\ source' = source
    BY DEF Finish, Return
  <1>2. Accounted
    BY <1>1 DEF CInv, Walking
  <1>3. Imports(f) # <<>>
    <2>1. used["work"] <= limits["work"] /\ limits["work"] \in Nat /\ used["work"] \in Nat
      BY DEF IInv, TypeOK, WithinLimits, Limit, LimitNames
    <2>2. ~ Exceeds("work", 0)
      BY <2>1 DEF Exceeds, Limit
    <2>3. QED
      BY <1>1, <2>2 DEF OwnWork
  <1>4. PICK m : m = <<Top.file, Top.next>>
    OBVIOUS
  <1>5. m[1] = f /\ m[2] = Top.next
    BY <1>4
  <1>6. /\ m \in AllMerges(source) /\ m \notin Paid /\ f \in Graph!Known(source)
        /\ Graph!MergeCost(source, m[1], m[2]) = cost
    BY <1>1, <1>3, <1>4, <1>5, OwnCosts
  <1>7. Graph!Work(source) > limits.work
    BY <1>1, <1>2, <1>6, WorkOver
  <1>8. Graph!Defective(entry, limits, source, "RESOLUTION_WORK_LIMIT", OwnOrigin, f)
    BY <1>6, <1>7 DEF Graph!Defective
  <1>9. source' \in Sources /\ Extends(source, source')
    BY <1>1, DoneClosed DEF Extends
  <1>10. QED
    BY <1>1, <1>8, <1>9, TopRefusal

\* A root that is not there leaves nothing read.
LEMMA RootAnswers ==
  ASSUME IInv, CInv, RootNotFound
  PROVE  Answers(entry, limits, source', outcome')
  <1>1. pc = "open" /\ Refuse("IMPORT_NOT_FOUND")
    BY DEF RootNotFound
  <1>2. stack = <<>> /\ Walking /\ EndsMean /\ source' = source
    BY <1>1 DEF IInv, ChainIsRoute, CInv, Walking, Refuse
  <1>3. Graph!ReadFiles(source) = {}
    BY <1>1, <1>2 DEF EndsMean, Graph!ReadFiles
  <1>4. Fail("IMPORT_NOT_FOUND", Graph!NoOrigin)
    BY <1>1, <1>2 DEF Refuse, ImportOrigin, OriginAt, NoOrigin, Graph!NoOrigin
  <1>5. Graph!Defective(entry, limits, source, "IMPORT_NOT_FOUND", Graph!NoOrigin, entry)
    BY <1>3 DEF Graph!Defective
  <1>6. Graph!Justified(entry, limits, source, "IMPORT_NOT_FOUND", Graph!NoOrigin)
    BY <1>5 DEF Graph!Justified, Graph!Named
  <1>7. QED
    BY <1>2, <1>4, <1>6, FailAnswers

\* What is delivered is the meaning of a graph that is all read, acyclic and within
\* every limit.
LEMMA DeliverAnswers ==
  ASSUME IInv, CInv, Deliver
  PROVE  Answers(entry, limits, source', outcome')
  <1>1. /\ pc = "return" /\ stack = <<>> /\ source' = source
        /\ outcome' = [status |-> "done", doc |-> Materialize(ret.doc)]
    BY DEF Deliver
  <1>2. CacheMeans /\ EndsMean /\ Accounted
    BY <1>1 DEF CInv, Walking
  <1>3. ret.file = entry /\ entry \in DOMAIN done
    BY <1>1 DEF IInv, ChainIsRoute
  <1>4. PICK S : S = DOMAIN done
    OBVIOUS
  <1>5. PICK rank : rank = [f \in S |-> done[f].depth]
    OBVIOUS
  <1>6. /\ source \in Sources /\ S \subseteq Graph!Known(source) /\ S \subseteq File
        /\ S \in SUBSET Target /\ entry \in S
        /\ rank \in [S -> Nat]
        /\ \A f \in S : \A g \in Graph!ImportedBy(source, f) : g \in S /\ rank[g] < rank[f]
        /\ \A f \in S : rank[f] <= MaxImportDepth
    BY <1>2, <1>3, <1>4, <1>5, DoneClosed DEF Target, CacheMeans
  <1>7. Graph!Reach(source, entry) \subseteq S
    BY <1>6, Reaching DEF Graph!Closed
  <1>8. \A f \in Graph!Reached(source, entry) : ~ Graph!OnCycle(source, f)
    <2>1. ASSUME NEW f \in S, NEW g \in Graph!ImportedBy(source, f),
                 f \in Graph!Reach(source, g)
          PROVE  FALSE
      <3>1. PICK T : T = {h \in S : rank[h] <= rank[g]}
        OBVIOUS
      <3>2. g \in S /\ rank[g] < rank[f] /\ rank[g] \in Nat /\ rank[f] \in Nat
        BY <1>6
      <3>3. g \in T /\ f \notin T /\ T \in SUBSET Target
        BY <1>6, <3>1, <3>2
      <3>4. Graph!Closed(source, T)
        <4>1. ASSUME NEW h \in T, NEW e \in Graph!ImportedBy(source, h) PROVE e \in T
          <5>1. h \in S /\ rank[h] <= rank[g]
            BY <3>1
          <5>2. e \in S /\ rank[e] < rank[h] /\ rank[e] \in Nat /\ rank[h] \in Nat
            BY <1>6, <5>1
          <5>3. QED
            BY <3>1, <3>2, <5>1, <5>2
        <4>2. QED
          BY <4>1 DEF Graph!Closed
      <3>5. Graph!Reach(source, g) \subseteq T
        BY <1>6, <3>3, <3>4, Reaching
      <3>6. QED
        BY <2>1, <3>3, <3>5
    <2>2. QED
      BY <1>7, <2>1 DEF Graph!OnCycle, Graph!Reached
  <1>9. Graph!Chains(source, entry, MaxImportDepth + 1) = {}
    <2>1. MaxImportDepth + 1 \in Nat /\ MaxImportDepth + 1 > rank[entry] /\ rank[entry] \in Nat
      BY <1>6, LimitAssumption
    <2>2. QED
      BY <1>6, <2>1, ChainsRanked
  <1>10. \A name \in LimitNames :
           used[name] <= limits[name] /\ used[name] \in Nat /\ limits[name] \in Nat
    BY DEF IInv, TypeOK, WithinLimits, Limit
  <1>11. Graph!Cardinality(Graph!Reached(source, entry)) <= limits.files
    <2>1. Graph!Reached(source, entry) \subseteq Graph!ReadFiles(source)
      BY <1>6, <1>7, KnownFile DEF Graph!Reached
    <2>2. /\ IsFiniteSet(Graph!ReadFiles(source))
          /\ used["files"] = Cardinality(Graph!ReadFiles(source)) + 0
      BY <1>1, <1>2 DEF Accounted
    <2>3. /\ Cardinality(Graph!Reached(source, entry)) <= Cardinality(Graph!ReadFiles(source))
          /\ Cardinality(Graph!ReadFiles(source)) \in Nat
          /\ Cardinality(Graph!Reached(source, entry)) \in Nat
      BY <2>1, <2>2, FS_Subset, FS_CardinalityType
    <2>4. used["files"] <= limits["files"] /\ limits["files"] \in Nat
      BY <1>10 DEF LimitNames
    <2>5. QED
      BY <2>2, <2>3, <2>4, SameCardinality
  <1>12. Graph!Bytes(source) <= limits.bytes /\ Graph!Nodes(source) <= limits.nodes
    BY <1>2, <1>10 DEF Accounted, LimitNames
  <1>13. Graph!Work(source) <= limits.work
    <2>1. Graph!Known(source) \subseteq DOMAIN done
      <3>1. ASSUME NEW f \in Graph!Known(source) PROVE f \in DOMAIN done
        <4>1. f \in File /\ source[f] # Unread
          BY DoneClosed, KnownFile
        <4>2. Chain = {}
          BY <1>1 DEF Chain
        <4>3. QED
          BY <1>1, <4>1, <4>2 DEF IInv, ChainIsRoute
      <3>2. QED
        BY <3>1
    <2>2. Paid = AllMerges(source)
      BY <2>1, DoneClosed, MergesType DEF Paid
    <2>3. used["work"] = Graph!Sum(Amounts(source, AllMerges(source)))
      BY <1>2, <2>2 DEF Accounted
    <2>4. Graph!Work(source) = Graph!Sum(Amounts(source, AllMerges(source)))
      BY Zenon DEF Graph!Work, Amounts, AllMerges
    <2>5. QED
      BY <1>10, <2>3, <2>4 DEF LimitNames
  <1>14. Graph!Sound(entry, limits, source)
    BY <1>6, <1>7, <1>8, <1>9, <1>11, <1>12, <1>13 DEF Graph!Sound
  <1>15. Materialize(ret.doc) = Graph!Meaning(source, entry)
    BY <1>1, <1>2, <1>3 DEF EndsMean, CacheMeans, Graph!Meaning
  <1>16. outcome'.status = "done" /\ outcome'.doc = Graph!Meaning(source, entry)
    BY <1>1, <1>15
  <1>17. QED
    BY <1>1, <1>14, <1>16 DEF Answers, Graph!Answers

-----------------------------------------------------------------------------
\* The walk implements the contract.

\* A file that is reached is read.
Learns ==
  \E f \in File :
    /\ source[f] = Unread
    /\ source'[f] \in Contents(f)
    /\ \A g \in File \ {f} : source'[g] = source[g]
    /\ f \in Reach(source, entry)

\* A step of the contract, said of what the walk keeps.
Answered ==
  /\ outcome = Pending
  /\ UNCHANGED source \/ Learns
  /\ Answers(entry, limits, source', outcome')
  /\ UNCHANGED <<entry, limits>>

\* A read learns what the file at the top of the chain holds.
LEMMA ReadLearns ==
  ASSUME IInv, pc = "read", NEW c \in Contents(Top.file), Reading(c)
  PROVE  Learns
  <1>1. /\ Top.file \in File /\ source[Top.file] = Unread /\ source'[Top.file] = c
        /\ \A g \in File \ {Top.file} : source'[g] = source[g]
    BY ReadingOnlyTop
  <1>2. Top.file \in Graph!Reach(source, entry)
    <2>1. Len(stack) \in 1..Len(stack) /\ Walking
      BY TopNamed, FrameType DEF Top
    <2>2. QED
      BY <2>1, FramesReached DEF Top
  <1>3. QED
    BY <1>1, <1>2 DEF Learns, Reach

\* While the call is under way, it has nothing to answer for.
LEMMA WalkingAnswers ==
  ASSUME CInv', pc' \notin {"done", "failed"}
  PROVE  Answers(entry, limits, source', outcome')
  <1>1. outcome' = Graph!Pending
    BY DEF CInv, Walking, Pending, Graph!Pending
  <1>2. QED
    BY <1>1 DEF Answers, Graph!Answers

\* The call's outcome is known when it has ended, and not before.
LEMMA StepAnswers ==
  ASSUME IInv, CInv, Next, ~ UNCHANGED vars
  PROVE  Answered
  <1>1. CInv'
    BY StepMeans
  <1>2. pc \notin {"done", "failed"}
    BY DEF Next, OpenRoot, RootNotFound, Load, LoadUnresolvable, LoadOutsideRoot, LoadCached,
           LoadCycle, LoadTooDeep, LoadTooManyFiles, Enter, Read, LoadImport, MergeImport,
           Finish, Deliver, Terminated
  <1>3. outcome = Pending
    BY <1>2 DEF CInv, Walking
  <1>4. UNCHANGED <<entry, limits>>
    BY DEF Next, OpenRoot, RootNotFound, Load, LoadUnresolvable, LoadOutsideRoot, LoadCached,
           LoadCycle, LoadTooDeep, LoadTooManyFiles, Enter, Read, ReadFails, ReadTooManyBytes,
           ParseFails, ParsedTooManyNodes, Parsed, LoadImport, MergeImport,
           Finish, Deliver, Terminated, Refuse, Fail
  <1>5. UNCHANGED source \/ Learns
    <2>1. CASE Read
      <3>1. PICK c \in Contents(Top.file) : Reading(c)
        BY <2>1 DEF Read, ReadFails, ReadTooManyBytes, ParseFails, ParsedTooManyNodes, Parsed
      <3>2. QED
        BY <2>1, <3>1, ReadLearns DEF Read
    <2>2. CASE ~ Read
      BY <2>2 DEF Next, OpenRoot, RootNotFound, Load, LoadUnresolvable, LoadOutsideRoot,
           LoadCached, LoadCycle, LoadTooDeep, LoadTooManyFiles, Enter, LoadImport, MergeImport,
           Finish, Deliver, Terminated, Refuse
    <2>3. QED
      BY <2>1, <2>2
  <1>6. Answers(entry, limits, source', outcome')
    <2>1. CASE pc' \notin {"done", "failed"}
      BY <1>1, <2>1, WalkingAnswers
    <2>2. CASE Deliver
      BY <2>2, DeliverAnswers
    <2>3. CASE pc' = "done" /\ ~ Deliver
      BY <2>3 DEF Next, OpenRoot, RootNotFound, Load, LoadUnresolvable, LoadOutsideRoot,
           LoadCached, LoadCycle, LoadTooDeep, LoadTooManyFiles, Enter, Read, ReadFails,
           ReadTooManyBytes, ParseFails, ParsedTooManyNodes, Parsed, LoadImport, MergeImport,
           Finish, Terminated, Refuse, Fail, Return
    <2>4. CASE pc' = "failed"
      <3>1. CASE Read
        <4>1. PICK c \in Contents(Top.file) :
                \/ ReadFails(c) \/ ReadTooManyBytes(c) \/ ParseFails(c)
                \/ ParsedTooManyNodes(c) \/ Parsed(c)
          BY <3>1 DEF Read
        <4>2. ~ Parsed(c)
          BY <2>4 DEF Parsed
        <4>3. QED
          BY <3>1, <4>1, <4>2, ReadAnswers DEF Read
      <3>2. ~ OpenRoot /\ ~ LoadImport /\ ~ Deliver /\ ~ Terminated
        BY <1>2, <2>4 DEF OpenRoot, LoadImport, Deliver, Terminated
      <3>3. QED
        BY <2>4, <3>1, <3>2, RootAnswers, LoadAnswers, MergeAnswers, FinishAnswers DEF Next
    <2>5. QED
      BY <2>1, <2>2, <2>3, <2>4
  <1>7. QED
    BY <1>3, <1>4, <1>5, <1>6 DEF Answered

\* The invariant of the walk and its meaning, together.
THEOREM ContractInductive == Spec => [](IInv /\ CInv)
  <1>1. Init => IInv /\ CInv
    BY InitInv, StartMeans DEF Init
  <1>2. IInv /\ CInv /\ [Next]_vars => (IInv /\ CInv)'
    BY StepInv, StepMeans
  <1>3. QED
    BY <1>1, <1>2, PTL DEF Spec

\* A call of resolve_with implements the contract of module ResolveContract: a
\* document is the meaning of a whole acyclic graph within every limit, and a
\* diagnostic names a defect of the graph and a statement that shows it.
THEOREM ContractKept == Spec => Contract!Spec
  <1>1. Init => Contract!Init
    <2>1. SUFFICES ASSUME Init PROVE Contract!Init
      OBVIOUS
    <2>2. /\ entry \in File \cup {Missing, Outside} /\ limits \in [LimitNames -> Nat]
          /\ source = [f \in File |-> Unread] /\ outcome = Pending
      <3>1. TypeOK /\ Start
        BY <2>1, InitInv DEF Init, IInv
      <3>2. entry \in Target /\ limits \in [LimitNames -> Nat]
        BY <3>1 DEF TypeOK
      <3>3. QED
        BY <3>1, <3>2 DEF Start, Target
    <2>3. QED
      BY <2>2 DEF Contract!Init, LimitNames
  <1>2. IInv /\ CInv /\ [Next]_vars => [Contract!Next]_(Contract!vars)
    <2>1. SUFFICES ASSUME IInv, CInv, [Next]_vars
                   PROVE  Contract!Next \/ UNCHANGED Contract!vars
      OBVIOUS
    <2>2. CASE UNCHANGED vars
      BY <2>2 DEF vars, Contract!vars
    <2>3. CASE ~ UNCHANGED vars
      <3>1. Answered
        BY <2>1, <2>3, StepAnswers
      <3>2. QED
        BY <3>1 DEF Answered, Learns, Contract!Next, Contract!Learn
    <2>4. QED
      BY <2>2, <2>3
  <1>3. QED
    BY <1>1, <1>2, ContractInductive, PTL DEF Spec, Contract!Spec

-----------------------------------------------------------------------------
(* The other ports *)

\* A read that fails, and charges nothing, whatever diagnostic it gives.
LEMMA UnchargedReadInv ==
  ASSUME IInv, pc = "read", NEW c \in Contents(Top.file), Reading(c),
         NEW code, NEW at, Fail(code, at), UNCHANGED used
  PROVE  IInv'
  <1>1. used' \in [LimitNames -> Nat] /\ WithinLimits'
    BY DEF IInv, TypeOK, Fail, WithinLimits, Limit
  <1>2. QED
    BY <1>1, ReadFailedInv

\* The depth that Go looks up is the depth that the load returned.
LEMMA LookedUpIsReturned ==
  ASSUME IInv, GoMergeImport
  PROVE  MergeImport
  <1>1. ret.depth = done[ret.file].depth /\ pc = "return" /\ stack # <<>>
    BY DEF IInv, ChainIsRoute, GoMergeImport
  <1>2. [Advanced EXCEPT !.depth = Deeper(Top.depth, DepthOf(ret.file))] = Advanced
    BY <1>1 DEF Advanced, DepthOf
  <1>3. QED
    BY <1>2 DEF GoMergeImport, MergeImport

\* The read of the Go port keeps the invariant.
LEMMA GoReadInv ==
  ASSUME IInv, GoRead
  PROVE  IInv'
  <1>1. pc = "read"
    BY DEF GoRead
  <1>2. PICK c \in Contents(Top.file) :
          \/ GoReadFails(c) \/ ReadTooManyBytes(c) \/ ParseFails(c)
          \/ ParsedTooManyNodes(c) \/ Parsed(c)
    BY DEF GoRead
  <1>3. CASE GoReadFails(c)
    BY <1>1, <1>3, UnchargedReadInv DEF GoReadFails, FailUnwrapped
  <1>4. CASE ~ GoReadFails(c)
    <2>1. Read
      BY <1>1, <1>2, <1>4 DEF Read
    <2>2. QED
      BY <2>1, ReadInv
  <1>5. QED
    BY <1>3, <1>4

\* The look-up of an import in the Go port keeps the invariant.
LEMMA GoLoadInv ==
  ASSUME IInv, GoLoad
  PROVE  IInv'
  <1>1. CASE GoLoadUnresolvable
    BY <1>1, FailInv DEF GoLoadUnresolvable, FailUnwrapped
  <1>2. CASE ~ GoLoadUnresolvable
    <2>1. Load
      BY <1>2 DEF GoLoad, Load
    <2>2. Next
      BY <2>1 DEF Next
    <2>3. QED
      BY <2>2, StepInv
  <1>3. QED
    BY <1>1, <1>2

\* Every step of the Go walk keeps the invariant.
LEMMA GoStepInv ==
  ASSUME IInv, GoNext
  PROVE  IInv'
  <1>1. CASE GoLoad
    BY <1>1, GoLoadInv
  <1>2. CASE GoRead
    BY <1>2, GoReadInv
  <1>3. CASE GoMergeImport
    BY <1>3, LookedUpIsReturned, MergeImportInv
  <1>4. CASE OpenRoot \/ RootNotFound \/ LoadImport \/ Finish \/ Deliver \/ Terminated
    <2>1. Next
      BY <1>4 DEF Next
    <2>2. QED
      BY <2>1, StepInv
  <1>5. QED
    BY <1>1, <1>2, <1>3, <1>4 DEF GoNext

\* The read of the Zig port keeps the invariant.
LEMMA ZigReadInv ==
  ASSUME IInv, ZigRead
  PROVE  IInv'
  <1>1. pc = "read"
    BY DEF ZigRead
  <1>2. PICK c \in Contents(Top.file) :
          \/ OpenFails(c) \/ ReadToEndFails(c) \/ ReadTooManyBytes(c) \/ ParseFails(c)
          \/ ParsedTooManyNodes(c) \/ Parsed(c)
    BY DEF ZigRead
  <1>3. CASE OpenFails(c) \/ ReadToEndFails(c)
    BY <1>1, <1>3, UnchargedReadInv DEF OpenFails, ReadToEndFails
  <1>4. CASE ~ (OpenFails(c) \/ ReadToEndFails(c))
    <2>1. Read
      BY <1>1, <1>2, <1>4 DEF Read
    <2>2. QED
      BY <2>1, ReadInv
  <1>5. QED
    BY <1>3, <1>4

\* Every step of the Zig walk keeps the invariant.
LEMMA ZigStepInv ==
  ASSUME IInv, ZigNext
  PROVE  IInv'
  <1>1. CASE ZigRead
    BY <1>1, ZigReadInv
  <1>2. CASE ~ ZigRead
    <2>1. Next
      BY <1>2 DEF ZigNext, Next
    <2>2. QED
      BY <2>1, StepInv
  <1>3. QED
    BY <1>1, <1>2

\* The Go resolver keeps the invariant of the Rust one, its cache lookups and
\* its unwrapped errors notwithstanding.
THEOREM GoInductive == GoSpec => []IInv
  <1>1. Init => IInv
    BY InitInv
  <1>2. IInv /\ [GoNext]_vars => IInv'
    BY GoStepInv, StutterInv
  <1>3. QED
    BY <1>1, <1>2, PTL DEF GoSpec

\* The Zig resolver keeps it too, with limits taken as they are given.
THEOREM ZigInductive == ZigSpec => []IInv
  <1>1. ZigInit => IInv
    BY StartInv, LimitAssumption DEF ZigInit
  <1>2. IInv /\ [ZigNext]_vars => IInv'
    BY ZigStepInv, StutterInv
  <1>3. QED
    BY <1>1, <1>2, PTL DEF ZigSpec

\* A call is about to begin.
AtStart == Start /\ limits \in [LimitNames -> Nat] /\ options \in Options

\* The limits a port works with are natural numbers.
LEMMA CallType ==
  ASSUME options \in Options, NEW p
  PROVE  Call(p) \in [LimitNames -> Nat]
  BY DefaultsType, LimitAssumption DEF Call

\* The switch to the next port leads to where a call begins.
LEMMA SwitchBegins ==
  ASSUME IInv, options \in Options, Switch
  PROVE  AtStart'
  <1>1. /\ limits' = Call(port') /\ options' = options /\ entry' = entry /\ target' = entry'
        /\ pc' = "open" /\ stack' = <<>> /\ ret' = <<>> /\ done' = [f \in {} |-> <<>>]
        /\ source' = [f \in File |-> Unread] /\ used' = [name \in LimitNames |-> 0]
        /\ outcome' = Pending
    BY DEF Switch
  <1>2. limits' \in [LimitNames -> Nat]
    <2>1. Call(port') \in [LimitNames -> Nat]
      BY DefaultsType, LimitAssumption DEF Call
    <2>2. QED
      BY <1>1, <2>1
  <1>3. entry' \in Target
    BY <1>1 DEF IInv, TypeOK
  <1>4. QED
    BY <1>1, <1>2, <1>3 DEF AtStart, Start

\* A step of the call under way keeps the invariant; the switch to the next port
\* leads to where a call begins.
LEMMA PortsStepInv ==
  ASSUME IInv, options \in Options, [PortsNext]_portVars
  PROVE  AtStart' \/ (IInv' /\ (options \in Options)')
  <1>1. CASE Resolve
    <2>1. options' = options /\ (Next \/ GoNext \/ ZigNext)
      BY <1>1 DEF Resolve, Step
    <2>2. IInv'
      BY <2>1, StepInv, GoStepInv, ZigStepInv
    <2>3. QED
      BY <2>1, <2>2
  <1>2. CASE Switch
    BY <1>2, SwitchBegins
  <1>3. CASE UNCHANGED portVars
    BY <1>3, StutterInv DEF portVars, vars
  <1>4. QED
    BY <1>1, <1>2, <1>3 DEF PortsNext

\* The whole of the resolvers' invariant, in every reachable state of the three
\* calls.
THEOREM PortsInductive == PortsSpec => []IInv
  <1>1. AtStart => IInv /\ options \in Options
    BY StartInv DEF AtStart
  <1>2. PortsInit => AtStart
    BY CallType DEF PortsInit, AtStart
  <1>3. IInv /\ options \in Options /\ [PortsNext]_portVars
          => AtStart' \/ (IInv' /\ (options \in Options)')
    BY PortsStepInv
  <1>4. QED
    BY <1>1, <1>2, <1>3, PTL DEF PortsSpec

\* The variables of the walk and of the three calls keep their types.
THEOREM PortsTypeCorrect == PortsSpec => []PortsTypeOK
  <1>1. IInv => TypeOK
    BY DEF IInv
  <1>2. PortsInit => CallsTyped
    BY DEF PortsInit, CallsTyped
  <1>3. TypeOK /\ CallsTyped /\ [PortsNext]_portVars => CallsTyped'
    <2> SUFFICES ASSUME TypeOK, CallsTyped, [PortsNext]_portVars PROVE CallsTyped'
      OBVIOUS
    <2>1. CASE Resolve
      BY <2>1 DEF Resolve, CallsTyped
    <2>2. CASE Switch
      <3>1. /\ finished' = [p \in DOMAIN finished \cup {port} |->
                              IF p = port THEN [source |-> source, outcome |-> outcome]
                              ELSE finished[p]]
            /\ port \in DOMAIN Follower /\ port' = Follower[port]
            /\ UNCHANGED <<options, rootFound>>
        BY <2>2 DEF Switch
      <3>2. source \in [File -> Source \cup {Unread}]
        BY DEF TypeOK
      <3>3. DOMAIN finished' = DOMAIN finished \cup {port}
        BY <3>1
      <3>4. \A p \in DOMAIN finished' : finished'[p].source \in [File -> Source \cup {Unread}]
        BY <3>1, <3>2, <3>3 DEF CallsTyped
      <3>5. DOMAIN finished' \subseteq DOMAIN Follower
        BY <3>1, <3>3 DEF CallsTyped
      <3>6. port' \in {"rust", "go", "zig"}
        BY <3>1 DEF Follower
      <3>7. QED
        BY <3>1, <3>4, <3>5, <3>6 DEF CallsTyped
    <2>3. CASE UNCHANGED portVars
      BY <2>3 DEF portVars, CallsTyped
    <2>4. QED
      BY <2>1, <2>2, <2>3 DEF PortsNext
  <1>4. QED
    BY <1>1, <1>2, <1>3, PortsInductive, PTL DEF PortsSpec, PortsTypeOK

\* In no port does the cache answer for a file that is still on the chain, and in
\* every port the depth kept with a finished file is a rank on its imports.
THEOREM PortsCacheSound == PortsSpec => []CacheIsSound
  <1>1. IInv => CacheIsSound
    BY DEF IInv, CacheIsSound
  <1>2. QED
    BY <1>1, PortsInductive, PTL

\* No port overdraws a resolution limit, a limit of zero included, and none accepts
\* a graph with an import chain longer than the limit.
THEOREM PortsLimitsHold == PortsSpec => []LimitsHold
  <1>1. IInv => LimitsHold
    BY DEF IInv, LimitsHold
  <1>2. QED
    BY <1>1, PortsInductive, PTL

\* In every port the frames are a route of import statements from the entry.
THEOREM PortsRouteKept == PortsSpec => []ChainIsRoute
  <1>1. IInv => ChainIsRoute
    BY DEF IInv
  <1>2. QED
    BY <1>1, PortsInductive, PTL

\* In no port is a file read twice in one call.
THEOREM PortsOneVersion == PortsSpec => PortsReadOnce
  <1> DEFINE Keeps == \A f \in File : source[f] # Unread => source'[f] = source[f]
             KeepsInCall == port' = port => Keeps
  <1>1. IInv /\ [PortsNext]_portVars => KeepsInCall \/ UNCHANGED portVars
    <2> SUFFICES ASSUME IInv, [PortsNext]_portVars, port' = port
                 PROVE  Keeps
      OBVIOUS
    <2>1. CASE Read \/ GoRead \/ ZigRead
      <3>1. pc = "read"
        BY <2>1 DEF Read, GoRead, ZigRead
      <3>2. PICK c \in Contents(Top.file) : Reading(c)
        BY <2>1 DEF Read, GoRead, ZigRead, ReadFails, GoReadFails, OpenFails, ReadToEndFails,
                    ReadTooManyBytes, ParseFails, ParsedTooManyNodes, Parsed
      <3>3. source[Top.file] = Unread /\ \A f \in File \ {Top.file} : source'[f] = source[f]
        BY <3>1, <3>2, ReadingOnlyTop
      <3>4. QED
        BY <3>3
    <2>2. CASE Step /\ ~ (Read \/ GoRead \/ ZigRead)
      <3>1. UNCHANGED source
        BY <2>2 DEF Step, Next, GoNext, ZigNext, Load, GoLoad, OpenRoot, RootNotFound,
                    LoadUnresolvable, GoLoadUnresolvable, LoadOutsideRoot, LoadCached, LoadCycle,
                    LoadTooDeep, LoadTooManyFiles, Enter, Refuse, LoadImport, MergeImport,
                    GoMergeImport, Finish, Deliver, Terminated, vars
      <3>2. QED
        BY <3>1
    <2>3. CASE UNCHANGED portVars
      BY <2>3 DEF portVars, vars
    <2>4. ~ Switch
      BY DEF Switch, Follower
    <2>5. QED
      BY <2>1, <2>2, <2>3, <2>4 DEF PortsNext, Resolve
  <1>2. QED
    BY <1>1, PortsInductive, PTL DEF PortsSpec, PortsReadOnce

-----------------------------------------------------------------------------
\* The ports agree.  A walk without its variables: what is left of it is a
\* function of the call and of what the files it has read hold.  The history of
\* the Rust walk is the sequence of its states; the ports that follow find the
\* same files, and so go through the same states, up to the diagnostic on which
\* they leave it.

State(at, frames, path, handed, cache, charged, answer) ==
  [pc |-> at, stack |-> frames, target |-> path, ret |-> handed, done |-> cache,
   used |-> charged, outcome |-> answer]

Here == State(pc, stack, target, ret, done, used, outcome)

FirstOf(call) ==
  State("open", <<>>, call.entry, <<>>, [f \in {} |-> <<>>], [name \in LimitNames |-> 0],
        Pending)

CallWith(lim) == [entry |-> entry, found |-> rootFound, limits |-> lim]

TopOf(x) == x.stack[Len(x.stack)]

OriginIn(x, d) == IF d = 0 THEN NoOrigin ELSE <<x.stack[d].file, x.stack[d].next>>

Over(x, call, name, amount) == amount > call.limits[name] - x.used[name]

Stopped(x, code, at) ==
  State("failed", x.stack, x.target, x.ret, x.done, x.used,
        [status |-> "failed", code |-> code, at |-> at])

Refused(x, code) == Stopped(x, code, OriginIn(x, Len(x.stack)))

Charged(x, name, amount) ==
  State(x.pc, x.stack, x.target, x.ret, x.done,
        [x.used EXCEPT ![name] = x.used[name] + amount], x.outcome)

HandedBack(x, f, depth, doc) ==
  State("return", x.stack, x.target, [file |-> f, depth |-> depth, doc |-> doc], x.done,
        x.used, x.outcome)

MovedTo(x, at) == State(at, x.stack, x.target, x.ret, x.done, x.used, x.outcome)

AfterOpen(x, call) ==
  IF call.found THEN MovedTo(x, "load") ELSE Refused(x, "IMPORT_NOT_FOUND")

AfterCached(x, f) ==
  IF Len(x.stack) + x.done[f].depth <= MaxImportDepth
  THEN HandedBack(x, f, x.done[f].depth, x.done[f].doc)
  ELSE Refused(x, "IMPORT_CHAIN_TOO_DEEP")

Entered(x) ==
  State("read",
        Append(x.stack, [file |-> x.target, next |-> 1, depth |-> 0, merged |-> EmptyDoc]),
        x.target, x.ret, x.done, [x.used EXCEPT !.files = x.used.files + 1], x.outcome)

AfterNew(x, call) ==
  IF Len(x.stack) > MaxImportDepth THEN Refused(x, "IMPORT_CHAIN_TOO_DEEP")
  ELSE IF Over(x, call, "files", 1) THEN Refused(x, "RESOLUTION_FILE_LIMIT")
  ELSE Entered(x)

AfterLoad(x, call) ==
  IF x.target = Missing THEN Refused(x, "IMPORT_NOT_FOUND")
  ELSE IF x.target = Outside THEN Refused(x, "PATH_OUTSIDE_ROOT")
  ELSE IF x.target \in DOMAIN x.done THEN AfterCached(x, x.target)
  ELSE IF \E i \in DOMAIN x.stack : x.stack[i].file = x.target
       THEN Refused(x, "CIRCULAR_IMPORT")
  ELSE AfterNew(x, call)

AfterParse(x, c, call) ==
  IF c.outcome # "document"
  THEN Stopped(x, IF c.outcome = "oversize" THEN "FILE_TOO_LARGE" ELSE "SYNTAX",
               <<TopOf(x).file, 0>>)
  ELSE IF Over(x, call, "nodes", c.nodes)
       THEN Stopped(x, "RESOLUTION_NODE_LIMIT", OriginIn(x, Len(x.stack) - 1))
  ELSE MovedTo(Charged(x, "nodes", c.nodes), "scan")

AfterRead(x, c, call) ==
  IF c.outcome \in {"absent", "unreadable"}
  THEN Stopped(x, "IMPORT_NOT_FOUND", OriginIn(x, Len(x.stack) - 1))
  ELSE IF Over(x, call, "bytes", c.bytes)
       THEN Stopped(x, "RESOLUTION_BYTE_LIMIT", OriginIn(x, Len(x.stack) - 1))
  ELSE AfterParse(Charged(x, "bytes", c.bytes), c, call)

Completed(x, f, depth, doc) ==
  State("return", SubSeq(x.stack, 1, Len(x.stack) - 1), x.target,
        [file |-> f, depth |-> depth, doc |-> doc],
        [g \in DOMAIN x.done \cup {f} |->
           IF g = f THEN [depth |-> depth, doc |-> doc] ELSE x.done[g]],
        x.used, x.outcome)

AfterImports(x, c, call) ==
  LET cost == IF c.imports = <<>> THEN 0 ELSE MergeWork(TopOf(x).merged, c.own)
      doc == IF c.imports = <<>> THEN c.own ELSE Merge(TopOf(x).merged, c.own)
  IN  IF Over(x, call, "work", cost)
      THEN Stopped(x, "RESOLUTION_WORK_LIMIT", OriginIn(x, Len(x.stack) - 1))
      ELSE Completed(Charged(x, "work", cost), TopOf(x).file, TopOf(x).depth, doc)

AfterScan(x, c, call) ==
  IF TopOf(x).next <= Len(c.imports)
  THEN State("load", x.stack, c.imports[TopOf(x).next], x.ret, x.done, x.used, x.outcome)
  ELSE AfterImports(x, c, call)

Moved(x) ==
  [file |-> TopOf(x).file, next |-> TopOf(x).next + 1,
   depth |-> Deeper(TopOf(x).depth, x.ret.depth), merged |-> Merge(TopOf(x).merged, x.ret.doc)]

Advance(x, cost) ==
  State("scan", [x.stack EXCEPT ![Len(x.stack)] = Moved(x)], x.target, x.ret, x.done,
        [x.used EXCEPT !.work = x.used.work + cost], x.outcome)

AfterMerge(x, call) ==
  LET cost == MergeWork(TopOf(x).merged, x.ret.doc) IN
  IF Over(x, call, "work", cost) THEN Refused(x, "RESOLUTION_WORK_LIMIT")
  ELSE Advance(x, cost)

Delivered(x) ==
  State("done", x.stack, x.target, x.ret, x.done, x.used,
        [status |-> "done", doc |-> Materialize(x.ret.doc)])

\* The state that follows x, in a call that finds src in the files.
After(x, src, call) ==
  CASE x.pc = "open" -> AfterOpen(x, call)
    [] x.pc = "load" -> AfterLoad(x, call)
    [] x.pc = "read" -> AfterRead(x, src[TopOf(x).file], call)
    [] x.pc = "scan" -> AfterScan(x, src[TopOf(x).file], call)
    [] x.pc = "return" -> IF x.stack = <<>> THEN Delivered(x) ELSE AfterMerge(x, call)

\* The files whose contents decide on the state that follows x.
Needs(x) == IF x.pc \in {"read", "scan"} THEN {TopOf(x).file} ELSE {}

Final(x) == x.pc \in {"done", "failed"}

\* What a state is made of.
LEMMA StateFields ==
  ASSUME NEW at, NEW frames, NEW path, NEW handed, NEW cache, NEW charged, NEW answer
  PROVE  LET x == State(at, frames, path, handed, cache, charged, answer) IN
         /\ x.pc = at /\ x.stack = frames /\ x.target = path /\ x.ret = handed
         /\ x.done = cache /\ x.used = charged /\ x.outcome = answer
  BY DEF State

\* What the state of the walk is made of.
LEMMA HereFields ==
  /\ Here.pc = pc /\ Here.stack = stack /\ Here.target = target /\ Here.ret = ret
  /\ Here.done = done /\ Here.used = used /\ Here.outcome = outcome
  /\ TopOf(Here) = Top
  <1>1. /\ Here.pc = pc /\ Here.stack = stack /\ Here.target = target /\ Here.ret = ret
        /\ Here.done = done /\ Here.used = used /\ Here.outcome = outcome
    BY DEF Here, State
  <1>2. QED
    BY <1>1, Zenon DEF TopOf, Top

\* Opening the root is what AfterOpen says.
LEMMA OpenFollows ==
  ASSUME OpenRoot \/ RootNotFound, rootFound <=> pc' # "failed"
  PROVE  pc = "open" /\ Here' = AfterOpen(Here, CallWith(limits))
  <1>1. CASE OpenRoot
    BY <1>1, HereFields DEF OpenRoot, Here, AfterOpen, CallWith, MovedTo
  <1>2. CASE RootNotFound
    BY <1>2, HereFields DEF RootNotFound, Refuse, Fail, Here, AfterOpen, CallWith, Refused, Stopped, OriginIn,
                ImportOrigin, OriginAt
  <1>3. QED
    BY <1>1, <1>2

\* A refusal, in the walk and in what follows from its state.
LEMMA RefuseFollows ==
  ASSUME NEW code, Refuse(code)
  PROVE  Here' = Refused(Here, code)
  BY HereFields DEF Refuse, Fail, Here, Refused, Stopped, OriginIn, ImportOrigin, OriginAt

\* A new file is refused, or entered.
LEMMA NewFollows ==
  ASSUME IInv, LoadTooDeep \/ LoadTooManyFiles \/ Enter
  PROVE  Here' = AfterNew(Here, CallWith(limits))
  <1>1. Over(Here, CallWith(limits), "files", 1) <=> Exceeds("files", 1)
    BY HereFields DEF Over, Exceeds, Limit, CallWith
  <1>2. Len(Here.stack) > MaxImportDepth <=> ChainTooLong
    BY HereFields DEF ChainTooLong
  <1>3. CASE LoadTooDeep
    BY <1>2, <1>3, RefuseFollows DEF LoadTooDeep, AfterNew
  <1>4. CASE LoadTooManyFiles
    BY <1>1, <1>2, <1>4, RefuseFollows DEF LoadTooManyFiles, AfterNew
  <1>5. CASE Enter
    <2>1. Here' = Entered(Here)
      BY <1>5, HereFields DEF Enter, Here, Entered
    <2>2. QED
      BY <1>1, <1>2, <1>5, <2>1 DEF Enter, AfterNew
  <1>6. QED
    BY <1>3, <1>4, <1>5

\* What load finds decides on what it does.
LEMMA LoadFollows ==
  ASSUME IInv, Load
  PROVE  pc = "load" /\ Here' = AfterLoad(Here, CallWith(limits))
  <1>1. /\ Here.target = target /\ Here.stack = stack /\ Here.done = done
        /\ DOMAIN done \subseteq File
    BY HereFields DEF IInv, TypeOK
  <1>2. target \in Chain <=> \E i \in DOMAIN Here.stack : Here.stack[i].file = Here.target
    BY <1>1 DEF Chain
  <1>3. pc = "load"
    BY DEF Load, LoadUnresolvable, LoadOutsideRoot, LoadCached, LoadCycle, LoadTooDeep,
           LoadTooManyFiles, Enter
  <1>4. CASE LoadUnresolvable
    BY <1>1, <1>3, <1>4, RefuseFollows DEF LoadUnresolvable, AfterLoad
  <1>5. CASE LoadOutsideRoot
    BY <1>1, <1>3, <1>5, RefuseFollows, NamesAssumption DEF LoadOutsideRoot, AfterLoad
  <1>6. CASE LoadCached
    <2>1. target \in DOMAIN done /\ target # Missing /\ target # Outside
      BY <1>1, <1>6, NamesAssumption DEF LoadCached
    <2>2. CASE CachedFits(target)
      <3>1. Here' = HandedBack(Here, target, done[target].depth, done[target].doc)
        BY <1>6, <2>2, HereFields DEF LoadCached, Return, Here, HandedBack
      <3>2. QED
        BY <1>1, <1>3, <2>1, <2>2, <3>1 DEF AfterLoad, AfterCached, CachedFits
    <2>3. CASE ~ CachedFits(target)
      <3>1. Here' = Refused(Here, "IMPORT_CHAIN_TOO_DEEP")
        BY <1>6, <2>3, RefuseFollows DEF LoadCached
      <3>2. QED
        BY <1>1, <1>3, <2>1, <2>3, <3>1 DEF AfterLoad, AfterCached, CachedFits
    <2>4. QED
      BY <2>2, <2>3
  <1>7. CASE LoadCycle
    <2>1. target \in Chain /\ target \notin DOMAIN done /\ target # Missing /\ target # Outside
      <3>1. Chain \subseteq File
        <4>1. stack \in Seq(Frame)
          BY DEF IInv, TypeOK
        <4>2. ASSUME NEW i \in DOMAIN stack PROVE stack[i].file \in File
          <5>1. stack[i] \in Frame
            BY <4>1
          <5>2. QED
            BY <5>1 DEF Frame
        <4>3. QED
          BY <4>2 DEF Chain
      <3>2. QED
        BY <1>7, <3>1, NamesAssumption DEF LoadCycle
    <2>2. QED
      BY <1>1, <1>2, <1>3, <1>7, <2>1, RefuseFollows DEF LoadCycle, AfterLoad
  <1>8. CASE LoadTooDeep \/ LoadTooManyFiles \/ Enter
    <2>1. /\ target \notin Chain /\ target \notin DOMAIN done
          /\ target # Missing /\ target # Outside
      BY <1>8, NamesAssumption DEF LoadTooDeep, LoadTooManyFiles, Enter, IsNew
    <2>2. QED
      BY <1>1, <1>2, <1>3, <1>8, <2>1, NewFollows DEF AfterLoad
  <1>9. QED
    BY <1>3, <1>4, <1>5, <1>6, <1>7, <1>8 DEF Load

\* What a read finds decides on what follows it.
LEMMA ReadFollows ==
  ASSUME IInv, pc = "read", NEW c \in Contents(Top.file),
         \/ ReadFails(c) \/ ReadTooManyBytes(c) \/ ParseFails(c) \/ ParsedTooManyNodes(c)
         \/ Parsed(c)
  PROVE  source'[Top.file] = c /\ Here' = AfterRead(Here, c, CallWith(limits))
  <1>1. Top.file \in File /\ source' = [source EXCEPT ![Top.file] = c] /\ c \in Source
    BY ReadingOnlyTop, SourceAssumption
       DEF ReadFails, ReadTooManyBytes, ParseFails, ParsedTooManyNodes, Parsed, Reading
  <1>2. source'[Top.file] = c
    BY <1>1 DEF IInv, TypeOK
  <1>3. used \in [LimitNames -> Nat] /\ "bytes" \in LimitNames /\ "nodes" \in LimitNames
    BY DEF IInv, TypeOK, LimitNames
  <1>4. Over(Here, CallWith(limits), "bytes", c.bytes) <=> Exceeds("bytes", c.bytes)
    BY HereFields DEF Over, Exceeds, Limit, CallWith
  <1> DEFINE Y == Charged(Here, "bytes", c.bytes)
  <1>5. /\ Y.pc = pc /\ Y.stack = stack /\ Y.target = target /\ Y.ret = ret /\ Y.done = done
        /\ Y.outcome = outcome /\ Y.used = [used EXCEPT !.bytes = used.bytes + c.bytes]
        /\ TopOf(Y) = Top
    BY HereFields, StateFields DEF TopOf, Top, Charged
  <1> HIDE DEF Y
  <1>10. Over(Y, CallWith(limits), "nodes", c.nodes) <=> Exceeds("nodes", c.nodes)
    BY <1>3, <1>5 DEF Over, Exceeds, Limit, CallWith
  <1>6. CASE ReadFails(c)
    <2>1. Here' = Stopped(Here, "IMPORT_NOT_FOUND", OriginIn(Here, Len(Here.stack) - 1))
      BY <1>6, HereFields DEF ReadFails, Fail, Here, Stopped, OriginIn, OwnOrigin, OriginAt
    <2>2. QED
      BY <1>2, <1>6, <2>1 DEF ReadFails, HasBytes, AfterRead
  <1>7. CASE ReadTooManyBytes(c)
    <2>1. Here' = Stopped(Here, "RESOLUTION_BYTE_LIMIT", OriginIn(Here, Len(Here.stack) - 1))
      BY <1>7, HereFields DEF ReadTooManyBytes, Fail, Here, Stopped, OriginIn, OwnOrigin, OriginAt
    <2>2. QED
      BY <1>2, <1>4, <1>7, <2>1 DEF ReadTooManyBytes, HasBytes, AfterRead
  <1>8. CASE ParseFails(c) \/ ParsedTooManyNodes(c) \/ Parsed(c)
    <2>1. c.outcome \notin {"absent", "unreadable"} /\ ~ Exceeds("bytes", c.bytes)
      BY <1>8 DEF ParseFails, ParsedTooManyNodes, Parsed
    <2>2. AfterRead(Here, c, CallWith(limits)) = AfterParse(Y, c, CallWith(limits))
      BY <1>4, <2>1 DEF AfterRead, Y
    <2>3. CASE ParseFails(c)
      <3>1. Here' = Stopped(Y, IF c.outcome = "oversize" THEN "FILE_TOO_LARGE" ELSE "SYNTAX",
                            <<Top.file, 0>>)
        BY <1>5, <2>3 DEF ParseFails, Fail, Here, Stopped, Inside
      <3>2. QED
        BY <1>2, <1>5, <2>2, <2>3, <3>1 DEF ParseFails, AfterParse
    <2>4. CASE ParsedTooManyNodes(c)
      <3>1. Here' = Stopped(Y, "RESOLUTION_NODE_LIMIT", OriginIn(Y, Len(Y.stack) - 1))
        BY <1>5, <2>4 DEF ParsedTooManyNodes, Fail, Here, Stopped, OriginIn, OwnOrigin, OriginAt
      <3>2. QED
        BY <1>2, <1>5, <1>10, <2>2, <2>4, <3>1 DEF ParsedTooManyNodes, AfterParse
    <2>5. CASE Parsed(c)
      <3>1. used' = [[used EXCEPT !.bytes = used.bytes + c.bytes] EXCEPT !.nodes = used.nodes + c.nodes]
        BY <1>3, <2>5 DEF Parsed
      <3>2. Here' = MovedTo(Charged(Y, "nodes", c.nodes), "scan")
        <4> DEFINE Z == Charged(Y, "nodes", c.nodes)
        <4>1. /\ Z.stack = stack /\ Z.target = target /\ Z.ret = ret /\ Z.done = done
              /\ Z.outcome = outcome
              /\ Z.used = [Y.used EXCEPT !.nodes = Y.used.nodes + c.nodes]
          BY <1>5 DEF Charged, State
        <4>2. used' = Z.used
          BY <1>3, <1>5, <3>1, <4>1
        <4>3. UNCHANGED <<stack, target, ret, done, outcome>> /\ pc' = "scan"
          BY <2>5 DEF Parsed
        <4> HIDE DEF Z
        <4>4. Here' = MovedTo(Z, "scan")
          BY <4>1, <4>2, <4>3 DEF Here, MovedTo
        <4>5. QED
          BY <4>4 DEF Z
      <3>3. QED
        BY <1>2, <1>5, <1>10, <2>2, <2>5, <3>2 DEF Parsed, AfterParse
    <2>6. QED
      BY <1>8, <2>3, <2>4, <2>5
  <1>9. QED
    BY <1>6, <1>7, <1>8

\* The next import is loaded, or the file is finished.
LEMMA ScanFollows ==
  ASSUME IInv, LoadImport \/ Finish
  PROVE  pc = "scan" /\ Here' = AfterScan(Here, source[Top.file], CallWith(limits))
  <1>1. pc = "scan" /\ Here.stack = stack /\ TopOf(Here) = Top /\ Here.done = done
    BY HereFields DEF LoadImport, Finish
  <1>2. Top.next \in Nat /\ Len(source[Top.file].imports) \in Nat
    <2>1. stack # <<>> /\ stack \in Seq(Frame) /\ source[Top.file].outcome = "document"
      BY <1>1 DEF IInv, TypeOK, ChainIsRoute, Scanned, Top
    <2>2. Top \in Frame
      BY <2>1 DEF Top
    <2>3. source[Top.file] \in Source
      BY <2>1, <2>2 DEF IInv, TypeOK, Frame, Unread
    <2>4. QED
      BY <2>2, <2>3 DEF Frame, Source
  <1>3. CASE LoadImport
    <2>1. Here' = State("load", stack, source[Top.file].imports[Top.next], ret, done, used, outcome)
      BY <1>3 DEF LoadImport, Here, Imports
    <2>2. QED
      BY <1>1, <1>3, <2>1, HereFields DEF LoadImport, AfterScan, Imports
  <1>4. CASE Finish
    <2> DEFINE c == source[Top.file]
               cost == IF c.imports = <<>> THEN 0 ELSE MergeWork(Top.merged, c.own)
               doc == IF c.imports = <<>> THEN c.own ELSE Merge(Top.merged, c.own)
    <2>1. cost = OwnWork(Top.file, Top.merged) /\ doc = Composed(Top.file, Top.merged)
      BY DEF OwnWork, Composed, Imports
    <2>2. Over(Here, CallWith(limits), "work", cost) <=> Exceeds("work", cost)
      BY HereFields DEF Over, Exceeds, Limit, CallWith
    <2>3. ~ (Top.next <= Len(c.imports))
      BY <1>2, <1>4 DEF Finish, Imports
    <2>4. AfterScan(Here, c, CallWith(limits)) = AfterImports(Here, c, CallWith(limits))
      BY <1>1, <2>3 DEF AfterScan
    <2> HIDE DEF cost, doc
    <2>5. AfterImports(Here, c, CallWith(limits)) =
            IF Exceeds("work", cost)
            THEN Stopped(Here, "RESOLUTION_WORK_LIMIT", OriginIn(Here, Len(stack) - 1))
            ELSE Completed(Charged(Here, "work", cost), Top.file, Top.depth, doc)
      BY <1>1, <2>2 DEF AfterImports, cost, doc
    <2>6. CASE Exceeds("work", cost)
      <3>1. Fail("RESOLUTION_WORK_LIMIT", OwnOrigin) /\ UNCHANGED used
        BY <1>4, <2>1, <2>6 DEF Finish
      <3>2. Here' = Stopped(Here, "RESOLUTION_WORK_LIMIT", OriginIn(Here, Len(stack) - 1))
        BY <3>1, HereFields DEF Fail, Here, Stopped, OriginIn, OwnOrigin, OriginAt
      <3>3. QED
        BY <1>1, <2>4, <2>5, <2>6, <3>2
    <2>7. CASE ~ Exceeds("work", cost)
      <3>1. /\ used' = [used EXCEPT !.work = used.work + cost]
            /\ Cache(Top.file, Top.depth, doc)
            /\ stack' = SubSeq(stack, 1, Len(stack) - 1)
            /\ Return(Top.file, Top.depth, doc)
            /\ UNCHANGED <<target, outcome>>
        BY <1>4, <2>1, <2>7 DEF Finish
      <3>2. Here' = Completed(Charged(Here, "work", cost), Top.file, Top.depth, doc)
        BY <3>1, HereFields, StateFields DEF Cache, Return, Here, Completed, Charged
      <3>3. QED
        BY <1>1, <2>4, <2>5, <2>7, <3>2
    <2>8. QED
      BY <2>6, <2>7
  <1>5. QED
    BY <1>3, <1>4

\* What an import hands back is merged, or delivered.
LEMMA ReturnFollows ==
  ASSUME IInv, MergeImport \/ Deliver
  PROVE  /\ pc = "return"
         /\ Here' = IF stack = <<>> THEN Delivered(Here) ELSE AfterMerge(Here, CallWith(limits))
  <1>1. /\ pc = "return" /\ Here.stack = stack /\ TopOf(Here) = Top /\ Here.ret = ret
    BY HereFields DEF MergeImport, Deliver
  <1>2. CASE Deliver
    BY <1>2, HereFields DEF Deliver, Here, Delivered
  <1>3. CASE MergeImport
    <2> DEFINE cost == MergeWork(Top.merged, ret.doc)
    <2>1. Over(Here, CallWith(limits), "work", cost) <=> Exceeds("work", cost)
      BY HereFields DEF Over, Exceeds, Limit, CallWith
    <2>2. Moved(Here) = Advanced
      BY HereFields DEF Moved, Advanced
    <2> HIDE DEF cost
    <2>3. CASE Exceeds("work", cost)
      <3>1. Here' = Refused(Here, "RESOLUTION_WORK_LIMIT")
        BY <1>3, <2>3, RefuseFollows DEF MergeImport, cost
      <3>2. QED
        BY <1>1, <1>3, <2>1, <2>3, <3>1 DEF MergeImport, AfterMerge, cost
    <2>4. CASE ~ Exceeds("work", cost)
      <3>1. /\ pc' = "scan" /\ used' = [used EXCEPT !.work = used.work + cost]
            /\ stack' = [stack EXCEPT ![Len(stack)] = Moved(Here)]
            /\ UNCHANGED <<target, ret, done, outcome>>
        BY <1>3, <2>2, <2>4 DEF MergeImport, cost
      <3>2. Here' = Advance(Here, cost)
        BY <3>1, HereFields DEF Here, Advance
      <3>3. QED
        BY <1>1, <1>3, <2>1, <2>4, <3>2 DEF MergeImport, AfterMerge, cost
    <2>5. QED
      BY <2>3, <2>4
  <1>4. QED
    BY <1>2, <1>3

\* A step of the walk is the one that follows from its state and from the files.
LEMMA WalkFollows ==
  ASSUME IInv, Next, pc = "open" => (rootFound <=> pc' # "failed"), ~ Final(Here)
  PROVE  /\ Here' = After(Here, source', CallWith(limits))
         /\ \A f \in Needs(Here) : f \in File /\ source'[f] # Unread
  <1>1. CASE OpenRoot \/ RootNotFound
    <2>1. pc = "open" /\ Here' = AfterOpen(Here, CallWith(limits))
      BY <1>1, OpenFollows DEF OpenRoot, RootNotFound
    <2>2. QED
      BY <2>1, HereFields DEF After, Needs
  <1>2. CASE Load
    <2>1. pc = "load" /\ Here' = AfterLoad(Here, CallWith(limits))
      BY <1>2, LoadFollows
    <2>2. QED
      BY <2>1, HereFields DEF After, Needs
  <1>3. CASE Read
    <2>1. pc = "read"
      BY <1>3 DEF Read
    <2>2. PICK c \in Contents(Top.file) :
            \/ ReadFails(c) \/ ReadTooManyBytes(c) \/ ParseFails(c) \/ ParsedTooManyNodes(c)
            \/ Parsed(c)
      BY <1>3 DEF Read
    <2>3. source'[Top.file] = c /\ Here' = AfterRead(Here, c, CallWith(limits))
      BY <2>1, <2>2, ReadFollows
    <2>4. Reading(c)
      BY <2>2 DEF ReadFails, ReadTooManyBytes, ParseFails, ParsedTooManyNodes, Parsed
    <2>5. Top.file \in File /\ c \in Source
      BY <2>1, <2>4, ReadingOnlyTop, SourceAssumption
    <2>6. c # Unread
      BY <2>5 DEF Source, Unread
    <2>7. QED
      BY <2>1, <2>3, <2>5, <2>6, HereFields DEF After, Needs
  <1>4. CASE LoadImport \/ Finish
    <2>1. pc = "scan" /\ Here' = AfterScan(Here, source[Top.file], CallWith(limits))
      BY <1>4, ScanFollows
    <2>2. source' = source
      BY <1>4 DEF LoadImport, Finish
    <2>3. stack # <<>> /\ stack \in Seq(Frame) /\ source[Top.file].outcome = "document"
      BY <2>1 DEF IInv, TypeOK, ChainIsRoute, Scanned, Top
    <2>4. Top.file \in File
      <3>1. Top \in Frame
        BY <2>3 DEF Top
      <3>2. QED
        BY <3>1 DEF Frame
    <2>5. source[Top.file] # Unread
      BY <2>3 DEF Unread
    <2>6. QED
      BY <2>1, <2>2, <2>4, <2>5, HereFields DEF After, Needs
  <1>5. CASE MergeImport \/ Deliver
    <2>1. /\ pc = "return"
          /\ Here' = IF stack = <<>> THEN Delivered(Here) ELSE AfterMerge(Here, CallWith(limits))
      BY <1>5, ReturnFollows
    <2>2. QED
      BY <2>1, HereFields DEF After, Needs
  <1>6. ~ Terminated
    BY HereFields DEF Terminated, Final
  <1>7. QED
    BY <1>1, <1>2, <1>3, <1>4, <1>5, <1>6 DEF Next

\* What follows from a state depends on no more than the files it needs.
LEMMA AfterDepends ==
  ASSUME NEW x, NEW s, NEW t, NEW call, ~ Final(x), \A f \in Needs(x) : s[f] = t[f]
  PROVE  After(x, s, call) = After(x, t, call)
  <1>1. CASE x.pc \in {"read", "scan"}
    <2>1. s[TopOf(x).file] = t[TopOf(x).file]
      BY <1>1 DEF Needs
    <2>2. QED
      BY <1>1, <2>1 DEF After
  <1>2. CASE x.pc \notin {"read", "scan"}
    BY <1>2 DEF After
  <1>3. QED
    BY <1>1, <1>2

\* The first n steps of a call that finds src in the files.
Walk(run, n, src, call) ==
  /\ n \in Nat
  /\ run[0] = FirstOf(call)
  /\ \A i \in 0..(n - 1) :
       /\ ~ Final(run[i])
       /\ run[i + 1] = After(run[i], src, call)
       /\ \A f \in Needs(run[i]) : f \in File /\ src[f] # Unread

\* What is read later does not change the steps already made.
LEMMA WalkGrows ==
  ASSUME NEW run, NEW n, NEW src, NEW call, NEW later, Walk(run, n, src, call),
         \A f \in File : src[f] # Unread => later[f] = src[f]
  PROVE  Walk(run, n, later, call)
  <1>1. ASSUME NEW i \in 0..(n - 1)
        PROVE  /\ ~ Final(run[i])
               /\ run[i + 1] = After(run[i], later, call)
               /\ \A f \in Needs(run[i]) : f \in File /\ later[f] # Unread
    <2>1. /\ ~ Final(run[i]) /\ run[i + 1] = After(run[i], src, call)
          /\ \A f \in Needs(run[i]) : f \in File /\ src[f] # Unread
      BY DEF Walk
    <2>2. \A f \in Needs(run[i]) : src[f] = later[f]
      BY <2>1
    <2>3. QED
      BY <2>1, <2>2, AfterDepends
  <1>2. QED
    BY <1>1 DEF Walk

\* A walk that has not ended goes on.
LEMMA WalkGoesOn ==
  ASSUME NEW run, NEW n, NEW src, NEW call, Walk(run, n, src, call), ~ Final(run[n]),
         \A f \in Needs(run[n]) : f \in File /\ src[f] # Unread
  PROVE  \E more : Walk(more, n + 1, src, call) /\ more[n + 1] = After(run[n], src, call)
  <1> DEFINE more == [i \in 0..(n + 1) |-> IF i = n + 1 THEN After(run[n], src, call) ELSE run[i]]
  <1>1. n \in Nat
    BY DEF Walk
  <1>2. more[n + 1] = After(run[n], src, call) /\ \A i \in 0..n : more[i] = run[i]
    BY <1>1
  <1> HIDE DEF more
  <1>3. ASSUME NEW i \in 0..((n + 1) - 1)
        PROVE  /\ ~ Final(more[i])
               /\ more[i + 1] = After(more[i], src, call)
               /\ \A f \in Needs(more[i]) : f \in File /\ src[f] # Unread
    <2>1. more[i] = run[i]
      BY <1>1, <1>2
    <2>2. CASE i = n
      BY <1>2, <2>1, <2>2
    <2>3. CASE i # n
      <3>1. i \in 0..(n - 1) /\ i + 1 \in 0..n
        BY <1>1, <2>3
      <3>2. more[i + 1] = run[i + 1]
        BY <1>2, <3>1
      <3>3. /\ ~ Final(run[i]) /\ run[i + 1] = After(run[i], src, call)
            /\ \A f \in Needs(run[i]) : f \in File /\ src[f] # Unread
        BY <3>1 DEF Walk
      <3>4. QED
        BY <2>1, <3>2, <3>3
    <2>4. QED
      BY <2>2, <2>3
  <1>4. more[0] = FirstOf(call)
    BY <1>1, <1>2 DEF Walk
  <1>5. Walk(more, n + 1, src, call)
    BY <1>1, <1>3, <1>4 DEF Walk
  <1>6. QED
    BY <1>2, <1>5

-----------------------------------------------------------------------------
\* What the ports have in common.

RustCall == CallWith(WithDefaults(options))

OutcomeTold ==
  IF pc \in {"done", "failed"} THEN outcome.status = pc ELSE outcome = Pending

RootTold == pc \notin {"open", "failed"} => rootFound

RustTraced ==
  port = "rust" =>
    /\ DOMAIN finished = {}
    /\ \E n, run : Walk(run, n, source, RustCall) /\ run[n] = Here

\* A walk to the end, over the files the Rust port found and to its answer.
RustWalk(run, n) ==
  /\ Walk(run, n, finished["rust"].source, RustCall)
  /\ Final(run[n]) /\ run[n].outcome = finished["rust"].outcome

OnTrack == \E n, run : RustWalk(run, n) /\ \E i \in 0..n : run[i] = Here

Agreed(p, ours, theirs) ==
  /\ ours.status = theirs.status
  /\ IF ours.status = "done" THEN ours = theirs ELSE SameFailure(p, ours, theirs)

\* The port has left the track with a diagnostic, where the Rust port did too.
Parted == pc = "failed" /\ Agreed(port, finished["rust"].outcome, outcome)

Compared ==
  port # "rust" =>
    /\ "rust" \in DOMAIN finished
    /\ finished["rust"].outcome.status \in {"done", "failed"}
    /\ \E n, run : RustWalk(run, n)
    /\ limits = WithDefaults(options) => OnTrack \/ Parted
    /\ port = "zig" =>
         /\ "go" \in DOMAIN finished
         /\ Agreed("go", finished["rust"].outcome, finished["go"].outcome)

HInv ==
  /\ limits = Call(port)
  /\ OutcomeTold
  /\ RootTold
  /\ RustTraced
  /\ Compared

\* A diagnostic is told by a call that fails.
LEMMA FailTells ==
  ASSUME NEW code, NEW at, Fail(code, at)
  PROVE  OutcomeTold' /\ pc' = "failed"
  BY DEF Fail, OutcomeTold

\* A call that has ended takes no further step.
LEMMA EndedStays ==
  ASSUME Step, Ended
  PROVE  UNCHANGED vars
  <1>1. CASE Next
    BY <1>1 DEF Ended, Next, OpenRoot, RootNotFound, Load, LoadUnresolvable, LoadOutsideRoot,
                LoadCached, LoadCycle, LoadTooDeep, LoadTooManyFiles, Enter, Read, LoadImport,
                MergeImport, Finish, Deliver, Terminated
  <1>2. CASE GoNext
    BY <1>2 DEF Ended, GoNext, OpenRoot, RootNotFound, GoLoad, GoLoadUnresolvable,
                LoadOutsideRoot, LoadCached, LoadCycle, LoadTooDeep, LoadTooManyFiles, Enter,
                GoRead, LoadImport, GoMergeImport, Finish, Deliver, Terminated
  <1>3. CASE ZigNext
    BY <1>3 DEF Ended, ZigNext, OpenRoot, RootNotFound, Load, LoadUnresolvable, LoadOutsideRoot,
                LoadCached, LoadCycle, LoadTooDeep, LoadTooManyFiles, Enter, ZigRead, LoadImport,
                MergeImport, Finish, Deliver, Terminated
  <1>4. QED
    BY <1>1, <1>2, <1>3 DEF Step

\* A call has an answer once it has ended, and none before: in the walk,
LEMMA WalkTells ==
  ASSUME Next, OutcomeTold, ~ Ended
  PROVE  OutcomeTold'
  <1>1. outcome = Pending
    BY DEF OutcomeTold, Ended
  <1>2. ASSUME NEW code, Refuse(code) PROVE OutcomeTold'
    BY <1>2, FailTells DEF Refuse
  <1>3. CASE OpenRoot \/ RootNotFound
    BY <1>1, <1>2, <1>3 DEF OpenRoot, RootNotFound, OutcomeTold
  <1>4. CASE Load
    <2>1. CASE LoadCached
      BY <1>1, <1>2, <2>1 DEF LoadCached, Return, OutcomeTold
    <2>2. CASE Enter
      BY <1>1, <2>2 DEF Enter, OutcomeTold
    <2>3. CASE ~ (LoadCached \/ Enter)
      BY <1>2, <1>4, <2>3 DEF Load, LoadUnresolvable, LoadOutsideRoot, LoadCycle, LoadTooDeep,
                              LoadTooManyFiles
    <2>4. QED
      BY <2>1, <2>2, <2>3
  <1>5. CASE Read
    <2>1. PICK c \in Contents(Top.file) :
            \/ ReadFails(c) \/ ReadTooManyBytes(c) \/ ParseFails(c) \/ ParsedTooManyNodes(c)
            \/ Parsed(c)
      BY <1>5 DEF Read
    <2>2. CASE Parsed(c)
      BY <1>1, <2>2 DEF Parsed, OutcomeTold
    <2>3. CASE ~ Parsed(c)
      BY <2>1, <2>3, FailTells DEF ReadFails, ReadTooManyBytes, ParseFails, ParsedTooManyNodes
    <2>4. QED
      BY <2>2, <2>3
  <1>6. CASE LoadImport
    BY <1>1, <1>6 DEF LoadImport, OutcomeTold
  <1>7. CASE MergeImport
    BY <1>1, <1>2, <1>7 DEF MergeImport, OutcomeTold
  <1>8. CASE Finish
    BY <1>1, <1>8, FailTells DEF Finish, Return, OutcomeTold
  <1>9. CASE Deliver
    BY <1>9 DEF Deliver, OutcomeTold
  <1>10. CASE Terminated
    BY <1>10 DEF Terminated, Ended
  <1>11. QED
    BY <1>3, <1>4, <1>5, <1>6, <1>7, <1>8, <1>9, <1>10 DEF Next

\* The Go port, where it does not walk as the Rust port does.
GoParts ==
  /\ Fail("SYSTEM", NoOrigin)
  /\ \/ pc = "load" /\ target = Missing /\ stack = <<>>
     \/ /\ pc = "read" /\ OwnOrigin = NoOrigin
        /\ \E c \in Contents(Top.file) : Reading(c) /\ ~ HasBytes(c)

\* Nothing else does the Go port do in its own way.
LEMMA GoWalks ==
  ASSUME IInv, GoNext
  PROVE  Next \/ GoParts
  <1>1. CASE GoLoadUnresolvable
    <2>1. CASE stack = <<>>
      BY <1>1, <2>1 DEF GoLoadUnresolvable, FailUnwrapped, GoParts
    <2>2. CASE stack # <<>>
      BY <1>1, <2>2 DEF GoLoadUnresolvable, LoadUnresolvable, Refuse, Load, Next
    <2>3. QED
      BY <2>1, <2>2
  <1>2. CASE GoLoad /\ ~ GoLoadUnresolvable
    BY <1>2 DEF GoLoad, Load, Next
  <1>3. CASE GoRead
    <2>1. PICK c \in Contents(Top.file) :
            \/ GoReadFails(c) \/ ReadTooManyBytes(c) \/ ParseFails(c)
            \/ ParsedTooManyNodes(c) \/ Parsed(c)
      BY <1>3 DEF GoRead
    <2>2. CASE GoReadFails(c) /\ OwnOrigin = NoOrigin
      BY <1>3, <2>2 DEF GoRead, GoReadFails, FailUnwrapped, GoParts
    <2>3. CASE GoReadFails(c) /\ OwnOrigin # NoOrigin
      BY <1>3, <2>3 DEF GoRead, GoReadFails, ReadFails, Read, Next
    <2>4. CASE ~ GoReadFails(c)
      BY <1>3, <2>1, <2>4 DEF GoRead, Read, Next
    <2>5. QED
      BY <2>2, <2>3, <2>4
  <1>4. CASE GoMergeImport
    BY <1>4, LookedUpIsReturned DEF Next
  <1>5. CASE OpenRoot \/ RootNotFound \/ LoadImport \/ Finish \/ Deliver \/ Terminated
    BY <1>5 DEF Next
  <1>6. QED
    BY <1>1, <1>2, <1>3, <1>4, <1>5 DEF GoNext

\* The Zig port, where it does not walk as the Rust port does.
ZigParts ==
  /\ pc = "read"
  /\ Fail("FILE_TOO_LARGE", OwnOrigin)
  /\ \E c \in Contents(Top.file) : Reading(c) /\ NotReadToEnd(c)

\* Nothing else does the Zig port do in its own way.
LEMMA ZigWalks ==
  ASSUME ZigNext
  PROVE  Next \/ ZigParts
  <1>1. CASE ZigRead
    <2>1. PICK c \in Contents(Top.file) :
            \/ OpenFails(c) \/ ReadToEndFails(c)
            \/ /\ ~ NotReadToEnd(c)
               /\ \/ ReadTooManyBytes(c) \/ ParseFails(c) \/ ParsedTooManyNodes(c) \/ Parsed(c)
      BY <1>1 DEF ZigRead
    <2>2. CASE ReadToEndFails(c)
      BY <1>1, <2>2 DEF ZigRead, ReadToEndFails, ZigParts
    <2>3. CASE OpenFails(c)
      <3>1. ReadFails(c)
        BY <2>3 DEF OpenFails, ReadFails, HasBytes
      <3>2. QED
        BY <1>1, <3>1 DEF ZigRead, Read, Next
    <2>4. CASE ~ (OpenFails(c) \/ ReadToEndFails(c))
      BY <1>1, <2>1, <2>4 DEF ZigRead, Read, Next
    <2>5. QED
      BY <2>2, <2>3, <2>4
  <1>2. CASE ~ ZigRead
    BY <1>2 DEF ZigNext, Next
  <1>3. QED
    BY <1>1, <1>2

\* On every port.
LEMMA StepTells ==
  ASSUME IInv, Step, OutcomeTold
  PROVE  OutcomeTold'
  <1>1. CASE Ended
    BY <1>1, EndedStays DEF vars, OutcomeTold
  <1>2. CASE ~ Ended /\ Next
    BY <1>2, WalkTells
  <1>3. CASE GoParts \/ ZigParts
    BY <1>3, FailTells DEF GoParts, ZigParts
  <1>4. QED
    BY <1>1, <1>2, <1>3, GoWalks, ZigWalks DEF Step

\* A step of a port neither renames the entry nor changes the limits.
LEMMA StepKeepsCall ==
  ASSUME Step
  PROVE  UNCHANGED <<entry, limits>>
  <1>1. ASSUME NEW code, NEW at, Fail(code, at) PROVE UNCHANGED <<entry, limits>>
    BY <1>1 DEF Fail
  <1>2. ASSUME NEW code, Refuse(code) PROVE UNCHANGED <<entry, limits>>
    BY <1>1, <1>2 DEF Refuse
  <1>3. Next => UNCHANGED <<entry, limits>>
    BY <1>1, <1>2 DEF Next, OpenRoot, RootNotFound, Load, LoadUnresolvable, LoadOutsideRoot,
                LoadCached, LoadCycle, LoadTooDeep, LoadTooManyFiles, Enter, Read, LoadImport,
                MergeImport, Finish, Deliver, Terminated, ReadFails, ReadTooManyBytes, ParseFails,
                ParsedTooManyNodes, Parsed, vars
  <1>4. GoParts \/ ZigParts => UNCHANGED <<entry, limits>>
    BY <1>1 DEF GoParts, ZigParts
  <1>5. GoMergeImport => UNCHANGED <<entry, limits>>
    BY <1>2 DEF GoMergeImport
  <1>6. GoLoad => UNCHANGED <<entry, limits>>
    BY <1>1, <1>2 DEF GoLoad, GoLoadUnresolvable, FailUnwrapped, LoadOutsideRoot, LoadCached,
                      LoadCycle, LoadTooDeep, LoadTooManyFiles, Enter
  <1>7. GoRead => UNCHANGED <<entry, limits>>
    BY <1>1 DEF GoRead, GoReadFails, FailUnwrapped, ReadTooManyBytes, ParseFails,
                ParsedTooManyNodes, Parsed
  <1>8. GoNext => UNCHANGED <<entry, limits>>
    BY <1>3, <1>5, <1>6, <1>7 DEF GoNext, Next
  <1>9. QED
    BY <1>3, <1>4, <1>8, ZigWalks DEF Step

\* Where Go leaves the track, the Rust port does not find the entry file.
LEMMA GoPartsFail ==
  ASSUME IInv, GoParts, NEW src, \A f \in Needs(Here) : source'[f] = src[f]
  PROVE  /\ After(Here, src, CallWith(limits)).pc = "failed"
         /\ After(Here, src, CallWith(limits)).outcome =
              [status |-> "failed", code |-> "IMPORT_NOT_FOUND", at |-> NoOrigin]
  <1> DEFINE lost == [status |-> "failed", code |-> "IMPORT_NOT_FOUND", at |-> NoOrigin]
             Lost(x) == x.pc = "failed" /\ x.outcome = lost
  <1>1. Lost(Stopped(Here, "IMPORT_NOT_FOUND", NoOrigin))
    BY StateFields DEF Stopped
  <1>2. CASE pc = "load" /\ target = Missing /\ stack = <<>>
    <2>1. After(Here, src, CallWith(limits)) = Refused(Here, "IMPORT_NOT_FOUND")
      BY <1>2, HereFields DEF After, AfterLoad
    <2>2. OriginIn(Here, Len(Here.stack)) = NoOrigin
      BY <1>2, HereFields DEF OriginIn
    <2>3. QED
      BY <1>1, <2>1, <2>2 DEF Refused
  <1>3. CASE pc = "read" /\ OwnOrigin = NoOrigin
    <2>1. PICK c \in Contents(Top.file) : Reading(c) /\ ~ HasBytes(c)
      BY <1>3 DEF GoParts
    <2>2. Top.file \in File /\ source' = [source EXCEPT ![Top.file] = c]
      BY <1>3, <2>1, ReadingOnlyTop DEF Reading
    <2>3. source'[Top.file] = c
      BY <2>2 DEF IInv, TypeOK
    <2>4. src[TopOf(Here).file] = c
      BY <1>3, <2>3, HereFields DEF Needs
    <2>5. After(Here, src, CallWith(limits)) = AfterRead(Here, c, CallWith(limits))
      BY <1>3, <2>4, HereFields DEF After
    <2>6. OriginIn(Here, Len(Here.stack) - 1) = NoOrigin
      BY <1>3, HereFields DEF OriginIn, OwnOrigin, OriginAt
    <2>7. AfterRead(Here, c, CallWith(limits)) = Stopped(Here, "IMPORT_NOT_FOUND", NoOrigin)
      BY <2>1, <2>6 DEF AfterRead, HasBytes
    <2>8. QED
      BY <1>1, <2>5, <2>7
  <1>4. QED
    BY <1>2, <1>3 DEF GoParts

\* Where Zig leaves the track, the Rust port fails too.
LEMMA ZigPartsFail ==
  ASSUME IInv, ZigParts, NEW src, \A f \in Needs(Here) : source'[f] = src[f]
  PROVE  /\ After(Here, src, CallWith(limits)).pc = "failed"
         /\ After(Here, src, CallWith(limits)).outcome.status = "failed"
         /\ Top.file \in File /\ source'[Top.file] # Unread /\ NotReadToEnd(source'[Top.file])
  <1>1. ASSUME NEW x, NEW code, NEW at
        PROVE  Stopped(x, code, at).pc = "failed" /\ Stopped(x, code, at).outcome.status = "failed"
    BY StateFields DEF Stopped
  <1>2. PICK c \in Contents(Top.file) : Reading(c) /\ NotReadToEnd(c)
    BY DEF ZigParts
  <1>3. pc = "read"
    BY DEF ZigParts
  <1>4. Top.file \in File /\ source' = [source EXCEPT ![Top.file] = c] /\ c \in Source
    BY <1>2, <1>3, ReadingOnlyTop, SourceAssumption DEF Reading
  <1>5. source'[Top.file] = c
    BY <1>4 DEF IInv, TypeOK
  <1>6. c # Unread
    BY <1>4 DEF Source, Unread
  <1>7. src[TopOf(Here).file] = c
    BY <1>3, <1>5, HereFields DEF Needs
  <1>8. After(Here, src, CallWith(limits)) = AfterRead(Here, c, CallWith(limits))
    BY <1>3, <1>7, HereFields DEF After
  <1>9. c.outcome # "document"
    BY <1>2 DEF NotReadToEnd
  <1>10. QED
    BY <1>1, <1>2, <1>4, <1>5, <1>6, <1>8, <1>9 DEF AfterRead, AfterParse

\* What a port finds in the files its next step depends on, Rust found there.
LEMMA SameNeeds ==
  ASSUME SameWorld', UNCHANGED finished, "rust" \in DOMAIN finished,
         \A f \in Needs(Here) : f \in File /\ finished["rust"].source[f] # Unread,
         \A f \in Needs(Here) : source'[f] # Unread
  PROVE  \A f \in Needs(Here) : source'[f] = finished["rust"].source[f]
  BY DEF SameWorld

\* A step of a later port keeps to the track, or fails where the Rust port did.
LEMMA TrackStep ==
  ASSUME IInv, Resolve, port \in {"go", "zig"}, "rust" \in DOMAIN finished, RootTold,
         limits = WithDefaults(options), OnTrack, ~ Ended
  PROVE  OnTrack' \/ Parted'
  <1> DEFINE src == finished["rust"].source
             ours == finished["rust"].outcome
  <1>1. PICK n, run : RustWalk(run, n) /\ \E i \in 0..n : run[i] = Here
    BY DEF OnTrack
  <1>2. PICK i \in 0..n : run[i] = Here
    BY <1>1
  <1>3. /\ Step /\ SameWorld' /\ UNCHANGED <<options, rootFound, port, finished>>
        /\ pc = "open" => (rootFound <=> pc' # "failed")
    BY DEF Resolve
  <1>4. UNCHANGED <<entry, limits>> /\ RustCall = CallWith(limits) /\ RustCall' = RustCall
    BY <1>3, StepKeepsCall DEF RustCall, CallWith
  <1>5. /\ n \in Nat /\ Walk(run, n, src, RustCall) /\ Final(run[n]) /\ run[n].outcome = ours
    BY <1>1 DEF RustWalk, Walk
  <1>6. ~ Final(Here)
    BY HereFields DEF Final, Ended
  <1>7. i \in 0..(n - 1)
    <2>1. i # n
      BY <1>2, <1>5, <1>6
    <2>2. QED
      BY <1>5, <2>1
  <1>8. /\ run[i + 1] = After(Here, src, CallWith(limits))
        /\ \A f \in Needs(Here) : f \in File /\ src[f] # Unread
    BY <1>2, <1>4, <1>5, <1>7 DEF Walk
  <1>9. ASSUME Final(run[i + 1]) PROVE run[i + 1].outcome = ours
    <2>1. i + 1 \notin 0..(n - 1)
      BY <1>5, <1>9 DEF Walk
    <2>2. i + 1 = n
      BY <1>5, <1>7, <2>1
    <2>3. QED
      BY <1>5, <2>2
  <1>10. CASE Next
    <2>1. /\ Here' = After(Here, source', CallWith(limits))
          /\ \A f \in Needs(Here) : source'[f] # Unread
      BY <1>3, <1>6, <1>10, WalkFollows
    <2>2. \A f \in Needs(Here) : source'[f] = src[f]
      BY <1>3, <1>8, <2>1, SameNeeds
    <2>3. Here' = run[i + 1]
      BY <1>6, <1>8, <2>1, <2>2, AfterDepends
    <2>4. RustWalk(run, n)'
      BY <1>3, <1>4, <1>5 DEF RustWalk
    <2>5. i + 1 \in 0..n
      BY <1>5, <1>7
    <2>6. QED
      BY <2>3, <2>4, <2>5 DEF OnTrack
  <1>11. CASE GoParts /\ port = "go"
    <2>1. \A f \in Needs(Here) : source'[f] # Unread
      <3>1. ASSUME pc = "read" PROVE source'[Top.file] # Unread
        <4>1. PICK c \in Contents(Top.file) : Reading(c)
          BY <1>11, <3>1 DEF GoParts
        <4>2. Top.file \in File /\ source' = [source EXCEPT ![Top.file] = c] /\ c \in Source
          BY <3>1, <4>1, ReadingOnlyTop, SourceAssumption DEF Reading
        <4>3. QED
          BY <4>2 DEF IInv, TypeOK, Source, Unread
      <3>2. QED
        BY <1>11, <3>1, HereFields DEF GoParts, Needs
    <2>2. \A f \in Needs(Here) : source'[f] = src[f]
      BY <1>3, <1>8, <2>1, SameNeeds
    <2>3. /\ run[i + 1].pc = "failed"
          /\ run[i + 1].outcome =
               [status |-> "failed", code |-> "IMPORT_NOT_FOUND", at |-> NoOrigin]
      BY <1>8, <1>11, <2>2, GoPartsFail
    <2>4. ours = [status |-> "failed", code |-> "IMPORT_NOT_FOUND", at |-> NoOrigin]
      BY <1>9, <2>3 DEF Final
    <2>5. outcome' = [status |-> "failed", code |-> "SYSTEM", at |-> NoOrigin] /\ pc' = "failed"
      BY <1>11 DEF GoParts, Fail
    <2>6. rootFound'
      BY <1>3, <1>11 DEF GoParts, RootTold
    <2>7. port' = "go" /\ finished'["rust"].outcome = ours
      BY <1>3, <1>11
    <2>8. QED
      BY <2>4, <2>5, <2>6, <2>7 DEF Parted, Agreed, SameFailure
  <1>12. CASE ZigParts /\ port = "zig"
    <2>1. Top.file \in File /\ source'[Top.file] # Unread /\ NotReadToEnd(source'[Top.file])
      BY <1>12, ZigPartsFail
    <2>2. \A f \in Needs(Here) : source'[f] # Unread
      BY <1>12, <2>1, HereFields DEF ZigParts, Needs
    <2>3. \A f \in Needs(Here) : source'[f] = src[f]
      BY <1>3, <1>8, <2>2, SameNeeds
    <2>4. run[i + 1].pc = "failed" /\ run[i + 1].outcome.status = "failed"
      BY <1>8, <1>12, <2>3, ZigPartsFail
    <2>5. ours.status = "failed"
      BY <1>9, <2>4 DEF Final
    <2>6. /\ outcome'.status = "failed" /\ outcome'.code = "FILE_TOO_LARGE" /\ pc' = "failed"
      BY <1>12 DEF ZigParts, Fail
    <2>7. port' = "zig" /\ finished'["rust"].outcome = ours
      BY <1>3, <1>12
    <2>8. \E f \in File : SourceOf("zig")'[f] # Unread /\ NotReadToEnd(SourceOf("zig")'[f])
      BY <2>1, <2>7 DEF SourceOf, NotReadToEnd
    <2>9. SameFailure("zig", ours, outcome)'
      BY <2>6, <2>8, <2>7 DEF SameFailure, NotReadToEnd
    <2>10. QED
      BY <2>5, <2>6, <2>7, <2>9 DEF Parted, Agreed
  <1>13. QED
    BY <1>3, <1>10, <1>11, <1>12, GoWalks, ZigWalks DEF Step

\* A later port keeps what compares it with the Rust port.
LEMMA ComparedStep ==
  ASSUME IInv, HInv, Resolve, port \in {"rust", "go", "zig"}
  PROVE  Compared'
  <1> SUFFICES ASSUME port' # "rust" PROVE Compared'
    BY DEF Compared
  <1>1. /\ Step /\ UNCHANGED <<options, rootFound, port, finished>>
        /\ port \in {"go", "zig"}
    BY DEF Resolve
  <1>2. UNCHANGED <<entry, limits>> /\ RustCall' = RustCall
    BY <1>1, StepKeepsCall DEF RustCall, CallWith
  <1>3. /\ "rust" \in DOMAIN finished
        /\ finished["rust"].outcome.status \in {"done", "failed"}
        /\ \E n, run : RustWalk(run, n)
        /\ limits = WithDefaults(options) => OnTrack \/ Parted
        /\ port = "zig" =>
             /\ "go" \in DOMAIN finished
             /\ Agreed("go", finished["rust"].outcome, finished["go"].outcome)
    BY <1>1 DEF HInv, Compared
  <1>4. \E n, run : RustWalk(run, n)'
    BY <1>1, <1>2, <1>3 DEF RustWalk
  <1>5. ASSUME port = "zig"
        PROVE  Agreed("go", finished["rust"].outcome, finished["go"].outcome)'
    BY <1>1, <1>3, <1>5 DEF Agreed, SameFailure
  <1>6. ASSUME limits = WithDefaults(options) PROVE OnTrack' \/ Parted'
    <2>1. CASE Ended
      <3>1. UNCHANGED vars
        BY <1>1, <2>1, EndedStays
      <3>2. Here' = Here
        BY <3>1 DEF Here, vars
      <3>3. OnTrack => OnTrack'
        BY <1>1, <1>2, <3>2 DEF OnTrack, RustWalk
      <3>4. Parted => Parted'
        BY <1>1, <3>1 DEF Parted, Agreed, SameFailure, SourceOf, vars
      <3>5. QED
        BY <1>3, <1>6, <3>3, <3>4
    <2>2. CASE ~ Ended
      <3>1. OnTrack
        BY <1>3, <1>6, <2>2 DEF Parted, Ended
      <3>2. QED
        BY <1>1, <1>3, <1>6, <2>2, <3>1, TrackStep DEF HInv
    <2>3. QED
      BY <2>1, <2>2
  <1>7. QED
    BY <1>1, <1>2, <1>3, <1>4, <1>5, <1>6 DEF Compared

\* The history of the Rust walk grows by each step.
LEMMA TracedStep ==
  ASSUME IInv, HInv, Resolve
  PROVE  RustTraced'
  <1> SUFFICES ASSUME port' = "rust" PROVE RustTraced'
    BY DEF RustTraced
  <1>1. /\ Step /\ UNCHANGED <<options, rootFound, port, finished>> /\ port = "rust"
        /\ pc = "open" => (rootFound <=> pc' # "failed")
    BY DEF Resolve
  <1>2. UNCHANGED <<entry, limits>> /\ RustCall' = RustCall
    BY <1>1, StepKeepsCall DEF RustCall, CallWith
  <1>3. DOMAIN finished = {} /\ RustCall = CallWith(limits)
    BY <1>1 DEF HInv, RustTraced, Call, RustCall
  <1>4. PICK n, run : Walk(run, n, source, RustCall) /\ run[n] = Here
    BY <1>1 DEF HInv, RustTraced
  <1>5. CASE Ended
    <2>1. UNCHANGED vars
      BY <1>1, <1>5, EndedStays
    <2>2. Here' = Here /\ source' = source
      BY <2>1 DEF Here, vars
    <2>3. QED
      BY <1>1, <1>2, <1>3, <1>4, <2>2 DEF RustTraced
  <1>6. CASE ~ Ended
    <2>1. Next /\ ~ Final(Here)
      BY <1>1, <1>6, HereFields DEF Step, Final, Ended
    <2>2. /\ Here' = After(Here, source', RustCall)
          /\ \A f \in Needs(Here) : f \in File /\ source'[f] # Unread
      BY <1>1, <1>3, <2>1, WalkFollows
    <2>3. \A f \in File : source[f] # Unread => source'[f] = source[f]
      BY <2>1, ReadsOnce
    <2>4. Walk(run, n, source', RustCall)
      BY <1>4, <2>3, WalkGrows
    <2>5. \E more : Walk(more, n + 1, source', RustCall) /\ more[n + 1] = Here'
      BY <1>4, <2>1, <2>2, <2>4, WalkGoesOn
    <2>6. QED
      BY <1>1, <1>2, <1>3, <2>5 DEF RustTraced
  <1>7. QED
    BY <1>5, <1>6

\* A port takes its limits from the options; the root is found once it is open.
LEMMA CallStep ==
  ASSUME IInv, HInv, Resolve
  PROVE  (limits = Call(port))' /\ OutcomeTold' /\ RootTold'
  <1>1. /\ Step /\ UNCHANGED <<options, rootFound, port>>
        /\ pc = "open" => (rootFound <=> pc' # "failed")
    BY DEF Resolve
  <1>2. (limits = Call(port))'
    BY <1>1, StepKeepsCall DEF HInv, Call
  <1>3. OutcomeTold'
    BY <1>1, StepTells DEF HInv
  <1>4. RootTold'
    <2>1. CASE pc = "failed"
      BY <1>1, <2>1, EndedStays DEF Ended, vars, RootTold
    <2>2. CASE pc # "failed"
      BY <1>1, <2>2 DEF HInv, RootTold
    <2>3. QED
      BY <2>1, <2>2
  <1>5. QED
    BY <1>2, <1>3, <1>4

\* A step that changes nothing keeps the comparison.
LEMMA HistoryStutters ==
  ASSUME HInv, UNCHANGED portVars
  PROVE  HInv'
  <1>1. /\ UNCHANGED <<options, rootFound, port, finished, entry, limits, pc, stack, target>>
        /\ UNCHANGED <<ret, done, source, used, outcome>>
    BY DEF portVars, vars
  <1>2. Here' = Here /\ RustCall' = RustCall
    BY <1>1 DEF Here, RustCall, CallWith
  <1>3. (limits = Call(port))' /\ OutcomeTold' /\ RootTold'
    BY <1>1 DEF HInv, Call, OutcomeTold, RootTold
  <1>4. RustTraced'
    BY <1>1, <1>2 DEF HInv, RustTraced
  <1>5. OnTrack => OnTrack'
    BY <1>1, <1>2 DEF OnTrack, RustWalk
  <1>6. Parted => Parted'
    BY <1>1 DEF Parted, Agreed, SameFailure, SourceOf
  <1>7. (\E n, run : RustWalk(run, n)) => \E n, run : RustWalk(run, n)'
    BY <1>1, <1>2 DEF RustWalk
  <1>8. Compared'
    BY <1>1, <1>5, <1>6, <1>7 DEF HInv, Compared, Agreed, SameFailure
  <1>9. QED
    BY <1>3, <1>4, <1>8 DEF HInv

\* A port that has kept to the track ends with the answer of the Rust port.
LEMMA TrackEnds ==
  ASSUME OnTrack, Final(Here)
  PROVE  outcome = finished["rust"].outcome
  <1>1. PICK n, run : RustWalk(run, n) /\ \E i \in 0..n : run[i] = Here
    BY DEF OnTrack
  <1>2. PICK i \in 0..n : run[i] = Here
    BY <1>1
  <1>3. n \in Nat /\ i \notin 0..(n - 1)
    BY <1>1, <1>2 DEF RustWalk, Walk
  <1>4. i = n
    BY <1>2, <1>3
  <1>5. QED
    BY <1>1, <1>2, <1>4, HereFields DEF RustWalk

\* The comparison is the agreement that is promised.
LEMMA HistoryAgrees ==
  ASSUME CallsTyped, HInv
  PROVE  PortsAgree
  <1> SUFFICES ASSUME NEW p \in {"go", "zig"}, Pending \notin {OutcomeOf("rust"), OutcomeOf(p)},
                      p = "zig" => options = WithDefaults(options)
               PROVE  Agreed(p, OutcomeOf("rust"), OutcomeOf(p))
    BY DEF PortsAgree, Agreed
  <1>1. "zig" \notin DOMAIN finished /\ port \in {"rust", "go", "zig"}
    BY DEF CallsTyped, Follower
  <1>2. port # "rust"
    BY <1>1 DEF OutcomeOf, HInv, RustTraced
  <1>3. /\ "rust" \in DOMAIN finished /\ OutcomeOf("rust") = finished["rust"].outcome
    BY <1>2 DEF HInv, Compared, OutcomeOf
  <1>4. CASE p = port
    <2>1. OutcomeOf(p) = outcome /\ outcome # Pending
      BY <1>4 DEF OutcomeOf
    <2>2. limits = WithDefaults(options)
      BY <1>2, <1>4 DEF HInv, Call
    <2>3. OnTrack \/ Parted
      BY <1>2, <2>2 DEF HInv, Compared
    <2>4. CASE OnTrack
      <3>1. Final(Here)
        BY <2>1, HereFields DEF HInv, OutcomeTold, Final
      <3>2. QED
        BY <1>3, <2>1, <2>4, <3>1, TrackEnds DEF Agreed, SameFailure
    <2>5. CASE Parted
      BY <1>3, <1>4, <2>1, <2>5 DEF Parted
    <2>6. QED
      BY <2>3, <2>4, <2>5
  <1>5. CASE p # port
    <2>1. p = "go" /\ port = "zig"
      BY <1>1, <1>2, <1>5 DEF OutcomeOf
    <2>2. /\ OutcomeOf(p) = finished["go"].outcome
          /\ Agreed("go", finished["rust"].outcome, finished["go"].outcome)
      BY <1>2, <2>1 DEF HInv, Compared, OutcomeOf
    <2>3. QED
      BY <1>3, <2>1, <2>2
  <1>6. QED
    BY <1>4, <1>5

\* The next port is called: it stands where the Rust walk began.
LEMMA SwitchCompares ==
  ASSUME IInv, HInv, CallsTyped, Switch
  PROVE  HInv'
  <1>1. /\ Ended /\ port \in {"rust", "go"} /\ port' = Follower[port]
        /\ finished' = [p \in DOMAIN finished \cup {port} |->
                          IF p = port THEN [source |-> source, outcome |-> outcome]
                          ELSE finished[p]]
        /\ limits' = Call(port')
        /\ UNCHANGED <<entry, options, rootFound>>
        /\ pc' = "open" /\ stack' = <<>> /\ target' = entry /\ ret' = <<>>
        /\ done' = [f \in {} |-> <<>>] /\ source' = [f \in File |-> Unread]
        /\ used' = [name \in LimitNames |-> 0] /\ outcome' = Pending
    BY DEF Switch, Follower
  <1>2. OutcomeTold' /\ RootTold'
    BY <1>1 DEF OutcomeTold, RootTold
  <1>3. port' \in {"go", "zig"} /\ (port = "rust" <=> port' = "go") /\ (port = "go" <=> port' = "zig")
    BY <1>1 DEF Follower
  <1>4. RustCall' = RustCall
    BY <1>1 DEF RustCall, CallWith
  <1>5. Here' = FirstOf(RustCall)
    BY <1>1 DEF Here, FirstOf, RustCall, CallWith
  <1>6. Final(Here)
    BY <1>1, HereFields DEF Final, Ended
  <1>7. /\ "rust" \in DOMAIN finished'
        /\ finished'["rust"].outcome.status \in {"done", "failed"}
        /\ \E n, run : RustWalk(run, n)'
    <2>1. CASE port = "rust"
      <3>1. /\ "rust" \in DOMAIN finished'
            /\ finished'["rust"] = [source |-> source, outcome |-> outcome]
        BY <1>1, <2>1
      <3>2. outcome.status \in {"done", "failed"}
        BY <1>1 DEF HInv, OutcomeTold, Ended
      <3>3. PICK n, run : Walk(run, n, source, RustCall) /\ run[n] = Here
        BY <2>1 DEF HInv, RustTraced
      <3>4. Walk(run, n, finished'["rust"].source, RustCall')
        BY <1>4, <3>1, <3>3
      <3>5. Final(run[n]) /\ run[n].outcome = finished'["rust"].outcome
        BY <1>6, <3>1, <3>3, HereFields
      <3>6. QED
        BY <3>1, <3>2, <3>4, <3>5 DEF RustWalk
    <2>2. CASE port = "go"
      <3>1. /\ "rust" \in DOMAIN finished
            /\ finished["rust"].outcome.status \in {"done", "failed"}
            /\ \E n, run : RustWalk(run, n)
        BY <2>2 DEF HInv, Compared
      <3>2. "rust" \in DOMAIN finished' /\ finished'["rust"] = finished["rust"]
        BY <1>1, <2>2, <3>1
      <3>3. QED
        BY <1>4, <3>1, <3>2 DEF RustWalk
    <2>3. QED
      BY <1>1, <2>1, <2>2
  <1>8. OnTrack'
    <2>1. PICK n, run : RustWalk(run, n)'
      BY <1>7
    <2>2. n \in Nat /\ run[0] = FirstOf(RustCall)
      BY <1>4, <2>1 DEF RustWalk, Walk
    <2>3. 0 \in 0..n /\ run[0] = Here'
      BY <1>5, <2>2
    <2>4. QED
      BY <2>1, <2>3 DEF OnTrack
  <1>9. ASSUME port' = "zig"
        PROVE  /\ "go" \in DOMAIN finished'
               /\ Agreed("go", finished["rust"].outcome, finished["go"].outcome)'
    <2>1. port = "go"
      BY <1>3, <1>9
    <2>2. /\ "go" \in DOMAIN finished'
          /\ finished'["go"] = [source |-> source, outcome |-> outcome]
      BY <1>1, <2>1
    <2>3. "rust" \in DOMAIN finished /\ (OnTrack \/ Parted)
      BY <2>1 DEF HInv, Compared, Call
    <2>4. finished'["rust"] = finished["rust"]
      BY <1>1, <2>1, <2>3
    <2>5. CASE OnTrack
      BY <1>1, <2>2, <2>4, <2>5, <1>6, TrackEnds DEF Agreed, SameFailure
    <2>6. CASE Parted
      BY <1>1, <2>1, <2>2, <2>4, <2>6 DEF Parted, Agreed, SameFailure
    <2>7. QED
      BY <2>3, <2>5, <2>6
  <1>10. Compared'
    BY <1>7, <1>8, <1>9 DEF Compared
  <1>11. RustTraced'
    BY <1>3 DEF RustTraced
  <1>12. (limits = Call(port))'
    BY <1>1 DEF Call
  <1>13. QED
    BY <1>2, <1>10, <1>11, <1>12 DEF HInv

\* The first call begins where its history does.
LEMMA BeginsTraced ==
  ASSUME PortsInit
  PROVE  HInv
  <1>1. /\ port = "rust" /\ limits = Call(port) /\ DOMAIN finished = {}
        /\ pc = "open" /\ outcome = Pending
    BY DEF PortsInit, Start
  <1>2. Here = FirstOf(RustCall)
    BY DEF PortsInit, Start, Here, FirstOf, RustCall, CallWith
  <1> DEFINE run == [i \in {0} |-> Here]
  <1>3. Walk(run, 0, source, RustCall) /\ run[0] = Here
    BY <1>2 DEF Walk
  <1> HIDE DEF run
  <1>4. RustTraced
    BY <1>1, <1>3 DEF RustTraced
  <1>5. QED
    BY <1>1, <1>4 DEF HInv, OutcomeTold, RootTold, Compared

\* On the same files the three ports give the same document, or refuse the graph
\* for the same defect at the same place, up to the two diagnostics in which Go
\* and Zig differ: for every graph, every overlay algebra and every limit, and
\* although each file is found as it is when the walk reaches it.
THEOREM PortsAgreement == PortsSpec => []PortsAgree
  <1>1. PortsInit => HInv
    BY BeginsTraced
  <1>2. IInv /\ CallsTyped /\ HInv /\ [PortsNext]_portVars => HInv'
    <2> SUFFICES ASSUME IInv, CallsTyped, HInv, [PortsNext]_portVars PROVE HInv'
      OBVIOUS
    <2>1. CASE Resolve
      BY <2>1, CallStep, TracedStep, ComparedStep DEF HInv, CallsTyped
    <2>2. CASE Switch
      BY <2>2, SwitchCompares
    <2>3. CASE UNCHANGED portVars
      BY <2>3, HistoryStutters
    <2>4. QED
      BY <2>1, <2>2, <2>3 DEF PortsNext
  <1>3. CallsTyped /\ HInv => PortsAgree
    BY HistoryAgrees
  <1>4. PortsTypeOK => CallsTyped
    BY DEF PortsTypeOK
  <1>5. QED
    BY <1>1, <1>2, <1>3, <1>4, PortsInductive, PortsTypeCorrect, PTL DEF PortsSpec

-----------------------------------------------------------------------------
\* Each port implements the contract.

\* The ports that have been called before one.
Before == [rust |-> {}, go |-> {"rust"}, zig |-> {"rust", "go"}]

\* The ports are called in turn, with the limits of their calls.
InTurn ==
  /\ options \in Options
  /\ limits = Call(port)
  /\ port \in {"rust", "go", "zig"}
  /\ DOMAIN finished = Before[port]

\* A step of the Go walk that is its own ends the call, with an answer.
LEMMA GoStepAnswers ==
  ASSUME IInv, CInv, GoNext, ~ UNCHANGED vars
  PROVE  CInv' /\ Answered
  <1>1. CASE Next
    BY <1>1, StepMeans, StepAnswers
  <1>2. CASE GoLoadUnresolvable
    <2>1. CASE stack # <<>>
      BY <1>1, <1>2, <2>1 DEF GoLoadUnresolvable, LoadUnresolvable, Refuse, Load, Next
    <2>2. CASE stack = <<>>
      <3>1. /\ pc = "load" /\ target = Missing /\ Fail("SYSTEM", NoOrigin)
            /\ UNCHANGED <<source, used>>
        BY <1>2, <2>2 DEF GoLoadUnresolvable, FailUnwrapped
      <3>2. OriginAt(Len(stack)) = NoOrigin /\ ImportOrigin = NoOrigin
        BY <2>2 DEF OriginAt, ImportOrigin
      <3>3. Refuse("SYSTEM")
        BY <3>1, <3>2 DEF Refuse
      <3>4. Graph!Defective(entry, limits, source, "SYSTEM", OriginAt(Len(stack)), target)
        BY <3>1, <3>2 DEF Graph!Defective, Graph!NoOrigin, NoOrigin
      <3>5. Answers(entry, limits, source', outcome')
        BY <3>1, <3>3, <3>4, LoadRefusal
      <3>6. CInv' /\ outcome = Pending /\ UNCHANGED <<entry, limits>>
        BY <3>1, EndMeans DEF Fail, CInv, Walking
      <3>7. QED
        BY <3>1, <3>5, <3>6 DEF Answered
    <2>3. QED
      BY <2>1, <2>2
  <1>3. ASSUME GoRead, NEW c \in Contents(Top.file), GoReadFails(c), OwnOrigin = NoOrigin
        PROVE  CInv' /\ Answered
    <2>1. pc = "read" /\ Reading(c) /\ ~ HasBytes(c) /\ Fail("SYSTEM", OwnOrigin)
      BY <1>3 DEF GoRead, GoReadFails, FailUnwrapped
    <2>2. Answers(entry, limits, source', outcome')
      BY <1>3, <2>1, UnreadAnswers
    <2>3. Learns
      BY <2>1, ReadLearns
    <2>4. CInv' /\ outcome = Pending /\ UNCHANGED <<entry, limits>>
      BY <2>1, EndMeans DEF Fail, CInv, Walking
    <2>5. QED
      BY <2>2, <2>3, <2>4 DEF Answered
  <1>4. CASE GoRead
    <2>1. PICK c \in Contents(Top.file) :
            \/ GoReadFails(c) \/ ReadTooManyBytes(c) \/ ParseFails(c)
            \/ ParsedTooManyNodes(c) \/ Parsed(c)
      BY <1>4 DEF GoRead
    <2>2. CASE GoReadFails(c) /\ OwnOrigin # NoOrigin
      BY <1>1, <1>4, <2>2 DEF GoRead, GoReadFails, ReadFails, Read, Next
    <2>3. CASE ~ GoReadFails(c)
      BY <1>1, <1>4, <2>1, <2>3 DEF GoRead, Read, Next
    <2>4. QED
      BY <1>3, <1>4, <2>2, <2>3
  <1>5. CASE GoMergeImport
    BY <1>1, <1>5, LookedUpIsReturned DEF Next
  <1>6. QED
    BY <1>1, <1>2, <1>4, <1>5 DEF GoNext, GoLoad, Load, Next

\* And so does one of the Zig walk.
LEMMA ZigStepAnswers ==
  ASSUME IInv, CInv, ZigNext, ~ UNCHANGED vars
  PROVE  CInv' /\ Answered
  <1>1. CASE Next
    BY <1>1, StepMeans, StepAnswers
  <1>2. CASE ZigParts
    <2>1. PICK c \in Contents(Top.file) :
            /\ pc = "read" /\ Reading(c) /\ c.outcome \in {"unreadable", "oversize"}
            /\ Fail("FILE_TOO_LARGE", OwnOrigin)
      BY <1>2 DEF ZigParts, NotReadToEnd
    <2>2. Answers(entry, limits, source', outcome')
      BY <2>1, TooLargeAnswers
    <2>3. Learns
      BY <2>1, ReadLearns
    <2>4. CInv' /\ outcome = Pending /\ UNCHANGED <<entry, limits>>
      BY <2>1, EndMeans DEF Fail, CInv, Walking
    <2>5. QED
      BY <2>2, <2>3, <2>4 DEF Answered
  <1>3. QED
    BY <1>1, <1>2, ZigWalks

\* A step of the call under way keeps what the walk means, and answers.
LEMMA ResolveAnswers ==
  ASSUME IInv, CInv, Resolve
  PROVE  CInv' /\ (UNCHANGED vars \/ Answered)
  <1>1. CASE UNCHANGED vars
    BY <1>1, StutterMeans
  <1>2. CASE ~ UNCHANGED vars
    BY <1>2, StepMeans, StepAnswers, GoStepAnswers, ZigStepAnswers DEF Resolve, Step
  <1>3. QED
    BY <1>1, <1>2

\* The calls follow each other in turn.
LEMMA TurnsStep ==
  ASSUME InTurn, [PortsNext]_portVars
  PROVE  InTurn'
  <1>1. CASE Resolve
    <2>1. UNCHANGED <<options, port, finished>> /\ limits' = limits
      BY <1>1, StepKeepsCall DEF Resolve
    <2>2. QED
      BY <2>1 DEF InTurn, Call
  <1>2. CASE Switch
    <2>1. /\ port \in DOMAIN Follower /\ port' = Follower[port] /\ limits' = Call(port')
          /\ DOMAIN finished' = DOMAIN finished \cup {port} /\ options' = options
      BY <1>2 DEF Switch
    <2>2. CASE port = "rust"
      <3>1. port' = "go"
        BY <2>1, <2>2 DEF Follower
      <3>2. DOMAIN finished' = {"rust"}
        BY <2>1, <2>2 DEF InTurn, Before
      <3>3. QED
        BY <2>1, <3>1, <3>2 DEF InTurn, Call, Before
    <2>3. CASE port = "go"
      <3>1. port' = "zig"
        BY <2>1, <2>3 DEF Follower
      <3>2. DOMAIN finished' = {"rust", "go"}
        BY <2>1, <2>3 DEF InTurn, Before
      <3>3. QED
        BY <2>1, <3>1, <3>2 DEF InTurn, Call, Before
    <2>4. QED
      BY <2>1, <2>2, <2>3 DEF Follower
  <1>3. CASE UNCHANGED portVars
    BY <1>3 DEF portVars, vars, InTurn, Call
  <1>4. QED
    BY <1>1, <1>2, <1>3 DEF PortsNext

\* What a caller of p knows stays as it is.
Stays(p) == UNCHANGED <<entry, Call(p), SourceOf(p), OutcomeOf(p)>>

\* What a caller of p knows is what the walk keeps, now and after the step.
Walks(p) ==
  /\ SourceOf(p) = source /\ OutcomeOf(p) = outcome /\ Call(p) = limits
  /\ SourceOf(p)' = source' /\ OutcomeOf(p)' = outcome' /\ Call(p)' = limits'

\* To the caller of each port, a step of the three is a step of its call, or none.
LEMMA CallerSees ==
  ASSUME IInv, CInv, InTurn, [PortsNext]_portVars, NEW p \in {"rust", "go", "zig"}
  PROVE  Stays(p) \/ (Answered /\ Walks(p))
  <1>1. CASE Resolve
    <2>1. UNCHANGED <<options, port, finished>> /\ UNCHANGED <<entry, limits>>
      BY <1>1, StepKeepsCall DEF Resolve
    <2>2. CASE port = p
      <3>1. Walks(p)
        BY <2>1, <2>2 DEF InTurn, Walks, SourceOf, OutcomeOf, Call
      <3>2. CASE UNCHANGED vars
        BY <2>1, <2>2, <3>1, <3>2 DEF Stays, Walks, vars
      <3>3. QED
        BY <1>1, <3>1, <3>2, ResolveAnswers
    <2>3. CASE port # p
      BY <2>1, <2>3 DEF Stays, SourceOf, OutcomeOf, Call
    <2>4. QED
      BY <2>2, <2>3
  <1>2. CASE Switch
    <2>1. /\ port \in DOMAIN Follower /\ port' = Follower[port]
          /\ finished' = [q \in DOMAIN finished \cup {port} |->
                            IF q = port THEN [source |-> source, outcome |-> outcome]
                            ELSE finished[q]]
          /\ source' = [f \in File |-> Unread] /\ outcome' = Pending
          /\ entry' = entry /\ options' = options
      BY <1>2 DEF Switch
    <2>2. DOMAIN finished = Before[port] /\ port \in {"rust", "go"}
      BY <2>1 DEF InTurn, Follower
    <2>3. port' # port /\ port' \notin DOMAIN finished /\ port' \notin DOMAIN finished'
      BY <2>1, <2>2 DEF Before, Follower
    <2>4. CASE p = port
      <3>1. /\ SourceOf(p) = source /\ OutcomeOf(p) = outcome
            /\ finished'[p] = [source |-> source, outcome |-> outcome]
            /\ p \in DOMAIN finished' /\ port' # p
        BY <2>1, <2>3, <2>4 DEF SourceOf, OutcomeOf
      <3>2. SourceOf(p)' = source /\ OutcomeOf(p)' = outcome
        BY <3>1 DEF SourceOf, OutcomeOf
      <3>3. QED
        BY <2>1, <3>1, <3>2 DEF Stays, Call
    <2>5. CASE p = port'
      <3>1. SourceOf(p) = [f \in File |-> Unread] /\ OutcomeOf(p) = Pending
        BY <2>3, <2>5 DEF SourceOf, OutcomeOf
      <3>2. SourceOf(p)' = source' /\ OutcomeOf(p)' = outcome'
        BY <2>5 DEF SourceOf, OutcomeOf
      <3>3. QED
        BY <2>1, <3>1, <3>2 DEF Stays, Call
    <2>6. CASE p # port /\ p # port'
      <3>1. /\ (p \in DOMAIN finished' <=> p \in DOMAIN finished)
            /\ p \in DOMAIN finished => finished'[p] = finished[p]
        BY <2>1, <2>6
      <3>2. SourceOf(p)' = SourceOf(p) /\ OutcomeOf(p)' = OutcomeOf(p)
        BY <2>6, <3>1 DEF SourceOf, OutcomeOf
      <3>3. QED
        BY <2>1, <3>2 DEF Stays, Call
    <2>7. QED
      BY <2>4, <2>5, <2>6
  <1>3. CASE UNCHANGED portVars
    BY <1>3 DEF portVars, vars, Stays, SourceOf, OutcomeOf, Call
  <1>4. QED
    BY <1>1, <1>2, <1>3 DEF PortsNext

\* No caller has learnt anything when the first call begins.
LEMMA CallersBegin ==
  ASSUME PortsInit, NEW p \in {"rust", "go", "zig"}
  PROVE  /\ entry \in File \cup {Missing, Outside}
         /\ Call(p) \in [LimitNames -> Nat]
         /\ SourceOf(p) = [f \in File |-> Unread]
         /\ OutcomeOf(p) = Pending
  BY CallType DEF PortsInit, Start, Target, SourceOf, OutcomeOf

\* Each of the three calls implements the contract of module ResolveContract: a
\* document is the meaning of a whole acyclic graph within every limit of that
\* call, and a diagnostic names a defect and a statement that shows it.
THEOREM ContractsKept == PortsSpec => KeepsContract
  <1> DEFINE Begun(p) == /\ entry \in File \cup {Missing, Outside}
                         /\ Call(p) \in [LimitNames -> Nat]
                         /\ SourceOf(p) = [f \in File |-> Unread]
                         /\ OutcomeOf(p) = Pending
             Seen(p) == Stays(p) \/ (Answered /\ Walks(p))
             AllInv == IInv /\ CInv /\ InTurn
  <1>1. AtStart => CInv
    BY StartMeans DEF AtStart
  <1>2. PortsInit => AtStart /\ InTurn
    BY CallType DEF PortsInit, AtStart, InTurn, Before
  <1>3. IInv /\ CInv /\ InTurn /\ [PortsNext]_portVars => (AtStart' \/ CInv') /\ InTurn'
    <2>1. SUFFICES ASSUME IInv, CInv, InTurn, [PortsNext]_portVars
                   PROVE  AtStart' \/ CInv'
      BY TurnsStep
    <2>2. CASE Resolve
      BY <2>1, <2>2, ResolveAnswers
    <2>3. CASE Switch
      BY <2>1, <2>3, SwitchBegins DEF InTurn
    <2>4. CASE UNCHANGED portVars
      BY <2>1, <2>4, StutterMeans DEF portVars, vars
    <2>5. QED
      BY <2>1, <2>2, <2>3, <2>4 DEF PortsNext
  <1>4. PortsInit => RustContract!Init /\ GoContract!Init /\ ZigContract!Init
    <2>1. SUFFICES ASSUME PortsInit PROVE RustContract!Init /\ GoContract!Init /\ ZigContract!Init
      OBVIOUS
    <2>2. Begun("rust") /\ Begun("go") /\ Begun("zig")
      BY <2>1, CallersBegin
    <2>3. QED
      BY <2>2 DEF RustContract!Init, GoContract!Init, ZigContract!Init, LimitNames
  <1>5. AllInv /\ [PortsNext]_portVars => Seen("rust") /\ Seen("go") /\ Seen("zig")
    BY CallerSees
  <1>6. Seen("rust") => [RustContract!Next]_(RustContract!vars)
    <2>1. CASE Stays("rust")
      BY <2>1 DEF Stays, RustContract!vars
    <2>2. CASE Answered /\ Walks("rust")
      BY <2>2 DEF Answered, Learns, Walks, RustContract!Next, RustContract!Learn
    <2>3. QED
      BY <2>1, <2>2
  <1>7. Seen("go") => [GoContract!Next]_(GoContract!vars)
    <2>1. CASE Stays("go")
      BY <2>1 DEF Stays, GoContract!vars
    <2>2. CASE Answered /\ Walks("go")
      BY <2>2 DEF Answered, Learns, Walks, GoContract!Next, GoContract!Learn
    <2>3. QED
      BY <2>1, <2>2
  <1>8. Seen("zig") => [ZigContract!Next]_(ZigContract!vars)
    <2>1. CASE Stays("zig")
      BY <2>1 DEF Stays, ZigContract!vars
    <2>2. CASE Answered /\ Walks("zig")
      BY <2>2 DEF Answered, Learns, Walks, ZigContract!Next, ZigContract!Learn
    <2>3. QED
      BY <2>1, <2>2
  <1>9. AllInv /\ [PortsNext]_portVars =>
          /\ [RustContract!Next]_(RustContract!vars)
          /\ [GoContract!Next]_(GoContract!vars)
          /\ [ZigContract!Next]_(ZigContract!vars)
    BY <1>5, <1>6, <1>7, <1>8
  <1> HIDE DEF Begun, Seen
  <1>10. QED
    BY <1>1, <1>2, <1>3, <1>4, <1>9, PortsInductive, PTL
       DEF PortsSpec, KeepsContract, RustContract!Spec, GoContract!Spec, ZigContract!Spec
=============================================================================

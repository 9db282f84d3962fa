------------------------------- MODULE Ports --------------------------------
(***************************************************************************)
(* The three resolvers, called one after another for the same entry file   *)
(* with the same options over the same files: the situation of the shared  *)
(* cases of testdata/resolution, and of a deployment whose parts are       *)
(* written in different languages.                                         *)
(*                                                                         *)
(* One walk is under way at a time, in the variables of module Resolver;   *)
(* finished keeps what the earlier ones read and answered.                 *)
(***************************************************************************)
EXTENDS GoResolver, ZigResolver

VARIABLES
  options,    \* the limits the caller asks for
  rootFound,  \* whether the resolution root can be opened
  port,       \* the resolver under way
  finished    \* what the ones before it read and answered

portVars == <<vars, options, rootFound, port, finished>>

Follower == [rust |-> "go", go |-> "zig"]

\* The limits of a call: Zig takes them as they are given.
Call(p) == IF p = "zig" THEN options ELSE WithDefaults(options)

PortsInit ==
  /\ Start
  /\ options \in Options
  /\ rootFound \in BOOLEAN
  /\ port = "rust"
  /\ limits = Call(port)
  /\ finished = [p \in {} |-> <<>>]

Step ==
  \/ port = "rust" /\ Next
  \/ port = "go" /\ GoNext
  \/ port = "zig" /\ ZigNext

Ended == pc \in {"done", "failed"}

\* A resolver finds in each file what those before it found there.
SameWorld ==
  \A p \in DOMAIN finished, f \in File :
    Unread \in {source[f], finished[p].source[f]} \/ source[f] = finished[p].source[f]

Resolve ==
  /\ UNCHANGED <<options, rootFound, port, finished>>
  /\ Step
  /\ pc = "open" => (rootFound <=> pc' # "failed")
  /\ SameWorld'

Switch ==
  /\ Ended /\ port \in DOMAIN Follower
  /\ finished' = [p \in DOMAIN finished \cup {port} |->
                    IF p = port THEN [source |-> source, outcome |-> outcome] ELSE finished[p]]
  /\ port' = Follower[port]
  /\ limits' = Call(port')
  /\ pc' = "open"
  /\ stack' = <<>>
  /\ target' = entry
  /\ ret' = <<>>
  /\ done' = [f \in {} |-> <<>>]
  /\ source' = [f \in File |-> Unread]
  /\ used' = [name \in LimitNames |-> 0]
  /\ outcome' = Pending
  /\ UNCHANGED <<entry, options, rootFound>>

AllEnded == Ended /\ port \notin DOMAIN Follower

PortsNext == Resolve \/ Switch

\* Each call runs to its end: one thread, which waits for nobody.
PortsSpec == PortsInit /\ [][PortsNext]_portVars /\ WF_portVars(PortsNext)

-----------------------------------------------------------------------------

CallsTyped ==
  /\ options \in Options
  /\ rootFound \in BOOLEAN
  /\ port \in {"rust", "go", "zig"}
  /\ DOMAIN finished \subseteq DOMAIN Follower
  /\ \A p \in DOMAIN finished : finished[p].source \in [File -> Source \cup {Unread}]

PortsTypeOK == TypeOK /\ CallsTyped

\* A file is read at most once in a call, whichever routes reach it and whatever
\* happens to it meanwhile: a result never mixes two versions of one file.
PortsReadOnce ==
  [][port' = port => \A f \in File : source[f] # Unread => source'[f] = source[f]]_portVars

\* The cache never answers for a file that is still being resolved, and what a
\* cached file imports is cached at a smaller depth: so no cycle is ever accepted,
\* and the depth that is kept is that of the longest chain below.
CacheIsSound == CacheAvoidsChain /\ CacheIsRanked

\* Nothing is ever overdrawn: neither the totals a call charges its limits with,
\* so that what is left of one cannot wrap below zero, nor the length of a chain
\* of imports, whether its end was walked or found in the cache.
LimitsHold == WithinLimits /\ DepthWithinLimit

\* What the caller of a port that has not answered yet knows.
SourceOf(p) ==
  IF p = port THEN source
  ELSE IF p \in DOMAIN finished THEN finished[p].source ELSE [f \in File |-> Unread]

OutcomeOf(p) ==
  IF p = port THEN outcome
  ELSE IF p \in DOMAIN finished THEN finished[p].outcome ELSE Pending

\* What the callers of the three ports see.
RustContract ==
  INSTANCE ResolveContract
    WITH source <- SourceOf("rust"), outcome <- OutcomeOf("rust"), limits <- Call("rust")

GoContract ==
  INSTANCE ResolveContract
    WITH source <- SourceOf("go"), outcome <- OutcomeOf("go"), limits <- Call("go")

ZigContract ==
  INSTANCE ResolveContract
    WITH source <- SourceOf("zig"), outcome <- OutcomeOf("zig"), limits <- Call("zig")

\* Each resolver keeps the contract (module ResolveContract): a document is the
\* meaning of the whole graph, and a diagnostic names a defect that is there.
KeepsContract == RustContract!Spec /\ GoContract!Spec /\ ZigContract!Spec

\* Two diagnostics that the ports give for one failure.  Go hands the system's
\* own error on for the file the caller named; Zig calls a file it could not
\* read too large, and says so where the file is imported.
SameFailure(p, ours, theirs) ==
  \/ theirs = ours
  \/ /\ p = "go" /\ rootFound
     /\ ours.code = "IMPORT_NOT_FOUND" /\ ours.at = NoOrigin
     /\ theirs.code = "SYSTEM" /\ theirs.at = NoOrigin
  \/ /\ p = "zig" /\ theirs.code = "FILE_TOO_LARGE"
     /\ \E f \in File : SourceOf(p)[f] # Unread /\ NotReadToEnd(SourceOf(p)[f])

\* On the same files, the ports give the same document, or refuse the graph for
\* the same defect at the same place; a caller who asks for a limit of zero is
\* understood differently by Zig.  (docs/conformance.md:16: every package runs the shared cases.)
PortsAgree ==
  \A p \in {"go", "zig"} :
    /\ Pending \notin {OutcomeOf("rust"), OutcomeOf(p)}
    /\ p = "zig" => options = WithDefaults(options)
    =>
      LET ours == OutcomeOf("rust")
          theirs == OutcomeOf(p)
      IN  /\ ours.status = theirs.status
          /\ IF ours.status = "done" THEN ours = theirs ELSE SameFailure(p, ours, theirs)

\* Each of the calls ends: with a document, or with a diagnostic.
PortsTermination == <>AllEnded
=============================================================================

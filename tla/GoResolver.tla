----------------------------- MODULE GoResolver -----------------------------
(***************************************************************************)
(* The import resolver of go/imports.go, as what it does differently from  *)
(* the walk of module Resolver.                                            *)
(*                                                                         *)
(* It enters a file before it counts it, and caches a file that imports    *)
(* nothing as soon as it is counted; a deferred leave and the error return *)
(* make both indistinguishable from the walk's own order.  What a caller   *)
(* can see: a failure to reach or to read the file the caller named is     *)
(* returned as the system's own error, without a diagnostic; and the depth *)
(* below an import is looked up in the cache, not handed back.             *)
(***************************************************************************)
EXTENDS Resolver

\* load returns the error it was handed when no import led to the file.
FailUnwrapped == Fail("SYSTEM", NoOrigin)

\* (Mutant.)  The error is handed on for an imported file as well.
GoLoadUnwrapped ==
  /\ pc = "load" /\ target = Missing
  /\ FailUnwrapped
  /\ UNCHANGED <<source, used>>

GoLoadUnresolvable ==
  /\ pc = "load" /\ target = Missing
  /\ IF stack = <<>> THEN FailUnwrapped ELSE Fail("IMPORT_NOT_FOUND", ImportOrigin)
  /\ UNCHANGED <<source, used>>

GoReadFails(c) ==
  /\ Reading(c) /\ ~ HasBytes(c)
  /\ IF OwnOrigin = NoOrigin THEN FailUnwrapped ELSE Fail("IMPORT_NOT_FOUND", OwnOrigin)
  /\ UNCHANGED used

\* r.done[imported.Path].depth, for the import that just returned.
DepthOf(f) == done[f].depth

GoMergeImport ==
  /\ pc = "return" /\ stack # <<>>
  /\ LET cost == MergeWork(Top.merged, ret.doc) IN
     \/ /\ Exceeds("work", cost)
        /\ Refuse("RESOLUTION_WORK_LIMIT")
     \/ /\ ~ Exceeds("work", cost)
        /\ pc' = "scan"
        /\ used' = [used EXCEPT !.work = @ + cost]
        /\ stack' = [stack EXCEPT ![Len(stack)] =
                       [Advanced EXCEPT !.depth = Deeper(Top.depth, DepthOf(ret.file))]]
        /\ UNCHANGED <<entry, limits, target, ret, done, source, outcome>>

GoLoad ==
  \/ GoLoadUnresolvable
  \/ LoadOutsideRoot
  \/ LoadCached
  \/ LoadCycle
  \/ LoadTooDeep
  \/ LoadTooManyFiles
  \/ Enter

GoRead ==
  /\ pc = "read"
  /\ \E c \in Contents(Top.file) :
       \/ GoReadFails(c)
       \/ ReadTooManyBytes(c)
       \/ ParseFails(c)
       \/ ParsedTooManyNodes(c)
       \/ Parsed(c)

GoNext ==
  \/ OpenRoot
  \/ RootNotFound
  \/ GoLoad
  \/ GoRead
  \/ LoadImport
  \/ GoMergeImport
  \/ Finish
  \/ Deliver
  \/ Terminated

GoSpec == Init /\ [][GoNext]_vars /\ WF_vars(GoNext)
=============================================================================

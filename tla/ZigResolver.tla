---------------------------- MODULE ZigResolver -----------------------------
(***************************************************************************)
(* The import resolver of zig/root.zig, as what it does differently from   *)
(* the walk of module Resolver: it takes limits as they are given, a zero  *)
(* included; and it reports every failure to read a file it has opened as  *)
(* one that is too large, at the statement that names the file and before  *)
(* any byte is charged.                                                    *)
(***************************************************************************)
EXTENDS Resolver

ZigInit == Start /\ limits \in Options

OpenFails(c) ==
  /\ Reading(c) /\ c.outcome = "absent"
  /\ Fail("IMPORT_NOT_FOUND", OwnOrigin)
  /\ UNCHANGED used

\* readToEndAlloc fails: more bytes than a file may have, or none to be had.
NotReadToEnd(c) == c.outcome \in {"unreadable", "oversize"}

ReadToEndFails(c) ==
  /\ Reading(c) /\ NotReadToEnd(c)
  /\ Fail("FILE_TOO_LARGE", OwnOrigin)
  /\ UNCHANGED used

ZigRead ==
  /\ pc = "read"
  /\ \E c \in Contents(Top.file) :
       \/ OpenFails(c)
       \/ ReadToEndFails(c)
       \/ /\ ~ NotReadToEnd(c)
          /\ \/ ReadTooManyBytes(c)
             \/ ParseFails(c)
             \/ ParsedTooManyNodes(c)
             \/ Parsed(c)

ZigNext ==
  \/ OpenRoot
  \/ RootNotFound
  \/ Load
  \/ ZigRead
  \/ LoadImport
  \/ MergeImport
  \/ Finish
  \/ Deliver
  \/ Terminated

ZigSpec == ZigInit /\ [][ZigNext]_vars /\ WF_vars(ZigNext)
=============================================================================

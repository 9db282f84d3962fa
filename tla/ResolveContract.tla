--------------------------- MODULE ResolveContract ---------------------------
(***************************************************************************)
(* What a resolution promises its caller, said of the import graph alone   *)
(* (module ImportGraph, which supplies Reach and Answers).                 *)
(*                                                                         *)
(* source grows as files are read.  The outcome, once there, is either the *)
(* meaning of a complete graph within every limit, or a diagnostic that    *)
(* names a real defect of the graph read so far and anchors it at the      *)
(* import statement that shows the defect.                                 *)
(***************************************************************************)
EXTENDS Naturals

CONSTANTS
  File, Missing, Outside, Contents(_), Unread, Pending,
  Reach(_, _),         \* Reach(src, t): what imports lead to from t
  Answers(_, _, _, _)  \* Answers(entry, limits, src, o): o may be answered

VARIABLES entry, limits, source, outcome

vars == <<entry, limits, source, outcome>>

\* A file that is reached is read: what it holds is what is there by then.
Learn ==
  \E f \in File :
    /\ source[f] = Unread
    /\ source'[f] \in Contents(f)
    /\ \A g \in File \ {f} : source'[g] = source[g]
    /\ f \in Reach(source, entry)

Init ==
  /\ entry \in File \cup {Missing, Outside}
  /\ limits \in [{"bytes", "files", "nodes", "work"} -> Nat]
  /\ source = [f \in File |-> Unread]
  /\ outcome = Pending

Next ==
  /\ outcome = Pending
  /\ UNCHANGED source \/ Learn
  /\ Answers(entry, limits, source', outcome')
  /\ UNCHANGED <<entry, limits>>

Spec == Init /\ [][Next]_vars
=============================================================================

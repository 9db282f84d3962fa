------------------------------ MODULE MCRelease -----------------------------
(***************************************************************************)
(* Releases from the repository as it is, without a stable tag, and from   *)
(* one that has a release.                                                 *)
(***************************************************************************)
EXTENDS Edge

First == Stable(<<0, 1, 0>>)

Second == Stable(<<0, 2, 0>>)

MCTrees == {First}

MCStartTags == {{}, {First}}

NoTags == {{}}

Budget(cuts, pushes, hands, restarts, faults, days) ==
  [cuts |-> cuts, pushes |-> pushes, hands |-> hands, restarts |-> restarts,
   faults |-> faults, days |-> days]

\* Cuts alone, one beside commits and tags pushed by hand; both tags of a version
\* pushed by hand, at two commits; edge runs that break off twice, that meet with
\* assets added by hand, and that are for two commits.
MCBudgets ==
  {Budget(3, 0, 0, 0, 0, 0), Budget(1, 1, 1, 0, 0, 0), Budget(1, 0, 2, 1, 1, 0),
   Budget(0, 1, 2, 0, 0, 0), Budget(0, 1, 0, 2, 2, 1), Budget(0, 1, 1, 1, 1, 0), Budget(0, 2, 0, 1, 0, 1)}

\* Two cuts, one after the other.
TwoCuts == {Budget(2, 0, 0, 0, 0, 0)}

MCHandVersions == {Second}
=============================================================================

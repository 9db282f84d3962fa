------------------------------ MODULE Versions ------------------------------
(***************************************************************************)
(* Version arithmetic of .github/scripts/next-version.sh: which version a  *)
(* level releases, given the version tags and what build.zig.zon says.     *)
(*                                                                         *)
(* A version has a base, of three numbers, and the number of its release   *)
(* candidate: 0 for a stable version.  A level has a kind, and the part of *)
(* the base it bumps if it bumps one.                                      *)
(***************************************************************************)
EXTENDS Integers, Sequences, FiniteSets

Version == [base: [1..3 -> Nat], rc: Nat]

Stable(base) == [base |-> base, rc |-> 0]

Candidate(base, n) == [base |-> base, rc |-> n]

\* major, minor and patch; rc-major, rc-minor and rc-patch; rc-next; rc-promote.
Level == [kind: {"stable", "open"}, part: 1..3] \cup [kind: {"next", "promote"}, part: {0}]

\* sort -V, of bases.
Below(b, c) == \E i \in 1..3 : b[i] < c[i] /\ \A j \in 1..(i - 1) : b[j] = c[j]

\* A candidate comes before the later ones of its base, and before the base itself.
IsOlder(v, w) ==
  \/ Below(v.base, w.base)
  \/ v.base = w.base /\ v.rc > 0 /\ (w.rc = 0 \/ v.rc < w.rc)

Latest(versions) == CHOOSE v \in versions : \A w \in versions \ {v} : IsOlder(w, v)

Releases(versions) == {v \in versions : v.rc = 0}

Candidates(versions) == versions \ Releases(versions)

\* Where there is no stable tag the script seeds from the version in the tree,
\* and ends if it does not find a stable one there.
IsSeeded(tagged, tree) == Releases(tagged) # {} \/ tree.rc = 0

\* (Mutant.)  The tree's version, though it may be a candidate's.
LatestInTree(tagged, tree) == tree.base

LatestStable(tagged, tree) ==
  IF Releases(tagged) = {} THEN tree.base ELSE Latest(Releases(tagged)).base

\* bump
Bump(base, part) ==
  [i \in 1..3 |-> CASE i < part -> base[i] [] i = part -> base[i] + 1 [] i > part -> 0]

\* (Mutant.)  Any candidate makes a series, promoted or not.
OpenForEver(tagged, tree) == Candidates(tagged) # {}

\* Whether the latest candidate sorts after the latest stable version.
IsOpen(tagged, tree) ==
  /\ Candidates(tagged) # {}
  /\ Below(LatestStable(tagged, tree), Latest(Candidates(tagged)).base)

\* The versions a level stands for: one, or none where the script refuses.
NextVersions(level, tagged, tree) ==
  LET bumped == Bump(LatestStable(tagged, tree), level.part)
      latest == Latest(Candidates(tagged))
  IN  IF ~ IsSeeded(tagged, tree) THEN {}
      ELSE CASE level.kind = "stable" -> {Stable(bumped)}
             [] level.kind = "open" ->
                  IF IsOpen(tagged, tree) THEN {} ELSE {Candidate(bumped, 1)}
             [] level.kind = "next" ->
                  IF IsOpen(tagged, tree) THEN {Candidate(latest.base, latest.rc + 1)} ELSE {}
             [] level.kind = "promote" ->
                  IF IsOpen(tagged, tree) THEN {Stable(latest.base)} ELSE {}
=============================================================================

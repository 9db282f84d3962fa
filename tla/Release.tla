------------------------------- MODULE Release ------------------------------
(***************************************************************************)
(* Releases: cut-release.yml, which works out a version and pushes its     *)
(* commit and tags, release.yml, which publishes what a tag names, and the *)
(* people who push commits and tags meanwhile.                             *)
(*                                                                         *)
(* Commits of master are numbered; history tells what build.zig.zon says   *)
(* in each.  Cuts wait for each other (concurrency: cut-release); runs of  *)
(* release.yml do not.                                                     *)
(***************************************************************************)
EXTENDS Versions

CONSTANTS
  Trees,        \* what build.zig.zon may say at first
  StartTags,    \* the versions that may be tagged at first
  HandVersions, \* the versions people stamp and tag themselves
  MaxCommits,   \* bound: commits on master, and runs of release.yml
  Budgets
    (* What may happen, each a record of the bounds                          *)
    (*   cuts      cuts started                                              *)
    (*   pushes    commits people push                                       *)
    (*   hands     tags and assets people push themselves                    *)
    (*   restarts  workflow runs that are started again                      *)
    (*   faults    steps of a workflow that fail for reasons of their own    *)
    (*   days      days that pass                                            *)

BoundNames == {"cuts", "pushes", "hands", "restarts", "faults", "days"}

\* There is a latest version, as there is of any finite number of them.
HasLatest(versions) == \E v \in versions : \A w \in versions \ {v} : IsOlder(w, v)

\* The candidates newer than every stable version.
Open(versions) == {v \in Candidates(versions) : \A s \in Releases(versions) : IsOlder(s, v)}

OneSeries(versions) == \A v, w \in Open(versions) : v.base = w.base

\* A repository with a stable version has one series open, if any.
ASSUME StartAssumption ==
  \A versions \in StartTags :
    /\ versions \subseteq Version
    /\ Releases(versions) # {} => HasLatest(Releases(versions)) /\ OneSeries(versions)
    /\ Candidates(versions) # {} => HasLatest(Candidates(versions))

ASSUME BoundsAssumption ==
  /\ Trees \subseteq Version /\ HandVersions \subseteq Version
  /\ Budgets \subseteq [BoundNames -> 0..MaxCommits]
  /\ MaxCommits \in Nat
  /\ \A b \in Budgets :
       1 + b.cuts + b.pushes <= MaxCommits /\ b.cuts + b.hands + b.restarts <= MaxCommits

VARIABLES
  history,    \* what build.zig.zon says in each commit of master
  tags,       \* the commit each tag names
  cut,        \* the cut under way
  builds,     \* the runs of release.yml
  published,  \* the versions released
  byHand,     \* the tags that people pushed, or whose prerelease they changed (history)
  left        \* what is left of the budget

releaseVars == <<history, tags, cut, builds, published, byHand, left>>

Master == Len(history)

RepoTag(version) == [kind |-> "v", version |-> version]

GoTag(version) == [kind |-> "go", version |-> version]

Tagged == {t.version : t \in {u \in DOMAIN tags : u.kind = "v"}}

NoCut == [pc |-> "idle"]

ReleaseInit ==
  /\ \E tree \in Trees : history = <<tree>>
  /\ \E versions \in StartTags :
       tags = [t \in {RepoTag(v) : v \in versions} \cup {GoTag(v) : v \in versions} |-> 1]
  /\ cut = NoCut
  /\ builds = <<>>
  /\ published = {}
  /\ byHand = {}
  /\ left \in Budgets

\* Tags that are pushed: none of them may be there.
Push(new) ==
  /\ DOMAIN new \cap DOMAIN tags = {}
  /\ tags' = [t \in DOMAIN tags \cup DOMAIN new |-> IF t \in DOMAIN new THEN new[t] ELSE tags[t]]

Spend(what) == left[what] > 0 /\ left' = [left EXCEPT ![what] = @ - 1]

Starts(version) == builds' = Append(builds, [version |-> version, pc |-> "gate"])

-----------------------------------------------------------------------------
\* People.

\* A commit, which may change the version in build.zig.zon.
Commit(tree) ==
  /\ Spend("pushes")
  /\ history' = Append(history, tree)
  /\ UNCHANGED <<tags, cut, builds, published, byHand>>

TagBy(tag, commit) ==
  /\ Spend("hands")
  /\ Push([t \in {tag} |-> commit])
  /\ byHand' = byHand \cup {tag}
  /\ UNCHANGED <<history, cut, published>>

\* docs/releasing.md, path 2: a tag pushed by hand starts release.yml.
TagByHand(version, commit) == TagBy(RepoTag(version), commit) /\ Starts(version)

TagModuleByHand(version, commit) == TagBy(GoTag(version), commit) /\ UNCHANGED builds

\* A run of release.yml that is started again, or by hand.
Restart(version) ==
  /\ Spend("restarts")
  /\ version \in Tagged
  /\ Starts(version)
  /\ UNCHANGED <<history, tags, cut, published, byHand>>

-----------------------------------------------------------------------------
\* cut-release.yml.

\* A clone of master with every tag there is, and the version for the level.  A
\* level that is refused ends the run.
Checkout(level) ==
  /\ cut = NoCut /\ Spend("cuts")
  /\ \E version \in NextVersions(level, Tagged, history[Master]) :
       cut' = [pc |-> "push", head |-> Master, seen |-> Tagged,
               version |-> version, level |-> level]
  /\ UNCHANGED <<history, tags, builds, published, byHand>>

\* (Mutant.)  The branch is pushed whatever has become of it.
IsCurrentForced == TRUE

\* Whether master is still what was checked out.
IsCurrent == Master = cut.head

CutTags(commit) == [t \in {RepoTag(cut.version), GoTag(cut.version)} |-> commit]

\* The gates, the stamp, the commit, and git push --atomic: all or nothing.
PushRelease ==
  /\ cut.pc = "push"
  /\ IsCurrent
  /\ history[cut.head] # cut.version    \* there is something to commit
  /\ history' = Append(history, cut.version)
  /\ Push(CutTags(Master + 1))
  /\ cut' = [cut EXCEPT !.pc = "dispatch"]
  /\ UNCHANGED <<builds, published, byHand, left>>

PushRejected ==
  /\ cut.pc = "push"
  /\ \/ Master # cut.head
     \/ history[cut.head] = cut.version
     \/ {RepoTag(cut.version), GoTag(cut.version)} \cap DOMAIN tags # {}
  /\ cut' = NoCut
  /\ UNCHANGED <<history, tags, builds, published, byHand, left>>

\* (Mutant.)  The pushed tag is left to start the run itself.
DispatchNothing ==
  /\ cut.pc = "dispatch"
  /\ cut' = NoCut
  /\ UNCHANGED <<history, tags, builds, published, byHand, left>>

Dispatch ==
  /\ cut.pc = "dispatch"
  /\ Starts(cut.version)
  /\ cut' = NoCut
  /\ UNCHANGED <<history, tags, published, byHand, left>>

\* A gate that does not pass, or a step that fails.
CutFails ==
  /\ cut # NoCut
  /\ Spend("faults")
  /\ cut' = NoCut
  /\ UNCHANGED <<history, tags, builds, published, byHand>>

CutStep == PushRelease \/ PushRejected \/ Dispatch

-----------------------------------------------------------------------------
\* release.yml, run b.

At(b, pc) == builds[b].pc = pc

Goes(b, pc) == builds' = [builds EXCEPT ![b].pc = pc]

VersionOf(b) == builds[b].version

CommitOf(b) == tags[RepoTag(VersionOf(b))]

\* check-release.mjs --tag
GatePasses(b) == history[CommitOf(b)] = VersionOf(b)

Gate(b) ==
  /\ At(b, "gate")
  /\ Goes(b, IF GatePasses(b) THEN "look" ELSE "red")
  /\ UNCHANGED <<history, tags, cut, published, byHand, left>>

\* (Mutant.)  A companion will do, wherever it is.
CompanionAnywhere(b) == TRUE

CompanionAgrees(b) == tags[GoTag(VersionOf(b))] = CommitOf(b)

\* Is there a companion tag?
LookForCompanion(b) ==
  /\ At(b, "look")
  /\ Goes(b, CASE GoTag(VersionOf(b)) \notin DOMAIN tags -> "tag"
               [] GoTag(VersionOf(b)) \in DOMAIN tags /\ CompanionAgrees(b) -> "publish"
               [] OTHER -> "red")
  /\ UNCHANGED <<history, tags, cut, published, byHand, left>>

PushCompanion(b) ==
  /\ At(b, "tag")
  /\ \/ /\ Push([t \in {GoTag(VersionOf(b))} |-> CommitOf(b)])
        /\ Goes(b, "publish")
     \/ /\ GoTag(VersionOf(b)) \in DOMAIN tags
        /\ Goes(b, "red")
        /\ UNCHANGED tags
  /\ UNCHANGED <<history, cut, published, byHand, left>>

Publish(b) ==
  /\ At(b, "publish")
  /\ published' = published \cup {VersionOf(b)}
  /\ Goes(b, "green")
  /\ UNCHANGED <<history, tags, cut, byHand, left>>

BuildFails(b) ==
  /\ builds[b].pc \notin {"green", "red"}
  /\ Spend("faults")
  /\ Goes(b, "red")
  /\ UNCHANGED <<history, tags, cut, published, byHand>>

BuildStep(b) ==
  /\ b \in DOMAIN builds
  /\ Gate(b) \/ LookForCompanion(b) \/ PushCompanion(b) \/ Publish(b)

-----------------------------------------------------------------------------

\* What is published can be fetched as what it is: both tags of the version name
\* one commit, whose build.zig.zon has that version, however cuts, tags pushed by
\* hand and several runs of release.yml come together.
PublishedIsConsistent ==
  \A v \in published :
    /\ {RepoTag(v), GoTag(v)} \subseteq DOMAIN tags
    /\ tags[RepoTag(v)] = tags[GoTag(v)]
    /\ history[tags[RepoTag(v)]] = v

\* A cut is there whole or not at all: when it goes on to dispatch, its commit is
\* on master right after the one that was tested, with both tags.
CutIsWhole ==
  cut.pc = "dispatch" =>
    /\ history[cut.head + 1] = cut.version
    /\ \A t \in {RepoTag(cut.version), GoTag(cut.version)} :
         t \in DOMAIN tags /\ tags[t] = cut.head + 1

NoHands == \A t \in byHand : t.kind = "edge"

\* The bases of the series that are open.
OpenBases == {v.base : v \in Open(Tagged)}

\* v comes after all stable versions and, in its series, after all candidates.
Follows(v, versions) ==
  /\ \A s \in Releases(versions) : IsOlder(s, v) /\ s.base # v.base
  /\ \A c \in Candidates(versions) : c.base = v.base /\ v.rc > 0 => c.rc < v.rc

\* What people have tagged since the cut under way was checked out.
TaggedMeanwhile == {v \in Tagged \ cut.seen : RepoTag(v) \in byHand}

\* No version is cut twice or out of order: a cut's tag is newer than all stable
\* versions and, within its series, than all candidates, whoever tagged them, but
\* for those that people tag between its checkout and its push.
CutsAdvance ==
  [][\A v \in Tagged' \ Tagged :
       RepoTag(v) \notin byHand' => Follows(v, Tagged \ TaggedMeanwhile)]_releaseVars

OpenNext == NextVersions([kind |-> "next", part |-> 0], Tagged, history[Master])

\* A stable version was tagged before any cut.
StableFirst == \E v \in Releases(Tagged) : tags[RepoTag(v)] = 1

\* Once there is a stable version, the newest open series goes on: its next
\* candidate, and its promotion, are of the series' own base.  It is the only one
\* if there was a stable version from the start; else a version that people stamp
\* meanwhile may have let a second one be opened.
SeriesGoesOn ==
  NoHands /\ Releases(Tagged) # {} /\ OpenBases # {} =>
    \E v \in OpenNext :
      /\ OpenNext = {v} /\ v.rc > 1 /\ v \notin Tagged
      /\ NextVersions([kind |-> "promote", part |-> 0], Tagged, history[Master]) = {Stable(v.base)}
      /\ v.base \in OpenBases
      /\ \A base \in OpenBases \ {v.base} : Below(base, v.base) /\ ~ StableFirst

\* "The typical major flow: rc-major, fix, rc-next (repeat as needed), rc-promote"
\* (docs/releasing.md:52): a series that is open can be continued.
EverySeriesGoesOn == OpenBases # {} => OpenNext # {}
=============================================================================

-------------------------------- MODULE Edge --------------------------------
(***************************************************************************)
(* The edge workflow (edge.yml) beside the releases: for every commit that *)
(* people push to master, a tag of the day and the commit, and a           *)
(* prerelease of that name with the expected assets, made or repaired by   *)
(* GoReleaser.  A run that is over may be started again, on another day.   *)
(***************************************************************************)
EXTENDS Release

CONSTANTS
  Expected,   \* the assets of a complete release
  Other       \* assets that it does not have

ASSUME AssetsAssumption == Expected \cap Other = {}

VARIABLES
  day,
  edges,      \* the run of each commit that was pushed
  prereleases \* the prereleases, by their tags

edgeVars == <<day, edges, prereleases>>

autoVars == <<releaseVars, edgeVars>>

EdgeInit ==
  /\ ReleaseInit
  /\ day = 1
  /\ edges = [c \in {} |-> <<>>]
  /\ prereleases = [t \in {} |-> <<>>]

\* f with the value x for e.
With(f, e, x) == [d \in DOMAIN f \cup {e} |-> IF d = e THEN x ELSE f[d]]

\* stale: the assets to delete, as the run saw them when it looked; blind: the tags
\* whose prerelease a run could not look at (history).
Queued == [pc |-> "queued", attempt |-> 1, tag |-> <<>>, stale |-> {}, blind |-> {}]

\* What people push starts a run; what cut-release.yml pushes with its own token
\* does not.
PushToMaster(tree) ==
  /\ Commit(tree)
  /\ edges' = With(edges, Master + 1, Queued)
  /\ UNCHANGED <<day, prereleases>>

Running(c) == c \in DOMAIN edges /\ edges[c].pc \notin {"green", "red"}

\* A run that is over, and only such a run, can be started again.
RunAgain(c) ==
  /\ c \in DOMAIN edges /\ ~ Running(c)
  /\ Spend("restarts")
  /\ edges' = [edges EXCEPT ![c].pc = "queued", ![c].attempt = @ + 1]
  /\ UNCHANGED <<history, tags, cut, builds, published, byHand, day, prereleases>>

NextDay ==
  /\ Spend("days")
  /\ day' = day + 1
  /\ UNCHANGED <<history, tags, cut, builds, published, byHand, edges, prereleases>>

-----------------------------------------------------------------------------
\* One run.

Is(c, pc) == c \in DOMAIN edges /\ edges[c].pc = pc

EdgeGoes(c, pc) == edges' = [edges EXCEPT ![c].pc = pc]

\* (Mutant.)  The tag tells the day only.
DayTag(c) == [kind |-> "edge", base |-> history[c].base, day |-> day]

\* edge-version.sh
EdgeTag(c) == [kind |-> "edge", base |-> history[c].base, day |-> day, commit |-> c]

\* The tag is left where it is if it is there, at this commit.
TagEdge(c) ==
  /\ Is(c, "queued")
  /\ LET tag == EdgeTag(c) IN
     /\ edges' = [edges EXCEPT ![c].tag = tag,
                               ![c].pc = IF tag \in DOMAIN tags /\ tags[tag] # c THEN "red" ELSE "look"]
     /\ tags' = IF tag \in DOMAIN tags THEN tags ELSE With(tags, tag, c)
  /\ UNCHANGED <<history, cut, builds, published, byHand, left, day, prereleases>>

\* The prerelease that a run is about.
TagOf(c) == edges[c].tag

Exists(c) == TagOf(c) \in DOMAIN prereleases

Assets(c) == prereleases[TagOf(c)].assets

\* edge-release-complete.mjs, isComplete.  An asset is uploaded when its state is
\* that and it has a size; all releases of the workflow are prereleases, and a
\* draft is one until it is published.
IsComplete(release) ==
  /\ ~ release.draft
  /\ \A a \in DOMAIN release.assets : release.assets[a].uploaded
  /\ DOMAIN release.assets = Expected

\* unexpectedAssetIds
Unexpected(c) == IF Exists(c) THEN DOMAIN Assets(c) \ Expected ELSE {}

\* (Mutant.)  There is always something to build.
LookRebuilds(c) ==
  /\ Is(c, "look")
  /\ edges' = [edges EXCEPT ![c].pc = IF Exists(c) THEN "clean" ELSE "open", ![c].stale = Unexpected(c)]
  /\ UNCHANGED <<releaseVars, day, prereleases>>

\* A complete release ends the run.
Look(c) ==
  /\ Is(c, "look")
  /\ LET pc == IF ~ Exists(c) THEN "open"
               ELSE IF IsComplete(prereleases[TagOf(c)]) THEN "green" ELSE "clean"
     IN  edges' = [edges EXCEPT ![c].pc = pc, ![c].stale = Unexpected(c)]
  /\ UNCHANGED <<releaseVars, day, prereleases>>

\* gh release view fails: the script takes it that there is no release.
LookFails(c) ==
  /\ Is(c, "look") /\ Exists(c)
  /\ Spend("faults")
  /\ edges' = [edges EXCEPT ![c].pc = "open", ![c].blind = @ \cup {TagOf(c)}]
  /\ UNCHANGED <<history, tags, cut, builds, published, byHand, day, prereleases>>

Changes(c, release) == prereleases' = With(prereleases, TagOf(c), release)

Deletes(c, a) ==
  Changes(c, [prereleases[TagOf(c)] EXCEPT !.assets = [b \in DOMAIN @ \ {a} |-> @[b]]])

\* One asset after another, of those that were there at the look.
DeleteUnexpected(c) ==
  /\ Is(c, "clean")
  /\ \E a \in edges[c].stale :
       Deletes(c, a) /\ edges' = [edges EXCEPT ![c].stale = @ \ {a}]
  /\ UNCHANGED <<releaseVars, day>>

Clean(c) ==
  /\ Is(c, "clean") /\ edges[c].stale = {}
  /\ EdgeGoes(c, "open")
  /\ UNCHANGED <<releaseVars, day, prereleases>>

-----------------------------------------------------------------------------
\* GoReleaser, as .goreleaser.edge.yaml asks for it: the release or a draft there
\* is, or a new draft; then the assets, in any order and several at a time, each
\* after one of its name has been deleted; then the draft is published.

\* (Mutant.)  The draft is published first.
OpenPublished(c) ==
  /\ Is(c, "open")
  /\ Changes(c, IF Exists(c) THEN [prereleases[TagOf(c)] EXCEPT !.draft = FALSE]
                ELSE [draft |-> FALSE, assets |-> [a \in {} |-> <<>>]])
  /\ EdgeGoes(c, "upload")
  /\ UNCHANGED <<releaseVars, day>>

OpenDraft(c) ==
  /\ Is(c, "open")
  /\ Changes(c, IF Exists(c) THEN prereleases[TagOf(c)]
                ELSE [draft |-> TRUE, assets |-> [a \in {} |-> <<>>]])
  /\ EdgeGoes(c, "upload")
  /\ UNCHANGED <<releaseVars, day>>

Asset(c, uploaded) == [uploaded |-> uploaded, attempt |-> edges[c].attempt]

Put(c, a, uploaded) ==
  Changes(c, [prereleases[TagOf(c)] EXCEPT !.assets = With(@, a, Asset(c, uploaded))])

IsUploaded(c, a) == a \in DOMAIN Assets(c) /\ Assets(c)[a] = Asset(c, TRUE)

\* replace_existing_artifacts: what an earlier attempt has left, uploaded or not, is
\* deleted first.
DeleteReplaced(c) ==
  /\ Is(c, "upload")
  /\ \E a \in Expected \cap DOMAIN Assets(c) :
       Assets(c)[a].attempt # edges[c].attempt /\ Deletes(c, a)
  /\ UNCHANGED <<releaseVars, day, edges>>

BeginUpload(c) ==
  /\ Is(c, "upload")
  /\ \E a \in Expected \ DOMAIN Assets(c) : Put(c, a, FALSE)
  /\ UNCHANGED <<releaseVars, day, edges>>

EndUpload(c) ==
  /\ Is(c, "upload")
  /\ \E a \in Expected \cap DOMAIN Assets(c) :
       Assets(c)[a] = Asset(c, FALSE) /\ Put(c, a, TRUE)
  /\ UNCHANGED <<releaseVars, day, edges>>

PublishEdge(c) ==
  /\ Is(c, "upload") /\ \A a \in Expected : IsUploaded(c, a)
  /\ Changes(c, [prereleases[TagOf(c)] EXCEPT !.draft = FALSE])
  /\ EdgeGoes(c, "green")
  /\ UNCHANGED <<releaseVars, day>>

\* The tests or any call of a run fail, wherever it is.
EdgeFails(c) ==
  /\ Running(c)
  /\ Spend("faults")
  /\ EdgeGoes(c, "red")
  /\ UNCHANGED <<history, tags, cut, builds, published, byHand, day, prereleases>>

\* Somebody adds an asset to a prerelease, which takes one that can be changed.
Attach(tag, a) ==
  /\ Spend("hands")
  /\ tag \in DOMAIN prereleases /\ a \notin DOMAIN prereleases[tag].assets
  /\ prereleases' = [prereleases EXCEPT ![tag].assets = With(@, a, [uploaded |-> TRUE, attempt |-> 0])]
  /\ byHand' = byHand \cup {tag}
  /\ UNCHANGED <<history, tags, cut, builds, published, day, edges>>

EdgeStep(c) ==
  \/ TagEdge(c) \/ Look(c) \/ DeleteUnexpected(c) \/ Clean(c)
  \/ OpenDraft(c) \/ DeleteReplaced(c) \/ BeginUpload(c) \/ EndUpload(c) \/ PublishEdge(c)

-----------------------------------------------------------------------------

ReleaseNext ==
  \/ \E version \in HandVersions, commit \in 1..Master :
       TagByHand(version, commit) \/ TagModuleByHand(version, commit)
  \/ \E version \in Tagged : Restart(version)
  \/ \E level \in Level : Checkout(level)
  \/ CutStep \/ CutFails
  \/ \E b \in DOMAIN builds : BuildStep(b) \/ BuildFails(b)

EdgeNext ==
  \/ \E tree \in HandVersions \cup {history[Master]} : PushToMaster(tree)
  \/ \E c \in DOMAIN edges : EdgeStep(c) \/ LookFails(c) \/ EdgeFails(c) \/ RunAgain(c)
  \/ \E tag \in DOMAIN prereleases, a \in Other : Attach(tag, a)
  \/ NextDay

AutoNext ==
  \/ ReleaseNext /\ UNCHANGED edgeVars
  \/ EdgeNext

\* GitHub runs every workflow to its end; people need not do anything.
AutoSpec ==
  /\ EdgeInit /\ [][AutoNext]_autoVars
  /\ WF_autoVars(CutStep /\ UNCHANGED edgeVars)
  /\ \A b \in 1..MaxCommits : WF_autoVars(BuildStep(b) /\ UNCHANGED edgeVars)
  /\ \A c \in 1..MaxCommits : WF_autoVars(EdgeStep(c))

-----------------------------------------------------------------------------

\* Nobody has added to t, and no run has missed that it is there.
Watched(t) == t \notin byHand /\ \A c \in DOMAIN edges : t \notin edges[c].blind

\* A prerelease that can be seen is whole: it has the expected assets, uploaded, and
\* no others, wherever runs for it broke off, unless gh release view failed in one of
\* them or somebody had added to it, when a run that is started again replaces the
\* assets of what is published.  And a green run has left one that can be seen with
\* every expected asset uploaded, whatever happened to it before (edge.yml;
\* edge-release-complete.mjs; .goreleaser.edge.yaml).
PublishedIsComplete ==
  /\ \A t \in DOMAIN prereleases :
       Watched(t) /\ ~ prereleases[t].draft => IsComplete(prereleases[t])
  /\ \A c \in DOMAIN edges : Is(c, "green") =>
       /\ Exists(c) /\ ~ prereleases[TagOf(c)].draft
       /\ \A a \in Expected : a \in DOMAIN Assets(c) /\ Assets(c)[a].uploaded

\* "Without moving a tag or replacing existing release artifacts" (docs/releasing.md):
\* what a complete release has stays as it is, also when its run is started again,
\* unless gh release view failed then, or somebody had added to the release.
ArtifactsKept ==
  [][\A t \in DOMAIN prereleases : IsComplete(prereleases[t]) /\ Watched(t) =>
       prereleases'[t].assets = prereleases[t].assets \/ t \in byHand']_autoVars

\* Once nothing fails, a run repairs what earlier ones left and ends green.
EdgeRecovers ==
  \A c \in 1..MaxCommits : (Running(c) /\ left.faults = 0) ~> Is(c, "green")

\* What a cut has pushed behind head is about to be built: the cut starts the run,
\* or after it has failed to somebody has started one.
BuildDue(head) ==
  \/ cut.pc = "dispatch" /\ cut.head = head
  \/ \E b \in DOMAIN builds :
       /\ builds[b].pc \notin {"green", "red"}
       /\ RepoTag(VersionOf(b)) \notin byHand /\ CommitOf(b) = head + 1

\* Once nothing fails, what a cut has pushed is published, by the run that the cut
\* starts or, where that start failed, by one that is started by hand.
CutIsPublished ==
  \A head \in 1..MaxCommits :
    (BuildDue(head) /\ left.faults = 0) ~> (head < Master /\ history[head + 1] \in published)
=============================================================================

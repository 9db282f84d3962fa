---------------------------- MODULE ReleaseProofs ---------------------------
(***************************************************************************)
(* What is published is consistent, and versions go up, for any number of  *)
(* cuts, hand-made tags and runs of release.yml in any interleaving.       *)
(*                                                                         *)
(* The argument: master only grows and a tag never moves (Grown), so what  *)
(* a run has found out about its version stays true while it goes on; IInv *)
(* says for each run what it has found out by then.                        *)
(*                                                                         *)
(* Versions are in a total order, so of those that are tagged there always *)
(* is a latest one, whoever tagged them (VInv).  While a cut is under way  *)
(* only people tag versions; so when it pushes, what it fetched at its     *)
(* checkout is all that is tagged but for what they have tagged meanwhile, *)
(* and its version is what its level stands for over that.                 *)
(***************************************************************************)
EXTENDS Edge, SequenceLemmas, TLAPS

\* What a run of release.yml that has come to pc knows of its version.
Verified(version, pc) ==
  /\ RepoTag(version) \in DOMAIN tags
  /\ pc \in {"look", "tag", "publish", "green"} => history[tags[RepoTag(version)]] = version
  /\ pc \in {"publish", "green"} =>
       GoTag(version) \in DOMAIN tags /\ tags[GoTag(version)] = tags[RepoTag(version)]

HistorySound == IsSeq(history) /\ history # <<>>

\* A tag of the repository is nothing but its version.
IsTag(t) == t.kind = "v" => t = RepoTag(t.version)

TagsSound == \A t \in DOMAIN tags : IsTag(t) /\ tags[t] \in 1..Master

BuildsSound ==
  /\ IsSeq(builds)
  /\ \A b \in DOMAIN builds :
       {"version", "pc"} \subseteq DOMAIN builds[b] /\ Verified(builds[b].version, builds[b].pc)

PublishedSound == \A v \in published : Verified(v, "green")

\* The pushed commit follows the one that was tested.
CutSound ==
  /\ "pc" \in DOMAIN cut
  /\ cut.pc # "idle" => {"head", "version"} \subseteq DOMAIN cut
  /\ cut.pc = "dispatch" => cut.head + 1 \in 1..Master
  /\ CutIsWhole

EdgesSound == DOMAIN edges \subseteq 1..Master

IInv == HistorySound /\ TagsSound /\ BuildsSound /\ PublishedSound /\ CutSound /\ EdgesSound

\* Master only grows, and a tag that is there stays where it is.
Grown ==
  /\ HistorySound' /\ TagsSound'
  /\ Master' >= Master /\ \A i \in 1..Master : history'[i] = history[i]
  /\ DOMAIN tags \subseteq DOMAIN tags' /\ \A t \in DOMAIN tags : tags'[t] = tags[t]

-----------------------------------------------------------------------------
\* How master and the tags change.

\* Nothing is committed or tagged.
LEMMA GrownSame ==
  ASSUME IInv, UNCHANGED <<history, tags>>
  PROVE  Grown
<1>1. Master \in Nat /\ Master' = Master  BY SeqLen DEF IInv, HistorySound, Master
<1>. QED  BY <1>1 DEF IInv, Grown, HistorySound, TagsSound

\* Master after a commit.
LEMMA Committed ==
  ASSUME IInv, NEW tree, history' = Append(history, tree)
  PROVE  /\ HistorySound' /\ Master \in Nat /\ Master' = Master + 1
         /\ \A i \in 1..Master : history'[i] = history[i]
         /\ history'[Master + 1] = tree
<1>1. /\ IsSeq(history') /\ Master' = Master + 1 /\ history'[Master + 1] = tree
      /\ \A i \in 1..Master : history'[i] = history[i]
  BY SeqAppend DEF IInv, HistorySound, Master
<1>2. Master \in Nat  BY SeqLen DEF IInv, HistorySound, Master
<1>3. history' # <<>>  BY <1>1, <1>2, SeqEmpty DEF Master
<1>. QED  BY <1>1, <1>2, <1>3 DEF HistorySound

\* A commit without a tag.
LEMMA GrownCommit ==
  ASSUME IInv, NEW tree, history' = Append(history, tree), UNCHANGED tags
  PROVE  Grown
<1>1. /\ HistorySound' /\ Master \in Nat /\ Master' = Master + 1
      /\ \A i \in 1..Master : history'[i] = history[i]
  BY Committed
<1>2. \A t \in DOMAIN tags : IsTag(t) /\ tags[t] \in 1..Master'  BY <1>1 DEF IInv, TagsSound
<1>3. TagsSound'  BY <1>2 DEF TagsSound
<1>4. Master' >= Master  BY <1>1
<1>. QED  BY <1>1, <1>3, <1>4 DEF Grown

\* A push adds its tags, and that is all.
LEMMA PushOnly ==
  ASSUME NEW new, Push(new)
  PROVE  /\ DOMAIN tags' = DOMAIN tags \cup DOMAIN new
         /\ \A t \in DOMAIN tags : tags'[t] = tags[t]
         /\ \A t \in DOMAIN new : tags'[t] = new[t]
<1>. DEFINE f == [t \in DOMAIN tags \cup DOMAIN new |->
                   IF t \in DOMAIN new THEN new[t] ELSE tags[t]]
<1>1. tags' = f /\ DOMAIN new \cap DOMAIN tags = {}  BY DEF Push
<1>2. DOMAIN f = DOMAIN tags \cup DOMAIN new  OBVIOUS
<1>3. \A t \in DOMAIN tags : f[t] = tags[t]  BY <1>1
<1>4. \A t \in DOMAIN new : f[t] = new[t]  OBVIOUS
<1>. QED  BY <1>1, <1>2, <1>3, <1>4

\* Tags without a commit.
LEMMA GrownTags ==
  ASSUME IInv, NEW new, Push(new), \A t \in DOMAIN new : IsTag(t) /\ new[t] \in 1..Master,
         UNCHANGED history
  PROVE  Grown
<1>1. Master \in Nat /\ Master' = Master  BY SeqLen DEF IInv, HistorySound, Master
<1>2. /\ DOMAIN tags' = DOMAIN tags \cup DOMAIN new
      /\ \A t \in DOMAIN tags : tags'[t] = tags[t]
      /\ \A t \in DOMAIN new : tags'[t] = new[t]
  BY PushOnly
<1>3. \A t \in DOMAIN tags' : IsTag(t) /\ tags'[t] \in 1..Master'
  BY <1>1, <1>2 DEF IInv, TagsSound
<1>4. Master' >= Master /\ \A i \in 1..Master : history'[i] = history[i]  BY <1>1
<1>. QED  BY <1>2, <1>3, <1>4 DEF IInv, Grown, HistorySound, TagsSound

-----------------------------------------------------------------------------
\* What is found out stays true.

\* Nothing that a run has found out can change.
LEMMA VerifiedStays ==
  ASSUME IInv, Grown, NEW version, NEW pc, Verified(version, pc)
  PROVE  Verified(version, pc)'
<1>1. RepoTag(version)' = RepoTag(version) /\ GoTag(version)' = GoTag(version)
  BY DEF RepoTag, GoTag
<1>. QED  BY <1>1 DEF IInv, Grown, Verified, TagsSound, Master

\* The runs go on knowing what they know.
LEMMA BuildsStay ==
  ASSUME IInv, Grown, UNCHANGED builds
  PROVE  BuildsSound'
<1>1. \A version, pc : Verified(version, pc) => Verified(version, pc)'  BY VerifiedStays
<1>. QED  BY <1>1 DEF IInv, BuildsSound

\* What is published stays consistent.
LEMMA PublishedStays ==
  ASSUME IInv, Grown, UNCHANGED published
  PROVE  PublishedSound'
<1>1. \A version, pc : Verified(version, pc) => Verified(version, pc)'  BY VerifiedStays
<1>. QED  BY <1>1 DEF IInv, PublishedSound

\* So does what a cut has pushed.
LEMMA CutStays ==
  ASSUME IInv, Grown, UNCHANGED cut
  PROVE  CutSound'
<1>1. Master \in Nat  BY SeqLen DEF IInv, HistorySound, Master
<1>2. Master' \in Nat  BY SeqLen DEF Grown, HistorySound, Master
<1>. QED  BY <1>1, <1>2 DEF IInv, Grown, CutSound, CutIsWhole, RepoTag, GoTag

\* A commit has a run of edge.yml as long as it is on master.
LEMMA EdgesStay ==
  ASSUME IInv, Grown, DOMAIN edges' = DOMAIN edges
  PROVE  EdgesSound'
<1>1. Master \in Nat  BY SeqLen DEF IInv, HistorySound, Master
<1>2. Master' \in Nat  BY SeqLen DEF Grown, HistorySound, Master
<1>. QED  BY <1>1, <1>2 DEF IInv, Grown, EdgesSound

\* A new run knows its tag.
LEMMA StartsSound ==
  ASSUME IInv, Grown, NEW version, RepoTag(version) \in DOMAIN tags', Starts(version)
  PROVE  BuildsSound'
<1>. DEFINE run == [version |-> version, pc |-> "gate"]
<1>1. IsSeq(builds) /\ builds' = Append(builds, run)  BY DEF IInv, BuildsSound, Starts
<1>. HIDE DEF run
<1>2. /\ IsSeq(builds') /\ Len(builds') = Len(builds) + 1 /\ builds'[Len(builds) + 1] = run
      /\ \A b \in 1..Len(builds) : builds'[b] = builds[b]
  BY <1>1, SeqAppend
<1>3. /\ Len(builds) \in Nat /\ DOMAIN builds = 1..Len(builds)
      /\ DOMAIN builds' = 1..Len(builds) + 1
  BY <1>1, <1>2, SeqLen
<1>4. \A v, pc : Verified(v, pc) => Verified(v, pc)'  BY VerifiedStays
<1>5. Verified(version, "gate")'  BY DEF Verified, RepoTag
<1>6. run.version = version /\ run.pc = "gate" /\ {"version", "pc"} \subseteq DOMAIN run
  BY DEF run
<1>7. ASSUME NEW b \in DOMAIN builds'
      PROVE  /\ {"version", "pc"} \subseteq DOMAIN builds'[b]
             /\ Verified(builds[b].version, builds[b].pc)'
  <2>1. CASE b \in DOMAIN builds
    <3>1. /\ {"version", "pc"} \subseteq DOMAIN builds[b]
          /\ Verified(builds[b].version, builds[b].pc)
      BY <2>1 DEF IInv, BuildsSound
    <3>2. builds'[b] = builds[b]  BY <2>1, <1>2, <1>3
    <3>. QED  BY <3>1, <3>2, <1>4 DEF Verified, RepoTag, GoTag
  <2>2. CASE b = Len(builds) + 1  BY <2>2, <1>2, <1>5, <1>6 DEF Verified, RepoTag, GoTag
  <2>. QED  BY <2>1, <2>2, <1>3
<1>. QED  BY <1>2, <1>7 DEF BuildsSound

\* A run that goes on knows what it has found out.
LEMMA GoesSound ==
  ASSUME IInv, Grown, NEW b \in DOMAIN builds, NEW pc, Goes(b, pc),
         NEW version, version = VersionOf(b), Verified(version, pc)'
  PROVE  BuildsSound'
<1>1. /\ IsSeq(builds) /\ {"version", "pc"} \subseteq DOMAIN builds[b]
      /\ builds' = [builds EXCEPT ![b] = [builds[b] EXCEPT !.pc = pc]]
  BY DEF IInv, BuildsSound, Goes
<1>. DEFINE run == [builds[b] EXCEPT !.pc = pc]
<1>2. /\ {"version", "pc"} \subseteq DOMAIN run
      /\ run.version = version /\ run.pc = pc
  BY <1>1 DEF VersionOf
<1>3. builds' = [builds EXCEPT ![b] = run]  BY <1>1
<1>. HIDE DEF run
<1>4. b \in 1..Len(builds) /\ DOMAIN builds = 1..Len(builds)  BY <1>1, SeqLen
<1>5. /\ IsSeq(builds') /\ Len(builds') = Len(builds) /\ builds'[b] = run
      /\ \A i \in 1..Len(builds) : i # b => builds'[i] = builds[i]
  <2>1. IsSeq(builds) /\ b \in 1..Len(builds)  BY <1>1, <1>4
  <2>2. /\ IsSeq([builds EXCEPT ![b] = run]) /\ Len([builds EXCEPT ![b] = run]) = Len(builds)
        /\ [builds EXCEPT ![b] = run][b] = run
        /\ \A i \in 1..Len(builds) : i # b => [builds EXCEPT ![b] = run][i] = builds[i]
    BY <2>1, SeqExcept
  <2>. QED  BY <2>2, <1>3
<1>6. DOMAIN builds' = 1..Len(builds)  BY <1>5, SeqLen
<1>7. \A v, p : Verified(v, p) => Verified(v, p)'  BY VerifiedStays
<1>8. ASSUME NEW i \in DOMAIN builds'
      PROVE  /\ {"version", "pc"} \subseteq DOMAIN builds'[i]
             /\ Verified(builds[i].version, builds[i].pc)'
  <2>1. CASE i = b  BY <2>1, <1>2, <1>4, <1>5 DEF Verified, RepoTag, GoTag
  <2>2. CASE i # b
    <3>1. builds'[i] = builds[i] /\ i \in DOMAIN builds  BY <2>2, <1>4, <1>5, <1>6
    <3>2. /\ {"version", "pc"} \subseteq DOMAIN builds[i]
          /\ Verified(builds[i].version, builds[i].pc)
      BY <3>1 DEF IInv, BuildsSound
    <3>. QED  BY <3>1, <3>2, <1>7 DEF Verified, RepoTag, GoTag
  <2>. QED  BY <2>1, <2>2
<1>. QED  BY <1>5, <1>8 DEF BuildsSound

-----------------------------------------------------------------------------
\* The steps.

\* The start has no cut, no run and nothing published.
LEMMA StartIInv == EdgeInit => IInv
<1>. SUFFICES ASSUME EdgeInit PROVE IInv  OBVIOUS
<1>. USE DEF EdgeInit, ReleaseInit
<1>1. HistorySound /\ Master = 1
  <2>1. PICK tree : history = <<tree>>  OBVIOUS
  <2>2. <<tree>> \in Seq({tree}) /\ Len(<<tree>>) = 1  OBVIOUS
  <2>. QED  BY <2>1, <2>2, SeqIs, SeqEmpty DEF HistorySound, Master
<1>2. TagsSound  BY <1>1 DEF TagsSound, IsTag, RepoTag, GoTag
<1>3. BuildsSound  BY SeqEmpty, SeqLen DEF BuildsSound
<1>4. PublishedSound /\ EdgesSound  BY DEF PublishedSound, EdgesSound
<1>5. CutSound  BY DEF CutSound, CutIsWhole, NoCut
<1>. QED  BY <1>1, <1>2, <1>3, <1>4, <1>5 DEF IInv

\* What is left to show of a step.
LEMMA Together ==
  ASSUME Grown, BuildsSound', PublishedSound', CutSound', EdgesSound'
  PROVE  IInv'
BY DEF Grown, IInv

\* A step of edge.yml that tags nothing, or of nobody.
LEMMA AsideIInv ==
  ASSUME IInv, UNCHANGED <<history, tags, cut, builds, published>>, DOMAIN edges' = DOMAIN edges
  PROVE  IInv'
BY GrownSame, BuildsStay, PublishedStays, CutStays, EdgesStay, Together

\* A tag pushed by hand names a commit of master.
LEMMA TagByIInv ==
  ASSUME IInv, UNCHANGED edges, NEW tag, IsTag(tag), NEW commit \in 1..Master, TagBy(tag, commit),
         UNCHANGED builds \/ \E version : tag = RepoTag(version) /\ Starts(version)
  PROVE  IInv'
<1>. DEFINE new == [t \in {tag} |-> commit]
<1>1. Push(new) /\ UNCHANGED <<history, cut, published>>  BY DEF TagBy
<1>2. DOMAIN new = {tag} /\ \A t \in DOMAIN new : IsTag(t) /\ new[t] \in 1..Master  OBVIOUS
<1>. HIDE DEF new
<1>3. Grown  BY <1>1, <1>2, GrownTags
<1>4. tag \in DOMAIN tags'  BY <1>1, <1>2 DEF Push
<1>5. BuildsSound'
  <2>1. CASE UNCHANGED builds  BY <2>1, <1>3, BuildsStay
  <2>2. CASE \E version : tag = RepoTag(version) /\ Starts(version)
    BY <2>2, <1>3, <1>4, StartsSound
  <2>. QED  BY <2>1, <2>2
<1>. QED  BY <1>1, <1>3, <1>5, PublishedStays, CutStays, EdgesStay, Together

\* What is started again has its tag.
LEMMA RestartIInv ==
  ASSUME IInv, UNCHANGED edges, NEW version, Restart(version)
  PROVE  IInv'
<1>1. UNCHANGED <<history, tags, cut, published>> /\ Starts(version)  BY DEF Restart
<1>2. RepoTag(version) \in DOMAIN tags
  <2>1. PICK t \in DOMAIN tags : t.kind = "v" /\ t.version = version  BY DEF Restart, Tagged
  <2>. QED  BY <2>1 DEF IInv, TagsSound, IsTag
<1>3. Grown  BY <1>1, GrownSame
<1>. QED
  BY <1>1, <1>2, <1>3, StartsSound, PublishedStays, CutStays, EdgesStay, Together

\* The clone is of the commit that is on top then.
LEMMA CheckoutIInv ==
  ASSUME IInv, UNCHANGED edges, NEW level, Checkout(level)
  PROVE  IInv'
<1>1. UNCHANGED <<history, tags, builds, published>>  BY DEF Checkout
<1>2. Grown  BY <1>1, GrownSame
<1>3. CutSound'  BY DEF Checkout, CutSound, CutIsWhole
<1>. QED  BY <1>1, <1>2, <1>3, BuildsStay, PublishedStays, EdgesStay, Together

\* The commit and its tags come together, right after what was tested.
LEMMA PushReleaseIInv ==
  ASSUME IInv, UNCHANGED edges, PushRelease
  PROVE  IInv'
<1>. DEFINE new == CutTags(Master + 1)
            tag == RepoTag(cut.version)
            module == GoTag(cut.version)
<1>1. /\ history' = Append(history, cut.version) /\ Push(new)
      /\ cut.pc = "push" /\ cut.head = Master
      /\ cut' = [cut EXCEPT !.pc = "dispatch"] /\ UNCHANGED <<builds, published>>
  BY DEF PushRelease, IsCurrent
<1>2. /\ HistorySound' /\ Master \in Nat /\ Master' = Master + 1
      /\ \A k \in 1..Master : history'[k] = history[k]
      /\ history'[Master + 1] = cut.version
  BY <1>1, Committed
<1>3. DOMAIN new = {tag, module} /\ \A t \in DOMAIN new : IsTag(t) /\ new[t] = Master + 1
  BY DEF CutTags, IsTag, RepoTag, GoTag
<1>. HIDE DEF new
<1>4. /\ DOMAIN tags' = DOMAIN tags \cup {tag, module}
      /\ \A t \in DOMAIN tags : tags'[t] = tags[t]
      /\ tags'[tag] = Master + 1 /\ tags'[module] = Master + 1
  <2>1. Push(new)  BY <1>1
  <2>2. /\ DOMAIN tags' = DOMAIN tags \cup DOMAIN new
        /\ \A t \in DOMAIN tags : tags'[t] = tags[t]
        /\ \A t \in DOMAIN new : tags'[t] = new[t]
    BY <2>1, PushOnly
  <2>. QED  BY <2>2, <1>3
<1>5. Grown
  <2>1. \A t \in DOMAIN tags : IsTag(t) /\ tags[t] \in 1..Master  BY DEF IInv, TagsSound
  <2>2. IsTag(tag) /\ IsTag(module)  BY <1>3
  <2>3. \A t \in DOMAIN tags' : IsTag(t) /\ tags'[t] \in 1..Master'
    BY <1>2, <1>4, <2>1, <2>2
  <2>4. Master' >= Master /\ TagsSound'  BY <1>2, <2>3 DEF TagsSound
  <2>. QED  BY <1>2, <1>4, <2>4 DEF Grown
<1>6. CutSound'
  <2>1. {"pc", "head", "version"} \subseteq DOMAIN cut  BY <1>1 DEF IInv, CutSound
  <2>2. /\ {"pc", "head", "version"} \subseteq DOMAIN cut'
        /\ cut'.head = Master /\ cut'.version = cut.version /\ cut'.pc = "dispatch"
    BY <1>1, <2>1
  <2>3. RepoTag(cut.version)' = tag /\ GoTag(cut.version)' = module
    BY <2>2 DEF RepoTag, GoTag
  <2>. QED  BY <1>2, <1>4, <2>2, <2>3 DEF CutSound, CutIsWhole, RepoTag, GoTag
<1>. QED  BY <1>1, <1>5, <1>6, BuildsStay, PublishedStays, EdgesStay, Together

\* A cut that ends without a push leaves nothing.
LEMMA CutEndsIInv ==
  ASSUME IInv, UNCHANGED edges, cut' = NoCut,
         UNCHANGED <<history, tags, builds, published>>
  PROVE  IInv'
<1>1. Grown  BY GrownSame
<1>2. CutSound'  BY DEF NoCut, CutSound, CutIsWhole
<1>. QED  BY <1>1, <1>2, BuildsStay, PublishedStays, EdgesStay, Together

\* What is dispatched has been pushed.
LEMMA DispatchIInv ==
  ASSUME IInv, UNCHANGED edges, Dispatch
  PROVE  IInv'
<1>1. /\ UNCHANGED <<history, tags, published>> /\ cut' = NoCut
      /\ Starts(cut.version) /\ RepoTag(cut.version) \in DOMAIN tags
  BY DEF Dispatch, IInv, CutSound, CutIsWhole
<1>2. Grown  BY <1>1, GrownSame
<1>3. CutSound'  BY <1>1 DEF NoCut, CutSound, CutIsWhole
<1>4. BuildsSound'  BY <1>1, <1>2, StartsSound
<1>. QED  BY <1>1, <1>2, <1>3, <1>4, PublishedStays, EdgesStay, Together

\* A run that finds nothing out but goes on, or ends red.
LEMMA LooksIInv ==
  ASSUME IInv, UNCHANGED <<history, tags, cut, published, edges>>,
         NEW b \in DOMAIN builds, NEW pc, Goes(b, pc), Verified(VersionOf(b), pc)
  PROVE  IInv'
<1>1. Grown  BY GrownSame
<1>2. PICK version : version = VersionOf(b)  OBVIOUS
<1>3. Verified(version, pc)  BY <1>2
<1>4. Verified(version, pc)'  BY <1>1, <1>3, VerifiedStays
<1>5. BuildsSound'  BY <1>1, <1>2, <1>4, GoesSound
<1>. QED  BY <1>1, <1>5, PublishedStays, CutStays, EdgesStay, Together

\* A step of a run of release.yml.
LEMMA BuildIInv ==
  ASSUME IInv, UNCHANGED edges, NEW b \in DOMAIN builds, BuildStep(b) \/ BuildFails(b)
  PROVE  IInv'
<1>. DEFINE v == VersionOf(b)
<1>1. Verified(v, builds[b].pc)  BY DEF IInv, BuildsSound, VersionOf
<1>. USE DEF At, CommitOf
<1>2. CASE Gate(b)
  <2>1. PICK pc : Goes(b, pc) /\ pc = IF GatePasses(b) THEN "look" ELSE "red"
    BY <1>2 DEF Gate
  <2>2. Verified(v, pc)  BY <1>1, <2>1 DEF Verified, GatePasses
  <2>3. UNCHANGED <<history, tags, cut, published>>  BY <1>2 DEF Gate
  <2>. QED  BY <2>1, <2>2, <2>3, LooksIInv
<1>3. CASE LookForCompanion(b)
  <2>1. PICK pc : /\ Goes(b, pc)
                  /\ \/ pc \in {"tag", "red"}
                     \/ pc = "publish" /\ GoTag(v) \in DOMAIN tags /\ CompanionAgrees(b)
    BY <1>3 DEF LookForCompanion
  <2>2. Verified(v, pc)  BY <1>1, <1>3, <2>1 DEF LookForCompanion, Verified, CompanionAgrees
  <2>3. UNCHANGED <<history, tags, cut, published>>  BY <1>3 DEF LookForCompanion
  <2>. QED  BY <2>1, <2>2, <2>3, LooksIInv
<1>4. CASE PushCompanion(b)
  <2>1. At(b, "tag") /\ UNCHANGED <<history, cut, published>>  BY <1>4 DEF PushCompanion
  <2>2. CASE Goes(b, "red") /\ UNCHANGED tags
    <3>1. Verified(v, "red")  BY <1>1 DEF Verified
    <3>. QED  BY <2>1, <2>2, <3>1, LooksIInv
  <2>3. CASE Push([t \in {GoTag(v)} |-> CommitOf(b)]) /\ Goes(b, "publish")
    <3>1. PICK version : version = v  OBVIOUS
    <3>. DEFINE new == [t \in {GoTag(version)} |-> tags[RepoTag(version)]]
    <3>2. Push(new) /\ Verified(version, "tag")  BY <1>1, <2>1, <2>3, <3>1
    <3>3. DOMAIN new = {GoTag(version)} /\ new[GoTag(version)] = tags[RepoTag(version)]
      OBVIOUS
    <3>. HIDE DEF new
    <3>4. IsTag(GoTag(version)) /\ tags[RepoTag(version)] \in 1..Master
      BY <3>2 DEF IInv, TagsSound, IsTag, GoTag, Verified
    <3>5. Grown  BY <2>1, <3>2, <3>3, <3>4, GrownTags
    <3>6. Verified(version, "tag")'  BY <3>2, <3>5, VerifiedStays
    <3>7. GoTag(version) \in DOMAIN tags' /\ tags'[GoTag(version)] = tags[RepoTag(version)]
      BY <3>2, <3>3, PushOnly
    <3>8. tags'[RepoTag(version)] = tags[RepoTag(version)]
      BY <3>2, <3>5 DEF Grown, Verified
    <3>9. Verified(version, "publish")'  BY <3>6, <3>7, <3>8 DEF Verified, RepoTag, GoTag
    <3>10. BuildsSound'  BY <2>3, <3>1, <3>5, <3>9, GoesSound
    <3>. QED  BY <2>1, <3>5, <3>10, PublishedStays, CutStays, EdgesStay, Together
  <2>. QED  BY <1>4, <2>2, <2>3 DEF PushCompanion
<1>5. CASE Publish(b)
  <2>1. /\ UNCHANGED <<history, tags, cut>> /\ published' = published \cup {v}
        /\ Goes(b, "green") /\ builds[b].pc = "publish"
    BY <1>5 DEF Publish
  <2>2. Grown  BY <2>1, GrownSame
  <2>3. PICK version : version = v  OBVIOUS
  <2>4. Verified(version, "green")  BY <1>1, <2>1, <2>3 DEF Verified
  <2>5. Verified(version, "green")'  BY <2>2, <2>4, VerifiedStays
  <2>6. BuildsSound'  BY <2>1, <2>2, <2>3, <2>5, GoesSound
  <2>7. \A w \in published : Verified(w, "green")'
    BY <2>2, VerifiedStays DEF IInv, PublishedSound
  <2>8. PublishedSound'  BY <2>1, <2>3, <2>5, <2>7 DEF PublishedSound
  <2>. QED  BY <2>1, <2>2, <2>6, <2>8, CutStays, EdgesStay, Together
<1>6. CASE BuildFails(b)
  <2>1. Verified(v, "red")  BY <1>1 DEF Verified
  <2>. QED  BY <1>6, <2>1, LooksIInv DEF BuildFails
<1>. QED  BY <1>2, <1>3, <1>4, <1>5, <1>6 DEF BuildStep

\* A commit that people push has a run of edge.yml.
LEMMA PushToMasterIInv ==
  ASSUME IInv, NEW tree, PushToMaster(tree)
  PROVE  IInv'
<1>1. /\ history' = Append(history, tree) /\ edges' = With(edges, Master + 1, Queued)
      /\ UNCHANGED <<tags, cut, builds, published>>
  BY DEF PushToMaster, Commit
<1>2. Grown  BY <1>1, GrownCommit
<1>3. Master \in Nat /\ Master' = Master + 1  BY <1>1, Committed
<1>4. DOMAIN edges' = DOMAIN edges \cup {Master + 1}  BY <1>1 DEF With
<1>5. EdgesSound'  BY <1>3, <1>4 DEF IInv, EdgesSound
<1>. QED  BY <1>1, <1>2, <1>5, BuildsStay, PublishedStays, CutStays, Together

\* An edge tag is put on the commit of its run.
LEMMA TagEdgeIInv ==
  ASSUME IInv, NEW c, TagEdge(c)
  PROVE  IInv'
<1>. DEFINE tag == EdgeTag(c)
<1>1. /\ UNCHANGED <<history, cut, builds, published>> /\ DOMAIN edges' = DOMAIN edges
      /\ tags' = IF tag \in DOMAIN tags THEN tags ELSE With(tags, tag, c)
      /\ c \in DOMAIN edges
  BY DEF TagEdge, Is
<1>2. c \in 1..Master /\ IsTag(tag)
  BY <1>1 DEF IInv, EdgesSound, IsTag, EdgeTag
<1>. HIDE DEF tag
<1>3. CASE tag \in DOMAIN tags  BY <1>1, <1>3, AsideIInv
<1>4. CASE tag \notin DOMAIN tags
  <2>1. /\ DOMAIN tags' = DOMAIN tags \cup {tag} /\ tags'[tag] = c
        /\ \A t \in DOMAIN tags : tags'[t] = tags[t]
    BY <1>1, <1>4 DEF With
  <2>2. Master' = Master /\ Master \in Nat
    BY <1>1, SeqLen DEF IInv, HistorySound, Master
  <2>3. TagsSound'  BY <1>2, <2>1, <2>2 DEF IInv, TagsSound
  <2>4. HistorySound'  BY <1>1 DEF IInv, HistorySound
  <2>5. Master' >= Master /\ \A i \in 1..Master : history'[i] = history[i]
    BY <1>1, <2>2
  <2>6. Grown  BY <2>1, <2>3, <2>4, <2>5 DEF Grown
  <2>. QED  BY <1>1, <2>6, BuildsStay, PublishedStays, CutStays, EdgesStay, Together
<1>. QED  BY <1>3, <1>4

\* What a run of edge.yml does after its tag touches only prereleases.
LEMMA EdgeRunIInv ==
  ASSUME IInv, NEW c,
         \/ EdgeStep(c) /\ ~ TagEdge(c)
         \/ LookFails(c) \/ EdgeFails(c) \/ RunAgain(c)
  PROVE  IInv'
<1>1. UNCHANGED <<history, tags, cut, builds, published>>
  BY DEF EdgeStep, LookFails, EdgeFails, RunAgain, Look, DeleteUnexpected, Clean, OpenDraft,
         DeleteReplaced, BeginUpload, EndUpload, PublishEdge, releaseVars
<1>2. DOMAIN edges' = DOMAIN edges
  BY DEF EdgeStep, LookFails, EdgeFails, RunAgain, Look, DeleteUnexpected, Clean, OpenDraft,
         DeleteReplaced, BeginUpload, EndUpload, PublishEdge, EdgeGoes
<1>. QED  BY <1>1, <1>2, AsideIInv

\* Every step of the cuts, the runs of release.yml and the people who tag.
LEMMA ReleaseNextIInv ==
  ASSUME IInv, ReleaseNext, UNCHANGED edgeVars
  PROVE  IInv'
<1>. UNCHANGED edges  BY DEF edgeVars
<1>1. ASSUME NEW version, NEW commit \in 1..Master,
             TagByHand(version, commit) \/ TagModuleByHand(version, commit)
      PROVE  IInv'
  <2>1. IsTag(RepoTag(version)) /\ IsTag(GoTag(version))  BY DEF IsTag, RepoTag, GoTag
  <2>. QED  BY <1>1, <2>1, TagByIInv DEF TagByHand, TagModuleByHand
<1>2. ASSUME CutStep \/ CutFails PROVE IInv'
  BY <1>2, PushReleaseIInv, DispatchIInv, CutEndsIInv DEF CutStep, CutFails, PushRejected
<1>. QED  BY <1>1, <1>2, RestartIInv, CheckoutIInv, BuildIInv DEF ReleaseNext

\* Every step of the whole.
LEMMA NextIInv == IInv /\ [AutoNext]_autoVars => IInv'
<1>. SUFFICES ASSUME IInv, [AutoNext]_autoVars PROVE IInv'  OBVIOUS
<1>1. CASE ReleaseNext /\ UNCHANGED edgeVars  BY <1>1, ReleaseNextIInv
<1>2. ASSUME NEW tree, PushToMaster(tree) PROVE IInv'  BY <1>2, PushToMasterIInv
<1>3. ASSUME NEW c, EdgeStep(c) \/ LookFails(c) \/ EdgeFails(c) \/ RunAgain(c) PROVE IInv'
  BY <1>3, TagEdgeIInv, EdgeRunIInv
<1>4. ASSUME NextDay \/ \E tag, a : Attach(tag, a) PROVE IInv'
  BY <1>4, AsideIInv DEF NextDay, Attach
<1>5. CASE UNCHANGED autoVars
  BY <1>5, AsideIInv DEF autoVars, releaseVars, edgeVars
<1>. QED  BY <1>1, <1>2, <1>3, <1>4, <1>5 DEF AutoNext, EdgeNext

-----------------------------------------------------------------------------

\* The invariant of the releases, from which the two theorems below follow.
THEOREM ReleaseInductive == AutoSpec => []IInv
<1>. QED  BY StartIInv, NextIInv, PTL DEF AutoSpec

\* A published version can be fetched as what it is, by its own tag and by the Go
\* module's: both name one commit, and build.zig.zon has that version there, however
\* cuts, tags pushed by hand and runs of release.yml come together (release.yml,
\* cut-release.yml).
THEOREM PublishedConsistent == AutoSpec => []PublishedIsConsistent
<1>1. IInv => PublishedIsConsistent
  BY DEF IInv, PublishedSound, Verified, PublishedIsConsistent
<1>. QED  BY <1>1, ReleaseInductive, PTL

\* What a cut dispatches is on master whole, right after the commit that was tested
\* (cut-release.yml, git push --atomic).
THEOREM CutWhole == AutoSpec => []CutIsWhole
<1>1. IInv => CutIsWhole  BY DEF IInv, CutSound
<1>. QED  BY <1>1, ReleaseInductive, PTL

-----------------------------------------------------------------------------
\* The order of versions.

Base == [1..3 -> Nat]

\* The order of bases, written out.
LEMMA BelowIs ==
  ASSUME NEW b \in Base, NEW c \in Base
  PROVE  Below(b, c) <=> \/ b[1] < c[1]
                         \/ b[1] = c[1] /\ b[2] < c[2]
                         \/ b[1] = c[1] /\ b[2] = c[2] /\ b[3] < c[3]
<1>1. /\ \A j \in 1..(1 - 1) : FALSE
      /\ \A j : j \in 1..(2 - 1) <=> j = 1
      /\ \A j : j \in 1..(3 - 1) <=> j = 1 \/ j = 2
  OBVIOUS
<1>2. \A i : i \in 1..3 <=> i = 1 \/ i = 2 \/ i = 3  OBVIOUS
<1>. QED  BY <1>1, <1>2 DEF Below

\* It is a total order.
LEMMA BelowOrder ==
  ASSUME NEW b \in Base, NEW c \in Base
  PROVE  /\ ~ Below(b, b)
         /\ Below(b, c) => ~ Below(c, b)
         /\ b # c => Below(b, c) \/ Below(c, b)
<1>1. /\ b[1] \in Nat /\ b[2] \in Nat /\ b[3] \in Nat
      /\ c[1] \in Nat /\ c[2] \in Nat /\ c[3] \in Nat
  BY DEF Base
<1>2. b[1] = c[1] /\ b[2] = c[2] /\ b[3] = c[3] => b = c  BY DEF Base
<1>. QED  BY <1>1, <1>2, BelowIs

\* So is what is above what is above.
LEMMA BelowTransitive ==
  ASSUME NEW b \in Base, NEW c \in Base, NEW d \in Base, Below(b, c), Below(c, d)
  PROVE  Below(b, d)
<1>1. /\ b[1] \in Nat /\ b[2] \in Nat /\ b[3] \in Nat
      /\ c[1] \in Nat /\ c[2] \in Nat /\ c[3] \in Nat
      /\ d[1] \in Nat /\ d[2] \in Nat /\ d[3] \in Nat
  BY DEF Base
<1>. QED  BY <1>1, BelowIs

\* A part that is bumped makes a later base.
LEMMA Bumped ==
  ASSUME NEW b \in Base, NEW part \in 1..3
  PROVE  Bump(b, part) \in Base /\ Below(b, Bump(b, part))
<1>1. Bump(b, part) \in Base  BY DEF Bump, Base
<1>2. /\ Bump(b, part)[part] = b[part] + 1 /\ b[part] \in Nat
      /\ \A j \in 1..3 : j < part => Bump(b, part)[j] = b[j]
  BY DEF Bump, Base
<1>3. \A j \in 1..(part - 1) : j \in 1..3 /\ j < part  OBVIOUS
<1>4. b[part] < Bump(b, part)[part] /\ \A j \in 1..(part - 1) : b[j] = Bump(b, part)[j]
  BY <1>2, <1>3
<1>. QED  BY <1>1, <1>4 DEF Below

\* Versions are in a total order too.
LEMMA OlderOrder ==
  ASSUME NEW v \in Version, NEW w \in Version
  PROVE  /\ ~ IsOlder(v, v)
         /\ IsOlder(v, w) => ~ IsOlder(w, v)
         /\ v # w => IsOlder(v, w) \/ IsOlder(w, v)
<1>1. v.base \in Base /\ w.base \in Base /\ v.rc \in Nat /\ w.rc \in Nat
  BY DEF Version, Base
<1>2. v.base = w.base /\ v.rc = w.rc => v = w  BY DEF Version
<1>3. ~ Below(v.base, v.base)  BY <1>1, BelowOrder
<1>4. /\ Below(v.base, w.base) => ~ Below(w.base, v.base)
      /\ v.base # w.base => Below(v.base, w.base) \/ Below(w.base, v.base)
  BY <1>1, BelowOrder
<1>. QED  BY <1>1, <1>2, <1>3, <1>4 DEF IsOlder

\* What is older than an older version is older.
LEMMA OlderTransitive ==
  ASSUME NEW u \in Version, NEW v \in Version, NEW w \in Version, IsOlder(u, v), IsOlder(v, w)
  PROVE  IsOlder(u, w)
<1>1. /\ u.base \in Base /\ v.base \in Base /\ w.base \in Base
      /\ u.rc \in Nat /\ v.rc \in Nat /\ w.rc \in Nat
  BY DEF Version, Base
<1>2. Below(u.base, v.base) /\ Below(v.base, w.base) => Below(u.base, w.base)
  BY <1>1, BelowTransitive
<1>. QED  BY <1>1, <1>2 DEF IsOlder

\* The latest is the one that all others are older than.
LEMMA LatestIs ==
  ASSUME NEW versions, HasLatest(versions)
  PROVE  Latest(versions) \in versions /\ \A w \in versions \ {Latest(versions)} : IsOlder(w, Latest(versions))
BY DEF Latest, HasLatest

\* A version more leaves a latest, and makes one where there was none.
LEMMA OneMore ==
  ASSUME NEW versions, versions \subseteq Version, versions # {} => HasLatest(versions),
         NEW v \in Version
  PROVE  HasLatest(versions \cup {v})
<1>1. CASE versions = {}  BY <1>1 DEF HasLatest
<1>2. CASE v \in versions
  <2>1. versions \cup {v} = versions  BY <1>2
  <2>. QED  BY <1>2, <2>1
<1>3. CASE versions # {} /\ v \notin versions
  <2>1. PICK u \in versions : \A w \in versions \ {u} : IsOlder(w, u)  BY <1>3 DEF HasLatest
  <2>2. CASE IsOlder(v, u)  BY <2>1, <2>2 DEF HasLatest
  <2>3. CASE IsOlder(u, v)
    <3>1. \A w \in versions : IsOlder(w, v)  BY <2>1, <2>3, OlderTransitive
    <3>. QED  BY <3>1 DEF HasLatest
  <2>. QED  BY <1>3, <2>1, <2>2, <2>3, OlderOrder
<1>. QED  BY <1>1, <1>2, <1>3

-----------------------------------------------------------------------------
\* The version that a level stands for.

\* Versions that are tagged: there is a latest release and a latest candidate.
Sound(versions) ==
  /\ versions \subseteq Version
  /\ Releases(versions) # {} => HasLatest(Releases(versions))
  /\ Candidates(versions) # {} => HasLatest(Candidates(versions))

\* No release is above the latest stable base.
LEMMA LatestStableIs ==
  ASSUME NEW versions, Sound(versions), NEW tree \in Version
  PROVE  /\ LatestStable(versions, tree) \in Base
         /\ \A s \in Releases(versions) :
              s.base = LatestStable(versions, tree) \/ Below(s.base, LatestStable(versions, tree))
<1>1. CASE Releases(versions) = {}  BY <1>1 DEF LatestStable, Version, Base
<1>2. CASE Releases(versions) # {}
  <2>. DEFINE l == Latest(Releases(versions))
  <2>1. LatestStable(versions, tree) = l.base  BY <1>2 DEF LatestStable
  <2>2. HasLatest(Releases(versions))  BY <1>2 DEF Sound
  <2>3. l \in Releases(versions) /\ \A w \in Releases(versions) \ {l} : IsOlder(w, l)
    BY <2>2, LatestIs
  <2>. HIDE DEF l
  <2>4. l \in Version  BY <2>3 DEF Sound, Releases
  <2>5. \A s \in Releases(versions) : s.rc = 0  BY DEF Releases
  <2>. QED  BY <2>1, <2>3, <2>4, <2>5 DEF IsOlder, Version, Base
<1>. QED  BY <1>1, <1>2

\* The latest candidate is a candidate, and no other is above it.
LEMMA LatestCandidateIs ==
  ASSUME NEW versions, Sound(versions), Candidates(versions) # {},
         NEW latest, latest = Latest(Candidates(versions))
  PROVE  /\ latest \in Candidates(versions) /\ latest \in Version
         /\ latest.base \in Base /\ latest.rc \in Nat \ {0}
         /\ \A c \in Candidates(versions) :
              \/ c = latest
              \/ Below(c.base, latest.base)
              \/ c.base = latest.base /\ c.rc < latest.rc
<1>1. HasLatest(Candidates(versions))  BY DEF Sound
<1>2. /\ latest \in Candidates(versions)
      /\ \A w \in Candidates(versions) \ {latest} : IsOlder(w, latest)
  BY <1>1, LatestIs
<1>3. latest \in Version /\ latest.rc # 0
  BY <1>2 DEF Sound, Candidates, Releases
<1>4. latest.base \in Base /\ latest.rc \in Nat \ {0}  BY <1>3 DEF Version, Base
<1>. QED  BY <1>2, <1>3, <1>4 DEF IsOlder

\* What each level asks for.
LEMMA NextIs ==
  ASSUME NEW versions, NEW tree, NEW level \in Level,
         NEW v \in NextVersions(level, versions, tree),
         NEW stable, stable = LatestStable(versions, tree),
         NEW latest, latest = Latest(Candidates(versions))
  PROVE  \/ level.part \in 1..3 /\ v = Stable(Bump(stable, level.part))
         \/ level.part \in 1..3 /\ v = Candidate(Bump(stable, level.part), 1) /\ ~ IsOpen(versions, tree)
         \/ v = Candidate(latest.base, latest.rc + 1) /\ IsOpen(versions, tree)
         \/ v = Stable(latest.base) /\ IsOpen(versions, tree)
<1>1. CASE level.kind = "stable"  BY <1>1 DEF NextVersions, Level
<1>2. CASE level.kind = "open"  BY <1>2 DEF NextVersions, Level
<1>3. CASE level.kind = "next"  BY <1>3 DEF NextVersions
<1>4. CASE level.kind = "promote"  BY <1>4 DEF NextVersions
<1>. QED  BY <1>1, <1>2, <1>3, <1>4 DEF Level

\* It is newer than all that is tagged of its kind.
LEMMA NextAdvances ==
  ASSUME NEW versions, Sound(versions), NEW tree \in Version, NEW level \in Level,
         NEW v \in NextVersions(level, versions, tree)
  PROVE  /\ v \in Version
         /\ \A s \in Releases(versions) : Below(s.base, v.base)
         /\ \A c \in Candidates(versions) : c.base = v.base /\ v.rc > 0 => c.rc < v.rc
<1>. PICK stable : stable = LatestStable(versions, tree)  OBVIOUS
<1>. PICK latest : latest = Latest(Candidates(versions))  OBVIOUS
<1>1. /\ stable \in Base
      /\ \A s \in Releases(versions) : s.base = stable \/ Below(s.base, stable)
  BY LatestStableIs
<1>2. \A s \in versions : s \in Version /\ s.base \in Base /\ s.rc \in Nat
  BY DEF Sound, Version, Base
<1>3. ASSUME NEW part \in 1..3, v.base = Bump(stable, part)
      PROVE  /\ v.base \in Base /\ Below(stable, v.base)
             /\ \A s \in Releases(versions) : Below(s.base, v.base)
  <2>1. v.base \in Base /\ Below(stable, v.base)  BY <1>1, <1>3, Bumped
  <2>. QED  BY <1>1, <1>2, <2>1, BelowTransitive DEF Releases
<1>4. CASE level.part \in 1..3 /\ v = Stable(Bump(stable, level.part))
  <2>1. v.base = Bump(stable, level.part) /\ v.rc = 0  BY <1>4 DEF Stable
  <2>2. v.base \in Base /\ \A s \in Releases(versions) : Below(s.base, v.base)
    BY <1>4, <2>1, <1>3
  <2>3. v \in Version  BY <1>4, <2>1, <2>2 DEF Stable, Version, Base
  <2>. QED  BY <2>1, <2>2, <2>3
<1>5. CASE level.part \in 1..3 /\ v = Candidate(Bump(stable, level.part), 1) /\ ~ IsOpen(versions, tree)
  <2>1. v.base = Bump(stable, level.part) /\ v.rc = 1  BY <1>5 DEF Candidate
  <2>2. /\ v.base \in Base /\ Below(stable, v.base)
        /\ \A s \in Releases(versions) : Below(s.base, v.base)
    BY <1>5, <2>1, <1>3
  <2>3. v \in Version  BY <1>5, <2>1, <2>2 DEF Candidate, Version, Base
  <2>4. ASSUME NEW c \in Candidates(versions) PROVE c.base # v.base
    <3>1. latest.base \in Base /\ (c = latest \/ Below(c.base, latest.base) \/ c.base = latest.base)
      BY LatestCandidateIs
    <3>2. ~ Below(stable, latest.base)  BY <1>5 DEF IsOpen
    <3>3. c.base \in Base  BY <1>2 DEF Candidates
    <3>. QED  BY <1>1, <2>2, <3>1, <3>2, <3>3, BelowTransitive
  <2>. QED  BY <2>2, <2>3, <2>4
<1>6. CASE v.base = latest.base /\ IsOpen(versions, tree) /\ v \in {Stable(latest.base), Candidate(latest.base, latest.rc + 1)}
  <2>1. Candidates(versions) # {} /\ Below(stable, latest.base)  BY <1>6 DEF IsOpen
  <2>2. /\ latest.base \in Base /\ latest.rc \in Nat \ {0}
        /\ \A c \in Candidates(versions) :
             \/ c = latest
             \/ Below(c.base, latest.base)
             \/ c.base = latest.base /\ c.rc < latest.rc
    BY <2>1, LatestCandidateIs
  <2>3. v \in Version /\ (v.rc = 0 \/ v.rc = latest.rc + 1)
    BY <1>6, <2>2 DEF Stable, Candidate, Version, Base
  <2>4. \A s \in Releases(versions) : Below(s.base, v.base)
    BY <1>1, <1>2, <1>6, <2>1, <2>2, BelowTransitive DEF Releases
  <2>5. ASSUME NEW c \in Candidates(versions), c.base = v.base, v.rc > 0 PROVE c.rc < v.rc
    <3>1. ~ Below(c.base, latest.base)  BY <1>6, <2>2, <2>5, BelowOrder
    <3>2. c.rc \in Nat  BY <1>2 DEF Candidates
    <3>. QED  BY <2>2, <2>3, <2>5, <3>1, <3>2
  <2>. QED  BY <2>3, <2>4, <2>5
<1>. QED  BY <1>4, <1>5, <1>6, NextIs DEF Stable, Candidate

\* Where there is a stable version, what comes next leaves one open series, if any.
LEMMA NextKeepsSeries ==
  ASSUME NEW versions, Sound(versions), NEW tree \in Version, NEW level \in Level,
         NEW v \in NextVersions(level, versions, tree),
         Releases(versions) # {}, OneSeries(versions)
  PROVE  OneSeries(versions \cup {v})
<1>. PICK stable : stable = LatestStable(versions, tree)  OBVIOUS
<1>. PICK latest : latest = Latest(Candidates(versions))  OBVIOUS
<1>1. \A c \in Open(versions \cup {v}) : c = v \/ c \in Open(versions)
  BY DEF Open, Candidates, Releases
<1>2. \A c \in Open(versions \cup {v}) : c.rc # 0  BY DEF Open, Candidates, Releases
<1>3. CASE v.rc = 0
  <2>1. \A c \in Open(versions \cup {v}) : c \in Open(versions)  BY <1>1, <1>2, <1>3
  <2>. QED  BY <2>1 DEF OneSeries
<1>4. CASE v = Candidate(latest.base, latest.rc + 1) /\ IsOpen(versions, tree)
  <2>1. /\ latest \in Candidates(versions) /\ latest.base \in Base
        /\ Below(stable, latest.base)
    BY <1>4, LatestCandidateIs DEF IsOpen
  <2>2. /\ stable \in Base
        /\ \A s \in Releases(versions) : s.base = stable \/ Below(s.base, stable)
    BY LatestStableIs
  <2>3. ASSUME NEW s \in Releases(versions) PROVE Below(s.base, latest.base)
    <3>1. s.base \in Base  BY DEF Sound, Version, Base, Releases
    <3>. QED  BY <3>1, <2>1, <2>2, BelowTransitive
  <2>4. latest \in Open(versions)  BY <2>1, <2>3 DEF Open, IsOlder
  <2>5. v.base = latest.base  BY <1>4 DEF Candidate
  <2>. QED  BY <1>1, <2>4, <2>5 DEF OneSeries
<1>5. CASE ~ IsOpen(versions, tree)
  <2>1. ASSUME NEW c \in Open(versions) PROVE FALSE
    <3>1. /\ latest \in Version /\ latest.base \in Base
          /\ c = latest \/ Below(c.base, latest.base) \/ c.base = latest.base
      BY LatestCandidateIs DEF Open
    <3>. DEFINE s == Latest(Releases(versions))
    <3>2. HasLatest(Releases(versions))  BY DEF Sound
    <3>3. s \in Releases(versions)  BY <3>2, LatestIs
    <3>4. s.base = stable  BY DEF LatestStable
    <3>5. s.rc = 0 /\ s.base \in Base /\ c.base \in Base
      BY <3>3 DEF Releases, Sound, Version, Base, Open, Candidates
    <3>6. Below(stable, c.base)  BY <3>3, <3>4, <3>5 DEF Open, IsOlder
    <3>7. Below(stable, latest.base)  BY <3>1, <3>4, <3>5, <3>6, BelowTransitive
    <3>. QED  BY <1>5, <3>7 DEF IsOpen, Open
  <2>. QED  BY <1>1, <2>1 DEF OneSeries
<1>. QED  BY <1>3, <1>4, <1>5, NextIs DEF Stable, Candidate

\* The newest open series goes on.
LEMMA SeriesGoes ==
  ASSUME NEW versions, Sound(versions), NEW tree, Releases(versions) # {}, Open(versions) # {}
  PROVE  \E v : /\ NextVersions([kind |-> "next", part |-> 0], versions, tree) = {v}
                /\ NextVersions([kind |-> "promote", part |-> 0], versions, tree) = {Stable(v.base)}
                /\ v.rc > 1 /\ v \notin versions
                /\ \E w \in Open(versions) : w.base = v.base
                /\ \A w \in Open(versions) : w.base = v.base \/ Below(w.base, v.base)
<1>. PICK latest : latest = Latest(Candidates(versions))  OBVIOUS
<1>. PICK stable : stable = Latest(Releases(versions))  OBVIOUS
<1>1. HasLatest(Releases(versions))  BY DEF Sound
<1>2. /\ stable \in Releases(versions)
      /\ \A s \in Releases(versions) \ {stable} : IsOlder(s, stable)
  BY <1>1, LatestIs
<1>3. PICK c \in Open(versions) : TRUE  OBVIOUS
<1>4. /\ latest \in Candidates(versions) /\ latest \in Version
      /\ latest.base \in Base /\ latest.rc \in Nat \ {0}
      /\ \A w \in Candidates(versions) :
           \/ w = latest
           \/ Below(w.base, latest.base)
           \/ w.base = latest.base /\ w.rc < latest.rc
  BY <1>3, LatestCandidateIs DEF Open
<1>5. /\ \A s \in Releases(versions) : s.rc = 0 /\ s.base \in Base
      /\ c.base \in Base /\ c \in Candidates(versions)
  BY DEF Releases, Sound, Version, Base, Open, Candidates
<1>6. Below(stable.base, latest.base)
  <2>1. Below(stable.base, c.base)  BY <1>2, <1>5 DEF Open, IsOlder
  <2>. QED  BY <1>2, <1>4, <1>5, <2>1, BelowTransitive
<1>7. IsOpen(versions, tree) /\ IsSeeded(versions, tree)
  BY <1>3, <1>6 DEF IsOpen, IsSeeded, LatestStable, Open
<1>. DEFINE v == Candidate(latest.base, latest.rc + 1)
<1>8. /\ NextVersions([kind |-> "next", part |-> 0], versions, tree) = {v}
      /\ NextVersions([kind |-> "promote", part |-> 0], versions, tree) = {Stable(latest.base)}
  BY <1>7 DEF NextVersions
<1>9. v.base = latest.base /\ v.rc = latest.rc + 1  BY DEF Candidate
<1>. HIDE DEF v
<1>10. v.rc > 1  BY <1>4, <1>9
<1>11. v \notin versions
  <2>1. SUFFICES ASSUME v \in Candidates(versions) PROVE FALSE
    BY <1>4, <1>9 DEF Candidates, Releases
  <2>2. ~ Below(v.base, latest.base)  BY <1>4, <1>9, BelowOrder
  <2>. QED  BY <1>4, <1>9, <2>1, <2>2
<1>12. latest \in Open(versions)
  <2>1. ASSUME NEW s \in Releases(versions) PROVE Below(s.base, latest.base)
    BY <1>2, <1>4, <1>5, <1>6, BelowTransitive DEF IsOlder
  <2>. QED  BY <1>4, <2>1 DEF Open, IsOlder
<1>13. \A w \in Open(versions) : w.base = v.base \/ Below(w.base, v.base)
  BY <1>4, <1>9 DEF Open
<1>. QED  BY <1>8, <1>9, <1>10, <1>11, <1>12, <1>13

-----------------------------------------------------------------------------
\* The invariant of the versions.

HistoryVersions == \A i \in 1..Master : history[i] \in Version

SeriesSound == NoHands /\ StableFirst => OneSeries(Tagged)

\* What a cut is about to tag is what its level stands for, of the tags it fetched;
\* those that are there by now and were not then, people have pushed.
CutVersion ==
  cut.pc = "push" =>
    /\ {"head", "seen", "version", "level"} \subseteq DOMAIN cut
    /\ cut.head \in 1..Master /\ cut.level \in Level /\ cut.version \in Version
    /\ cut.seen \subseteq Tagged /\ Sound(cut.seen)
    /\ \A v \in Tagged \ cut.seen : RepoTag(v) \in byHand
    /\ cut.version \in NextVersions(cut.level, cut.seen, history[cut.head])

VInv == HistoryVersions /\ Sound(Tagged) /\ SeriesSound /\ CutVersion

\* A step that tags no version.
Quiet ==
  /\ Tagged' = Tagged /\ (StableFirst' => StableFirst)
  /\ (NoHands' => NoHands) /\ byHand \subseteq byHand'
  /\ history' = history \/ \E tree \in Version : history' = Append(history, tree)
  /\ cut' = cut \/ cut' = NoCut

\* A version that people tag.
TaggedByHand ==
  /\ \E version \in Version :
       Tagged' = Tagged \cup {version} /\ RepoTag(version) \in byHand'
  /\ ~ NoHands' /\ byHand \subseteq byHand'
  /\ history' = history /\ cut' = cut

\* A version is tagged when its tag is there.
LEMMA TaggedIs ==
  ASSUME IInv
  PROVE  \A v : v \in Tagged <=> RepoTag(v) \in DOMAIN tags
BY DEF IInv, TagsSound, IsTag, Tagged, RepoTag

\* Tags of other kinds are no versions.
LEMMA OtherTags ==
  ASSUME DOMAIN tags \subseteq DOMAIN tags', \A t \in DOMAIN tags : tags'[t] = tags[t],
         \A t \in DOMAIN tags' \ DOMAIN tags : t.kind # "v"
  PROVE  Tagged' = Tagged /\ (IInv /\ StableFirst' => StableFirst)
<1>1. Tagged' = Tagged  BY DEF Tagged
<1>2. ASSUME IInv, StableFirst' PROVE StableFirst
  <2>1. PICK v \in Releases(Tagged)' : tags'[RepoTag(v)] = 1  BY <1>2 DEF StableFirst, RepoTag
  <2>2. Releases(Tagged)' = Releases(Tagged)  BY <1>1 DEF Releases
  <2>3. v \in Tagged  BY <2>1, <2>2 DEF Releases
  <2>4. RepoTag(v) \in DOMAIN tags  BY <1>2, <2>3, TaggedIs
  <2>. QED  BY <2>1, <2>2, <2>4 DEF StableFirst
<1>. QED  BY <1>1, <1>2

\* Nothing is tagged.
LEMMA NoTag ==
  ASSUME IInv, UNCHANGED <<tags, byHand>>,
         history' = history \/ \E tree \in Version : history' = Append(history, tree),
         cut' = cut \/ cut' = NoCut
  PROVE  Quiet
BY OtherTags DEF Quiet, NoHands

\* A tag that people push.
LEMMA TagByIs ==
  ASSUME IInv, NEW tag, NEW commit, TagBy(tag, commit), tag.kind \in {"v", "go"}
  PROVE  /\ ~ NoHands' /\ tag \in byHand' /\ byHand \subseteq byHand'
         /\ DOMAIN tags' = DOMAIN tags \cup {tag} /\ \A t \in DOMAIN tags : tags'[t] = tags[t]
         /\ history' = history /\ cut' = cut
<1>1. /\ Push([t \in {tag} |-> commit]) /\ UNCHANGED <<history, cut>>
      /\ tag \in byHand' /\ byHand \subseteq byHand'
  BY DEF TagBy
<1>2. DOMAIN tags' = DOMAIN tags \cup {tag} /\ \A t \in DOMAIN tags : tags'[t] = tags[t]
  BY <1>1, PushOnly
<1>. QED  BY <1>1, <1>2 DEF NoHands

\* A version that people tag is one more.
LEMMA HandTag ==
  ASSUME IInv, NEW version \in Version, NEW commit, TagByHand(version, commit)
  PROVE  TaggedByHand
<1>1. /\ ~ NoHands' /\ RepoTag(version) \in byHand' /\ byHand \subseteq byHand'
      /\ DOMAIN tags' = DOMAIN tags \cup {RepoTag(version)}
      /\ history' = history /\ cut' = cut
  BY TagByIs DEF TagByHand, RepoTag
<1>2. Tagged' = Tagged \cup {version}
  <2>1. RepoTag(version).kind = "v" /\ RepoTag(version).version = version  BY DEF RepoTag
  <2>. QED  BY <1>1, <2>1 DEF Tagged
<1>. QED  BY <1>1, <1>2 DEF TaggedByHand

\* A companion that people tag is no version.
LEMMA HandModule ==
  ASSUME IInv, NEW version, NEW commit, TagModuleByHand(version, commit)
  PROVE  Quiet
<1>1. /\ ~ NoHands' /\ byHand \subseteq byHand'
      /\ DOMAIN tags' = DOMAIN tags \cup {GoTag(version)}
      /\ \A t \in DOMAIN tags : tags'[t] = tags[t]
      /\ history' = history /\ cut' = cut
  BY TagByIs DEF TagModuleByHand, GoTag
<1>. QED  BY <1>1, OtherTags DEF Quiet, GoTag

\* The runs of release.yml push nothing but companions.
LEMMA BuildQuiet ==
  ASSUME IInv, NEW b, BuildStep(b) \/ BuildFails(b)
  PROVE  Quiet
<1>1. CASE Gate(b) \/ LookForCompanion(b) \/ Publish(b) \/ BuildFails(b)
  BY <1>1, NoTag DEF Gate, LookForCompanion, Publish, BuildFails
<1>2. CASE PushCompanion(b)
  <2>1. UNCHANGED <<history, cut, byHand>>  BY <1>2 DEF PushCompanion
  <2>2. CASE UNCHANGED tags  BY <2>1, <2>2, NoTag
  <2>3. CASE Push([t \in {GoTag(VersionOf(b))} |-> CommitOf(b)])
    <3>1. /\ DOMAIN tags' = DOMAIN tags \cup {GoTag(VersionOf(b))}
          /\ \A t \in DOMAIN tags : tags'[t] = tags[t]
      BY <2>3, PushOnly
    <3>. QED  BY <2>1, <3>1, OtherTags DEF Quiet, GoTag, NoHands
  <2>. QED  BY <1>2, <2>2, <2>3 DEF PushCompanion
<1>. QED  BY <1>1, <1>2 DEF BuildStep

\* Edge tags are no versions.
LEMMA TagEdgeQuiet ==
  ASSUME IInv, NEW c, TagEdge(c)
  PROVE  Quiet
<1>1. /\ UNCHANGED <<history, cut, byHand>>
      /\ tags' = IF EdgeTag(c) \in DOMAIN tags THEN tags ELSE With(tags, EdgeTag(c), c)
  BY DEF TagEdge
<1>2. /\ DOMAIN tags \subseteq DOMAIN tags' /\ DOMAIN tags' \subseteq DOMAIN tags \cup {EdgeTag(c)}
      /\ \A t \in DOMAIN tags : tags'[t] = tags[t]
  BY <1>1 DEF With
<1>. QED  BY <1>1, <1>2, OtherTags DEF Quiet, EdgeTag, NoHands

\* A step tags nothing, or is one of these.
LEMMA StepIs ==
  ASSUME IInv, HistoryVersions, [AutoNext]_autoVars
  PROVE  Quiet \/ TaggedByHand \/ PushRelease \/ \E level \in Level : Checkout(level)
<1>1. HandVersions \subseteq Version  BY BoundsAssumption
<1>2. ASSUME NEW version \in HandVersions, NEW commit,
             TagByHand(version, commit) \/ TagModuleByHand(version, commit)
      PROVE  Quiet \/ TaggedByHand
  BY <1>1, <1>2, HandTag, HandModule
<1>3. ASSUME NEW version, Restart(version) PROVE Quiet  BY <1>3, NoTag DEF Restart
<1>4. CASE PushRejected \/ Dispatch \/ CutFails
  BY <1>4, NoTag DEF PushRejected, Dispatch, CutFails
<1>5. CASE ReleaseNext
  BY <1>2, <1>3, <1>4, <1>5, BuildQuiet DEF ReleaseNext, CutStep
<1>6. ASSUME NEW tree \in HandVersions \cup {history[Master]}, PushToMaster(tree) PROVE Quiet
  <2>1. Master \in 1..Master
    <3>1. Master \in Nat /\ Master # 0  BY SeqLen, SeqEmpty DEF IInv, HistorySound, Master
    <3>. QED  BY <3>1
  <2>2. tree \in Version  BY <1>1, <2>1 DEF HistoryVersions
  <2>. QED  BY <1>6, <2>2, NoTag DEF PushToMaster, Commit
<1>7. ASSUME NEW c, (EdgeStep(c) /\ ~ TagEdge(c)) \/ LookFails(c) \/ EdgeFails(c) \/ RunAgain(c)
      PROVE  Quiet
  BY <1>7, NoTag DEF EdgeStep, LookFails, EdgeFails, RunAgain, Look, DeleteUnexpected, Clean,
     OpenDraft, DeleteReplaced, BeginUpload, EndUpload, PublishEdge, releaseVars
<1>8. ASSUME NEW tag, NEW a, Attach(tag, a) PROVE Quiet
  <2>1. UNCHANGED <<history, tags, cut>> /\ byHand \subseteq byHand'  BY <1>8 DEF Attach
  <2>. QED  BY <2>1, OtherTags DEF Quiet, NoHands
<1>9. CASE NextDay \/ UNCHANGED autoVars  BY <1>9, NoTag DEF NextDay, autoVars, releaseVars
<1>. QED  BY <1>5, <1>6, <1>7, <1>8, <1>9, TagEdgeQuiet DEF AutoNext, EdgeNext

-----------------------------------------------------------------------------
\* The steps, for the versions.

\* A repository at its start.
LEMMA StartVInv == EdgeInit => VInv
<1>. SUFFICES ASSUME EdgeInit PROVE VInv  OBVIOUS
<1>. USE DEF EdgeInit, ReleaseInit
<1>1. HistoryVersions
  <2>1. PICK tree \in Trees : history = <<tree>>  OBVIOUS
  <2>2. Master = 1 /\ history[1] = tree  BY <2>1 DEF Master
  <2>. QED  BY <2>2, BoundsAssumption DEF HistoryVersions
<1>2. PICK versions \in StartTags :
        tags = [t \in {RepoTag(v) : v \in versions} \cup {GoTag(v) : v \in versions} |-> 1]
  OBVIOUS
<1>3. Tagged = versions
  <2>1. \A v : v \in Tagged <=> RepoTag(v) \in DOMAIN tags  BY StartIInv, TaggedIs
  <2>2. \A v, w : RepoTag(v) # GoTag(w) /\ (RepoTag(v) = RepoTag(w) => v = w)
    BY DEF RepoTag, GoTag
  <2>3. DOMAIN tags = {RepoTag(v) : v \in versions} \cup {GoTag(v) : v \in versions}  BY <1>2
  <2>4. \A v : RepoTag(v) \in DOMAIN tags <=> v \in versions  BY <2>2, <2>3
  <2>. QED  BY <2>1, <2>4
<1>4. Sound(Tagged)  BY <1>3, StartAssumption DEF Sound
<1>5. SeriesSound
  <2>1. StableFirst => Releases(versions) # {}  BY <1>3 DEF StableFirst
  <2>. QED  BY <1>3, <2>1, StartAssumption DEF SeriesSound
<1>6. CutVersion  BY DEF CutVersion, NoCut
<1>. QED  BY <1>1, <1>4, <1>5, <1>6 DEF VInv

\* What is stamped is a version.
LEMMA HistoryStays ==
  ASSUME IInv, HistoryVersions,
         history' = history \/ \E tree \in Version : history' = Append(history, tree)
  PROVE  /\ HistoryVersions' /\ 1..Master \subseteq 1..Master'
         /\ \A i \in 1..Master : history'[i] = history[i]
<1>1. CASE history' = history  BY <1>1 DEF HistoryVersions, Master
<1>2. ASSUME NEW tree \in Version, history' = Append(history, tree)
      PROVE  /\ HistoryVersions' /\ 1..Master \subseteq 1..Master'
             /\ \A i \in 1..Master : history'[i] = history[i]
  <2>1. /\ Master \in Nat /\ Master' = Master + 1 /\ history'[Master + 1] = tree
        /\ \A i \in 1..Master : history'[i] = history[i]
    BY <1>2, Committed
  <2>2. \A i \in 1..Master' : i \in 1..Master \/ i = Master + 1  BY <2>1
  <2>3. HistoryVersions'  BY <2>1, <2>2 DEF HistoryVersions
  <2>. QED  BY <2>1, <2>3
<1>. QED  BY <1>1, <1>2

\* What a cut has worked out still holds when people, and only they, tag versions.
LEMMA CutVersionStays ==
  ASSUME IInv, HistoryVersions, CutVersion, cut' = cut,
         history' = history \/ \E tree \in Version : history' = Append(history, tree),
         Tagged \subseteq Tagged', byHand \subseteq byHand',
         \A v \in Tagged' \ Tagged : RepoTag(v) \in byHand'
  PROVE  CutVersion'
<1>. SUFFICES ASSUME cut.pc = "push" PROVE CutVersion'  BY DEF CutVersion
<1>1. /\ {"head", "seen", "version", "level"} \subseteq DOMAIN cut
      /\ cut.head \in 1..Master /\ cut.level \in Level /\ cut.version \in Version
      /\ cut.seen \subseteq Tagged /\ Sound(cut.seen)
      /\ \A v \in Tagged \ cut.seen : RepoTag(v) \in byHand
      /\ cut.version \in NextVersions(cut.level, cut.seen, history[cut.head])
  BY DEF CutVersion
<1>2. history'[cut.head] = history[cut.head] /\ cut.head \in 1..Master'
  BY <1>1, HistoryStays
<1>3. \A v \in Tagged' \ cut.seen : RepoTag(v) \in byHand'  BY <1>1
<1>4. \A v : RepoTag(v)' = RepoTag(v)  BY DEF RepoTag
<1>5. NextVersions(cut.level, cut.seen, history[cut.head])'
        = NextVersions(cut.level, cut.seen, history[cut.head])
  BY <1>2
<1>6. Sound(cut.seen)' <=> Sound(cut.seen)
  BY DEF Sound, Releases, Candidates, HasLatest
<1>. QED  BY <1>1, <1>2, <1>3, <1>4, <1>5, <1>6 DEF CutVersion

\* Where nothing is tagged, what a cut has worked out still holds.
LEMMA QuietVInv ==
  ASSUME IInv, VInv, Quiet
  PROVE  VInv'
<1>1. /\ HistoryVersions' /\ 1..Master \subseteq 1..Master'
      /\ \A i \in 1..Master : history'[i] = history[i]
  BY HistoryStays DEF VInv, Quiet
<1>2. Sound(Tagged)'  BY DEF VInv, Quiet, Sound, Releases, Candidates, HasLatest
<1>3. SeriesSound'
  BY DEF VInv, Quiet, SeriesSound, OneSeries, Open, Releases, Candidates
<1>4. CutVersion'
  <2>1. CASE cut' = NoCut  BY <2>1 DEF CutVersion, NoCut
  <2>2. CASE cut' = cut  BY <2>2, CutVersionStays DEF VInv, Quiet
  <2>. QED  BY <2>1, <2>2 DEF Quiet
<1>. QED  BY <1>1, <1>2, <1>3, <1>4 DEF VInv

\* One version more that is tagged.
LEMMA SoundMore ==
  ASSUME NEW versions, Sound(versions), NEW v \in Version
  PROVE  Sound(versions \cup {v})
<1>1. /\ Releases(versions) \subseteq Version /\ Candidates(versions) \subseteq Version
      /\ Releases(versions) # {} => HasLatest(Releases(versions))
      /\ Candidates(versions) # {} => HasLatest(Candidates(versions))
  BY DEF Sound, Releases, Candidates
<1>2. /\ HasLatest(Releases(versions) \cup {v})
      /\ HasLatest(Candidates(versions) \cup {v})
  BY <1>1, OneMore
<1>3. \/ /\ Releases(versions \cup {v}) = Releases(versions) \cup {v}
         /\ Candidates(versions \cup {v}) = Candidates(versions)
      \/ /\ Releases(versions \cup {v}) = Releases(versions)
         /\ Candidates(versions \cup {v}) = Candidates(versions) \cup {v}
  BY DEF Releases, Candidates
<1>. QED  BY <1>1, <1>2, <1>3 DEF Sound

\* A version that people tag may be any, and ends what is said of series.
LEMMA TaggedByHandVInv ==
  ASSUME IInv, VInv, TaggedByHand
  PROVE  VInv'
<1>1. PICK v \in Version : Tagged' = Tagged \cup {v} /\ RepoTag(v) \in byHand'
  BY DEF TaggedByHand
<1>2. Sound(Tagged \cup {v})  BY SoundMore DEF VInv
<1>3. Sound(Tagged)'  BY <1>1, <1>2 DEF Sound, Releases, Candidates, HasLatest
<1>4. HistoryVersions'  BY HistoryStays DEF VInv, TaggedByHand
<1>5. CutVersion'  BY <1>1, CutVersionStays DEF VInv, TaggedByHand
<1>. QED  BY <1>3, <1>4, <1>5 DEF VInv, TaggedByHand, SeriesSound

\* At the checkout the version is worked out from what is tagged.
LEMMA CheckoutVInv ==
  ASSUME IInv, VInv, NEW level \in Level, Checkout(level)
  PROVE  VInv'
<1>1. UNCHANGED <<history, tags, byHand>>  BY DEF Checkout
<1>2. PICK version \in NextVersions(level, Tagged, history[Master]) :
        cut' = [pc |-> "push", head |-> Master, seen |-> Tagged,
                version |-> version, level |-> level]
  BY DEF Checkout
<1>3. Master \in 1..Master
  <2>1. Master \in Nat /\ Master # 0  BY SeqLen, SeqEmpty DEF IInv, HistorySound, Master
  <2>. QED  BY <2>1
<1>4. version \in Version  BY <1>3, NextAdvances DEF VInv, HistoryVersions
<1>5. /\ Tagged' = Tagged /\ Master' = Master /\ NoHands' = NoHands
      /\ HistoryVersions' /\ StableFirst' = StableFirst
  BY <1>1 DEF Tagged, Master, NoHands, VInv, HistoryVersions, StableFirst, Releases, RepoTag
<1>6. CutVersion'
  <2>1. /\ {"head", "seen", "version", "level"} \subseteq DOMAIN cut'
        /\ cut'.head = Master /\ cut'.seen = Tagged /\ cut'.level = level /\ cut'.version = version
    BY <1>2
  <2>2. NextVersions(cut.level, cut.seen, history[cut.head])'
          = NextVersions(level, Tagged, history[Master])
    BY <1>1, <2>1
  <2>3. Sound(cut.seen)'  BY <2>1 DEF VInv, Sound, Releases, Candidates, HasLatest
  <2>. QED  BY <1>3, <1>4, <1>5, <2>1, <2>2, <2>3 DEF CutVersion
<1>7. Sound(Tagged)'  BY <1>5 DEF VInv, Sound, Releases, Candidates, HasLatest
<1>8. SeriesSound'
  BY <1>5 DEF VInv, SeriesSound, OneSeries, Open, Releases, Candidates
<1>. QED  BY <1>5, <1>6, <1>7, <1>8 DEF VInv

\* What a cut pushes.
LEMMA PushReleaseIs ==
  ASSUME IInv, VInv, PushRelease
  PROVE  /\ cut.version \in Version /\ Tagged' = Tagged \cup {cut.version}
         /\ StableFirst' => StableFirst
         /\ history' = Append(history, cut.version)
         /\ UNCHANGED byHand /\ cut'.pc # "push"
         /\ cut.level \in Level /\ history[cut.head] \in Version
         /\ Sound(cut.seen) /\ cut.seen = Tagged \ TaggedMeanwhile
         /\ cut.version \in NextVersions(cut.level, cut.seen, history[cut.head])
<1>1. /\ cut.pc = "push" /\ Push(CutTags(Master + 1)) /\ history' = Append(history, cut.version)
      /\ UNCHANGED byHand /\ cut' = [cut EXCEPT !.pc = "dispatch"]
  BY DEF PushRelease
<1>2. /\ cut.version \in Version /\ cut.level \in Level /\ history[cut.head] \in Version
      /\ Sound(cut.seen) /\ cut.seen \subseteq Tagged
      /\ \A v \in Tagged \ cut.seen : RepoTag(v) \in byHand
      /\ cut.version \in NextVersions(cut.level, cut.seen, history[cut.head])
  BY <1>1 DEF VInv, CutVersion, HistoryVersions
<1>. DEFINE new == CutTags(Master + 1)
<1>3. /\ DOMAIN new = {RepoTag(cut.version), GoTag(cut.version)}
      /\ \A t \in DOMAIN new : new[t] = Master + 1
  BY DEF CutTags
<1>. HIDE DEF new
<1>4. /\ DOMAIN tags' = DOMAIN tags \cup {RepoTag(cut.version), GoTag(cut.version)}
      /\ \A t \in DOMAIN tags : tags'[t] = tags[t]
      /\ tags'[RepoTag(cut.version)] = Master + 1
  <2>1. Push(new)  BY <1>1 DEF new
  <2>. QED  BY <2>1, <1>3, PushOnly
<1>5. Tagged' = Tagged \cup {cut.version}  BY <1>4 DEF Tagged, RepoTag, GoTag
<1>6. Master + 1 # 1
  <2>1. Master \in Nat /\ Master # 0  BY SeqLen, SeqEmpty DEF IInv, HistorySound, Master
  <2>. QED  BY <2>1
<1>7. ASSUME StableFirst' PROVE StableFirst
  <2>1. PICK v \in Releases(Tagged)' : tags'[RepoTag(v)] = 1  BY <1>7 DEF StableFirst, RepoTag
  <2>2. v # cut.version  BY <1>4, <1>6, <2>1
  <2>3. v \in Tagged' /\ v.rc = 0  BY <2>1 DEF Releases
  <2>4. v \in Releases(Tagged)  BY <1>5, <2>2, <2>3 DEF Releases
  <2>5. RepoTag(v) \in DOMAIN tags  BY <2>4, TaggedIs DEF Releases
  <2>. QED  BY <1>4, <2>1, <2>4, <2>5 DEF StableFirst
<1>8. cut'.pc # "push"  BY <1>1 DEF IInv, CutSound
<1>9. cut.seen = Tagged \ TaggedMeanwhile  BY <1>2 DEF TaggedMeanwhile
<1>. QED  BY <1>1, <1>2, <1>5, <1>7, <1>8, <1>9

\* The version that a cut tags keeps the order, and the series one.
LEMMA PushReleaseVInv ==
  ASSUME IInv, VInv, PushRelease
  PROVE  VInv'
<1>. PICK v : v = cut.version  OBVIOUS
<1>1. /\ v \in Version /\ Tagged' = Tagged \cup {v} /\ history' = Append(history, v)
      /\ UNCHANGED byHand /\ cut'.pc # "push"
  BY PushReleaseIs
<1>2. HistoryVersions'  BY <1>1, HistoryStays DEF VInv
<1>3. Sound(Tagged \cup {v})  BY <1>1, SoundMore DEF VInv
<1>4. Sound(Tagged)'  BY <1>1, <1>3 DEF Sound, Releases, Candidates, HasLatest
<1>5. SeriesSound'
  <2>1. SUFFICES ASSUME NoHands', StableFirst' PROVE OneSeries(Tagged)'  BY DEF SeriesSound
  <2>2. NoHands /\ StableFirst  BY <1>1, <2>1, PushReleaseIs DEF NoHands
  <2>3. OneSeries(Tagged) /\ Releases(Tagged) # {}
    BY <2>2 DEF VInv, SeriesSound, StableFirst
  <2>4. TaggedMeanwhile = {}  BY <2>2 DEF TaggedMeanwhile, NoHands, RepoTag
  <2>5. cut.seen = Tagged  BY <2>4, PushReleaseIs
  <2>6. OneSeries(Tagged \cup {v})
    BY <2>3, <2>5, PushReleaseIs, NextKeepsSeries
  <2>. QED  BY <1>1, <2>6 DEF OneSeries, Open, Releases, Candidates
<1>6. CutVersion'  BY <1>1 DEF CutVersion
<1>. QED  BY <1>2, <1>4, <1>5, <1>6 DEF VInv

\* Every step of the whole.
LEMMA NextVInv == IInv /\ VInv /\ [AutoNext]_autoVars => VInv'
BY StepIs, QuietVInv, TaggedByHandVInv, PushReleaseVInv, CheckoutVInv DEF VInv

\* What a cut tags follows all it could fetch.
LEMMA NextAdvance ==
  ASSUME IInv, VInv, [AutoNext]_autoVars, NEW v \in Tagged' \ Tagged, RepoTag(v) \notin byHand'
  PROVE  Follows(v, Tagged \ TaggedMeanwhile)
<1>1. PushRelease
  <2>1. \A level : Checkout(level) => Tagged' = Tagged  BY DEF Checkout, Tagged
  <2>2. Quiet => Tagged' = Tagged  BY DEF Quiet
  <2>3. ~ TaggedByHand  BY DEF TaggedByHand
  <2>. QED  BY <2>1, <2>2, <2>3, StepIs DEF VInv
<1>2. PICK seen : seen = cut.seen  OBVIOUS
<1>3. /\ v = cut.version /\ cut.level \in Level /\ history[cut.head] \in Version
      /\ Sound(seen) /\ seen = Tagged \ TaggedMeanwhile
      /\ v \in NextVersions(cut.level, seen, history[cut.head]) /\ v \in Version
  BY <1>1, <1>2, PushReleaseIs
<1>4. /\ \A s \in Releases(seen) : Below(s.base, v.base)
      /\ \A c \in Candidates(seen) : c.base = v.base /\ v.rc > 0 => c.rc < v.rc
  BY <1>3, NextAdvances
<1>5. ASSUME NEW s \in Releases(seen) PROVE s.base # v.base
  <2>1. s.base \in Base /\ v.base \in Base
    BY <1>3 DEF Sound, Releases, Version, Base
  <2>. QED  BY <1>4, <2>1, BelowOrder
<1>6. Follows(v, seen)  BY <1>4, <1>5 DEF Follows, IsOlder
<1>. QED  BY <1>3, <1>6

-----------------------------------------------------------------------------

\* The invariant of the versions, beside that of the releases.
THEOREM VersionsInductive == AutoSpec => [](IInv /\ VInv)
<1>. QED  BY StartIInv, NextIInv, StartVInv, NextVInv, PTL DEF AutoSpec

\* No version is cut twice or out of order: what a cut tags is newer than every stable
\* version and than the candidates of its series, whoever tagged them and in whatever
\* order, but for those that people tag between its checkout and its push
\* (next-version.sh; cut-release.yml).
THEOREM CutsGoUp == AutoSpec => CutsAdvance
<1>1. IInv /\ VInv /\ [AutoNext]_autoVars =>
        [\A v \in Tagged' \ Tagged :
           RepoTag(v) \notin byHand' => Follows(v, Tagged \ TaggedMeanwhile)]_releaseVars
  BY NextAdvance
<1>. QED  BY <1>1, VersionsInductive, PTL DEF AutoSpec, CutsAdvance

\* Where nobody tags by hand: once there is a stable version, the newest open series
\* can be continued and promoted, and is the only one open if there was a stable
\* version from the start (next-version.sh; docs/releasing.md, "only one RC series can be open at a time").
THEOREM SeriesContinue == AutoSpec => []SeriesGoesOn
<1>1. IInv /\ VInv => SeriesGoesOn
  <2>. SUFFICES ASSUME IInv, VInv, NoHands, Releases(Tagged) # {}, OpenBases # {}
                PROVE  \E v \in OpenNext :
                         /\ OpenNext = {v} /\ v.rc > 1 /\ v \notin Tagged
                         /\ NextVersions([kind |-> "promote", part |-> 0], Tagged, history[Master])
                              = {Stable(v.base)}
                         /\ v.base \in OpenBases
                         /\ \A base \in OpenBases \ {v.base} : Below(base, v.base) /\ ~ StableFirst
    BY DEF SeriesGoesOn
  <2>1. Open(Tagged) # {} /\ Sound(Tagged)  BY DEF OpenBases, VInv
  <2>2. PICK v :
          /\ OpenNext = {v}
          /\ NextVersions([kind |-> "promote", part |-> 0], Tagged, history[Master])
               = {Stable(v.base)}
          /\ v.rc > 1 /\ v \notin Tagged
          /\ \E w \in Open(Tagged) : w.base = v.base
          /\ \A w \in Open(Tagged) : w.base = v.base \/ Below(w.base, v.base)
    BY <2>1, SeriesGoes DEF OpenNext
  <2>3. \A base \in OpenBases : \E w \in Open(Tagged) : w.base = base  BY DEF OpenBases
  <2>4. v.base \in OpenBases  BY <2>2 DEF OpenBases
  <2>5. ASSUME NEW base \in OpenBases \ {v.base} PROVE Below(base, v.base) /\ ~ StableFirst
    <3>1. Below(base, v.base)  BY <2>2, <2>3
    <3>2. ~ OneSeries(Tagged)  BY <2>2, <2>3 DEF OneSeries
    <3>. QED  BY <3>1, <3>2 DEF VInv, SeriesSound
  <2>. QED  BY <2>2, <2>4, <2>5
<1>. QED  BY <1>1, VersionsInductive, PTL

-----------------------------------------------------------------------------
(***************************************************************************)
(* Edge prereleases are published complete and stay what they are, for any *)
(* number of commits, runs, failures, restarts and assets added by hand.   *)
(*                                                                         *)
(* The argument: the tag of a run names its commit, so two runs never work *)
(* on one prerelease; and a prerelease that no run was blind to and nobody *)
(* added to is a draft for as long as a run changes it, whose assets may   *)
(* be missing, or there but not uploaded, where a run breaks off.          *)
(***************************************************************************)

\* The run of a commit.
RunSound(c) ==
  /\ {"pc", "tag", "blind"} \subseteq DOMAIN edges[c]
  /\ edges[c].pc \in {"look", "clean", "open", "upload", "green"} => TagOf(c).commit = c
  /\ edges[c].pc \in {"clean", "upload", "green"} => Exists(c)
  /\ edges[c].pc \in {"clean", "open", "upload"} /\ Exists(c) /\ Watched(TagOf(c)) =>
       prereleases[TagOf(c)].draft
  /\ edges[c].pc = "green" =>
       /\ ~ prereleases[TagOf(c)].draft
       /\ \A a \in Expected : a \in DOMAIN Assets(c) /\ Assets(c)[a].uploaded

\* The prerelease of a tag.
PrereleaseSound(t) ==
  /\ {"draft", "assets"} \subseteq DOMAIN prereleases[t]
  /\ t \notin byHand => DOMAIN prereleases[t].assets \subseteq Expected
  /\ Watched(t) /\ ~ prereleases[t].draft => IsComplete(prereleases[t])

RunsSound == \A c \in DOMAIN edges : RunSound(c)

PrereleasesSound == \A t \in DOMAIN prereleases : PrereleaseSound(t)

EInv == RunsSound /\ PrereleasesSound

\* A step of the run of c, which changes the prerelease t and no other.
Alone(c, t) ==
  /\ c \in DOMAIN edges /\ UNCHANGED byHand
  /\ DOMAIN edges' = DOMAIN edges
  /\ \A d \in DOMAIN edges : d # c => edges'[d] = edges[d]
  /\ edges[c].blind \subseteq edges'[c].blind
  /\ t.commit = c
  /\ DOMAIN prereleases \subseteq DOMAIN prereleases'
  /\ DOMAIN prereleases' \subseteq DOMAIN prereleases \cup {t}
  /\ \A u \in DOMAIN prereleases : u # t => prereleases'[u] = prereleases[u]

-----------------------------------------------------------------------------
\* What a step leaves alone.

\* Nothing that was missed or added to is forgotten.
LEMMA WatchedBefore ==
  ASSUME NEW t, Watched(t)', byHand \subseteq byHand', DOMAIN edges \subseteq DOMAIN edges',
         \A c \in DOMAIN edges : edges[c].blind \subseteq edges'[c].blind
  PROVE  Watched(t)
BY DEF Watched

\* A run that is not the one that steps keeps what it has.
LEMMA RunStays ==
  ASSUME NEW c \in DOMAIN edges, RunSound(c), edges'[c] = edges[c],
         NEW t, t = TagOf(c), Watched(t)' => Watched(t),
         edges[c].pc \in {"look", "clean", "open", "upload", "green"} =>
           /\ t \in DOMAIN prereleases' <=> t \in DOMAIN prereleases
           /\ t \in DOMAIN prereleases => prereleases'[t] = prereleases[t]
  PROVE  RunSound(c)'
BY DEF RunSound, TagOf, Exists, Assets, Watched

\* A prerelease that does not change stays as sound as it was.
LEMMA PrereleaseStays ==
  ASSUME NEW t, PrereleaseSound(t), prereleases'[t] = prereleases[t],
         Watched(t)' => Watched(t), byHand \subseteq byHand'
  PROVE  PrereleaseSound(t)'
BY DEF PrereleaseSound, IsComplete

\* What is left to show of a step of one run.
LEMMA AloneEInv ==
  ASSUME EInv, NEW c, NEW t, Alone(c, t), RunSound(c)',
         t \in DOMAIN prereleases' => PrereleaseSound(t)'
  PROVE  EInv'
<1>1. ASSUME NEW u, Watched(u)' PROVE Watched(u)
  <2>1. \A d \in DOMAIN edges : edges[d].blind \subseteq edges'[d].blind  BY DEF Alone
  <2>. QED  BY <1>1, <2>1, WatchedBefore DEF Alone
<1>2. ASSUME NEW d \in DOMAIN edges, d # c PROVE RunSound(d)'
  <2>1. PICK u : u = TagOf(d)  OBVIOUS
  <2>2. RunSound(d) /\ edges'[d] = edges[d]  BY <1>2 DEF EInv, RunsSound, Alone
  <2>3. edges[d].pc \in {"look", "clean", "open", "upload", "green"} => u.commit = d
    BY <2>1, <2>2 DEF RunSound
  <2>4. edges[d].pc \in {"look", "clean", "open", "upload", "green"} => u # t
    BY <1>2, <2>3 DEF Alone
  <2>. QED  BY <1>1, <2>1, <2>2, <2>4, RunStays DEF Alone
<1>3. RunsSound'  BY <1>2 DEF RunsSound, Alone
<1>4. ASSUME NEW u \in DOMAIN prereleases, u # t PROVE PrereleaseSound(u)'
  BY <1>1, <1>4, PrereleaseStays DEF EInv, PrereleasesSound, Alone
<1>5. PrereleasesSound'  BY <1>4 DEF PrereleasesSound, Alone
<1>. QED  BY <1>3, <1>5 DEF EInv

\* What is left to show of a step that changes no prerelease.
LEMMA QuietEInv ==
  ASSUME EInv, NEW c \in DOMAIN edges, UNCHANGED <<byHand, prereleases>>,
         DOMAIN edges' = DOMAIN edges,
         \A d \in DOMAIN edges : d # c => edges'[d] = edges[d],
         edges[c].blind \subseteq edges'[c].blind, RunSound(c)'
  PROVE  EInv'
<1>. DEFINE t == [commit |-> c]
<1>1. Alone(c, t)  BY DEF Alone
<1>. HIDE DEF t
<1>2. Watched(t)' => Watched(t)
  <2>1. \A d \in DOMAIN edges : edges[d].blind \subseteq edges'[d].blind  OBVIOUS
  <2>. QED  BY <2>1, WatchedBefore
<1>3. t \in DOMAIN prereleases' => PrereleaseSound(t)'
  BY <1>2, PrereleaseStays DEF EInv, PrereleasesSound
<1>. QED  BY <1>1, <1>3, AloneEInv

\* A run goes on to pc, is about what it was and has seen what it had.
RunGoes(c, pc) ==
  /\ DOMAIN edges' = DOMAIN edges
  /\ \A d \in DOMAIN edges : d # c => edges'[d] = edges[d]
  /\ {"pc", "tag", "blind"} \subseteq DOMAIN edges'[c]
  /\ edges'[c].pc = pc /\ edges'[c].tag = edges[c].tag /\ edges'[c].blind = edges[c].blind

\* So it does where only its pc and what it takes for stale change.
LEMMA Gone ==
  ASSUME EInv, NEW c \in DOMAIN edges, NEW pc, NEW stale,
         \/ EdgeGoes(c, pc)
         \/ edges' = [edges EXCEPT ![c].pc = pc, ![c].stale = stale]
         \/ edges' = [edges EXCEPT ![c].stale = stale] /\ pc = edges[c].pc
         \/ UNCHANGED edges /\ pc = edges[c].pc
  PROVE  RunGoes(c, pc)
<1>1. {"pc", "tag", "blind"} \subseteq DOMAIN edges[c]
  BY DEF EInv, RunsSound, RunSound
<1>2. CASE EdgeGoes(c, pc)  BY <1>1, <1>2 DEF EdgeGoes, RunGoes
<1>3. CASE edges' = [edges EXCEPT ![c].pc = pc, ![c].stale = stale]
  BY <1>1, <1>3 DEF RunGoes
<1>4. CASE edges' = [edges EXCEPT ![c].stale = stale] /\ pc = edges[c].pc
  BY <1>1, <1>4 DEF RunGoes
<1>5. CASE UNCHANGED edges /\ pc = edges[c].pc  BY <1>1, <1>5 DEF RunGoes
<1>. QED  BY <1>2, <1>3, <1>4, <1>5

\* As long as nobody adds to a prerelease and no run goes blind, what is watched
\* has been watched all along.
LEMMA WatchedSame ==
  ASSUME NEW c \in DOMAIN edges, NEW pc, RunGoes(c, pc), UNCHANGED byHand, NEW t
  PROVE  Watched(t)' <=> Watched(t)
<1>1. DOMAIN edges' = DOMAIN edges /\ \A d \in DOMAIN edges : edges'[d].blind = edges[d].blind
  BY DEF RunGoes
<1>. QED  BY <1>1 DEF Watched

-----------------------------------------------------------------------------
\* The steps of a run that change no prerelease.

\* The tag of a run names its commit.
LEMMA TagEdgeEInv ==
  ASSUME EInv, NEW c, TagEdge(c)
  PROVE  EInv'
<1>1. c \in DOMAIN edges /\ UNCHANGED <<byHand, prereleases>>  BY DEF TagEdge, Is
<1>. DEFINE t == EdgeTag(c)
<1>2. t.commit = c  BY DEF EdgeTag
<1>3. PICK pc \in {"red", "look"} :
        edges' = [edges EXCEPT ![c].tag = t, ![c].pc = pc]
  BY DEF TagEdge
<1>. HIDE DEF t
<1>4. {"pc", "tag", "blind"} \subseteq DOMAIN edges[c]
  BY <1>1 DEF EInv, RunsSound, RunSound
<1>5. /\ DOMAIN edges' = DOMAIN edges /\ \A d \in DOMAIN edges : d # c => edges'[d] = edges[d]
      /\ {"pc", "tag", "blind"} \subseteq DOMAIN edges'[c]
      /\ edges'[c].pc = pc /\ edges'[c].tag = t /\ edges'[c].blind = edges[c].blind
  BY <1>1, <1>3, <1>4
<1>6. RunSound(c)'  BY <1>2, <1>3, <1>5 DEF RunSound, TagOf
<1>. QED  BY <1>1, <1>5, <1>6, QuietEInv

\* What is left to show of a run that goes on and changes no prerelease.
LEMMA GoesEInv ==
  ASSUME EInv, NEW c \in DOMAIN edges, NEW pc \in {"clean", "open", "green"}, RunGoes(c, pc),
         UNCHANGED <<byHand, prereleases>>, edges[c].pc \in {"look", "clean"},
         NEW t, t = TagOf(c),
         pc \in {"clean", "green"} => t \in DOMAIN prereleases,
         pc \in {"clean", "open"} /\ t \in DOMAIN prereleases /\ Watched(t) =>
           prereleases[t].draft,
         pc = "green" => IsComplete(prereleases[t])
  PROVE  EInv'
<1>1. t.commit = c  BY DEF EInv, RunsSound, RunSound
<1>2. Watched(t)' => Watched(t)  BY WatchedSame
<1>3. pc = "green" =>
        /\ ~ prereleases[t].draft
        /\ \A a \in Expected : a \in DOMAIN prereleases[t].assets /\ prereleases[t].assets[a].uploaded
  BY DEF IsComplete
<1>4. RunSound(c)'
  BY <1>1, <1>2, <1>3 DEF RunGoes, RunSound, TagOf, Exists, Assets, Watched
<1>. QED  BY <1>4, QuietEInv DEF RunGoes

\* A run looks, and goes on where there is something to do.
LEMMA LookEInv ==
  ASSUME EInv, NEW c, Look(c)
  PROVE  EInv'
<1>1. c \in DOMAIN edges /\ edges[c].pc = "look" /\ UNCHANGED <<byHand, prereleases>>
  BY DEF Look, Is, releaseVars
<1>2. PICK t : t = TagOf(c)  OBVIOUS
<1>3. t \in DOMAIN prereleases => PrereleaseSound(t)  BY DEF EInv, PrereleasesSound
<1>4. PICK pc \in {"open", "green", "clean"} :
        /\ edges' = [edges EXCEPT ![c].pc = pc, ![c].stale = Unexpected(c)]
        /\ pc = "green" => t \in DOMAIN prereleases /\ IsComplete(prereleases[t])
        /\ pc = "clean" => t \in DOMAIN prereleases /\ ~ IsComplete(prereleases[t])
        /\ pc = "open" => t \notin DOMAIN prereleases
  BY <1>2 DEF Look, Exists
<1>5. RunGoes(c, pc)  BY <1>1, <1>4, Gone
<1>6. pc = "clean" /\ Watched(t) => prereleases[t].draft
  BY <1>3, <1>4 DEF PrereleaseSound
<1>. QED  BY <1>1, <1>2, <1>4, <1>5, <1>6, GoesEInv

\* A run that has deleted what it saw goes on.
LEMMA CleanEInv ==
  ASSUME EInv, NEW c, Clean(c)
  PROVE  EInv'
<1>1. /\ c \in DOMAIN edges /\ edges[c].pc = "clean" /\ UNCHANGED <<byHand, prereleases>>
      /\ EdgeGoes(c, "open")
  BY DEF Clean, Is, releaseVars
<1>2. PICK t : t = TagOf(c)  OBVIOUS
<1>3. RunGoes(c, "open")  BY <1>1, Gone
<1>4. t \in DOMAIN prereleases /\ Watched(t) => prereleases[t].draft
  BY <1>1, <1>2 DEF EInv, RunsSound, RunSound, Exists
<1>. QED  BY <1>1, <1>2, <1>3, <1>4, GoesEInv

\* A run that cannot look is blind to its prerelease from then on.
LEMMA LookFailsEInv ==
  ASSUME EInv, NEW c, LookFails(c)
  PROVE  EInv'
<1>1. c \in DOMAIN edges /\ UNCHANGED <<byHand, prereleases>> /\ edges[c].pc = "look"
  BY DEF LookFails, Is
<1>2. PICK t : t = TagOf(c)  OBVIOUS
<1>3. edges' = [edges EXCEPT ![c].pc = "open", ![c].blind = @ \cup {t}]
  BY <1>2 DEF LookFails
<1>4. {"pc", "tag", "blind"} \subseteq DOMAIN edges[c] /\ t.commit = c
  BY <1>1, <1>2 DEF EInv, RunsSound, RunSound
<1>5. /\ DOMAIN edges' = DOMAIN edges /\ \A d \in DOMAIN edges : d # c => edges'[d] = edges[d]
      /\ {"pc", "tag", "blind"} \subseteq DOMAIN edges'[c]
      /\ edges'[c].pc = "open" /\ edges'[c].tag = t
      /\ edges'[c].blind = edges[c].blind \cup {t}
  BY <1>1, <1>2, <1>3, <1>4 DEF TagOf
<1>6. ~ Watched(t)'  BY <1>1, <1>5 DEF Watched
<1>7. RunSound(c)'  BY <1>4, <1>5, <1>6 DEF RunSound, TagOf, Watched
<1>. QED  BY <1>1, <1>5, <1>7, QuietEInv

\* A run that fails or is started again is about nothing until it has its tag.
LEMMA BreakEInv ==
  ASSUME EInv, NEW c, EdgeFails(c) \/ RunAgain(c)
  PROVE  EInv'
<1>1. c \in DOMAIN edges /\ UNCHANGED <<byHand, prereleases>>
  BY DEF EdgeFails, RunAgain, Running
<1>2. {"pc", "tag", "blind"} \subseteq DOMAIN edges[c]
  BY <1>1 DEF EInv, RunsSound, RunSound
<1>3. /\ DOMAIN edges' = DOMAIN edges /\ \A d \in DOMAIN edges : d # c => edges'[d] = edges[d]
      /\ {"pc", "tag", "blind"} \subseteq DOMAIN edges'[c]
      /\ edges'[c].pc \in {"queued", "red"} /\ edges'[c].blind = edges[c].blind
  BY <1>1, <1>2 DEF EdgeFails, RunAgain, EdgeGoes
<1>4. RunSound(c)'  BY <1>3 DEF RunSound
<1>. QED  BY <1>1, <1>3, <1>4, QuietEInv

-----------------------------------------------------------------------------
\* The steps of a run that change its prerelease.

\* What a run knows of its prerelease, when it is about to change it.
LEMMA AtWork ==
  ASSUME EInv, NEW c \in DOMAIN edges, edges[c].pc \in {"clean", "open", "upload"},
         NEW t, t = TagOf(c)
  PROVE  /\ t.commit = c
         /\ edges[c].pc # "open" => t \in DOMAIN prereleases
         /\ t \in DOMAIN prereleases => PrereleaseSound(t)
         /\ t \in DOMAIN prereleases /\ Watched(t) => prereleases[t].draft
BY DEF EInv, RunsSound, RunSound, Exists, PrereleasesSound

\* What is left to show when a run changes its prerelease to release.
LEMMA ChangeEInv ==
  ASSUME EInv, NEW c \in DOMAIN edges, edges[c].pc \in {"clean", "open", "upload"},
         NEW t, t = TagOf(c), NEW release, prereleases' = With(prereleases, t, release),
         UNCHANGED byHand, NEW pc \in {"clean", "upload", "green"}, RunGoes(c, pc),
         {"draft", "assets"} \subseteq DOMAIN release,
         t \notin byHand => DOMAIN release.assets \subseteq Expected,
         pc # "green" /\ Watched(t) => release.draft,
         pc = "green" =>
           /\ ~ release.draft
           /\ \A a \in Expected : a \in DOMAIN release.assets /\ release.assets[a].uploaded
  PROVE  EInv'
<1>1. /\ DOMAIN prereleases' = DOMAIN prereleases \cup {t} /\ prereleases'[t] = release
      /\ \A u \in DOMAIN prereleases : u # t => prereleases'[u] = prereleases[u]
  BY DEF With
<1>2. t.commit = c  BY AtWork
<1>3. t = edges[c].tag  BY DEF TagOf
<1>4. Watched(t)' => Watched(t)  BY WatchedSame
<1>5. Alone(c, t)  BY <1>1, <1>2 DEF Alone, RunGoes
<1>6. RunSound(c)'
  <2>1. pc # "green" /\ Watched(t)' => release.draft  BY <1>4
  <2>. QED  BY <1>1, <1>2, <1>3, <2>1 DEF RunGoes, RunSound, TagOf, Exists, Assets, Watched
<1>7. PrereleaseSound(t)'
  <2>1. t \notin byHand /\ pc = "green" => IsComplete(release)
    BY DEF IsComplete
  <2>2. Watched(t)' /\ ~ release.draft => IsComplete(release)
    BY <1>4, <2>1 DEF Watched
  <2>. QED  BY <1>1, <2>2 DEF PrereleaseSound, IsComplete
<1>. QED  BY <1>5, <1>6, <1>7, AloneEInv

\* What is left to show when a run changes the assets of its prerelease to assets.
LEMMA AssetsEInv ==
  ASSUME EInv, NEW c \in DOMAIN edges, NEW pc \in {"clean", "upload"}, edges[c].pc = pc,
         RunGoes(c, pc), UNCHANGED byHand, NEW t, t = TagOf(c),
         NEW assets, DOMAIN assets \subseteq DOMAIN prereleases[t].assets \cup Expected,
         prereleases' = With(prereleases, t, [prereleases[t] EXCEPT !.assets = assets])
  PROVE  EInv'
<1>1. /\ t \in DOMAIN prereleases /\ PrereleaseSound(t)
      /\ Watched(t) => prereleases[t].draft
  BY AtWork
<1>2. PICK release : release = [prereleases[t] EXCEPT !.assets = assets]  OBVIOUS
<1>3. /\ {"draft", "assets"} \subseteq DOMAIN release
      /\ release.draft = prereleases[t].draft /\ release.assets = assets
  BY <1>1, <1>2 DEF PrereleaseSound
<1>4. t \notin byHand => DOMAIN release.assets \subseteq Expected
  BY <1>1, <1>3 DEF PrereleaseSound
<1>5. Watched(t) => release.draft  BY <1>1, <1>3
<1>. QED  BY <1>2, <1>3, <1>4, <1>5, ChangeEInv

\* A deletion leaves the other assets.
LEMMA DeletesEInv ==
  ASSUME EInv, NEW c \in DOMAIN edges, NEW pc \in {"clean", "upload"}, edges[c].pc = pc,
         RunGoes(c, pc), UNCHANGED byHand, NEW a, Deletes(c, a)
  PROVE  EInv'
<1>1. PICK t : t = TagOf(c)  OBVIOUS
<1>2. t \in DOMAIN prereleases /\ PrereleaseSound(t)  BY <1>1, AtWork
<1>. DEFINE old == prereleases[t].assets
            new == [b \in DOMAIN old \ {a} |-> old[b]]
<1>3. prereleases' = With(prereleases, t, [prereleases[t] EXCEPT !.assets = new])
  BY <1>1 DEF Deletes, Changes
<1>4. DOMAIN new \subseteq DOMAIN prereleases[t].assets \cup Expected  OBVIOUS
<1>. HIDE DEF new
<1>. QED  BY <1>1, <1>3, <1>4, AssetsEInv

\* What was there at the look is deleted.
LEMMA DeleteUnexpectedEInv ==
  ASSUME EInv, NEW c, DeleteUnexpected(c)
  PROVE  EInv'
<1>1. /\ c \in DOMAIN edges /\ edges[c].pc = "clean" /\ UNCHANGED byHand
  BY DEF DeleteUnexpected, Is, releaseVars
<1>2. PICK a : Deletes(c, a) /\ edges' = [edges EXCEPT ![c].stale = @ \ {a}]
  BY DEF DeleteUnexpected
<1>3. RunGoes(c, "clean")
  <2>1. PICK stale : stale = edges[c].stale \ {a}  OBVIOUS
  <2>2. edges' = [edges EXCEPT ![c].stale = stale]  BY <1>2, <2>1
  <2>. QED  BY <1>1, <2>2, Gone
<1>. QED  BY <1>1, <1>2, <1>3, DeletesEInv

\* The release or draft there is, or a draft without assets.
LEMMA OpenDraftEInv ==
  ASSUME EInv, NEW c, OpenDraft(c)
  PROVE  EInv'
<1>1. /\ c \in DOMAIN edges /\ edges[c].pc = "open"
      /\ UNCHANGED byHand /\ EdgeGoes(c, "upload")
  BY DEF OpenDraft, Is, releaseVars
<1>2. PICK t : t = TagOf(c)  OBVIOUS
<1>3. /\ t \in DOMAIN prereleases => PrereleaseSound(t)
      /\ t \in DOMAIN prereleases /\ Watched(t) => prereleases[t].draft
  BY <1>1, <1>2, AtWork
<1>. DEFINE new == [draft |-> TRUE, assets |-> [a \in {} |-> <<>>]]
<1>4. /\ {"draft", "assets"} \subseteq DOMAIN new /\ new.draft
      /\ DOMAIN new.assets = {}
  OBVIOUS
<1>5. PICK release :
        /\ prereleases' = With(prereleases, t, release)
        /\ release = IF t \in DOMAIN prereleases THEN prereleases[t] ELSE new
  BY <1>2 DEF OpenDraft, Changes, Exists
<1>. HIDE DEF new
<1>6. /\ {"draft", "assets"} \subseteq DOMAIN release
      /\ t \notin byHand => DOMAIN release.assets \subseteq Expected
      /\ Watched(t) => release.draft
  BY <1>3, <1>4, <1>5 DEF PrereleaseSound
<1>7. RunGoes(c, "upload")  BY <1>1, Gone
<1>. QED  BY <1>1, <1>2, <1>5, <1>6, <1>7, ChangeEInv

\* What is put in place adds an expected asset.
LEMMA PutEInv ==
  ASSUME EInv, NEW c \in DOMAIN edges, edges[c].pc = "upload", UNCHANGED <<byHand, edges>>,
         NEW a \in Expected, NEW uploaded, Put(c, a, uploaded)
  PROVE  EInv'
<1>1. PICK t : t = TagOf(c)  OBVIOUS
<1>. DEFINE new == With(prereleases[t].assets, a, Asset(c, uploaded))
<1>2. prereleases' = With(prereleases, t, [prereleases[t] EXCEPT !.assets = new])
  BY <1>1 DEF Put, Changes
<1>3. DOMAIN new \subseteq DOMAIN prereleases[t].assets \cup Expected  BY DEF With
<1>. HIDE DEF new
<1>4. RunGoes(c, "upload")  BY Gone
<1>. QED  BY <1>1, <1>2, <1>3, <1>4, AssetsEInv

\* An upload deletes what it replaces, begins and ends.
LEMMA UploadEInv ==
  ASSUME EInv, NEW c, DeleteReplaced(c) \/ BeginUpload(c) \/ EndUpload(c)
  PROVE  EInv'
<1>1. /\ c \in DOMAIN edges /\ edges[c].pc = "upload" /\ UNCHANGED <<byHand, edges>>
  BY DEF DeleteReplaced, BeginUpload, EndUpload, Is, releaseVars
<1>2. CASE DeleteReplaced(c)
  <2>1. RunGoes(c, "upload")  BY <1>1, Gone
  <2>2. PICK a : Deletes(c, a)  BY <1>2 DEF DeleteReplaced
  <2>. QED  BY <1>1, <2>1, <2>2, DeletesEInv
<1>3. CASE BeginUpload(c) \/ EndUpload(c)
  <2>1. PICK a \in Expected : \E uploaded : Put(c, a, uploaded)
    BY <1>3 DEF BeginUpload, EndUpload
  <2>. QED  BY <1>1, <2>1, PutEInv
<1>. QED  BY <1>2, <1>3

\* What is published has every asset of this attempt.
LEMMA PublishEdgeEInv ==
  ASSUME EInv, NEW c, PublishEdge(c)
  PROVE  EInv'
<1>1. /\ c \in DOMAIN edges /\ edges[c].pc = "upload"
      /\ UNCHANGED byHand /\ EdgeGoes(c, "green")
  BY DEF PublishEdge, Is, releaseVars
<1>2. PICK t : t = TagOf(c)  OBVIOUS
<1>3. t \in DOMAIN prereleases /\ PrereleaseSound(t)  BY <1>1, <1>2, AtWork
<1>4. \A a \in Expected :
        a \in DOMAIN prereleases[t].assets /\ prereleases[t].assets[a] = Asset(c, TRUE)
  BY <1>2 DEF PublishEdge, IsUploaded, Assets
<1>5. \A a \in Expected :
        a \in DOMAIN prereleases[t].assets /\ prereleases[t].assets[a].uploaded
  BY <1>4 DEF Asset
<1>. DEFINE release == [prereleases[t] EXCEPT !.draft = FALSE]
<1>6. prereleases' = With(prereleases, t, release)  BY <1>2 DEF PublishEdge, Changes
<1>7. /\ {"draft", "assets"} \subseteq DOMAIN release
      /\ ~ release.draft /\ release.assets = prereleases[t].assets
  BY <1>3 DEF PrereleaseSound
<1>. HIDE DEF release
<1>8. /\ t \notin byHand => DOMAIN release.assets \subseteq Expected
      /\ \A a \in Expected : a \in DOMAIN release.assets /\ release.assets[a].uploaded
  BY <1>3, <1>5, <1>7 DEF PrereleaseSound
<1>9. RunGoes(c, "green")  BY <1>1, Gone
<1>. QED  BY <1>1, <1>2, <1>6, <1>7, <1>8, <1>9, ChangeEInv

-----------------------------------------------------------------------------
\* The steps of people and of the releases.

\* The runs and the prereleases are left alone, though tags may be pushed by hand.
LEMMA ElsewhereEInv ==
  ASSUME EInv, UNCHANGED <<edges, prereleases>>, byHand \subseteq byHand'
  PROVE  EInv'
<1>1. ASSUME NEW t, Watched(t)' PROVE Watched(t)  BY <1>1 DEF Watched
<1>2. ASSUME NEW c \in DOMAIN edges PROVE RunSound(c)'
  <2>1. PICK t : t = TagOf(c)  OBVIOUS
  <2>2. RunSound(c)  BY DEF EInv, RunsSound
  <2>. QED  BY <1>1, <2>1, <2>2, RunStays
<1>3. ASSUME NEW t \in DOMAIN prereleases PROVE PrereleaseSound(t)'
  BY <1>1, PrereleaseStays DEF EInv, PrereleasesSound
<1>. QED  BY <1>2, <1>3 DEF EInv, RunsSound, PrereleasesSound

\* The run of a new commit is a new run.
LEMMA PushToMasterEInv ==
  ASSUME IInv, EInv, NEW tree, PushToMaster(tree)
  PROVE  EInv'
<1>1. edges' = With(edges, Master + 1, Queued) /\ UNCHANGED <<byHand, prereleases>>
  BY DEF PushToMaster, Commit
<1>2. Master \in Nat /\ Master + 1 \notin DOMAIN edges
  <2>1. Master \in Nat  BY SeqLen DEF IInv, HistorySound, Master
  <2>. QED  BY <2>1 DEF IInv, EdgesSound
<1>. DEFINE new == Queued
<1>3. {"pc", "tag", "blind"} \subseteq DOMAIN new /\ new.pc = "queued"
  BY DEF Queued
<1>. HIDE DEF new
<1>4. /\ DOMAIN edges' = DOMAIN edges \cup {Master + 1} /\ edges'[Master + 1] = new
      /\ \A c \in DOMAIN edges : edges'[c] = edges[c]
  BY <1>1, <1>2 DEF With, new
<1>5. ASSUME NEW t, Watched(t)' PROVE Watched(t)
  BY <1>1, <1>4, <1>5 DEF Watched
<1>6. ASSUME NEW c \in DOMAIN edges PROVE RunSound(c)'
  <2>1. PICK t : t = TagOf(c)  OBVIOUS
  <2>2. RunSound(c)  BY DEF EInv, RunsSound
  <2>. QED  BY <1>1, <1>4, <1>5, <2>1, <2>2, RunStays
<1>7. PICK m : m = Master + 1  OBVIOUS
<1>8. RunSound(m)'  BY <1>3, <1>4, <1>7 DEF RunSound
<1>9. RunsSound'  BY <1>4, <1>6, <1>7, <1>8 DEF RunsSound
<1>10. PrereleasesSound'
  BY <1>1, <1>5, PrereleaseStays DEF EInv, PrereleasesSound
<1>. QED  BY <1>9, <1>10 DEF EInv

\* Who adds an asset leaves the others, and the draft a draft.
LEMMA AttachEInv ==
  ASSUME EInv, NEW tag, NEW a, Attach(tag, a)
  PROVE  EInv'
<1>. DEFINE asset == [uploaded |-> TRUE, attempt |-> 0]
            new == With(prereleases[tag].assets, a, asset)
            release == [prereleases[tag] EXCEPT !.assets = new]
<1>1. /\ tag \in DOMAIN prereleases /\ byHand' = byHand \cup {tag} /\ UNCHANGED edges
      /\ prereleases' = [prereleases EXCEPT ![tag] = release]
  BY DEF Attach
<1>2. PrereleaseSound(tag)  BY <1>1 DEF EInv, PrereleasesSound
<1>3. /\ DOMAIN new = DOMAIN prereleases[tag].assets \cup {a} /\ new[a].uploaded
      /\ \A b \in DOMAIN new : b # a => new[b] = prereleases[tag].assets[b]
  <2>1. asset.uploaded  OBVIOUS
  <2>. HIDE DEF asset
  <2>2. /\ DOMAIN new = DOMAIN prereleases[tag].assets \cup {a} /\ new[a] = asset
        /\ \A b \in DOMAIN new : b # a => new[b] = prereleases[tag].assets[b]
    BY DEF With
  <2>. HIDE DEF new
  <2>. QED  BY <2>1, <2>2
<1>. HIDE DEF new
<1>4. /\ {"draft", "assets"} \subseteq DOMAIN release
      /\ release.draft = prereleases[tag].draft /\ release.assets = new
  BY <1>2 DEF PrereleaseSound
<1>. HIDE DEF release
<1>5. /\ DOMAIN prereleases' = DOMAIN prereleases /\ prereleases'[tag] = release
      /\ \A t \in DOMAIN prereleases : t # tag => prereleases'[t] = prereleases[t]
  BY <1>1
<1>6. ASSUME NEW t, Watched(t)' PROVE Watched(t) /\ t # tag
  BY <1>1, <1>6 DEF Watched
<1>7. ASSUME NEW c \in DOMAIN edges PROVE RunSound(c)'
  <2>1. PICK t : t = TagOf(c)  OBVIOUS
  <2>2. RunSound(c)  BY DEF EInv, RunsSound
  <2>3. CASE t # tag  BY <1>1, <1>5, <1>6, <2>1, <2>2, <2>3, RunStays
  <2>4. CASE t = tag
    <3>1. ~ Watched(tag)'  BY <1>6
    <3>. QED
      BY <1>1, <1>3, <1>4, <1>5, <2>1, <2>2, <2>4, <3>1 DEF RunSound, TagOf, Exists, Assets, Watched
  <2>. QED  BY <2>3, <2>4
<1>8. PrereleaseSound(tag)'
  <2>1. tag \in byHand' /\ ~ Watched(tag)'  BY <1>1, <1>6
  <2>. QED  BY <1>2, <1>3, <1>4, <1>5, <2>1 DEF PrereleaseSound
<1>9. ASSUME NEW t \in DOMAIN prereleases, t # tag PROVE PrereleaseSound(t)'
  BY <1>1, <1>5, <1>6, <1>9, PrereleaseStays DEF EInv, PrereleasesSound
<1>. QED  BY <1>1, <1>5, <1>7, <1>8, <1>9 DEF EInv, RunsSound, PrereleasesSound

\* A release adds to what is by hand, and takes nothing from it.
LEMMA ReleaseNextByHand ==
  ASSUME ReleaseNext
  PROVE  byHand \subseteq byHand'
BY DEF ReleaseNext, TagByHand, TagModuleByHand, TagBy, Restart, Checkout, CutStep, PushRelease,
       PushRejected, Dispatch, CutFails, BuildStep, Gate, LookForCompanion, PushCompanion,
       Publish, BuildFails

\* Every step of the whole.
LEMMA NextEInv == IInv /\ EInv /\ [AutoNext]_autoVars => EInv'
<1>. SUFFICES ASSUME IInv, EInv, [AutoNext]_autoVars PROVE EInv'  OBVIOUS
<1>1. CASE ReleaseNext /\ UNCHANGED edgeVars
  BY <1>1, ReleaseNextByHand, ElsewhereEInv DEF edgeVars
<1>2. ASSUME NEW tree, PushToMaster(tree) PROVE EInv'  BY <1>2, PushToMasterEInv
<1>3. ASSUME NEW c, EdgeStep(c) PROVE EInv'
  BY <1>3, TagEdgeEInv, LookEInv, DeleteUnexpectedEInv, CleanEInv, OpenDraftEInv, UploadEInv,
     PublishEdgeEInv DEF EdgeStep
<1>4. ASSUME NEW c, LookFails(c) \/ EdgeFails(c) \/ RunAgain(c) PROVE EInv'
  BY <1>4, LookFailsEInv, BreakEInv
<1>5. ASSUME NEW tag, NEW a, Attach(tag, a) PROVE EInv'  BY <1>5, AttachEInv
<1>6. CASE NextDay  BY <1>6, ElsewhereEInv DEF NextDay
<1>7. CASE UNCHANGED autoVars
  BY <1>7, ElsewhereEInv DEF autoVars, releaseVars, edgeVars
<1>. QED  BY <1>1, <1>2, <1>3, <1>4, <1>5, <1>6, <1>7 DEF AutoNext, EdgeNext

\* The start has no run and no prerelease.
LEMMA StartEInv == EdgeInit => EInv
BY DEF EdgeInit, EInv, RunsSound, PrereleasesSound

-----------------------------------------------------------------------------
\* What a complete prerelease has.

\* A run that works on a prerelease which is watched works on a draft.
LEMMA WorkedOnIsDraft ==
  ASSUME EInv, NEW c \in DOMAIN edges, edges[c].pc \in {"clean", "open", "upload"},
         NEW t \in DOMAIN prereleases, Watched(t), IsComplete(prereleases[t])
  PROVE  t # TagOf(c)
BY AtWork DEF IsComplete

\* No step of a run changes the assets of a prerelease that is watched and complete.
LEMMA EdgeStepKeeps ==
  ASSUME EInv, NEW c, EdgeStep(c),
         NEW t \in DOMAIN prereleases, Watched(t), IsComplete(prereleases[t])
  PROVE  prereleases'[t].assets = prereleases[t].assets
<1>1. CASE TagEdge(c) \/ Look(c) \/ Clean(c)  BY <1>1 DEF TagEdge, Look, Clean
<1>2. CASE \/ DeleteUnexpected(c) \/ OpenDraft(c) \/ DeleteReplaced(c)
           \/ BeginUpload(c) \/ EndUpload(c) \/ PublishEdge(c)
  <2>1. c \in DOMAIN edges /\ edges[c].pc \in {"clean", "open", "upload"}
    BY <1>2 DEF DeleteUnexpected, OpenDraft, DeleteReplaced, BeginUpload, EndUpload, PublishEdge, Is
  <2>2. t # TagOf(c)  BY <2>1, WorkedOnIsDraft
  <2>3. PICK release : prereleases' = With(prereleases, TagOf(c), release)
    BY <1>2 DEF DeleteUnexpected, OpenDraft, DeleteReplaced, BeginUpload, EndUpload, PublishEdge,
                Deletes, Changes, Put
  <2>. QED  BY <2>2, <2>3 DEF With
<1>. QED  BY <1>1, <1>2 DEF EdgeStep

\* What a complete prerelease has stays, whatever the step is.
LEMMA NextKeeps ==
  ASSUME EInv, [AutoNext]_autoVars,
         NEW t \in DOMAIN prereleases, IsComplete(prereleases[t]), Watched(t)
  PROVE  prereleases'[t].assets = prereleases[t].assets \/ t \in byHand'
<1>1. CASE UNCHANGED prereleases  BY <1>1
<1>2. ASSUME NEW c, EdgeStep(c) PROVE prereleases'[t].assets = prereleases[t].assets
  BY <1>2, EdgeStepKeeps
<1>3. ASSUME NEW tag, NEW a, Attach(tag, a)
      PROVE  prereleases'[t].assets = prereleases[t].assets \/ t \in byHand'
  BY <1>3 DEF Attach
<1>4. ASSUME NEW c, LookFails(c) \/ EdgeFails(c) \/ RunAgain(c) PROVE UNCHANGED prereleases
  BY <1>4 DEF LookFails, EdgeFails, RunAgain
<1>5. ASSUME NEW tree, PushToMaster(tree) \/ NextDay PROVE UNCHANGED prereleases
  BY <1>5 DEF PushToMaster, NextDay
<1>. QED  BY <1>1, <1>2, <1>3, <1>4, <1>5 DEF AutoNext, EdgeNext, autoVars, edgeVars

-----------------------------------------------------------------------------

\* The invariant of the edge workflow beside the releases.
THEOREM EdgeInductive == AutoSpec => [](IInv /\ EInv)
<1>. QED  BY StartIInv, NextIInv, StartEInv, NextEInv, PTL DEF AutoSpec

\* What people can see is never half there: a published prerelease that nobody has
\* changed and no run was blind to has the expected assets, all of them uploaded, and
\* no others, wherever its runs broke off; and a green run leaves a published one with
\* every expected asset uploaded (edge.yml; edge-release-complete.mjs).
THEOREM PublishedComplete == AutoSpec => []PublishedIsComplete
<1>1. EInv => PublishedIsComplete
  BY DEF EInv, RunsSound, RunSound, PrereleasesSound, PrereleaseSound, PublishedIsComplete, Is
<1>. QED  BY <1>1, EdgeInductive, PTL

\* A complete prerelease keeps its assets, also when its run is started again, unless
\* gh release view failed in one of its runs or somebody has added to it (edge.yml;
\* docs/releasing.md, "without moving a tag or replacing existing release artifacts").
THEOREM CompleteKept == AutoSpec => ArtifactsKept
<1>1. EInv /\ [AutoNext]_autoVars =>
        [\A t \in DOMAIN prereleases :
           IsComplete(prereleases[t]) /\ Watched(t) =>
             prereleases'[t].assets = prereleases[t].assets \/ t \in byHand']_autoVars
  BY NextKeeps
<1>. QED  BY <1>1, EdgeInductive, PTL DEF AutoSpec, ArtifactsKept
=============================================================================

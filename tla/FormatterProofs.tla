--------------------------- MODULE FormatterProofs --------------------------
(***************************************************************************)
(* skg fmt replaces the file that it read, for any number of formatters,   *)
(* files, editors, changes, failures and crashes, where timestamps tell    *)
(* changes apart and where they do not.                                    *)
(*                                                                         *)
(* The argument for timestamps that do: a file that still has the stamp of *)
(* the snapshot has its data, its metadata and no name that it did not     *)
(* have then.  So one link counted at the start is the only one it can     *)
(* have, and if the path led there when it was opened again, and a link is *)
(* left at the end, the path leads there still.  Where stamps may repeat,  *)
(* every change since the path was opened again counts as unseen.          *)
(*                                                                         *)
(* The argument for whole texts: a run whose read was torn by a save meets *)
(* a stamp that is not its snapshot's and gives up, so whoever gets to the *)
(* rename has the canonical form of a text in its temporary, and has       *)
(* synced it before anybody can find it under a name.                      *)
(*                                                                         *)
(* The argument where nobody else changes files: names lead where they led *)
(* and each file holds what it held or the canonical form of that, in the  *)
(* directory no earlier than on the disk; so a run's arguments stay        *)
(* canonical once they are, whatever other run replaces them.              *)
(***************************************************************************)
EXTENDS Formatter, SequenceLemmas, FiniteSetTheorems, TLAPS

\* Names are links or they are not: no link comes to be where a file is named.  (A
\* resolved path that becomes a link is followed by the opens and replaced by the
\* rename.)
NamesStay == FileNames \cap LinkNames = {} /\ DOMAIN StartLinks = LinkNames

Working(p) == fmt[p].pc \notin {"next", "exited", "dead"}

Alive == \E p \in Proc : fmt[p].pc \notin {"exited", "dead"}

\* How far a run has come, latest first.
Reopened == {"restat", "relink", "reread", "restat again", "relink again", "rename"}

Copied == {"sync", "reopen"} \cup Reopened

HasTemp == {"write"} \cup Copied

Counted == {"create"} \cup HasTemp

WholeRead == {"links"} \cup Counted

Snapped == {"read"} \cup WholeRead

HasFile == {"snapshot"} \cup Snapped

InodeFields == {"kind", "data", "dest", "mode", "extra", "stamp", "synced"}

IsInode(file, now) ==
  /\ InodeFields \subseteq DOMAIN file
  /\ IsSeq(file.data) /\ file.stamp \in Int /\ file.stamp <= now

LocalFields == {"pc", "todo", "target", "file", "snapshot", "src", "temp", "current",
                "again", "changed", "exit"}

-----------------------------------------------------------------------------
\* The invariant.

SettingSound ==
  /\ {"args", "check", "saves", "modes", "extras", "coarse",
      "edits", "ticks", "crashes", "faults"} \subseteq DOMAIN setting
  /\ setting.coarse \in BOOLEAN
  /\ \A p \in Proc : setting.args[p] \in Seq(Path)
  /\ \A data \in setting.saves : IsSeq(data)
  /\ DOMAIN fmt = Proc /\ DOMAIN unseen = Proc
  /\ clock \in Int

NamesSound ==
  /\ DOMAIN names = Path /\ DOMAIN inode = Inode
  /\ \A n \in Path : names[n] # None =>
       /\ names[n] \in Inode /\ IsInode(inode[names[n]], clock)
       /\ (inode[names[n]].kind = "symlink" <=> n \in LinkNames)

\* A temporary is nobody else's, and has no name.
TempsApart ==
  \A p \in Proc : fmt[p].pc \in HasTemp =>
    /\ fmt[p].temp \in Inode
    /\ IsInode(inode[fmt[p].temp], clock) /\ inode[fmt[p].temp].kind = "file"
    /\ \A n \in Path : names[n] # fmt[p].temp
    /\ \A q \in Proc :
         /\ fmt[q].pc \in HasFile => fmt[q].file # fmt[p].temp
         /\ fmt[q].pc \in Reopened => fmt[q].current # fmt[p].temp
         /\ q # p /\ fmt[q].pc \in HasTemp => fmt[q].temp # fmt[p].temp

Named(n, i) == names[n] = i

Local(p) ==
  /\ LocalFields \subseteq DOMAIN fmt[p]
  /\ fmt[p].todo \in Seq(Path)
  /\ Working(p) => fmt[p].target \in FileNames /\ fmt[p].todo # <<>>
  /\ fmt[p].pc \notin Snapped => fmt[p].src = <<>>
  /\ fmt[p].pc \notin {"reread", "restat again", "relink again", "rename"} => fmt[p].again = <<>>
  /\ fmt[p].pc \in HasFile => fmt[p].file \in Inode /\ IsInode(inode[fmt[p].file], clock)
  /\ fmt[p].pc \in Reopened => fmt[p].current \in Inode /\ IsInode(inode[fmt[p].current], clock)
  /\ fmt[p].pc \in Snapped =>
       /\ fmt[p].snapshot.inode = fmt[p].file /\ fmt[p].snapshot.stamp \in Int
       /\ fmt[p].snapshot.stamp <= inode[fmt[p].file].stamp
       /\ IsSeq(fmt[p].src)
  /\ fmt[p].pc \in Reopened => IsSeq(fmt[p].again)

\* The file has not changed since the snapshot.
Steady(p) == inode[fmt[p].file].stamp = fmt[p].snapshot.stamp

Begins(part, data) == Len(part) <= Len(data) /\ \A k \in 1..Len(part) : part[k] = data[k]

\* What a file that has not changed still has.
Kept(p) ==
  /\ fmt[p].pc \in Snapped => fmt[p].snapshot.mode = inode[fmt[p].file].mode
  /\ fmt[p].pc = "read" => Begins(fmt[p].src, inode[fmt[p].file].data)
  /\ fmt[p].pc \in WholeRead => fmt[p].src = inode[fmt[p].file].data
  /\ fmt[p].pc \in Counted =>
       \A n, m \in Path : Named(n, fmt[p].file) /\ Named(m, fmt[p].file) => n = m
  /\ fmt[p].pc \in Copied =>
       /\ inode[fmt[p].temp].mode = inode[fmt[p].file].mode
       /\ inode[fmt[p].temp].extra = inode[fmt[p].file].extra
  /\ fmt[p].pc \in Reopened /\ fmt[p].current = fmt[p].file =>
       \A n \in Path : Named(n, fmt[p].file) => n = fmt[p].target

\* Timestamps that tell changes apart: after the last look nothing has changed.
Exact(p) ==
  /\ fmt[p].pc \in Snapped /\ Steady(p) => Kept(p)
  /\ fmt[p].pc \in {"relink", "reread", "restat again", "relink again", "rename"} =>
       fmt[p].current = fmt[p].file
  /\ fmt[p].pc \in {"relink again", "rename"} /\ ~ unseen[p] => Steady(p)
  /\ fmt[p].pc = "rename" /\ ~ unseen[p] => Named(fmt[p].target, fmt[p].file)

\* Timestamps that may not: nothing has changed since the path was opened again.
Coarse(p) ==
  fmt[p].pc \in Reopened /\ ~ unseen[p] =>
    /\ Named(fmt[p].target, fmt[p].current)
    /\ fmt[p].pc # "restat" => fmt[p].current = fmt[p].file
    /\ fmt[p].pc \notin {"restat", "relink"} =>
         \A n \in Path : Named(n, fmt[p].current) => n = fmt[p].target
    /\ fmt[p].pc = "reread" => Begins(fmt[p].again, inode[fmt[p].current].data)
    /\ fmt[p].pc \in {"restat again", "relink again", "rename"} =>
         fmt[p].src = inode[fmt[p].current].data

RunSound(p) == Local(p) /\ IF setting.coarse THEN Coarse(p) ELSE Exact(p)

IInv ==
  /\ NamesStay /\ SettingSound
  /\ Alive => NamesSound /\ TempsApart /\ \A p \in Proc : RunSound(p)

-----------------------------------------------------------------------------
\* Names and what they lead to.

\* A name that is not a link leads to itself.
LEMMA FollowSelf ==
  ASSUME NEW n, Kind(n) # "symlink"
  PROVE  Follow(n) = n
BY DEF Follow

\* Where links lead there is a name that is not a link.
LEMMA FollowPath ==
  ASSUME NEW n \in Path, Follow(n) # None
  PROVE  Follow(n) \in Path /\ Kind(Follow(n)) # "symlink"
BY DEF Follow

\* A file's name is found to lead to what it names.
LEMMA FoundIs ==
  ASSUME NamesStay, NamesSound, NEW p, fmt[p].target \in FileNames
  PROVE  Found(p) = names[fmt[p].target]
<1>. DEFINE t == fmt[p].target
<1>1. t \in Path /\ t \notin LinkNames /\ t # None
  BY BoundsAssumption, SettingsAssumption DEF NamesStay
<1>2. Kind(t) # "symlink"  BY <1>1, SettingsAssumption DEF NamesSound, Kind
<1>. QED  BY <1>1, <1>2, FollowSelf DEF Found, Opened

\* One link is one name.
LEMMA OneName ==
  ASSUME NEW i, SingleLink(i)
  PROVE  \E m \in Path : Named(m, i) /\ \A n \in Path : Named(n, i) => n = m
<1>. DEFINE S == {n \in Path : names[n] = i}
<1>1. IsFiniteSet(S) /\ Cardinality(S) = 1
  BY SettingsAssumption, FS_Subset DEF SingleLink, NLink
<1>2. PICK m : S = {m}  BY <1>1, FS_Singleton
<1>. QED  BY <1>2 DEF Named

\* One name is one link.
LEMMA OneLink ==
  ASSUME NEW i, NEW m \in Path, Named(m, i), \A n \in Path : Named(n, i) => n = m
  PROVE  SingleLink(i)
<1>1. {n \in Path : names[n] = i} = {m}  BY DEF Named
<1>. QED  BY <1>1, FS_Singleton DEF SingleLink, NLink

-----------------------------------------------------------------------------
\* What other steps do to a run.

Time ==
  /\ setting'.coarse = setting.coarse
  /\ clock \in Int /\ clock' \in Int /\ clock <= clock'

\* Nothing that the run looks at changes.
Spared(q) ==
  /\ fmt'[q] = fmt[q] /\ unseen'[q] = unseen[q] /\ UNCHANGED names
  /\ fmt[q].pc \in HasFile => inode'[fmt[q].file] = inode[fmt[q].file]
  /\ fmt[q].pc \in Reopened => inode'[fmt[q].current] = inode[fmt[q].current]
  /\ fmt[q].pc \in HasTemp => inode'[fmt[q].temp] = inode[fmt[q].temp]

\* A file that the run has open may be changed, with a new stamp, or lose names.
Shaken(i) ==
  \/ inode'[i] = inode[i] /\ \A n \in Path : names'[n] = i => names[n] = i
  \/ /\ IsInode(inode'[i], clock')
     /\ inode[i].stamp <= inode'[i].stamp
     /\ ~ setting.coarse => clock < inode'[i].stamp

\* Others change something, perhaps unseen.
Disturbed(q) ==
  /\ fmt'[q] = fmt[q]
  /\ fmt[q].pc \in BlindSpot => unseen'[q]
  /\ fmt[q].pc \in HasFile => Shaken(fmt[q].file)
  /\ fmt[q].pc \in Reopened => Shaken(fmt[q].current)
  /\ fmt[q].pc \in HasTemp => inode'[fmt[q].temp] = inode[fmt[q].temp]

\* An inode is one at any later time.
LEMMA Later ==
  ASSUME Time, NEW file, IsInode(file, clock)
  PROVE  IsInode(file, clock')
BY DEF Time, IsInode

\* A run that is spared has what it had.
LEMMA SparedSound ==
  ASSUME Time, NEW q, RunSound(q), Spared(q)
  PROVE  RunSound(q)'
<1>1. Local(q)'
  <2>1. \A file : IsInode(file, clock) => IsInode(file, clock)'
    BY DEF IsInode, Time
  <2>. QED  BY <2>1 DEF RunSound, Spared, Local, Working, Reopened, Snapped, HasFile
<1>. USE DEF Reopened, Copied, HasTemp, Counted, WholeRead, Snapped, HasFile
<1>2. Kept(q) /\ fmt[q].pc \in Snapped => Kept(q)'
  BY DEF Spared, Kept, Begins, Named
<1>3. fmt[q].pc \in Snapped => (Steady(q)' <=> Steady(q))
  BY DEF Spared, Steady
<1>4. ASSUME Exact(q) PROVE Exact(q)'
  <2>1. fmt'[q] = fmt[q] /\ unseen'[q] = unseen[q] /\ UNCHANGED names  BY DEF Spared
  <2>2. (fmt[q].pc \in Snapped /\ Steady(q) => Kept(q))'  BY <1>2, <1>3, <1>4, <2>1 DEF Exact
  <2>3. (fmt[q].pc \in {"relink again", "rename"} /\ ~ unseen[q] => Steady(q))'
    BY <1>3, <1>4, <2>1 DEF Exact
  <2>. QED  BY <1>4, <2>1, <2>2, <2>3 DEF Exact, Named
<1>5. Coarse(q) => Coarse(q)'  BY DEF Coarse, Spared, Named, Begins
<1>. QED  BY <1>1, <1>4, <1>5 DEF RunSound, Time

\* A run that is disturbed has what it had, or the stamps tell, or it is unseen.
LEMMA DisturbedSound ==
  ASSUME Time, setting.coarse \in BOOLEAN, NEW q, RunSound(q), Disturbed(q)
  PROVE  RunSound(q)'
<1>1. fmt'[q] = fmt[q]  BY DEF Disturbed
<1>2. \A i : IsInode(inode[i], clock) /\ Shaken(i) =>
               IsInode(inode'[i], clock') /\ inode[i].stamp <= inode'[i].stamp
  <2>1. ASSUME NEW i, IsInode(inode[i], clock), Shaken(i), inode'[i] = inode[i]
        PROVE  IsInode(inode'[i], clock') /\ inode[i].stamp <= inode'[i].stamp
    BY <2>1, Later DEF IsInode
  <2>. QED  BY <2>1 DEF Shaken
<1>3. Local(q)'
  <2>1. fmt[q].pc \in HasFile =>
          /\ IsInode(inode[fmt[q].file], clock)
          /\ IsInode(inode'[fmt[q].file], clock')
          /\ inode[fmt[q].file].stamp <= inode'[fmt[q].file].stamp
    BY <1>2 DEF RunSound, Local, Disturbed
  <2>2. fmt[q].pc \in Reopened => IsInode(inode'[fmt[q].current], clock')
    BY <1>2 DEF RunSound, Local, Disturbed
  <2>3. fmt[q].pc \in Snapped => fmt[q].pc \in HasFile  BY DEF HasFile
  <2>4. fmt[q].pc \in Snapped => fmt[q].snapshot.stamp <= inode'[fmt[q].file].stamp
    <3>1. SUFFICES ASSUME fmt[q].pc \in Snapped
                   PROVE  fmt[q].snapshot.stamp <= inode'[fmt[q].file].stamp
      OBVIOUS
    <3>2. /\ fmt[q].snapshot.stamp \in Int
          /\ fmt[q].snapshot.stamp <= inode[fmt[q].file].stamp
      BY <3>1 DEF RunSound, Local
    <3>3. inode[fmt[q].file].stamp \in Int /\ inode'[fmt[q].file].stamp \in Int
      BY <2>1, <2>3, <3>1 DEF IsInode
    <3>. QED  BY <2>1, <2>3, <3>1, <3>2, <3>3
  <2>5. \A file : IsInode(file, clock') => IsInode(file, clock)'  BY DEF IsInode
  <2>. QED  BY <1>1, <2>1, <2>2, <2>4, <2>5 DEF RunSound, Local, Working
<1>4. CASE setting.coarse
  <2>1. fmt[q].pc \in Reopened => unseen'[q]  BY <1>4 DEF Reopened, BlindSpot, Disturbed
  <2>2. Coarse(q)'  BY <1>1, <2>1 DEF Coarse
  <2>. QED  BY <1>3, <1>4, <2>2 DEF RunSound, Time
<1>5. CASE ~ setting.coarse
  <2>. DEFINE f == fmt[q].file
  <2>1. Exact(q)  BY <1>5 DEF RunSound
  <2>2. ASSUME fmt[q].pc \in Snapped, Steady(q)'
        PROVE  inode'[f] = inode[f] /\ Steady(q) /\ \A n \in Path : names'[n] = f => names[n] = f
    <3>1. fmt[q].pc \in HasFile  BY <2>2 DEF HasFile
    <3>2. inode'[f].stamp = fmt[q].snapshot.stamp  BY <1>1, <2>2 DEF Steady
    <3>3. /\ fmt[q].snapshot.stamp \in Int /\ inode[f].stamp \in Int
          /\ fmt[q].snapshot.stamp <= inode[f].stamp /\ inode[f].stamp <= clock
      BY <2>2, <3>1 DEF RunSound, Local, IsInode
    <3>4. ~ (clock < inode'[f].stamp)  BY <3>2, <3>3 DEF Time
    <3>5. inode'[f] = inode[f] /\ \A n \in Path : names'[n] = f => names[n] = f
      BY <1>5, <3>1, <3>4 DEF Disturbed, Shaken
    <3>. QED  BY <3>2, <3>5 DEF Steady
  <2>3. ASSUME fmt[q].pc \in Snapped, Steady(q)' PROVE Kept(q)'
    <3>1. Kept(q)  BY <2>1, <2>2, <2>3 DEF Exact
    <3>2. fmt[q].pc \in Copied => inode'[fmt[q].temp] = inode[fmt[q].temp]
      BY DEF Disturbed, HasTemp
    <3>. QED  BY <1>1, <2>2, <2>3, <3>1, <3>2 DEF Kept, Begins, Named
  <2>4. fmt[q].pc \in {"relink again", "rename"} => unseen'[q]
    BY DEF Disturbed, BlindSpot
  <2>5. (fmt[q].pc \in {"relink", "reread", "restat again", "relink again", "rename"} =>
           fmt[q].current = fmt[q].file)'
    BY <1>1, <2>1 DEF Exact
  <2>6. Exact(q)'  BY <1>1, <2>3, <2>4, <2>5 DEF Exact
  <2>. QED  BY <1>3, <1>5, <2>6 DEF RunSound, Time
<1>. QED  BY <1>4, <1>5

-----------------------------------------------------------------------------
\* What a run does to itself.

Live(p) == p \in Proc /\ fmt[p].pc \notin {"exited", "dead"}

\* What the invariant says while somebody is alive.
LEMMA LiveSound ==
  ASSUME IInv, NEW p, Live(p)
  PROVE  /\ NamesStay /\ SettingSound /\ NamesSound /\ TempsApart
         /\ \A q \in Proc : RunSound(q)
BY DEF IInv, Live, Alive

\* The settings that stay: who runs, and how fine the clock is.
LEMMA SettingStays ==
  ASSUME SettingSound, NEW what, what \in {"edits", "ticks", "crashes", "faults"},
         NEW n, setting' = [setting EXCEPT ![what] = n] \/ UNCHANGED setting,
         clock' \in Int, DOMAIN fmt' = Proc, DOMAIN unseen' = Proc
  PROVE  /\ SettingSound' /\ Proc' = Proc /\ setting'.coarse = setting.coarse
         /\ setting'.args = setting.args /\ setting'.check = setting.check
<1>1. /\ {"args", "check", "saves", "modes", "extras", "coarse",
          "edits", "ticks", "crashes", "faults"} \subseteq DOMAIN setting'
      /\ setting'.args = setting.args /\ setting'.coarse = setting.coarse
      /\ setting'.saves = setting.saves /\ setting'.check = setting.check
  BY DEF SettingSound
<1>. QED  BY <1>1 DEF SettingSound, Proc

\* What a run may open: what has a name, or what it has open.
Reachable(p, i) ==
  \/ \E n \in Path : names[n] = i
  \/ fmt[p].pc \in HasFile /\ i = fmt[p].file
  \/ fmt[p].pc \in Reopened /\ i = fmt[p].current

\* What is left to show of a step of one run that changes no file.
LEMMA PrivateIInv ==
  ASSUME IInv, NEW p, Live(p), UNCHANGED <<names, inode, clock>>,
         \A q \in Proc : q # p => unseen'[q] = unseen[q],
         SettingSound', Proc' = Proc, setting'.coarse = setting.coarse,
         DOMAIN fmt' = Proc, \A q \in Proc : q # p => fmt'[q] = fmt[q],
         fmt'[p].pc \in HasTemp => fmt[p].pc \in HasTemp /\ fmt'[p].temp = fmt[p].temp,
         fmt'[p].pc \in HasFile => Reachable(p, fmt'[p].file),
         fmt'[p].pc \in Reopened => Reachable(p, fmt'[p].current),
         RunSound(p)'
  PROVE  IInv'
<1>1. /\ NamesStay /\ SettingSound /\ NamesSound /\ TempsApart
      /\ \A q \in Proc : RunSound(q)
  BY LiveSound
<1>2. Time  BY <1>1 DEF Time, SettingSound
<1>3. NamesSound'  BY <1>1 DEF NamesSound, IsInode
<1>4. ASSUME NEW q \in Proc, q # p PROVE RunSound(q)'
  BY <1>1, <1>2, <1>4, SparedSound DEF Spared
<1>5. TempsApart'
  <2>1. ASSUME NEW q \in Proc, fmt'[q].pc \in HasTemp
        PROVE  fmt[q].pc \in HasTemp /\ fmt'[q].temp = fmt[q].temp
    BY <2>1
  <2>2. \A q, r \in Proc : fmt[q].pc \in HasTemp /\ fmt'[r].pc \in HasFile =>
          fmt'[r].file # fmt[q].temp
    BY <1>1 DEF TempsApart, Reachable, Live
  <2>3. \A q, r \in Proc : fmt[q].pc \in HasTemp /\ fmt'[r].pc \in Reopened =>
          fmt'[r].current # fmt[q].temp
    BY <1>1 DEF TempsApart, Reachable, Live
  <2>. QED  BY <1>1, <2>1, <2>2, <2>3 DEF TempsApart, IsInode
<1>6. \A q \in Proc : RunSound(q)'  BY <1>4
<1>. QED  BY <1>1, <1>3, <1>5, <1>6 DEF IInv, NamesStay

\* A run that is between two files, or over, has nothing in hand.
LEMMA IdleSound ==
  ASSUME NEW p, LocalFields \subseteq DOMAIN fmt'[p], fmt'[p].todo \in Seq(Path),
         fmt'[p].pc \in {"next", "exited", "dead"},
         fmt'[p].src = <<>>, fmt'[p].again = <<>>
  PROVE  RunSound(p)'
BY DEF RunSound, Local, Working, Exact, Coarse, HasFile, Snapped, WholeRead, Counted, HasTemp,
       Copied, Reopened

\* The end of a run, or of a file.
LEMMA LeaveIInv ==
  ASSUME IInv, NEW p, Live(p), UNCHANGED <<names, inode, clock, unseen>>,
         SettingSound', Proc' = Proc, setting'.coarse = setting.coarse,
         \/ \E code : Exits(p, code)
         \/ Working(p) /\ \E changed : NextFile(p, changed)
  PROVE  IInv'
<1>1. SettingSound /\ Local(p)  BY LiveSound DEF RunSound, Live
<1>2. PICK l : /\ fmt' = [fmt EXCEPT ![p] = l]
               /\ LocalFields \subseteq DOMAIN l /\ l.todo \in Seq(Path)
               /\ l.pc \in {"next", "exited", "dead"} /\ l.src = <<>> /\ l.again = <<>>
  <2>. DEFINE over(code) == [Idle EXCEPT !.pc = "exited", !.todo = fmt[p].todo, !.exit = code]
              next(changed) == [Idle EXCEPT !.todo = Tail(fmt[p].todo),
                                            !.changed = fmt[p].changed \/ changed]
  <2>1. \A code : /\ LocalFields \subseteq DOMAIN over(code) /\ over(code).todo = fmt[p].todo
                  /\ over(code).pc = "exited" /\ over(code).src = <<>> /\ over(code).again = <<>>
    BY DEF Idle, LocalFields
  <2>2. \A changed :
          /\ LocalFields \subseteq DOMAIN next(changed) /\ next(changed).todo = Tail(fmt[p].todo)
          /\ next(changed).pc = "next"
          /\ next(changed).src = <<>> /\ next(changed).again = <<>>
    BY DEF Idle, LocalFields
  <2>3. Working(p) => Tail(fmt[p].todo) \in Seq(Path)
    <3>1. Working(p) => fmt[p].todo \in Seq(Path) /\ fmt[p].todo # <<>>  BY <1>1 DEF Local
    <3>. QED  BY <3>1
  <2>4. CASE \E code : Exits(p, code)
    <3>1. PICK code : fmt' = [fmt EXCEPT ![p] = over(code)]  BY <2>4 DEF Exits
    <3>. QED  BY <3>1, <2>1, <1>1 DEF Local
  <2>5. CASE Working(p) /\ \E changed : NextFile(p, changed)
    <3>1. PICK changed : fmt' = [fmt EXCEPT ![p] = next(changed)]  BY <2>5 DEF NextFile
    <3>. QED  BY <3>1, <2>2, <2>3, <2>5
  <2>. QED  BY <2>4, <2>5
<1>3. p \in Proc /\ DOMAIN fmt = Proc  BY <1>1 DEF Live, SettingSound
<1>4. fmt'[p] = l /\ DOMAIN fmt' = Proc /\ \A q \in Proc : q # p => fmt'[q] = fmt[q]
  BY <1>2, <1>3
<1>5. RunSound(p)'  BY <1>2, <1>4, IdleSound
<1>6. fmt'[p].pc \notin HasFile /\ fmt'[p].pc \notin HasTemp /\ fmt'[p].pc \notin Reopened
  BY <1>2, <1>4 DEF HasFile, Snapped, WholeRead, Counted, HasTemp, Copied, Reopened
<1>. QED  BY <1>4, <1>5, <1>6, PrivateIInv

\* A private step that ends the run, or the file.
LEMMA FailIInv ==
  ASSUME IInv, NEW p, Live(p), Private \/ UNCHANGED <<fs, unseen>>,
         \/ \E code : Exits(p, code)
         \/ Working(p) /\ \E changed : NextFile(p, changed)
  PROVE  IInv'
<1>1. SettingSound  BY LiveSound
<1>2. UNCHANGED <<names, inode, clock, setting, unseen>>  BY DEF Private, fs
<1>3. DOMAIN fmt' = Proc  BY <1>1 DEF Exits, NextFile, SettingSound
<1>4. SettingSound' /\ Proc' = Proc
  BY <1>1, <1>2, <1>3 DEF SettingSound, Proc
<1>. QED  BY <1>2, <1>4, LeaveIInv

\* What is left to show of a private step that goes on.
LEMMA GoesOnIInv ==
  ASSUME IInv, NEW p, Live(p), UNCHANGED fs, NEW l, fmt' = [fmt EXCEPT ![p] = l],
         unseen' = [unseen EXCEPT ![p] = FALSE] \/ UNCHANGED unseen,
         l.pc \in HasTemp => fmt[p].pc \in HasTemp /\ l.temp = fmt[p].temp,
         l.pc \in HasFile => Reachable(p, l.file),
         l.pc \in Reopened => Reachable(p, l.current),
         RunSound(p)'
  PROVE  IInv'
<1>1. SettingSound /\ p \in Proc  BY LiveSound DEF Live
<1>2. UNCHANGED <<names, inode, clock, setting>>  BY DEF fs
<1>3. /\ fmt'[p] = l /\ DOMAIN fmt' = Proc /\ \A q \in Proc : q # p => fmt'[q] = fmt[q]
      /\ DOMAIN unseen' = Proc /\ \A q \in Proc : q # p => unseen'[q] = unseen[q]
  BY <1>1 DEF SettingSound
<1>4. SettingSound' /\ Proc' = Proc
  BY <1>1, <1>2, <1>3 DEF SettingSound, Proc
<1>. QED  BY <1>2, <1>3, <1>4, PrivateIInv

-----------------------------------------------------------------------------
\* Reading chunk by chunk.

\* What is left of a file that is not read to its end starts with the next chunk.
LEMMA BeginsNext ==
  ASSUME NEW part, IsSeq(part), NEW data, IsSeq(data), Begins(part, data),
         SubSeq(data, Len(part) + 1, Len(data)) # <<>>
  PROVE  Begins(Append(part, Head(SubSeq(data, Len(part) + 1, Len(data)))), data)
<1>. DEFINE m == Len(part)
            rest == SubSeq(data, m + 1, Len(data))
<1>1. PICK S : data \in Seq(S)  BY DEF IsSeq
<1>2. m \in Nat /\ Len(data) \in Nat /\ m <= Len(data)  BY <1>1, SeqLen DEF Begins
<1>3. m < Len(data)
  <2>1. SUFFICES ASSUME m = Len(data) PROVE FALSE  BY <1>2
  <2>2. rest = <<>>  BY <1>1, <1>2, <2>1
  <2>. QED  BY <2>2
<1>4. Head(rest) = data[m + 1]  BY <1>1, <1>2, <1>3
<1>. HIDE DEF rest
<1>5. /\ Len(Append(part, Head(rest))) = m + 1
      /\ \A k \in 1..m : Append(part, Head(rest))[k] = part[k]
      /\ Append(part, Head(rest))[m + 1] = Head(rest)
  BY SeqAppend
<1>6. ASSUME NEW k \in 1..m + 1 PROVE Append(part, Head(rest))[k] = data[k]
  BY <1>2, <1>4, <1>5 DEF Begins
<1>7. Begins(Append(part, Head(rest)), data)  BY <1>2, <1>3, <1>5, <1>6 DEF Begins
<1>. QED  BY <1>7 DEF rest

\* A file that is read to its end is read.
LEMMA BeginsAll ==
  ASSUME NEW part, IsSeq(part), NEW data, IsSeq(data), Begins(part, data),
         SubSeq(data, Len(part) + 1, Len(data)) = <<>>
  PROVE  part = data
<1>1. PICK S : data \in Seq(S)  BY DEF IsSeq
<1>2. PICK T : part \in Seq(T)  BY DEF IsSeq
<1>3. Len(part) \in Nat /\ Len(data) \in Nat /\ Len(part) <= Len(data)
  BY <1>1, <1>2 DEF Begins
<1>4. ~ (Len(part) < Len(data))
  <2>1. SUFFICES ASSUME Len(part) < Len(data) PROVE FALSE  OBVIOUS
  <2>2. Len(SubSeq(data, Len(part) + 1, Len(data))) = Len(data) - Len(part)
    BY <1>1, <1>3, <2>1
  <2>3. Len(SubSeq(data, Len(part) + 1, Len(data))) = 0  BY SeqEmpty
  <2>. QED  BY <1>3, <2>1, <2>2, <2>3
<1>5. Len(part) = Len(data) /\ \A k \in 1..Len(part) : part[k] = data[k]
  BY <1>3, <1>4 DEF Begins
<1>. QED  BY <1>1, <1>2, <1>5

\* A reader that has read nothing.
LEMMA BeginsNone ==
  ASSUME NEW data, IsSeq(data)
  PROVE  Begins(<<>>, data)
BY SeqLen, SeqEmpty DEF Begins

-----------------------------------------------------------------------------
\* The steps of a run up to its temporary.

\* What one run knows, spelt out.
LEMMA Known ==
  ASSUME IInv, NEW p, Live(p)
  PROVE  /\ p \in Proc /\ DOMAIN fmt = Proc /\ DOMAIN unseen = Proc
         /\ LocalFields \subseteq DOMAIN fmt[p]
         /\ RunSound(p) /\ Local(p)
         /\ ~ setting.coarse => Exact(p)
         /\ setting.coarse => Coarse(p)
         /\ Working(p) => Found(p) = names[fmt[p].target] /\ fmt[p].target \in Path
         /\ \A n \in Path : names[n] # None =>
              names[n] \in Inode /\ IsInode(inode[names[n]], clock)
<1>1. NamesStay /\ SettingSound /\ NamesSound /\ RunSound(p)  BY LiveSound DEF Live
<1>2. Local(p) /\ p \in Proc  BY <1>1 DEF RunSound, Live
<1>3. Working(p) => Found(p) = names[fmt[p].target] /\ fmt[p].target \in Path
  BY <1>1, <1>2, FoundIs, BoundsAssumption DEF Local
<1>. QED  BY <1>1, <1>2, <1>3 DEF RunSound, SettingSound, NamesSound, Local

\* The path is resolved to the name of a file.
LEMMA ResolveIInv ==
  ASSUME IInv, NEW p, Live(p), Resolve(p)
  PROVE  IInv'
<1>1. /\ NamesStay /\ SettingSound /\ NamesSound /\ Local(p) /\ p \in Proc
      /\ LocalFields \subseteq DOMAIN fmt[p]
  BY LiveSound, Known
<1>. DEFINE path == Head(fmt[p].todo)
<1>2. fmt[p].pc = "next" /\ fmt[p].todo # <<>> /\ path \in Path
  BY <1>1 DEF Resolve, At, Local
<1>3. CASE Opened(path) = None  BY <1>3, FailIInv DEF Resolve, Fail
<1>4. CASE Opened(path) # None
  <2>. DEFINE l == [fmt[p] EXCEPT !.pc = "stat", !.target = Follow(path)]
  <2>1. fmt' = [fmt EXCEPT ![p] = l] /\ unseen' = [unseen EXCEPT ![p] = FALSE] /\ UNCHANGED fs
    BY <1>4 DEF Resolve
  <2>2. Follow(path) \in Path /\ names[Follow(path)] # None /\ Kind(Follow(path)) # "symlink"
    BY <1>2, <1>4, FollowPath DEF Opened
  <2>3. Follow(path) \in FileNames
    BY <1>1, <2>2, BoundsAssumption DEF NamesSound, Kind
  <2>4. /\ LocalFields \subseteq DOMAIN l /\ l.pc = "stat" /\ l.target = Follow(path)
        /\ l.todo = fmt[p].todo /\ l.src = fmt[p].src /\ l.again = fmt[p].again
    BY <1>1 DEF LocalFields
  <2>. HIDE DEF l
  <2>5. fmt'[p] = l  BY <1>1, <2>1 DEF SettingSound
  <2>. USE DEF HasFile, Snapped, WholeRead, Counted, HasTemp, Copied, Reopened
  <2>6. l.src = <<>> /\ l.again = <<>>  BY <1>1, <1>2, <2>4 DEF Local
  <2>7. RunSound(p)'  BY <1>1, <1>2, <2>3, <2>4, <2>5, <2>6 DEF RunSound, Local, Exact, Coarse
  <2>. QED  BY <2>1, <2>4, <2>7, GoesOnIInv
<1>. QED  BY <1>3, <1>4

\* A run that goes on keeps what it has in hand.
LEMMA GoneOn ==
  ASSUME IInv, NEW p, Live(p), NEW pc, Goes(p, pc)
  PROVE  /\ fmt' = [fmt EXCEPT ![p] = fmt'[p]]
         /\ LocalFields \subseteq DOMAIN fmt'[p] /\ fmt'[p].pc = pc
         /\ fmt'[p].todo = fmt[p].todo /\ fmt'[p].target = fmt[p].target
         /\ fmt'[p].file = fmt[p].file /\ fmt'[p].snapshot = fmt[p].snapshot
         /\ fmt'[p].src = fmt[p].src /\ fmt'[p].temp = fmt[p].temp
         /\ fmt'[p].current = fmt[p].current /\ fmt'[p].again = fmt[p].again
BY Known DEF Goes, LocalFields

\* The fields alone.
LEMMA FieldsStay ==
  ASSUME IInv, NEW p, Live(p), NEW pc, Goes(p, pc)
  PROVE  /\ fmt'[p].pc = pc /\ fmt'[p].todo = fmt[p].todo /\ fmt'[p].target = fmt[p].target
         /\ fmt'[p].file = fmt[p].file /\ fmt'[p].snapshot = fmt[p].snapshot
         /\ fmt'[p].src = fmt[p].src /\ fmt'[p].temp = fmt[p].temp
         /\ fmt'[p].current = fmt[p].current /\ fmt'[p].again = fmt[p].again
BY GoneOn

\* What is left to show of a private step that only goes on.
LEMMA GoesIInv ==
  ASSUME IInv, NEW p, Live(p), Working(p), NEW pc, Goes(p, pc), Private,
         pc \notin {"next", "exited", "dead"},
         pc \in HasTemp => fmt[p].pc \in HasTemp, pc \in HasFile => fmt[p].pc \in HasFile,
         pc \in Reopened => fmt[p].pc \in Reopened,
         pc \in Snapped <=> fmt[p].pc \in Snapped,
         pc \notin {"reread", "restat again", "relink again", "rename"} => fmt[p].again = <<>>,
         ~ setting.coarse => Exact(p)', setting.coarse => Coarse(p)'
  PROVE  IInv'
<1>1. /\ fmt' = [fmt EXCEPT ![p] = fmt'[p]]
      /\ LocalFields \subseteq DOMAIN fmt'[p] /\ fmt'[p].pc = pc
      /\ fmt'[p].todo = fmt[p].todo /\ fmt'[p].target = fmt[p].target
      /\ fmt'[p].file = fmt[p].file /\ fmt'[p].snapshot = fmt[p].snapshot
      /\ fmt'[p].src = fmt[p].src /\ fmt'[p].temp = fmt[p].temp
      /\ fmt'[p].current = fmt[p].current /\ fmt'[p].again = fmt[p].again
  BY GoneOn
<1>2. Local(p)  BY Known
<1>3. UNCHANGED fs /\ UNCHANGED <<inode, clock, setting, unseen>>  BY DEF Private, fs
<1>4. Local(p)'  BY <1>1, <1>2, <1>3 DEF Local, Working, IsInode
<1>5. RunSound(p)'  BY <1>3, <1>4 DEF RunSound
<1>6. PICK l : l = fmt'[p]  OBVIOUS
<1>7. fmt' = [fmt EXCEPT ![p] = l]  BY <1>1, <1>6
<1>8. l.pc \in HasTemp => fmt[p].pc \in HasTemp /\ l.temp = fmt[p].temp  BY <1>1, <1>6
<1>9. /\ l.pc \in HasFile => Reachable(p, l.file)
      /\ l.pc \in Reopened => Reachable(p, l.current)
  BY <1>1, <1>6 DEF Reachable
<1>. QED  BY <1>3, <1>5, <1>7, <1>8, <1>9, GoesOnIInv

\* What the path leads to is a file.
LEMMA StatPathIInv ==
  ASSUME IInv, NEW p, Live(p), StatPath(p)
  PROVE  IInv'
<1>1. fmt[p].pc = "stat" /\ Working(p)  BY DEF StatPath, At, Working
<1>2. CASE Fail(p)  BY <1>2, FailIInv DEF Fail
<1>3. CASE Goes(p, "open") /\ Private
  <2>1. fmt'[p].pc = "open"  BY <1>3, FieldsStay
  <2>. USE DEF HasFile, Snapped, WholeRead, Counted, HasTemp, Copied, Reopened
  <2>2. Exact(p)' /\ Coarse(p)'  BY <2>1 DEF Exact, Coarse
  <2>3. fmt[p].again = <<>>  BY <1>1, Known DEF Local
  <2>. QED  BY <1>1, <1>3, <2>2, <2>3, GoesIInv
<1>. QED  BY <1>2, <1>3 DEF StatPath

\* The file is what the path leads to then.
LEMMA OpenIInv ==
  ASSUME IInv, NEW p, Live(p), Open(p)
  PROVE  IInv'
<1>1. fmt[p].pc = "open" /\ Working(p)  BY DEF Open, At, Working
<1>2. CASE Found(p) = None  BY <1>2, FailIInv DEF Open, Fail
<1>3. CASE Found(p) # None
  <2>. DEFINE l == [fmt[p] EXCEPT !.pc = "snapshot", !.file = Found(p)]
  <2>1. fmt' = [fmt EXCEPT ![p] = l] /\ Private  BY <1>3 DEF Open
  <2>2. /\ Found(p) \in Inode /\ IsInode(inode[Found(p)], clock)
        /\ \E n \in Path : names[n] = Found(p)
    BY <1>1, <1>3, Known
  <2>3. /\ LocalFields \subseteq DOMAIN l /\ l.pc = "snapshot" /\ l.file = Found(p)
        /\ l.target = fmt[p].target
        /\ l.todo = fmt[p].todo /\ l.src = fmt[p].src /\ l.again = fmt[p].again
    BY Known DEF LocalFields
  <2>4. UNCHANGED <<fs, unseen, inode, clock, setting>>  BY <2>1 DEF Private, fs
  <2>. HIDE DEF l
  <2>5. fmt'[p] = l  BY <2>1, Known
  <2>6. Local(p)'
    <3>1. Local(p)  BY Known
    <3>2. IsInode(inode'[l.file], clock')  BY <2>2, <2>3, <2>4
    <3>3. l.src = <<>> /\ l.again = <<>>
      BY <1>1, <2>3, <3>1 DEF Local, Snapped, WholeRead, Counted, HasTemp, Copied, Reopened
    <3>. QED
      BY <1>1, <2>2, <2>3, <2>5, <3>1, <3>2, <3>3 DEF Local, Working, IsInode, HasFile, Snapped,
         WholeRead, Counted, HasTemp, Copied, Reopened
  <2>. USE DEF HasFile, Snapped, WholeRead, Counted, HasTemp, Copied, Reopened
  <2>7. Exact(p)' /\ Coarse(p)'  BY <2>3, <2>5 DEF Exact, Coarse
  <2>8. RunSound(p)'  BY <2>6, <2>7 DEF RunSound
  <2>. QED  BY <2>1, <2>2, <2>3, <2>4, <2>8, GoesOnIInv DEF Reachable
<1>. QED  BY <1>2, <1>3

\* The snapshot is of the file that is open.
LEMMA TakeSnapshotIInv ==
  ASSUME IInv, NEW p, Live(p), TakeSnapshot(p)
  PROVE  IInv'
<1>1. fmt[p].pc = "snapshot" /\ Working(p)  BY DEF TakeSnapshot, At, Working
<1>2. CASE Fail(p)  BY <1>2, FailIInv DEF Fail
<1>3. CASE ~ Fail(p)
  <2>. DEFINE s == Stat(fmt[p].file)
              l == [fmt[p] EXCEPT !.pc = "read", !.snapshot = s]
  <2>1. fmt' = [fmt EXCEPT ![p] = l] /\ Private  BY <1>3 DEF TakeSnapshot
  <2>2. UNCHANGED <<fs, unseen, inode, clock, setting>>  BY <2>1 DEF Private, fs
  <2>3. /\ LocalFields \subseteq DOMAIN l /\ l.pc = "read" /\ l.file = fmt[p].file
        /\ l.snapshot = s /\ l.target = fmt[p].target
        /\ l.todo = fmt[p].todo /\ l.src = fmt[p].src /\ l.again = fmt[p].again
    BY Known DEF LocalFields
  <2>4. /\ s.inode = fmt[p].file /\ s.stamp = inode[fmt[p].file].stamp
        /\ s.mode = inode[fmt[p].file].mode
    BY DEF Stat
  <2>. HIDE DEF l, s
  <2>5. fmt'[p] = l  BY <2>1, Known
  <2>6. /\ Local(p) /\ fmt[p].file \in Inode /\ IsInode(inode[fmt[p].file], clock)
        /\ fmt[p].src = <<>> /\ fmt[p].again = <<>>
    BY <1>1, Known DEF Local, HasFile, Snapped, WholeRead, Counted, HasTemp, Copied, Reopened
  <2>7. Local(p)'
    <3>1. s.stamp \in Int /\ s.stamp <= inode[fmt[p].file].stamp  BY <2>4, <2>6 DEF IsInode
    <3>2. IsInode(inode'[l.file], clock')  BY <2>2, <2>3, <2>6
    <3>. QED
      BY <1>1, <2>2, <2>3, <2>4, <2>5, <2>6, <3>1, <3>2, SeqEmpty DEF Local, Working, IsInode,
         HasFile, Snapped, WholeRead, Counted, HasTemp, Copied, Reopened
  <2>. USE DEF HasFile, Snapped, WholeRead, Counted, HasTemp, Copied, Reopened
  <2>8. Kept(p)'
    <3>1. Begins(<<>>, inode[fmt[p].file].data)  BY <2>6, BeginsNone DEF IsInode
    <3>. QED  BY <2>2, <2>3, <2>4, <2>5, <2>6, <3>1 DEF Kept, Begins
  <2>9. Exact(p)' /\ Coarse(p)'  BY <2>3, <2>5, <2>8 DEF Exact, Coarse
  <2>10. RunSound(p)'  BY <2>7, <2>9 DEF RunSound
  <2>. QED  BY <1>1, <2>1, <2>2, <2>3, <2>10, GoesOnIInv DEF Reachable
<1>. QED  BY <1>2, <1>3

\* As long as the file keeps its stamp, the chunks that are read are its chunks.
LEMMA ReadChunkIInv ==
  ASSUME IInv, NEW p, Live(p), ReadChunk(p)
  PROVE  IInv'
<1>1. fmt[p].pc = "read" /\ Working(p)  BY DEF ReadChunk, At, Working
<1>. DEFINE data == inode[fmt[p].file].data
            chunk == Head(SubSeq(data, Len(fmt[p].src) + 1, Len(data)))
            more == Append(fmt[p].src, chunk)
            l == [fmt[p] EXCEPT !.src = more]
<1>2. /\ fmt' = [fmt EXCEPT ![p] = l] /\ Private
      /\ SubSeq(data, Len(fmt[p].src) + 1, Len(data)) # <<>>
  BY DEF ReadChunk, Rest
<1>3. UNCHANGED <<fs, unseen, inode, clock, setting>>  BY <1>2 DEF Private, fs
<1>. HIDE DEF chunk
<1>4. /\ LocalFields \subseteq DOMAIN l /\ l.pc = "read" /\ l.file = fmt[p].file
      /\ l.snapshot = fmt[p].snapshot /\ l.target = fmt[p].target
      /\ l.todo = fmt[p].todo /\ l.src = more /\ l.again = fmt[p].again
  BY <1>1, Known DEF LocalFields
<1>. HIDE DEF l
<1>5. fmt'[p] = l  BY <1>2, Known
<1>. USE DEF HasFile, Snapped, WholeRead, Counted, HasTemp, Copied, Reopened
<1>6. Local(p) /\ IsSeq(fmt[p].src) /\ IsSeq(data)
  BY <1>1, Known DEF Local, IsInode
<1>7. IsSeq(more)  BY <1>6, SeqAppend
<1>. HIDE DEF more
<1>8. Local(p)'  BY <1>1, <1>3, <1>4, <1>5, <1>6, <1>7 DEF Local, Working, IsInode
<1>9. ASSUME ~ setting.coarse PROVE Exact(p)'
  <2>1. SUFFICES ASSUME Steady(p)' PROVE Kept(p)'  BY <1>4, <1>5 DEF Exact
  <2>2. Kept(p)  BY <1>1, <1>3, <1>4, <1>5, <1>9, <2>1, Known DEF Exact, Steady
  <2>3. Begins(fmt[p].src, data)  BY <1>1, <2>2 DEF Kept
  <2>4. Begins(more, data)  BY <1>2, <1>6, <2>3, BeginsNext DEF more, chunk
  <2>. QED  BY <1>1, <1>3, <1>4, <1>5, <2>2, <2>4 DEF Kept, Begins
<1>10. Coarse(p)'  BY <1>4, <1>5 DEF Coarse
<1>11. RunSound(p)'  BY <1>3, <1>8, <1>9, <1>10 DEF RunSound
<1>. QED  BY <1>1, <1>2, <1>3, <1>4, <1>11, GoesOnIInv DEF Reachable

\* At its end the whole file is read.
LEMMA DecideIInv ==
  ASSUME IInv, NEW p, Live(p), Decide(p)
  PROVE  IInv'
<1>1. fmt[p].pc = "read" /\ Working(p)  BY DEF Decide, At, Working
<1>2. CASE Fail(p)  BY <1>2, FailIInv DEF Fail
<1>3. CASE \E changed : NextFile(p, changed) /\ UNCHANGED <<fs, unseen>>
  BY <1>1, <1>3, FailIInv
<1>4. CASE Goes(p, "links") /\ Private
  <2>. USE DEF HasFile, Snapped, WholeRead, Counted, HasTemp, Copied, Reopened
  <2>. DEFINE data == inode[fmt[p].file].data
  <2>1. UNCHANGED <<names, inode, setting, unseen>>  BY <1>4 DEF Private, fs
  <2>2. /\ fmt'[p].pc = "links" /\ fmt'[p].file = fmt[p].file /\ fmt'[p].src = fmt[p].src
        /\ fmt'[p].snapshot = fmt[p].snapshot
    BY <1>4, FieldsStay
  <2>3. SubSeq(data, Len(fmt[p].src) + 1, Len(data)) = <<>>  BY DEF Decide, Rest
  <2>4. IsSeq(fmt[p].src) /\ IsSeq(data) /\ fmt[p].again = <<>>
    BY <1>1, Known DEF Local, IsInode
  <2>5. ASSUME ~ setting.coarse PROVE Exact(p)'
    <3>1. SUFFICES ASSUME Steady(p)' PROVE Kept(p)'  BY <2>2 DEF Exact
    <3>2. Kept(p)  BY <1>1, <2>1, <2>2, <2>5, <3>1, Known DEF Exact, Steady
    <3>3. fmt[p].src = data  BY <1>1, <2>3, <2>4, <3>2, BeginsAll DEF Kept
    <3>. QED  BY <1>1, <2>1, <2>2, <3>2, <3>3 DEF Kept
  <2>6. Coarse(p)'  BY <2>2 DEF Coarse
  <2>. QED  BY <1>1, <1>4, <2>4, <2>5, <2>6, GoesIInv
<1>5. \/ Fail(p)
      \/ \E changed : NextFile(p, changed) /\ UNCHANGED <<fs, unseen>>
      \/ Goes(p, "links") /\ Private
  BY DEF Decide, Private
<1>. QED  BY <1>2, <1>3, <1>4, <1>5

\* The file has one name then, and no other as long as it keeps its stamp.
LEMMA EnsureSingleLinkIInv ==
  ASSUME IInv, NEW p, Live(p), EnsureSingleLink(p)
  PROVE  IInv'
<1>1. fmt[p].pc = "links" /\ Working(p)  BY DEF EnsureSingleLink, At, Working
<1>2. CASE Fail(p)  BY <1>2, FailIInv DEF Fail
<1>3. CASE SingleLink(fmt[p].file) /\ Goes(p, "create") /\ Private
  <2>. USE DEF HasFile, Snapped, WholeRead, Counted, HasTemp, Copied, Reopened
  <2>1. UNCHANGED <<names, inode, setting, unseen>>  BY <1>3 DEF Private, fs
  <2>2. /\ fmt'[p].pc = "create" /\ fmt'[p].file = fmt[p].file /\ fmt'[p].src = fmt[p].src
        /\ fmt'[p].snapshot = fmt[p].snapshot
    BY <1>3, FieldsStay
  <2>3. \A n, m \in Path : Named(n, fmt[p].file) /\ Named(m, fmt[p].file) => n = m
    BY <1>3, OneName
  <2>4. ASSUME ~ setting.coarse PROVE Exact(p)'
    <3>1. SUFFICES ASSUME Steady(p)' PROVE Kept(p)'  BY <2>2 DEF Exact
    <3>2. Kept(p)  BY <1>1, <2>1, <2>2, <2>4, <3>1, Known DEF Exact, Steady
    <3>. QED  BY <1>1, <2>1, <2>2, <2>3, <3>2 DEF Kept, Named
  <2>5. Coarse(p)'  BY <2>2 DEF Coarse
  <2>6. fmt[p].again = <<>>  BY <1>1, Known DEF Local
  <2>. QED  BY <1>1, <1>3, <2>4, <2>5, <2>6, GoesIInv
<1>. QED  BY <1>2, <1>3 DEF EnsureSingleLink

-----------------------------------------------------------------------------
\* The second look, once the temporary is written.

\* The path is opened again: if it leads to the file, by its only name.
LEMMA ReopenIInv ==
  ASSUME IInv, NEW p, Live(p), Reopen(p)
  PROVE  IInv'
<1>1. fmt[p].pc = "reopen" /\ Working(p)  BY DEF Reopen, At, Working
<1>2. CASE Found(p) = None  BY <1>2, FailIInv DEF Reopen, Fail
<1>3. CASE Found(p) # None
  <2>. DEFINE l == [fmt[p] EXCEPT !.pc = "restat", !.current = Found(p)]
  <2>1. fmt' = [fmt EXCEPT ![p] = l] /\ Private  BY <1>3 DEF Reopen
  <2>2. /\ Found(p) \in Inode /\ IsInode(inode[Found(p)], clock)
        /\ Found(p) = names[fmt[p].target] /\ fmt[p].target \in Path
    BY <1>1, <1>3, Known
  <2>3. /\ LocalFields \subseteq DOMAIN l /\ l.pc = "restat" /\ l.current = Found(p)
        /\ l.target = fmt[p].target /\ l.file = fmt[p].file /\ l.snapshot = fmt[p].snapshot
        /\ l.temp = fmt[p].temp
        /\ l.todo = fmt[p].todo /\ l.src = fmt[p].src /\ l.again = fmt[p].again
    BY Known DEF LocalFields
  <2>4. UNCHANGED <<names, unseen, inode, clock, setting>>  BY <2>1 DEF Private, fs
  <2>. HIDE DEF l
  <2>5. fmt'[p] = l  BY <2>1, Known
  <2>. USE DEF HasFile, Snapped, WholeRead, Counted, HasTemp, Copied, Reopened
  <2>6. Local(p) /\ fmt[p].again = <<>>  BY <1>1, Known DEF Local
  <2>7. Local(p)'
    <3>1. IsInode(inode'[l.current], clock')  BY <2>2, <2>3, <2>4
    <3>. QED
      BY <1>1, <2>2, <2>3, <2>4, <2>5, <2>6, <3>1, SeqEmpty DEF Local, Working, IsInode
  <2>8. ASSUME ~ setting.coarse PROVE Exact(p)'
    <3>1. SUFFICES ASSUME Steady(p)' PROVE Kept(p)'  BY <2>3, <2>5 DEF Exact
    <3>2. Kept(p)  BY <1>1, <2>3, <2>4, <2>5, <2>8, <3>1, Known DEF Exact, Steady
    <3>3. /\ fmt'[p].snapshot.mode = inode'[fmt'[p].file].mode
          /\ fmt'[p].src = inode'[fmt'[p].file].data
      BY <1>1, <2>3, <2>4, <2>5, <3>2 DEF Kept
    <3>4. /\ inode'[fmt'[p].temp].mode = inode'[fmt'[p].file].mode
          /\ inode'[fmt'[p].temp].extra = inode'[fmt'[p].file].extra
      BY <1>1, <2>3, <2>4, <2>5, <3>2 DEF Kept
    <3>5. \A n, m \in Path : Named(n, fmt[p].file) /\ Named(m, fmt[p].file) => n = m
      BY <1>1, <3>2 DEF Kept
    <3>6. \A n, m \in Path : Named(n, fmt[p].file)' /\ Named(m, fmt[p].file)' => n = m
      BY <2>3, <2>4, <2>5, <3>5 DEF Named
    <3>7. fmt'[p].current = fmt'[p].file => Named(fmt[p].target, fmt[p].file)' /\ fmt'[p].target \in Path
      BY <2>2, <2>3, <2>4, <2>5 DEF Named
    <3>8. fmt'[p].pc # "read"  BY <2>3, <2>5
    <3>. QED  BY <2>3, <2>5, <3>3, <3>4, <3>6, <3>7, <3>8 DEF Kept
  <2>9. Coarse(p)'  BY <2>2, <2>3, <2>4, <2>5 DEF Coarse, Named
  <2>10. RunSound(p)'  BY <2>4, <2>7, <2>8, <2>9 DEF RunSound
  <2>11. Reachable(p, l.file) /\ Reachable(p, l.current)  BY <1>1, <2>2, <2>3 DEF Reachable
  <2>12. UNCHANGED fs /\ UNCHANGED unseen  BY <2>1 DEF Private
  <2>. QED  BY <1>1, <2>1, <2>3, <2>10, <2>11, <2>12, GoesOnIInv
<1>. QED  BY <1>2, <1>3

\* The two looks compared: the same file, which has not changed.
LEMMA Compared ==
  ASSUME NEW p, SameSnapshot(fmt[p].snapshot, Stat(fmt[p].current)), Local(p),
         fmt[p].pc \in Reopened
  PROVE  fmt[p].current = fmt[p].file /\ Steady(p)
<1>1. fmt[p].snapshot.inode = fmt[p].file
  BY DEF Local, HasFile, Snapped, WholeRead, Counted, HasTemp, Copied
<1>2. fmt[p].snapshot = Stat(fmt[p].current)  BY DEF SameSnapshot
<1>3. fmt[p].snapshot.inode = fmt[p].current
  BY <1>2 DEF Stat
<1>4. fmt[p].snapshot.stamp = inode[fmt[p].current].stamp
  BY <1>2 DEF Stat
<1>. QED  BY <1>1, <1>3, <1>4 DEF Steady

\* What is left to show of a step of the second look.
LEMMA SecondLookIInv ==
  ASSUME IInv, NEW p, Live(p), fmt[p].pc \in Reopened, NEW pc, pc \in Reopened,
         Goes(p, pc), Private,
         pc \notin {"reread", "restat again", "relink again", "rename"} => fmt[p].again = <<>>,
         ~ setting.coarse =>
           /\ fmt[p].current = fmt[p].file
           /\ pc \in {"relink again", "rename"} /\ ~ unseen[p] => Steady(p)
           /\ pc = "rename" /\ ~ unseen[p] => Named(fmt[p].target, fmt[p].file),
         setting.coarse => Coarse(p)'
  PROVE  IInv'
<1>1. UNCHANGED <<names, inode, setting, unseen>>  BY DEF Private, fs
<1>2. /\ fmt'[p].pc = pc /\ fmt'[p].target = fmt[p].target
      /\ fmt'[p].file = fmt[p].file /\ fmt'[p].snapshot = fmt[p].snapshot
      /\ fmt'[p].src = fmt[p].src /\ fmt'[p].temp = fmt[p].temp
      /\ fmt'[p].current = fmt[p].current
  BY FieldsStay
<1>. USE DEF HasFile, Snapped, WholeRead, Counted, HasTemp, Copied, Reopened
<1>3. ASSUME ~ setting.coarse PROVE Exact(p)'
  <2>1. ASSUME Steady(p)' PROVE Kept(p)'
    <3>1. Kept(p)  BY <1>1, <1>2, <1>3, <2>1, Known DEF Exact, Steady
    <3>. QED  BY <1>1, <1>2, <3>1 DEF Kept, Named
  <2>2. Steady(p) => Steady(p)'  BY <1>1, <1>2 DEF Steady
  <2>. QED  BY <1>1, <1>2, <1>3, <2>1, <2>2 DEF Exact, Named
<1>4. Working(p) /\ pc \notin {"next", "exited", "dead"}  BY DEF Working
<1>. QED  BY <1>3, <1>4, GoesIInv

\* The path leads to the file that was read, and nothing has changed it.
LEMMA RestatIInv ==
  ASSUME IInv, NEW p, Live(p), Restat(p)
  PROVE  IInv'
<1>1. fmt[p].pc = "restat" /\ fmt[p].pc \in Reopened  BY DEF Restat, At, Reopened
<1>2. CASE Fail(p)  BY <1>2, FailIInv DEF Fail
<1>3. CASE /\ SameSnapshot(fmt[p].snapshot, Stat(fmt[p].current))
           /\ Goes(p, "relink") /\ Private
  <2>1. fmt[p].current = fmt[p].file /\ fmt[p].again = <<>>
    BY <1>1, <1>3, Compared, Known DEF Local
  <2>2. UNCHANGED <<names, inode, setting, unseen>>  BY <1>3 DEF Private, fs
  <2>3. /\ fmt'[p].pc = "relink" /\ fmt'[p].target = fmt[p].target
        /\ fmt'[p].file = fmt[p].file /\ fmt'[p].current = fmt[p].current
    BY <1>3, FieldsStay
  <2>4. setting.coarse => Coarse(p)'
    BY <1>1, <2>1, <2>2, <2>3, Known DEF Coarse, Named
  <2>. QED  BY <1>1, <1>3, <2>1, <2>4, SecondLookIInv DEF Reopened
<1>. QED  BY <1>2, <1>3 DEF Restat, Compare

\* The path is the only name.
LEMMA RelinkIInv ==
  ASSUME IInv, NEW p, Live(p), Relink(p)
  PROVE  IInv'
<1>1. fmt[p].pc = "relink" /\ fmt[p].pc \in Reopened  BY DEF Relink, At, Reopened
<1>2. CASE Fail(p)  BY <1>2, FailIInv DEF Fail
<1>3. CASE SingleLink(fmt[p].current) /\ Goes(p, "reread") /\ Private
  <2>1. PICK m \in Path : Named(m, fmt[p].current) /\ \A n \in Path : Named(n, fmt[p].current) => n = m
    BY <1>3, OneName
  <2>2. UNCHANGED <<names, inode, setting, unseen>>  BY <1>3 DEF Private, fs
  <2>3. /\ fmt'[p].pc = "reread" /\ fmt'[p].target = fmt[p].target
        /\ fmt'[p].file = fmt[p].file /\ fmt'[p].current = fmt[p].current
        /\ fmt'[p].again = fmt[p].again
    BY <1>3, FieldsStay
  <2>4. /\ fmt[p].again = <<>> /\ IsSeq(inode[fmt[p].current].data)
        /\ Working(p) /\ fmt[p].target \in Path
    BY <1>1, Known DEF Local, IsInode, Working
  <2>5. setting.coarse => Coarse(p)'
    <3>1. Begins(fmt[p].again, inode[fmt[p].current].data)'
      BY <2>2, <2>3, <2>4, BeginsNone DEF Begins
    <3>2. setting.coarse => Coarse(p)  BY Known
    <3>. QED  BY <1>1, <2>1, <2>2, <2>3, <2>4, <3>1, <3>2 DEF Coarse, Named
  <2>6. ~ setting.coarse => fmt[p].current = fmt[p].file  BY <1>1, Known DEF Exact
  <2>. QED  BY <1>1, <1>3, <2>5, <2>6, SecondLookIInv DEF Reopened
<1>. QED  BY <1>2, <1>3 DEF Relink, CountLinks

\* The chunks that are read again are the chunks of the file the path leads to.
LEMMA RereadChunkIInv ==
  ASSUME IInv, NEW p, Live(p), RereadChunk(p)
  PROVE  IInv'
<1>1. fmt[p].pc = "reread" /\ Working(p)  BY DEF RereadChunk, At, Working
<1>. DEFINE data == inode[fmt[p].current].data
            chunk == Head(SubSeq(data, Len(fmt[p].again) + 1, Len(data)))
            more == Append(fmt[p].again, chunk)
            l == [fmt[p] EXCEPT !.again = more]
<1>2. /\ fmt' = [fmt EXCEPT ![p] = l] /\ Private
      /\ SubSeq(data, Len(fmt[p].again) + 1, Len(data)) # <<>>
  BY DEF RereadChunk, Rest
<1>3. UNCHANGED <<fs, unseen, inode, clock, setting>> /\ UNCHANGED names  BY <1>2 DEF Private, fs
<1>. HIDE DEF chunk
<1>4. /\ LocalFields \subseteq DOMAIN l /\ l.pc = "reread" /\ l.file = fmt[p].file
      /\ l.snapshot = fmt[p].snapshot /\ l.target = fmt[p].target
      /\ l.temp = fmt[p].temp /\ l.current = fmt[p].current
      /\ l.todo = fmt[p].todo /\ l.src = fmt[p].src /\ l.again = more
  BY <1>1, Known DEF LocalFields
<1>. HIDE DEF l
<1>5. fmt'[p] = l  BY <1>2, Known
<1>. USE DEF HasFile, Snapped, WholeRead, Counted, HasTemp, Copied, Reopened
<1>6. Local(p) /\ IsSeq(fmt[p].again) /\ IsSeq(data)
  BY <1>1, Known DEF Local, IsInode
<1>7. IsSeq(more)  BY <1>6, SeqAppend
<1>. HIDE DEF more
<1>8. Local(p)'  BY <1>1, <1>3, <1>4, <1>5, <1>6, <1>7 DEF Local, Working, IsInode
<1>9. ASSUME ~ setting.coarse PROVE Exact(p)'
  <2>1. ASSUME Steady(p)' PROVE Kept(p)'
    <3>1. Kept(p)  BY <1>1, <1>3, <1>4, <1>5, <1>9, <2>1, Known DEF Exact, Steady
    <3>. QED  BY <1>1, <1>3, <1>4, <1>5, <3>1 DEF Kept, Named
  <2>. QED  BY <1>1, <1>3, <1>4, <1>5, <1>9, <2>1, Known DEF Exact
<1>10. ASSUME setting.coarse PROVE Coarse(p)'
  <2>1. ~ unseen[p] => Begins(fmt[p].again, data)  BY <1>1, <1>10, Known DEF Coarse
  <2>2. ~ unseen[p] => Begins(more, data)  BY <1>2, <1>6, <2>1, BeginsNext DEF more, chunk
  <2>3. Coarse(p)  BY <1>10, Known
  <2>4. ~ unseen[p] => Begins(fmt'[p].again, inode'[fmt'[p].current].data)
    BY <1>3, <1>4, <1>5, <2>2
  <2>5. \A part, of : Begins(part, of) => Begins(part, of)'  BY DEF Begins
  <2>. QED  BY <1>1, <1>3, <1>4, <1>5, <2>3, <2>4, <2>5 DEF Coarse, Named
<1>11. RunSound(p)'  BY <1>3, <1>8, <1>9, <1>10 DEF RunSound
<1>. QED  BY <1>1, <1>2, <1>3, <1>4, <1>11, GoesOnIInv DEF Reachable

\* With a coarse clock, what the second look has found holds on after it.
LEMMA CoarseKept ==
  ASSUME IInv, NEW p, Live(p), setting.coarse,
         fmt[p].pc \in {"reread", "restat again", "relink again"},
         fmt[p].pc = "reread" /\ ~ unseen[p] => fmt[p].src = inode[fmt[p].current].data,
         UNCHANGED <<names, inode, setting, unseen>>,
         fmt'[p].pc \in {"restat again", "relink again", "rename"},
         fmt'[p].target = fmt[p].target, fmt'[p].file = fmt[p].file,
         fmt'[p].current = fmt[p].current, fmt'[p].src = fmt[p].src
  PROVE  Coarse(p)'
<1>1. /\ fmt[p].pc \in Reopened /\ fmt[p].pc \notin {"restat", "relink"}
      /\ fmt[p].pc # "reread" => fmt[p].pc \in {"restat again", "relink again", "rename"}
  BY DEF Reopened
<1>2. Coarse(p)  BY Known
<1>3. ASSUME ~ unseen[p]
      PROVE  /\ Named(fmt[p].target, fmt[p].current) /\ fmt[p].current = fmt[p].file
             /\ \A n \in Path : Named(n, fmt[p].current) => n = fmt[p].target
             /\ fmt[p].src = inode[fmt[p].current].data
  BY <1>1, <1>2, <1>3 DEF Coarse
<1>4. fmt'[p].pc # "reread"  OBVIOUS
<1>5. ASSUME ~ unseen'[p]
      PROVE  /\ Named(fmt[p].target, fmt[p].current)' /\ fmt'[p].current = fmt'[p].file
             /\ \A n \in Path : Named(n, fmt[p].current)' => n = fmt'[p].target
             /\ fmt'[p].src = inode'[fmt'[p].current].data
  BY <1>3, <1>5 DEF Named
<1>. QED  BY <1>4, <1>5 DEF Coarse

\* It holds what was read.
LEMMA CompareTextIInv ==
  ASSUME IInv, NEW p, Live(p), CompareText(p)
  PROVE  IInv'
<1>1. fmt[p].pc = "reread" /\ fmt[p].pc \in Reopened  BY DEF CompareText, At, Reopened
<1>2. CASE Fail(p)  BY <1>2, FailIInv DEF Fail
<1>3. CASE SameText(p) /\ Goes(p, "restat again") /\ Private
  <2>. DEFINE data == inode[fmt[p].current].data
  <2>1. UNCHANGED <<names, inode, setting, unseen>>  BY <1>3 DEF Private, fs
  <2>2. /\ fmt'[p].pc = "restat again" /\ fmt'[p].target = fmt[p].target
        /\ fmt'[p].file = fmt[p].file /\ fmt'[p].current = fmt[p].current
        /\ fmt'[p].src = fmt[p].src
    BY <1>3, FieldsStay
  <2>3. SubSeq(data, Len(fmt[p].again) + 1, Len(data)) = <<>>  BY DEF CompareText, Rest
  <2>4. IsSeq(fmt[p].again) /\ IsSeq(data)  BY <1>1, Known DEF Local, IsInode
  <2>5. ASSUME setting.coarse PROVE Coarse(p)'
    <3>1. ~ unseen[p] => Begins(fmt[p].again, data)  BY <1>1, <2>5, Known DEF Coarse
    <3>2. ~ unseen[p] => fmt[p].src = data
      BY <1>3, <2>3, <2>4, <3>1, BeginsAll DEF SameText
    <3>. QED  BY <1>1, <2>1, <2>2, <2>5, <3>2, CoarseKept
  <2>6. ~ setting.coarse => fmt[p].current = fmt[p].file  BY <1>1, Known DEF Exact
  <2>. QED  BY <1>1, <1>3, <2>5, <2>6, SecondLookIInv DEF Reopened
<1>. QED  BY <1>2, <1>3 DEF CompareText

\* Still nothing has changed it.
LEMMA RestatAgainIInv ==
  ASSUME IInv, NEW p, Live(p), RestatAgain(p)
  PROVE  IInv'
<1>1. fmt[p].pc = "restat again" /\ fmt[p].pc \in Reopened  BY DEF RestatAgain, At, Reopened
<1>2. CASE Fail(p)  BY <1>2, FailIInv DEF Fail
<1>3. CASE /\ SameSnapshot(fmt[p].snapshot, Stat(fmt[p].current))
           /\ Goes(p, "relink again") /\ Private
  <2>1. fmt[p].current = fmt[p].file /\ Steady(p)  BY <1>1, <1>3, Compared, Known
  <2>2. UNCHANGED <<names, inode, setting, unseen>>  BY <1>3 DEF Private, fs
  <2>3. /\ fmt'[p].pc = "relink again" /\ fmt'[p].target = fmt[p].target
        /\ fmt'[p].file = fmt[p].file /\ fmt'[p].current = fmt[p].current
        /\ fmt'[p].src = fmt[p].src
    BY <1>3, FieldsStay
  <2>4. setting.coarse => Coarse(p)'
    BY <1>1, <2>2, <2>3, CoarseKept
  <2>. QED  BY <1>1, <1>3, <2>1, <2>4, SecondLookIInv DEF Reopened
<1>. QED  BY <1>2, <1>3 DEF RestatAgain, Compare

\* And it still has a name, which can only be the path.
LEMMA RelinkAgainIInv ==
  ASSUME IInv, NEW p, Live(p), RelinkAgain(p)
  PROVE  IInv'
<1>1. fmt[p].pc = "relink again" /\ fmt[p].pc \in Reopened  BY DEF RelinkAgain, At, Reopened
<1>2. CASE Fail(p)  BY <1>2, FailIInv DEF Fail
<1>3. CASE SingleLink(fmt[p].current) /\ Goes(p, "rename") /\ Private
  <2>1. PICK m \in Path : Named(m, fmt[p].current)  BY <1>3, OneName
  <2>2. UNCHANGED <<names, inode, setting, unseen>>  BY <1>3 DEF Private, fs
  <2>3. /\ fmt'[p].pc = "rename" /\ fmt'[p].target = fmt[p].target
        /\ fmt'[p].file = fmt[p].file /\ fmt'[p].current = fmt[p].current
        /\ fmt'[p].src = fmt[p].src
    BY <1>3, FieldsStay
  <2>4. setting.coarse => Coarse(p)'
    BY <1>1, <2>2, <2>3, CoarseKept
  <2>5. ASSUME ~ setting.coarse, ~ unseen[p]
        PROVE  Steady(p) /\ Named(fmt[p].target, fmt[p].file)
    <3>1. Steady(p) /\ fmt[p].current = fmt[p].file  BY <1>1, <2>5, Known DEF Exact
    <3>2. Kept(p)
      BY <1>1, <2>5, <3>1, Known DEF Exact, Snapped, WholeRead, Counted, HasTemp, Copied
    <3>. QED  BY <1>1, <2>1, <3>1, <3>2 DEF Kept
  <2>6. ~ setting.coarse => fmt[p].current = fmt[p].file  BY <1>1, Known DEF Exact
  <2>. QED  BY <1>1, <1>3, <2>4, <2>5, <2>6, SecondLookIInv DEF Reopened
<1>. QED  BY <1>2, <1>3 DEF RelinkAgain, CountLinks

\* All files are done.
LEMMA FinishIInv ==
  ASSUME IInv, NEW p, Live(p), Finish(p)
  PROVE  IInv'
BY FailIInv DEF Finish

-----------------------------------------------------------------------------
\* Writing the temporary.

\* Nobody but p can have i in hand, as its temporary, and it has no name.
Apart(p, i) ==
  /\ i \in Inode
  /\ \A n \in Path : names[n] # i
  /\ \A q \in Proc :
       /\ fmt[q].pc \in HasFile => fmt[q].file # i
       /\ fmt[q].pc \in Reopened => fmt[q].current # i
       /\ q # p /\ fmt[q].pc \in HasTemp => fmt[q].temp # i

\* A free inode is nobody's.
LEMMA FreeApart ==
  ASSUME NEW i \in Free, NEW p
  PROVE  Apart(p, i) /\ \A q \in Proc : fmt[q].temp # i
BY DEF Free, Apart, Held

\* What a run keeps of its file while its temporary is made.
LEMMA KeptStays ==
  ASSUME NEW p, Kept(p), names' = names,
         fmt[p].pc \in {"create", "write", "sync"}, fmt'[p].pc \in {"write", "sync", "reopen"},
         fmt'[p].file = fmt[p].file, fmt'[p].snapshot = fmt[p].snapshot,
         fmt'[p].src = fmt[p].src, inode'[fmt[p].file] = inode[fmt[p].file],
         fmt'[p].pc \in Copied =>
           /\ inode'[fmt'[p].temp].mode = inode'[fmt'[p].file].mode
           /\ inode'[fmt'[p].temp].extra = inode'[fmt'[p].file].extra
  PROVE  Kept(p)'
<1>1. /\ fmt[p].pc \in Snapped /\ fmt[p].pc \in WholeRead /\ fmt[p].pc \in Counted
      /\ fmt'[p].pc # "read" /\ fmt'[p].pc \notin Reopened
  BY DEF Snapped, WholeRead, Counted, HasTemp, Copied, Reopened
<1>2. /\ fmt[p].snapshot.mode = inode[fmt[p].file].mode
      /\ fmt[p].src = inode[fmt[p].file].data
      /\ \A n, m \in Path : Named(n, fmt[p].file) /\ Named(m, fmt[p].file) => n = m
  BY <1>1 DEF Kept
<1>3. \A n, m \in Path :
        Named(n, fmt[p].file)' /\ Named(m, fmt[p].file)' => n = m
  BY <1>2 DEF Named
<1>4. fmt'[p].snapshot.mode = inode'[fmt'[p].file].mode /\ fmt'[p].src = inode'[fmt'[p].file].data
  BY <1>2
<1>. QED  BY <1>1, <1>3, <1>4 DEF Kept

\* What is left to show of a step that changes the run's temporary only.
LEMMA TempIInv ==
  ASSUME IInv, NEW p, Live(p), UNCHANGED <<names, clock, setting, unseen>>,
         NEW t, Apart(p, t), NEW file, IsInode(file, clock), file.kind = "file",
         inode' = [inode EXCEPT ![t] = file],
         DOMAIN fmt' = Proc, \A q \in Proc : q # p => fmt'[q] = fmt[q],
         fmt[p].pc \in {"create", "write", "sync"}, fmt'[p].pc \in {"write", "sync", "reopen"},
         LocalFields \subseteq DOMAIN fmt'[p], fmt'[p].temp = t,
         fmt'[p].todo = fmt[p].todo, fmt'[p].target = fmt[p].target,
         fmt'[p].file = fmt[p].file, fmt'[p].snapshot = fmt[p].snapshot,
         fmt'[p].src = fmt[p].src, fmt'[p].again = fmt[p].again,
         fmt'[p].pc \in Copied /\ Kept(p) =>
           file.mode = inode[fmt[p].file].mode /\ file.extra = inode[fmt[p].file].extra
  PROVE  IInv'
<1>0. /\ fmt[p].pc \in HasFile /\ fmt'[p].pc \notin Reopened /\ setting' = setting /\ clock' = clock
      /\ names' = names /\ unseen' = unseen
  BY DEF HasFile, Snapped, WholeRead, Counted, HasTemp, Copied, Reopened
<1>1. /\ NamesStay /\ SettingSound /\ NamesSound /\ TempsApart /\ p \in Proc
      /\ \A q \in Proc : RunSound(q)
  BY LiveSound DEF Live
<1>2. Time  BY <1>0, <1>1 DEF Time, SettingSound
<1>3. SettingSound' /\ Proc' = Proc  BY <1>0, <1>1 DEF SettingSound, Proc
<1>4. /\ DOMAIN inode' = Inode /\ inode'[t] = file
      /\ \A i \in Inode : i # t => inode'[i] = inode[i]
  BY <1>1 DEF NamesSound, Apart
<1>5. /\ fmt[p].file \in Inode /\ fmt[p].file # t /\ inode'[fmt[p].file] = inode[fmt[p].file]
      /\ IsInode(inode[fmt[p].file], clock)
  BY <1>0, <1>1, <1>4 DEF Apart, RunSound, Local
<1>6. \A i : IsInode(i, clock) => IsInode(i, clock)'  BY DEF IsInode
<1>7. NamesSound'
  <2>1. ASSUME NEW n \in Path, names[n] # None
        PROVE  names[n] \in Inode /\ inode'[names[n]] = inode[names[n]]
    BY <1>1, <1>4, <2>1 DEF NamesSound, Apart
  <2>. QED  BY <1>0, <1>1, <1>4, <1>6, <2>1 DEF NamesSound
<1>8. ASSUME NEW q \in Proc, q # p PROVE RunSound(q)'
  <2>1. Local(q)  BY <1>1 DEF RunSound
  <2>2. fmt[q].pc \in HasFile => inode'[fmt[q].file] = inode[fmt[q].file]
    BY <1>4, <2>1 DEF Local, Apart
  <2>3. fmt[q].pc \in Reopened => inode'[fmt[q].current] = inode[fmt[q].current]
    BY <1>4, <2>1 DEF Local, Apart
  <2>4. fmt[q].pc \in HasTemp => inode'[fmt[q].temp] = inode[fmt[q].temp]
    BY <1>1, <1>4, <1>8 DEF TempsApart, Apart
  <2>. QED  BY <1>0, <1>1, <1>2, <1>8, <2>2, <2>3, <2>4, SparedSound DEF Spared
<1>9. RunSound(p)'
  <2>. USE DEF HasFile, Snapped, WholeRead, Counted, HasTemp, Copied, Reopened
  <2>1. Local(p)'
    <3>1. Local(p)  BY <1>1 DEF RunSound
    <3>2. Local(p) => fmt[p].again = <<>>  BY DEF Local
    <3>3. IsInode(inode[fmt[p].file], clock)'  BY <1>5, <1>6
    <3>. QED  BY <1>5, <3>1, <3>2, <3>3, SeqEmpty DEF Local, Working
  <2>2. ASSUME ~ setting.coarse PROVE Exact(p)'
    <3>1. SUFFICES ASSUME Steady(p)' PROVE Kept(p)'  BY DEF Exact
    <3>2. Steady(p)  BY <1>5, <3>1 DEF Steady
    <3>3. Kept(p)  BY <1>1, <2>2, <3>2 DEF RunSound, Exact
    <3>4. fmt'[p].pc \in Copied =>
            /\ inode'[fmt'[p].temp].mode = inode'[fmt'[p].file].mode
            /\ inode'[fmt'[p].temp].extra = inode'[fmt'[p].file].extra
      <4>1. inode'[fmt'[p].temp] = file /\ inode'[fmt'[p].file] = inode[fmt[p].file]
        BY <1>4, <1>5
      <4>2. fmt'[p].pc \in Copied =>
              file.mode = inode[fmt[p].file].mode /\ file.extra = inode[fmt[p].file].extra
        BY <3>3, Zenon
      <4>. QED  BY ONLY <4>1, <4>2
    <3>5. inode'[fmt[p].file] = inode[fmt[p].file] /\ names' = names  BY <1>0, <1>5
    <3>. QED  BY <3>3, <3>4, <3>5, KeptStays, Zenon
  <2>3. Coarse(p)'  BY DEF Coarse
  <2>. QED  BY <2>1, <2>2, <2>3 DEF RunSound
<1>10. TempsApart'
  <2>1. ASSUME NEW q \in Proc, q # p, fmt[q].pc \in HasTemp
        PROVE  /\ fmt[q].temp \in Inode /\ fmt[q].temp # t
               /\ inode'[fmt[q].temp] = inode[fmt[q].temp]
               /\ fmt[p].file # fmt[q].temp
    BY <1>0, <1>1, <1>4, <2>1 DEF TempsApart, Apart
  <2>2. ASSUME NEW q \in Proc, fmt'[q].pc \in HasTemp
        PROVE  /\ fmt'[q].temp \in Inode
               /\ IsInode(inode[fmt[q].temp], clock)' /\ inode'[fmt'[q].temp].kind = "file"
               /\ \A n \in Path : names[n] # fmt'[q].temp
    <3>1. CASE q = p  BY <1>4, <1>6, <3>1 DEF Apart
    <3>2. CASE q # p
      <4>1. /\ fmt'[q] = fmt[q] /\ fmt[q].pc \in HasTemp
            /\ inode'[fmt[q].temp] = inode[fmt[q].temp]
        BY <2>1, <2>2, <3>2
      <4>2. /\ fmt[q].temp \in Inode
            /\ IsInode(inode[fmt[q].temp], clock) /\ inode[fmt[q].temp].kind = "file"
            /\ \A n \in Path : names[n] # fmt[q].temp
        BY <1>1, <4>1 DEF TempsApart
      <4>. QED  BY <1>6, <4>1, <4>2
    <3>. QED  BY <3>1, <3>2
  <2>3. ASSUME NEW q \in Proc, fmt'[q].pc \in HasTemp, NEW r \in Proc
        PROVE  /\ fmt'[r].pc \in HasFile => fmt'[r].file # fmt'[q].temp
               /\ fmt'[r].pc \in Reopened => fmt'[r].current # fmt'[q].temp
               /\ r # q /\ fmt'[r].pc \in HasTemp => fmt'[r].temp # fmt'[q].temp
    <3>1. CASE q = p  BY <1>0, <1>5, <3>1 DEF Apart
    <3>2. CASE q # p /\ r = p  BY <1>0, <2>1, <2>3, <3>2
    <3>3. CASE q # p /\ r # p  BY <1>1, <2>3, <3>3 DEF TempsApart
    <3>. QED  BY <3>1, <3>2, <3>3
  <2>. QED  BY <1>0, <1>3, <2>2, <2>3 DEF TempsApart
<1>11. \A q \in Proc : RunSound(q)'  BY <1>8, <1>9
<1>. QED  BY <1>1, <1>3, <1>7, <1>10, <1>11 DEF IInv, NamesStay

\* The temporary is a new file.
LEMMA CreateTemporaryIInv ==
  ASSUME IInv, NEW p, Live(p), CreateTemporary(p)
  PROVE  IInv'
<1>1. PICK i \in Free :
        /\ inode' = [inode EXCEPT ![i] = NewInode("file", <<>>, None, "private", FALSE)]
        /\ fmt' = [fmt EXCEPT ![p].pc = "write", ![p].temp = i]
  BY DEF CreateTemporary
<1>. DEFINE file == NewInode("file", <<>>, None, "private", FALSE)
            l == [fmt[p] EXCEPT !.pc = "write", !.temp = i]
<1>2. IsInode(file, clock) /\ file.kind = "file"
  <2>1. SettingSound  BY LiveSound
  <2>. QED  BY <2>1, SeqEmpty DEF NewInode, IsInode, InodeFields, SettingSound
<1>3. fmt[p].pc = "create" /\ UNCHANGED <<names, clock, setting, unseen>>
  BY DEF CreateTemporary, At
<1>4. /\ LocalFields \subseteq DOMAIN l /\ l.pc = "write" /\ l.temp = i /\ l.file = fmt[p].file
      /\ l.snapshot = fmt[p].snapshot /\ l.target = fmt[p].target
      /\ l.todo = fmt[p].todo /\ l.src = fmt[p].src /\ l.again = fmt[p].again
  BY Known DEF LocalFields
<1>5. fmt' = [fmt EXCEPT ![p] = l]  BY <1>1, Known
<1>. HIDE DEF l, file
<1>6. DOMAIN fmt' = Proc /\ fmt'[p] = l /\ \A q \in Proc : q # p => fmt'[q] = fmt[q]
  BY <1>5, Known
<1>7. Apart(p, i)  BY FreeApart
<1>8. inode' = [inode EXCEPT ![i] = file]  BY <1>1 DEF file
<1>. QED
  BY <1>2, <1>3, <1>4, <1>6, <1>7, <1>8, TempIInv DEF Copied, Reopened

\* What a run's temporary is.
LEMMA HasTemporary ==
  ASSUME IInv, NEW p, Live(p), fmt[p].pc \in HasTemp
  PROVE  Apart(p, fmt[p].temp) /\ IsInode(Temp(p), clock) /\ Temp(p).kind = "file"
BY LiveSound DEF Live, TempsApart, Apart, Temp

\* The next chunk of the text is written to it.
LEMMA WriteChunkIInv ==
  ASSUME IInv, NEW p, Live(p), WriteChunk(p)
  PROVE  IInv'
<1>. DEFINE data == Append(Temp(p).data, Head(Unwritten(p)))
            file == [Temp(p) EXCEPT !.data = data]
<1>1. /\ fmt[p].pc = "write" /\ UNCHANGED <<names, clock, setting, unseen>>
      /\ inode' = [inode EXCEPT ![fmt[p].temp] = file] /\ fmt' = fmt
  BY DEF WriteChunk, At, Temporary
<1>2. /\ Apart(p, fmt[p].temp) /\ IsInode(Temp(p), clock) /\ Temp(p).kind = "file"
  BY <1>1, HasTemporary DEF HasTemp
<1>3. IsSeq(data)  BY <1>2, SeqAppend DEF IsInode
<1>. HIDE DEF data
<1>4. IsInode(file, clock) /\ file.kind = "file"
  <2>1. /\ InodeFields \subseteq DOMAIN file /\ file.data = data
        /\ file.stamp = Temp(p).stamp /\ file.kind = Temp(p).kind
    BY <1>2 DEF IsInode, InodeFields
  <2>. QED  BY <1>2, <1>3, <2>1 DEF IsInode
<1>5. DOMAIN fmt' = Proc /\ LocalFields \subseteq DOMAIN fmt[p]  BY <1>1, Known
<1>. HIDE DEF file
<1>. QED  BY <1>1, <1>2, <1>4, <1>5, TempIInv DEF Copied, Reopened

\* It gets the metadata of the file, if that has not changed.
LEMMA CopyMetadataIInv ==
  ASSUME IInv, NEW p, Live(p), CopyMetadata(p)
  PROVE  IInv'
<1>. DEFINE file == [Temp(p) EXCEPT !.mode = fmt[p].snapshot.mode,
                                    !.extra = inode[fmt[p].file].extra]
<1>1. /\ fmt[p].pc = "write" /\ UNCHANGED <<names, clock, setting, unseen>>
      /\ inode' = [inode EXCEPT ![fmt[p].temp] = file] /\ Goes(p, "sync")
  BY DEF CopyMetadata, At, Temporary
<1>2. /\ Apart(p, fmt[p].temp) /\ IsInode(Temp(p), clock) /\ Temp(p).kind = "file"
  BY <1>1, HasTemporary DEF HasTemp
<1>3. /\ InodeFields \subseteq DOMAIN file /\ file.data = Temp(p).data
      /\ file.stamp = Temp(p).stamp /\ file.kind = Temp(p).kind
      /\ file.mode = fmt[p].snapshot.mode /\ file.extra = inode[fmt[p].file].extra
  BY <1>2 DEF IsInode, InodeFields
<1>4. IsInode(file, clock) /\ file.kind = "file"  BY <1>2, <1>3 DEF IsInode
<1>5. Kept(p) => file.mode = inode[fmt[p].file].mode /\ file.extra = inode[fmt[p].file].extra
  BY <1>1, <1>3 DEF Kept, Snapped, WholeRead, Counted, HasTemp
<1>. HIDE DEF file
<1>6. DOMAIN fmt' = Proc /\ \A q \in Proc : q # p => fmt'[q] = fmt[q]
  BY <1>1, Known DEF Goes
<1>7. /\ LocalFields \subseteq DOMAIN fmt'[p] /\ fmt'[p].pc = "sync"
      /\ fmt'[p].temp = fmt[p].temp
      /\ fmt'[p].todo = fmt[p].todo /\ fmt'[p].target = fmt[p].target
      /\ fmt'[p].file = fmt[p].file /\ fmt'[p].snapshot = fmt[p].snapshot
      /\ fmt'[p].src = fmt[p].src /\ fmt'[p].again = fmt[p].again
  BY <1>1, GoneOn
<1>8. /\ fmt[p].pc \in {"create", "write", "sync"} /\ fmt'[p].pc \in {"write", "sync", "reopen"}
      /\ fmt'[p].pc \in Copied /\ Kept(p) =>
           file.mode = inode[fmt[p].file].mode /\ file.extra = inode[fmt[p].file].extra
  BY <1>1, <1>5, <1>7
<1>9. inode' = [inode EXCEPT ![fmt[p].temp] = file] /\ UNCHANGED <<names, clock, setting, unseen>>
  BY <1>1
<1>. QED  BY <1>2, <1>4, <1>6, <1>7, <1>8, <1>9, TempIInv, ZenonT(60)

\* It reaches the disk.
LEMMA SyncIInv ==
  ASSUME IInv, NEW p, Live(p), Sync(p)
  PROVE  IInv'
<1>. DEFINE file == [Temp(p) EXCEPT !.synced = TRUE]
<1>1. /\ fmt[p].pc = "sync" /\ UNCHANGED <<names, clock, setting, unseen>>
      /\ inode' = [inode EXCEPT ![fmt[p].temp] = file] /\ Goes(p, "reopen")
  BY DEF Sync, At, Temporary
<1>2. /\ Apart(p, fmt[p].temp) /\ IsInode(Temp(p), clock) /\ Temp(p).kind = "file"
  BY <1>1, HasTemporary DEF HasTemp, Copied
<1>3. /\ InodeFields \subseteq DOMAIN file /\ file.data = Temp(p).data
      /\ file.stamp = Temp(p).stamp /\ file.kind = Temp(p).kind
      /\ file.mode = Temp(p).mode /\ file.extra = Temp(p).extra
  BY <1>2 DEF IsInode, InodeFields
<1>4. IsInode(file, clock) /\ file.kind = "file"  BY <1>2, <1>3 DEF IsInode
<1>5. Kept(p) => file.mode = inode[fmt[p].file].mode /\ file.extra = inode[fmt[p].file].extra
  BY <1>1, <1>3 DEF Kept, Copied, Temp
<1>. HIDE DEF file
<1>6. DOMAIN fmt' = Proc /\ \A q \in Proc : q # p => fmt'[q] = fmt[q]
  BY <1>1, Known DEF Goes
<1>7. /\ LocalFields \subseteq DOMAIN fmt'[p] /\ fmt'[p].pc = "reopen"
      /\ fmt'[p].temp = fmt[p].temp
      /\ fmt'[p].todo = fmt[p].todo /\ fmt'[p].target = fmt[p].target
      /\ fmt'[p].file = fmt[p].file /\ fmt'[p].snapshot = fmt[p].snapshot
      /\ fmt'[p].src = fmt[p].src /\ fmt'[p].again = fmt[p].again
  BY <1>1, GoneOn
<1>8. /\ fmt[p].pc \in {"create", "write", "sync"} /\ fmt'[p].pc \in {"write", "sync", "reopen"}
      /\ fmt'[p].pc \in Copied /\ Kept(p) =>
           file.mode = inode[fmt[p].file].mode /\ file.extra = inode[fmt[p].file].extra
  BY <1>1, <1>5, <1>7
<1>9. inode' = [inode EXCEPT ![fmt[p].temp] = file] /\ UNCHANGED <<names, clock, setting, unseen>>
  BY <1>1
<1>. QED  BY <1>2, <1>4, <1>6, <1>7, <1>8, <1>9, TempIInv, ZenonT(60)

-----------------------------------------------------------------------------
\* What others see of the replacement, and what others do.

\* The temporary gets the name of the target.
LEMMA RenameIInv ==
  ASSUME IInv, NEW p, Live(p), Rename(p)
  PROVE  IInv'
<1>1. fmt[p].pc = "rename" /\ Working(p)  BY DEF Rename, At, Working
<1>2. CASE Fail(p)  BY <1>2, FailIInv DEF Fail
<1>3. CASE ~ Fail(p)
  <2>. DEFINE t == fmt[p].target
              i == fmt[p].temp
  <2>1. /\ names' = [names EXCEPT ![t] = i] /\ Unnoticed(Proc \ {p})
        /\ NextFile(p, TRUE) /\ inode' = inode /\ clock' = clock /\ setting' = setting
    BY <1>3 DEF Rename
  <2>2. /\ NamesStay /\ SettingSound /\ NamesSound /\ TempsApart /\ p \in Proc
        /\ \A q \in Proc : RunSound(q)
    BY LiveSound DEF Live
  <2>3. Time  BY <2>1, <2>2 DEF Time, SettingSound
  <2>4. DOMAIN unseen' = Proc  BY <2>1 DEF Unnoticed
  <2>5. DOMAIN fmt' = Proc /\ \A q \in Proc : q # p => fmt'[q] = fmt[q]
    BY <2>1, <2>2 DEF NextFile, SettingSound
  <2>6. SettingSound' /\ Proc' = Proc
    BY <2>1, <2>2, <2>4, <2>5 DEF SettingSound, Proc
  <2>7. Apart(p, i) /\ IsInode(inode[i], clock) /\ inode[i].kind = "file"
    BY <1>1, HasTemporary DEF HasTemp, Copied, Reopened, Temp
  <2>8. t \in Path /\ t \in FileNames /\ t \notin LinkNames
    BY <1>1, <2>2, BoundsAssumption DEF RunSound, Local, NamesStay
  <2>9. DOMAIN names' = Path /\ \A n \in Path : names'[n] = IF n = t THEN i ELSE names[n]
    BY <2>1, <2>2, <2>8 DEF NamesSound
  <2>10. NamesSound'
    BY <2>1, <2>2, <2>7, <2>8, <2>9 DEF NamesSound, IsInode, Apart
  <2>11. RunSound(p)'
    <3>. DEFINE l == [Idle EXCEPT !.todo = Tail(fmt[p].todo), !.changed = fmt[p].changed \/ TRUE]
    <3>1. fmt'[p] = l  BY <2>1, <2>2 DEF NextFile, SettingSound
    <3>2. /\ LocalFields \subseteq DOMAIN l /\ l.todo = Tail(fmt[p].todo) /\ l.pc = "next"
          /\ l.src = <<>> /\ l.again = <<>>
      BY DEF Idle, LocalFields
    <3>3. fmt[p].todo \in Seq(Path) /\ fmt[p].todo # <<>>
      BY <1>1, <2>2 DEF RunSound, Local
    <3>4. Tail(fmt[p].todo) \in Seq(Path)  BY <3>3
    <3>. HIDE DEF l
    <3>. QED  BY <3>1, <3>2, <3>4, IdleSound
  <2>12. ASSUME NEW q \in Proc, q # p PROVE RunSound(q)'
    <3>1. unseen'[q] <=> unseen[q] \/ fmt[q].pc \in BlindSpot
      BY <2>1, <2>12 DEF Unnoticed
    <3>2. \A j : j # i => Shaken(j)  BY <2>1, <2>9 DEF Shaken
    <3>3. Disturbed(q)
      BY <2>1, <2>5, <2>7, <2>12, <3>1, <3>2 DEF Disturbed, Apart
    <3>. QED  BY <2>2, <2>3, <3>3, DisturbedSound DEF SettingSound
  <2>13. fmt'[p].pc \notin HasFile /\ fmt'[p].pc \notin HasTemp /\ fmt'[p].pc \notin Reopened
    <3>1. fmt'[p].pc = "next"  BY <2>1, <2>2 DEF NextFile, SettingSound, Idle
    <3>. QED  BY <3>1 DEF HasFile, Snapped, WholeRead, Counted, HasTemp, Copied, Reopened
  <2>14. TempsApart'
    <3>1. \A q \in Proc : fmt'[q].pc \in HasTemp => q # p /\ fmt[q].temp # i
      BY <2>5, <2>7, <2>13 DEF Apart
    <3>. QED  BY <2>1, <2>2, <2>5, <2>6, <2>9, <2>13, <3>1 DEF TempsApart, IsInode
  <2>15. \A q \in Proc : RunSound(q)'  BY <2>11, <2>12
  <2>. QED  BY <2>2, <2>6, <2>10, <2>14, <2>15 DEF IInv, NamesStay
<1>. QED  BY <1>2, <1>3

\* The clock goes on, and tells a change from all before it unless it is coarse.
LEMMA EditTime ==
  ASSUME IInv, Edit
  PROVE  /\ Time /\ (~ setting.coarse => clock < clock')
         /\ SettingSound' /\ Proc' = Proc /\ fmt' = fmt
         /\ \A q \in Proc : fmt[q].pc \in BlindSpot => unseen'[q]
<1>1. /\ SettingSound /\ fmt' = fmt /\ DOMAIN fmt' = Proc /\ clock \in Int
      /\ setting' = [setting EXCEPT !["edits"] = setting.edits - 1]
      /\ clock' = IF setting.coarse THEN clock ELSE clock + 1
      /\ Unnoticed(Proc)
  BY DEF IInv, Edit, SettingSound
<1>2. clock' \in Int /\ clock <= clock' /\ (~ setting.coarse => clock < clock')  BY <1>1
<1>3. DOMAIN unseen' = Proc  BY <1>1 DEF Unnoticed
<1>4. \A q \in Proc : fmt[q].pc \in BlindSpot => unseen'[q]  BY <1>1 DEF Unnoticed
<1>5. SettingSound' /\ Proc' = Proc /\ setting'.coarse = setting.coarse
  <2>. DEFINE n == setting.edits - 1
  <2>1. setting' = [setting EXCEPT !["edits"] = n]  BY <1>1
  <2>. HIDE DEF n
  <2>. QED  BY <1>1, <1>2, <1>3, <2>1, SettingStays
<1>. QED  BY <1>1, <1>2, <1>4, <1>5 DEF Time

\* What is left to show of a change of one inode, and of names that lead to it.
LEMMA EditIInv ==
  ASSUME IInv, Edit, NEW i, NEW file, Touch(i, file),
         Alive => \/ i \in Free
                  \/ \E n \in Path : names[n] = i /\ names[n] # None,
         Alive => InodeFields \subseteq DOMAIN file /\ IsSeq(file.data),
         Alive => DOMAIN names' = Path /\ \A m \in Path : names'[m] \in {names[m], None, i},
         Alive => \A m \in Path : names'[m] = i => (file.kind = "symlink" <=> m \in LinkNames)
  PROVE  IInv'
<1>1. /\ Time /\ (~ setting.coarse => clock < clock')
      /\ SettingSound' /\ Proc' = Proc /\ fmt' = fmt
      /\ \A q \in Proc : fmt[q].pc \in BlindSpot => unseen'[q]
  BY EditTime
<1>2. Alive' => Alive  BY <1>1 DEF Alive
<1>3. SUFFICES ASSUME Alive
               PROVE  NamesSound' /\ TempsApart' /\ \A q \in Proc : RunSound(q)'
  BY <1>1, <1>2 DEF IInv, NamesStay
<1>. DEFINE f == [file EXCEPT !.stamp = clock']
<1>4. NamesStay /\ SettingSound /\ NamesSound /\ TempsApart /\ \A q \in Proc : RunSound(q)
  BY <1>3 DEF IInv
<1>5. IsInode(f, clock') /\ f.stamp = clock' /\ f.kind = file.kind
  <2>1. /\ InodeFields \subseteq DOMAIN f /\ f.data = file.data
        /\ f.stamp = clock' /\ f.kind = file.kind
    BY <1>3 DEF InodeFields
  <2>. QED  BY <1>1, <1>3, <2>1 DEF IsInode, Time
<1>6. inode' = [inode EXCEPT ![i] = f]  BY DEF Touch
<1>. HIDE DEF f
<1>7. i \in Inode /\ \A q \in Proc : fmt[q].pc \in HasTemp => fmt[q].temp # i
  BY <1>3, <1>4, FreeApart DEF Free, NamesSound, TempsApart
<1>8. /\ DOMAIN inode' = Inode /\ inode'[i] = f
      /\ \A j \in Inode : j # i => inode'[j] = inode[j]
  BY <1>4, <1>6, <1>7 DEF NamesSound
<1>9. \A j : IsInode(j, clock') => IsInode(j, clock)'  BY DEF IsInode
<1>10. NamesSound'
  <2>1. ASSUME NEW n \in Path, names'[n] # None
        PROVE  /\ names'[n] \in Inode /\ IsInode(inode'[names'[n]], clock')
               /\ inode'[names'[n]].kind = "symlink" <=> n \in LinkNames
    <3>1. CASE names'[n] = i  BY <1>3, <1>5, <1>7, <1>8, <3>1
    <3>2. CASE names'[n] # i
      <4>1. names'[n] = names[n] /\ names[n] # None  BY <1>3, <2>1, <3>2
      <4>2. names[n] \in Inode /\ inode'[names[n]] = inode[names[n]]
        BY <1>4, <1>8, <3>2, <4>1 DEF NamesSound
      <4>3. /\ IsInode(inode[names[n]], clock)
            /\ inode[names[n]].kind = "symlink" <=> n \in LinkNames
        BY <1>4, <4>1 DEF NamesSound
      <4>. QED  BY <1>1, <4>1, <4>2, <4>3, Later
    <3>. QED  BY <3>1, <3>2
  <2>2. ASSUME NEW n \in Path, names'[n] # None PROVE IsInode(inode[names[n]], clock)'
    BY <1>9, <2>1, <2>2
  <2>. QED  BY <1>3, <1>8, <2>1, <2>2 DEF NamesSound
<1>11. TempsApart'
  <2>1. ASSUME NEW q \in Proc, fmt[q].pc \in HasTemp
        PROVE  /\ fmt[q].temp \in Inode /\ inode'[fmt[q].temp] = inode[fmt[q].temp]
               /\ IsInode(inode[fmt[q].temp], clock)'
               /\ \A n \in Path : names'[n] # fmt[q].temp
    <3>1. /\ fmt[q].temp \in Inode /\ fmt[q].temp # i /\ fmt[q].temp # None
          /\ IsInode(inode[fmt[q].temp], clock)
          /\ \A n \in Path : names[n] # fmt[q].temp
      BY <1>4, <1>7, <2>1, BoundsAssumption DEF TempsApart
    <3>2. inode'[fmt[q].temp] = inode[fmt[q].temp]  BY <1>8, <3>1
    <3>3. IsInode(inode[fmt[q].temp], clock)'
      BY <1>1, <1>9, <3>1, <3>2, Later
    <3>. QED  BY <1>3, <3>1, <3>2, <3>3
  <2>. QED  BY <1>1, <1>4, <2>1 DEF TempsApart
<1>12. ASSUME NEW q \in Proc PROVE RunSound(q)'
  <2>1. Local(q)  BY <1>4 DEF RunSound
  <2>2. ASSUME NEW j \in Inode, IsInode(inode[j], clock) PROVE Shaken(j)
    <3>1. CASE j = i
      <4>1. /\ inode[i].stamp \in Int /\ inode[i].stamp <= clock
            /\ clock \in Int /\ clock' \in Int /\ clock <= clock'
        BY <1>1, <2>2, <3>1 DEF IsInode, Time
      <4>2. inode[i].stamp <= inode'[i].stamp  BY <1>5, <1>8, <4>1
      <4>. QED  BY <1>1, <1>5, <1>8, <3>1, <4>2 DEF Shaken
    <3>2. CASE j # i  BY <1>3, <1>8, <3>2, BoundsAssumption DEF Shaken
    <3>. QED  BY <3>1, <3>2
  <2>3. /\ fmt[q].pc \in HasFile => Shaken(fmt[q].file)
        /\ fmt[q].pc \in Reopened => Shaken(fmt[q].current)
    BY <2>1, <2>2 DEF Local
  <2>4. fmt[q].pc \in HasTemp => inode'[fmt[q].temp] = inode[fmt[q].temp]
    BY <1>4, <1>7, <1>8 DEF TempsApart
  <2>5. Disturbed(q)  BY <1>1, <2>3, <2>4 DEF Disturbed
  <2>. QED  BY <1>1, <1>4, <2>5, DisturbedSound DEF SettingSound
<1>. QED  BY <1>10, <1>11, <1>12

\* What a name that is taken leads to.
LEMMA Taken ==
  ASSUME IInv, Alive, NEW n \in Path, names[n] # None
  PROVE  /\ DOMAIN names = Path /\ n \in DOMAIN names
         /\ InodeFields \subseteq DOMAIN inode[names[n]] /\ IsSeq(inode[names[n]].data)
         /\ \A m \in Path : names[m] = names[n] =>
              (inode[names[n]].kind = "symlink" <=> m \in LinkNames)
BY DEF IInv, NamesSound, IsInode

\* A name of a file is taken.
LEMMA FileTaken ==
  ASSUME NEW n, Kind(n) = "file"
  PROVE  names[n] # None /\ inode[names[n]].kind = "file"
BY SettingsAssumption DEF Kind

\* A new inode gets a name.
LEMMA FreshIInv ==
  ASSUME IInv, Edit, NEW n \in Path, NEW i \in Free, Enter(n, i), NEW file, Touch(i, file),
         InodeFields \subseteq DOMAIN file, IsSeq(file.data),
         file.kind = "symlink" <=> n \in LinkNames
  PROVE  IInv'
<1>1. ASSUME Alive
      PROVE  /\ DOMAIN names' = Path /\ \A m \in Path : names'[m] \in {names[m], None, i}
             /\ \A m \in Path : names'[m] = i => m = n
  <2>1. DOMAIN names = Path  BY <1>1 DEF IInv, NamesSound
  <2>2. \A m \in Path : names[m] # i  BY DEF Free
  <2>. QED  BY <2>1, <2>2 DEF Enter
<1>. QED  BY <1>1, EditIInv

\* An edit of a file, of its names, or of what is not a file.
LEMMA OthersIInv ==
  ASSUME IInv, Others
  PROVE  IInv'
<1>1. ASSUME NEW n \in Path, NEW data \in setting.saves, SaveInPlace(n, data) PROVE IInv'
  <2>. DEFINE i == names[n]
              file == [inode[i] EXCEPT !.data = data]
  <2>1. Edit /\ Touch(i, file) /\ names' = names /\ i # None
    BY <1>1, FileTaken DEF SaveInPlace
  <2>2. IsSeq(data)  BY DEF IInv, SettingSound
  <2>3. Alive => /\ InodeFields \subseteq DOMAIN file /\ IsSeq(file.data)
                 /\ file.kind = inode[i].kind
    BY <2>1, <2>2, Taken DEF InodeFields
  <2>. HIDE DEF file
  <2>. QED  BY <2>1, <2>3, Taken, EditIInv
<1>2. ASSUME NEW n \in Path, NEW data \in setting.saves, SaveAtomically(n, data) PROVE IInv'
  <2>1. PICK i \in Free, mode \in setting.modes :
          Enter(n, i) /\ Touch(i, NewInode("file", data, None, mode, TRUE))
    BY <1>2 DEF SaveAtomically
  <2>. DEFINE file == NewInode("file", data, None, mode, TRUE)
  <2>2. IsSeq(data)  BY DEF IInv, SettingSound
  <2>3. InodeFields \subseteq DOMAIN file /\ IsSeq(file.data) /\ file.kind = "file"
    BY <2>2 DEF InodeFields, NewInode
  <2>4. n \notin LinkNames /\ Edit  BY <1>2 DEF SaveAtomically, IInv, NamesStay
  <2>. HIDE DEF file
  <2>5. Touch(i, file)  BY <2>1 DEF file
  <2>. QED  BY <2>1, <2>3, <2>4, <2>5, FreshIInv
<1>3. ASSUME NEW n \in Path, ChangeMetadata(n) PROVE IInv'
  <2>1. PICK mode \in setting.modes, extra \in setting.extras :
          Touch(names[n], [inode[names[n]] EXCEPT !.mode = mode, !.extra = extra])
    BY <1>3 DEF ChangeMetadata
  <2>. DEFINE i == names[n]
              file == [inode[i] EXCEPT !.mode = mode, !.extra = extra]
  <2>2. Edit /\ Touch(i, file) /\ names' = names /\ i # None
    BY <1>3, <2>1, FileTaken DEF ChangeMetadata
  <2>3. Alive => /\ InodeFields \subseteq DOMAIN file /\ IsSeq(file.data)
                 /\ file.kind = inode[i].kind
    BY <2>2, Taken DEF InodeFields
  <2>. HIDE DEF file
  <2>. QED  BY <2>2, <2>3, Taken, EditIInv
<1>4. ASSUME NEW n \in Path, Remove(n) PROVE IInv'
  <2>. DEFINE i == names[n]
  <2>1. Edit /\ Touch(i, inode[i]) /\ names' = [names EXCEPT ![n] = None] /\ i # None
    BY <1>4 DEF Remove, Enter
  <2>2. Alive => /\ DOMAIN names' = Path /\ \A m \in Path : names'[m] \in {names[m], None}
    BY <2>1, Taken
  <2>3. Alive => \A m \in Path : names'[m] = i => names[m] = i  BY <2>1, <2>2
  <2>. QED  BY <2>1, <2>2, <2>3, Taken, EditIInv
<1>5. ASSUME NEW n \in Path, MakeDirectory(n) PROVE IInv'
  <2>. DEFINE file == NewInode("directory", <<>>, None, "private", TRUE)
  <2>1. PICK i \in Free : Enter(n, i) /\ Touch(i, file)
    BY <1>5 DEF MakeDirectory
  <2>2. InodeFields \subseteq DOMAIN file /\ IsSeq(file.data) /\ file.kind = "directory"
    BY SeqEmpty DEF InodeFields, NewInode
  <2>3. n \notin LinkNames /\ Edit  BY <1>5 DEF MakeDirectory, IInv, NamesStay
  <2>. HIDE DEF file
  <2>. QED  BY <2>1, <2>2, <2>3, FreshIInv
<1>6. ASSUME NEW n \in Path, NEW m \in Path, HardLink(n, m) PROVE IInv'
  <2>. DEFINE i == names[n]
  <2>1. /\ Edit /\ Touch(i, inode[i]) /\ names' = [names EXCEPT ![m] = i] /\ i # None
        /\ inode[i].kind = "file" /\ m \notin LinkNames
    BY <1>6, FileTaken DEF HardLink, Enter, IInv, NamesStay
  <2>2. Alive => /\ DOMAIN names' = Path /\ \A k \in Path : names'[k] \in {names[k], i}
    BY <2>1, Taken
  <2>3. Alive => \A k \in Path : names'[k] = i => names[k] = i \/ k = m  BY <2>1, <2>2
  <2>4. Alive => \A k \in Path : names[k] = i => k \notin LinkNames  BY <2>1, Taken
  <2>. QED  BY <2>1, <2>2, <2>3, <2>4, Taken, EditIInv
<1>7. ASSUME NEW n \in Path, NEW m \in Path, MakeSymlink(n, m) PROVE IInv'
  <2>. DEFINE file == NewInode("symlink", <<>>, m, "private", TRUE)
  <2>1. PICK i \in Free : Enter(n, i) /\ Touch(i, file)
    BY <1>7 DEF MakeSymlink
  <2>2. InodeFields \subseteq DOMAIN file /\ IsSeq(file.data) /\ file.kind = "symlink"
    BY SeqEmpty DEF InodeFields, NewInode
  <2>3. n \in LinkNames /\ Edit  BY <1>7 DEF MakeSymlink
  <2>. HIDE DEF file
  <2>. QED  BY <2>1, <2>2, <2>3, FreshIInv
<1>. QED  BY <1>1, <1>2, <1>3, <1>4, <1>5, <1>6, <1>7 DEF Others

\* Time may pass, and the disk catch up.
LEMMA StillIInv ==
  ASSUME IInv, Time, SettingSound', Proc' = Proc, UNCHANGED <<names, inode, fmt, unseen>>
  PROVE  IInv'
<1>1. SUFFICES ASSUME Alive
               PROVE  NamesSound' /\ TempsApart' /\ \A q \in Proc : RunSound(q)'
  BY DEF IInv, NamesStay, Alive
<1>2. NamesSound /\ TempsApart /\ \A q \in Proc : RunSound(q)
  BY <1>1 DEF IInv
<1>3. \A file : IsInode(file, clock) => IsInode(file, clock)'  BY Later DEF IsInode
<1>4. NamesSound'  BY <1>2, <1>3 DEF NamesSound
<1>5. TempsApart'  BY <1>2, <1>3 DEF TempsApart
<1>6. \A q \in Proc : RunSound(q)'  BY <1>2, SparedSound DEF Spared
<1>. QED  BY <1>4, <1>5, <1>6

\* The clock of coarse timestamps.
LEMMA TickIInv ==
  ASSUME IInv, Tick
  PROVE  IInv'
<1>. DEFINE n == setting.ticks - 1
<1>1. /\ setting' = [setting EXCEPT !["ticks"] = n] /\ clock' = clock + 1
      /\ UNCHANGED <<names, inode, fmt, unseen>>
  BY DEF Tick
<1>2. SettingSound  BY DEF IInv
<1>. HIDE DEF n
<1>3. SettingSound' /\ Proc' = Proc /\ setting'.coarse = setting.coarse
  <2>1. DOMAIN fmt' = Proc /\ DOMAIN unseen' = Proc /\ clock' \in Int
    BY <1>1, <1>2 DEF SettingSound
  <2>. QED  BY <1>1, <1>2, <2>1, SettingStays
<1>4. Time  BY <1>1, <1>2, <1>3 DEF Time, SettingSound
<1>. QED  BY <1>1, <1>3, <1>4, StillIInv

\* Nothing that the invariant is about.
LEMMA StutterIInv ==
  ASSUME IInv, UNCHANGED <<names, inode, clock, setting, fmt, unseen>>
  PROVE  IInv'
<1>1. SettingSound  BY DEF IInv
<1>2. Time /\ SettingSound' /\ Proc' = Proc  BY <1>1 DEF Time, SettingSound, Proc
<1>. QED  BY <1>2, StillIInv

-----------------------------------------------------------------------------
\* Failures and crashes.

\* A call that fails ends the run.
LEMMA FaultIInv ==
  ASSUME IInv, NEW p, Live(p), Fault(p)
  PROVE  IInv'
<1>. DEFINE n == setting.faults - 1
<1>1. /\ setting' = [setting EXCEPT !["faults"] = n] /\ Exits(p, 1)
      /\ UNCHANGED <<names, inode, clock, unseen>>
  BY DEF Fault
<1>2. SettingSound  BY DEF IInv
<1>. HIDE DEF n
<1>3. SettingSound' /\ Proc' = Proc /\ setting'.coarse = setting.coarse
  <2>1. DOMAIN fmt' = Proc /\ DOMAIN unseen' = Proc /\ clock' \in Int
    BY <1>1, <1>2 DEF SettingSound, Exits
  <2>. QED  BY <1>1, <1>2, <2>1, SettingStays
<1>. QED  BY <1>1, <1>3, LeaveIInv

\* Some runs die, and leave their temporaries.
LEMMA DeadSound ==
  ASSUME IInv, NEW ps, Dead(ps), UNCHANGED <<clock, unseen>>
  PROVE  /\ SettingSound' /\ Proc' = Proc /\ setting'.coarse = setting.coarse
         /\ \A q \in Proc : q \notin ps => fmt'[q] = fmt[q]
         /\ \A q \in Proc : q \in ps => RunSound(q)' /\ fmt'[q].pc = "dead"
<1>. DEFINE n == setting.crashes - 1
            l == [Idle EXCEPT !.pc = "dead"]
<1>1. /\ setting' = [setting EXCEPT !["crashes"] = n]
      /\ fmt' = [q \in Proc |-> IF q \in ps THEN l ELSE fmt[q]]
  BY DEF Dead
<1>2. SettingSound  BY DEF IInv
<1>3. /\ LocalFields \subseteq DOMAIN l /\ l.todo = <<>> /\ l.pc = "dead"
      /\ l.src = <<>> /\ l.again = <<>> /\ <<>> \in Seq(Path)
  BY DEF Idle, LocalFields
<1>. HIDE DEF n, l
<1>4. SettingSound' /\ Proc' = Proc /\ setting'.coarse = setting.coarse
  <2>1. DOMAIN fmt' = Proc /\ DOMAIN unseen' = Proc /\ clock' \in Int
    BY <1>1, <1>2 DEF SettingSound
  <2>. QED  BY <1>1, <1>2, <2>1, SettingStays
<1>5. ASSUME NEW q \in Proc, q \in ps PROVE RunSound(q)' /\ fmt'[q].pc = "dead"
  <2>1. fmt'[q] = l  BY <1>1, <1>5
  <2>. QED  BY <1>3, <2>1, IdleSound
<1>. QED  BY <1>1, <1>4, <1>5

\* A run is killed.
LEMMA KillIInv ==
  ASSUME IInv, NEW p, Live(p), Kill(p)
  PROVE  IInv'
<1>1. Dead({p}) /\ UNCHANGED <<clock, unseen>> /\ UNCHANGED <<names, inode>> /\ p \in Proc
  BY DEF Kill, Live
<1>2. /\ SettingSound' /\ Proc' = Proc /\ setting'.coarse = setting.coarse
      /\ \A q \in Proc : q # p => fmt'[q] = fmt[q]
      /\ RunSound(p)' /\ fmt'[p].pc = "dead"
  BY <1>1, DeadSound
<1>3. fmt'[p].pc \notin HasFile /\ fmt'[p].pc \notin HasTemp /\ fmt'[p].pc \notin Reopened
  BY <1>2 DEF HasFile, Snapped, WholeRead, Counted, HasTemp, Copied, Reopened
<1>4. DOMAIN fmt' = Proc  BY <1>2 DEF SettingSound
<1>. QED  BY <1>1, <1>2, <1>3, <1>4, PrivateIInv

\* A power loss ends them all.
LEMMA PowerLossIInv ==
  ASSUME IInv, PowerLoss
  PROVE  IInv'
<1>1. Dead(Proc) /\ UNCHANGED <<clock, unseen>>  BY DEF PowerLoss
<1>2. SettingSound' /\ Proc' = Proc /\ \A q \in Proc : fmt'[q].pc = "dead"
  BY <1>1, DeadSound
<1>3. ~ Alive'  BY <1>2 DEF Alive
<1>. QED  BY <1>2, <1>3 DEF IInv, NamesStay

-----------------------------------------------------------------------------
\* The whole.

\* At the start every name has an inode of its own, and nothing is open.
LEMMA InitIInv ==
  ASSUME NamesStay, Init
  PROVE  IInv
<1>1. SettingSound
  <2>1. /\ setting \in Settings /\ clock = 0
        /\ DOMAIN fmt = Proc /\ DOMAIN unseen = Proc
    BY DEF Init
  <2>2. \A data \in setting.saves : IsSeq(data)
    BY <2>1, SettingsAssumption DEF IsSeq
  <2>. QED  BY <2>1, <2>2, BoundsAssumption, SettingsAssumption DEF SettingSound, Proc
<1>2. NamesSound
  <2>1. PICK start \in [Path \ DOMAIN StartLinks -> setting.initial],
             at \in [Path -> Inode \cup {None}] :
          /\ \A n \in Path : at[n] = None <=> n \notin DOMAIN StartLinks /\ start[n] = None
          /\ \A n, m \in Path : at[n] = at[m] /\ at[n] # None => n = m
          /\ names = at
          /\ inode = [i \in Inode |->
               IF \A n \in Path : at[n] # i THEN None
               ELSE LET n == CHOOSE n \in Path : at[n] = i IN
                    IF n \in DOMAIN StartLinks
                    THEN NewInode("symlink", <<>>, StartLinks[n], "private", TRUE)
                    ELSE NewInode("file", start[n], None, "private", TRUE)]
    BY DEF Init
  <2>2. DOMAIN names = Path /\ DOMAIN inode = Inode  BY <2>1
  <2>3. ASSUME NEW n \in Path, names[n] # None
        PROVE  /\ names[n] \in Inode /\ IsInode(inode[names[n]], clock)
               /\ inode[names[n]].kind = "symlink" <=> n \in LinkNames
    <3>. DEFINE link == NewInode("symlink", <<>>, StartLinks[n], "private", TRUE)
                file == NewInode("file", start[n], None, "private", TRUE)
    <3>1. names[n] \in Inode /\ at[n] = names[n]  BY <2>1, <2>3
    <3>2. (CHOOSE m \in Path : at[m] = names[n]) = n  BY <2>1, <2>3, <3>1
    <3>3. inode[names[n]] = IF n \in DOMAIN StartLinks THEN link ELSE file
      <4>. DEFINE of(m) == IF m \in DOMAIN StartLinks
                           THEN NewInode("symlink", <<>>, StartLinks[m], "private", TRUE)
                           ELSE NewInode("file", start[m], None, "private", TRUE)
      <4>1. inode = [i \in Inode |-> IF \A m \in Path : at[m] # i THEN None
                                     ELSE of(CHOOSE m \in Path : at[m] = i)]
        BY <2>1
      <4>. HIDE DEF of
      <4>2. inode[names[n]] = of(CHOOSE m \in Path : at[m] = names[n])  BY <3>1, <4>1
      <4>3. inode[names[n]] = of(n)  BY <3>2, <4>2
      <4>. QED  BY <4>3 DEF of
    <3>4. setting \in Settings /\ clock = 0  BY DEF Init
    <3>5. IsInode(link, clock) /\ link.kind = "symlink"
      BY <3>4, SeqEmpty DEF NewInode, IsInode, InodeFields
    <3>6. n \notin DOMAIN StartLinks => IsInode(file, clock) /\ file.kind = "file"
      <4>1. SUFFICES ASSUME n \notin DOMAIN StartLinks
                     PROVE  IsInode(file, clock) /\ file.kind = "file"
        OBVIOUS
      <4>2. start[n] \in setting.initial \ {None}  BY <2>1, <2>3, <4>1
      <4>3. IsSeq(start[n])  BY <3>4, <4>2, SettingsAssumption DEF IsSeq
      <4>. QED  BY <3>4, <4>3 DEF NewInode, IsInode, InodeFields
    <3>. QED  BY <3>1, <3>3, <3>5, <3>6 DEF NamesStay
  <2>. QED  BY <2>2, <2>3 DEF NamesSound
<1>3. ASSUME NEW p \in Proc
      PROVE  RunSound(p) /\ fmt[p].pc = "next"
  <2>. DEFINE l == [Idle EXCEPT !.todo = setting.args[p]]
  <2>1. fmt[p] = l /\ setting \in Settings  BY DEF Init
  <2>2. /\ LocalFields \subseteq DOMAIN l /\ l.todo = setting.args[p] /\ l.pc = "next"
        /\ l.src = <<>> /\ l.again = <<>>
    BY DEF Idle, LocalFields
  <2>3. setting.args[p] \in Seq(Path)  BY <1>1 DEF SettingSound
  <2>. HIDE DEF l
  <2>. QED
    BY <2>1, <2>2, <2>3 DEF RunSound, Local, Working, Exact, Coarse, HasFile, Snapped, WholeRead,
       Counted, HasTemp, Copied, Reopened
<1>4. TempsApart
  BY <1>3 DEF TempsApart, HasTemp, Copied, Reopened
<1>. QED  BY <1>1, <1>2, <1>3, <1>4 DEF IInv

\* Each step of a run is of a run that is alive.
LEMMA StepIInv ==
  ASSUME IInv, NEW p \in Proc, Step(p)
  PROVE  IInv'
<1>1. CASE Resolve(p)
  <2>1. Live(p)  BY <1>1 DEF Live, Resolve, At
  <2>. QED  BY <1>1, <2>1, ResolveIInv
<1>2. CASE StatPath(p) \/ Open(p) \/ TakeSnapshot(p)
  <2>1. Live(p)  BY <1>2 DEF Live, StatPath, Open, TakeSnapshot, At
  <2>. QED  BY <1>2, <2>1, StatPathIInv, OpenIInv, TakeSnapshotIInv
<1>3. CASE ReadChunk(p) \/ Decide(p) \/ EnsureSingleLink(p)
  <2>1. Live(p)  BY <1>3 DEF Live, ReadChunk, Decide, EnsureSingleLink, At
  <2>. QED  BY <1>3, <2>1, ReadChunkIInv, DecideIInv, EnsureSingleLinkIInv
<1>4. CASE CreateTemporary(p) \/ WriteChunk(p) \/ CopyMetadata(p) \/ Sync(p)
  <2>1. Live(p)  BY <1>4 DEF Live, CreateTemporary, WriteChunk, CopyMetadata, Sync, At
  <2>. QED  BY <1>4, <2>1, CreateTemporaryIInv, WriteChunkIInv, CopyMetadataIInv, SyncIInv
<1>5. CASE Reopen(p) \/ Restat(p) \/ Relink(p) \/ RereadChunk(p) \/ CompareText(p)
  <2>1. Live(p)  BY <1>5 DEF Live, Reopen, Restat, Relink, RereadChunk, CompareText, At
  <2>. QED  BY <1>5, <2>1, ReopenIInv, RestatIInv, RelinkIInv, RereadChunkIInv, CompareTextIInv
<1>6. CASE RestatAgain(p) \/ RelinkAgain(p) \/ Rename(p) \/ Finish(p)
  <2>1. Live(p)  BY <1>6 DEF Live, RestatAgain, RelinkAgain, Rename, Finish, At
  <2>. QED  BY <1>6, <2>1, RestatAgainIInv, RelinkAgainIInv, RenameIInv, FinishIInv
<1>. QED  BY <1>1, <1>2, <1>3, <1>4, <1>5, <1>6 DEF Step

\* Every step of the system keeps the invariant.
LEMMA NextIInv ==
  ASSUME IInv, [Next]_vars
  PROVE  IInv'
<1>1. ASSUME NEW p \in Proc, Fault(p) PROVE IInv'
  <2>1. Live(p)  BY <1>1 DEF Live, Fault
  <2>. QED  BY <1>1, <2>1, FaultIInv
<1>2. ASSUME NEW p \in Proc, Kill(p) PROVE IInv'
  <2>1. Live(p)  BY <1>2 DEF Live, Kill
  <2>. QED  BY <1>2, <2>1, KillIInv
<1>3. CASE Commit  BY <1>3, StutterIInv DEF Commit
<1>4. CASE Terminated \/ UNCHANGED vars  BY <1>4, StutterIInv DEF Terminated, vars, fs
<1>. QED
  BY <1>1, <1>2, <1>3, <1>4, StepIInv, PowerLossIInv, OthersIInv, TickIInv DEF Next

\* The invariant holds of every run of any formatters beside any other programs.
THEOREM FormatterInductive ==
  ASSUME NamesStay
  PROVE  Spec => []IInv
<1>1. Init => IInv  BY InitIInv
<1>2. IInv /\ [Next]_vars => IInv'  BY NextIInv
<1>. QED  BY <1>1, <1>2, PTL DEF Spec

\* What a run that is about to rename knows, unless something changed unseen.
LEMMA AboutToRename ==
  ASSUME IInv, NEW p \in Proc, At(p, "rename"), ~ unseen[p]
  PROVE  /\ Found(p) = fmt[p].file
         /\ inode[Found(p)].data = fmt[p].src
         /\ SingleLink(Found(p))
         /\ ~ setting.coarse => Kept(p)
<1>1. fmt[p].pc = "rename" /\ Live(p) /\ Working(p)  BY DEF At, Live, Working
<1>2. Found(p) = names[fmt[p].target] /\ fmt[p].target \in Path  BY <1>1, Known
<1>. USE DEF HasFile, Snapped, WholeRead, Counted, HasTemp, Copied, Reopened
<1>3. CASE setting.coarse
  <2>1. /\ Named(fmt[p].target, fmt[p].current) /\ fmt[p].current = fmt[p].file
        /\ \A n \in Path : Named(n, fmt[p].current) => n = fmt[p].target
        /\ fmt[p].src = inode[fmt[p].current].data
    BY <1>1, <1>3, Known DEF Coarse
  <2>. QED  BY <1>2, <1>3, <2>1, OneLink DEF Named
<1>4. CASE ~ setting.coarse
  <2>1. /\ Kept(p) /\ fmt[p].current = fmt[p].file
        /\ Named(fmt[p].target, fmt[p].file)
    BY <1>1, <1>4, Known DEF Exact
  <2>2. /\ fmt[p].src = inode[fmt[p].file].data
        /\ \A n \in Path : Named(n, fmt[p].file) => n = fmt[p].target
    BY <1>1, <2>1 DEF Kept
  <2>. QED  BY <1>2, <2>1, <2>2, OneLink DEF Named
<1>. QED  BY <1>3, <1>4

\* A rename replaces the very file that was read, with the text that was formatted and
\* no other name, unless something changed after the last look at it.
THEOREM ReplacesRead ==
  ASSUME NamesStay
  PROVE  Spec => ReplacesWhatItRead
<1>. DEFINE Safe == \A p \in Proc : Replaces(p) /\ ~ unseen[p] =>
               /\ Found(p) = fmt[p].file
               /\ inode[Found(p)].data = fmt[p].src
               /\ SingleLink(Found(p))
<1>1. IInv => Safe  BY AboutToRename DEF Replaces
<1>. QED  BY <1>1, FormatterInductive, PTL DEF ReplacesWhatItRead

\* The replacement has the metadata of the file it replaces, where timestamps tell
\* changes apart.
THEOREM MetadataIsKept ==
  ASSUME NamesStay
  PROVE  Spec => MetadataKept
<1>. DEFINE Safe == ~ setting.coarse =>
              \A p \in Proc : Replaces(p) /\ ~ unseen[p] =>
                /\ Temp(p).mode = inode[Found(p)].mode
                /\ Temp(p).extra = inode[Found(p)].extra
<1>1. IInv => Safe
  <2>1. SUFFICES ASSUME IInv, ~ setting.coarse, NEW p \in Proc, At(p, "rename"), ~ unseen[p]
                 PROVE  /\ Temp(p).mode = inode[Found(p)].mode
                        /\ Temp(p).extra = inode[Found(p)].extra
    BY DEF Replaces
  <2>2. Found(p) = fmt[p].file /\ Kept(p)  BY <2>1, AboutToRename
  <2>. QED  BY <2>1, <2>2 DEF Kept, At, Temp, Copied, Reopened
<1>. QED  BY <1>1, FormatterInductive, PTL DEF MetadataKept
-----------------------------------------------------------------------------
\* Only whole texts.

\* A file that may be found under a name: all of it is on the disk.
Whole(file) ==
  /\ InodeFields \subseteq DOMAIN file /\ file.synced
  /\ file.kind = "file" => file.data \in Texts

StoreSound ==
  /\ DOMAIN names = Path /\ DOMAIN disk = Path /\ DOMAIN inode = Inode
  /\ \A n \in Path :
       /\ names[n] # None => names[n] \in Inode /\ Whole(inode[names[n]])
       /\ disk[n] # None => disk[n] \in Inode /\ Whole(inode[disk[n]])

\* The second look: the path has been found to lead to the file with its stamp.
Verified == {"relink", "reread", "restat again", "relink again", "rename"}

Synced == {"reopen"} \cup Reopened

\* Timestamps tell any two changes by others apart, or there are none.
TimesTell == ~ setting.coarse \/ Undisturbed

\* A torn read never becomes more than a temporary: whoever gets past the stamps
\* has read a text, and writes all of its canonical form.
Untorn(p) ==
  /\ fmt[p].pc \in HasFile /\ inode[fmt[p].file].kind = "file" =>
       inode[fmt[p].file].data \in Texts
  /\ fmt[p].pc \in Snapped => inode[fmt[p].file].kind = "file"
  /\ Undisturbed /\ fmt[p].pc = "read" => Begins(fmt[p].src, inode[fmt[p].file].data)
  /\ Undisturbed /\ fmt[p].pc \in WholeRead => fmt[p].src = inode[fmt[p].file].data
  /\ fmt[p].pc \in WholeRead => Format(fmt[p].src) # Invalid
  /\ fmt[p].pc \in Verified => fmt[p].src \in Texts
  /\ fmt[p].pc \in HasTemp =>
       /\ \A n \in Path : disk[n] # fmt[p].temp
       /\ fmt[p].src \in Texts => Begins(inode[fmt[p].temp].data, Format(fmt[p].src))
  /\ fmt[p].pc \in Copied /\ fmt[p].src \in Texts =>
       inode[fmt[p].temp].data = Format(fmt[p].src)
  /\ fmt[p].pc \in Synced => inode[fmt[p].temp].synced

\* What is saved stays the same, and formatting it gives a canonical text.
TextsSound ==
  /\ {"initial", "saves", "coarse", "edits"} \subseteq DOMAIN setting
  /\ None \notin setting.saves \cup Texts
  /\ Undisturbed => ~ (setting.edits > 0)
  /\ \A data \in Texts : Format(data) # Invalid =>
       /\ Format(data) \in Texts /\ IsSeq(Format(data))
       /\ Format(Format(data)) = Format(data)

NInv ==
  TextsSound /\ (TimesTell => StoreSound /\ \A p \in Proc : Untorn(p))

\* What is saved, and how it is formatted, does not change.
LEMMA TextsStay ==
  ASSUME TextsSound, NEW what, what \in {"edits", "ticks", "crashes", "faults"},
         what = "edits" => setting.edits > 0,
         NEW n, setting' = [setting EXCEPT ![what] = n] \/ UNCHANGED setting
  PROVE  /\ Texts' = Texts /\ TextsSound'
         /\ TimesTell' <=> TimesTell
         /\ Undisturbed' <=> Undisturbed
<1>1. /\ setting'.initial = setting.initial /\ setting'.saves = setting.saves
      /\ setting'.coarse = setting.coarse
      /\ {"initial", "saves", "coarse", "edits"} \subseteq DOMAIN setting'
      /\ what # "edits" => setting'.edits = setting.edits
  BY DEF TextsSound
<1>2. Saved' = Saved  BY <1>1 DEF Saved
<1>3. Texts' = Texts  BY <1>2 DEF Texts
<1>4. \A data : IsSeq(data) => IsSeq(data)'  BY DEF IsSeq
<1>5. (Undisturbed' <=> Undisturbed) /\ (TimesTell' <=> TimesTell)
  BY <1>1 DEF Undisturbed, TimesTell
<1>6. Undisturbed => ~ (setting'.edits > 0)
  <2>1. Undisturbed => ~ (setting.edits > 0)  BY DEF TextsSound
  <2>. QED  BY <1>1, <2>1
<1>7. (\A data \in Texts : Format(data) # Invalid =>
         /\ Format(data) \in Texts /\ IsSeq(Format(data))
         /\ Format(Format(data)) = Format(data))'
  <2>1. \A data \in Texts : Format(data) # Invalid =>
          /\ Format(data) \in Texts /\ IsSeq(Format(data))
          /\ Format(Format(data)) = Format(data)
    BY DEF TextsSound
  <2>. QED  BY <1>3, <1>4, <2>1
<1>8. (None \notin Texts)'  BY <1>3 DEF TextsSound
<1>. QED  BY <1>1, <1>3, <1>5, <1>6, <1>7, <1>8 DEF TextsSound

\* The formatting of a text is a text, and canonical.
LEMMA FormatsAText ==
  ASSUME TextsSound, NEW data \in Texts, Format(data) # Invalid
  PROVE  /\ Format(data) \in Texts /\ IsSeq(Format(data))
         /\ Format(Format(data)) = Format(data)
BY DEF TextsSound

\* What others save is a text.
LEMMA SavedIsText ==
  ASSUME TextsSound, NEW data \in setting.saves
  PROVE  data \in Texts
BY DEF TextsSound, Texts, Saved

\* A run that is not disturbed in what it has in hand.
LEMMA StillUntorn ==
  ASSUME NEW q, Untorn(q), fmt'[q] = fmt[q], Texts' = Texts, Undisturbed' <=> Undisturbed,
         fmt[q].pc \in HasFile =>
           \/ inode'[fmt[q].file] = inode[fmt[q].file]
           \/ /\ ~ Undisturbed
              /\ inode'[fmt[q].file].kind = inode[fmt[q].file].kind
              /\ inode'[fmt[q].file].kind = "file" => inode'[fmt[q].file].data \in Texts,
         fmt[q].pc \in HasTemp =>
           /\ inode'[fmt[q].temp] = inode[fmt[q].temp]
           /\ \A n \in Path : disk'[n] # fmt[q].temp
  PROVE  Untorn(q)'
<1>1. /\ fmt[q].pc = "read" => fmt[q].pc \in HasFile
      /\ fmt[q].pc \in WholeRead => fmt[q].pc \in HasFile
      /\ fmt[q].pc \in Snapped => fmt[q].pc \in HasFile
      /\ fmt[q].pc \in Copied => fmt[q].pc \in HasTemp
      /\ fmt[q].pc \in Synced => fmt[q].pc \in HasTemp
  BY DEF HasFile, Snapped, HasTemp, Copied, Synced
<1>2. \A data, text : Begins(data, text) => Begins(data, text)'  BY DEF Begins
<1>3. /\ (fmt[q].pc \in HasFile /\ inode[fmt[q].file].kind = "file" =>
           inode[fmt[q].file].data \in Texts)'
      /\ (fmt[q].pc \in Snapped => inode[fmt[q].file].kind = "file")'
      /\ (Undisturbed /\ fmt[q].pc \in WholeRead => fmt[q].src = inode[fmt[q].file].data)'
      /\ (fmt[q].pc \in WholeRead => Format(fmt[q].src) # Invalid)'
      /\ (fmt[q].pc \in Verified => fmt[q].src \in Texts)'
  BY <1>1 DEF Untorn
<1>4. (fmt[q].pc \in HasTemp =>
       /\ \A n \in Path : disk[n] # fmt[q].temp
       /\ fmt[q].src \in Texts => Begins(inode[fmt[q].temp].data, Format(fmt[q].src)))'
  BY <1>2 DEF Untorn
<1>5. /\ (fmt[q].pc \in Copied /\ fmt[q].src \in Texts =>
            inode[fmt[q].temp].data = Format(fmt[q].src))'
      /\ (fmt[q].pc \in Synced => inode[fmt[q].temp].synced)'
  BY <1>1 DEF Untorn
<1>6. (Undisturbed /\ fmt[q].pc = "read" => Begins(fmt[q].src, inode[fmt[q].file].data))'
  BY <1>1, <1>2 DEF Untorn
<1>. QED  BY <1>3, <1>4, <1>5, <1>6 DEF Untorn

\* A run that is between two files, or over, holds nothing.
LEMMA IdleUntorn ==
  ASSUME NEW p, fmt'[p].pc \in {"next", "exited", "dead"}
  PROVE  Untorn(p)'
<1>1. /\ fmt'[p].pc # "read" /\ fmt'[p].pc \notin HasFile /\ fmt'[p].pc \notin Snapped /\ fmt'[p].pc \notin WholeRead
      /\ fmt'[p].pc \notin HasTemp /\ fmt'[p].pc \notin Copied
      /\ fmt'[p].pc \notin Verified /\ fmt'[p].pc \notin Synced
  BY DEF HasFile, Snapped, WholeRead, Counted, HasTemp, Copied, Reopened, Verified, Synced
<1>. QED  BY <1>1 DEF Untorn

\* What is left to show of a step of one run that changes no file and no name.
LEMMA PrivateNInv ==
  ASSUME NInv, NEW p, UNCHANGED <<names, disk, inode>>,
         TextsSound', Texts' = Texts, Proc' = Proc,
         TimesTell' <=> TimesTell, Undisturbed' <=> Undisturbed,
         \A q \in Proc : q # p => fmt'[q] = fmt[q],
         TimesTell => Untorn(p)'
  PROVE  NInv'
<1>1. SUFFICES ASSUME TimesTell
               PROVE  StoreSound' /\ \A q \in Proc : Untorn(q)'
  BY DEF NInv
<1>2. StoreSound /\ \A q \in Proc : Untorn(q)  BY <1>1 DEF NInv
<1>3. StoreSound'  BY <1>2 DEF StoreSound, Whole
<1>4. ASSUME NEW q \in Proc, q # p PROVE Untorn(q)'
  <2>1. fmt[q].pc \in HasTemp => \A n \in Path : disk'[n] # fmt[q].temp
    BY <1>2 DEF Untorn
  <2>. QED  BY <1>2, <1>4, <2>1, StillUntorn
<1>. QED  BY <1>1, <1>3, <1>4

\* The end of a run, or of a file.
LEMMA LeaveNInv ==
  ASSUME NInv, IInv, NEW p, Live(p), UNCHANGED fs,
         \/ \E code : Exits(p, code)
         \/ \E changed : NextFile(p, changed)
  PROVE  NInv'
<1>1. /\ UNCHANGED <<names, disk, inode>> /\ setting' = setting /\ p \in Proc /\ DOMAIN fmt = Proc
  BY Known DEF fs
<1>2. /\ Texts' = Texts /\ TextsSound'
      /\ (TimesTell' <=> TimesTell) /\ (Undisturbed' <=> Undisturbed)
  BY <1>1, TextsStay DEF NInv
<1>3. fmt'[p].pc \in {"next", "exited"} /\ \A q \in Proc : q # p => fmt'[q] = fmt[q]
  <2>1. CASE \E code : Exits(p, code)
    <3>1. PICK code : Exits(p, code)  BY <2>1
    <3>. DEFINE l == [Idle EXCEPT !.pc = "exited", !.todo = fmt[p].todo, !.exit = code]
    <3>2. fmt' = [fmt EXCEPT ![p] = l]  BY <3>1 DEF Exits
    <3>3. l.pc = "exited"  BY DEF Idle
    <3>. HIDE DEF l
    <3>. QED  BY <1>1, <3>2, <3>3
  <2>2. CASE \E changed : NextFile(p, changed)
    <3>1. PICK changed : NextFile(p, changed)  BY <2>2
    <3>. DEFINE l == [Idle EXCEPT !.todo = Tail(fmt[p].todo), !.changed = fmt[p].changed \/ changed]
    <3>2. fmt' = [fmt EXCEPT ![p] = l]  BY <3>1 DEF NextFile
    <3>3. l.pc = "next"  BY DEF Idle
    <3>. HIDE DEF l
    <3>. QED  BY <1>1, <3>2, <3>3
  <2>. QED  BY <2>1, <2>2
<1>4. Untorn(p)'  BY <1>3, IdleUntorn
<1>. QED  BY <1>1, <1>2, <1>3, <1>4, PrivateNInv DEF Proc

\* What is left to show of a private step that goes on.
LEMMA GoesOnNInv ==
  ASSUME NInv, IInv, NEW p, Live(p), UNCHANGED fs,
         \A q \in Proc : q # p => fmt'[q] = fmt[q],
         TimesTell => Untorn(p)'
  PROVE  NInv' /\ Texts' = Texts
<1>1. UNCHANGED <<names, disk, inode>> /\ setting' = setting  BY DEF fs
<1>2. /\ Texts' = Texts /\ TextsSound'
      /\ (TimesTell' <=> TimesTell) /\ (Undisturbed' <=> Undisturbed)
  BY <1>1, TextsStay DEF NInv
<1>. QED  BY <1>1, <1>2, PrivateNInv DEF Proc

\* What is left to show of a run that keeps its files and what it has read.
LEMMA KeepsNInv ==
  ASSUME NInv, IInv, NEW p, Live(p), UNCHANGED fs,
         \A q \in Proc : q # p => fmt'[q] = fmt[q],
         fmt'[p].file = fmt[p].file, fmt'[p].temp = fmt[p].temp, fmt'[p].src = fmt[p].src,
         fmt'[p].pc \in HasFile => fmt[p].pc \in HasFile,
         fmt'[p].pc \in Snapped => fmt[p].pc \in Snapped,
         fmt'[p].pc # "read",
         fmt'[p].pc \in WholeRead =>
           \/ fmt[p].pc \in WholeRead
           \/ /\ Format(fmt[p].src) # Invalid
              /\ Undisturbed => fmt[p].src = inode[fmt[p].file].data,
         TimesTell /\ fmt'[p].pc \in Verified =>
           fmt[p].pc \in Verified \/ fmt[p].src \in Texts,
         fmt'[p].pc \in HasTemp => fmt[p].pc \in HasTemp,
         fmt'[p].pc \in Copied => fmt[p].pc \in Copied,
         fmt'[p].pc \in Synced => fmt[p].pc \in Synced
  PROVE  NInv'
<1>1. UNCHANGED <<names, disk, inode>> /\ setting' = setting /\ p \in Proc  BY DEF fs, Live
<1>2. /\ Texts' = Texts
      /\ (TimesTell' <=> TimesTell) /\ (Undisturbed' <=> Undisturbed)
  BY <1>1, TextsStay DEF NInv
<1>3. \A data, text : Begins(data, text) => Begins(data, text)'  BY DEF Begins
<1>4. ASSUME TimesTell PROVE Untorn(p)'
  <2>1. Untorn(p)  BY <1>1, <1>4 DEF NInv
  <2>2. /\ (fmt[p].pc \in HasFile /\ inode[fmt[p].file].kind = "file" =>
             inode[fmt[p].file].data \in Texts)'
        /\ (fmt[p].pc \in Snapped => inode[fmt[p].file].kind = "file")'
        /\ (Undisturbed /\ fmt[p].pc = "read" => Begins(fmt[p].src, inode[fmt[p].file].data))'
        /\ (Undisturbed /\ fmt[p].pc \in WholeRead => fmt[p].src = inode[fmt[p].file].data)'
        /\ (fmt[p].pc \in WholeRead => Format(fmt[p].src) # Invalid)'
        /\ (fmt[p].pc \in Verified => fmt[p].src \in Texts)'
    BY <1>1, <1>2, <1>4, <2>1 DEF Untorn
  <2>3. (fmt[p].pc \in HasTemp =>
         /\ \A n \in Path : disk[n] # fmt[p].temp
         /\ fmt[p].src \in Texts => Begins(inode[fmt[p].temp].data, Format(fmt[p].src)))'
    BY <1>1, <1>2, <1>3, <2>1 DEF Untorn
  <2>4. /\ (fmt[p].pc \in Copied /\ fmt[p].src \in Texts =>
              inode[fmt[p].temp].data = Format(fmt[p].src))'
        /\ (fmt[p].pc \in Synced => inode[fmt[p].temp].synced)'
    BY <1>1, <1>2, <2>1 DEF Untorn
  <2>. QED  BY <2>2, <2>3, <2>4 DEF Untorn
<1>. QED  BY <1>4, GoesOnNInv

\* What is left to show of a step that only goes on.
LEMMA GoesNInv ==
  ASSUME NInv, IInv, NEW p, Live(p), NEW pc, Goes(p, pc), Private,
         pc \in HasFile => fmt[p].pc \in HasFile,
         pc \in Snapped => fmt[p].pc \in Snapped,
         pc # "read",
         pc \in WholeRead =>
           \/ fmt[p].pc \in WholeRead
           \/ /\ Format(fmt[p].src) # Invalid
              /\ Undisturbed => fmt[p].src = inode[fmt[p].file].data,
         TimesTell /\ pc \in Verified => fmt[p].pc \in Verified \/ fmt[p].src \in Texts,
         pc \in HasTemp => fmt[p].pc \in HasTemp,
         pc \in Copied => fmt[p].pc \in Copied,
         pc \in Synced => fmt[p].pc \in Synced
  PROVE  NInv'
<1>1. /\ fmt' = [fmt EXCEPT ![p] = fmt'[p]] /\ fmt'[p].pc = pc
      /\ fmt'[p].file = fmt[p].file /\ fmt'[p].src = fmt[p].src /\ fmt'[p].temp = fmt[p].temp
  BY GoneOn
<1>2. \A q \in Proc : q # p => fmt'[q] = fmt[q]  BY <1>1, Known
<1>3. UNCHANGED fs  BY DEF Private
<1>. QED  BY <1>1, <1>2, <1>3, KeepsNInv

\* A step that fails.
LEMMA FailNInv ==
  ASSUME NInv, IInv, NEW p, Live(p), Fail(p)
  PROVE  NInv'
BY LeaveNInv DEF Fail, Private

-----------------------------------------------------------------------------
\* The steps that change no file.

\* Up to the snapshot: what is open then, if it is a file, is a text.
LEMMA FirstLookNInv ==
  ASSUME NInv, IInv, NEW p, Live(p), Resolve(p) \/ StatPath(p) \/ Open(p) \/ TakeSnapshot(p)
  PROVE  NInv'
<1>. USE DEF HasFile, Snapped, WholeRead, Counted, HasTemp, Copied, Reopened, Verified, Synced
<1>1. CASE Fail(p)  BY <1>1, FailNInv
<1>2. CASE Resolve(p) /\ ~ Fail(p)
  <2>. DEFINE to == Follow(Head(fmt[p].todo))
              l == [fmt[p] EXCEPT !.pc = "stat", !.target = to]
  <2>1. fmt' = [fmt EXCEPT ![p] = l] /\ UNCHANGED fs  BY <1>2 DEF Resolve, fs
  <2>2. l.pc = "stat"  BY Known DEF LocalFields
  <2>. HIDE DEF l
  <2>3. fmt'[p].pc = "stat" /\ \A q \in Proc : q # p => fmt'[q] = fmt[q]
    BY <2>1, <2>2, Known
  <2>4. Untorn(p)'  BY <2>3 DEF Untorn
  <2>. QED  BY <2>1, <2>3, <2>4, GoesOnNInv
<1>3. CASE StatPath(p) /\ ~ Fail(p)
  <2>1. Goes(p, "open") /\ Private  BY <1>3 DEF StatPath
  <2>. QED  BY <2>1, GoesNInv
<1>4. CASE Open(p) /\ ~ Fail(p)
  <2>. DEFINE found == Found(p)
              l == [fmt[p] EXCEPT !.pc = "snapshot", !.file = found]
  <2>1. fmt[p].pc = "open" /\ found # None /\ fmt' = [fmt EXCEPT ![p] = l] /\ UNCHANGED fs
    BY <1>4 DEF Open, At, Private
  <2>2. found = names[fmt[p].target] /\ fmt[p].target \in Path  BY <2>1, Known DEF Working
  <2>. HIDE DEF found
  <2>3. l.pc = "snapshot" /\ l.file = found  BY Known DEF LocalFields
  <2>. HIDE DEF l
  <2>4. fmt'[p] = l /\ \A q \in Proc : q # p => fmt'[q] = fmt[q]  BY <2>1, Known
  <2>5. Texts' = Texts /\ inode' = inode /\ (Undisturbed' <=> Undisturbed)
    BY <2>1, TextsStay DEF NInv, fs
  <2>6. ASSUME TimesTell PROVE Untorn(p)'
    <3>1. inode[found].kind = "file" => inode[found].data \in Texts
      BY <2>1, <2>2, <2>6 DEF NInv, StoreSound, Whole
    <3>. QED  BY <2>3, <2>4, <2>5, <3>1 DEF Untorn
  <2>. QED  BY <2>1, <2>4, <2>6, GoesOnNInv
<1>5. CASE TakeSnapshot(p) /\ ~ Fail(p)
  <2>. DEFINE s == Stat(fmt[p].file)
              l == [fmt[p] EXCEPT !.pc = "read", !.snapshot = s]
  <2>1. fmt[p].pc = "snapshot" /\ fmt' = [fmt EXCEPT ![p] = l] /\ UNCHANGED fs /\ s.kind = "file"
    BY <1>5 DEF TakeSnapshot, At, Private
  <2>2. inode[fmt[p].file].kind = "file"  BY <2>1 DEF Stat
  <2>. HIDE DEF s
  <2>3. l.pc = "read" /\ l.file = fmt[p].file /\ l.src = fmt[p].src  BY Known DEF LocalFields
  <2>. HIDE DEF l
  <2>4. fmt'[p] = l /\ \A q \in Proc : q # p => fmt'[q] = fmt[q]  BY <2>1, Known
  <2>5. Texts' = Texts /\ inode' = inode /\ (Undisturbed' <=> Undisturbed)
    BY <2>1, TextsStay DEF NInv, fs
  <2>6. ASSUME TimesTell PROVE Untorn(p)'
    <3>1. inode[fmt[p].file].data \in Texts
      BY <2>1, <2>2, <2>6, Known DEF NInv, Untorn
    <3>2. Local(p)  BY Known
    <3>3. fmt[p].src = <<>> /\ IsSeq(inode[fmt[p].file].data)  BY <2>1, <3>2 DEF Local, IsInode
    <3>4. Begins(fmt[p].src, inode[fmt[p].file].data)'
      BY <2>3, <2>4, <2>5, <3>3, BeginsNone DEF Begins
    <3>. QED  BY <2>2, <2>3, <2>4, <2>5, <3>1, <3>4 DEF Untorn
  <2>. QED  BY <2>1, <2>4, <2>6, GoesOnNInv
<1>. QED  BY <1>1, <1>2, <1>3, <1>4, <1>5

\* The chunks that are read, torn or not, and what is done with them.
LEMMA ReadNInv ==
  ASSUME NInv, IInv, NEW p, Live(p), ReadChunk(p) \/ Decide(p) \/ EnsureSingleLink(p) \/ Finish(p)
  PROVE  NInv'
<1>. USE DEF HasFile, Snapped, WholeRead, Counted, HasTemp, Copied, Reopened, Verified, Synced
<1>1. CASE ReadChunk(p)
  <2>. DEFINE more == Append(fmt[p].src, Head(Rest(fmt[p].file, fmt[p].src)))
              l == [fmt[p] EXCEPT !.src = more]
  <2>1. fmt[p].pc = "read" /\ fmt' = [fmt EXCEPT ![p] = l] /\ UNCHANGED fs
    BY <1>1 DEF ReadChunk, At, Private
  <2>. HIDE DEF more
  <2>2. l.pc = "read" /\ l.file = fmt[p].file /\ l.src = more  BY <2>1, Known DEF LocalFields
  <2>. HIDE DEF l
  <2>3. fmt'[p] = l /\ \A q \in Proc : q # p => fmt'[q] = fmt[q]  BY <2>1, Known
  <2>4. Texts' = Texts /\ inode' = inode /\ (Undisturbed' <=> Undisturbed)
    BY <2>1, TextsStay DEF NInv, fs
  <2>5. ASSUME TimesTell PROVE Untorn(p)'
    <3>1. inode[fmt[p].file].kind = "file" /\ inode[fmt[p].file].data \in Texts
      BY <2>1, <2>5, Known DEF NInv, Untorn
    <3>2. Local(p) /\ (Undisturbed => Begins(fmt[p].src, inode[fmt[p].file].data))
      BY <2>1, <2>5, Known DEF NInv, Untorn
    <3>3. IsSeq(fmt[p].src) /\ IsSeq(inode[fmt[p].file].data)  BY <2>1, <3>2 DEF Local, IsInode
    <3>4. Undisturbed => Begins(more, inode[fmt[p].file].data)
      BY <1>1, <3>2, <3>3, BeginsNext DEF more, ReadChunk, Rest
    <3>5. (Undisturbed /\ fmt[p].pc = "read" => Begins(fmt[p].src, inode[fmt[p].file].data))'
      BY <2>2, <2>3, <2>4, <3>4 DEF Begins
    <3>. QED  BY <2>2, <2>3, <2>4, <3>1, <3>5 DEF Untorn
  <2>. QED  BY <2>1, <2>3, <2>5, GoesOnNInv
<1>2. CASE Decide(p)
  <2>0. fmt[p].pc = "read"  BY <1>2 DEF Decide, At
  <2>1. CASE Fail(p)  BY <2>1, FailNInv
  <2>2. CASE \E changed : NextFile(p, changed) /\ UNCHANGED fs  BY <2>2, LeaveNInv
  <2>3. CASE Format(fmt[p].src) # Invalid /\ Goes(p, "links") /\ Private
    <3>1. Local(p)  BY Known
    <3>2. IsSeq(fmt[p].src) /\ IsSeq(inode[fmt[p].file].data)  BY <2>0, <3>1 DEF Local, IsInode
    <3>3. ASSUME TimesTell, Undisturbed PROVE fmt[p].src = inode[fmt[p].file].data
      <4>1. Begins(fmt[p].src, inode[fmt[p].file].data)
        BY <2>0, <3>3, Known DEF NInv, Untorn
      <4>. QED  BY <1>2, <3>2, <4>1, BeginsAll DEF Decide, Rest
    <3>4. Undisturbed => fmt[p].src = inode[fmt[p].file].data  BY <3>3 DEF TimesTell
    <3>. QED  BY <2>0, <2>3, <3>4, GoesNInv
  <2>. QED  BY <1>2, <2>1, <2>2, <2>3 DEF Decide, Private
<1>3. CASE EnsureSingleLink(p)
  <2>0. fmt[p].pc = "links"  BY <1>3 DEF EnsureSingleLink, At
  <2>1. CASE Fail(p)  BY <2>1, FailNInv
  <2>2. CASE Goes(p, "create") /\ Private  BY <2>0, <2>2, GoesNInv
  <2>. QED  BY <1>3, <2>1, <2>2 DEF EnsureSingleLink
<1>4. CASE Finish(p)
  <2>1. (\E code : Exits(p, code)) /\ UNCHANGED fs  BY <1>4 DEF Finish, Private
  <2>. QED  BY <2>1, LeaveNInv
<1>. QED  BY <1>1, <1>2, <1>3, <1>4

\* Whoever finds the stamp of the snapshot has read a text, whole.
LEMMA RestatNInv ==
  ASSUME NInv, IInv, NEW p, Live(p), Restat(p)
  PROVE  NInv'
<1>. USE DEF HasFile, Snapped, WholeRead, Counted, HasTemp, Copied, Reopened, Verified, Synced
<1>1. fmt[p].pc = "restat"  BY DEF Restat, At
<1>2. CASE Fail(p)  BY <1>2, FailNInv
<1>3. CASE /\ SameSnapshot(fmt[p].snapshot, Stat(fmt[p].current))
           /\ Goes(p, "relink") /\ Private
  <2>1. ASSUME TimesTell PROVE fmt[p].src \in Texts
    <3>1. Untorn(p)  BY <2>1, Known DEF NInv
    <3>2. fmt[p].src = inode[fmt[p].file].data
      <4>1. CASE Undisturbed  BY <1>1, <3>1, <4>1 DEF Untorn
      <4>2. CASE ~ setting.coarse
        <5>1. Steady(p)  BY <1>1, <1>3, Compared, Known
        <5>2. Kept(p)  BY <1>1, <4>2, <5>1, Known DEF Exact
        <5>. QED  BY <1>1, <5>2 DEF Kept
      <4>. QED  BY <2>1, <4>1, <4>2 DEF TimesTell
    <3>. QED  BY <1>1, <3>1, <3>2 DEF Untorn
  <2>. QED  BY <1>1, <1>3, <2>1, GoesNInv
<1>. QED  BY <1>2, <1>3 DEF Restat, Compare

\* The rest of the second look.
LEMMA SecondLookNInv ==
  ASSUME NInv, IInv, NEW p, Live(p),
         \/ Reopen(p) \/ Restat(p) \/ Relink(p) \/ RereadChunk(p) \/ CompareText(p)
         \/ RestatAgain(p) \/ RelinkAgain(p)
  PROVE  NInv'
<1>. USE DEF HasFile, Snapped, WholeRead, Counted, HasTemp, Copied, Reopened, Verified, Synced
<1>1. CASE Fail(p)  BY <1>1, FailNInv
<1>2. CASE Reopen(p) /\ ~ Fail(p)
  <2>. DEFINE found == Found(p)
              l == [fmt[p] EXCEPT !.pc = "restat", !.current = found]
  <2>1. fmt[p].pc = "reopen" /\ fmt' = [fmt EXCEPT ![p] = l] /\ UNCHANGED fs
    BY <1>2 DEF Reopen, At, Private
  <2>. HIDE DEF found
  <2>2. /\ l.pc = "restat" /\ l.file = fmt[p].file /\ l.src = fmt[p].src /\ l.temp = fmt[p].temp
    BY Known DEF LocalFields
  <2>. HIDE DEF l
  <2>3. fmt'[p] = l /\ \A q \in Proc : q # p => fmt'[q] = fmt[q]  BY <2>1, Known
  <2>. QED  BY <2>1, <2>2, <2>3, KeepsNInv
<1>3. CASE Restat(p)  BY <1>3, RestatNInv
<1>4. CASE Relink(p) /\ ~ Fail(p)
  <2>1. fmt[p].pc = "relink" /\ Goes(p, "reread") /\ Private
    BY <1>4 DEF Relink, CountLinks, At
  <2>. QED  BY <2>1, GoesNInv
<1>5. CASE RereadChunk(p)
  <2>. DEFINE more == Append(fmt[p].again, Head(Rest(fmt[p].current, fmt[p].again)))
              l == [fmt[p] EXCEPT !.again = more]
  <2>1. fmt[p].pc = "reread" /\ fmt' = [fmt EXCEPT ![p] = l] /\ UNCHANGED fs
    BY <1>5 DEF RereadChunk, At, Private
  <2>. HIDE DEF more
  <2>2. /\ l.pc = "reread" /\ l.file = fmt[p].file /\ l.src = fmt[p].src /\ l.temp = fmt[p].temp
    BY <2>1, Known DEF LocalFields
  <2>. HIDE DEF l
  <2>3. fmt'[p] = l /\ \A q \in Proc : q # p => fmt'[q] = fmt[q]  BY <2>1, Known
  <2>. QED  BY <2>1, <2>2, <2>3, KeepsNInv
<1>6. CASE CompareText(p) /\ ~ Fail(p)
  <2>1. fmt[p].pc = "reread" /\ Goes(p, "restat again") /\ Private  BY <1>6 DEF CompareText, At
  <2>. QED  BY <2>1, GoesNInv
<1>7. CASE RestatAgain(p) /\ ~ Fail(p)
  <2>1. fmt[p].pc = "restat again" /\ Goes(p, "relink again") /\ Private
    BY <1>7 DEF RestatAgain, Compare, At
  <2>. QED  BY <2>1, GoesNInv
<1>8. CASE RelinkAgain(p) /\ ~ Fail(p)
  <2>1. fmt[p].pc = "relink again" /\ Goes(p, "rename") /\ Private
    BY <1>8 DEF RelinkAgain, CountLinks, At
  <2>. QED  BY <2>1, GoesNInv
<1>. QED  BY <1>1, <1>2, <1>3, <1>4, <1>5, <1>6, <1>7, <1>8

-----------------------------------------------------------------------------
\* The steps that change files.

\* What is left to show of a step that changes the run's temporary only.
LEMMA TempNInv ==
  ASSUME NInv, IInv, NEW p, Live(p), UNCHANGED <<names, disk, setting>>,
         NEW t, Apart(p, t), \A n \in Path : disk[n] # t,
         NEW file, inode' = [inode EXCEPT ![t] = file],
         \A q \in Proc : q # p => fmt'[q] = fmt[q],
         fmt[p].pc \in HasFile, fmt'[p].file = fmt[p].file, fmt'[p].src = fmt[p].src,
         fmt[p].pc \in WholeRead, fmt[p].pc \notin Verified,
         fmt'[p].pc \in HasTemp, fmt'[p].pc \notin Verified, fmt'[p].temp = t,
         fmt'[p].pc \in Copied => fmt[p].pc \in HasTemp,
         TimesTell /\ fmt[p].src \in Texts =>
           /\ Begins(file.data, Format(fmt[p].src))
           /\ fmt'[p].pc \in Copied => file.data = Format(fmt[p].src),
         fmt'[p].pc \in Synced => file.synced
  PROVE  NInv'
<1>1. setting' = setting /\ p \in Proc /\ Proc' = Proc /\ names' = names /\ disk' = disk
  BY DEF Live, Proc
<1>2. /\ Texts' = Texts /\ TextsSound'
      /\ (TimesTell' <=> TimesTell) /\ (Undisturbed' <=> Undisturbed)
  BY <1>1, TextsStay DEF NInv
<1>3. SUFFICES ASSUME TimesTell
               PROVE  StoreSound' /\ \A q \in Proc : Untorn(q)'
  BY <1>1, <1>2 DEF NInv
<1>4. StoreSound /\ \A q \in Proc : Untorn(q)  BY <1>3 DEF NInv
<1>5. /\ DOMAIN inode' = Inode /\ inode'[t] = file
      /\ \A i \in Inode : i # t => inode'[i] = inode[i]
  BY <1>4 DEF StoreSound, Apart
<1>6. StoreSound'
  <2>1. ASSUME NEW i, \E n \in Path : names[n] = i \/ disk[n] = i, i # None
        PROVE  i \in Inode /\ Whole(inode[i])'
    <3>1. i \in Inode /\ Whole(inode[i]) /\ i # t  BY <1>4, <2>1 DEF StoreSound, Apart
    <3>2. inode'[i] = inode[i]  BY <1>5, <3>1
    <3>. QED  BY <1>2, <3>1, <3>2 DEF Whole
  <2>. QED  BY <1>1, <1>4, <1>5, <2>1 DEF StoreSound
<1>7. ASSUME NEW q \in Proc, q # p PROVE Untorn(q)'
  <2>1. Local(q) /\ TempsApart  BY LiveSound DEF RunSound
  <2>2. fmt[q].pc \in HasFile => inode'[fmt[q].file] = inode[fmt[q].file]
    BY <1>5, <2>1 DEF Apart, Local
  <2>3. fmt[q].pc \in HasTemp => inode'[fmt[q].temp] = inode[fmt[q].temp]
    BY <1>5, <1>7, <2>1 DEF Apart, TempsApart
  <2>4. fmt[q].pc \in HasTemp => \A n \in Path : disk'[n] # fmt[q].temp
    BY <1>1, <1>4 DEF Untorn
  <2>. QED  BY <1>2, <1>4, <1>7, <2>2, <2>3, <2>4, StillUntorn
<1>8. Untorn(p)'
  <2>1. Local(p) /\ Untorn(p)  BY <1>1, <1>4, Known
  <2>2. /\ fmt[p].file \in Inode /\ fmt[p].file # t
        /\ inode'[fmt[p].file] = inode[fmt[p].file]
    BY <1>1, <1>5, <2>1 DEF Apart, Local
  <2>3. \A data, text : Begins(data, text) => Begins(data, text)'  BY DEF Begins
  <2>4. /\ (fmt[p].pc \in HasFile /\ inode[fmt[p].file].kind = "file" =>
             inode[fmt[p].file].data \in Texts)'
        /\ (fmt[p].pc \in Snapped => inode[fmt[p].file].kind = "file")'
        /\ (Undisturbed /\ fmt[p].pc \in WholeRead => fmt[p].src = inode[fmt[p].file].data)'
        /\ (fmt[p].pc \in WholeRead => Format(fmt[p].src) # Invalid)'
        /\ (fmt[p].pc \in Verified => fmt[p].src \in Texts)'
    BY <1>2, <2>1, <2>2 DEF Untorn, Snapped
  <2>5. (fmt[p].pc \in HasTemp =>
         /\ \A n \in Path : disk[n] # fmt[p].temp
         /\ fmt[p].src \in Texts => Begins(inode[fmt[p].temp].data, Format(fmt[p].src)))'
    BY <1>1, <1>2, <1>3, <1>5, <2>3
  <2>6. /\ (fmt[p].pc \in Copied /\ fmt[p].src \in Texts =>
              inode[fmt[p].temp].data = Format(fmt[p].src))'
        /\ (fmt[p].pc \in Synced => inode[fmt[p].temp].synced)'
    BY <1>2, <1>3, <1>5
  <2>7. fmt'[p].pc # "read"  BY DEF HasTemp, Copied, Reopened
  <2>. QED  BY <2>4, <2>5, <2>6, <2>7 DEF Untorn
<1>. QED  BY <1>6, <1>7, <1>8

\* The temporary of a text has its canonical form, chunk by chunk.
LEMMA TemporaryNInv ==
  ASSUME NInv, IInv, NEW p, Live(p),
         CreateTemporary(p) \/ WriteChunk(p) \/ CopyMetadata(p) \/ Sync(p)
  PROVE  NInv'
<1>. USE DEF HasFile, Snapped, WholeRead, Counted, HasTemp, Copied, Reopened, Verified, Synced
<1>. DEFINE t == fmt[p].temp
            text == Format(fmt[p].src)
<1>0. /\ TimesTell => Untorn(p)
      /\ TimesTell /\ fmt[p].pc \in WholeRead /\ fmt[p].src \in Texts => IsSeq(text)
  BY Known, FormatsAText DEF NInv, Untorn
<1>1. CASE CreateTemporary(p)
  <2>. DEFINE file == NewInode("file", <<>>, None, "private", FALSE)
  <2>1. PICK i \in Free : /\ inode' = [inode EXCEPT ![i] = file]
                          /\ fmt' = [fmt EXCEPT ![p].pc = "write", ![p].temp = i]
    BY <1>1 DEF CreateTemporary
  <2>. DEFINE l == [fmt[p] EXCEPT !.pc = "write", !.temp = i]
  <2>2. fmt[p].pc = "create" /\ fmt' = [fmt EXCEPT ![p] = l] /\ UNCHANGED <<names, disk, setting>>
    BY <1>1, <2>1, Known DEF CreateTemporary, At
  <2>3. /\ l.pc = "write" /\ l.temp = i /\ l.file = fmt[p].file /\ l.src = fmt[p].src
        /\ file.data = <<>>
    BY Known DEF LocalFields, NewInode
  <2>. HIDE DEF l, file
  <2>4. fmt'[p] = l /\ \A q \in Proc : q # p => fmt'[q] = fmt[q]  BY <2>2, Known
  <2>5. Apart(p, i) /\ \A n \in Path : disk[n] # i  BY FreeApart DEF Free
  <2>6. TimesTell /\ fmt[p].src \in Texts => Begins(file.data, text)
    BY <1>0, <2>2, <2>3, BeginsNone
  <2>. QED  BY <2>1, <2>2, <2>3, <2>4, <2>5, <2>6, TempNInv
<1>2. CASE fmt[p].pc \in {"write", "sync"}
  <2>1. /\ Apart(p, t) /\ IsInode(Temp(p), clock)
        /\ InodeFields \subseteq DOMAIN Temp(p) /\ IsSeq(Temp(p).data)
        /\ Temp(p) = inode[t]
    BY <1>2, HasTemporary DEF IsInode, Temp
  <2>2. ASSUME TimesTell PROVE \A n \in Path : disk[n] # t
    BY <1>0, <1>2, <2>2 DEF Untorn
  <2>3. ASSUME TimesTell, fmt[p].src \in Texts
        PROVE  Begins(Temp(p).data, text) /\ IsSeq(text)
    BY <1>0, <1>2, <2>1, <2>3 DEF Untorn
  <2>4. CASE ~ TimesTell
    <3>1. setting' = setting  BY DEF CreateTemporary, WriteChunk, CopyMetadata, Sync, Temporary
    <3>2. TextsSound' /\ (TimesTell' <=> TimesTell)  BY <3>1, TextsStay DEF NInv
    <3>. QED  BY <2>4, <3>1, <3>2 DEF NInv
  <2>5. CASE WriteChunk(p) /\ TimesTell
    <3>. DEFINE data == Append(Temp(p).data, Head(Unwritten(p)))
                file == [Temp(p) EXCEPT !.data = data]
    <3>1. /\ fmt[p].pc = "write" /\ UNCHANGED <<names, disk, setting>> /\ fmt' = fmt
          /\ inode' = [inode EXCEPT ![t] = file]
      BY <2>5 DEF WriteChunk, Temporary, At
    <3>2. fmt[p].src \in Texts => Begins(data, text)
      BY <2>1, <2>3, <2>5, BeginsNext DEF WriteChunk, Unwritten
    <3>. HIDE DEF data
    <3>3. file.data = data  BY <2>1 DEF InodeFields
    <3>. HIDE DEF file
    <3>4. /\ fmt[p].pc \in HasFile /\ fmt[p].pc \in WholeRead /\ fmt[p].pc \notin Verified
          /\ fmt[p].pc \in HasTemp /\ fmt[p].pc \notin Copied /\ fmt[p].pc \notin Synced
      BY <3>1
    <3>. HIDE DEF HasFile, Snapped, WholeRead, Counted, HasTemp, Copied, Reopened, Verified, Synced
    <3>. QED  BY <2>1, <2>2, <2>5, <3>1, <3>2, <3>3, <3>4, TempNInv
  <2>6. CASE CopyMetadata(p) /\ TimesTell
    <3>. DEFINE file == [Temp(p) EXCEPT !.mode = fmt[p].snapshot.mode,
                                        !.extra = inode[fmt[p].file].extra]
    <3>1. /\ fmt[p].pc = "write" /\ UNCHANGED <<names, disk, setting>> /\ Goes(p, "sync")
          /\ inode' = [inode EXCEPT ![t] = file]
      BY <2>6 DEF CopyMetadata, Temporary, At
    <3>2. file.data = Temp(p).data  BY <2>1 DEF InodeFields
    <3>. HIDE DEF file
    <3>3. fmt[p].src \in Texts => Temp(p).data = text
      BY <2>1, <2>3, <2>6, BeginsAll DEF CopyMetadata, Unwritten
    <3>4. /\ fmt' = [fmt EXCEPT ![p] = fmt'[p]] /\ fmt'[p].pc = "sync"
          /\ fmt'[p].file = fmt[p].file /\ fmt'[p].src = fmt[p].src /\ fmt'[p].temp = t
      BY <3>1, GoneOn
    <3>5. \A q \in Proc : q # p => fmt'[q] = fmt[q]  BY <3>4, Known
    <3>6. /\ fmt[p].pc \in HasFile /\ fmt[p].pc \in WholeRead /\ fmt[p].pc \notin Verified
          /\ fmt[p].pc \in HasTemp /\ fmt'[p].pc \in HasTemp /\ fmt'[p].pc \notin Verified
          /\ fmt'[p].pc \notin Synced
      BY <3>1, <3>4
    <3>7. fmt[p].src \in Texts => Begins(file.data, text) /\ file.data = text
      BY <2>3, <2>6, <3>2, <3>3
    <3>. HIDE DEF HasFile, Snapped, WholeRead, Counted, HasTemp, Copied, Reopened, Verified, Synced
    <3>8. UNCHANGED <<names, disk, setting>> /\ inode' = [inode EXCEPT ![t] = file]  BY <3>1
    <3>. QED  BY <2>1, <2>2, <2>6, <3>4, <3>5, <3>6, <3>7, <3>8, TempNInv, ZenonT(30)
  <2>7. CASE Sync(p) /\ TimesTell
    <3>. DEFINE file == [Temp(p) EXCEPT !.synced = TRUE]
    <3>1. /\ fmt[p].pc = "sync" /\ UNCHANGED <<names, disk, setting>> /\ Goes(p, "reopen")
          /\ inode' = [inode EXCEPT ![t] = file]
      BY <2>7 DEF Sync, Temporary, At
    <3>2. file.data = Temp(p).data /\ file.synced  BY <2>1 DEF InodeFields
    <3>. HIDE DEF file
    <3>3. fmt[p].src \in Texts => Temp(p).data = text
      BY <1>0, <2>1, <2>7, <3>1 DEF Untorn
    <3>4. /\ fmt' = [fmt EXCEPT ![p] = fmt'[p]] /\ fmt'[p].pc = "reopen"
          /\ fmt'[p].file = fmt[p].file /\ fmt'[p].src = fmt[p].src /\ fmt'[p].temp = t
      BY <3>1, GoneOn
    <3>5. \A q \in Proc : q # p => fmt'[q] = fmt[q]  BY <3>4, Known
    <3>6. /\ fmt[p].pc \in HasFile /\ fmt[p].pc \in WholeRead /\ fmt[p].pc \notin Verified
          /\ fmt[p].pc \in HasTemp /\ fmt'[p].pc \in HasTemp /\ fmt'[p].pc \notin Verified
      BY <3>1, <3>4
    <3>7. fmt[p].src \in Texts => Begins(file.data, text) /\ file.data = text
      BY <2>3, <2>7, <3>2, <3>3
    <3>. HIDE DEF HasFile, Snapped, WholeRead, Counted, HasTemp, Copied, Reopened, Verified, Synced
    <3>. QED  BY <2>1, <2>2, <2>7, <3>1, <3>2, <3>4, <3>5, <3>6, <3>7, TempNInv
  <2>. QED  BY <1>1, <1>2, <2>4, <2>5, <2>6, <2>7
<1>3. fmt[p].pc \in {"create", "write", "sync"}
  BY DEF CreateTemporary, WriteChunk, CopyMetadata, Sync, At
<1>4. CASE fmt[p].pc = "create"  BY <1>1, <1>4 DEF WriteChunk, CopyMetadata, Sync, At
<1>. QED  BY <1>1, <1>2, <1>3, <1>4

\* What gets the name of the target is the canonical form of a text, and is on the disk.
LEMMA RenameNInv ==
  ASSUME NInv, IInv, NEW p, Live(p), Rename(p)
  PROVE  NInv'
<1>1. fmt[p].pc = "rename" /\ Working(p)  BY DEF Rename, At, Working
<1>2. CASE Fail(p)  BY <1>2, FailNInv
<1>3. CASE ~ Fail(p)
  <2>. DEFINE t == fmt[p].target
              i == fmt[p].temp
  <2>1. /\ names' = [names EXCEPT ![t] = i] /\ NextFile(p, TRUE)
        /\ disk' = disk /\ inode' = inode /\ setting' = setting
    BY <1>3 DEF Rename
  <2>2. /\ Texts' = Texts /\ TextsSound' /\ Proc' = Proc
        /\ (TimesTell' <=> TimesTell) /\ (Undisturbed' <=> Undisturbed)
    BY <2>1, TextsStay DEF NInv, Proc
  <2>3. SUFFICES ASSUME TimesTell
                 PROVE  StoreSound' /\ \A q \in Proc : Untorn(q)'
    BY <2>1, <2>2 DEF NInv
  <2>4. StoreSound /\ (\A q \in Proc : Untorn(q)) /\ p \in Proc
    BY <2>3, Known DEF NInv
  <2>5. Whole(inode[i]) /\ i \in Inode /\ t \in Path
    <3>1. /\ Apart(p, i) /\ IsInode(inode[i], clock)
      BY <1>1, HasTemporary DEF HasTemp, Copied, Reopened, Temp
    <3>2. /\ fmt[p].pc \in WholeRead /\ fmt[p].pc \in Verified /\ fmt[p].pc \in Copied
          /\ fmt[p].pc \in Synced
      BY <1>1 DEF WholeRead, Counted, HasTemp, Copied, Reopened, Verified, Synced
    <3>3. /\ Format(fmt[p].src) # Invalid /\ fmt[p].src \in Texts
          /\ inode[i].data = Format(fmt[p].src) /\ inode[i].synced
      BY <2>4, <3>2 DEF Untorn
    <3>4. inode[i].data \in Texts  BY <3>3, FormatsAText DEF NInv
    <3>. QED  BY <1>1, <3>1, <3>3, <3>4, Known DEF Whole, Apart, IsInode
  <2>6. StoreSound'
    <3>1. /\ DOMAIN names' = Path
          /\ \A n \in Path : names'[n] = names[n] \/ names'[n] = i
      BY <2>1, <2>4 DEF StoreSound
    <3>2. \A file : Whole(file) => Whole(file)'  BY <2>2 DEF Whole
    <3>3. \A j : Whole(inode[j]) => Whole(inode[j])'  BY <2>1, <2>2 DEF Whole
    <3>. QED  BY <2>1, <2>4, <2>5, <3>1, <3>3 DEF StoreSound
  <2>7. fmt'[p].pc = "next" /\ \A q \in Proc : q # p => fmt'[q] = fmt[q]
    BY <2>1, Known DEF NextFile, Idle
  <2>8. ASSUME NEW q \in Proc PROVE Untorn(q)'
    <3>1. CASE q = p  BY <2>7, <3>1, IdleUntorn
    <3>2. CASE q # p
      <4>1. fmt[q].pc \in HasTemp => \A n \in Path : disk'[n] # fmt[q].temp
        BY <2>1, <2>4 DEF Untorn
      <4>. QED  BY <2>1, <2>2, <2>4, <2>7, <3>2, <4>1, StillUntorn
    <3>. QED  BY <3>1, <3>2
  <2>. QED  BY <2>6, <2>8
<1>. QED  BY <1>2, <1>3

\* Failing calls and kills leave the files as they are.
LEMMA StopNInv ==
  ASSUME NInv, IInv, NEW p, Live(p), Fault(p) \/ Kill(p)
  PROVE  NInv'
<1>1. CASE Fault(p)
  <2>. DEFINE n == setting.faults - 1
              l == [Idle EXCEPT !.pc = "exited", !.todo = fmt[p].todo, !.exit = 1]
  <2>1. /\ setting' = [setting EXCEPT !["faults"] = n] /\ fmt' = [fmt EXCEPT ![p] = l]
        /\ UNCHANGED <<names, disk, inode>>
    BY <1>1 DEF Fault, Exits
  <2>2. l.pc = "exited"  BY DEF Idle
  <2>. HIDE DEF n, l
  <2>3. /\ TextsSound' /\ Texts' = Texts
        /\ (TimesTell' <=> TimesTell) /\ (Undisturbed' <=> Undisturbed)
    BY <2>1, TextsStay DEF NInv
  <2>4. Proc' = Proc /\ setting'.coarse = setting.coarse
    BY <2>1, LiveSound DEF Proc, SettingSound
  <2>5. fmt'[p].pc = "exited" /\ \A q \in Proc : q # p => fmt'[q] = fmt[q]
    BY <2>1, <2>2, Known
  <2>. QED  BY <2>1, <2>3, <2>4, <2>5, IdleUntorn, PrivateNInv
<1>2. CASE Kill(p)
  <2>. DEFINE n == setting.crashes - 1
  <2>1. /\ Dead({p}) /\ UNCHANGED <<names, disk, inode>> /\ UNCHANGED <<clock, unseen>>
        /\ setting' = [setting EXCEPT !["crashes"] = n] /\ p \in Proc
    BY <1>2 DEF Kill, Dead, Live
  <2>. HIDE DEF n
  <2>2. /\ TextsSound' /\ Texts' = Texts
        /\ (TimesTell' <=> TimesTell) /\ (Undisturbed' <=> Undisturbed)
    BY <2>1, TextsStay DEF NInv
  <2>3. /\ Proc' = Proc /\ setting'.coarse = setting.coarse
        /\ \A q \in Proc : q # p => fmt'[q] = fmt[q]
        /\ fmt'[p].pc = "dead"
    BY <2>1, DeadSound
  <2>. QED  BY <2>1, <2>2, <2>3, IdleUntorn, PrivateNInv
<1>. QED  BY <1>1, <1>2

\* A power loss finds files under every name that are whole on the disk.
LEMMA PowerLossNInv ==
  ASSUME NInv, IInv, PowerLoss
  PROVE  NInv'
<1>. DEFINE n == setting.crashes - 1
<1>1. /\ Dead(Proc) /\ UNCHANGED <<clock, unseen>> /\ names' = disk /\ disk' = disk
      /\ setting' = [setting EXCEPT !["crashes"] = n]
      /\ DOMAIN inode' = Inode
      /\ \A i \in Inode : i \notin Unsynced => inode'[i] = inode[i]
  BY DEF PowerLoss, Dead
<1>. HIDE DEF n
<1>2. /\ TextsSound' /\ Texts' = Texts
      /\ (TimesTell' <=> TimesTell) /\ (Undisturbed' <=> Undisturbed)
  BY <1>1, TextsStay DEF NInv
<1>3. /\ Proc' = Proc /\ setting'.coarse = setting.coarse
      /\ \A q \in Proc : fmt'[q].pc = "dead"
  BY <1>1, DeadSound
<1>4. SUFFICES ASSUME TimesTell PROVE StoreSound'
  BY <1>2, <1>3, IdleUntorn DEF NInv
<1>5. StoreSound  BY <1>4 DEF NInv
<1>6. ASSUME NEW m \in Path, disk[m] # None
      PROVE  disk[m] \in Inode /\ Whole(inode[disk[m]])'
  <2>1. disk[m] \in Inode /\ Whole(inode[disk[m]])  BY <1>5, <1>6 DEF StoreSound
  <2>2. inode'[disk[m]] = inode[disk[m]]  BY <1>1, <2>1 DEF Unsynced, Whole
  <2>. QED  BY <1>1, <1>2, <2>1, <2>2 DEF Whole
<1>. QED  BY <1>1, <1>5, <1>6 DEF StoreSound

\* The disk catches up: temporaries have no name.
LEMMA CommitNInv ==
  ASSUME NInv, IInv, Commit
  PROVE  NInv'
<1>1. UNCHANGED <<names, inode, setting, fmt>> /\ disk' = names  BY DEF Commit
<1>2. /\ TextsSound' /\ Texts' = Texts /\ Proc' = Proc
      /\ (TimesTell' <=> TimesTell) /\ (Undisturbed' <=> Undisturbed)
  BY <1>1, TextsStay DEF NInv, Proc
<1>3. SUFFICES ASSUME TimesTell
               PROVE  StoreSound' /\ \A q \in Proc : Untorn(q)'
  BY <1>1, <1>2 DEF NInv
<1>4. StoreSound /\ \A q \in Proc : Untorn(q)  BY <1>3 DEF NInv
<1>5. StoreSound'
  <2>1. \A j : Whole(inode[j]) => Whole(inode[j])'  BY <1>1, <1>2 DEF Whole
  <2>. QED  BY <1>1, <1>4, <2>1 DEF StoreSound
<1>6. ASSUME NEW q \in Proc PROVE Untorn(q)'
  <2>1. ASSUME fmt[q].pc \in HasTemp PROVE \A n \in Path : disk'[n] # fmt[q].temp
    <3>1. Live(q)  BY <2>1 DEF Live, HasTemp, Copied, Reopened
    <3>. QED  BY <1>1, <2>1, <3>1, LiveSound DEF TempsApart
  <2>. QED  BY <1>1, <1>2, <1>4, <2>1, StillUntorn
<1>. QED  BY <1>5, <1>6

\* Time may pass.
LEMMA StillNInv ==
  ASSUME NInv, UNCHANGED <<names, disk, inode, fmt>>,
         \/ UNCHANGED setting
         \/ SettingSound /\ Tick
  PROVE  NInv'
<1>. DEFINE n == setting.ticks - 1
<1>1. setting' = [setting EXCEPT !["ticks"] = n] \/ UNCHANGED setting  BY DEF Tick
<1>. HIDE DEF n
<1>2. /\ TextsSound' /\ Texts' = Texts
      /\ (TimesTell' <=> TimesTell) /\ (Undisturbed' <=> Undisturbed)
  BY <1>1, TextsStay DEF NInv
<1>3. Proc' = Proc /\ setting'.coarse = setting.coarse  BY <1>1 DEF Tick, SettingSound, Proc
<1>4. SUFFICES ASSUME TimesTell
               PROVE  StoreSound' /\ \A q \in Proc : Untorn(q)'
  BY <1>2, <1>3 DEF NInv
<1>5. StoreSound /\ \A q \in Proc : Untorn(q)  BY <1>4 DEF NInv
<1>6. StoreSound'  BY <1>2, <1>5 DEF StoreSound, Whole
<1>7. ASSUME NEW q \in Proc PROVE Untorn(q)'
  <2>1. fmt[q].pc \in HasTemp => \A m \in Path : disk'[m] # fmt[q].temp
    BY <1>5 DEF Untorn
  <2>. QED  BY <1>2, <1>5, <2>1, StillUntorn
<1>. QED  BY <1>6, <1>7

\* What is left to show of a change of one inode, and of names that lead to it.
LEMMA EditNInv ==
  ASSUME NInv, IInv, Edit, NEW i, NEW file, Touch(i, file),
         TimesTell =>
           \/ i \in Free
           \/ i \in {names[n] : n \in Path} \ {None} /\ file.kind = inode[i].kind,
         TimesTell => Whole(file),
         TimesTell =>
           /\ DOMAIN names' = Path /\ \A m \in Path : names'[m] \in {names[m], None, i}
           /\ DOMAIN disk' = Path /\ \A m \in Path : disk'[m] \in {disk[m], None, i}
  PROVE  NInv'
<1>. DEFINE n == setting.edits - 1
            f == [file EXCEPT !.stamp = clock']
<1>1. /\ setting' = [setting EXCEPT !["edits"] = n] /\ inode' = [inode EXCEPT ![i] = f]
      /\ fmt' = fmt
  BY DEF Edit, Touch
<1>. HIDE DEF n
<1>2. /\ TextsSound' /\ Texts' = Texts
      /\ (TimesTell' <=> TimesTell) /\ (Undisturbed' <=> Undisturbed)
      /\ ~ Undisturbed
  <2>1. setting.edits > 0  BY DEF Edit
  <2>. QED  BY <1>1, <2>1, TextsStay DEF NInv, TextsSound
<1>3. Proc' = Proc /\ setting'.coarse = setting.coarse  BY EditTime DEF Time
<1>4. SUFFICES ASSUME TimesTell
               PROVE  StoreSound' /\ \A q \in Proc : Untorn(q)'
  BY <1>2, <1>3 DEF NInv
<1>5. StoreSound /\ \A q \in Proc : Untorn(q)  BY <1>4 DEF NInv
<1>6. /\ InodeFields \subseteq DOMAIN f /\ f.kind = file.kind /\ f.data = file.data
      /\ f.synced = file.synced
  BY <1>4 DEF Whole, InodeFields
<1>. HIDE DEF f
<1>7. i \in Inode  BY <1>4, <1>5 DEF Free, StoreSound
<1>8. /\ DOMAIN inode' = Inode /\ inode'[i] = f
      /\ \A j \in Inode : j # i => inode'[j] = inode[j]
  BY <1>1, <1>5, <1>7 DEF StoreSound
<1>9. StoreSound'
  <2>1. ASSUME NEW j, j \in Inode, Whole(inode[j]) PROVE Whole(inode[j])'
    <3>1. CASE j = i  BY <1>2, <1>4, <1>6, <1>8, <3>1 DEF Whole
    <3>2. CASE j # i
      <4>1. inode'[j] = inode[j]  BY <1>8, <2>1, <3>2
      <4>. QED  BY <1>2, <2>1, <4>1 DEF Whole
    <3>. QED  BY <3>1, <3>2
  <2>2. Whole(inode[i])'  BY <1>2, <1>4, <1>6, <1>8 DEF Whole
  <2>3. ASSUME NEW m \in Path, names'[m] # None PROVE names'[m] \in Inode /\ Whole(inode[names[m]])'
    BY <1>4, <1>5, <1>7, <2>1, <2>2, <2>3 DEF StoreSound
  <2>4. ASSUME NEW m \in Path, disk'[m] # None PROVE disk'[m] \in Inode /\ Whole(inode[disk[m]])'
    BY <1>4, <1>5, <1>7, <2>1, <2>2, <2>4 DEF StoreSound
  <2>. QED  BY <1>4, <1>8, <2>3, <2>4 DEF StoreSound
<1>10. ASSUME NEW q \in Proc PROVE Untorn(q)'
  <2>1. ASSUME fmt[q].pc \in HasTemp
        PROVE  inode'[fmt[q].temp] = inode[fmt[q].temp] /\ \A m \in Path : disk'[m] # fmt[q].temp
    <3>1. Live(q)  BY <2>1 DEF Live, HasTemp, Copied, Reopened
    <3>2. fmt[q].temp \in Inode /\ \A m \in Path : names[m] # fmt[q].temp
      BY <2>1, <3>1, LiveSound DEF TempsApart
    <3>3. fmt[q].temp # None  BY <3>2, BoundsAssumption
    <3>4. fmt[q].temp # i  BY <1>4, <3>2, FreeApart
    <3>5. \A m \in Path : disk[m] # fmt[q].temp  BY <1>5, <2>1 DEF Untorn
    <3>. QED  BY <1>4, <1>8, <3>2, <3>3, <3>4, <3>5
  <2>2. ASSUME fmt[q].pc \in HasFile, fmt[q].file # i
        PROVE  inode'[fmt[q].file] = inode[fmt[q].file]
    <3>1. Live(q)  BY <2>2 DEF Live, HasFile, Snapped, WholeRead, Counted, HasTemp, Copied, Reopened
    <3>2. fmt[q].file \in Inode  BY <2>2, <3>1, Known DEF Local
    <3>. QED  BY <1>8, <2>2, <3>2
  <2>3. ASSUME fmt[q].pc \in HasFile, fmt[q].file = i
        PROVE  /\ inode'[i].kind = inode[i].kind
               /\ inode'[i].kind = "file" => inode'[i].data \in Texts
    <3>1. i \notin Free  BY <2>3, FreeApart DEF Apart
    <3>. QED  BY <1>4, <1>6, <1>8, <3>1 DEF Whole
  <2>. QED  BY <1>1, <1>2, <1>5, <2>1, <2>2, <2>3, StillUntorn
<1>. QED  BY <1>9, <1>10

\* An edit of a file, of its names, or of what is not a file.
LEMMA OthersNInv ==
  ASSUME NInv, IInv, Others
  PROVE  NInv'
<1>0. /\ TextsSound
      /\ TimesTell =>
           /\ DOMAIN names = Path /\ DOMAIN disk = Path
           /\ \A n \in Path : names[n] # None => Whole(inode[names[n]])
  BY DEF NInv, StoreSound
<1>1. ASSUME NEW n \in Path, NEW i, Enter(n, i), TimesTell
      PROVE  /\ DOMAIN names' = Path /\ \A m \in Path : names'[m] \in {names[m], i}
             /\ DOMAIN disk' = Path /\ \A m \in Path : disk'[m] \in {disk[m], i}
  BY <1>0, <1>1 DEF Enter
<1>2. ASSUME NEW n \in Path, NEW data \in setting.saves, SaveInPlace(n, data) PROVE NInv'
  <2>. DEFINE i == names[n]
              file == [inode[i] EXCEPT !.data = data]
  <2>1. Edit /\ Touch(i, file) /\ UNCHANGED <<names, disk>> /\ i # None
    BY <1>2, FileTaken DEF SaveInPlace
  <2>2. data \in Texts  BY <1>0, SavedIsText
  <2>3. TimesTell => Whole(file) /\ file.kind = inode[i].kind
    <3>1. TimesTell =>
            /\ InodeFields \subseteq DOMAIN file /\ file.data = data
            /\ file.kind = inode[i].kind /\ file.synced = inode[i].synced
      BY <1>0, <2>1 DEF Whole, InodeFields
    <3>. QED  BY <1>0, <2>1, <2>2, <3>1 DEF Whole
  <2>. HIDE DEF file
  <2>. QED  BY <1>0, <2>1, <2>3, EditNInv
<1>3. ASSUME NEW n \in Path, NEW data \in setting.saves, SaveAtomically(n, data) PROVE NInv'
  <2>1. PICK i \in Free, mode \in setting.modes :
          Enter(n, i) /\ Touch(i, NewInode("file", data, None, mode, TRUE))
    BY <1>3 DEF SaveAtomically
  <2>. DEFINE file == NewInode("file", data, None, mode, TRUE)
  <2>2. data \in Texts  BY <1>0, SavedIsText
  <2>3. Whole(file)  BY <2>2 DEF NewInode, Whole, InodeFields
  <2>4. Edit /\ Touch(i, file)  BY <1>3, <2>1 DEF SaveAtomically
  <2>. HIDE DEF file
  <2>. QED  BY <1>1, <2>1, <2>3, <2>4, EditNInv
<1>4. ASSUME NEW n \in Path, ChangeMetadata(n) PROVE NInv'
  <2>1. PICK mode \in setting.modes, extra \in setting.extras :
          Touch(names[n], [inode[names[n]] EXCEPT !.mode = mode, !.extra = extra])
    BY <1>4 DEF ChangeMetadata
  <2>. DEFINE i == names[n]
              file == [inode[i] EXCEPT !.mode = mode, !.extra = extra]
  <2>2. Edit /\ Touch(i, file) /\ UNCHANGED <<names, disk>> /\ i # None
    BY <1>4, <2>1, FileTaken DEF ChangeMetadata
  <2>3. TimesTell => Whole(file) /\ file.kind = inode[i].kind
    <3>1. TimesTell =>
            /\ InodeFields \subseteq DOMAIN file /\ file.data = inode[i].data
            /\ file.kind = inode[i].kind /\ file.synced = inode[i].synced
      BY <1>0, <2>2 DEF Whole, InodeFields
    <3>. QED  BY <1>0, <2>2, <3>1 DEF Whole
  <2>. HIDE DEF file
  <2>. QED  BY <1>0, <2>2, <2>3, EditNInv
<1>5. ASSUME NEW n \in Path, Remove(n) PROVE NInv'
  <2>. DEFINE i == names[n]
  <2>1. Edit /\ Touch(i, inode[i]) /\ Enter(n, None) /\ i # None  BY <1>5 DEF Remove
  <2>. QED  BY <1>0, <1>1, <2>1, EditNInv
<1>6. ASSUME NEW n \in Path, MakeDirectory(n) PROVE NInv'
  <2>. DEFINE file == NewInode("directory", <<>>, None, "private", TRUE)
  <2>1. PICK i \in Free : Edit /\ Enter(n, i) /\ Touch(i, file)  BY <1>6 DEF MakeDirectory
  <2>2. Whole(file)  BY DEF NewInode, Whole, InodeFields
  <2>. HIDE DEF file
  <2>. QED  BY <1>1, <2>1, <2>2, EditNInv
<1>7. ASSUME NEW n \in Path, NEW m \in Path, HardLink(n, m) PROVE NInv'
  <2>. DEFINE i == names[n]
  <2>1. Edit /\ Touch(i, inode[i]) /\ Enter(m, i) /\ i # None
    BY <1>7, FileTaken DEF HardLink
  <2>. QED  BY <1>0, <1>1, <2>1, EditNInv
<1>8. ASSUME NEW n \in Path, NEW m \in Path, MakeSymlink(n, m) PROVE NInv'
  <2>. DEFINE file == NewInode("symlink", <<>>, m, "private", TRUE)
  <2>1. PICK i \in Free : Edit /\ Enter(n, i) /\ Touch(i, file)  BY <1>8 DEF MakeSymlink
  <2>2. Whole(file)  BY DEF NewInode, Whole, InodeFields
  <2>. HIDE DEF file
  <2>. QED  BY <1>1, <2>1, <2>2, EditNInv
<1>. QED  BY <1>2, <1>3, <1>4, <1>5, <1>6, <1>7, <1>8 DEF Others

\* At the start every name has a whole file, or none.
LEMMA InitNInv ==
  ASSUME Init
  PROVE  NInv
<1>1. TextsSound
  <2>1. setting \in Settings  BY DEF Init
  <2>2. ASSUME NEW data \in Saved
        PROVE  /\ IsSeq(data) /\ Format(data) # None
               /\ Format(data) # Invalid =>
                    /\ Format(data) \in Texts /\ IsSeq(Format(data))
                    /\ Format(Format(data)) = Format(data)
    <3>1. data \in setting.saves \cup (setting.initial \ {None})
      BY DEF Saved
    <3>2. IsSeq(data)  BY <2>1, <3>1, SettingsAssumption DEF IsSeq
    <3>3. ASSUME Format(data) # Invalid
          PROVE  IsSeq(Format(data)) /\ Format(Format(data)) = Format(data)
      BY <2>1, <3>1, <3>3, FormatAssumption DEF IsSeq
    <3>4. Format(data) # None  BY <2>1, <3>1, FormatAssumption
    <3>. QED  BY <3>2, <3>3, <3>4 DEF Texts
  <2>3. ASSUME NEW data \in Texts, Format(data) # Invalid
        PROVE  /\ Format(data) \in Texts /\ IsSeq(Format(data))
               /\ Format(Format(data)) = Format(data)
    <3>1. CASE data \in Saved  BY <2>2, <2>3, <3>1
    <3>2. CASE data \notin Saved
      <4>1. PICK of \in Saved : data = Format(of) /\ data # Invalid  BY <3>2 DEF Texts
      <4>. QED  BY <2>2, <4>1
    <3>. QED  BY <3>1, <3>2
  <2>4. Undisturbed => setting.edits = 0  BY <2>1, BoundsAssumption DEF Undisturbed
  <2>5. None \notin Texts  BY <2>2 DEF Texts, Saved
  <2>. QED  BY <2>1, <2>3, <2>4, <2>5, SettingsAssumption DEF TextsSound
<1>2. StoreSound
  <2>1. PICK start \in [Path \ DOMAIN StartLinks -> setting.initial],
             at \in [Path -> Inode \cup {None}] :
          /\ \A n \in Path : at[n] = None <=> n \notin DOMAIN StartLinks /\ start[n] = None
          /\ \A n, m \in Path : at[n] = at[m] /\ at[n] # None => n = m
          /\ names = at /\ disk = at
          /\ inode = [i \in Inode |->
               IF \A n \in Path : at[n] # i THEN None
               ELSE LET n == CHOOSE n \in Path : at[n] = i IN
                    IF n \in DOMAIN StartLinks
                    THEN NewInode("symlink", <<>>, StartLinks[n], "private", TRUE)
                    ELSE NewInode("file", start[n], None, "private", TRUE)]
    BY DEF Init
  <2>2. DOMAIN names = Path /\ DOMAIN disk = Path /\ DOMAIN inode = Inode /\ disk = names
    BY <2>1
  <2>3. ASSUME NEW n \in Path, names[n] # None
        PROVE  names[n] \in Inode /\ Whole(inode[names[n]])
    <3>. DEFINE of(m) == IF m \in DOMAIN StartLinks
                         THEN NewInode("symlink", <<>>, StartLinks[m], "private", TRUE)
                         ELSE NewInode("file", start[m], None, "private", TRUE)
    <3>1. names[n] \in Inode /\ at[n] = names[n]  BY <2>1, <2>3
    <3>2. (CHOOSE m \in Path : at[m] = names[n]) = n  BY <2>1, <2>3, <3>1
    <3>3. inode = [i \in Inode |-> IF \A m \in Path : at[m] # i THEN None
                                   ELSE of(CHOOSE m \in Path : at[m] = i)]
      BY <2>1
    <3>. HIDE DEF of
    <3>4. inode[names[n]] = of(n)  BY <3>1, <3>2, <3>3
    <3>5. CASE n \in DOMAIN StartLinks
      <4>1. Whole(of(n))  BY <3>5 DEF of, NewInode, Whole, InodeFields
      <4>. QED  BY <3>1, <3>4, <4>1
    <3>6. CASE n \notin DOMAIN StartLinks
      <4>1. start[n] \in setting.initial \ {None}  BY <2>1, <2>3, <3>6
      <4>2. start[n] \in Texts  BY <4>1 DEF Texts, Saved
      <4>3. Whole(of(n))  BY <3>6, <4>2 DEF of, NewInode, Whole, InodeFields
      <4>. QED  BY <3>1, <3>4, <4>3
    <3>. QED  BY <3>5, <3>6
  <2>. QED  BY <2>2, <2>3 DEF StoreSound
<1>3. ASSUME NEW p \in Proc PROVE Untorn(p)
  <2>1. fmt[p].pc = "next"
    <3>. DEFINE l == [Idle EXCEPT !.todo = setting.args[p]]
    <3>1. fmt[p] = l /\ l.pc = "next"  BY DEF Init, Idle
    <3>. QED  BY <3>1
  <2>2. /\ fmt[p].pc # "read" /\ fmt[p].pc \notin HasFile /\ fmt[p].pc \notin Snapped /\ fmt[p].pc \notin WholeRead
        /\ fmt[p].pc \notin HasTemp /\ fmt[p].pc \notin Copied
        /\ fmt[p].pc \notin Verified /\ fmt[p].pc \notin Synced
    BY <2>1 DEF HasFile, Snapped, WholeRead, Counted, HasTemp, Copied, Reopened, Verified, Synced
  <2>. QED  BY <2>2 DEF Untorn
<1>. QED  BY <1>1, <1>2, <1>3 DEF NInv

\* Each step of a run is of a run that is alive.
LEMMA StepNInv ==
  ASSUME NInv, IInv, NEW p \in Proc, Step(p)
  PROVE  NInv'
<1>1. fmt[p].pc \notin {"exited", "dead"}
  BY DEF Step, Resolve, StatPath, Open, TakeSnapshot, ReadChunk, Decide, EnsureSingleLink,
         CreateTemporary, WriteChunk, CopyMetadata, Sync, Reopen, Restat, Relink, RereadChunk,
         CompareText, RestatAgain, RelinkAgain, Rename, Finish, At
<1>2. Live(p)  BY <1>1 DEF Live
<1>. QED
  BY <1>2, FirstLookNInv, ReadNInv, TemporaryNInv, SecondLookNInv, RenameNInv DEF Step

\* Every step of the system keeps texts whole.
LEMMA NextNInv ==
  ASSUME NInv, IInv, [Next]_vars
  PROVE  NInv'
<1>1. ASSUME NEW p \in Proc, Fault(p) \/ Kill(p) PROVE NInv'
  <2>1. Live(p)  BY <1>1 DEF Live, Fault, Kill
  <2>. QED  BY <1>1, <2>1, StopNInv
<1>2. CASE Tick
  <2>1. SettingSound /\ UNCHANGED <<names, disk, inode, fmt>>  BY <1>2 DEF IInv, Tick
  <2>. QED  BY <1>2, <2>1, StillNInv
<1>3. CASE Terminated \/ UNCHANGED vars
  <2>1. UNCHANGED <<names, disk, inode, fmt>> /\ UNCHANGED setting
    BY <1>3 DEF Terminated, vars, fs
  <2>. QED  BY <2>1, StillNInv
<1>. QED
  BY <1>1, <1>2, <1>3, StepNInv, PowerLossNInv, CommitNInv, OthersNInv DEF Next

\* Where timestamps tell changes apart, no path ever holds anything but a text that was
\* saved or the formatting of one: torn reads, unfinished writes and lost data never get a name.
THEOREM NothingIsInvented ==
  ASSUME NamesStay
  PROVE  Spec => []NothingInvented
<1>1. Init => IInv /\ NInv  BY InitIInv, InitNInv
<1>2. IInv /\ NInv /\ [Next]_vars => IInv' /\ NInv'  BY NextIInv, NextNInv
<1>3. NInv => NothingInvented
  <2>1. SUFFICES ASSUME NInv, TimesTell, NEW n \in Path, Kind(n) = "file"
                 PROVE  Content(n) \in Texts
    BY DEF NothingInvented, TimesTell
  <2>2. names[n] # None /\ inode[names[n]].kind = "file"  BY <2>1, FileTaken
  <2>3. Follow(n) = n /\ n # None  BY <2>1, FollowSelf, SettingsAssumption
  <2>4. Content(n) = inode[names[n]].data  BY <2>2, <2>3 DEF Content, Opened
  <2>. QED  BY <2>1, <2>2, <2>4 DEF NInv, StoreSound, Whole
<1>. QED  BY <1>1, <1>2, <1>3, PTL DEF Spec

-----------------------------------------------------------------------------
\* Where nobody else changes files.

\* One content is another, or its canonical form.
Ahead(later, earlier) ==
  later = earlier \/ (Format(earlier) # Invalid /\ later = Format(earlier))

\* No name comes or goes: links stay, and files only become canonical, on the disk
\* after the directory.
QuietStore ==
  \A n \in Path :
    /\ (names[n] = None <=> disk[n] = None)
    /\ names[n] # None /\ n \in LinkNames =>
         /\ names[n] = disk[n] /\ inode[names[n]].kind = "symlink"
    /\ names[n] # None /\ n \notin LinkNames =>
         /\ inode[names[n]].kind = "file" /\ inode[disk[n]].kind = "file"
         /\ Ahead(inode[names[n]].data, inode[disk[n]].data)

\* The target is still what the argument leads to, and holds what was opened there or
\* its canonical form.
QuietRun(p) ==
  /\ Working(p) => fmt[p].target = Follow(Head(fmt[p].todo)) /\ names[fmt[p].target] # None
  /\ fmt[p].pc \in HasFile =>
       /\ inode[fmt[p].file].kind = "file"
       /\ Ahead(inode[names[fmt[p].target]].data, inode[fmt[p].file].data)

\* How many arguments are done.
Done(p) == Len(setting.args[p]) - Len(fmt[p].todo)

\* What is done is canonical, or was found not to be.
SoFar(p) ==
  /\ Done(p) >= 0
  /\ \A k \in 1..Len(fmt[p].todo) : fmt[p].todo[k] = setting.args[p][Done(p) + k]
  /\ \A k \in 1..Done(p) : Canonical(setting.args[p][k]) \/ (Check(p) /\ fmt[p].changed)

\* A run that checks prints what it finds, and one that exits tells the truth.
Truth(p) ==
  /\ Check(p) /\ fmt[p].changed => report[p] # {}
  /\ fmt[p].pc \in WholeRead => ~ Check(p)
  /\ fmt[p].pc # "exited" => SoFar(p)
  /\ fmt[p].pc = "exited" =>
       /\ fmt[p].exit = 0 => \A k \in DOMAIN setting.args[p] : Canonical(setting.args[p][k])
       /\ fmt[p].exit = 1 => fmt[p].todo # <<>> \/ report[p] # {}

NobodyDead == \A p \in Proc : ~ At(p, "dead")

UInv ==
  /\ DOMAIN report = Proc /\ setting.crashes \in Int
  /\ Undisturbed =>
       /\ QuietStore
       /\ \A p \in Proc : QuietRun(p)
       /\ NobodyDead => \A p \in Proc : Truth(p)

\* What one step makes of the paths: nothing, their canonical form, or what a power loss
\* takes them back to.
CanonicalStep ==
  Undisturbed =>
    \A n \in Path : Content(n)' # Content(n) =>
      \/ Formats(Content(n), Content(n)')
      \/ setting' # setting /\ Formats(Content(n)', Content(n))

\* The settings that matter here stay.
SameSetting ==
  /\ Proc' = Proc /\ setting'.args = setting.args /\ setting'.check = setting.check
  /\ setting'.saves = setting.saves

\* No name comes, goes, or becomes another link.
NamesKept ==
  \A n \in Path :
    /\ (names'[n] = None <=> names[n] = None)
    /\ names[n] # None /\ n \in LinkNames =>
         names'[n] = names[n] /\ inode'[names[n]].dest = inode[names[n]].dest

\* Both have the same canonical form.
LEMMA FormSame ==
  ASSUME TextsSound, NEW earlier \in Texts, NEW later, Ahead(later, earlier)
  PROVE  Format(later) = Format(earlier)
BY FormatsAText DEF Ahead

\* And that is ahead of both.
LEMMA FormAhead ==
  ASSUME TextsSound, NEW earlier \in Texts, NEW later, Ahead(later, earlier),
         Format(later) # Invalid
  PROVE  Ahead(Format(later), earlier)
BY FormSame DEF Ahead

\* What is left of a bound is no setting that matters here.
LEMMA QuietSetting ==
  ASSUME SettingSound, setting.crashes \in Int,
         NEW what, what \in {"edits", "ticks", "crashes", "faults"}, NEW n,
         setting' = [setting EXCEPT ![what] = n] \/ UNCHANGED setting,
         what = "crashes" => n \in Int
  PROVE  SameSetting /\ setting'.crashes \in Int
<1>1. {"args", "check", "saves", "modes", "extras", "coarse",
       "edits", "ticks", "crashes", "faults"} \subseteq DOMAIN setting
  BY DEF SettingSound
<1>. QED  BY <1>1 DEF SameSetting, Proc

\* The kinds are of the names.
LEMMA QuietKind ==
  ASSUME QuietStore, NEW n \in Path
  PROVE  Kind(n) = IF names[n] = None THEN None ELSE IF n \in LinkNames THEN "symlink" ELSE "file"
BY DEF QuietStore, Kind

\* And so are the kinds one step later.
LEMMA QuietKindLater ==
  ASSUME QuietStore', NEW n \in Path
  PROVE  Kind(n)' = IF names'[n] = None THEN None ELSE IF n \in LinkNames THEN "symlink" ELSE "file"
BY DEF QuietStore, Kind

\* So every name leads where it led.
LEMMA FollowStays ==
  ASSUME QuietStore, QuietStore', NamesKept
  PROVE  \A n \in Path : Follow(n)' = Follow(n)
<1>1. \A n \in Path : Kind(n)' = Kind(n)  BY QuietKind, QuietKindLater DEF NamesKept
<1>2. ASSUME NEW n \in Path, Kind(n) = "symlink"
      PROVE  inode'[names'[n]].dest = inode[names[n]].dest
  <2>1. names[n] # None /\ n \in LinkNames
    BY <1>2, QuietKind, SettingsAssumption
  <2>. QED  BY <2>1 DEF NamesKept
<1>3. ASSUME NEW n \in Path, NEW m \in Path, NEW hops \in 0..Cardinality(LinkNames),
             NEW way \in [0..hops -> Path], NEW k \in 1..hops
      PROVE  (Kind(way[k - 1]) = "symlink" /\ inode[names[way[k - 1]]].dest = way[k])' <=>
             (Kind(way[k - 1]) = "symlink" /\ inode[names[way[k - 1]]].dest = way[k])
  <2>1. k - 1 \in 0..hops  OBVIOUS
  <2>2. way[k - 1] \in Path  BY <2>1
  <2>. QED  BY <1>1, <1>2, <2>2
<1>4. ASSUME NEW n \in Path, NEW m \in Path
      PROVE  LeadsTo(n, m)' <=> LeadsTo(n, m)
  BY <1>3 DEF LeadsTo
<1>5. ASSUME NEW n \in Path PROVE Follow(n)' = Follow(n)
  <2>. DEFINE ends == {m \in Path : Kind(m) # "symlink" /\ LeadsTo(n, m)}
              one(S) == CHOOSE m \in S : TRUE
  <2>1. ends' = ends  BY <1>1, <1>4
  <2>2. Follow(n) = IF Kind(n) # "symlink" THEN n ELSE IF ends # {} THEN one(ends) ELSE None
    BY DEF Follow
  <2>3. Follow(n)' = IF Kind(n)' # "symlink" THEN n ELSE IF ends' # {} THEN one(ends') ELSE None
    BY DEF Follow
  <2>. HIDE DEF ends, one
  <2>. QED  BY <1>1, <2>1, <2>2, <2>3
<1>. QED  BY <1>5

\* What a path holds, before and after.
LEMMA ContentMoves ==
  ASSUME QuietStore, QuietStore', NamesKept, NEW n \in Path
  PROVE  \/ Content(n) = None /\ Content(n)' = None
         \/ \E m \in Path \ LinkNames :
              /\ Follow(n) = m /\ names[m] # None
              /\ Content(n) = inode[names[m]].data /\ Content(n)' = inode'[names'[m]].data
<1>1. Follow(n)' = Follow(n)  BY FollowStays
<1>2. CASE Follow(n) = None  BY <1>1, <1>2 DEF Content, Opened
<1>3. CASE Follow(n) # None
  <2>. DEFINE m == Follow(n)
  <2>1. m \in Path /\ Kind(m) # "symlink"  BY <1>3, FollowPath
  <2>. HIDE DEF m
  <2>2. names[m] # None => m \notin LinkNames  BY <2>1, QuietKind
  <2>3. Content(n) = IF names[m] = None THEN None ELSE inode[names[m]].data
    BY <1>3 DEF Content, Opened, m
  <2>4. Content(n)' = IF names'[m] = None THEN None ELSE inode'[names'[m]].data
    BY <1>1, <1>3 DEF Content, Opened, m
  <2>5. names'[m] = None <=> names[m] = None  BY <2>1 DEF NamesKept
  <2>. QED  BY <2>1, <2>2, <2>3, <2>4, <2>5 DEF m
<1>. QED  BY <1>2, <1>3

\* What a name of a file has, in the directory and on the disk.
LEMMA QuietFile ==
  ASSUME NInv, UInv, Undisturbed, NEW n \in Path, n \notin LinkNames, names[n] # None
  PROVE  /\ TextsSound /\ names[n] \in Inode /\ disk[n] # None /\ disk[n] \in Inode
         /\ Whole(inode[names[n]]) /\ Whole(inode[disk[n]])
         /\ inode[names[n]].kind = "file" /\ inode[disk[n]].kind = "file"
         /\ inode[names[n]].data \in Texts /\ inode[disk[n]].data \in Texts
         /\ Ahead(inode[names[n]].data, inode[disk[n]].data)
<1>1. TextsSound /\ StoreSound /\ QuietStore  BY DEF NInv, UInv, TimesTell
<1>2. /\ disk[n] # None
      /\ inode[names[n]].kind = "file" /\ inode[disk[n]].kind = "file"
      /\ Ahead(inode[names[n]].data, inode[disk[n]].data)
  BY <1>1 DEF QuietStore
<1>3. /\ names[n] \in Inode /\ Whole(inode[names[n]])
      /\ disk[n] \in Inode /\ Whole(inode[disk[n]])
  BY <1>1, <1>2 DEF StoreSound
<1>. QED  BY <1>1, <1>2, <1>3 DEF Whole

\* What no run gets to see: every path leads where it led, and what was canonical is.
Calmed ==
  \A n \in Path :
    /\ Follow(n)' = Follow(n)
    /\ Canonical(n) => Canonical(n)'

\* A step that leaves the named files alone is such a step.
LEMMA CalmPaths ==
  ASSUME QuietStore, QuietStore', UNCHANGED names,
         \A n \in Path : names[n] # None => inode'[names[n]] = inode[names[n]]
  PROVE  Calmed /\ \A n \in Path : Content(n)' = Content(n)
<1>1. NamesKept  BY DEF NamesKept
<1>2. \A n \in Path : Follow(n)' = Follow(n)  BY <1>1, FollowStays
<1>3. \A n \in Path : Content(n)' = Content(n)  BY <1>1, ContentMoves
<1>4. \A n \in Path : Canonical(n) => Canonical(n)'  BY <1>3 DEF Canonical
<1>. QED  BY <1>2, <1>3, <1>4 DEF Calmed

\* A run that does nothing is still right about what it has done.
LEMMA SoFarStays ==
  ASSUME SettingSound, SameSetting, NEW q \in Proc, SoFar(q), fmt[q].todo \in Seq(Path),
         fmt'[q].todo = fmt[q].todo, Check(q) /\ fmt[q].changed => fmt'[q].changed, Calmed
  PROVE  SoFar(q)'
<1>1. Done(q)' = Done(q)  BY DEF Done, SameSetting
<1>2. setting.args[q] \in Seq(Path)  BY DEF SettingSound
<1>3. ASSUME NEW k \in 1..Done(q)
      PROVE  Canonical(setting.args[q][k])' \/ (Check(q)' /\ fmt'[q].changed)
  <2>1. CASE Canonical(setting.args[q][k])
    <3>0. Len(setting.args[q]) \in Nat /\ Len(fmt[q].todo) \in Nat  BY <1>2
    <3>1. k \in 1..Len(setting.args[q])  BY <3>0 DEF Done
    <3>2. setting.args[q][k] \in Path  BY <1>2, <3>1
    <3>3. setting'.args[q][k] = setting.args[q][k]  BY DEF SameSetting
    <3>4. \A n \in Path : Canonical(n) => Canonical(n)'  BY DEF Calmed
    <3>. QED  BY <2>1, <3>2, <3>3, <3>4
  <2>2. CASE Check(q) /\ fmt[q].changed  BY <2>2 DEF Check, SameSetting
  <2>. QED  BY <2>1, <2>2 DEF SoFar
<1>4. \A k \in 1..Len(fmt'[q].todo) : fmt'[q].todo[k] = setting'.args[q][Done(q) + k]
  BY DEF SoFar, SameSetting
<1>5. Done(q)' >= 0  BY <1>1 DEF SoFar
<1>. QED  BY <1>1, <1>3, <1>4, <1>5 DEF SoFar

\* Nor is one that has said what it found.
LEMMA TruthStays ==
  ASSUME SettingSound, SameSetting, NEW q \in Proc, Truth(q), fmt'[q] = fmt[q],
         report'[q] = report[q], fmt[q].pc # "exited" => fmt[q].todo \in Seq(Path), Calmed
  PROVE  Truth(q)'
<1>1. Check(q)' <=> Check(q)  BY DEF Check, SameSetting
<1>2. (fmt[q].pc # "exited" => SoFar(q))'  BY SoFarStays DEF Truth
<1>3. ASSUME fmt[q].pc = "exited", fmt[q].exit = 0, NEW k \in DOMAIN setting.args[q]
      PROVE  Canonical(setting.args[q][k])'
  <2>1. setting.args[q] \in Seq(Path)  BY DEF SettingSound
  <2>2. setting.args[q][k] \in Path /\ setting'.args[q][k] = setting.args[q][k]
    BY <2>1 DEF SameSetting
  <2>3. Canonical(setting.args[q][k])  BY <1>3 DEF Truth
  <2>4. \A n \in Path : Canonical(n) => Canonical(n)'  BY DEF Calmed
  <2>. QED  BY <2>2, <2>3, <2>4
<1>4. (fmt[q].pc = "exited" =>
        /\ fmt[q].exit = 0 => \A k \in DOMAIN setting.args[q] : Canonical(setting.args[q][k])
        /\ fmt[q].exit = 1 => fmt[q].todo # <<>> \/ report[q] # {})'
  <2>1. DOMAIN setting'.args[q] = DOMAIN setting.args[q]  BY DEF SameSetting
  <2>. QED  BY <1>3, <2>1 DEF Truth
<1>5. (Check(q) /\ fmt[q].changed => report[q] # {})'  BY <1>1 DEF Truth
<1>6. (fmt[q].pc \in WholeRead => ~ Check(q))'  BY <1>1 DEF Truth
<1>. QED  BY <1>2, <1>4, <1>5, <1>6 DEF Truth

\* Nor does it lose its target.
LEMMA QuietRunStays ==
  ASSUME IInv, NEW q \in Proc, QuietRun(q), Calmed,
         fmt'[q].todo = fmt[q].todo, fmt'[q].target = fmt[q].target,
         fmt'[q].file = fmt[q].file, Working(q)' => Working(q),
         fmt'[q].pc \in HasFile => fmt[q].pc \in HasFile,
         Working(q) => names'[fmt[q].target] # None,
         fmt[q].pc \in HasFile =>
           /\ inode'[fmt[q].file] = inode[fmt[q].file]
           /\ Ahead(inode'[names'[fmt[q].target]].data, inode[fmt[q].file].data)
  PROVE  QuietRun(q)'
<1>1. (Working(q) => fmt[q].target = Follow(Head(fmt[q].todo)) /\ names[fmt[q].target] # None)'
  <2>1. SUFFICES ASSUME Working(q), Working(q)'
                 PROVE  (fmt[q].target = Follow(Head(fmt[q].todo)) /\ names[fmt[q].target] # None)'
    OBVIOUS
  <2>2. Live(q)  BY <2>1 DEF Working, Live
  <2>3. fmt[q].todo \in Seq(Path) /\ fmt[q].todo # <<>>  BY <2>1, <2>2, Known DEF Local
  <2>4. Head(fmt[q].todo) \in Path  BY <2>3
  <2>5. \A n \in Path : Follow(n)' = Follow(n)  BY DEF Calmed
  <2>6. Follow(Head(fmt[q].todo))' = Follow(Head(fmt[q].todo))  BY <2>4, <2>5
  <2>7. fmt[q].target = Follow(Head(fmt[q].todo))  BY <2>1 DEF QuietRun
  <2>. QED  BY <2>1, <2>6, <2>7
<1>2. (fmt[q].pc \in HasFile =>
        /\ inode[fmt[q].file].kind = "file"
        /\ Ahead(inode[names[fmt[q].target]].data, inode[fmt[q].file].data))'
  BY DEF QuietRun, Ahead
<1>. QED  BY <1>1, <1>2 DEF QuietRun

-----------------------------------------------------------------------------
\* The steps of a run that renames nothing.

\* What a name leads to, now or after a power loss, or a run has read from.
Seen(i) ==
  /\ i \in Inode
  /\ \/ \E n \in Path : names[n] = i \/ disk[n] = i
     \/ \E q \in Proc : fmt[q].pc \in HasFile /\ fmt[q].file = i

\* What is left to show of a step of one run that changes nothing that is seen.
LEMMA RunUInv ==
  ASSUME IInv, NInv, UInv, NEW p, Live(p), UNCHANGED <<names, disk>>,
         SameSetting, setting'.crashes \in Int, DOMAIN report' = Proc,
         \A q \in Proc : q # p => fmt'[q] = fmt[q] /\ report'[q] = report[q],
         Undisturbed => \A i : Seen(i) => inode'[i] = inode[i],
         Undisturbed /\ Calmed => QuietRun(p)',
         Undisturbed /\ Calmed /\ Truth(p) /\ ~ At(p, "dead")' => Truth(p)'
  PROVE  UInv' /\ CanonicalStep
<1>1. (Undisturbed' <=> Undisturbed) /\ Proc' = Proc  BY DEF Undisturbed, SameSetting
<1>2. SUFFICES ASSUME Undisturbed
               PROVE  /\ QuietStore' /\ \A n \in Path : Content(n)' = Content(n)
                      /\ \A q \in Proc : QuietRun(q)'
                      /\ NobodyDead' => \A q \in Proc : Truth(q)'
  BY <1>1 DEF UInv, CanonicalStep
<1>3. QuietStore /\ \A q \in Proc : QuietRun(q)  BY <1>2 DEF UInv
<1>4. \A n \in Path : /\ names[n] # None => inode'[names[n]] = inode[names[n]]
                      /\ disk[n] # None => inode'[disk[n]] = inode[disk[n]]
  <2>1. StoreSound  BY <1>2 DEF NInv, TimesTell
  <2>. QED  BY <1>2, <2>1 DEF Seen, StoreSound
<1>5. QuietStore'  BY <1>3, <1>4 DEF QuietStore, Ahead
<1>6. Calmed /\ \A n \in Path : Content(n)' = Content(n)  BY <1>3, <1>4, <1>5, CalmPaths
<1>7. ASSUME NEW q \in Proc, q # p PROVE QuietRun(q)'
  <2>1. fmt'[q] = fmt[q] /\ QuietRun(q)  BY <1>3, <1>7
  <2>2. Working(q)' => Working(q)  BY <2>1 DEF Working
  <2>3. Working(q) => names'[fmt[q].target] # None  BY <2>1 DEF QuietRun
  <2>4. ASSUME fmt[q].pc \in HasFile
        PROVE  /\ inode'[fmt[q].file] = inode[fmt[q].file]
               /\ Ahead(inode'[names'[fmt[q].target]].data, inode[fmt[q].file].data)
    <3>1. Working(q) /\ Live(q)
      BY <2>4 DEF Working, Live, HasFile, Snapped, WholeRead, Counted, HasTemp, Copied, Reopened
    <3>2. fmt[q].target \in Path  BY <3>1, Known
    <3>3. inode'[names[fmt[q].target]] = inode[names[fmt[q].target]]
      BY <1>4, <2>1, <3>1, <3>2 DEF QuietRun
    <3>4. fmt[q].file \in Inode  BY <2>4, <3>1, Known DEF Local
    <3>5. inode'[fmt[q].file] = inode[fmt[q].file]  BY <1>2, <2>4, <3>4 DEF Seen
    <3>. QED  BY <2>1, <2>4, <3>3, <3>5 DEF QuietRun
  <2>. QED  BY <1>6, <2>1, <2>2, <2>3, <2>4, QuietRunStays
<1>8. ASSUME NobodyDead', NEW q \in Proc PROVE Truth(q)'
  <2>1. NobodyDead
    <3>1. \A r \in Proc : r # p => fmt[r].pc # "dead"  BY <1>1, <1>8 DEF NobodyDead, At
    <3>. QED  BY <3>1 DEF NobodyDead, At, Live
  <2>2. Truth(q) /\ SettingSound  BY <1>2, <2>1 DEF UInv, IInv
  <2>3. CASE q = p
    <3>1. ~ At(p, "dead")'  BY <1>1, <1>8, <2>3 DEF NobodyDead
    <3>. QED  BY <1>2, <1>6, <2>2, <2>3, <3>1
  <2>4. CASE q # p
    <3>1. fmt[q].pc # "exited" => fmt[q].todo \in Seq(Path)
      <4>1. fmt[q].pc # "exited" => Live(q)  BY <2>1 DEF NobodyDead, At, Live
      <4>. QED  BY <4>1, Known DEF Local
    <3>. QED  BY <1>6, <2>2, <2>4, <3>1, TruthStays
  <2>. QED  BY <2>3, <2>4
<1>. QED  BY <1>2, <1>3, <1>5, <1>6, <1>7, <1>8

\* What is left to show of a step that goes on with the file, or begins one.
LEMMA KeepsUInv ==
  ASSUME IInv, NInv, UInv, NEW p, Live(p), Working(p), UNCHANGED <<names, disk, setting, report>>,
         \A q \in Proc : q # p => fmt'[q] = fmt[q],
         Undisturbed => \A i : Seen(i) => inode'[i] = inode[i],
         fmt'[p].todo = fmt[p].todo, fmt'[p].target = fmt[p].target,
         fmt'[p].changed = fmt[p].changed, Working(p)',
         fmt[p].pc \in HasFile => fmt'[p].file = fmt[p].file,
         fmt'[p].pc \in HasFile /\ fmt[p].pc \notin HasFile => fmt'[p].file = names[fmt[p].target],
         fmt'[p].pc \in WholeRead => fmt[p].pc \in WholeRead \/ ~ Check(p)
  PROVE  UInv' /\ CanonicalStep
<1>1. SameSetting /\ setting'.crashes \in Int /\ DOMAIN report' = Proc /\ SettingSound
  BY DEF SameSetting, UInv, IInv, Proc
<1>2. p \in Proc /\ Local(p)  BY Known
<1>3. ASSUME Undisturbed, Calmed PROVE QuietRun(p)'
  <2>1. QuietRun(p)  BY <1>2, <1>3 DEF UInv
  <2>2. fmt[p].target \in Path /\ fmt[p].target \notin LinkNames
    BY <1>2, LiveSound, BoundsAssumption DEF Local, NamesStay
  <2>3. inode'[names[fmt[p].target]] = inode[names[fmt[p].target]]
    <3>1. names[fmt[p].target] # None  BY <2>1 DEF QuietRun
    <3>2. names[fmt[p].target] \in Inode  BY <1>3, <2>2, <3>1, QuietFile
    <3>. QED  BY <1>3, <2>2, <3>2 DEF Seen
  <2>4. CASE fmt[p].pc \in HasFile
    <3>1. inode'[fmt[p].file] = inode[fmt[p].file]  BY <1>2, <1>3, <2>4 DEF Seen, Local
    <3>2. Ahead(inode'[names'[fmt[p].target]].data, inode[fmt[p].file].data)
      BY <2>1, <2>3, <2>4 DEF QuietRun
    <3>3. names'[fmt[p].target] # None  BY <2>1 DEF QuietRun
    <3>. QED  BY <1>2, <1>3, <2>1, <2>4, <3>1, <3>2, <3>3, QuietRunStays
  <2>5. CASE fmt[p].pc \notin HasFile
    <3>1. (Working(p) => fmt[p].target = Follow(Head(fmt[p].todo)) /\ names[fmt[p].target] # None)'
      <4>0. fmt[p].todo \in Seq(Path) /\ fmt[p].todo # <<>>  BY <1>2 DEF Local
      <4>1. Head(fmt[p].todo) \in Path  BY <4>0
      <4>2. \A n \in Path : Follow(n)' = Follow(n)  BY <1>3 DEF Calmed
      <4>3. Follow(Head(fmt[p].todo))' = Follow(Head(fmt[p].todo))  BY <4>1, <4>2
      <4>. QED  BY <2>1, <4>3 DEF QuietRun
    <3>2. names[fmt[p].target] # None => inode[names[fmt[p].target]].kind = "file"
      BY <1>3, <2>2, QuietFile
    <3>3. (fmt[p].pc \in HasFile =>
            /\ inode[fmt[p].file].kind = "file"
            /\ Ahead(inode[names[fmt[p].target]].data, inode[fmt[p].file].data))'
      BY <2>1, <2>3, <2>5, <3>2 DEF Ahead, QuietRun
    <3>. QED  BY <3>1, <3>3 DEF QuietRun
  <2>. QED  BY <2>4, <2>5
<1>4. ASSUME Calmed, Truth(p) PROVE Truth(p)'
  <2>1. fmt[p].pc # "exited" /\ fmt'[p].pc # "exited"  BY DEF Working
  <2>2. SoFar(p)'  BY <1>1, <1>2, <1>4, <2>1, SoFarStays DEF Truth, Local
  <2>3. (Check(p) /\ fmt[p].changed => report[p] # {})'  BY <1>4 DEF Truth, Check
  <2>4. (fmt[p].pc \in WholeRead => ~ Check(p))'  BY <1>4 DEF Truth, Check
  <2>. QED  BY <2>1, <2>2, <2>3, <2>4 DEF Truth
<1>. QED  BY <1>1, <1>3, <1>4, RunUInv

\* What is left to show of a run that exits: why.
LEMMA ExitUInv ==
  ASSUME IInv, NInv, UInv, NEW p, Live(p), UNCHANGED <<names, disk, inode, report>>,
         SameSetting, setting'.crashes \in Int, NEW code, Exits(p, code), code \in {0, 1},
         code = 1 => fmt[p].todo # <<>> \/ (Check(p) /\ fmt[p].changed),
         code = 0 => fmt[p].todo = <<>> /\ ~ (Check(p) /\ fmt[p].changed)
  PROVE  UInv' /\ CanonicalStep
<1>. DEFINE l == [Idle EXCEPT !.pc = "exited", !.todo = fmt[p].todo, !.exit = code]
<1>1. fmt' = [fmt EXCEPT ![p] = l]  BY DEF Exits
<1>2. /\ l.pc = "exited" /\ l.todo = fmt[p].todo /\ l.exit = code /\ l.changed = FALSE
  BY DEF Idle
<1>. HIDE DEF l
<1>3. fmt'[p] = l /\ \A q \in Proc : q # p => fmt'[q] = fmt[q]  BY <1>1, Known
<1>4. fmt'[p].pc \notin HasFile /\ fmt'[p].pc \notin WholeRead
  BY <1>2, <1>3 DEF HasFile, Snapped, WholeRead, Counted, HasTemp, Copied, Reopened
<1>5. QuietRun(p)'  BY <1>2, <1>3, <1>4 DEF QuietRun, Working
<1>6. ASSUME Undisturbed, Calmed, Truth(p) PROVE Truth(p)'
  <2>1. SoFar(p) /\ (Check(p) /\ fmt[p].changed => report[p] # {})
    BY <1>6 DEF Truth, Live
  <2>2. ASSUME code = 0, NEW k \in DOMAIN setting.args[p] PROVE Canonical(setting.args[p][k])'
    <3>1. setting.args[p] \in Seq(Path) /\ Len(fmt[p].todo) = 0
      BY <2>2, LiveSound, SeqEmpty DEF SettingSound, Live
    <3>2. k \in 1..Done(p) /\ setting.args[p][k] \in Path  BY <3>1 DEF Done
    <3>3. Canonical(setting.args[p][k])  BY <2>1, <2>2, <3>2 DEF SoFar
    <3>4. \A n \in Path : Canonical(n) => Canonical(n)'  BY <1>6 DEF Calmed
    <3>5. setting'.args[p][k] = setting.args[p][k]  BY DEF SameSetting
    <3>. QED  BY <3>2, <3>3, <3>4, <3>5
  <2>3. (fmt[p].exit = 0 => \A k \in DOMAIN setting.args[p] : Canonical(setting.args[p][k]))'
    <3>1. DOMAIN setting'.args[p] = DOMAIN setting.args[p]  BY DEF SameSetting
    <3>. QED  BY <1>2, <1>3, <2>2, <3>1
  <2>4. (fmt[p].exit = 1 => fmt[p].todo # <<>> \/ report[p] # {})'  BY <1>2, <1>3, <2>1
  <2>5. ~ fmt'[p].changed  BY <1>2, <1>3
  <2>. QED  BY <1>2, <1>3, <1>4, <2>3, <2>4, <2>5 DEF Truth
<1>7. DOMAIN report' = Proc  BY DEF UInv
<1>. QED  BY <1>3, <1>5, <1>6, <1>7, RunUInv

\* A step that fails.
LEMMA FailUInv ==
  ASSUME IInv, NInv, UInv, NEW p, Live(p), Fail(p), fmt[p].todo # <<>>
  PROVE  UInv' /\ CanonicalStep
<1>1. Exits(p, 1) /\ UNCHANGED <<names, disk, inode, report, setting>>  BY DEF Fail, Private, fs
<1>2. SameSetting /\ setting'.crashes \in Int  BY <1>1 DEF SameSetting, UInv, Proc
<1>. QED  BY <1>1, <1>2, ExitUInv

\* What is left of a sequence after one more.
LEMMA TailOf ==
  ASSUME NEW S, NEW args \in Seq(S), NEW todo \in Seq(S), todo # <<>>,
         NEW d, d = Len(args) - Len(todo), d >= 0, \A k \in 1..Len(todo) : todo[k] = args[d + k]
  PROVE  /\ d \in Nat /\ Len(args) - Len(Tail(todo)) = d + 1 /\ d + 1 <= Len(args)
         /\ args[d + 1] = Head(todo)
         /\ \A k \in 1..Len(Tail(todo)) : Tail(todo)[k] = args[(d + 1) + k]
<1>1. /\ Len(todo) \in Nat \ {0} /\ Len(Tail(todo)) = Len(todo) - 1
      /\ \A k \in 1..(Len(todo) - 1) : Tail(todo)[k] = todo[k + 1]
      /\ Head(todo) = todo[1] /\ Len(args) \in Nat
  OBVIOUS
<1>2. d \in Nat /\ Len(args) - Len(Tail(todo)) = d + 1 /\ d + 1 <= Len(args)  BY <1>1
<1>3. \A k \in 1..Len(Tail(todo)) : Tail(todo)[k] = args[(d + 1) + k]
  <2>1. SUFFICES ASSUME NEW k \in 1..(Len(todo) - 1) PROVE todo[k + 1] = args[(d + 1) + k]
    BY <1>1
  <2>2. k + 1 \in 1..Len(todo) /\ d + (k + 1) = (d + 1) + k  BY <1>1, <1>2
  <2>. QED  BY <2>2
<1>. QED  BY <1>1, <1>2, <1>3

\* One argument more is done.
LEMMA OneMore ==
  ASSUME SettingSound, SameSetting, NEW p \in Proc, SoFar(p),
         fmt[p].todo \in Seq(Path), fmt[p].todo # <<>>, fmt'[p].todo = Tail(fmt[p].todo),
         \A n \in Path : Canonical(n) => Canonical(n)',
         Check(p) /\ fmt[p].changed => fmt'[p].changed,
         NEW arg, arg = Head(fmt[p].todo), Canonical(arg)' \/ (Check(p) /\ fmt'[p].changed)
  PROVE  SoFar(p)'
<1>1. setting.args[p] \in Seq(Path) /\ setting'.args[p] = setting.args[p] /\ (Check(p)' <=> Check(p))
  BY DEF SettingSound, SameSetting, Check
<1>2. /\ Done(p) \in Nat /\ Len(setting.args[p]) - Len(Tail(fmt[p].todo)) = Done(p) + 1
      /\ Done(p) + 1 <= Len(setting.args[p])
      /\ setting.args[p][Done(p) + 1] = Head(fmt[p].todo)
      /\ \A k \in 1..Len(Tail(fmt[p].todo)) :
           Tail(fmt[p].todo)[k] = setting.args[p][(Done(p) + 1) + k]
  <2>1. /\ Done(p) = Len(setting.args[p]) - Len(fmt[p].todo) /\ Done(p) >= 0
        /\ \A k \in 1..Len(fmt[p].todo) : fmt[p].todo[k] = setting.args[p][Done(p) + k]
    BY DEF SoFar, Done
  <2>2. PICK args \in Seq(Path) : args = setting.args[p]  BY <1>1
  <2>3. PICK todo \in Seq(Path) : todo = fmt[p].todo  OBVIOUS
  <2>4. PICK d : d = Done(p)  OBVIOUS
  <2>5. /\ d = Len(args) - Len(todo) /\ d >= 0 /\ todo # <<>>
        /\ \A k \in 1..Len(todo) : todo[k] = args[d + k]
    BY <2>1, <2>2, <2>3, <2>4
  <2>6. /\ d \in Nat /\ Len(args) - Len(Tail(todo)) = d + 1 /\ d + 1 <= Len(args)
        /\ args[d + 1] = Head(todo)
        /\ \A k \in 1..Len(Tail(todo)) : Tail(todo)[k] = args[(d + 1) + k]
    BY <2>5, TailOf
  <2>. QED  BY <2>2, <2>3, <2>4, <2>6
<1>3. Done(p)' = Done(p) + 1  BY <1>1, <1>2 DEF Done
<1>4. ASSUME NEW k \in 1..(Done(p) + 1)
      PROVE  Canonical(setting.args[p][k])' \/ (Check(p) /\ fmt'[p].changed)
  <2>1. CASE k = Done(p) + 1
    <3>1. setting'.args[p][k] = arg  BY <1>1, <1>2, <2>1
    <3>. QED  BY <3>1
  <2>2. CASE k # Done(p) + 1
    <3>1. k \in 1..Done(p) /\ k \in 1..Len(setting.args[p])  BY <1>1, <1>2, <2>2
    <3>2. Canonical(setting.args[p][k]) \/ (Check(p) /\ fmt[p].changed)
      BY <3>1 DEF SoFar
    <3>3. setting.args[p][k] \in Path /\ setting'.args[p][k] = setting.args[p][k]
      BY <1>1, <3>1
    <3>. QED  BY <3>2, <3>3
  <2>. QED  BY <2>1, <2>2
<1>5. (\A k \in 1..Done(p) : Canonical(setting.args[p][k]) \/ (Check(p) /\ fmt[p].changed))'
  BY <1>1, <1>3, <1>4
<1>6. (\A k \in 1..Len(fmt[p].todo) : fmt[p].todo[k] = setting.args[p][Done(p) + k])'
  BY <1>1, <1>2, <1>3
<1>7. (Done(p) >= 0)'  BY <1>2, <1>3
<1>. QED  BY <1>5, <1>6, <1>7 DEF SoFar

\* What is left to show of a step that only goes on.
LEMMA GoesUInv ==
  ASSUME IInv, NInv, UInv, NEW p, Live(p), Working(p), NEW pc, Goes(p, pc),
         UNCHANGED <<names, disk, setting, report>>,
         Undisturbed => \A i : Seen(i) => inode'[i] = inode[i],
         pc \notin {"next", "exited", "dead"}, pc \in HasFile => fmt[p].pc \in HasFile,
         pc \in WholeRead => fmt[p].pc \in WholeRead \/ ~ Check(p)
  PROVE  UInv' /\ CanonicalStep
<1>. DEFINE l == [fmt[p] EXCEPT !.pc = pc]
<1>1. fmt' = [fmt EXCEPT ![p] = l]  BY Known DEF Goes
<1>2. /\ l.pc = pc /\ l.todo = fmt[p].todo /\ l.target = fmt[p].target
      /\ l.file = fmt[p].file /\ l.changed = fmt[p].changed
  BY Known DEF LocalFields
<1>. HIDE DEF l
<1>3. fmt'[p] = l /\ \A q \in Proc : q # p => fmt'[q] = fmt[q]  BY <1>1, Known
<1>4. Working(p)'  BY <1>2, <1>3 DEF Working
<1>. QED  BY <1>2, <1>3, <1>4, KeepsUInv

\* Private steps leave what is seen.
LEMMA PrivateSeen ==
  ASSUME NEW p, Private \/ UNCHANGED <<fs, unseen>>
  PROVE  UNCHANGED <<names, disk, inode, setting>> /\ \A i : Seen(i) => inode'[i] = inode[i]
BY DEF Private, fs

\* The target is what the argument leads to.
LEMMA ResolveUInv ==
  ASSUME IInv, NInv, UInv, NEW p, Live(p), Resolve(p)
  PROVE  UInv' /\ CanonicalStep
<1>. DEFINE path == Head(fmt[p].todo)
            l == [fmt[p] EXCEPT !.pc = "stat", !.target = Follow(path)]
<1>1. CASE Fail(p)  BY <1>1, FailUInv DEF Resolve
<1>2. CASE ~ Fail(p)
  <2>1. /\ fmt[p].pc = "next" /\ fmt[p].todo # <<>> /\ Opened(path) # None
        /\ fmt' = [fmt EXCEPT ![p] = l] /\ UNCHANGED <<names, disk, inode, report, setting>>
    BY <1>2 DEF Resolve, At, fs
  <2>2. Local(p) /\ p \in Proc /\ path \in Path
    <3>1. Local(p) /\ p \in Proc  BY Known
    <3>2. fmt[p].todo \in Seq(Path)  BY <3>1 DEF Local
    <3>. QED  BY <2>1, <3>1, <3>2
  <2>. HIDE DEF path
  <2>3. /\ l.pc = "stat" /\ l.todo = fmt[p].todo /\ l.changed = fmt[p].changed
        /\ l.target = Follow(path)
    BY Known DEF LocalFields
  <2>. HIDE DEF l
  <2>4. fmt'[p] = l /\ \A q \in Proc : q # p => fmt'[q] = fmt[q]  BY <2>1, Known
  <2>5. fmt'[p].pc \notin HasFile /\ fmt'[p].pc \notin WholeRead
    BY <2>3, <2>4 DEF HasFile, Snapped, WholeRead, Counted, HasTemp, Copied, Reopened
  <2>6. SettingSound /\ SameSetting /\ setting'.crashes \in Int /\ DOMAIN report' = Proc
    BY <2>1 DEF SameSetting, UInv, IInv, Proc
  <2>7. ASSUME Calmed PROVE QuietRun(p)'
    <3>1. \A n \in Path : Follow(n)' = Follow(n)  BY <2>7 DEF Calmed
    <3>2. Follow(path)' = Follow(path)  BY <2>1, <2>2, <2>3, <2>4, <3>1 DEF path
    <3>3. Follow(Head(fmt[p].todo))' = Follow(path)  BY <2>3, <2>4, <3>2 DEF path
    <3>4. names[Follow(path)] # None  BY <2>1 DEF Opened
    <3>. QED  BY <2>1, <2>3, <2>4, <2>5, <3>3, <3>4 DEF QuietRun
  <2>8. ASSUME Calmed, Truth(p) PROVE Truth(p)'
    <3>1. SoFar(p)'  BY <2>1, <2>2, <2>3, <2>4, <2>6, <2>8, SoFarStays DEF Truth, Local
    <3>2. (Check(p) /\ fmt[p].changed => report[p] # {})'
      BY <2>1, <2>3, <2>4, <2>8 DEF Truth, Check
    <3>3. fmt'[p].pc # "exited"  BY <2>3, <2>4
    <3>. QED  BY <2>5, <3>1, <3>2, <3>3 DEF Truth
  <2>. QED  BY <2>1, <2>4, <2>6, <2>7, <2>8, RunUInv
<1>. QED  BY <1>1, <1>2

\* The steps up to the read.
LEMMA FirstLookUInv ==
  ASSUME IInv, NInv, UInv, NEW p, Live(p),
         \/ StatPath(p) \/ Open(p) \/ TakeSnapshot(p) \/ ReadChunk(p) \/ EnsureSingleLink(p)
  PROVE  UInv' /\ CanonicalStep
<1>. USE DEF HasFile, Snapped, WholeRead, Counted, HasTemp, Copied, Reopened
<1>0. /\ Working(p) /\ fmt[p].todo # <<>> /\ p \in Proc /\ LocalFields \subseteq DOMAIN fmt[p]
      /\ Found(p) = names[fmt[p].target]
  <2>1. Working(p)
    BY DEF StatPath, Open, TakeSnapshot, ReadChunk, EnsureSingleLink, At, Working
  <2>. QED  BY <2>1, Known DEF Local
<1>1. CASE Fail(p)  BY <1>0, <1>1, FailUInv
<1>2. CASE StatPath(p) /\ ~ Fail(p)
  <2>1. Goes(p, "open") /\ Private /\ UNCHANGED report  BY <1>2 DEF StatPath, Private
  <2>. QED  BY <1>0, <2>1, PrivateSeen, GoesUInv
<1>3. CASE Open(p) /\ ~ Fail(p)
  <2>. DEFINE found == Found(p)
              l == [fmt[p] EXCEPT !.pc = "snapshot", !.file = found]
  <2>1. fmt[p].pc = "open" /\ fmt' = [fmt EXCEPT ![p] = l] /\ Private /\ UNCHANGED report
    BY <1>3 DEF Open, At, Private
  <2>. HIDE DEF found
  <2>2. /\ l.pc = "snapshot" /\ l.file = found /\ l.todo = fmt[p].todo
        /\ l.target = fmt[p].target /\ l.changed = fmt[p].changed
    BY <1>0 DEF LocalFields
  <2>. HIDE DEF l
  <2>3. fmt'[p] = l /\ \A q \in Proc : q # p => fmt'[q] = fmt[q]  BY <2>1, Known
  <2>4. Working(p)'  BY <2>2, <2>3 DEF Working
  <2>5. found = names[fmt[p].target]  BY <1>0 DEF found
  <2>6. fmt[p].pc \notin HasFile /\ fmt'[p].pc \notin WholeRead  BY <2>1, <2>2, <2>3
  <2>. HIDE DEF HasFile, Snapped, WholeRead, Counted, HasTemp, Copied, Reopened
  <2>. QED  BY <1>0, <2>1, <2>2, <2>3, <2>4, <2>5, <2>6, PrivateSeen, KeepsUInv
<1>4. CASE TakeSnapshot(p) /\ ~ Fail(p)
  <2>. DEFINE s == Stat(fmt[p].file)
              l == [fmt[p] EXCEPT !.pc = "read", !.snapshot = s]
  <2>1. fmt[p].pc = "snapshot" /\ fmt' = [fmt EXCEPT ![p] = l] /\ Private /\ UNCHANGED report
    BY <1>4 DEF TakeSnapshot, At, Private
  <2>. HIDE DEF s
  <2>2. /\ l.pc = "read" /\ l.file = fmt[p].file /\ l.todo = fmt[p].todo
        /\ l.target = fmt[p].target /\ l.changed = fmt[p].changed
    BY <1>0 DEF LocalFields
  <2>. HIDE DEF l
  <2>3. fmt'[p] = l /\ \A q \in Proc : q # p => fmt'[q] = fmt[q]  BY <2>1, Known
  <2>4. Working(p)'  BY <2>2, <2>3 DEF Working
  <2>5. fmt[p].pc \in HasFile /\ fmt'[p].pc \notin WholeRead  BY <2>1, <2>2, <2>3
  <2>. HIDE DEF HasFile, Snapped, WholeRead, Counted, HasTemp, Copied, Reopened
  <2>. QED  BY <1>0, <2>1, <2>2, <2>3, <2>4, <2>5, PrivateSeen, KeepsUInv
<1>5. CASE ReadChunk(p)
  <2>. DEFINE more == Append(fmt[p].src, Head(Rest(fmt[p].file, fmt[p].src)))
              l == [fmt[p] EXCEPT !.src = more]
  <2>1. fmt[p].pc = "read" /\ fmt' = [fmt EXCEPT ![p] = l] /\ Private /\ UNCHANGED report
    BY <1>5 DEF ReadChunk, At, Private
  <2>. HIDE DEF more
  <2>2. /\ l.pc = "read" /\ l.file = fmt[p].file /\ l.todo = fmt[p].todo
        /\ l.target = fmt[p].target /\ l.changed = fmt[p].changed
    BY <1>0, <2>1 DEF LocalFields
  <2>. HIDE DEF l
  <2>3. fmt'[p] = l /\ \A q \in Proc : q # p => fmt'[q] = fmt[q]  BY <2>1, Known
  <2>4. Working(p)'  BY <2>2, <2>3 DEF Working
  <2>5. fmt[p].pc \in HasFile /\ fmt'[p].pc \notin WholeRead  BY <2>1, <2>2, <2>3
  <2>. HIDE DEF HasFile, Snapped, WholeRead, Counted, HasTemp, Copied, Reopened
  <2>. QED  BY <1>0, <2>1, <2>2, <2>3, <2>4, <2>5, PrivateSeen, KeepsUInv
<1>6. CASE EnsureSingleLink(p) /\ ~ Fail(p)
  <2>1. fmt[p].pc = "links" /\ Goes(p, "create") /\ Private /\ UNCHANGED report
    BY <1>6 DEF EnsureSingleLink, At, Private
  <2>. QED  BY <1>0, <2>1, PrivateSeen, GoesUInv
<1>. QED  BY <1>1, <1>2, <1>3, <1>4, <1>5, <1>6

\* The second look.
LEMMA SecondLookUInv ==
  ASSUME IInv, NInv, UInv, NEW p, Live(p),
         \/ Reopen(p) \/ Restat(p) \/ Relink(p) \/ RereadChunk(p) \/ CompareText(p)
         \/ RestatAgain(p) \/ RelinkAgain(p)
  PROVE  UInv' /\ CanonicalStep
<1>. USE DEF HasFile, Snapped, WholeRead, Counted, HasTemp, Copied, Reopened
<1>0. /\ Working(p) /\ fmt[p].todo # <<>> /\ p \in Proc /\ LocalFields \subseteq DOMAIN fmt[p]
  <2>1. Working(p)
    BY DEF Reopen, Restat, Relink, RereadChunk, CompareText, RestatAgain, RelinkAgain, At, Working
  <2>. QED  BY <2>1, Known DEF Local
<1>1. CASE Fail(p)  BY <1>0, <1>1, FailUInv
<1>2. CASE Reopen(p) /\ ~ Fail(p)
  <2>. DEFINE found == Found(p)
              l == [fmt[p] EXCEPT !.pc = "restat", !.current = found]
  <2>1. fmt[p].pc = "reopen" /\ fmt' = [fmt EXCEPT ![p] = l] /\ Private /\ UNCHANGED report
    BY <1>2 DEF Reopen, At, Private
  <2>. HIDE DEF found
  <2>2. /\ l.pc = "restat" /\ l.file = fmt[p].file /\ l.todo = fmt[p].todo
        /\ l.target = fmt[p].target /\ l.changed = fmt[p].changed
    BY <1>0 DEF LocalFields
  <2>. HIDE DEF l
  <2>3. fmt'[p] = l /\ \A q \in Proc : q # p => fmt'[q] = fmt[q]  BY <2>1, Known
  <2>4. Working(p)'  BY <2>2, <2>3 DEF Working
  <2>5. fmt[p].pc \in HasFile /\ fmt[p].pc \in WholeRead  BY <2>1
  <2>. HIDE DEF HasFile, Snapped, WholeRead, Counted, HasTemp, Copied, Reopened
  <2>. QED  BY <1>0, <2>1, <2>2, <2>3, <2>4, <2>5, PrivateSeen, KeepsUInv
<1>3. CASE RereadChunk(p)
  <2>. DEFINE more == Append(fmt[p].again, Head(Rest(fmt[p].current, fmt[p].again)))
              l == [fmt[p] EXCEPT !.again = more]
  <2>1. fmt[p].pc = "reread" /\ fmt' = [fmt EXCEPT ![p] = l] /\ Private /\ UNCHANGED report
    BY <1>3 DEF RereadChunk, At, Private
  <2>. HIDE DEF more
  <2>2. /\ l.pc = "reread" /\ l.file = fmt[p].file /\ l.todo = fmt[p].todo
        /\ l.target = fmt[p].target /\ l.changed = fmt[p].changed
    BY <1>0, <2>1 DEF LocalFields
  <2>. HIDE DEF l
  <2>3. fmt'[p] = l /\ \A q \in Proc : q # p => fmt'[q] = fmt[q]  BY <2>1, Known
  <2>4. Working(p)'  BY <2>2, <2>3 DEF Working
  <2>5. fmt[p].pc \in HasFile /\ fmt[p].pc \in WholeRead  BY <2>1
  <2>. HIDE DEF HasFile, Snapped, WholeRead, Counted, HasTemp, Copied, Reopened
  <2>. QED  BY <1>0, <2>1, <2>2, <2>3, <2>4, <2>5, PrivateSeen, KeepsUInv
<1>4. ASSUME NEW pc \in {"relink", "reread", "restat again", "relink again", "rename"},
             Goes(p, pc), Private, fmt[p].pc \in WholeRead
      PROVE  UInv' /\ CanonicalStep
  <2>1. UNCHANGED report  BY <1>4 DEF Private
  <2>2. fmt[p].pc \in HasFile /\ pc \notin {"next", "exited", "dead"}  BY <1>4
  <2>. HIDE DEF HasFile, Snapped, WholeRead, Counted, HasTemp, Copied, Reopened
  <2>. QED  BY <1>0, <1>4, <2>1, <2>2, PrivateSeen, GoesUInv
<1>5. CASE Restat(p) /\ ~ Fail(p)
  <2>1. Goes(p, "relink") /\ Private /\ fmt[p].pc \in WholeRead  BY <1>5 DEF Restat, Compare, At
  <2>. QED  BY <2>1, <1>4
<1>6. CASE Relink(p) /\ ~ Fail(p)
  <2>1. Goes(p, "reread") /\ Private /\ fmt[p].pc \in WholeRead  BY <1>6 DEF Relink, CountLinks, At
  <2>. QED  BY <2>1, <1>4
<1>7. CASE CompareText(p) /\ ~ Fail(p)
  <2>1. Goes(p, "restat again") /\ Private /\ fmt[p].pc \in WholeRead  BY <1>7 DEF CompareText, At
  <2>. QED  BY <2>1, <1>4
<1>8. CASE RestatAgain(p) /\ ~ Fail(p)
  <2>1. Goes(p, "relink again") /\ Private /\ fmt[p].pc \in WholeRead
    BY <1>8 DEF RestatAgain, Compare, At
  <2>. QED  BY <2>1, <1>4
<1>9. CASE RelinkAgain(p) /\ ~ Fail(p)
  <2>1. Goes(p, "rename") /\ Private /\ fmt[p].pc \in WholeRead
    BY <1>9 DEF RelinkAgain, CountLinks, At
  <2>. QED  BY <2>1, <1>4
<1>. QED  BY <1>1, <1>2, <1>3, <1>5, <1>6, <1>7, <1>8, <1>9

\* Nobody sees a temporary.
LEMMA TempUnseen ==
  ASSUME NEW p, NEW t, Apart(p, t), \A n \in Path : disk[n] # t,
         NEW file, inode' = [inode EXCEPT ![t] = file], DOMAIN inode = Inode
  PROVE  \A i : Seen(i) => inode'[i] = inode[i]
BY DEF Seen, Apart

\* The temporary is made, written, and synced.
LEMMA TemporaryUInv ==
  ASSUME IInv, NInv, UInv, NEW p, Live(p),
         CreateTemporary(p) \/ WriteChunk(p) \/ CopyMetadata(p) \/ Sync(p)
  PROVE  UInv' /\ CanonicalStep
<1>. USE DEF HasFile, Snapped, WholeRead, Counted, HasTemp, Copied, Reopened
<1>. DEFINE t == fmt[p].temp
<1>0. /\ Working(p) /\ p \in Proc /\ LocalFields \subseteq DOMAIN fmt[p] /\ DOMAIN inode = Inode
      /\ fmt[p].pc \in HasFile /\ fmt[p].pc \in WholeRead
  <2>1. Working(p) /\ fmt[p].pc \in WholeRead
    BY DEF CreateTemporary, WriteChunk, CopyMetadata, Sync, At, Working
  <2>2. p \in Proc /\ LocalFields \subseteq DOMAIN fmt[p] /\ DOMAIN inode = Inode
    BY Known, LiveSound DEF NamesSound
  <2>. QED  BY <2>1, <2>2
<1>1. CASE CreateTemporary(p)
  <2>. DEFINE file == NewInode("file", <<>>, None, "private", FALSE)
  <2>1. PICK i \in Free : /\ inode' = [inode EXCEPT ![i] = file]
                          /\ fmt' = [fmt EXCEPT ![p].pc = "write", ![p].temp = i]
    BY <1>1 DEF CreateTemporary
  <2>. DEFINE l == [fmt[p] EXCEPT !.pc = "write", !.temp = i]
  <2>2. fmt' = [fmt EXCEPT ![p] = l] /\ UNCHANGED <<names, disk, setting, report>>
    BY <1>1, <2>1, Known DEF CreateTemporary
  <2>3. /\ l.pc = "write" /\ l.file = fmt[p].file /\ l.todo = fmt[p].todo
        /\ l.target = fmt[p].target /\ l.changed = fmt[p].changed
    BY <1>0 DEF LocalFields
  <2>. HIDE DEF l, file
  <2>4. fmt'[p] = l /\ \A q \in Proc : q # p => fmt'[q] = fmt[q]  BY <2>2, Known
  <2>5. Apart(p, i) /\ \A n \in Path : disk[n] # i  BY FreeApart DEF Free
  <2>6. \A j : Seen(j) => inode'[j] = inode[j]  BY <1>0, <2>1, <2>5, TempUnseen
  <2>7. Working(p)'  BY <2>3, <2>4 DEF Working
  <2>. HIDE DEF HasFile, Snapped, WholeRead, Counted, HasTemp, Copied, Reopened
  <2>. QED  BY <1>0, <2>2, <2>3, <2>4, <2>6, <2>7, KeepsUInv
<1>2. ASSUME NEW file, Temporary(p, file), fmt[p].pc \in HasTemp, Undisturbed
      PROVE  \A i : Seen(i) => inode'[i] = inode[i]
  <2>1. Apart(p, t)  BY <1>2, HasTemporary
  <2>2. \A n \in Path : disk[n] # t  BY <1>0, <1>2 DEF NInv, TimesTell, Untorn
  <2>3. inode' = [inode EXCEPT ![t] = file]  BY <1>2 DEF Temporary
  <2>. QED  BY <1>0, <2>1, <2>2, <2>3, TempUnseen
<1>3. ASSUME NEW file, Temporary(p, file)
      PROVE  UNCHANGED <<names, disk, setting, report>>
  BY <1>3 DEF Temporary
<1>4. CASE WriteChunk(p)
  <2>1. PICK file : Temporary(p, file)  BY <1>4 DEF WriteChunk
  <2>2. fmt[p].pc \in HasTemp /\ fmt' = fmt  BY <1>4 DEF WriteChunk, At
  <2>3. Undisturbed => \A i : Seen(i) => inode'[i] = inode[i]  BY <1>2, <2>1, <2>2
  <2>4. UNCHANGED <<names, disk, setting, report>>  BY <1>3, <2>1
  <2>5. Working(p)'  BY <1>0, <2>2 DEF Working
  <2>. HIDE DEF HasFile, Snapped, WholeRead, Counted, HasTemp, Copied, Reopened
  <2>. QED  BY <1>0, <2>2, <2>3, <2>4, <2>5, KeepsUInv
<1>5. CASE CopyMetadata(p) \/ Sync(p)
  <2>1. PICK file : Temporary(p, file)  BY <1>5 DEF CopyMetadata, Sync
  <2>2. fmt[p].pc \in HasTemp  BY <1>5 DEF CopyMetadata, Sync, At
  <2>3. Undisturbed => \A i : Seen(i) => inode'[i] = inode[i]  BY <1>2, <2>1, <2>2
  <2>4. UNCHANGED <<names, disk, setting, report>>  BY <1>3, <2>1
  <2>5. PICK pc \in {"sync", "reopen"} : Goes(p, pc)  BY <1>5 DEF CopyMetadata, Sync
  <2>6. pc \notin {"next", "exited", "dead"}  BY <2>5
  <2>. HIDE DEF HasFile, Snapped, WholeRead, Counted, HasTemp, Copied, Reopened
  <2>. QED  BY <1>0, <2>3, <2>4, <2>5, <2>6, GoesUInv
<1>. QED  BY <1>1, <1>4, <1>5

\* A file that is finished.
LEMMA Finished ==
  ASSUME IInv, NEW p, Live(p), NEW changed, NextFile(p, changed)
  PROVE  /\ fmt'[p].pc = "next" /\ fmt'[p].todo = Tail(fmt[p].todo)
         /\ (fmt'[p].changed <=> (fmt[p].changed \/ changed))
         /\ \A q \in Proc : q # p => fmt'[q] = fmt[q]
<1>. DEFINE c == (fmt[p].changed \/ changed)
            l == [Idle EXCEPT !.todo = Tail(fmt[p].todo), !.changed = c]
<1>1. fmt' = [fmt EXCEPT ![p] = l]  BY DEF NextFile
<1>. HIDE DEF c
<1>2. l.pc = "next" /\ l.todo = Tail(fmt[p].todo) /\ l.changed = c  BY DEF Idle
<1>. HIDE DEF l
<1>3. fmt'[p] = l /\ \A q \in Proc : q # p => fmt'[q] = fmt[q]  BY <1>1, Known
<1>. QED  BY <1>2, <1>3 DEF c

\* What the argument leads to.
LEMMA ArgumentHolds ==
  ASSUME IInv, NInv, UInv, Undisturbed, NEW p, Live(p), Working(p),
         NEW arg \in Path, arg = Head(fmt[p].todo)
  PROVE  /\ Follow(arg) = fmt[p].target /\ fmt[p].target \in Path \ LinkNames
         /\ names[fmt[p].target] # None
         /\ Content(arg) = inode[names[fmt[p].target]].data
<1>1. /\ fmt[p].target \in Path \ LinkNames /\ fmt[p].target # None
  <2>1. Local(p) /\ NamesStay  BY Known, LiveSound
  <2>2. fmt[p].target \in FileNames  BY <2>1 DEF Local
  <2>. QED  BY <2>1, <2>2, BoundsAssumption, SettingsAssumption DEF NamesStay
<1>2. QuietRun(p)  BY Known DEF UInv
<1>3. Follow(arg) = fmt[p].target /\ names[fmt[p].target] # None  BY <1>2 DEF QuietRun
<1>. QED  BY <1>1, <1>3 DEF Content, Opened

\* What is left to show of a file that is finished as it is.
LEMMA FinishedUInv ==
  ASSUME IInv, NInv, UInv, NEW p, Live(p), Working(p), UNCHANGED <<names, disk, inode, setting>>,
         NEW changed, NextFile(p, changed), DOMAIN report' = Proc,
         \A q \in Proc : q # p => report'[q] = report[q],
         report[p] # {} \/ changed => report'[p] # {},
         NEW arg \in Path, arg = Head(fmt[p].todo),
         Undisturbed => Canonical(arg) \/ (Check(p) /\ changed)
  PROVE  UInv' /\ CanonicalStep
<1>1. /\ fmt'[p].pc = "next" /\ fmt'[p].todo = Tail(fmt[p].todo)
      /\ (fmt'[p].changed <=> (fmt[p].changed \/ changed))
      /\ \A q \in Proc : q # p => fmt'[q] = fmt[q]
  BY Finished
<1>2. SettingSound /\ SameSetting /\ setting'.crashes \in Int /\ p \in Proc /\ Local(p)
  BY Known DEF SameSetting, UInv, IInv, Proc
<1>3. fmt'[p].pc \notin HasFile /\ fmt'[p].pc \notin WholeRead
  BY <1>1 DEF HasFile, Snapped, WholeRead, Counted, HasTemp, Copied, Reopened
<1>4. QuietRun(p)'  BY <1>1, <1>3 DEF QuietRun, Working
<1>5. ASSUME Undisturbed, Calmed, Truth(p) PROVE Truth(p)'
  <2>1. SoFar(p) /\ fmt[p].todo \in Seq(Path) /\ fmt[p].todo # <<>>
    BY <1>2, <1>5 DEF Truth, Local, Working
  <2>2. \A n \in Path : Canonical(n) => Canonical(n)'  BY <1>5 DEF Calmed
  <2>3. Canonical(arg)' \/ (Check(p) /\ fmt'[p].changed)  BY <1>1, <1>5, <2>2
  <2>4. SoFar(p)'  BY <1>1, <1>2, <2>1, <2>2, <2>3, OneMore
  <2>5. (Check(p) /\ fmt[p].changed => report[p] # {})'
    BY <1>1, <1>2, <1>5 DEF Truth, Check, SameSetting
  <2>. QED  BY <1>1, <1>3, <2>4, <2>5 DEF Truth
<1>. QED  BY <1>1, <1>2, <1>4, <1>5, RunUInv

\* What was read is canonical, or said not to be, or is to be replaced.
LEMMA DecideUInv ==
  ASSUME IInv, NInv, UInv, NEW p, Live(p), Decide(p)
  PROVE  UInv' /\ CanonicalStep
<1>. DEFINE src == fmt[p].src
<1>1. fmt[p].pc = "read" /\ Working(p) /\ Rest(fmt[p].file, src) = <<>>
  BY DEF Decide, At, Working
<1>2. Local(p) /\ p \in Proc /\ fmt[p].todo \in Seq(Path) /\ fmt[p].todo # <<>>
  BY <1>1, Known DEF Local
<1>3. PICK arg \in Path : arg = Head(fmt[p].todo)  BY <1>2
<1>4. CASE Fail(p)  BY <1>2, <1>4, FailUInv
<1>5. CASE Format(src) = src /\ NextFile(p, FALSE) /\ Private
  <2>1. ASSUME Undisturbed PROVE Canonical(arg)
    <3>1. Untorn(p) /\ QuietRun(p)  BY <1>2, <2>1 DEF NInv, UInv, TimesTell
    <3>2. fmt[p].pc \in Snapped /\ fmt[p].pc \in HasFile  BY <1>1 DEF Snapped, HasFile
    <3>3. IsSeq(src) /\ IsSeq(inode[fmt[p].file].data)  BY <1>2, <3>2 DEF Local, IsInode
    <3>4. src = inode[fmt[p].file].data
      BY <1>1, <2>1, <3>1, <3>3, BeginsAll DEF Untorn, Rest
    <3>5. src \in Texts /\ src # None
      BY <3>1, <3>2, <3>4 DEF Untorn, NInv, TextsSound
    <3>6. inode[names[fmt[p].target]].data = src
      BY <1>5, <3>1, <3>2, <3>4 DEF QuietRun, Ahead
    <3>7. Content(arg) = src  BY <1>1, <1>3, <2>1, <3>6, ArgumentHolds
    <3>. QED  BY <1>5, <3>5, <3>7 DEF Canonical
  <2>2. DOMAIN report' = Proc /\ UNCHANGED <<names, disk, inode, setting>> /\ report' = report
    BY <1>5 DEF UInv, Private, fs
  <2>. QED  BY <1>1, <1>3, <1>5, <2>1, <2>2, FinishedUInv
<1>6. CASE /\ Check(p) /\ NextFile(p, TRUE) /\ UNCHANGED fs
           /\ report' = [report EXCEPT ![p] = @ \cup {<<"stderr", Head(fmt[p].todo)>>}]
  <2>1. UNCHANGED <<names, disk, inode, setting>>  BY <1>6 DEF fs
  <2>2. DOMAIN report = Proc  BY DEF UInv
  <2>3. /\ DOMAIN report' = Proc /\ report'[p] # {}
        /\ \A q \in Proc : q # p => report'[q] = report[q]
    BY <1>2, <1>6, <2>2
  <2>. QED  BY <1>1, <1>3, <1>6, <2>1, <2>3, FinishedUInv
<1>7. CASE ~ Check(p) /\ Goes(p, "links") /\ Private
  <2>1. fmt[p].pc \in HasFile /\ UNCHANGED report  BY <1>1, <1>7 DEF HasFile, Snapped, Private
  <2>. QED  BY <1>1, <1>7, <2>1, PrivateSeen, GoesUInv
<1>. QED  BY <1>4, <1>5, <1>6, <1>7 DEF Decide

\* The run is over: every argument is done.
LEMMA FinishUInv ==
  ASSUME IInv, NInv, UInv, NEW p, Live(p), Finish(p)
  PROVE  UInv' /\ CanonicalStep
<1>1. PICK code \in {0, 1} :
        /\ Exits(p, code) /\ Private /\ fmt[p].todo = <<>>
        /\ code = 1 => Check(p) /\ fmt[p].changed
        /\ code = 0 => ~ (Check(p) /\ fmt[p].changed)
  BY DEF Finish
<1>2. UNCHANGED <<names, disk, inode, report, setting>>  BY <1>1 DEF Private, fs
<1>3. SameSetting /\ setting'.crashes \in Int  BY <1>2 DEF SameSetting, UInv, Proc
<1>. QED  BY <1>1, <1>2, <1>3, ExitUInv

-----------------------------------------------------------------------------
\* The steps that change what paths hold.

\* What is left to show where names change: what becomes of each file's name, and of who
\* does it.
LEMMA MoveUInv ==
  ASSUME IInv, NInv, UInv, SameSetting, setting'.crashes \in Int, DOMAIN report' = Proc,
         Undisturbed => QuietStore' /\ NamesKept,
         Undisturbed => \A m \in Path \ LinkNames : names[m] # None =>
           \/ inode'[names'[m]].data = inode[names[m]].data
           \/ Formats(inode[names[m]].data, inode'[names'[m]].data)
           \/ setting' # setting /\ Formats(inode'[names'[m]].data, inode[names[m]].data),
         Undisturbed => \A q \in Proc : QuietRun(q)',
         Undisturbed /\ NobodyDead' => \A q \in Proc : Truth(q)'
  PROVE  UInv' /\ CanonicalStep
<1>1. (Undisturbed' <=> Undisturbed) /\ Proc' = Proc  BY DEF Undisturbed, SameSetting
<1>2. ASSUME Undisturbed, NEW n \in Path, Content(n)' # Content(n)
      PROVE  \/ Formats(Content(n), Content(n)')
             \/ setting' # setting /\ Formats(Content(n)', Content(n))
  <2>1. PICK m \in Path \ LinkNames :
          /\ names[m] # None
          /\ Content(n) = inode[names[m]].data /\ Content(n)' = inode'[names'[m]].data
    BY <1>2, ContentMoves DEF UInv
  <2>. QED  BY <1>2, <2>1
<1>. QED  BY <1>1, <1>2 DEF UInv, CanonicalStep

\* What a run that is about to rename has.
LEMMA AboutToFormat ==
  ASSUME IInv, NInv, UInv, Undisturbed, NEW p, Live(p), At(p, "rename")
  PROVE  LET t    == fmt[p].target
             data == inode[fmt[p].temp].data
         IN  /\ t \in Path \ LinkNames /\ names[t] # None
             /\ data \in Texts /\ data # Invalid /\ data # None /\ Format(data) = data
             /\ inode[fmt[p].temp].kind = "file" /\ fmt[p].temp \in Inode
             /\ Format(inode[names[t]].data) = data
<1>1. /\ fmt[p].pc = "rename" /\ Working(p) /\ fmt[p].pc \in HasTemp /\ fmt[p].pc \in HasFile
      /\ fmt[p].pc \in WholeRead /\ fmt[p].pc \in Copied /\ fmt[p].pc \in Verified
  BY DEF At, Working, HasFile, Snapped, WholeRead, Counted, HasTemp, Copied, Reopened, Verified
<1>2. Untorn(p) /\ QuietRun(p) /\ TextsSound /\ Local(p)
  BY Known DEF NInv, UInv, TimesTell
<1>3. /\ fmt[p].src = inode[fmt[p].file].data /\ fmt[p].src \in Texts
      /\ Format(fmt[p].src) # Invalid
      /\ inode[fmt[p].temp].data = Format(fmt[p].src)
  BY <1>1, <1>2 DEF Untorn
<1>4. fmt[p].target \in Path \ LinkNames /\ names[fmt[p].target] # None
  <2>1. fmt[p].todo \in Seq(Path) /\ fmt[p].todo # <<>>  BY <1>1, <1>2 DEF Local
  <2>2. PICK arg \in Path : arg = Head(fmt[p].todo)  BY <2>1
  <2>. QED  BY <1>1, <2>2, ArgumentHolds
<1>5. Format(inode[names[fmt[p].target]].data) = Format(fmt[p].src)
  <2>1. Ahead(inode[names[fmt[p].target]].data, inode[fmt[p].file].data)
    BY <1>1, <1>2 DEF QuietRun
  <2>. QED  BY <1>2, <1>3, <2>1, FormSame
<1>6. /\ Format(fmt[p].src) \in Texts /\ Format(fmt[p].src) # None
      /\ Format(Format(fmt[p].src)) = Format(fmt[p].src)
  BY <1>2, <1>3, FormatsAText DEF TextsSound
<1>7. inode[fmt[p].temp].kind = "file" /\ fmt[p].temp \in Inode
  BY <1>1, HasTemporary DEF Apart, Temp
<1>. QED  BY <1>3, <1>4, <1>5, <1>6, <1>7

\* The target becomes canonical, for whoever looks at it.
LEMMA RenameUInv ==
  ASSUME IInv, NInv, UInv, NEW p, Live(p), Rename(p)
  PROVE  UInv' /\ CanonicalStep
<1>. DEFINE t == fmt[p].target
            i == fmt[p].temp
            data == inode[i].data
<1>1. fmt[p].pc = "rename" /\ Working(p) /\ At(p, "rename")  BY DEF Rename, At, Working
<1>2. Local(p) /\ p \in Proc /\ fmt[p].todo \in Seq(Path) /\ fmt[p].todo # <<>>
  BY <1>1, Known DEF Local
<1>3. CASE Fail(p)  BY <1>2, <1>3, FailUInv
<1>4. CASE ~ Fail(p)
  <2>1. /\ names' = [names EXCEPT ![t] = i] /\ NextFile(p, TRUE)
        /\ disk' = disk /\ inode' = inode /\ setting' = setting /\ report' = report
    BY <1>4 DEF Rename
  <2>2. SettingSound /\ SameSetting /\ setting'.crashes \in Int /\ DOMAIN report' = Proc
    BY <2>1 DEF SameSetting, UInv, IInv, Proc
  <2>3. /\ fmt'[p].pc = "next" /\ fmt'[p].todo = Tail(fmt[p].todo) /\ fmt'[p].changed
        /\ \A q \in Proc : q # p => fmt'[q] = fmt[q]
    <3>1. fmt'[p].changed <=> (fmt[p].changed \/ TRUE)  BY <2>1, Finished, Zenon
    <3>2. /\ fmt'[p].pc = "next" /\ fmt'[p].todo = Tail(fmt[p].todo)
          /\ \A q \in Proc : q # p => fmt'[q] = fmt[q]
      <4>1. PICK c : c = TRUE  OBVIOUS
      <4>2. NextFile(p, c)  BY <2>1, <4>1
      <4>. QED  BY <4>2, Finished
    <3>. QED  BY <3>1, <3>2
  <2>4. SUFFICES ASSUME Undisturbed
                 PROVE  /\ QuietStore' /\ NamesKept
                        /\ \A m \in Path \ LinkNames : names[m] # None =>
                             \/ inode'[names'[m]].data = inode[names[m]].data
                             \/ Formats(inode[names[m]].data, inode'[names'[m]].data)
                        /\ \A q \in Proc : QuietRun(q)'
                        /\ NobodyDead' => \A q \in Proc : Truth(q)'
    BY <2>2, MoveUInv
  <2>5. QuietStore /\ StoreSound /\ TextsSound /\ (\A q \in Proc : QuietRun(q) /\ Untorn(q))
    BY <2>4 DEF NInv, UInv, TimesTell
  <2>6. /\ t \in Path \ LinkNames /\ names[t] # None
        /\ data \in Texts /\ data # Invalid /\ data # None /\ Format(data) = data
        /\ inode[i].kind = "file" /\ i \in Inode /\ i # None
        /\ Format(inode[names[t]].data) = data
    BY <1>1, <2>4, AboutToFormat, BoundsAssumption
  <2>. HIDE DEF data, t, i
  <2>7. /\ names'[t] = i /\ inode'[i].data = data
        /\ \A n \in Path : n # t => names'[n] = names[n]
    BY <2>1, <2>5, <2>6 DEF StoreSound, data
  <2>8. NamesKept  BY <2>1, <2>6, <2>7 DEF NamesKept
  <2>9. QuietStore'
    <3>1. ASSUME NEW n \in Path
          PROVE  /\ (names'[n] = None <=> disk'[n] = None)
                 /\ names'[n] # None /\ n \in LinkNames =>
                      /\ names'[n] = disk'[n] /\ inode'[names'[n]].kind = "symlink"
                 /\ names'[n] # None /\ n \notin LinkNames =>
                      /\ inode'[names'[n]].kind = "file" /\ inode'[disk'[n]].kind = "file"
                      /\ Ahead(inode'[names'[n]].data, inode'[disk'[n]].data)
      <4>1. CASE n # t  BY <2>1, <2>5, <2>7, <4>1 DEF QuietStore
      <4>2. CASE n = t
        <5>1. /\ disk[t] # None /\ inode[disk[t]].kind = "file" /\ inode[disk[t]].data \in Texts
              /\ Ahead(inode[names[t]].data, inode[disk[t]].data)
          BY <2>4, <2>6, QuietFile
        <5>2. Ahead(data, inode[disk[t]].data)  BY <2>5, <2>6, <5>1, FormAhead
        <5>. QED  BY <2>1, <2>6, <2>7, <4>2, <5>1, <5>2
      <4>. QED  BY <4>1, <4>2
    <3>2. \A later, earlier : Ahead(later, earlier) => Ahead(later, earlier)'  BY DEF Ahead
    <3>. QED  BY <3>1 DEF QuietStore, Ahead
  <2>10. ASSUME NEW m \in Path \ LinkNames, names[m] # None
         PROVE  \/ inode'[names'[m]].data = inode[names[m]].data
                \/ Formats(inode[names[m]].data, inode'[names'[m]].data)
    <3>1. CASE m # t  BY <2>1, <2>7, <3>1
    <3>2. CASE m = t
      <4>1. inode[names[t]].data \in Texts  BY <2>4, <2>6, QuietFile
      <4>2. inode[names[t]].data # None  BY <2>5, <4>1 DEF TextsSound
      <4>. QED  BY <2>6, <2>7, <3>2, <4>2 DEF Formats
    <3>. QED  BY <3>1, <3>2
  <2>11. Calmed
    <3>1. \A n \in Path : Follow(n)' = Follow(n)  BY <2>5, <2>8, <2>9, FollowStays
    <3>2. ASSUME NEW n \in Path, Canonical(n) PROVE Canonical(n)'
      <4>1. Content(n) # None  BY <3>2 DEF Canonical
      <4>2. PICK m \in Path \ LinkNames :
              /\ names[m] # None
              /\ Content(n) = inode[names[m]].data /\ Content(n)' = inode'[names'[m]].data
        BY <2>5, <2>8, <2>9, <4>1, ContentMoves
      <4>3. Content(n)' = Content(n)  BY <2>10, <3>2, <4>2 DEF Formats, Canonical
      <4>. QED  BY <3>2, <4>3 DEF Canonical
    <3>. QED  BY <3>1, <3>2 DEF Calmed
  <2>12. ASSUME NEW q \in Proc PROVE QuietRun(q)'
    <3>1. CASE q = p
      <4>1. fmt'[p].pc \notin HasFile
        BY <2>3 DEF HasFile, Snapped, WholeRead, Counted, HasTemp, Copied, Reopened
      <4>. QED  BY <2>3, <3>1, <4>1 DEF QuietRun, Working
    <3>2. CASE q # p
      <4>1. fmt'[q] = fmt[q] /\ QuietRun(q) /\ Untorn(q)  BY <2>3, <2>5, <3>2
      <4>2. Working(q)' => Working(q)  BY <4>1 DEF Working
      <4>3. Working(q) => fmt[q].target \in Path /\ names'[fmt[q].target] # None
        <5>1. Working(q) => Live(q)  BY DEF Working, Live
        <5>2. Working(q) => fmt[q].target \in Path  BY <5>1, Known
        <5>. QED  BY <2>8, <4>1, <5>2 DEF NamesKept, QuietRun
      <4>4. ASSUME fmt[q].pc \in HasFile
            PROVE  /\ inode'[fmt[q].file] = inode[fmt[q].file]
                   /\ Ahead(inode'[names'[fmt[q].target]].data, inode[fmt[q].file].data)
        <5>1. Working(q)
          BY <4>4 DEF Working, HasFile, Snapped, WholeRead, Counted, HasTemp, Copied, Reopened
        <5>2. Ahead(inode[names[fmt[q].target]].data, inode[fmt[q].file].data)
          BY <4>1, <4>4 DEF QuietRun
        <5>3. inode[fmt[q].file].data \in Texts  BY <4>1, <4>4 DEF QuietRun, Untorn
        <5>4. CASE fmt[q].target = t
          <6>1. Ahead(data, inode[fmt[q].file].data)
            BY <2>5, <2>6, <5>2, <5>3, <5>4, FormAhead
          <6>. QED  BY <2>1, <2>7, <5>4, <6>1
        <5>5. CASE fmt[q].target # t
          <6>1. names'[fmt[q].target] = names[fmt[q].target]  BY <2>7, <4>3, <5>1, <5>5
          <6>. QED  BY <2>1, <5>2, <6>1
        <5>. QED  BY <5>4, <5>5
      <4>. QED  BY <2>11, <4>1, <4>2, <4>3, <4>4, QuietRunStays
    <3>. QED  BY <3>1, <3>2
  <2>13. ASSUME NobodyDead', NEW q \in Proc PROVE Truth(q)'
    <3>1. NobodyDead
      <4>1. Proc' = Proc  BY <2>2 DEF SameSetting
      <4>2. \A r \in Proc : r # p => fmt[r].pc # "dead"  BY <2>3, <2>13, <4>1 DEF NobodyDead, At
      <4>. QED  BY <1>1, <4>2 DEF NobodyDead, At
    <3>2. \A r \in Proc : Truth(r)  BY <2>4, <3>1 DEF UInv
    <3>3. CASE q = p
      <4>1. PICK arg \in Path : arg = Head(fmt[p].todo)  BY <1>2
      <4>2. Follow(arg) = t  BY <1>1, <2>4, <4>1, ArgumentHolds DEF t
      <4>3. Canonical(arg)'
        <5>1. Follow(arg)' = t  BY <2>11, <4>2 DEF Calmed
        <5>2. Content(arg)' = data
          BY <2>6, <2>7, <5>1, SettingsAssumption DEF Content, Opened
        <5>. QED  BY <2>6, <5>2 DEF Canonical
      <4>4. Truth(p) /\ SoFar(p) /\ ~ Check(p)
        BY <1>1, <1>2, <3>2 DEF Truth, WholeRead, Counted, HasTemp, Copied, Reopened
      <4>5. \A n \in Path : Canonical(n) => Canonical(n)'  BY <2>11 DEF Calmed
      <4>6. SoFar(p)'  BY <1>2, <2>2, <2>3, <4>1, <4>3, <4>4, <4>5, OneMore
      <4>7. ~ Check(p)'  BY <2>2, <4>4 DEF Check, SameSetting
      <4>. QED  BY <2>3, <3>3, <4>6, <4>7 DEF Truth
    <3>4. CASE q # p
      <4>1. fmt[q].pc # "exited" => fmt[q].todo \in Seq(Path)
        <5>1. fmt[q].pc # "exited" => Live(q)  BY <3>1 DEF NobodyDead, At, Live
        <5>. QED  BY <5>1, Known DEF Local
      <4>. QED  BY <2>1, <2>2, <2>3, <2>11, <3>2, <3>4, <4>1, TruthStays
    <3>. QED  BY <3>3, <3>4
  <2>. QED  BY <2>8, <2>9, <2>10, <2>12, <2>13
<1>. QED  BY <1>3, <1>4

-----------------------------------------------------------------------------
\* The steps of nobody's run.

\* A run that is dead has nothing open.
LEMMA DeadQuiet ==
  ASSUME NEW q, fmt'[q].pc = "dead"
  PROVE  QuietRun(q)'
<1>1. fmt'[q].pc \notin HasFile
  BY DEF HasFile, Snapped, WholeRead, Counted, HasTemp, Copied, Reopened
<1>. QED  BY <1>1 DEF QuietRun, Working

\* A power loss takes files back to what they were before their last renames.
LEMMA PowerLossUInv ==
  ASSUME IInv, NInv, UInv, PowerLoss
  PROVE  UInv' /\ CanonicalStep
<1>. DEFINE n == setting.crashes - 1
<1>1. /\ Dead(Proc) /\ UNCHANGED <<clock, unseen>> /\ names' = disk /\ disk' = disk
      /\ setting' = [setting EXCEPT !["crashes"] = n] /\ setting.crashes > 0 /\ report' = report
      /\ \A i \in Inode : i \notin Unsynced => inode'[i] = inode[i]
  BY DEF PowerLoss, Dead
<1>2. SettingSound /\ setting.crashes \in Int /\ n \in Int  BY DEF IInv, UInv
<1>3. setting' # setting
  <2>1. setting'.crashes = n  BY <1>1, <1>2 DEF SettingSound
  <2>. QED  BY <1>2, <2>1
<1>. HIDE DEF n
<1>4. SameSetting /\ setting'.crashes \in Int  BY <1>1, <1>2, QuietSetting
<1>5. \A q \in Proc : fmt'[q].pc = "dead"  BY <1>1, DeadSound
<1>6. DOMAIN report' = Proc  BY <1>1 DEF UInv
<1>7. \A q \in Proc : QuietRun(q)'  BY <1>5, DeadQuiet
<1>8. NobodyDead' => \A q \in Proc : Truth(q)'  BY <1>4, <1>5 DEF NobodyDead, At, SameSetting
<1>9. ASSUME Undisturbed, NEW m \in Path, disk[m] # None
      PROVE  inode'[disk[m]] = inode[disk[m]]
  <2>1. disk[m] \in Inode /\ Whole(inode[disk[m]])  BY <1>9 DEF NInv, StoreSound, TimesTell
  <2>. QED  BY <1>1, <2>1 DEF Unsynced, Whole
<1>10. ASSUME Undisturbed PROVE QuietStore' /\ NamesKept
  <2>1. QuietStore  BY <1>10 DEF UInv
  <2>2. \A data : Ahead(data, data)'  BY DEF Ahead
  <2>3. QuietStore'  BY <1>1, <1>9, <1>10, <2>1, <2>2 DEF QuietStore
  <2>4. NamesKept  BY <1>1, <1>9, <1>10, <2>1 DEF QuietStore, NamesKept
  <2>. QED  BY <2>3, <2>4
<1>11. ASSUME Undisturbed, NEW m \in Path \ LinkNames, names[m] # None
       PROVE  \/ inode'[names'[m]].data = inode[names[m]].data
              \/ Formats(inode'[names'[m]].data, inode[names[m]].data)
  <2>1. /\ disk[m] # None /\ TextsSound /\ inode[disk[m]].data \in Texts
        /\ Ahead(inode[names[m]].data, inode[disk[m]].data)
    BY <1>11, QuietFile
  <2>2. inode'[names'[m]] = inode[disk[m]]  BY <1>1, <1>9, <1>11, <2>1
  <2>. QED  BY <2>1, <2>2 DEF Ahead, Formats, TextsSound
<1>. QED  BY <1>3, <1>4, <1>6, <1>7, <1>8, <1>10, <1>11, MoveUInv

\* Nor is anybody else disturbed.
LEMMA AllStay ==
  ASSUME IInv, NInv, UInv, Undisturbed, Calmed, SameSetting,
         UNCHANGED <<names, inode, fmt, report>>
  PROVE  /\ \A q \in Proc : QuietRun(q)'
         /\ NobodyDead' => \A q \in Proc : Truth(q)'
<1>1. ASSUME NEW q \in Proc PROVE QuietRun(q)'
  <2>1. QuietRun(q)  BY <1>1 DEF UInv
  <2>2. Working(q)' => Working(q)  BY DEF Working
  <2>3. Working(q) => names'[fmt[q].target] # None  BY <2>1 DEF QuietRun
  <2>4. fmt[q].pc \in HasFile =>
          Ahead(inode'[names'[fmt[q].target]].data, inode[fmt[q].file].data)
    BY <2>1 DEF QuietRun
  <2>. QED  BY <2>1, <2>2, <2>3, <2>4, QuietRunStays
<1>2. ASSUME NobodyDead', NEW q \in Proc PROVE Truth(q)'
  <2>1. NobodyDead  BY <1>2 DEF NobodyDead, At, SameSetting
  <2>2. Truth(q) /\ SettingSound  BY <2>1 DEF UInv, IInv
  <2>3. fmt[q].pc # "exited" => fmt[q].todo \in Seq(Path)
    <3>1. fmt[q].pc # "exited" => Live(q)  BY <2>1 DEF NobodyDead, At, Live
    <3>. QED  BY <3>1, Known DEF Local
  <2>. QED  BY <2>2, <2>3, TruthStays
<1>. QED  BY <1>1, <1>2

\* Where no name changes nothing is seen of a step.
LEMMA StillUInv ==
  ASSUME IInv, NInv, UInv, SameSetting, setting'.crashes \in Int,
         UNCHANGED <<names, inode, fmt, report>>, disk' = disk \/ disk' = names
  PROVE  UInv' /\ CanonicalStep
<1>1. Undisturbed => QuietStore'
  <2>1. \A data : Ahead(data, data)'  BY DEF Ahead
  <2>2. Undisturbed => QuietStore  BY DEF UInv
  <2>. QED  BY <2>1, <2>2 DEF QuietStore, Ahead
<1>2. NamesKept  BY DEF NamesKept
<1>3. Undisturbed => Calmed  BY <1>1, CalmPaths DEF UInv
<1>4. DOMAIN report' = Proc  BY DEF UInv
<1>. QED  BY <1>1, <1>2, <1>3, <1>4, AllStay, MoveUInv

\* A call fails, or the process is killed.
LEMMA StopUInv ==
  ASSUME IInv, NInv, UInv, NEW p, Live(p), Fault(p) \/ Kill(p)
  PROVE  UInv' /\ CanonicalStep
<1>1. CASE Fault(p)
  <2>. DEFINE n == setting.faults - 1
  <2>1. /\ setting' = [setting EXCEPT !["faults"] = n] /\ Exits(p, 1) /\ Working(p)
        /\ UNCHANGED <<names, disk, inode, report>>
    BY <1>1 DEF Fault, Live, Working
  <2>. HIDE DEF n
  <2>2. SameSetting /\ setting'.crashes \in Int  BY <2>1, QuietSetting DEF IInv, UInv
  <2>3. fmt[p].todo # <<>>  BY <2>1, Known DEF Local
  <2>. QED  BY <2>1, <2>2, <2>3, ExitUInv
<1>2. CASE Kill(p)
  <2>. DEFINE n == setting.crashes - 1
  <2>1. /\ Dead({p}) /\ UNCHANGED <<names, disk, inode, report>> /\ UNCHANGED <<clock, unseen>>
        /\ setting' = [setting EXCEPT !["crashes"] = n] /\ p \in Proc
    BY <1>2 DEF Kill, Dead, Live
  <2>2. n \in Int  BY DEF UInv
  <2>. HIDE DEF n
  <2>3. SameSetting /\ setting'.crashes \in Int  BY <2>1, <2>2, QuietSetting DEF IInv, UInv
  <2>4. /\ \A q \in Proc : q # p => fmt'[q] = fmt[q]
        /\ fmt'[p].pc = "dead"
    BY <2>1, DeadSound
  <2>5. QuietRun(p)' /\ At(p, "dead")'  BY <2>4, DeadQuiet DEF At
  <2>6. DOMAIN report' = Proc  BY <2>1 DEF UInv
  <2>. QED  BY <2>1, <2>3, <2>4, <2>5, <2>6, RunUInv
<1>. QED  BY <1>1, <1>2

\* Where somebody edits nothing is said.
LEMMA OthersUInv ==
  ASSUME IInv, NInv, UInv, Others
  PROVE  UInv' /\ CanonicalStep
<1>. DEFINE n == setting.edits - 1
<1>1. Edit
  BY DEF Others, SaveInPlace, SaveAtomically, ChangeMetadata, Remove, MakeDirectory, HardLink,
         MakeSymlink
<1>2. setting' = [setting EXCEPT !["edits"] = n] /\ setting.edits > 0 /\ report' = report
  BY <1>1 DEF Edit
<1>. HIDE DEF n
<1>3. SameSetting /\ setting'.crashes \in Int  BY <1>2, QuietSetting DEF IInv, UInv
<1>4. ~ Undisturbed /\ ~ Undisturbed'
  BY <1>2, <1>3 DEF NInv, TextsSound, SameSetting, Undisturbed
<1>. QED  BY <1>2, <1>3, <1>4 DEF UInv, SameSetting, CanonicalStep

-----------------------------------------------------------------------------
\* The whole of it, where nobody else changes files.

\* At the start nothing is done, and the disk has every name.
LEMMA InitUInv ==
  ASSUME NamesStay, Init
  PROVE  UInv
<1>1. setting \in Settings /\ DOMAIN report = Proc /\ \A p \in Proc : report[p] = {}  BY DEF Init
<1>2. setting.crashes \in Int  BY <1>1, BoundsAssumption
<1>3. SettingSound  BY InitIInv DEF IInv
<1>4. QuietStore
  <2>1. PICK start \in [Path \ DOMAIN StartLinks -> setting.initial],
             at \in [Path -> Inode \cup {None}] :
          /\ \A n, m \in Path : at[n] = at[m] /\ at[n] # None => n = m
          /\ names = at /\ disk = at
          /\ inode = [i \in Inode |->
               IF \A n \in Path : at[n] # i THEN None
               ELSE LET n == CHOOSE n \in Path : at[n] = i IN
                    IF n \in DOMAIN StartLinks
                    THEN NewInode("symlink", <<>>, StartLinks[n], "private", TRUE)
                    ELSE NewInode("file", start[n], None, "private", TRUE)]
    BY DEF Init
  <2>2. disk = names  BY <2>1
  <2>3. ASSUME NEW n \in Path, names[n] # None
        PROVE  inode[names[n]].kind = IF n \in LinkNames THEN "symlink" ELSE "file"
    <3>. DEFINE of(m) == IF m \in DOMAIN StartLinks
                         THEN NewInode("symlink", <<>>, StartLinks[m], "private", TRUE)
                         ELSE NewInode("file", start[m], None, "private", TRUE)
    <3>1. names[n] \in Inode /\ at[n] = names[n]  BY <2>1, <2>3
    <3>2. (CHOOSE m \in Path : at[m] = names[n]) = n  BY <2>1, <2>3, <3>1
    <3>3. inode = [i \in Inode |-> IF \A m \in Path : at[m] # i THEN None
                                   ELSE of(CHOOSE m \in Path : at[m] = i)]
      BY <2>1
    <3>. HIDE DEF of
    <3>4. inode[names[n]] = of(n)  BY <3>1, <3>2, <3>3
    <3>. QED  BY <3>4 DEF of, NewInode, NamesStay
  <2>4. \A data : Ahead(data, data)  BY DEF Ahead
  <2>. QED  BY <2>2, <2>3, <2>4 DEF QuietStore
<1>5. ASSUME NEW p \in Proc PROVE QuietRun(p) /\ Truth(p)
  <2>. DEFINE l == [Idle EXCEPT !.todo = setting.args[p]]
  <2>1. fmt[p] = l  BY DEF Init
  <2>2. l.pc = "next" /\ l.todo = setting.args[p] /\ l.changed = FALSE  BY DEF Idle
  <2>. HIDE DEF l
  <2>3. fmt[p].pc \notin HasFile /\ fmt[p].pc \notin WholeRead
    BY <2>1, <2>2 DEF HasFile, Snapped, WholeRead, Counted, HasTemp, Copied, Reopened
  <2>4. QuietRun(p)  BY <2>1, <2>2, <2>3 DEF QuietRun, Working
  <2>5. setting.args[p] \in Seq(Path)  BY <1>3 DEF SettingSound
  <2>6. Len(setting.args[p]) \in Nat  BY <2>5
  <2>7. Done(p) = 0  BY <2>1, <2>2, <2>6 DEF Done
  <2>8. \A k \in 1..Len(fmt[p].todo) : fmt[p].todo[k] = setting.args[p][Done(p) + k]
    BY <2>1, <2>2, <2>7
  <2>9. SoFar(p)  BY <2>7, <2>8 DEF SoFar
  <2>. QED  BY <2>1, <2>2, <2>3, <2>4, <2>9 DEF Truth
<1>. QED  BY <1>1, <1>2, <1>4, <1>5 DEF UInv

\* Each step of a run is of a run that is alive.
LEMMA StepUInv ==
  ASSUME IInv, NInv, UInv, NEW p \in Proc, Step(p)
  PROVE  UInv' /\ CanonicalStep
<1>1. fmt[p].pc \notin {"exited", "dead"}
  BY DEF Step, Resolve, StatPath, Open, TakeSnapshot, ReadChunk, Decide, EnsureSingleLink,
         CreateTemporary, WriteChunk, CopyMetadata, Sync, Reopen, Restat, Relink, RereadChunk,
         CompareText, RestatAgain, RelinkAgain, Rename, Finish, At
<1>2. Live(p)  BY <1>1 DEF Live
<1>. QED
  BY <1>2, ResolveUInv, FirstLookUInv, DecideUInv, TemporaryUInv, SecondLookUInv, RenameUInv,
     FinishUInv DEF Step

\* No step of the system makes anything else of a path, or makes a run tell lies.
LEMMA NextUInv ==
  ASSUME IInv, NInv, UInv, [Next]_vars
  PROVE  UInv' /\ CanonicalStep
<1>1. ASSUME NEW p \in Proc, Fault(p) \/ Kill(p) PROVE UInv' /\ CanonicalStep
  <2>1. Live(p)  BY <1>1 DEF Live, Fault, Kill
  <2>. QED  BY <1>1, <2>1, StopUInv
<1>2. CASE Tick
  <2>. DEFINE n == setting.ticks - 1
  <2>1. setting' = [setting EXCEPT !["ticks"] = n] /\ UNCHANGED <<names, disk, inode, fmt, report>>
    BY <1>2 DEF Tick
  <2>. HIDE DEF n
  <2>2. SameSetting /\ setting'.crashes \in Int  BY <2>1, QuietSetting DEF IInv, UInv
  <2>. QED  BY <2>1, <2>2, StillUInv
<1>3. CASE Commit \/ Terminated \/ UNCHANGED vars
  <2>1. UNCHANGED <<names, inode, fmt, report, setting>> /\ (disk' = disk \/ disk' = names)
    BY <1>3 DEF Commit, Terminated, vars, fs
  <2>2. SameSetting /\ setting'.crashes \in Int  BY <2>1 DEF SameSetting, UInv, Proc
  <2>. QED  BY <2>1, <2>2, StillUInv
<1>. QED
  BY <1>1, <1>2, <1>3, StepUInv, PowerLossUInv, OthersUInv DEF Next

\* The invariant holds of every run of any formatters that nobody disturbs.
LEMMA QuietInductive ==
  ASSUME NamesStay
  PROVE  Spec => [](IInv /\ NInv /\ UInv)
<1>1. Init => IInv /\ NInv /\ UInv  BY InitIInv, InitNInv, InitUInv
<1>2. IInv /\ NInv /\ UInv /\ [Next]_vars => IInv' /\ NInv' /\ UInv'
  BY NextIInv, NextNInv, NextUInv
<1>. QED  BY <1>1, <1>2, PTL DEF Spec

\* Where nobody edits, what a path holds becomes its canonical form as a whole, whatever
\* fails or crashes, or is taken back to what it was by a power loss.
THEOREM CanonicalOrBackHolds ==
  ASSUME NamesStay
  PROVE  Spec => CanonicalOrBack
<1>1. IInv /\ NInv /\ UInv /\ [Next]_vars => CanonicalStep  BY NextUInv
<1>2. CanonicalStep <=>
        (Undisturbed =>
           \A n \in Path : Content(n)' # Content(n) =>
             \/ Formats(Content(n), Content(n)')
             \/ setting' # setting /\ Formats(Content(n)', Content(n)))
  BY DEF CanonicalStep
<1>. QED  BY <1>1, <1>2, QuietInductive, PTL DEF Spec, CanonicalOrBack

\* Where nobody edits and nothing crashes, exit code 0 means that every argument is
\* canonical, and 1 that one could not be formatted or was not canonical.
THEOREM ExitsTellTruth ==
  ASSUME NamesStay
  PROVE  Spec => []ExitTellsTruth
<1>1. UInv => ExitTellsTruth  BY DEF UInv, ExitTellsTruth, Truth, NobodyDead, At
<1>. QED  BY <1>1, QuietInductive, PTL
=============================================================================

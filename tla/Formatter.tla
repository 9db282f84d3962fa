------------------------------ MODULE Formatter ------------------------------
(***************************************************************************)
(* skg fmt over files other programs use at the same time: fmtCommand,     *)
(* fmtFile, writeAtomically and ensureUnchanged of zig/main.zig, one       *)
(* system call a step, on a file system with inodes, hard links, symbolic  *)
(* links, timestamps and a disk that lags behind.                          *)
(*                                                                         *)
(* A file's content is a sequence of chunks, each read and written by a    *)
(* call of its own.  Parsing and emitting are the parameter Format.        *)
(***************************************************************************)
EXTENDS Integers, Sequences, FiniteSets

CONSTANTS
  Path,        \* names of files and of symbolic links
  FileNames,   \* the names other programs put files and directories under
  LinkNames,   \* the names other programs make symbolic links of
  Inode, None,
  StartLinks,  \* the names that start as symbolic links, and where they lead
  Format(_),   \* the canonical text of a content, or Invalid
  Invalid,
  MaxChunks,   \* bound: the chunks a formatted text has
  Settings
    (* What is going on, each a record of                                    *)
    (*   args      the runs of skg fmt and the files each is given           *)
    (*   check     the runs with --check                                     *)
    (*   initial   the contents the names may start with: None or chunks     *)
    (*   saves     the contents other programs save; none if there are none  *)
    (*   modes     file modes                                                *)
    (*   extras    owner, group and extended attributes together             *)
    (*   coarse    whether two changes may get the same timestamp            *)
    (* and of the bounds                                                     *)
    (*   edits     changes other programs make                               *)
    (*   ticks     ticks of a coarse clock                                   *)
    (*   crashes   processes killed, and power losses                        *)
    (*   faults    calls of the system that fail                             *)

ASSUME BoundsAssumption ==
  /\ MaxChunks \in Nat
  /\ Path = FileNames \cup LinkNames
  /\ None \notin Inode
  /\ \A s \in Settings :
       /\ s.edits \in Nat /\ s.ticks \in Nat /\ s.crashes \in Nat /\ s.faults \in Nat
       /\ s.coarse \in BOOLEAN /\ s.check \subseteq DOMAIN s.args
       /\ s.saves = {} => s.edits = 0

\* Names are names, and what is saved is chunks in a row.
ASSUME SettingsAssumption ==
  /\ IsFiniteSet(Path)
  /\ None \notin Path \cup {"file", "directory", "symlink"}
  /\ \A s \in Settings :
       /\ {"args", "check", "initial", "saves", "modes", "extras", "coarse",
           "edits", "ticks", "crashes", "faults"} \subseteq DOMAIN s
       /\ None \notin s.saves
       /\ \A p \in DOMAIN s.args : s.args[p] \in Seq(Path)
       /\ \A data \in s.saves \cup (s.initial \ {None}) :
            data \in Seq({data[k] : k \in DOMAIN data})

\* What is formatted is chunks in a row again, and canonical.
ASSUME FormatAssumption ==
  \A s \in Settings : \A data \in s.saves \cup (s.initial \ {None}) :
    LET text == Format(data) IN
    /\ text # None
    /\ text # Invalid => text \in Seq({text[k] : k \in DOMAIN text}) /\ Format(text) = text

VARIABLES
  names,    \* the directory: the inode of each path
  disk,     \* the directory as it would be found after a power loss
  inode,    \* the inodes
  stray,    \* temporaries that dead processes left
  clock,
  setting,  \* the setting, with what is left of its bounds
  fmt,      \* the local variables of each run
  unseen,   \* whether others changed a file where p no longer looks (history)
  report    \* what p printed about its files: stream and argument

fs == <<names, disk, inode, stray, clock, setting>>

vars == <<fs, fmt, unseen, report>>

Proc == DOMAIN setting.args

-----------------------------------------------------------------------------
\* The file system.

NewInode(kind, data, dest, mode, synced) ==
  [kind |-> kind, data |-> data, dest |-> dest, mode |-> mode, extra |-> "plain",
   stamp |-> clock, synced |-> synced]

Held(p) == {fmt[p].file, fmt[p].current, fmt[p].temp}

\* An inode is free once nothing names it and nobody has it open: its number
\* may then come back for another file.
Free ==
  Inode \ ({names[n] : n \in Path} \cup {disk[n] : n \in Path} \cup stray
             \cup UNION {Held(p) : p \in Proc})

NLink(i) == Cardinality({n \in Path : names[n] = i})

Stat(i) ==
  [inode |-> i, kind |-> inode[i].kind, size |-> Len(inode[i].data),
   mode |-> inode[i].mode, stamp |-> inode[i].stamp]

Kind(n) == IF names[n] = None THEN None ELSE inode[names[n]].kind

\* Symbolic links lead from n to m, no link twice.
LeadsTo(n, m) ==
  \E hops \in 0..Cardinality(LinkNames) : \E way \in [0..hops -> Path] :
    /\ way[0] = n /\ way[hops] = m
    /\ \A k \in 1..hops :
         Kind(way[k - 1]) = "symlink" /\ inode[names[way[k - 1]]].dest = way[k]

\* The name that n leads to when symbolic links are followed; None in a loop.
Follow(n) ==
  LET ends == {m \in Path : Kind(m) # "symlink" /\ LeadsTo(n, m)}
  IN  IF Kind(n) # "symlink" THEN n
      ELSE IF ends # {} THEN CHOOSE m \in ends : TRUE ELSE None

\* The inode that opening n would open.
Opened(n) == IF Follow(n) = None THEN None ELSE names[Follow(n)]

Idle == [pc |-> "next", todo |-> <<>>, target |-> None, file |-> None, snapshot |-> None,
         src |-> <<>>, temp |-> None, current |-> None, again |-> <<>>,
         changed |-> FALSE, exit |-> None]

Init ==
  /\ setting \in Settings
  /\ clock = 0
  /\ \E start \in [Path \ DOMAIN StartLinks -> setting.initial], at \in [Path -> Inode \cup {None}] :
       /\ \A n \in Path : at[n] = None <=> n \notin DOMAIN StartLinks /\ start[n] = None
       /\ \A n, m \in Path : at[n] = at[m] /\ at[n] # None => n = m
       /\ names = at /\ disk = at
       /\ inode = [i \in Inode |->
            IF \A n \in Path : at[n] # i THEN None
            ELSE LET n == CHOOSE n \in Path : at[n] = i IN
                 IF n \in DOMAIN StartLinks
                 THEN NewInode("symlink", <<>>, StartLinks[n], "private", TRUE)
                 ELSE NewInode("file", start[n], None, "private", TRUE)]
  /\ stray = {}
  /\ fmt = [p \in Proc |-> [Idle EXCEPT !.todo = setting.args[p]]]
  /\ unseen = [p \in Proc |-> FALSE]
  /\ report = [p \in Proc |-> {}]

-----------------------------------------------------------------------------
\* Other programs: editors, chmod, ln, mv, rm.

\* Where p has looked at the file for the last time.  With timestamps that tell
\* every change apart, the last look is the second stat; otherwise a change that
\* comes once the path has been opened again may be missed (a hard link for a
\* backup and a save over the path, both in the tick of the last change).
BlindSpot ==
  {"relink again", "rename"}
    \cup (IF setting.coarse THEN {"restat", "relink", "reread", "restat again"} ELSE {})

Unnoticed(others) ==
  unseen' = [q \in Proc |-> unseen[q] \/ (q \in others /\ fmt[q].pc \in BlindSpot)]

\* A change by another program, with its timestamp.
Edit ==
  /\ setting.edits > 0
  /\ setting' = [setting EXCEPT !.edits = @ - 1]
  /\ clock' = IF setting.coarse THEN clock ELSE clock + 1
  /\ Unnoticed(Proc)
  /\ UNCHANGED <<fmt, report, stray>>

Touch(i, file) == inode' = [inode EXCEPT ![i] = [file EXCEPT !.stamp = clock']]

\* Other programs' changes of the directory reach the disk at once.
Enter(n, i) ==
  /\ names' = [names EXCEPT ![n] = i]
  /\ disk' = [disk EXCEPT ![n] = i]

\* A save into the same inode; one that truncates first takes several.
SaveInPlace(n, data) ==
  /\ Edit
  /\ Kind(n) = "file"
  /\ Touch(names[n], [inode[names[n]] EXCEPT !.data = data])
  /\ UNCHANGED <<names, disk>>

\* A save into a new inode that is renamed over the path.
SaveAtomically(n, data) ==
  /\ Edit
  /\ n \in FileNames /\ Kind(n) # "directory"
  /\ \E i \in Free, mode \in setting.modes :
       Enter(n, i) /\ Touch(i, NewInode("file", data, None, mode, TRUE))

ChangeMetadata(n) ==
  /\ Edit
  /\ Kind(n) = "file"
  /\ \E mode \in setting.modes, extra \in setting.extras :
       Touch(names[n], [inode[names[n]] EXCEPT !.mode = mode, !.extra = extra])
  /\ UNCHANGED <<names, disk>>

HardLink(n, m) ==
  /\ Edit
  /\ Kind(n) = "file" /\ m \in FileNames /\ names[m] = None
  /\ Enter(m, names[n]) /\ Touch(names[n], inode[names[n]])

Remove(n) ==
  /\ Edit
  /\ names[n] # None
  /\ Enter(n, None) /\ Touch(names[n], inode[names[n]])

MakeDirectory(n) ==
  /\ Edit
  /\ n \in FileNames /\ names[n] = None
  /\ \E i \in Free : Enter(n, i) /\ Touch(i, NewInode("directory", <<>>, None, "private", TRUE))

MakeSymlink(n, m) ==
  /\ Edit
  /\ n \in LinkNames \ {m} /\ Kind(n) # "directory"
  /\ \E i \in Free : Enter(n, i) /\ Touch(i, NewInode("symlink", <<>>, m, "private", TRUE))

Others ==
  \/ \E n \in Path, data \in setting.saves : SaveInPlace(n, data) \/ SaveAtomically(n, data)
  \/ \E n \in Path : ChangeMetadata(n) \/ Remove(n) \/ MakeDirectory(n)
  \/ \E n, m \in Path : HardLink(n, m) \/ MakeSymlink(n, m)

Tick ==
  /\ setting.coarse /\ setting.ticks > 0
  /\ setting' = [setting EXCEPT !.ticks = @ - 1]
  /\ clock' = clock + 1
  /\ UNCHANGED <<names, disk, inode, stray, fmt, unseen, report>>

\* The file system commits renames to the disk when it likes.
Commit ==
  /\ disk # names
  /\ disk' = names
  /\ UNCHANGED <<names, inode, stray, clock, setting, fmt, unseen, report>>

-----------------------------------------------------------------------------
\* fmtCommand and fmtFile.

Check(p) == p \in setting.check

At(p, pc) == fmt[p].pc = pc

\* p goes on to its next step, and to nothing else.
Goes(p, pc) == fmt' = [fmt EXCEPT ![p].pc = pc]

Private == UNCHANGED <<fs, unseen, report>>

Exits(p, code) == fmt' = [fmt EXCEPT ![p] = [Idle EXCEPT !.pc = "exited", !.todo = fmt[p].todo,
                                                        !.exit = code]]

\* The first file that fails ends the command.  Its descriptors are closed, and
\* the temporary it may have is removed.
Fail(p) == Exits(p, 1) /\ Private

\* The file is finished, and the next one begins.
NextFile(p, changed) ==
  fmt' = [fmt EXCEPT ![p] = [Idle EXCEPT !.todo = Tail(fmt[p].todo),
                                         !.changed = fmt[p].changed \/ changed]]

\* (Mutant.)  Files that --check found to differ do not count.
FinishForgetsChanges(p) ==
  /\ At(p, "next") /\ fmt[p].todo = <<>>
  /\ Exits(p, 0)
  /\ Private

Finish(p) ==
  /\ At(p, "next") /\ fmt[p].todo = <<>>
  /\ Exits(p, IF Check(p) /\ fmt[p].changed THEN 1 ELSE 0)
  /\ Private

\* The path is resolved once: what a symbolic link leads to now.
Resolve(p) ==
  /\ At(p, "next") /\ fmt[p].todo # <<>>
  /\ LET path == Head(fmt[p].todo) IN
     IF Opened(path) = None THEN Fail(p)
     ELSE /\ fmt' = [fmt EXCEPT ![p].pc = "stat", ![p].target = Follow(path)]
          /\ unseen' = [unseen EXCEPT ![p] = FALSE]
          /\ UNCHANGED <<fs, report>>

\* What the resolved path leads to now: a symbolic link may have come there.
Found(p) == Opened(fmt[p].target)

StatPath(p) ==
  /\ At(p, "stat")
  /\ IF Found(p) # None /\ inode[Found(p)].kind = "file"
     THEN Goes(p, "open") /\ Private
     ELSE Fail(p)

Open(p) ==
  /\ At(p, "open")
  /\ IF Found(p) = None THEN Fail(p)
     ELSE fmt' = [fmt EXCEPT ![p].pc = "snapshot", ![p].file = Found(p)] /\ Private

TakeSnapshot(p) ==
  /\ At(p, "snapshot")
  /\ LET stat == Stat(fmt[p].file) IN
     IF stat.kind # "file" THEN Fail(p)
     ELSE fmt' = [fmt EXCEPT ![p].pc = "read", ![p].snapshot = stat] /\ Private

\* The chunks of the file a reader that has got so far has still to read.
Rest(i, got) == SubSeq(inode[i].data, Len(got) + 1, Len(inode[i].data))

ReadChunk(p) ==
  /\ At(p, "read")
  /\ LET rest == Rest(fmt[p].file, fmt[p].src) IN
     /\ rest # <<>>
     /\ fmt' = [fmt EXCEPT ![p].src = Append(@, Head(rest))]
  /\ Private

\* At the end of the file: parsed, emitted, and compared with what was read.
Decide(p) ==
  /\ At(p, "read") /\ Rest(fmt[p].file, fmt[p].src) = <<>>
  /\ LET text == Format(fmt[p].src) IN
     \/ /\ text = Invalid
        /\ Fail(p)
     \/ /\ text = fmt[p].src
        /\ NextFile(p, FALSE) /\ Private
     \/ /\ text \notin {Invalid, fmt[p].src} /\ Check(p)
        /\ report' = [report EXCEPT ![p] = @ \cup {<<"stderr", Head(fmt[p].todo)>>}]
        /\ NextFile(p, TRUE)
        /\ UNCHANGED <<fs, unseen>>
     \/ /\ text \notin {Invalid, fmt[p].src} /\ ~ Check(p)
        /\ Goes(p, "links") /\ Private

SingleLink(i) == NLink(i) = 1

EnsureSingleLink(p) ==
  /\ At(p, "links")
  /\ IF SingleLink(fmt[p].file) THEN Goes(p, "create") /\ Private ELSE Fail(p)

-----------------------------------------------------------------------------
\* writeAtomically.

\* A change to p's own temporary.
Temporary(p, file) ==
  /\ inode' = [inode EXCEPT ![fmt[p].temp] = file]
  /\ UNCHANGED <<names, disk, stray, clock, setting, unseen, report>>

CreateTemporary(p) ==
  /\ At(p, "create")
  /\ \E i \in Free :
       /\ inode' = [inode EXCEPT ![i] = NewInode("file", <<>>, None, "private", FALSE)]
       /\ fmt' = [fmt EXCEPT ![p].pc = "write", ![p].temp = i]
  /\ UNCHANGED <<names, disk, stray, clock, setting, unseen, report>>

Temp(p) == inode[fmt[p].temp]

\* (Mutant.)  One write for all of it, though a write may be short.
UnwrittenBefore(p) ==
  IF Temp(p).data = <<>> THEN Format(fmt[p].src) ELSE <<>>

Unwritten(p) ==
  LET text == Format(fmt[p].src) IN SubSeq(text, Len(Temp(p).data) + 1, Len(text))

WriteChunk(p) ==
  /\ At(p, "write") /\ Unwritten(p) # <<>>
  /\ Temporary(p, [Temp(p) EXCEPT !.data = Append(@, Head(Unwritten(p)))])
  /\ UNCHANGED fmt

CopyMetadata(p) ==
  /\ At(p, "write") /\ Unwritten(p) = <<>>
  /\ Temporary(p, [Temp(p) EXCEPT !.mode = fmt[p].snapshot.mode,
                                  !.extra = inode[fmt[p].file].extra])
  /\ Goes(p, "sync")

\* (Mutant.)  The rename does not wait for the data.
SyncNothing(p) ==
  /\ At(p, "sync") /\ Goes(p, "reopen") /\ Private

Sync(p) ==
  /\ At(p, "sync")
  /\ Temporary(p, [Temp(p) EXCEPT !.synced = TRUE])
  /\ Goes(p, "reopen")

\* ensureUnchanged.

Reopen(p) ==
  /\ At(p, "reopen")
  /\ IF Found(p) = None THEN Fail(p)
     ELSE fmt' = [fmt EXCEPT ![p].pc = "restat", ![p].current = Found(p)] /\ Private

\* (Mutant.)  Identity, kind, size and mode, but no timestamp.
SameUntimed(a, b) == [a EXCEPT !.stamp = 0] = [b EXCEPT !.stamp = 0]

SameSnapshot(a, b) == a = b

Compare(p, pc) ==
  IF SameSnapshot(fmt[p].snapshot, Stat(fmt[p].current)) THEN Goes(p, pc) /\ Private ELSE Fail(p)

CountLinks(p, pc) ==
  IF SingleLink(fmt[p].current) THEN Goes(p, pc) /\ Private ELSE Fail(p)

Restat(p) == At(p, "restat") /\ Compare(p, "relink")

Relink(p) == At(p, "relink") /\ CountLinks(p, "reread")

RereadChunk(p) ==
  /\ At(p, "reread")
  /\ LET rest == Rest(fmt[p].current, fmt[p].again) IN
     /\ rest # <<>>
     /\ fmt' = [fmt EXCEPT ![p].again = Append(@, Head(rest))]
  /\ Private

\* (Mutant.)  The stat alone is trusted.
SameTextAssumed(p) == TRUE

SameText(p) == fmt[p].again = fmt[p].src

CompareText(p) ==
  /\ At(p, "reread") /\ Rest(fmt[p].current, fmt[p].again) = <<>>
  /\ IF SameText(p) THEN Goes(p, "restat again") /\ Private ELSE Fail(p)

RestatAgain(p) == At(p, "restat again") /\ Compare(p, "relink again")

RelinkAgain(p) == At(p, "relink again") /\ CountLinks(p, "rename")

Rename(p) ==
  /\ At(p, "rename")
  /\ IF Kind(fmt[p].target) = "directory" THEN Fail(p)
     ELSE /\ names' = [names EXCEPT ![fmt[p].target] = fmt[p].temp]
          /\ Unnoticed(Proc \ {p})
          /\ NextFile(p, TRUE)
          /\ UNCHANGED <<disk, inode, stray, clock, setting, report>>

\* Any of these calls may fail.
Fault(p) ==
  /\ fmt[p].pc \notin {"next", "exited", "dead"}
  /\ setting.faults > 0
  /\ setting' = [setting EXCEPT !.faults = @ - 1]
  /\ Exits(p, 1)
  /\ UNCHANGED <<names, disk, inode, stray, clock, unseen, report>>

-----------------------------------------------------------------------------
\* Crashes.

Orphans(ps) == {fmt[p].temp : p \in ps} \ {None}

Dead(ps) ==
  /\ fmt' = [p \in Proc |-> IF p \in ps THEN [Idle EXCEPT !.pc = "dead"] ELSE fmt[p]]
  /\ stray' = stray \cup Orphans(ps)
  /\ setting.crashes > 0
  /\ setting' = [setting EXCEPT !.crashes = @ - 1]

Kill(p) ==
  /\ fmt[p].pc \notin {"exited", "dead"}
  /\ Dead({p})
  /\ UNCHANGED <<names, disk, inode, clock, unseen, report>>

Start(data, n) == SubSeq(data, 1, IF n < Len(data) THEN n ELSE Len(data))

Unsynced == {i \in Inode \ Free : inode[i] # None /\ ~ inode[i].synced}

\* Renames since the last commit are undone; of data that was not synced any part
\* may be missing.
PowerLoss ==
  /\ Dead(Proc)
  /\ names' = disk
  /\ \E kept \in [Unsynced -> 0..MaxChunks] :
       inode' = [i \in Inode |-> IF i \notin Unsynced THEN inode[i]
                                ELSE [inode[i] EXCEPT !.data = Start(@, kept[i])]]
  /\ UNCHANGED <<disk, clock, unseen, report>>

Step(p) ==
  \/ Resolve(p) \/ StatPath(p) \/ Open(p) \/ TakeSnapshot(p) \/ ReadChunk(p)
  \/ Decide(p) \/ EnsureSingleLink(p)
  \/ CreateTemporary(p) \/ WriteChunk(p) \/ CopyMetadata(p) \/ Sync(p)
  \/ Reopen(p) \/ Restat(p) \/ Relink(p) \/ RereadChunk(p) \/ CompareText(p)
  \/ RestatAgain(p) \/ RelinkAgain(p) \/ Rename(p)
  \/ Finish(p)

Terminated == (\A p \in Proc : fmt[p].pc \in {"exited", "dead"}) /\ UNCHANGED vars

Next ==
  \/ \E p \in Proc : Step(p) \/ Fault(p) \/ Kill(p)
  \/ PowerLoss
  \/ Others
  \/ Tick
  \/ Commit
  \/ Terminated

\* Each run of the program is scheduled; nothing else need ever happen.
Spec == Init /\ [][Next]_vars /\ \A p \in Proc : WF_vars(Step(p))

-----------------------------------------------------------------------------

Saved == (setting.initial \cup setting.saves) \ {None}

Texts == Saved \cup ({Format(data) : data \in Saved} \ {Invalid})

Content(n) == IF Opened(n) = None THEN None ELSE inode[Opened(n)].data

\* The step of p that replaces its target.
Replaces(p) == At(p, "rename") /\ fmt'[p].pc = "next"

\* Nobody but skg fmt changes files.
Undisturbed == setting.saves = {}

\* Where timestamps tell any two changes by others apart: every path holds, at any
\* moment and after any crash, a text that somebody saved, or the formatting of a
\* text that was once saved whole: never part of a text, and never a mixture of
\* two, read while an editor was writing.  (Three saves within one tick of a
\* coarse clock, the last of which restores what was there before the first, get
\* a mixture past both looks.)
NothingInvented ==
  ~ setting.coarse \/ Undisturbed =>
    \A n \in Path : Kind(n) = "file" => Content(n) \in Texts

\* When the rename comes, the path leads to the very file that was read, with the
\* very text that was formatted and no other name, unless something changed after
\* the last look at it (formatter.md admits that race): an edit made before is
\* never overwritten.
ReplacesWhatItRead ==
  [][\A p \in Proc : Replaces(p) /\ ~ unseen[p] =>
       /\ Found(p) = fmt[p].file
       /\ inode[Found(p)].data = fmt[p].src
       /\ SingleLink(Found(p))]_vars

\* The replacement has the mode, owner, group and extended attributes that the
\* file has then, though they are copied long before.  With timestamps too
\* coarse to tell two changes apart this fails for what a stat does not return.
MetadataKept ==
  [][~ setting.coarse =>
       \A p \in Proc : Replaces(p) /\ ~ unseen[p] =>
         /\ Temp(p).mode = inode[Found(p)].mode
         /\ Temp(p).extra = inode[Found(p)].extra]_vars

Formats(before, after) == before # None /\ after = Format(before)

\* Where nobody edits, what a path holds changes to its canonical form as a
\* whole, or back to what it was when a power loss undoes that; runs of the
\* formatter on the same files do not disturb each other.
CanonicalOrBack ==
  [][Undisturbed =>
       \A n \in Path : Content(n)' # Content(n) =>
         \/ Formats(Content(n), Content(n)')
         \/ setting' # setting /\ Formats(Content(n)', Content(n))]_vars

Canonical(n) == Content(n) # None /\ Content(n) = Format(Content(n))

\* Where nobody edits and nothing crashes, exit code 0 means that every argument
\* is canonical, whatever other run is under way; and 1 that some file could not
\* be formatted or, with --check, was not canonical.
ExitTellsTruth ==
  Undisturbed /\ (\A p \in Proc : ~ At(p, "dead")) =>
    \A p \in Proc : At(p, "exited") =>
      /\ fmt[p].exit = 0 =>
           \A k \in DOMAIN setting.args[p] : Canonical(setting.args[p][k])
      /\ fmt[p].exit = 1 => fmt[p].todo # <<>> \/ report[p] # {}
=============================================================================

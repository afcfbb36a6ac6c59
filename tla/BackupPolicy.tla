---------------------------- MODULE BackupPolicy ----------------------------
(***************************************************************************)
(* classifyBackupPolicy and inspectBackupDeletionTarget (src/src/security/ *)
(* classifier.ts), with what classifySegments and the rules after them     *)
(* make of the same segments: commands that copy, move, write, edit, make  *)
(* and delete the files and directories of one directory of the worktree   *)
(* are issued one after the other, and those that are allowed run.         *)
(*                                                                         *)
(* A name is a stem with a number of backup suffixes: [stem, 0] is the     *)
(* file, [stem, 1] its backup, [stem, 2] the backup of the backup.         *)
(***************************************************************************)
EXTENDS Naturals, Sequences, FiniteSets, SequencesExt

CONSTANTS
  Stems,
  Critical,      \* the stems of credential files
  Levels,        \* bound on the suffixes of a name
  Kinds,         \* of the files there are at first
  UnknownIn,     \* the strictnesses for which a cd before the segment may be one
                 \* that is not literal
  MaxSegments,   \* bound on the segments of a command
  MaxCommands    \* bound on the commands, for TLC

BackupAssumption ==
  /\ Critical \subseteq Stems /\ Levels \in Nat \ {0} /\ Kinds \subseteq {"file", "directory"}
  /\ UnknownIn \subseteq {"LOOSE", "HARD"}
  /\ MaxSegments \in Nat \ {0} /\ MaxCommands \in Nat

FileNames    == [stem : Stems, level : 0..Levels]
IsBackup(n) == n.level > 0
At(n, k)    == [n EXCEPT !.level = k]
Original(n) == At(n, n.level - 1)

\* isCriticalOriginalPath goes by the extension, isCriticalBackupTarget by that of
\* the name without its last suffix.
IsCritical(n)       == n.stem \in Critical /\ n.level = 0
IsCriticalBackup(n) == IsBackup(n) /\ IsCritical(Original(n))

Absent == [kind |-> "absent"]

VARIABLES
  strictness,
  directory,     \* whether the directory of the segment is known
  disk,          \* each name's kind, whether its inode and its content are more than
                 \* two minutes old, and the operation that made it
  last,          \* of the last command: the verdict, whether it is one segment, and
                 \* what the segment deletes that ran last
  queue,         \* the segments of an allowed command that are still to run
  commands       \* the commands issued

vars == <<strictness, directory, disk, last, queue, commands>>

Exists(d, n) == d[n] # Absent

\* A directory is made empty and filled by what is copied or moved into it.
Type(kind)        == IF kind = "empty" THEN "directory" ELSE kind
IsDirectory(d, n) == Exists(d, n) /\ Type(d[n].kind) = "directory"
IsFile(d, n)      == Exists(d, n) /\ Type(d[n].kind) = "file"

\* "write" is `> f`, touch or tee, "append" `>> f` with a blank before the name, and
\* "edit" `sed -i.bak`, which leaves what it read under the name with one suffix more.
Operations ==
  [op : {"cp", "mv"}, from : FileNames, to : FileNames]
    \cup [op : {"write", "append", "mkdir"}, to : FileNames]
    \cup [op : {"edit"}, to : {n \in FileNames : n.level < Levels}]
    \cup [op : {"rm"}, targets : SeqOf(FileNames, 2) \ {<<>>}]
    \cup [op : {"rmdir"}, targets : {<<n>> : n \in FileNames}]
    \cup [op : {"other"}]

IsDeletion(o) == o.op \in {"rm", "rmdir"}

-----------------------------------------------------------------------------
(* The policy, for one segment *)

\* inspectBackupDeletionTarget: the exact original beside it, of the same type, and
\* a birth time more than two minutes ago.
Verified(n) ==
  /\ ~IsCriticalBackup(n)
  /\ Exists(disk, n) /\ Exists(disk, Original(n))
  /\ Type(disk[n].kind) = Type(disk[Original(n)].kind)
  /\ disk[n].inode = "old"

DeletionVerdict_some(targets) ==
  IF ~\E i \in DOMAIN targets : IsBackup(targets[i]) THEN "none"
  ELSE IF \A i \in DOMAIN targets : IsBackup(targets[i]) => Verified(targets[i])
         THEN IF strictness = "HARD" THEN "DENY" ELSE "ALLOW"
  ELSE "DENY"

\* The targets are backups and every one is verified; a list that mixes is denied.
DeletionVerdict(targets) ==
  IF ~\E i \in DOMAIN targets : IsBackup(targets[i]) THEN "none"
  ELSE IF \A i \in DOMAIN targets : IsBackup(targets[i]) /\ Verified(targets[i])
         THEN IF strictness = "HARD" THEN "DENY" ELSE "ALLOW"
  ELSE "DENY"

PolicyVerdict_write(o) ==
  CASE o.op = "mv" /\ IsBackup(o.to) -> "DENY"
    [] o.op = "cp" /\ IsBackup(o.to) ->
         IF IsCriticalBackup(o.to) \/ IsCritical(o.from) THEN "DENY" ELSE "ALLOW"
    [] IsDeletion(o) -> DeletionVerdict(o.targets)
    [] OTHER -> "none"

\* classifyBackupPolicy; "none" leaves the segment to the rules after it. No move and
\* no plain write makes a backup, no copy one of a critical file. mkdir is exempt from
\* hasExplicitNonCopyBackupCreation (1675), its last expression does not match `>> f`
\* (1691), and it knows nothing of sed.
PolicyVerdict(o) ==
  CASE o.op = "mv" /\ IsBackup(o.to) -> "DENY"
    [] o.op = "cp" /\ IsBackup(o.to) ->
         IF IsCriticalBackup(o.to) \/ IsCritical(o.from) THEN "DENY" ELSE "ALLOW"
    [] o.op = "write" /\ IsBackup(o.to) -> "DENY"
    [] IsDeletion(o) -> DeletionVerdict(o.targets)
    [] OTHER -> "none"

SomeCritical(names) == \E n \in names : IsCritical(n)

KnownSafe(names) ==
  IF ~SomeCritical(names) THEN "ALLOW" ELSE IF strictness = "HARD" THEN "DENY" ELSE "ASK"

\* What the rules after the policy say: plain copies, moves, writes and edits in the
\* worktree, mkdir and the plain rmdir are known to be safe, but for a critical file;
\* a deletion is asked about, that of a critical file denied.
OtherVerdict(o) ==
  CASE o.op = "other" -> "ALLOW"
    [] o.op = "rm"    -> IF SomeCritical(ToSet(o.targets)) THEN "DENY" ELSE "ASK"
    [] o.op = "rmdir" -> KnownSafe(ToSet(o.targets))
    [] OTHER          -> KnownSafe({o.to})

\* classifyHardDeletionPolicy denies before classifyBackupPolicy is asked.
HardDeletion(o) == \E i \in DOMAIN o.targets : IsBackup(o.targets[i])

\* In LOOSE the policy is not asked when the directory is unknown.
PolicyAsked == strictness = "HARD" \/ directory = "known"

SegmentVerdict(o) ==
  IF strictness = "HARD" /\ IsDeletion(o) /\ HardDeletion(o) THEN "DENY"
  ELSE IF PolicyAsked /\ PolicyVerdict(o) # "none" THEN PolicyVerdict(o)
  ELSE OtherVerdict(o)

\* classifySegments looks at each segment alone and takes the worst.
CommandVerdict(command) ==
  LET verdicts == {SegmentVerdict(command[i]) : i \in DOMAIN command}
  IN  IF "DENY" \in verdicts THEN "DENY" ELSE IF "ASK" \in verdicts THEN "ASK" ELSE "ALLOW"

-----------------------------------------------------------------------------
(* The command runs *)

Fresh(kind, op) == [kind |-> kind, inode |-> "young", content |-> "young", by |-> op]

\* A copy or a write into a file there is keeps the inode and its birth time.
Written(d, n, kind, op) ==
  IF Exists(d, n) THEN [d EXCEPT ![n].content = "young"] ELSE [d EXCEPT ![n] = Fresh(kind, op)]

Filled(d, n) == [d EXCEPT ![n] = [@ EXCEPT !.kind = "directory", !.content = "young"]]

\* Into a directory there is, or onto the name.
Copied(d, from, to) == IF IsDirectory(d, to) THEN Filled(d, to) ELSE Written(d, to, d[from].kind, "cp")

Moved(d, from, to) ==
  IF IsDirectory(d, to) THEN [Filled(d, to) EXCEPT ![from] = Absent]
  ELSE [d EXCEPT ![to] = [d[from] EXCEPT !.by = "mv"], ![from] = Absent]

CanTransfer(d, o) ==
  /\ o.from # o.to /\ Exists(d, o.from)
  /\ IsDirectory(d, o.from) => ~IsFile(d, o.to)

\* sed renames the file it read to the backup and puts a new one in its place.
Backup(n)    == At(n, n.level + 1)
Edited(d, n) ==
  [d EXCEPT ![Backup(n)] = [d[n] EXCEPT !.by = "edit"], ![n] = Fresh("file", d[n].by)]

\* An operation that fails leaves the disk as it is.
Effect(d, o) ==
  CASE o.op = "cp" /\ CanTransfer(d, o) -> Copied(d, o.from, o.to)
    [] o.op = "mv" /\ CanTransfer(d, o) -> Moved(d, o.from, o.to)
    [] o.op \in {"write", "append"} /\ ~IsDirectory(d, o.to) -> Written(d, o.to, "file", o.op)
    [] o.op = "edit" /\ IsFile(d, o.to) /\ ~IsDirectory(d, Backup(o.to)) -> Edited(d, o.to)
    [] o.op = "mkdir" /\ ~Exists(d, o.to) -> [d EXCEPT ![o.to] = Fresh("empty", "mkdir")]
    [] o.op = "rm" -> [n \in FileNames |-> IF Contains(o.targets, n) THEN Absent ELSE d[n]]
    [] o.op = "rmdir" /\ d[o.targets[1]] # Absent /\ d[o.targets[1]].kind = "empty" ->
         [d EXCEPT ![o.targets[1]] = Absent]
    [] OTHER -> d

Idle(verdict) == [verdict |-> verdict, alone |-> FALSE, deleted |-> {}]

\* A command is classified as a whole, before its first segment runs.
Issue(command) ==
  /\ queue = <<>> /\ commands < MaxCommands /\ commands' = commands + 1
  /\ IF CommandVerdict(command) = "ALLOW"
       THEN /\ queue' = command
            /\ last' = [Idle("ALLOW") EXCEPT !.alone = Len(command) = 1]
       ELSE last' = Idle(CommandVerdict(command)) /\ UNCHANGED queue
  /\ UNCHANGED <<strictness, directory, disk>>

\* rmdir takes nothing that holds anything.
Deleted(o) == IF o.op = "rm" THEN ToSet(o.targets) ELSE {}

RunSegment ==
  /\ queue # <<>> /\ queue' = Tail(queue)
  /\ disk' = Effect(disk, Head(queue))
  /\ last' = [last EXCEPT !.deleted = Deleted(Head(queue))]
  /\ UNCHANGED <<strictness, directory, commands>>

\* Two minutes pass.
Wait ==
  /\ \E n \in FileNames : Exists(disk, n) /\ "young" \in {disk[n].inode, disk[n].content}
  /\ disk' = [n \in FileNames |-> IF Exists(disk, n) THEN [disk[n] EXCEPT !.inode = "old", !.content = "old"] ELSE Absent]
  /\ last' = [last EXCEPT !.deleted = {}] /\ UNCHANGED <<strictness, directory, queue, commands>>

-----------------------------------------------------------------------------
Found(kind) == [kind |-> kind, inode |-> "old", content |-> "old", by |-> "found"]

Init ==
  /\ strictness \in {"LOOSE", "HARD"}
  /\ directory \in {"known"} \cup (IF strictness \in UnknownIn THEN {"unknown"} ELSE {})
  /\ disk \in [FileNames -> {Absent} \cup {Found(kind) : kind \in Kinds}]
  /\ last = Idle("none") /\ queue = <<>> /\ commands = 0

Next == Wait \/ RunSegment \/ \E command \in SeqOf(Operations, MaxSegments) \ {<<>>} : Issue(command)

Spec == Init /\ [][Next]_vars

-----------------------------------------------------------------------------
(* Properties *)

\* "moving/renaming into a backup name is denied" (README.md:114) and "Critical
\* credential files cannot use the backup exception" (classifier.ts:1798): whatever was
\* issued, in whatever order copies, edits and moves came upon each other, nothing under
\* a backup name was moved or written there, and nothing under that of a credential file
\* was copied or edited there.
Origins(n) ==
  {"found", "append", "mkdir"} \cup (IF IsCriticalBackup(n) THEN {} ELSE {"cp", "edit"})

BackupsComeByRule == \A n \in FileNames : IsBackup(n) /\ Exists(disk, n) => disk[n].by \in Origins(n)

\* "A backup name may be created only by copying" (README.md:114).
BackupsAreCopies == \A n \in FileNames : IsBackup(n) /\ Exists(disk, n) => disk[n].by \in {"cp", "found"}

\* A command that only deletes leaves every stem a file: the list of its targets may
\* hold a backup and the backup of it, the file itself stays (classifier.ts:1855-1885).
DeletionLeaves ==
  \A n \in FileNames :
    n \in last'.deleted /\ last'.alone =>
      \E k \in 0..(n.level - 1) : disk'[At(n, k)] # Absent /\ Type(disk'[At(n, k)].kind) = Type(disk[n].kind)

DeletionLeavesTheFile == [][DeletionLeaves]_vars

\* "Permanent backup deletion is allowed only for a standalone, verified target where
\* an exact same-directory original exists" (README.md:114).
StandaloneOnly ==
  [][\A n \in last'.deleted : \E k \in 0..(n.level - 1) : Exists(disk', At(n, k))]_vars

\* "... and the backup is older than two minutes" (README.md:114).
BackupIsOld ==
  [][last'.alone => \A n \in last'.deleted : disk[n].content = "old"]_vars
=============================================================================

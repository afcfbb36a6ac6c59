---------------------------- MODULE MCClassifier ----------------------------
(***************************************************************************)
(* The parts of classifier.ts that are models of their own, checked in one *)
(* run: the inspection of scripts, the walk over the segments, the backup  *)
(* policy and the temp policies.  They share nothing; a behaviour is one   *)
(* of one part, in which the variables of the others rest.                 *)
(***************************************************************************)
EXTENDS ScriptInspection

CONSTANTS
  Commands, Connectors, MaxLen, Strictness,               \* of the walk
  Stems, Critical, Levels, Kinds, UnknownIn, MaxSegments, MaxCommands,  \* of the backups
  Length, Depth, MaxLinks                                 \* of the temp policies

VARIABLES
  part,
  phase, segment, base,                                   \* of the walk and the temp policies
  script, risky, listing, results, resolvedIn, outcome, dir, home, ok, running, ran,
  strictness, directory, tree, last, queue, commands,     \* of the backups
  entry, root, operation, verdict, gone

W == INSTANCE SegmentWalk WITH
       pc <- phase, at <- segment, targets <- resolvedIn, decision <- outcome
B == INSTANCE BackupPolicy WITH disk <- tree
T == INSTANCE TempPolicy WITH pc <- phase

ASSUME PartAssumption == W!WalkAssumption /\ W!CommandAssumption /\ B!BackupAssumption /\ T!TempAssumption

walk    == <<script, risky, segment, listing, results, resolvedIn, outcome, dir, home, ok, running, ran>>
backups == <<directory, tree, last, queue, commands>>
temp    == <<entry, root, operation, verdict, gone>>

ScriptsRest ==
  /\ file = <<>> /\ link = <<>> /\ pc = "rest" /\ scripts = <<>> /\ targets = <<>> /\ at = 0 /\ hand = <<>>
  /\ prints = <<>> /\ attached = {} /\ chars = 0 /\ uninspected = {} /\ listed = {}
  /\ decision = [verdict |-> "none", by |-> "none"] /\ changes = 0 /\ settled = {}

WalkRests ==
  /\ script = <<>> /\ risky = {} /\ segment = 0 /\ listing = <<>> /\ results = <<>> /\ resolvedIn = {}
  /\ outcome = [verdict |-> "none", by |-> "none"]
  /\ dir = <<>> /\ home = <<>> /\ ok = TRUE /\ running = FALSE /\ ran = {}

BackupsRest == directory = "known" /\ tree = <<>> /\ last = <<>> /\ queue = <<>> /\ commands = 0

TempRests == entry = <<>> /\ root = <<>> /\ operation = <<>> /\ verdict = "none" /\ gone = {}

\* What the walk and the temp policies share, and the temp policies and the backups.
PhaseRests      == phase = "rest" /\ base = <<>>
StrictnessRests == strictness = "LOOSE"

\* To keep the parts small: deletion targets are inspected after the scripts and on
\* their own; the files that cannot be backed up are no directories; HARD, which allows
\* nothing in a temp directory, is left out, as are long names at the first of two
\* targets: a deletion and a move judge theirs one by one, a copy its second only.
ScriptsInit == Init /\ (targets = <<>> \/ scripts = <<>>)
BackupsInit == B!Init /\ \A n \in B!FileNames : n.stem \in Critical => tree[n].kind # "directory"

TempInit ==
  strictness = "LOOSE" /\ T!Init /\ (Len(operation.targets) = 2 => Len(operation.targets[1]) = 1)

UnionInit ==
  \/ part = "scripts" /\ ScriptsInit /\ WalkRests /\ PhaseRests /\ BackupsRest /\ StrictnessRests /\ TempRests
  \/ part = "walk"    /\ W!Init /\ ScriptsRest /\ BackupsRest /\ StrictnessRests /\ TempRests
  \/ part = "backups" /\ BackupsInit /\ ScriptsRest /\ WalkRests /\ PhaseRests /\ TempRests
  \/ part = "temp"    /\ TempInit /\ ScriptsRest /\ WalkRests /\ BackupsRest

UnionNext ==
  \/ part = "scripts" /\ Next   /\ UNCHANGED <<part, walk, phase, base, backups, strictness, temp>>
  \/ part = "walk"    /\ W!Next /\ UNCHANGED <<part, vars, backups, strictness, temp>>
  \/ part = "backups" /\ B!Next /\ UNCHANGED <<part, vars, walk, phase, base, temp>>
  \/ part = "temp"    /\ T!Next /\ UNCHANGED <<part, vars, walk, backups>>

UnionSpec == UnionInit /\ [][UnionNext]_<<part, vars, walk, phase, base, backups, strictness, temp>>

-----------------------------------------------------------------------------
(* Properties of the parts; those of ScriptInspection are checked as they are *)

\* In a chain of "&&" every segment is classified against the directory the shell runs
\* it in, or against none when a target was not known (classifier.ts:2001-2006, 3748-3764).
BaseIsWhereItRuns == part = "walk" => W!BaseIsWhereItRuns

\* What was allowed segment by segment does to files in the worktree only, where the
\* directory was tracked and known, and what was allowed on inspection runs what was
\* read, where no cd stands before it (classifier.ts:3153-3169, 3892, README.md:102).
AllowedStaysInside == part = "walk" => W!AllowedStaysInside /\ W!ScriptRunsWhereRead

\* The reviewer is shown the directory a removal that is asked about takes place in
\* (classifier.ts:2859-2900).
ListedIsWhatIsDeleted == part = "walk" => W!ListedIsWhatIsDeleted

\* Whatever was issued, nothing under a backup name was moved or written there, and
\* nothing under that of a credential file was copied or edited there (README.md:114,
\* classifier.ts:1786-1822).
BackupsComeByRule == part = "backups" => B!BackupsComeByRule

\* A command that only deletes leaves every stem a file (classifier.ts:1855-1885).
DeletionLeavesTheFile ==
  [][part = "backups" => B!DeletionLeaves]_<<tree, last, queue, commands>>

\* An allowed deletion stays in a directory named temp or tmp or in the user's
\* Temp directory, an allowed move or copy in the latter, whichever links lead
\* there (classifier.ts:222-247, 1376-1436; README.md:112-113).
AllowedStaysInTemp == part = "temp" => T!StaysInTemp /\ T!TransfersStayInRoot
=============================================================================

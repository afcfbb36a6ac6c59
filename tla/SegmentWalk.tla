---------------------------- MODULE SegmentWalk ----------------------------
(***************************************************************************)
(* classifySegments, deletionTargetCandidates and the end of               *)
(* classifyShellCommand (src/src/security/classifier.ts): the segments of  *)
(* a command are classified one after the other against a base directory   *)
(* that the cd segments before them change; then a shell runs the same     *)
(* command, in which every segment may succeed or fail.                    *)
(*                                                                         *)
(* A command is a list of segments with the connector before each.  A      *)
(* directory is the list of names that lead to it from the root.           *)
(***************************************************************************)
EXTENDS Naturals, Sequences, FiniteSets, SequencesExt

CONSTANTS
  Commands,      \* the segments a command may have
  Connectors,    \* the connectors between them
  MaxLen,        \* bound on the segments of a command
  Strictness

WalkAssumption ==
  /\ Connectors \subseteq {"&&", "||", ";", "|", "&"}
  /\ MaxLen \in Nat \ {0} /\ Strictness \in {"LOOSE", "HARD"}

Worktree == <<"w">>
Start    == Worktree            \* input.cwd
Unknown  == <<"?">>             \* the base undefined

\* The targets of the cd segments; what follows "$X" is not known before it runs.
Target   == [c \in {"cd w", "cd ..", "cd /", "cd $X", "(cd w)"} |->
               IF c = "cd .." THEN ".." ELSE IF c = "cd /" THEN "/" ELSE IF c = "cd $X" THEN "?" ELSE "w"]
CdSegments  == DOMAIN Target
Cleanups == {"rm -r out", "rm -rf out"}
Files    == Cleanups \cup {"touch f"}    \* what works on a path relative to its directory

CommandAssumption == Commands \subseteq CdSegments \cup Files \cup {"sh s", "npm i", "ask", "deny"}

VARIABLES
  script,        \* the segments, each with the connector before it
  risky,         \* the directories whose script s has something the scan finds
  pc,
  at,            \* the segment looked at, or run
  base,          \* the base of classifySegments
  listing,       \* the base of deletionTargetCandidates
  results,       \* the decisions of the segments, with the base each was taken for
  targets,       \* the directories the targets of deletions were resolved against
  decision,
  dir,           \* the directory the shell is in
  home,          \* the one it was in before the list that it runs
  ok,            \* the status of the last pipeline
  running,       \* the pipeline runs
  ran            \* the segments that ran, and where

walk  == <<base, listing, results, targets, decision>>
shell == <<dir, home, ok, running, ran>>
vars  == <<script, risky, pc, at, walk, shell>>

Command(i)  == script[i].command
Incoming(i) == script[i].incoming
IsChange(i) == Command(i) \in CdSegments

\* path.resolve.
Go(d, step) ==
  CASE step = "/"  -> <<>>
    [] step = ".." -> IF d = <<>> THEN d ELSE Front(d)
    [] OTHER       -> Append(d, step)

Inside(d) == IsPrefix(Worktree, d)

-----------------------------------------------------------------------------
(* Classification *)

SegmentBase_amp(i, current)    == IF Incoming(i) \in {"&&", "&"} THEN current ELSE Start
\* segmentBase: the changed directory lasts while the connectors are "&&".
SegmentBase(i, current) == IF Incoming(i) = "&&" THEN current ELSE Start

\* resolveCdBase; a relative target has no base once the directory is unknown.
ResolveCdBase(step, current) ==
  IF step = "?" \/ (step # "/" /\ current = Unknown) THEN Unknown ELSE Go(current, step)

\* parseCdSegment takes the parenthesis after the target for a part of it.
ParsedTarget(i) == IF Command(i) = "(cd w)" THEN "w)" ELSE Target[Command(i)]

Decided(verdict) == [verdict |-> verdict, rules |-> {"other"}]

\* A write that is known to be safe and the removal of a disposable directory are
\* allowed inside the worktree; the forced removal is denied elsewhere.
ClassifyFile(c, d) ==
  IF Inside(d) THEN Decided("ALLOW") ELSE Decided(IF c = "rm -rf out" THEN "DENY" ELSE "ASK")

\* classifySegment with "base ?? input.cwd".
ClassifySegment(c, b) ==
  CASE c \in Files -> ClassifyFile(c, IF b = Unknown THEN Start ELSE b)
    [] c = "sh s"  -> [verdict |-> "ASK", rules |-> {"local-script"}]
    [] c = "npm i" -> Decided("ALLOW")
    [] c = "ask"   -> Decided("ASK")
    [] c = "deny"  -> Decided("DENY")

Result(i, b) ==
  LET decided == ClassifySegment(Command(i), b)
  IN  [at |-> i, base |-> b, verdict |-> decided.verdict, rules |-> decided.rules]

ListingAfter_leading(i, b) == IF IsChange(i) /\ i = 1 THEN ResolveCdBase(Target[Command(i)], b) ELSE b
\* deletionTargetCandidates strips a subshell before it looks for cd; a target
\* without a base is not listed.
ListingAfter(i, b) == IF IsChange(i) THEN ResolveCdBase(Target[Command(i)], b) ELSE b

ListedFor(i, b) == IF Command(i) \in Cleanups /\ b # Unknown THEN {b} ELSE {}

ClassifyNext ==
  /\ pc = "classify" /\ at <= Len(script)
  /\ LET here == SegmentBase(at, base)
         list == SegmentBase(at, listing)
     IN  /\ IF IsChange(at)
              THEN base' = ResolveCdBase(ParsedTarget(at), here) /\ UNCHANGED results
              ELSE base' = here /\ results' = Append(results, Result(at, here))
         /\ listing' = ListingAfter(at, list)
         /\ targets' = targets \cup ListedFor(at, list)
  /\ at' = at + 1
  /\ UNCHANGED <<script, risky, pc, decision, shell>>

Verdicts == {results[i].verdict : i \in DOMAIN results}
AskRules == UNION {results[i].rules : i \in {j \in DOMAIN results : results[j].verdict = "ASK"}}

Combined_last == IF results = <<>> THEN "ALLOW" ELSE Last(results).verdict

\* combineSegmentDecisions.
Combined ==
  IF "DENY" \in Verdicts THEN "DENY" ELSE IF "ASK" \in Verdicts THEN "ASK" ELSE "ALLOW"

\* isExplicitDisposableCleanup on the whole command: the leading directory changes
\* are cut off, and what is left is one removal, with an install after it or not.
WholeCleanup ==
  \E k \in DOMAIN script :
    /\ k <= 5 /\ Command(k) \in Cleanups
    /\ \A i \in 1..(k - 1) : Command(i) \in CdSegments \ {"(cd w)"}
    /\ \A i \in 2..Len(script) : Incoming(i) = "&&"
    /\ Len(script) = k \/ (Len(script) = k + 1 /\ Command(k + 1) = "npm i")

\* The scripts are read where the command was called.
Inspected == AskRules = {"local-script"} /\ Start \notin risky

ScriptRead == \E i \in DOMAIN script : Command(i) = "sh s"

Decision ==
  IF Combined = "DENY" THEN [verdict |-> "DENY", by |-> "segments"]
  ELSE IF WholeCleanup /\ Strictness # "HARD" THEN [verdict |-> "ALLOW", by |-> "cleanup"]
  ELSE IF Combined = "ASK" /\ Inspected THEN [verdict |-> "ALLOW", by |-> "inspected"]
  ELSE IF Combined = "ALLOW" /\ ScriptRead /\ Start \in risky THEN [verdict |-> "ASK", by |-> "segments"]
  ELSE [verdict |-> Combined, by |-> "segments"]

\* What is asked about may be allowed in a review.
Decide ==
  /\ pc = "classify" /\ at > Len(script)
  /\ decision' = Decision
  /\ pc' \in CASE decision'.verdict = "ALLOW" -> {"run"}
               [] decision'.verdict = "ASK"   -> {"run", "blocked"}
               [] OTHER                       -> {"blocked"}
  /\ at' = 1 /\ UNCHANGED <<script, risky, base, listing, results, targets, shell>>

-----------------------------------------------------------------------------
(* The shell *)

StartsList(i) == i = 1 \/ Incoming(i) \in {";", "&"}

\* The list of a segment is run in the background, in a process of its own.
Background(i) ==
  \E j \in (i + 1)..Len(script) : Incoming(j) = "&" /\ \A k \in (i + 1)..(j - 1) : ~StartsList(k)

\* So is each segment of a pipeline.
InPipeline(i) == Incoming(i) = "|" \/ (i < Len(script) /\ Incoming(i + 1) = "|")

Reached(i) ==
  CASE Incoming(i) = "&&" -> ok [] Incoming(i) = "||" -> ~ok [] Incoming(i) = "|" -> running [] OTHER -> TRUE

\* Where "$X" may lead.
Places == {<<>>, Worktree}

Arrivals(i, d) == IF Target[Command(i)] = "?" THEN Places ELSE {Go(d, Target[Command(i)])}

RunNext ==
  /\ pc = "run" /\ at <= Len(script)
  /\ LET here == IF StartsList(at) /\ at > 1 /\ Background(at - 1) THEN home ELSE dir
     IN  /\ home' = IF StartsList(at) THEN here ELSE home
         /\ running' = Reached(at)
         /\ IF ~Reached(at)
              THEN dir' = here /\ UNCHANGED <<ok, ran>>
              ELSE /\ ok' \in BOOLEAN
                   /\ ran' = ran \cup {[at |-> at, dir |-> here]}
                   /\ IF IsChange(at) /\ ok' /\ ~InPipeline(at) /\ Command(at) # "(cd w)"
                        THEN dir' \in Arrivals(at, here)
                        ELSE dir' = here
  /\ at' = at + 1
  /\ UNCHANGED <<script, risky, pc, walk>>

Finish == pc = "run" /\ at > Len(script) /\ pc' = "done" /\ UNCHANGED <<script, risky, at, walk, shell>>

-----------------------------------------------------------------------------
Segment(connectors) == [command : Commands, incoming : connectors]

Init ==
  /\ script \in {s \in SeqOf(Segment(Connectors \cup {"none"}), MaxLen) :
                   s # <<>> /\ \A k \in DOMAIN s : s[k].incoming = "none" <=> k = 1}
  /\ risky \in (IF ScriptRead THEN SUBSET Places ELSE {{}})
  /\ pc = "classify" /\ at = 1
  /\ base = Start /\ listing = Start /\ results = <<>> /\ targets = {}
  /\ decision = [verdict |-> "none", by |-> "none"]
  /\ dir = Start /\ home = Start /\ ok = TRUE /\ running = FALSE /\ ran = {}

Next == ClassifyNext \/ Decide \/ RunNext \/ Finish

Spec == Init /\ [][Next]_vars

-----------------------------------------------------------------------------
(* Properties *)

\* The first segment of the list of i.
ListStart(i) == CHOOSE k \in 1..i : StartsList(k) /\ \A j \in (k + 1)..i : ~StartsList(j)

\* The chain of "&&" that the README says the directory is tracked through, with
\* no directory left changed by a list before it.
Tracked(i) ==
  /\ \A k \in (ListStart(i) + 1)..i : Incoming(k) = "&&"
  /\ \A k \in 1..(i - 1) :
       IsChange(k) => Command(k) # "(cd w)" /\ (k >= ListStart(i) \/ Background(k) \/ InPipeline(k))

\* In such a chain every segment is classified against the directory the shell
\* runs it in, or against none when a target was not known, whichever segments
\* succeed and whatever other lists do (classifier.ts:2001-2006, 2418, 3748-3764).
BaseIsWhereItRuns ==
  \A r \in ran, i \in DOMAIN results :
    results[i].at = r.at /\ Tracked(r.at) => results[i].base \in {r.dir, Unknown}

\* What was allowed segment by segment does to files in the worktree only, where
\* the directory was tracked and known: the worst segment decides for all of them
\* (classifier.ts:3153-3169, README.md:102).
AllowedStaysInside ==
  decision = [verdict |-> "ALLOW", by |-> "segments"] =>
    \A r \in ran : Command(r.at) \in Files /\ Tracked(r.at) =>
      Inside(r.dir) \/ \E k \in 1..r.at : Command(k) = "cd $X"

\* The reviewer is shown the directory a removal that is asked about takes place
\* in, by a walk of its own over the same segments (classifier.ts:2859-2900).
ListedIsWhatIsDeleted ==
  decision.verdict = "ASK" =>
    \A r \in ran : Command(r.at) \in Cleanups /\ Tracked(r.at) =>
      r.dir \in targets \/ \E k \in 1..r.at : Command(k) = "cd $X"

\* What is allowed on inspection runs, as long as no cd stands before it, the script
\* that was read: without behavior that asks for a review (classifier.ts:3892, 3982-3993).
ScriptRunsWhereRead ==
  decision.by = "inspected" =>
    \A r \in ran :
      Command(r.at) = "sh s" /\ (\A k \in 1..(r.at - 1) : ~IsChange(k)) => r.dir \notin risky

\* "The changed base is propagated through consecutive success-required &&
\* chains" (README.md:106): a segment classified against a changed directory runs
\* in it.
PropagatedIsWhereItRuns ==
  \A r \in ran, i \in DOMAIN results :
    results[i].at = r.at => results[i].base \in {r.dir, Start, Unknown}

\* "A script that was fully read, fingerprinted, and contains no review-requiring
\* behavior is statically allowed" (README.md:118): what is allowed on inspection
\* runs a script without such behavior.
InspectedScriptRuns ==
  decision.by = "inspected" => \A r \in ran : Command(r.at) = "sh s" => r.dir \notin risky

\* A "recognized in-worktree disposable directory [...] - literal, no ../glob/var -
\* is ALLOW" (README.md:123): an allowed removal takes place in the worktree.
CleanupInWorktree ==
  decision.verdict = "ALLOW" => \A r \in ran : Command(r.at) \in Cleanups => Inside(r.dir)

\* "cd /tmp && rm -rf x resolves x against /tmp" (README.md:106): so does a removal
\* that is allowed as a cleanup.
CleanupWhereItResolves ==
  decision.by = "cleanup" /\ (\A i \in DOMAIN script : Command(i) # "cd $X") =>
    \A r \in ran : Command(r.at) \in Cleanups => Inside(r.dir)
=============================================================================

---------------------------- MODULE ScriptInspection ----------------------------
(***************************************************************************)
(* classifyShellCommand and verifyScriptFingerprints (src/src/security/    *)
(* classifier.ts): the local scripts of one command are read before the    *)
(* verdict and read again before the command runs, while other processes   *)
(* write to the same files.  Each step is the code between two awaits.     *)
(*                                                                         *)
(* What the lexers and the rule tables find is an oracle: the candidates   *)
(* are given in the order of the command, the verdict of the segments is   *)
(* any they can have.  A content stands for its size, its hash and for     *)
(* whether the scan finds something in it.                                 *)
(***************************************************************************)
EXTENDS Naturals, Sequences, FiniteSets

CONSTANTS
  Names,         \* the scripts as written, resolved against the cwd
  Through,       \* those that lead through a linked directory
  Protected,     \* critical and .env paths, which are not read
  Others,        \* files that links lead to
  Outside,       \* those of them outside the worktree
  Dirs,          \* deletion targets
  Initial,       \* the contents the files may have at first
  MaxScripts,    \* MAX_LOCAL_SCRIPTS
  MaxBytes,      \* MAX_LOCAL_SCRIPT_BYTES
  MaxChars,      \* MAX_CLOUD_LOCAL_SCRIPT_CHARS
  MaxTargets,    \* MAX_TARGET_DIRECTORIES
  Changes        \* bound on what other processes do, for TLC

Size == [calm |-> 1, edited |-> 1, long |-> 2, huge |-> 3, binary |-> 1, directory |-> 0]
Contents == DOMAIN Size
Absent   == "absent"

\* Something the scans of localScriptCombined find.
Signals == {"edited"}

ASSUME PathAssumption ==
  /\ Through \cup Protected \subseteq Names
  /\ Names \cap Others = {} /\ Dirs \cap Names = {} /\ Outside \subseteq Others
  /\ Absent \notin Names \cup Others
  /\ Initial \subseteq Contents \cup {Absent}

ASSUME LimitAssumption ==
  /\ MaxScripts \in Nat /\ MaxBytes \in Nat /\ MaxChars \in Nat /\ MaxTargets \in Nat
  /\ IsFiniteSet(Names) /\ IsFiniteSet(Dirs)

VARIABLES
  file,       \* content and modification time of each file
  link,       \* where a name leads (a plain file to itself), and the identity of
              \* the link: dev, ino and mtime
  pc,
  scripts,    \* the scripts the command runs
  targets,    \* the directories it deletes
  at,         \* which of them is looked at
  hand,       \* the locals canonical, info and content
  prints,     \* the fingerprints
  attached,   \* localScripts: the scripts whose content goes to the reviewer
  chars,      \* cloudScriptChars
  uninspected,\* uninspectedLocalScripts and uninspectedTargetDirectories
  listed,     \* targetDirectories
  decision,
  changes,    \* what other processes did
  settled     \* history: what was left alone since, "inspection" and "verification"

disk == <<file, link>>
work == <<at, hand, prints, attached, chars, uninspected, listed>>
vars == <<disk, pc, scripts, targets, work, decision, changes, settled>>

-----------------------------------------------------------------------------
(* The file system *)

Direct == Names \ Through
Files  == Direct \cup Others

IsLink(n) == n \in Direct /\ link[n].to # n

\* stat and readFile follow a link, also one that has come to be at a path that
\* was canonical.
At(path) == file[IF path \in Direct THEN link[path].to ELSE path]

\* realpath; what is Absent makes it throw.
Canonical(n) ==
  IF link[n].to \in Files /\ file[link[n].to].content # Absent THEN link[n].to ELSE Absent

\* What a script does when it is run now.
Runs(n) == IF Canonical(n) = Absent THEN Absent ELSE file[Canonical(n)].content

Nothing == [path |-> Absent, size |-> 0, time |-> 0, content |-> Absent]

-----------------------------------------------------------------------------
(* Inspection *)

\* localScriptCandidates stops when it has MaxScripts.
Candidates == SubSeq(scripts, 1, IF Len(scripts) < MaxScripts THEN Len(scripts) ELSE MaxScripts)

Script == Candidates[at]

Looking(stage) == pc = stage /\ UNCHANGED <<disk, scripts, targets, decision, changes, settled>>

NextScript == pc' = "resolve" /\ at' = at + 1 /\ hand' = Nothing

\* fingerprintLocalScript returns undefined.
PassOver ==
  /\ NextScript
  /\ uninspected' = uninspected \cup {Script}
  /\ UNCHANGED <<prints, attached, chars, listed>>

Resolve ==
  /\ Looking("resolve") /\ at <= Len(Candidates)
  /\ IF Script \in Protected \/ Canonical(Script) \in Outside \cup {Absent}
       THEN PassOver
       ELSE /\ pc' = "stat" /\ hand' = [hand EXCEPT !.path = Canonical(Script)]
            /\ UNCHANGED <<at, prints, attached, chars, uninspected, listed>>

\* stat and readFile are not in a try: a file that has just gone rejects the hook.
Throws == pc' = "thrown" /\ UNCHANGED work

Stat ==
  /\ Looking("stat")
  /\ LET now == At(hand.path)
     IN  IF now.content = Absent THEN Throws
         ELSE IF now.content = "directory" \/ Size[now.content] > MaxBytes THEN PassOver
         ELSE /\ pc' = "read"
              /\ hand' = [hand EXCEPT !.size = Size[now.content], !.time = now.time]
              /\ UNCHANGED <<at, prints, attached, chars, uninspected, listed>>

\* The fingerprint of the script in hand, with the identity of its link or 0.
FingerprintOf(content, ident) ==
  [name |-> Script, path |-> hand.path, size |-> hand.size, time |-> hand.time,
   content |-> content, link |-> ident]

Fits_silently(content) ==
  IF chars + Size[content] <= MaxChars
    THEN attached' = attached \cup {Script} /\ chars' = chars + Size[content] /\ UNCHANGED uninspected
    ELSE UNCHANGED <<attached, chars, uninspected>>

\* The content goes to the reviewer as long as all of them fit.
Fits(content) ==
  IF chars + Size[content] <= MaxChars
    THEN attached' = attached \cup {Script} /\ chars' = chars + Size[content] /\ UNCHANGED uninspected
    ELSE uninspected' = uninspected \cup {Script} /\ UNCHANGED <<attached, chars>>

Record(content, ident) ==
  /\ prints' = Append(prints, FingerprintOf(content, ident))
  /\ Fits(content) /\ NextScript /\ UNCHANGED listed

Read ==
  /\ Looking("read")
  /\ LET content == At(hand.path).content
     IN  IF content \in {Absent, "directory"} THEN Throws
         ELSE IF content = "binary" THEN PassOver
         ELSE IF hand.path = Script THEN Record(content, 0)
         ELSE /\ pc' = "lstat" /\ hand' = [hand EXCEPT !.content = content]
              /\ UNCHANGED <<at, prints, attached, chars, uninspected, listed>>

Identity_always(n) == link[n].ident

\* The identity of a link at the name itself; a link above it has none here.
Identity(n) == IF IsLink(n) THEN link[n].ident ELSE 0

\* lstat of the name as written, which throws when there is nothing any more.
Lstat ==
  /\ Looking("lstat")
  /\ IF ~IsLink(Script) /\ Canonical(Script) = Absent
       THEN PassOver
       ELSE Record(hand.content, Identity(Script))

-----------------------------------------------------------------------------
(* Deletion targets *)

TargetCandidates ==
  SubSeq(targets, 1, IF Len(targets) < MaxTargets THEN Len(targets) ELSE MaxTargets)
Truncated == Len(targets) > MaxTargets

ScriptsDone ==
  /\ Looking("resolve") /\ at > Len(Candidates)
  /\ pc' = "directory" /\ at' = 1
  /\ UNCHANGED <<hand, prints, attached, chars, uninspected, listed>>

\* inspectTargetDirectory: a listing, nothing for a plain file, or a failure.
InspectDirectory ==
  /\ Looking("directory") /\ at <= Len(TargetCandidates)
  /\ \/ listed' = listed \cup {TargetCandidates[at]} /\ UNCHANGED uninspected
     \/ UNCHANGED <<listed, uninspected>>
     \/ uninspected' = uninspected \cup {TargetCandidates[at]} /\ UNCHANGED listed
  /\ at' = at + 1 /\ UNCHANGED <<pc, hand, prints, attached, chars>>

-----------------------------------------------------------------------------
(* The verdict *)

\* combineSegmentDecisions: what the segments of the command come to. A segment
\* that runs a script asks for a review of it unless another rule is faster.
Decisions ==
  [verdict : {"ALLOW", "DENY"}, rules : {{"other"}}]
    \cup [verdict : {"ASK"}, rules : {{"other"}, {"local-script", "other"}}
                                       \cup (IF scripts = <<>> THEN {} ELSE {{"local-script"}})]

Scanned  == {prints[i].content : i \in DOMAIN prints}
Findings == Scanned \cap Signals # {}

\* Every candidate was read, all of them are attached and nothing was found.
Inspected(segment) ==
  /\ segment.verdict = "ASK" /\ segment.rules = {"local-script"}
  /\ prints # <<>> /\ uninspected \cap Names = {} /\ ~Findings

\* piped: the command itself pipes a download into a shell.
Decision(segment, disposable, piped) ==
  IF segment.verdict = "DENY" THEN [verdict |-> "DENY", by |-> "rules"]
  ELSE IF Truncated THEN [verdict |-> "ASK", by |-> "rules"]
  ELSE IF disposable /\ prints = <<>> THEN [verdict |-> "ALLOW", by |-> "rules"]
  ELSE IF Inspected(segment) /\ ~piped THEN [verdict |-> "ALLOW", by |-> "inspected"]
  ELSE IF segment.verdict = "ALLOW" /\ (Findings \/ piped) THEN [verdict |-> "ASK", by |-> "rules"]
  ELSE [verdict |-> segment.verdict, by |-> "rules"]

Then(verdict) == CASE verdict = "ALLOW" -> "verify" [] verdict = "ASK" -> "review" [] OTHER -> "blocked"

\* A disposable cleanup is a match of the whole command, which then runs no script.
Decide ==
  /\ pc = "directory" /\ at > Len(TargetCandidates)
  /\ \E segment \in Decisions, piped \in BOOLEAN,
        disposable \in (IF scripts = <<>> THEN BOOLEAN ELSE {FALSE}) :
       decision' = Decision(segment, disposable, piped)
  /\ pc' = Then(decision'.verdict) /\ at' = 1 /\ hand' = Nothing
  /\ settled' = settled \cup {"verification"}
  /\ UNCHANGED <<disk, scripts, targets, prints, attached, chars, uninspected, listed, changes>>

\* The reviewer, a cached answer, the user or the fail policy.
ReviewEnds ==
  /\ pc = "review" /\ pc' \in {"verify", "blocked"}
  /\ settled' = settled \cup {"verification"}
  /\ UNCHANGED <<disk, scripts, targets, work, decision, changes>>

-----------------------------------------------------------------------------
(* verifyScriptFingerprints *)

Known == prints[at]

Differs == pc' = "changed" /\ UNCHANGED work
Same    == pc' = "verify" /\ at' = at + 1 /\ hand' = Nothing
           /\ UNCHANGED <<prints, attached, chars, uninspected, listed>>

\* lstat, then realpath, of a recorded link; a name without one goes on to stat.
VerifyLink ==
  /\ Looking("verify") /\ at <= Len(prints)
  /\ IF Known.link = 0 THEN pc' = "verify_stat" /\ UNCHANGED work
     ELSE IF ~IsLink(Known.name) \/ link[Known.name].ident # Known.link THEN Differs
     ELSE pc' = "verify_target" /\ UNCHANGED work

VerifyTarget ==
  /\ Looking("verify_target")
  /\ IF Canonical(Known.name) = Known.path THEN pc' = "verify_stat" /\ UNCHANGED work ELSE Differs

VerifyStat ==
  /\ Looking("verify_stat")
  /\ LET now == At(Known.path)
     IN  IF now.content = Absent THEN Differs
         ELSE /\ pc' = "verify_read"
              /\ hand' = [hand EXCEPT !.size = Size[now.content], !.time = now.time,
                                      !.content = now.content]
              /\ UNCHANGED <<at, prints, attached, chars, uninspected, listed>>

Matches_stat(content) ==
  /\ hand.content # "directory" /\ content \notin {Absent, "directory"}
  /\ hand.size = Known.size /\ hand.time = Known.time

\* The size and the time that stat saw, and the hash of what was read.
Matches(content) ==
  /\ hand.content # "directory" /\ content \notin {Absent, "directory"}
  /\ hand.size = Known.size /\ hand.time = Known.time
  /\ content = Known.content

VerifyRead ==
  /\ Looking("verify_read")
  /\ IF Matches(At(Known.path).content) THEN Same ELSE Differs

Verified ==
  /\ Looking("verify") /\ at > Len(prints)
  /\ pc' = "runs" /\ UNCHANGED work

-----------------------------------------------------------------------------
(* Other processes *)

Changed ==
  /\ changes < Changes /\ changes' = changes + 1
  /\ settled' = {}
  /\ pc \notin {"runs", "blocked", "changed", "thrown"}
  /\ UNCHANGED <<pc, scripts, targets, work, decision>>

\* A file is written, with a new time or with the old one put back, or removed.
Rewrite(f, content) ==
  /\ Changed /\ content # file[f].content
  /\ \E time \in {file[f].time, file[f].time + 1} : file' = [file EXCEPT ![f] = [content |-> content, time |-> time]]
  /\ UNCHANGED link

\* A name comes to lead elsewhere: a link to another file, with a new identity or
\* one made to look like the old, or a plain file in its place.
Leads(n) == Others \cup (IF n \in Through THEN {Absent} ELSE {n})

Relink(n, to) ==
  /\ Changed /\ to # link[n].to
  /\ \E ident \in {link[n].ident, link[n].ident + 1} :
       link' = [link EXCEPT ![n] = [to |-> to, ident |-> ident]]
  /\ UNCHANGED file

-----------------------------------------------------------------------------
\* Each script and each directory once: the candidates are sets.
Lists(S) == {s \in UNION {[1..k -> S] : k \in 0..Cardinality(S)} :
               \A i, j \in DOMAIN s : s[i] = s[j] => i = j}

Init ==
  /\ file \in [Files -> [content : Initial, time : {0}]]
  /\ link \in [Names -> [to : Files, ident : {1}]] /\ \A n \in Names : link[n].to \in Leads(n)
  /\ pc = "resolve" /\ scripts \in Lists(Names) /\ targets \in Lists(Dirs)
  /\ at = 1 /\ hand = Nothing /\ prints = <<>> /\ attached = {} /\ chars = 0
  /\ uninspected = {} /\ listed = {}
  /\ decision = [verdict |-> "none", by |-> "none"]
  /\ changes = 0 /\ settled = {"inspection"}

Next ==
  \/ Resolve \/ Stat \/ Read \/ Lstat \/ ScriptsDone \/ InspectDirectory
  \/ Decide \/ ReviewEnds
  \/ VerifyLink \/ VerifyTarget \/ VerifyStat \/ VerifyRead \/ Verified
  \/ \E f \in Files, content \in Contents \cup {Absent} : Rewrite(f, content)
  \/ \E n \in Names : \E to \in Leads(n) : Relink(n, to)

Spec == Init /\ [][Next]_vars

-----------------------------------------------------------------------------
(* Properties *)

Fingerprint ==
  [name : Names, path : Files, size : Nat, time : Nat, content : Contents, link : Nat]

TypeOK ==
  /\ file \in [Files -> [content : Contents \cup {Absent}, time : Nat]]
  /\ link \in [Names -> [to : Files \cup {Absent}, ident : Nat]]
  /\ \A n \in Names : link[n].to \in Leads(n)
  /\ pc \in {"resolve", "stat", "read", "lstat", "directory", "review", "verify",
             "verify_target", "verify_stat", "verify_read", "runs", "blocked", "changed", "thrown"}
  /\ scripts \in Seq(Names) /\ targets \in Seq(Dirs) /\ at \in Nat \ {0}
  /\ hand \in [path : Files \cup {Absent}, size : Nat, time : Nat, content : Contents \cup {Absent}]
  /\ prints \in Seq(Fingerprint)
  /\ attached \subseteq Names /\ chars \in 0..MaxChars
  /\ uninspected \subseteq Names \cup Dirs /\ listed \subseteq Dirs

\* What runs is what was inspected: with nobody writing while the fingerprints are
\* verified, each script that was no link, or whose link is in the fingerprint,
\* still leads to the very content that was scanned and sent to the reviewer,
\* whatever was written, removed or relinked since (classifier.ts:3056-3143).
RunsWhatWasRead ==
  pc = "runs" /\ "verification" \in settled =>
    \A i \in DOMAIN prints :
      prints[i].link # 0 \/ prints[i].path = prints[i].name => Runs(prints[i].name) = prints[i].content

\* A disk nobody writes to never gets a command stopped: the fingerprints are
\* verified with what they were taken with (classifier.ts:3073-3143).
QuietDiskPasses == pc \in {"changed", "thrown"} => "inspection" \notin settled

\* Nothing is dropped between the reads and the reviewer: a candidate is attached
\* with its whole content or declared uninspected, within the limit, and a static
\* ALLOW on inspection leaves none undeclared or unread (classifier.ts:3883-3931).
CandidatesAccounted ==
  decision.verdict # "none" =>
    LET candidates == {Candidates[i] : i \in DOMAIN Candidates}
    IN  /\ candidates = attached \cup (uninspected \cap Names)
        /\ attached \cap uninspected = {} /\ chars <= MaxChars
        /\ decision.by = "inspected" => attached = candidates /\ ~Findings

\* "up to 8 [scripts are read ...] a script that was fully read, fingerprinted, and
\* contains no review-requiring behavior is statically allowed": what is allowed
\* on inspection was read (src/README.md:118, classifier.ts:3993).
AllowedScriptsWereRead ==
  decision.by = "inspected" => \A i \in DOMAIN scripts : \E j \in DOMAIN prints : prints[j].name = scripts[i]

\* Fingerprints "record the link identity and re-verify it before execution, closing
\* the symlink-swap window" (README.md:15): what runs is what was read, wherever on
\* the way to a script the link is.
SwapWindowClosed ==
  pc = "runs" /\ "verification" \in settled =>
    \A i \in DOMAIN prints : Runs(prints[i].name) = prints[i].content
=============================================================================

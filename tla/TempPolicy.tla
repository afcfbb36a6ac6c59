----------------------------- MODULE TempPolicy -----------------------------
(***************************************************************************)
(* The temp policies of src/src/security/classifier.ts, on a disk with     *)
(* links: classifyNamedTempDeletionPolicy (a complete segment temp or tmp  *)
(* in the path), classifyUserLocalTempSegment (strictly below the user's   *)
(* Temp directory), and what classifyHardDeletionPolicy makes of the same  *)
(* deletions.                                                              *)
(*                                                                         *)
(* A path is the sequence of its names; ".." disqualifies a target of the  *)
(* first policy, and path.resolve has reduced it for the second, so it     *)
(* does not occur.                                                         *)
(***************************************************************************)
EXTENDS Naturals, Sequences, FiniteSets, SequencesExt

CONSTANTS
  Length,        \* bound on the names a target is written with
  Depth,         \* levels of the disk
  MaxLinks       \* how many links the system follows on a path

TempAssumption == Length \in Nat /\ Depth \in Nat \ {0} /\ MaxLinks \in Nat

Components == {"tmp", "d"}
Lexical(n) == SeqOf(Components, n)

Nowhere == <<"nowhere">>
Absent  == <<"absent">>
Present == <<"present">>          \* a directory, or a file where nothing is below it

\* Where links may lead: to every directory that has room for something.
Leads == Lexical(Depth - 1)

Bases == {<<>>, <<"tmp">>}

VARIABLES
  strictness,
  entry,         \* what is at each place of the disk: nothing, something, or a link
  root,          \* %LOCALAPPDATA%\Temp as the environment spells it
  base,          \* the directory the segment is classified against, and runs in
  operation,     \* the deletion, move or copy
  pc,
  verdict,
  gone           \* the places the operation removed or wrote

vars == <<strictness, entry, root, base, operation, pc, verdict, gone>>

-----------------------------------------------------------------------------
(* The file system *)

IsLink(place) == entry[place] \in Leads

\* One name further on a path, where there is something.
Follow(walk) ==
  LET next == Append(walk.place, Head(walk.rest))  stuck == next \notin DOMAIN entry \/ entry[next] = Absent
  IN  IF walk.rest = <<>> \/ stuck THEN walk
      ELSE IF ~IsLink(next) THEN [walk EXCEPT !.place = next, !.rest = Tail(@)]
      ELSE IF walk.links = 0 THEN walk
      ELSE [place |-> <<>>, rest |-> entry[next] \o Tail(walk.rest), links |-> walk.links - 1]

\* A link puts fewer than Depth names before the rest of the path.
Steps(path) == Len(path) + MaxLinks * (Depth - 1)

Walked(path) ==
  LET after[k \in 0..Steps(path)] ==
        IF k = 0 THEN [place |-> <<>>, rest |-> path, links |-> MaxLinks] ELSE Follow(after[k - 1])
  IN  after[Steps(path)]

\* realpath, which throws when a name is missing or there are too many links.
RealPath(path) == IF Walked(path).rest = <<>> THEN Walked(path).place ELSE Nowhere

\* What rm takes away: the name itself, in the directory the rest leads to.
Removes(path) == LET dir == RealPath(Front(path))
                 IN IF dir = Nowhere \/ Append(dir, Last(path)) \notin DOMAIN entry THEN Nowhere ELSE Append(dir, Last(path))

-----------------------------------------------------------------------------
(* The policies *)

Existing(path) ==
  Max({k \in 0..Len(path) : RealPath(SubSeq(path, 1, k)) # Nowhere})

\* canonicalProjectedPath: the longest part that exists, resolved, and the rest.
CanonicalProjectedPath(path) ==
  RealPath(SubSeq(path, 1, Existing(path))) \o SubSeq(path, Existing(path) + 1, Len(path))

\* canonicalExistingAnchor: only that part.
CanonicalExistingAnchor(path) == RealPath(SubSeq(path, 1, Existing(path)))

HasNamedTempPathSegment(path) == Contains(path, "tmp")

IsNamedTempTargetResolved_lexical(target) == HasNamedTempPathSegment(base \o target)

IsNamedTempTargetResolved(target) ==
  /\ HasNamedTempPathSegment(base \o target)
  /\ HasNamedTempPathSegment(CanonicalProjectedPath(base \o target))

StrictlyWithin(outer, path) == IsStrictPrefix(outer, path)

TrustedRoot == RealPath(root)

\* isTrustedTempPath: below the root as written, and still there once resolved.
IsTrustedTempPath(target) ==
  /\ TrustedRoot # Nowhere
  /\ StrictlyWithin(TrustedRoot, base \o target)
  /\ IsPrefix(TrustedRoot, CanonicalExistingAnchor(base \o target))

Targets == operation.targets

\* A pure deletion of which every target is in a temp directory.
NamedTempDeletion ==
  operation.op = "rm" /\ \A i \in DOMAIN Targets : IsNamedTempTargetResolved(Targets[i])

\* A move needs both ends below the root, a copy its target only.
LocalTempOperation ==
  \A i \in DOMAIN Targets : (operation.op = "cp" /\ i = 1) \/ IsTrustedTempPath(Targets[i])

Judge(stage) == pc = stage /\ UNCHANGED <<strictness, entry, root, base, operation, gone>>

NamedTempPolicy ==
  /\ strictness = "LOOSE" /\ Judge("classify")
  /\ IF NamedTempDeletion THEN pc' = "run" /\ verdict' = "ALLOW" ELSE pc' = "local" /\ UNCHANGED verdict

\* Nothing else allows these operations; some of them are asked about.
LocalTempPolicy ==
  /\ Judge("local")
  /\ IF LocalTempOperation THEN pc' = "run" /\ verdict' = "ALLOW" ELSE pc' = "blocked" /\ verdict' = "ASK"

\* In HARD the name is looked for in the target as it is written.
HardDeletionPolicy ==
  /\ strictness = "HARD" /\ Judge("classify")
  /\ pc' = "blocked"
  /\ verdict' = IF operation.op = "rm" /\ \E i \in DOMAIN Targets :
                     HasNamedTempPathSegment(Targets[i]) \/ IsTrustedTempPath(Targets[i])
                  THEN "DENY" ELSE "ASK"

-----------------------------------------------------------------------------
(* The operation runs *)

\* A copy goes to the file there is, through links, or makes one where there is nothing.
Writes(path) == LET name == Removes(path)
                IN  IF name # Nowhere /\ entry[name] = Absent THEN name ELSE RealPath(path)

\* A move and a deletion take the name.
Touches(i) == IF operation.op = "cp" THEN Writes(base \o Targets[i]) ELSE Removes(base \o Targets[i])

Run ==
  /\ pc = "run" /\ pc' = "done"
  /\ gone' = {Touches(i) : i \in {j \in DOMAIN Targets : operation.op = "cp" => j = 2}} \ {Nowhere}
  /\ UNCHANGED <<strictness, entry, root, base, operation, verdict>>

-----------------------------------------------------------------------------
Places == Lexical(Depth) \ {<<>>}

Init ==
  /\ strictness \in {"LOOSE", "HARD"}
  /\ entry \in {e \in [Places -> {Absent, Present} \cup Leads] :
                  \A p \in Places : (Len(p) > 1 /\ e[Front(p)] # Present) => e[p] = Absent}
  /\ root \in {<<"tmp">>, <<"d", "tmp">>} /\ base \in Bases
  /\ operation \in [op : {"rm"}, targets : {<<t>> : t \in Lexical(Length) \ {<<>>}}]
                     \cup [op : {"rm", "mv", "cp"}, targets : {<<t, u>> : t, u \in Lexical(Length) \ {<<>>}}]
  /\ strictness = "HARD" => operation.op = "rm"      \* the policy is about deletions
  /\ pc = "classify" /\ verdict = "none" /\ gone = {}

Next == NamedTempPolicy \/ LocalTempPolicy \/ HardDeletionPolicy \/ Run

Spec == Init /\ [][Next]_vars

-----------------------------------------------------------------------------
(* Properties *)

\* The names of the operation are no links themselves.
Plain == \A i \in DOMAIN Targets : LET place == Removes(base \o Targets[i])
                                   IN  place # Nowhere => ~IsLink(place)

\* A deletion or move that is allowed stays where its policy says, whichever links
\* lead there, through any part of the path, and however its targets are mixed: in
\* a directory named temp or tmp, or in the user's Temp directory
\* (classifier.ts:222-247, 1376-1436; README.md:112-113).
StaysInTemp ==
  (pc = "done" /\ Plain) =>
    \A place \in gone : HasNamedTempPathSegment(place) \/ IsPrefix(TrustedRoot, place)

\* A move or copy into the user's Temp directory is allowed for what it writes, not
\* because a name of it is in some temp directory.
TransfersStayInRoot ==
  (pc = "done" /\ Plain /\ operation.op \in {"mv", "cp"}) =>
    \A place \in gone : IsPrefix(TrustedRoot, place)

\* Moves "strictly below the canonical %LOCALAPPDATA%\Temp directory [...] are
\* allowed" (README.md:113): the directory itself is not moved away.
StrictlyInRoot ==
  (pc = "done" /\ Plain /\ operation.op = "mv" /\ Touches(1) # Nowhere) => StrictlyWithin(TrustedRoot, Touches(1))

\* "There is no temp/tmp, Local Temp, or backup exception in HARD mode; deleting any
\* named temp, Local Temp, or backup target is denied" (README.md:124).
HardDeniesTemp ==
  /\ strictness = "HARD" /\ pc = "blocked" /\ operation.op = "rm"
  /\ \E i \in DOMAIN Targets : IsNamedTempTargetResolved(Targets[i]) /\ Removes(base \o Targets[i]) # Nowhere
  => verdict = "DENY"
=============================================================================

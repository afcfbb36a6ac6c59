------------------------- MODULE ScriptInspection_proofs -------------------------
(***************************************************************************)
(* Theorems about ScriptInspection: the types, and that what runs is what  *)
(* was read.                                                               *)
(***************************************************************************)
EXTENDS ScriptInspection, SequenceTheorems, FiniteSetTheorems, TLAPS

\* What the steps between two awaits rely on: a script is at hand while it is
\* read, a fingerprint while it is verified.
Held ==
  /\ pc \in {"stat", "read", "lstat"} => at <= Len(Candidates) /\ hand.path \in Files
  /\ pc = "lstat" => hand.content \in Contents
  /\ pc \in {"verify_target", "verify_stat", "verify_read"} => at <= Len(prints)

Typed == TypeOK /\ Held

-----------------------------------------------------------------------------
(* Paths, sizes and candidates *)

LEMMA SizeType == \A c \in Contents : Size[c] \in Nat
  BY DEF Contents, Size

\* What stat, realpath and the list of candidates return.
LEMMA PathType ==
  ASSUME TypeOK
  PROVE  /\ \A path \in Files : At(path) \in [content : Contents \cup {Absent}, time : Nat]
         /\ \A n \in Names : Canonical(n) \in Files \cup {Absent}
<1>1. \A path \in Files : path \in Direct => link[path].to \in Files
  BY DEF TypeOK, Leads, Direct, Files
<1> QED
  BY <1>1 DEF TypeOK, At, Canonical

\* What the two lists of candidates are cut down to.
LEMMA CutType ==
  ASSUME NEW S, NEW s \in Seq(S), NEW m \in Nat
  PROVE  LET cut == SubSeq(s, 1, IF Len(s) < m THEN Len(s) ELSE m)
         IN  /\ cut \in Seq(S) /\ Len(cut) \in Nat
             /\ \A i \in 1..Len(cut) : cut[i] = s[i] /\ i \in 1..Len(s)
<1> DEFINE n == IF Len(s) < m THEN Len(s) ELSE m
<1>1. n \in 0..Len(s) /\ Len(s) \in Nat
  OBVIOUS
<1>2. \A i \in 1..n : s[i] \in S
  BY <1>1, ElementOfSeq
<1>3. /\ SubSeq(s, 1, n) \in Seq(S)
      /\ Len(SubSeq(s, 1, n)) = IF 1 <= n THEN n - 1 + 1 ELSE 0
      /\ \A i \in 1..(n - 1 + 1) : SubSeq(s, 1, n)[i] = s[1 + i - 1]
  BY <1>1, <1>2, SubSeqProperties
<1> HIDE DEF n
<1>4. Len(SubSeq(s, 1, n)) = n
  BY <1>1, <1>3
<1>5. \A i \in 1..n : SubSeq(s, 1, n)[i] = s[i] /\ i \in 1..Len(s)
  BY <1>1, <1>3
<1>6. Len(SubSeq(s, 1, n)) \in Nat
  BY <1>1, <1>4
<1> QED
  BY <1>3, <1>4, <1>5, <1>6 DEF n

LEMMA CandidatesType ==
  ASSUME TypeOK
  PROVE  /\ Candidates \in Seq(Names) /\ Len(Candidates) \in Nat
         /\ \A i \in 1..Len(Candidates) : Candidates[i] = scripts[i] /\ i \in 1..Len(scripts)
  BY CutType, LimitAssumption DEF TypeOK, Candidates

LEMMA TargetType ==
  ASSUME TypeOK, at <= Len(TargetCandidates)
  PROVE  TargetCandidates[at] \in Dirs
<1>1. TargetCandidates \in Seq(Dirs)
  BY CutType, LimitAssumption DEF TypeOK, TargetCandidates
<1> QED
  BY <1>1, ElementOfSeq DEF TypeOK

LEMMA ScriptType ==
  ASSUME TypeOK, at <= Len(Candidates)
  PROVE  Script \in Names
  BY CandidatesType, ElementOfSeq DEF TypeOK, Script

\* The lists of Init are sequences without repetition.
LEMMA ListsType ==
  ASSUME NEW S, IsFiniteSet(S), NEW s \in Lists(S)
  PROVE  s \in Seq(S) /\ \A i, j \in DOMAIN s : s[i] = s[j] => i = j
<1>1. Cardinality(S) \in Nat
  BY FS_CardinalityType
<1>2. PICK k \in 0..Cardinality(S) : s \in [1..k -> S]
  BY DEF Lists
<1> QED
  BY <1>1, <1>2 DEF Lists

-----------------------------------------------------------------------------
(* The types *)

LEMMA TypedInit == Init => Typed
<1> SUFFICES ASSUME Init PROVE Typed
  OBVIOUS
<1>1. file \in [Files -> [content : Contents \cup {Absent}, time : Nat]]
  BY PathAssumption DEF Init
<1>2. link \in [Names -> [to : Files \cup {Absent}, ident : Nat]] /\ \A n \in Names : link[n].to \in Leads(n)
  BY DEF Init
<1>3. scripts \in Seq(Names) /\ targets \in Seq(Dirs)
  BY ListsType, LimitAssumption DEF Init
<1>4. hand \in [path : Files \cup {Absent}, size : Nat, time : Nat, content : Contents \cup {Absent}]
  BY DEF Init, Nothing
<1> QED
  BY <1>1, <1>2, <1>3, <1>4, LimitAssumption DEF Init, Typed, TypeOK, Held

\* What a script is passed over with, or recorded with, has its type.
LEMMA PassOverTyped ==
  ASSUME Typed, Looking(pc), at <= Len(Candidates), PassOver
  PROVE  Typed'
<1>1. Script \in Names
  BY ScriptType DEF Typed
<1>2. hand' \in [path : Files \cup {Absent}, size : Nat, time : Nat, content : Contents \cup {Absent}]
  BY DEF PassOver, NextScript, Nothing
<1>3. /\ UNCHANGED <<file, link, scripts, targets, prints, attached, chars, listed>>
      /\ pc' = "resolve" /\ at' = at + 1 /\ uninspected' = uninspected \cup {Script}
  BY DEF Looking, PassOver, NextScript, disk
<1>4. TypeOK'
  BY <1>1, <1>2, <1>3 DEF Typed, TypeOK, Leads
<1> QED
  BY <1>3, <1>4 DEF Typed, Held

LEMMA RecordTyped ==
  ASSUME Typed, Looking(pc), at <= Len(Candidates), hand.path \in Files,
         NEW content \in Contents, NEW ident \in Nat, Record(content, ident)
  PROVE  Typed'
<1>1. Script \in Names /\ Size[content] \in Nat
  BY ScriptType, SizeType DEF Typed
<1>2. FingerprintOf(content, ident) \in Fingerprint
  BY <1>1 DEF Typed, TypeOK, FingerprintOf, Fingerprint
<1>3. prints' \in Seq(Fingerprint)
  BY <1>2, AppendProperties DEF Typed, TypeOK, Record
<1>4. attached' \subseteq Names /\ chars' \in 0..MaxChars /\ uninspected' \subseteq Names \cup Dirs
  <2>1. attached \subseteq Names /\ chars \in 0..MaxChars /\ uninspected \subseteq Names \cup Dirs
    BY DEF Typed, TypeOK
  <2>2. Fits(content)
    BY DEF Record
  <2>3. attached' \subseteq Names /\ uninspected' \subseteq Names \cup Dirs
    BY <1>1, <2>1, <2>2 DEF Fits
  <2>4. \/ chars' = chars
        \/ chars' = chars + Size[content] /\ chars + Size[content] <= MaxChars
    BY <2>2 DEF Fits
  <2> QED
    BY <1>1, <2>1, <2>3, <2>4, LimitAssumption
<1>5. hand' \in [path : Files \cup {Absent}, size : Nat, time : Nat, content : Contents \cup {Absent}]
  BY DEF Record, NextScript, Nothing
<1>6. UNCHANGED <<file, link, scripts, targets, listed>> /\ pc' = "resolve" /\ at' = at + 1
  BY DEF Looking, Record, NextScript, disk
<1>7. TypeOK'
  BY <1>3, <1>4, <1>5, <1>6 DEF Typed, TypeOK, Leads
<1> QED
  BY <1>6, <1>7 DEF Typed, Held

\* Another process changes the disk, and nothing else.
LEMMA ChangeTyped ==
  ASSUME Typed,
         \/ \E f \in Files, content \in Contents \cup {Absent} : Rewrite(f, content)
         \/ \E n \in Names : \E to \in Leads(n) : Relink(n, to)
  PROVE  Typed'
<1>1. /\ file' \in [Files -> [content : Contents \cup {Absent}, time : Nat]]
      /\ link' \in [Names -> [to : Files \cup {Absent}, ident : Nat]]
      /\ \A n \in Names : link'[n].to \in Leads(n)
  <2>1. CASE \E f \in Files, content \in Contents \cup {Absent} : Rewrite(f, content)
    <3> PICK f \in Files, content \in Contents \cup {Absent} : Rewrite(f, content)
      BY <2>1
    <3>1. PICK time \in {file[f].time, file[f].time + 1} :
            file' = [file EXCEPT ![f] = [content |-> content, time |-> time]]
      BY DEF Rewrite
    <3>2. time \in Nat
      BY <3>1 DEF Typed, TypeOK
    <3> QED
      BY <3>1, <3>2 DEF Typed, TypeOK, Rewrite
  <2>2. CASE \E n \in Names : \E to \in Leads(n) : Relink(n, to)
    <3>n. PICK n \in Names : \E to \in Leads(n) : Relink(n, to)
      BY <2>2
    <3> PICK to \in Leads(n) : Relink(n, to)
      BY <3>n
    <3>1. PICK ident \in {link[n].ident, link[n].ident + 1} :
            link' = [link EXCEPT ![n] = [to |-> to, ident |-> ident]]
      BY DEF Relink
    <3>2. ident \in Nat
      BY <3>1 DEF Typed, TypeOK
    <3>3. to \in Files \cup {Absent}
      BY DEF Leads, Files, Direct
    <3> QED
      BY <3>1, <3>2, <3>3 DEF Typed, TypeOK, Relink
  <2> QED
    BY <2>1, <2>2
<1>2. UNCHANGED <<pc, scripts, targets, work, decision>>
  BY DEF Rewrite, Relink, Changed
<1> QED
  BY <1>1, <1>2 DEF Typed, TypeOK, Held, work, Candidates

LEMMA TypedStep == Typed /\ [Next]_vars => Typed'
<1> SUFFICES ASSUME Typed, [Next]_vars PROVE Typed'
  OBVIOUS
<1>t. /\ \A path \in Files : At(path) \in [content : Contents \cup {Absent}, time : Nat]
      /\ \A n \in Names : Canonical(n) \in Files \cup {Absent}
      /\ \A c \in Contents : Size[c] \in Nat
      /\ Len(Candidates) \in Nat
  BY PathType, SizeType, CandidatesType DEF Typed
<1>c. UNCHANGED scripts => UNCHANGED Candidates
  BY DEF Candidates
<1>1. CASE Resolve
  <2>1. CASE PassOver
    BY <1>1, <2>1, PassOverTyped DEF Resolve, Looking
  <2>2. CASE ~PassOver
    <3>1. Script \in Names
      BY <1>1, ScriptType DEF Resolve, Typed
    <3>2. Canonical(Script) \in Files
      BY <1>1, <1>t, <2>2, <3>1 DEF Resolve
    <3> QED
      BY <1>1, <1>c, <2>2, <3>2 DEF Resolve, Looking, Typed, TypeOK, Held, disk, Leads
  <2> QED
    BY <2>1, <2>2
<1>2. CASE Stat
  <2>1. CASE PassOver
    BY <1>2, <2>1, PassOverTyped DEF Stat, Looking, Typed, Held
  <2>2. CASE Throws
    BY <1>2, <2>2 DEF Stat, Looking, Throws, Typed, TypeOK, Held, disk, work, Leads
  <2>3. CASE ~PassOver /\ ~Throws
    <3>1. hand.path \in Files /\ At(hand.path).content \in Contents /\ At(hand.path).time \in Nat
      BY <1>2, <1>t, <2>3 DEF Stat, Looking, Typed, Held
    <3>2. Size[At(hand.path).content] \in Nat
      BY <1>t, <3>1
    <3> QED
      BY <1>2, <1>c, <2>3, <3>1, <3>2 DEF Stat, Looking, Typed, TypeOK, Held, disk, Leads
  <2> QED
    BY <2>1, <2>2, <2>3
<1>3. CASE Read
  <2> DEFINE content == At(hand.path).content
  <2>h. pc = "read" /\ at <= Len(Candidates) /\ hand.path \in Files
    BY <1>3 DEF Read, Looking, Typed, Held
  <2>1. CASE PassOver
    BY <1>3, <2>1, <2>h, PassOverTyped DEF Read, Looking
  <2>2. CASE Throws
    BY <1>3, <2>2 DEF Read, Looking, Throws, Typed, TypeOK, Held, disk, work, Leads
  <2>3. CASE content \in Contents /\ Record(content, 0)
    BY <1>3, <2>3, <2>h, RecordTyped DEF Read, Looking
  <2>4. CASE /\ content \in Contents /\ pc' = "lstat" /\ hand' = [hand EXCEPT !.content = content]
             /\ UNCHANGED <<at, prints, attached, chars, uninspected, listed>>
    <3> HIDE DEF content
    <3> QED
      BY <1>3, <1>c, <2>4, <2>h DEF Read, Looking, Typed, TypeOK, Held, disk, Leads
  <2>5. content \in Contents \cup {Absent}
    BY <1>t, <2>h
  <2> QED
    BY <1>3, <2>1, <2>2, <2>3, <2>4, <2>5 DEF Read
<1>4. CASE Lstat
  <2>h. pc = "lstat" /\ at <= Len(Candidates) /\ hand.path \in Files /\ hand.content \in Contents
    BY <1>4 DEF Lstat, Looking, Typed, Held
  <2>1. CASE PassOver
    BY <1>4, <2>1, <2>h, PassOverTyped DEF Lstat, Looking
  <2>2. CASE Record(hand.content, Identity(Script))
    <3>1. Script \in Names
      BY <2>h, ScriptType DEF Typed
    <3>2. Identity(Script) \in Nat
      BY <3>1 DEF Identity, Typed, TypeOK
    <3> QED
      BY <1>4, <2>2, <2>h, <3>2, RecordTyped DEF Lstat, Looking
  <2> QED
    BY <1>4, <2>1, <2>2 DEF Lstat
<1>5. CASE ScriptsDone
  BY <1>5 DEF ScriptsDone, Looking, Typed, TypeOK, Held, disk, Leads
<1>6. CASE InspectDirectory
  <2>1. TargetCandidates[at] \in Dirs
    BY <1>6, TargetType DEF InspectDirectory, Typed
  <2>2. listed' \subseteq Dirs /\ uninspected' \subseteq Names \cup Dirs
    BY <1>6, <2>1 DEF InspectDirectory, Typed, TypeOK
  <2> QED
    BY <1>6, <2>2 DEF InspectDirectory, Looking, Typed, TypeOK, Held, disk, Leads
<1>7. CASE Decide
  <2>1. hand' \in [path : Files \cup {Absent}, size : Nat, time : Nat, content : Contents \cup {Absent}]
    BY <1>7 DEF Decide, Nothing
  <2>2. pc' \in {"verify", "review", "blocked"}
    BY <1>7 DEF Decide, Then
  <2> QED
    BY <1>7, <2>1, <2>2 DEF Decide, Typed, TypeOK, Held, disk, Leads
<1>8. CASE ReviewEnds
  BY <1>8 DEF ReviewEnds, Typed, TypeOK, Held, disk, work, Leads
<1>9. CASE VerifyLink
  BY <1>9 DEF VerifyLink, Looking, Differs, Typed, TypeOK, Held, disk, work, Leads
<1>10. CASE VerifyTarget
  BY <1>10 DEF VerifyTarget, Looking, Differs, Typed, TypeOK, Held, disk, work, Leads
<1>11. CASE VerifyStat
  <2>1. CASE Differs
    BY <1>11, <2>1 DEF VerifyStat, Looking, Differs, Typed, TypeOK, Held, disk, work, Leads
  <2>2. CASE ~Differs
    <3>1. Known \in Fingerprint
      BY <1>11, ElementOfSeq DEF VerifyStat, Looking, Typed, TypeOK, Held, Known
    <3>2. Known.path \in Files
      BY <3>1 DEF Fingerprint
    <3>3. At(Known.path).content \in Contents /\ At(Known.path).time \in Nat
      BY <1>11, <1>t, <2>2, <3>2 DEF VerifyStat
    <3>4. Size[At(Known.path).content] \in Nat
      BY <1>t, <3>3
    <3> QED
      BY <1>11, <2>2, <3>3, <3>4 DEF VerifyStat, Looking, Typed, TypeOK, Held, disk, Leads
  <2> QED
    BY <2>1, <2>2
<1>12. CASE VerifyRead
  <2>1. CASE Same
    <3>1. Nothing \in [path : Files \cup {Absent}, size : Nat, time : Nat, content : Contents \cup {Absent}]
      BY DEF Nothing
    <3> QED
      BY <1>12, <2>1, <3>1 DEF VerifyRead, Looking, Same, Typed, TypeOK, Held, disk, Leads
  <2>2. CASE Differs
    BY <1>12, <2>2 DEF VerifyRead, Looking, Differs, Typed, TypeOK, Held, disk, work, Leads
  <2> QED
    BY <1>12, <2>1, <2>2 DEF VerifyRead
<1>13. CASE Verified
  BY <1>13 DEF Verified, Looking, Typed, TypeOK, Held, disk, work, Leads
<1>14. CASE \/ \E f \in Files, content \in Contents \cup {Absent} : Rewrite(f, content)
            \/ \E n \in Names : \E to \in Leads(n) : Relink(n, to)
  BY <1>14, ChangeTyped
<1>15. CASE UNCHANGED vars
  BY <1>15, <1>c DEF vars, disk, work, Typed, TypeOK, Held, Leads
<1> QED
  BY <1>1, <1>2, <1>3, <1>4, <1>5, <1>6, <1>7, <1>8, <1>9, <1>10, <1>11, <1>12, <1>13, <1>14, <1>15 DEF Next

\* The values of the code's locals: paths are canonical, fingerprints complete, and
\* what goes to the reviewer stays within MAX_CLOUD_LOCAL_SCRIPT_CHARS.
THEOREM Types == Spec => []TypeOK
<1>1. Typed => TypeOK
  BY DEF Typed
<1> QED
  BY <1>1, TypedInit, TypedStep, PTL DEF Spec

-----------------------------------------------------------------------------
(* What runs is what was read *)

\* A fingerprint the disk agrees with: the content, and where the link leads.
Agrees(p) ==
  /\ At(p.path).content = p.content
  /\ p.link # 0 => Canonical(p.name) = p.path

Verifying == {"verify", "verify_target", "verify_stat", "verify_read"}

\* While nobody writes, the disk agrees with the fingerprints that are behind.
Progress ==
  /\ pc = "review" => at = 1
  /\ pc = "runs" => at > Len(prints)
  /\ "verification" \in settled /\ pc \in Verifying \cup {"runs"} =>
       \A i \in 1..Len(prints) : i < at => Agrees(prints[i])
  /\ "verification" \in settled /\ pc \in {"verify_stat", "verify_read"} /\ Known.link # 0 =>
       Canonical(Known.name) = Known.path

LEMMA SameDisk ==
  ASSUME UNCHANGED disk
  PROVE  /\ \A n : Canonical(n)' = Canonical(n)
         /\ \A path : At(path)' = At(path)
         /\ \A n : Identity(n)' = Identity(n)
  BY DEF disk, Canonical, At, Identity, IsLink

LEMMA ProgressStep == Typed /\ Progress /\ [Next]_vars => Progress'
<1> SUFFICES ASSUME Typed, Progress, [Next]_vars PROVE Progress'
  OBVIOUS
<1>p. prints \in Seq(Fingerprint) /\ Len(prints) \in Nat /\ at \in Nat \ {0}
  BY DEF Typed, TypeOK
<1>a. UNCHANGED disk => \A p : Agrees(p)' <=> Agrees(p)
  BY SameDisk DEF Agrees
<1>1. CASE Resolve \/ Stat \/ Read \/ Lstat \/ ScriptsDone \/ InspectDirectory
  <2>1. pc' \notin Verifying \cup {"runs", "review"}
    BY <1>1 DEF Verifying, Resolve, Stat, Read, Lstat, ScriptsDone, InspectDirectory, PassOver, Record,
                NextScript, Throws, Looking
  <2> QED
    BY <2>1 DEF Progress, Verifying
<1>2. CASE Decide
  BY <1>2, <1>p DEF Decide, Then, Progress, Verifying
<1>3. CASE ReviewEnds
  BY <1>3, <1>p DEF ReviewEnds, Progress, Verifying, work
<1>4. CASE VerifyLink \/ VerifyTarget
  <2>1. UNCHANGED <<disk, at, prints, settled>> /\ pc' # "runs" /\ pc' # "review"
        /\ (pc' \in Verifying => pc \in Verifying)
        /\ (pc' \in {"verify_stat", "verify_read"} /\ Known.link # 0 => Canonical(Known.name) = Known.path)
    BY <1>4 DEF VerifyLink, VerifyTarget, Looking, Differs, work, Verifying
  <2>2. UNCHANGED Known /\ Canonical(Known.name)' = Canonical(Known.name)
    BY <2>1, SameDisk DEF Known
  <2> QED
    BY <1>a, <2>1, <2>2 DEF Progress, Verifying
<1>5. CASE VerifyStat
  <2>1. UNCHANGED <<disk, at, prints, settled>> /\ pc = "verify_stat" /\ pc' \in {"verify_read", "changed"}
    BY <1>5 DEF VerifyStat, Looking, Differs, work
  <2>2. UNCHANGED Known /\ Canonical(Known.name)' = Canonical(Known.name)
    BY <2>1, SameDisk DEF Known
  <2> QED
    BY <1>a, <2>1, <2>2 DEF Progress, Verifying
<1>6. CASE VerifyRead
  <2>1. CASE Differs
    BY <2>1 DEF Differs, Progress, Verifying
  <2>2. CASE Matches(At(Known.path).content) /\ Same
    <3>1. UNCHANGED <<disk, prints, settled>> /\ pc = "verify_read" /\ pc' = "verify" /\ at' = at + 1
      BY <1>6, <2>2 DEF VerifyRead, Looking, Same
    <3>2. "verification" \in settled => Agrees(prints[at])
      BY <2>2, <3>1 DEF Matches, Agrees, Known, Progress
    <3>3. \A i \in 1..Len(prints) : i < at + 1 => i < at \/ i = at
      BY <1>p
    <3>4. "verification" \in settled => \A i \in 1..Len(prints) : i < at + 1 => Agrees(prints[i])
      BY <3>1, <3>2, <3>3 DEF Progress, Verifying
    <3> QED
      BY <1>a, <3>1, <3>4 DEF Progress, Verifying
  <2> QED
    BY <1>6, <2>1, <2>2 DEF VerifyRead
<1>7. CASE Verified
  <2>1. UNCHANGED <<disk, at, prints, settled>> /\ pc = "verify" /\ pc' = "runs" /\ at > Len(prints)
    BY <1>7 DEF Verified, Looking, work
  <2> QED
    BY <1>a, <2>1 DEF Progress, Verifying
<1>8. CASE \/ \E f \in Files, content \in Contents \cup {Absent} : Rewrite(f, content)
           \/ \E n \in Names : \E to \in Leads(n) : Relink(n, to)
  <2>1. settled' = {} /\ UNCHANGED <<pc, at, prints>>
    BY <1>8 DEF Rewrite, Relink, Changed, work
  <2> QED
    BY <2>1 DEF Progress
<1>9. CASE UNCHANGED vars
  <2>1. UNCHANGED <<disk, pc, at, prints, settled>>
    BY <1>9 DEF vars, work
  <2>2. UNCHANGED Known /\ Canonical(Known.name)' = Canonical(Known.name)
    BY <2>1, SameDisk DEF Known
  <2> QED
    BY <1>a, <2>1, <2>2 DEF Progress
<1> QED
  BY <1>1, <1>2, <1>3, <1>4, <1>5, <1>6, <1>7, <1>8, <1>9 DEF Next

\* Where a name leads to a file, its own or a linked one, stat and readFile see
\* the same file at that path.
LEMMA AtCanonical ==
  ASSUME TypeOK, NEW n \in Names, Canonical(n) # Absent
  PROVE  Canonical(n) \in Files /\ At(Canonical(n)) = file[Canonical(n)]
<1>1. Canonical(n) = link[n].to /\ link[n].to \in Files /\ link[n].to \in Leads(n)
  BY DEF Canonical, TypeOK
<1>2. link[n].to \in Direct => link[n].to = n
  BY <1>1, PathAssumption DEF Direct, Leads
<1> QED
  BY <1>1, <1>2 DEF At

\* A fingerprint the disk agrees with is what its script runs.
LEMMA AgreesRuns ==
  ASSUME TypeOK, NEW p \in Fingerprint, Agrees(p), p.link # 0 \/ p.path = p.name
  PROVE  Runs(p.name) = p.content
<1>1. p.name \in Names /\ p.path \in Files /\ p.content # Absent /\ p.path # Absent
  BY PathAssumption DEF Fingerprint, Contents, Size, Absent, Files, Direct
<1>2. CASE p.link # 0
  BY <1>1, <1>2, AtCanonical DEF Agrees, Runs
<1>3. CASE p.path = p.name
  <2>1. p.name \in Direct
    BY <1>1, <1>3, PathAssumption DEF Files
  <2>2. At(p.path) = file[link[p.name].to] /\ link[p.name].to \in Files
    BY <1>1, <1>3, <2>1, PathAssumption DEF At, TypeOK, Leads, Files, Direct
  <2>3. Canonical(p.name) = link[p.name].to
    BY <1>1, <2>2 DEF Canonical, Agrees
  <2>4. link[p.name].to # Absent
    BY <2>2, PathAssumption DEF Files, Direct
  <2> QED
    BY <2>2, <2>3, <2>4 DEF Runs, Agrees
<1> QED
  BY <1>2, <1>3

\* With nobody writing while the fingerprints are verified, the command runs the
\* content that was scanned and reviewed, through its link too, whatever happened
\* to the files before (verifyScriptFingerprints, classifier.ts:3106-3143).
THEOREM WhatRunsWasRead == Spec => []RunsWhatWasRead
<1>1. Init => Progress
  BY DEF Init, Progress, Verifying
<1>2. Typed /\ Progress => RunsWhatWasRead
  <2> SUFFICES ASSUME Typed, Progress, pc = "runs", "verification" \in settled,
                      NEW i \in DOMAIN prints, prints[i].link # 0 \/ prints[i].path = prints[i].name
               PROVE  Runs(prints[i].name) = prints[i].content
    BY DEF RunsWhatWasRead
  <2>1. prints \in Seq(Fingerprint) /\ i \in 1..Len(prints) /\ at \in Nat /\ Len(prints) \in Nat
    BY DEF Typed, TypeOK
  <2>2. prints[i] \in Fingerprint
    BY <2>1, ElementOfSeq
  <2>3. i < at
    BY <2>1 DEF Progress
  <2>4. Agrees(prints[i])
    BY <2>1, <2>3 DEF Progress, Verifying
  <2> QED
    BY <2>2, <2>4, AgreesRuns DEF Typed
<1> QED
  BY <1>1, <1>2, TypedInit, TypedStep, ProgressStep, PTL DEF Spec

-----------------------------------------------------------------------------
(* Every candidate is accounted for *)

Reading == {"resolve", "stat", "read", "lstat"}

\* The candidates before the one that is read, and all of them.
Behind(k) == {Candidates[i] : i \in {j \in 1..Len(Candidates) : j < k}}
All == {Candidates[i] : i \in 1..Len(Candidates)}

Accounted ==
  /\ \A i, j \in DOMAIN scripts : scripts[i] = scripts[j] => i = j
  /\ attached \cap uninspected = {}
  /\ pc \in Reading => Behind(at) = attached \cup (uninspected \cap Names)
  /\ pc \notin Reading \cup {"thrown"} => All = attached \cup (uninspected \cap Names)
  /\ pc \in Reading \cup {"directory", "thrown"} => decision = [verdict |-> "none", by |-> "none"]
  /\ decision.by = "inspected" => attached = All /\ ~Findings

\* The candidate that is read is none of those behind it.
LEMMA ScriptIsNew ==
  ASSUME Typed, Accounted, at <= Len(Candidates)
  PROVE  Script \notin Behind(at) /\ Behind(at + 1) = Behind(at) \cup {Script}
<1>1. /\ Len(Candidates) \in Nat /\ at \in 1..Len(Candidates)
      /\ \A i \in 1..Len(Candidates) : Candidates[i] = scripts[i] /\ i \in DOMAIN scripts
  BY CandidatesType DEF Typed, TypeOK
<1>2. \A i \in 1..Len(Candidates) : i < at => Candidates[i] # Candidates[at]
  BY <1>1 DEF Accounted
<1>3. {j \in 1..Len(Candidates) : j < at + 1} = {j \in 1..Len(Candidates) : j < at} \cup {at}
  BY <1>1
<1> QED
  BY <1>1, <1>2, <1>3 DEF Behind, Script

LEMMA AccountedStep == Typed /\ Accounted /\ [Next]_vars => Accounted'
<1> SUFFICES ASSUME Typed, Accounted, [Next]_vars PROVE Accounted'
  OBVIOUS
<1>c. UNCHANGED scripts => UNCHANGED <<Candidates, All>>
  BY DEF Candidates, All
<1>f. UNCHANGED prints => UNCHANGED Findings
  BY DEF Findings, Scanned
<1>p. \* A candidate is passed over or recorded.
      ASSUME Looking(pc), pc \in Reading, at <= Len(Candidates), NextScript, UNCHANGED listed,
             \/ attached' = attached \cup {Script} /\ UNCHANGED uninspected
             \/ uninspected' = uninspected \cup {Script} /\ UNCHANGED attached
      PROVE  Accounted'
  <2>1. Script \in Names /\ Script \notin Behind(at) /\ Behind(at + 1) = Behind(at) \cup {Script}
    BY <1>p, ScriptType, ScriptIsNew DEF Typed
  <2>2. Behind(at + 1) = attached' \cup (uninspected' \cap Names) /\ attached' \cap uninspected' = {}
    BY <1>p, <2>1 DEF Accounted
  <2>3. Behind(at + 1) = Behind(at)'
    <3>1. UNCHANGED Candidates /\ at' = at + 1
      BY <1>p, <1>c DEF Looking, NextScript
    <3> QED
      BY <3>1 DEF Behind
  <2>4. pc' = "resolve" /\ UNCHANGED <<scripts, decision>> /\ decision = [verdict |-> "none", by |-> "none"]
    BY <1>p DEF Looking, NextScript, Accounted, Reading
  <2> QED
    BY <2>2, <2>3, <2>4 DEF Accounted, Reading
<1>q. ASSUME UNCHANGED <<scripts, at, prints, attached, uninspected, decision>>,
             pc \in Reading <=> pc' \in Reading, pc = "thrown" <=> pc' = "thrown",
             pc' = "directory" => pc = "directory"
      PROVE  Accounted'
  <2>1. UNCHANGED <<Candidates, All, Findings>>
    BY <1>q, <1>c, <1>f
  <2>2. Behind(at)' = Behind(at)
    BY <1>q, <2>1 DEF Behind
  <2> QED
    BY <1>q, <2>1, <2>2 DEF Accounted, Reading
<1>r. ASSUME pc \in Reading, pc' = "thrown", UNCHANGED <<scripts, at, prints, attached, uninspected, decision>>
      PROVE  Accounted'
  BY <1>r, <1>c, <1>f DEF Accounted, Reading
<1>1. CASE Resolve
  <2>1. CASE PassOver
    BY <1>1, <1>p, <2>1 DEF Resolve, Looking, PassOver, Reading
  <2>2. CASE ~PassOver
    BY <1>1, <1>q, <2>2 DEF Resolve, Looking, Reading
  <2> QED
    BY <2>1, <2>2
<1>2. CASE Stat
  <2>h. pc = "stat" /\ at <= Len(Candidates)
    BY <1>2 DEF Stat, Looking, Typed, Held
  <2>1. CASE PassOver
    BY <1>2, <1>p, <2>h, <2>1 DEF Stat, Looking, PassOver, Reading
  <2>2. CASE Throws
    BY <1>2, <1>r, <2>h, <2>2 DEF Stat, Looking, Throws, work, Reading
  <2>3. CASE ~PassOver /\ ~Throws
    BY <1>2, <1>q, <2>h, <2>3 DEF Stat, Looking, Reading
  <2> QED
    BY <2>1, <2>2, <2>3
<1>3. CASE Read
  <2>h. pc = "read" /\ at <= Len(Candidates)
    BY <1>3 DEF Read, Looking, Typed, Held
  <2>1. CASE PassOver
    BY <1>3, <1>p, <2>h, <2>1 DEF Read, Looking, PassOver, Reading
  <2>2. CASE Throws
    BY <1>3, <1>r, <2>h, <2>2 DEF Read, Looking, Throws, work, Reading
  <2>3. CASE Record(At(hand.path).content, 0)
    BY <1>3, <1>p, <2>h, <2>3 DEF Read, Looking, Record, Fits, Reading
  <2>4. CASE ~PassOver /\ ~Throws /\ ~Record(At(hand.path).content, 0)
    BY <1>3, <1>q, <2>h, <2>4 DEF Read, Looking, Reading
  <2> QED
    BY <2>1, <2>2, <2>3, <2>4
<1>4. CASE Lstat
  <2>h. pc = "lstat" /\ at <= Len(Candidates)
    BY <1>4 DEF Lstat, Looking, Typed, Held
  <2>1. CASE PassOver
    BY <1>4, <1>p, <2>h, <2>1 DEF Lstat, Looking, PassOver, Reading
  <2>2. CASE Record(hand.content, Identity(Script))
    BY <1>4, <1>p, <2>h, <2>2 DEF Lstat, Looking, Record, Fits, Reading
  <2> QED
    BY <1>4, <2>1, <2>2 DEF Lstat
<1>5. CASE ScriptsDone
  <2>1. pc = "resolve" /\ pc' = "directory" /\ at > Len(Candidates)
        /\ UNCHANGED <<scripts, attached, uninspected, prints, decision>>
    BY <1>5 DEF ScriptsDone, Looking
  <2>2. Len(Candidates) \in Nat /\ at \in Nat
    BY CandidatesType DEF Typed, TypeOK
  <2>3. Behind(at) = All
    BY <2>1, <2>2 DEF Behind, All
  <2>4. All = attached \cup (uninspected \cap Names) /\ decision = [verdict |-> "none", by |-> "none"]
    BY <2>1, <2>3 DEF Accounted, Reading
  <2> QED
    BY <1>c, <1>f, <2>1, <2>4 DEF Accounted, Reading
<1>6. CASE InspectDirectory
  <2>1. TargetCandidates[at] \in Dirs /\ attached \subseteq Names
    BY <1>6, TargetType DEF InspectDirectory, Typed, TypeOK
  <2>2. pc = "directory" /\ UNCHANGED <<pc, scripts, attached, prints, decision>>
    BY <1>6 DEF InspectDirectory, Looking
  <2>3. uninspected' \cap Names = uninspected \cap Names /\ attached \cap uninspected' = {}
    BY <1>6, <2>1, PathAssumption DEF InspectDirectory, Accounted
  <2> QED
    BY <1>c, <1>f, <2>2, <2>3 DEF Accounted, Reading
<1>7. CASE Decide
  <2>1. PICK segment \in Decisions, disposable \in BOOLEAN, piped \in BOOLEAN :
          decision' = Decision(segment, disposable, piped)
    BY <1>7 DEF Decide
  <2>2. pc = "directory" /\ UNCHANGED <<scripts, attached, uninspected, prints>>
        /\ pc' \in {"verify", "review", "blocked"}
    BY <1>7 DEF Decide, Then
  <2>3. All = attached \cup (uninspected \cap Names)
    BY <2>2 DEF Accounted, Reading
  <2>4. decision'.by = "inspected" => Inspected(segment)
    BY <2>1 DEF Decision
  <2>5. decision'.by = "inspected" => attached = All /\ ~Findings
    BY <2>3, <2>4 DEF Inspected
  <2> QED
    BY <1>c, <1>f, <2>2, <2>3, <2>5 DEF Accounted, Reading
<1>8. CASE ReviewEnds
  BY <1>8, <1>q DEF ReviewEnds, Reading, work
<1>9. CASE VerifyLink \/ VerifyTarget \/ VerifyStat \/ VerifyRead \/ Verified
  <2>1. UNCHANGED <<scripts, prints, attached, uninspected, decision>>
        /\ {pc, pc'} \cap (Reading \cup {"directory", "thrown"}) = {}
    BY <1>9 DEF VerifyLink, VerifyTarget, VerifyStat, VerifyRead, Verified, Looking, Differs, Same, work, Reading
  <2> QED
    BY <1>c, <1>f, <2>1 DEF Accounted
<1>10. CASE \/ \E f \in Files, content \in Contents \cup {Absent} : Rewrite(f, content)
            \/ \E n \in Names : \E to \in Leads(n) : Relink(n, to)
  <2>1. UNCHANGED <<pc, scripts, at, prints, attached, uninspected, decision>>
    BY <1>10 DEF Rewrite, Relink, Changed, work
  <2> QED
    BY <1>q, <2>1
<1>11. CASE UNCHANGED vars
  BY <1>11, <1>q DEF vars, work
<1> QED
  BY <1>1, <1>2, <1>3, <1>4, <1>5, <1>6, <1>7, <1>8, <1>9, <1>10, <1>11 DEF Next

\* Between the reads and the reviewer nothing is dropped: each candidate is attached
\* or declared uninspected, and one allowed on inspection is attached and clean
\* (classifyShellCommand, classifier.ts:3883-3931 and 3993).
THEOREM NothingDropped == Spec => []CandidatesAccounted
<1>1. Init => Accounted
  <2> SUFFICES ASSUME Init PROVE Accounted
    OBVIOUS
  <2>1. \A i, j \in DOMAIN scripts : scripts[i] = scripts[j] => i = j
    BY ListsType, LimitAssumption DEF Init
  <2>2. Behind(at) = {}
    BY DEF Behind, Init
  <2> QED
    BY <2>1, <2>2 DEF Init, Accounted, Reading
<1>2. Typed /\ Accounted => CandidatesAccounted
  <2> SUFFICES ASSUME Typed, Accounted, decision.verdict # "none" PROVE
         /\ {Candidates[i] : i \in DOMAIN Candidates} = attached \cup (uninspected \cap Names)
         /\ attached \cap uninspected = {} /\ chars <= MaxChars
         /\ decision.by = "inspected" => attached = {Candidates[i] : i \in DOMAIN Candidates} /\ ~Findings
    BY DEF CandidatesAccounted
  <2>1. {Candidates[i] : i \in DOMAIN Candidates} = All
    BY CandidatesType DEF All, Typed
  <2>2. chars <= MaxChars
    BY LimitAssumption DEF Typed, TypeOK
  <2>3. pc \notin Reading \cup {"thrown"}
    BY DEF Accounted
  <2> QED
    BY <2>1, <2>2, <2>3 DEF Accounted
<1> QED
  BY <1>1, <1>2, TypedInit, TypedStep, AccountedStep, PTL DEF Spec

-----------------------------------------------------------------------------
(* A quiet disk *)

\* A fingerprint as it is taken from the disk there is now.
Fresh(p) ==
  /\ p.path = Canonical(p.name) /\ p.link \in {0, Identity(p.name)}
  /\ p.content = At(p.path).content /\ p.content # "directory"
  /\ p.size = Size[p.content] /\ p.time = At(p.path).time

\* What is at hand while a script is read, and while its fingerprint is verified.
SeenOf(path) ==
  hand.size = Size[At(path).content] /\ hand.time = At(path).time

Quiet ==
  "inspection" \in settled =>
    /\ pc \notin {"changed", "thrown"}
    /\ \A i \in 1..Len(prints) : Fresh(prints[i])
    /\ pc \in {"stat", "read", "lstat"} => hand.path = Canonical(Script)
    /\ pc \in {"read", "lstat"} => SeenOf(hand.path) /\ At(hand.path).content # "directory"
    /\ pc = "lstat" => hand.content = At(hand.path).content
    /\ pc = "verify_read" => SeenOf(Known.path) /\ hand.content = At(Known.path).content

LEMMA PresentAt ==
  ASSUME TypeOK, NEW n \in Names, Canonical(n) # Absent
  PROVE  At(Canonical(n)).content # Absent
  BY AtCanonical DEF Canonical

LEMMA QuietStep == Typed /\ Quiet /\ [Next]_vars => Quiet'
<1> SUFFICES ASSUME Typed, Quiet, [Next]_vars, "inspection" \in settled'
             PROVE  Quiet'
  BY DEF Quiet
<1>p. prints \in Seq(Fingerprint) /\ Len(prints) \in Nat /\ at \in Nat \ {0}
  BY DEF Typed, TypeOK
<1>d. UNCHANGED disk => /\ \A p : Fresh(p)' <=> Fresh(p)
                        /\ \A path : At(path)' = At(path)
                        /\ \A n : Canonical(n)' = Canonical(n)
  BY SameDisk DEF Fresh
<1>m. ASSUME UNCHANGED <<disk, prints>>, "inspection" \in settled,
             pc' \in {"resolve", "directory", "review", "verify", "verify_target", "verify_stat", "runs", "blocked"}
      PROVE  Quiet'
  BY <1>d, <1>m DEF Quiet
<1>s. UNCHANGED <<scripts, at>> => UNCHANGED Script
  BY DEF Script, Candidates
<1>k. ASSUME pc \in {"verify", "verify_target", "verify_stat", "verify_read"}, at <= Len(prints),
             "inspection" \in settled
      PROVE  Known \in Fingerprint /\ Fresh(Known) /\ At(Known.path).content # Absent
  <2>1. Known \in Fingerprint
    BY <1>p, <1>k, ElementOfSeq DEF Known
  <2>2. Fresh(Known)
    BY <1>p, <1>k DEF Known, Quiet
  <2>3. Known.content # Absent
    BY <2>1 DEF Fingerprint, Contents, Size, Absent
  <2> QED
    BY <2>1, <2>2, <2>3 DEF Fresh
<1>r. ASSUME NEW content \in Contents, NEW ident, ident \in {0, Identity(Script)}, at <= Len(Candidates),
             content = At(hand.path).content, pc \in {"read", "lstat"}, "inspection" \in settled,
             UNCHANGED disk, Record(content, ident)
      PROVE  Quiet'
  <2>1. Script \in Names /\ ident \in Nat
    BY <1>r, ScriptType DEF Typed, TypeOK, Identity
  <2>2. Fresh(FingerprintOf(content, ident))
    BY <1>r DEF Fresh, FingerprintOf, Quiet, SeenOf
  <2>3. prints' = Append(prints, FingerprintOf(content, ident)) /\ pc' = "resolve"
    BY <1>r DEF Record, NextScript
  <2>4. FingerprintOf(content, ident) \in Fingerprint
    BY <1>r, <2>1, SizeType DEF FingerprintOf, Fingerprint, Quiet, SeenOf, Typed, TypeOK, Held
  <2>5. /\ Len(prints') = Len(prints) + 1
        /\ \A i \in 1..Len(prints) : prints'[i] = prints[i]
        /\ prints'[Len(prints) + 1] = FingerprintOf(content, ident)
    BY <1>p, <2>3, <2>4, AppendProperties
  <2>6. \A i \in 1..Len(prints') : i \in 1..Len(prints) \/ i = Len(prints) + 1
    BY <1>p, <2>5
  <2>7. \A i \in 1..Len(prints') : Fresh(prints'[i])
    BY <1>r, <2>2, <2>5, <2>6 DEF Quiet
  <2>8. \A i \in 1..Len(prints') : Fresh(prints[i])'
    BY <1>d, <1>r, <2>7 DEF Fresh
  <2> QED
    BY <2>3, <2>8 DEF Quiet
<1>1. CASE Resolve
  <2>1. UNCHANGED <<disk, scripts, settled>>
    BY <1>1 DEF Resolve, Looking
  <2>2. CASE PassOver
    BY <1>m, <2>1, <2>2 DEF PassOver, NextScript
  <2>3. CASE ~PassOver
    <3>1. pc' = "stat" /\ UNCHANGED <<at, prints>> /\ hand'.path = Canonical(Script)
      BY <1>1, <2>3 DEF Resolve, Typed, TypeOK
    <3>2. hand'.path = Canonical(Script)'
      BY <1>d, <1>s, <2>1, <3>1
    <3> QED
      BY <1>d, <2>1, <3>1, <3>2 DEF Quiet
  <2> QED
    BY <2>2, <2>3
<1>2. CASE Stat
  <2>1. UNCHANGED <<disk, scripts, settled>> /\ pc = "stat" /\ at <= Len(Candidates)
    BY <1>2 DEF Stat, Looking, Typed, Held
  <2>2. Script \in Names /\ hand.path = Canonical(Script) /\ hand.path \in Files /\ hand.path # Absent
    BY <2>1, ScriptType, PathAssumption DEF Typed, Held, Quiet, Files, Direct
  <2>3. At(hand.path).content # Absent
    BY <2>2, PresentAt DEF Typed
  <2>4. CASE PassOver
    BY <1>m, <2>1, <2>4 DEF PassOver, NextScript
  <2>5. CASE ~PassOver
    <3>1. /\ pc' = "read" /\ UNCHANGED <<at, prints>> /\ At(hand.path).content # "directory"
          /\ hand' = [hand EXCEPT !.size = Size[At(hand.path).content], !.time = At(hand.path).time]
      BY <1>2, <2>3, <2>5 DEF Stat
    <3>2. hand'.path = hand.path /\ hand'.size = Size[At(hand.path).content] /\ hand'.time = At(hand.path).time
      BY <3>1 DEF Typed, TypeOK
    <3>3. hand'.path = Canonical(Script)' /\ At(hand.path)' = At(hand.path)
      BY <1>d, <1>s, <2>1, <2>2, <3>1, <3>2
    <3> QED
      BY <1>d, <2>1, <3>1, <3>2, <3>3 DEF Quiet, SeenOf
  <2> QED
    BY <2>4, <2>5
<1>3. CASE Read
  <2>1. UNCHANGED <<disk, scripts, settled>> /\ pc = "read" /\ at <= Len(Candidates)
    BY <1>3 DEF Read, Looking, Typed, Held
  <2>2. /\ Script \in Names /\ hand.path = Canonical(Script) /\ hand.path \in Files /\ hand.path # Absent
        /\ SeenOf(hand.path) /\ At(hand.path).content # "directory"
    BY <2>1, ScriptType, PathAssumption DEF Typed, Held, Quiet, Files, Direct
  <2>3. At(hand.path).content # Absent
    BY <2>2, PresentAt DEF Typed
  <2>4. At(hand.path).content \in Contents
    BY <2>2, <2>3, PathType DEF Typed
  <2>5. CASE PassOver
    BY <1>m, <2>1, <2>5 DEF PassOver, NextScript
  <2>6. CASE Record(At(hand.path).content, 0)
    BY <1>r, <2>1, <2>4, <2>6
  <2>7. CASE ~PassOver /\ ~Record(At(hand.path).content, 0)
    <3>1. /\ pc' = "lstat" /\ UNCHANGED <<at, prints>>
          /\ hand' = [hand EXCEPT !.content = At(hand.path).content]
      BY <1>3, <2>2, <2>3, <2>7 DEF Read
    <3>2. hand'.path = hand.path /\ hand'.size = hand.size /\ hand'.time = hand.time
          /\ hand'.content = At(hand.path).content
      BY <3>1 DEF Typed, TypeOK
    <3>3. hand'.path = Canonical(Script)' /\ At(hand.path)' = At(hand.path)
      BY <1>d, <1>s, <2>1, <2>2, <3>1, <3>2
    <3> QED
      BY <1>d, <2>1, <2>2, <3>1, <3>2, <3>3 DEF Quiet, SeenOf
  <2> QED
    BY <2>5, <2>6, <2>7
<1>4. CASE Lstat
  <2>1. UNCHANGED <<disk, scripts, settled>> /\ pc = "lstat" /\ at <= Len(Candidates)
    BY <1>4 DEF Lstat, Looking, Typed, Held
  <2>2. CASE PassOver
    BY <1>m, <2>1, <2>2 DEF PassOver, NextScript
  <2>3. CASE Record(hand.content, Identity(Script))
    BY <1>r, <2>1, <2>3 DEF Quiet, Typed, Held
  <2> QED
    BY <1>4, <2>2, <2>3 DEF Lstat
<1>5. CASE ScriptsDone \/ InspectDirectory
  BY <1>5, <1>m DEF ScriptsDone, InspectDirectory, Looking
<1>6. CASE Decide
  <2>1. UNCHANGED <<disk, prints>> /\ "inspection" \in settled /\ pc' \in {"verify", "review", "blocked"}
    BY <1>6 DEF Decide, Then
  <2> QED
    BY <1>m, <2>1
<1>7. CASE ReviewEnds
  BY <1>7, <1>m DEF ReviewEnds, work
<1>8. CASE VerifyLink
  <2>1. UNCHANGED <<disk, prints, settled>> /\ pc = "verify" /\ at <= Len(prints)
    BY <1>8 DEF VerifyLink, Looking, Differs, work
  <2>2. Known.link \in {0, Identity(Known.name)}
    BY <1>k, <2>1 DEF Fresh
  <2>3. pc' \in {"verify_stat", "verify_target"}
    BY <1>8, <2>2 DEF VerifyLink, Identity, Differs
  <2> QED
    BY <1>m, <2>1, <2>3
<1>9. CASE VerifyTarget
  <2>1. UNCHANGED <<disk, prints, settled>> /\ pc = "verify_target" /\ at <= Len(prints)
    BY <1>9 DEF VerifyTarget, Looking, Differs, work, Typed, Held
  <2>2. pc' = "verify_stat"
    BY <1>9, <1>k, <2>1 DEF VerifyTarget, Fresh
  <2> QED
    BY <1>m, <2>1, <2>2
<1>10. CASE VerifyStat
  <2>1. UNCHANGED <<disk, prints, settled>> /\ pc = "verify_stat" /\ at <= Len(prints)
    BY <1>10 DEF VerifyStat, Looking, Differs, work, Typed, Held
  <2>2. At(Known.path).content # Absent
    BY <1>k, <2>1
  <2>3. /\ pc' = "verify_read" /\ UNCHANGED at
        /\ hand' = [hand EXCEPT !.size = Size[At(Known.path).content], !.time = At(Known.path).time,
                                !.content = At(Known.path).content]
    BY <1>10, <2>2 DEF VerifyStat
  <2>4. /\ hand'.size = Size[At(Known.path).content] /\ hand'.time = At(Known.path).time
        /\ hand'.content = At(Known.path).content
    BY <2>3 DEF Typed, TypeOK
  <2>5. UNCHANGED Known
    BY <2>1, <2>3 DEF Known
  <2>6. At(Known.path)' = At(Known.path)
    BY <1>d, <2>1, <2>5
  <2> QED
    BY <1>d, <2>1, <2>3, <2>4, <2>5, <2>6 DEF Quiet, SeenOf
<1>11. CASE VerifyRead
  <2>1. UNCHANGED <<disk, scripts, settled>> /\ pc = "verify_read" /\ at <= Len(prints)
    BY <1>11 DEF VerifyRead, Looking, Typed, Held
  <2>2. Fresh(Known) /\ At(Known.path).content # Absent /\ SeenOf(Known.path)
        /\ hand.content = At(Known.path).content
    BY <1>k, <2>1 DEF Quiet
  <2>3. Matches(At(Known.path).content)
    BY <2>2 DEF Matches, Fresh, SeenOf
  <2>4. pc' = "verify" /\ UNCHANGED prints
    BY <1>11, <2>3 DEF VerifyRead, Same
  <2> QED
    BY <1>m, <2>1, <2>4
<1>12. CASE Verified
  BY <1>12, <1>m DEF Verified, Looking, work
<1>13. CASE \/ \E f \in Files, content \in Contents \cup {Absent} : Rewrite(f, content)
            \/ \E n \in Names : \E to \in Leads(n) : Relink(n, to)
  BY <1>13 DEF Rewrite, Relink, Changed
<1>14. CASE UNCHANGED vars
  <2>1. UNCHANGED <<disk, pc, scripts, at, hand, prints, settled>>
    BY <1>14 DEF vars, work
  <2>2. UNCHANGED Known /\ UNCHANGED Script
    BY <1>s, <2>1 DEF Known
  <2>3. /\ Canonical(Script)' = Canonical(Script) /\ At(hand.path)' = At(hand.path)
        /\ At(Known.path)' = At(Known.path)
    BY <1>d, <2>1, <2>2
  <2> QED
    BY <1>d, <2>1, <2>2, <2>3 DEF Quiet, SeenOf
<1> QED
  BY <1>1, <1>2, <1>3, <1>4, <1>5, <1>6, <1>7, <1>8, <1>9, <1>10, <1>11, <1>12, <1>13, <1>14 DEF Next

\* On a disk nobody writes to, the hook neither throws nor stops the command: the
\* verification computes what the inspection recorded (classifier.ts:3056-3143).
THEOREM QuietDisk == Spec => []QuietDiskPasses
<1>1. Init => Quiet
  BY DEF Init, Quiet
<1>2. Quiet => QuietDiskPasses
  BY DEF Quiet, QuietDiskPasses
<1> QED
  BY <1>1, <1>2, TypedInit, TypedStep, QuietStep, PTL DEF Spec

=============================================================================

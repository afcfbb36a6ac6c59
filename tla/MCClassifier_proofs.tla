------------------------- MODULE MCClassifier_proofs -------------------------
EXTENDS MCClassifier, Integers, SequenceTheorems, WellFoundedInduction, TLAPS

-----------------------------------------------------------------------------
(* The walk over the segments *)

Dirnames == {"w", "w)"}
Bases == Seq(Dirnames) \cup {W!Unknown}

\* The base after segment k, when b[k] is the one it was classified against.
After(b, k) == IF W!IsChange(k) THEN W!ResolveCdBase(W!ParsedTarget(k), b[k]) ELSE b[k]
Before(b, k) == IF k = 1 THEN W!Start ELSE After(b, k - 1)

NoSubshell(m) == \A k \in 1..m : W!Command(k) # "(cd w)"
NoDollar(m) == \A k \in 1..m : W!Command(k) # "cd $X"

\* b holds the bases of the first m segments.
Trace(b, m) ==
  /\ b \in [Nat -> Bases]
  /\ \A k \in 1..m : b[k] = W!SegmentBase(k, Before(b, k))
  /\ \A k \in 1..m : b[k] = W!Unknown => ~NoDollar(k - 1)

ResultRecords(m) ==
  [at : 1..m, base : Bases, verdict : {"ALLOW", "ASK", "DENY"}, rules : SUBSET {"other", "local-script"}]

ResultsOf(b, m) ==
  /\ results \in Seq(ResultRecords(m))
  /\ \A i \in DOMAIN results : ~W!IsChange(results[i].at) /\ results[i] = W!Result(results[i].at, b[results[i].at])
  /\ \A k \in 1..m : ~W!IsChange(k) => \E i \in DOMAIN results : results[i].at = k

Listed(b, m) ==
  \A k \in 1..m : (W!Command(k) \in W!Cleanups /\ NoSubshell(k - 1) /\ b[k] # W!Unknown) => b[k] \in resolvedIn

Classified(b, m) == Trace(b, m) /\ ResultsOf(b, m) /\ Listed(b, m)

\* Where the classification is.
Classifying(b) ==
  /\ segment \in 1..(Len(script) + 1)
  /\ Classified(b, segment - 1)
  /\ base = Before(b, segment)
  /\ NoSubshell(segment - 1) => listing = base
  /\ dir = W!Start /\ home = W!Start /\ ran = {}
  /\ outcome.by = "none"

LastStart(s, m) == s \in 1..m /\ W!StartsList(s) /\ \A j \in (s + 1)..m : ~W!StartsList(j)

Quiet(m) == \A k \in 1..m : W!IsChange(k) => W!Background(k) \/ W!InPipeline(k)

Chain(s, m) == \A k \in (s + 1)..m : W!Incoming(k) = "&&"

\* Where the shell is, in the list that segment s starts.
InList(b, s) ==
  LET m == segment - 1 IN
  /\ LastStart(s, m)
  /\ Quiet(s - 1) => home = W!Start
  /\ (\A k \in s..m : W!IsChange(k) => W!InPipeline(k)) => dir = home
  /\ (segment <= Len(script) /\ Chain(s, segment) /\ Quiet(s - 1) /\ ok /\ (\A k \in s..m : W!Command(k) # "(cd w)")) =>
        After(b, m) \in {dir, W!Unknown}

RanWell(b) ==
  \A r \in ran :
    /\ r.at \in 1..Len(script)
    /\ W!Tracked(r.at) => b[r.at] \in {r.dir, W!Unknown}
    /\ (\A k \in 1..(r.at - 1) : ~W!IsChange(k)) => r.dir = W!Start

Running(b) ==
  /\ segment \in 1..(Len(script) + 1)
  /\ segment = 1 => dir = W!Start /\ home = W!Start
  /\ segment # 1 => \E s \in 1..(segment - 1) : InList(b, s)

ScriptTypes ==
  /\ script \in Seq(W!Segment(Connectors \cup {"none"})) /\ script # <<>>
  /\ \A k \in DOMAIN script : W!Incoming(k) = "none" <=> k = 1

WalkFor(b) ==
  /\ ScriptTypes
  /\ phase \in {"classify", "run", "blocked", "done"}
  /\ phase = "classify" => Classifying(b)
  /\ phase # "classify" => Classified(b, Len(script)) /\ outcome = W!Decision
  /\ phase = "run" => Running(b)
  /\ RanWell(b)

WalkInv == \E b \in [Nat -> Bases] : WalkFor(b)

Walk == part = "walk" => WalkInv

LEMMA Constants == W!WalkAssumption /\ W!CommandAssumption
  BY PartAssumption

LEMMA TargetFacts ==
  /\ W!CdSegments = {"cd w", "cd ..", "cd /", "cd $X", "(cd w)"}
  /\ W!Target["cd w"] = "w" /\ W!Target["cd .."] = ".." /\ W!Target["cd /"] = "/" /\ W!Target["cd $X"] = "?"
  /\ W!Target["(cd w)"] = "w"
  BY DEF W!CdSegments, W!Target

\* Going somewhere from a known directory is never the unknown one.
LEMMA GoType ==
  ASSUME NEW d \in Seq(Dirnames), NEW step \in {"w", "w)", "..", "/"}
  PROVE  W!Go(d, step) \in Seq(Dirnames)
<1>1. CASE step = "/"
  BY <1>1 DEF W!Go
<1>2. CASE step = ".."
  <2>1. CASE d = <<>>
    BY <1>2, <2>1 DEF W!Go
  <2>2. CASE d # <<>>
    BY <1>2, <2>2 DEF W!Go, W!Front
  <2> QED
    BY <2>1, <2>2
<1>3. CASE step \in {"w", "w)"}
  BY <1>3 DEF W!Go, Dirnames
<1> QED
  BY <1>1, <1>2, <1>3

LEMMA UnknownIsNone == W!Unknown \notin Seq(Dirnames)
  BY DEF W!Unknown, Dirnames

LEMMA ResolveType ==
  ASSUME NEW d \in Bases, NEW step \in {"w", "w)", "..", "/", "?"}
  PROVE  /\ W!ResolveCdBase(step, d) \in Bases
         /\ W!ResolveCdBase(step, d) = W!Unknown => step = "?" \/ d = W!Unknown
<1>1. CASE step = "?" \/ (step # "/" /\ d = W!Unknown)
  BY <1>1 DEF W!ResolveCdBase, Bases
<1>2. CASE step = "/"
  <2>1. W!ResolveCdBase(step, d) = <<>>
    BY <1>2 DEF W!ResolveCdBase, W!Go
  <2>2. <<>> \in Seq(Dirnames)
    OBVIOUS
  <2> QED
    BY <2>1, <2>2, UnknownIsNone DEF Bases
<1>3. CASE step \notin {"?", "/"} /\ d # W!Unknown
  <2>1. W!ResolveCdBase(step, d) = W!Go(d, step)
    BY <1>3 DEF W!ResolveCdBase
  <2> QED
    BY <1>3, <2>1, GoType, UnknownIsNone DEF Bases
<1> QED
  BY <1>1, <1>2, <1>3

LEMMA StartType == W!Start \in Bases /\ W!Start # W!Unknown
<1>1. W!Start \in Seq(Dirnames)
  BY DEF W!Start, W!Worktree, Dirnames
<1> QED
  BY <1>1, UnknownIsNone DEF Bases

\* The command and the connector of a segment.
LEMMA SegmentType ==
  ASSUME ScriptTypes, NEW k \in 1..Len(script)
  PROVE  /\ W!Command(k) \in W!CdSegments \cup W!Files \cup {"sh s", "npm i", "ask", "deny"}
         /\ W!Incoming(k) \in {"none", "&&", "||", ";", "|", "&"}
         /\ W!Incoming(k) = "none" <=> k = 1
<1>1. script[k] \in W!Segment(Connectors \cup {"none"}) /\ k \in DOMAIN script
  BY DEF ScriptTypes
<1>2. W!Command(k) \in Commands /\ W!Incoming(k) \in Connectors \cup {"none"}
  BY <1>1 DEF W!Segment, W!Command, W!Incoming
<1>3. W!Incoming(k) = "none" <=> k = 1
  BY <1>1 DEF ScriptTypes
<1> QED
  BY <1>2, <1>3, Constants DEF W!WalkAssumption, W!CommandAssumption

LEMMA ParsedType ==
  ASSUME ScriptTypes, NEW k \in 1..Len(script), W!IsChange(k)
  PROVE  /\ W!ParsedTarget(k) \in {"w", "w)", "..", "/", "?"} /\ W!Target[W!Command(k)] \in {"w", "..", "/", "?"}
         /\ W!ParsedTarget(k) = "?" <=> W!Command(k) = "cd $X"
         /\ W!Target[W!Command(k)] = "?" <=> W!Command(k) = "cd $X"
         /\ W!Command(k) # "(cd w)" => W!ParsedTarget(k) = W!Target[W!Command(k)]
  BY TargetFacts DEF W!ParsedTarget, W!IsChange

LEMMA MaxLenIsNat == MaxLen \in Nat
  BY Constants DEF W!WalkAssumption

LEMMA FunctionIsSeq ==
  ASSUME NEW S, NEW n \in Nat, NEW f \in [1..n -> S]
  PROVE  f \in Seq(S)
  OBVIOUS

LEMMA StartOfWalk == W!Init => ScriptTypes
<1> SUFFICES ASSUME W!Init PROVE ScriptTypes
  OBVIOUS
<1>1. PICK n \in 0..MaxLen : script \in [1..n -> W!Segment(Connectors \cup {"none"})]
  BY DEF W!Init, W!SeqOf
<1>2. script # <<>> /\ \A k \in DOMAIN script : script[k].incoming = "none" <=> k = 1
  BY DEF W!Init
<1>3. n \in Nat
  BY <1>1, MaxLenIsNat
<1>4. script \in Seq(W!Segment(Connectors \cup {"none"}))
  BY <1>1, <1>3, FunctionIsSeq
<1> QED
  BY <1>2, <1>4 DEF ScriptTypes, W!Incoming

-----------------------------------------------------------------------------
(* The classification of one more segment *)

LEMMA AfterType ==
  ASSUME ScriptTypes, NEW b \in [Nat -> Bases], NEW k \in 1..Len(script)
  PROVE  After(b, k) \in Bases /\ (After(b, k) = W!Unknown => W!Command(k) = "cd $X" \/ b[k] = W!Unknown)
<1>1. b[k] \in Bases
  BY DEF ScriptTypes
<1> QED
  BY <1>1, ResolveType, ParsedType DEF After

LEMMA BeforeType ==
  ASSUME ScriptTypes, NEW b \in [Nat -> Bases], NEW k \in 1..(Len(script) + 1)
  PROVE  Before(b, k) \in Bases
<1>1. CASE k = 1
  BY <1>1, StartType DEF Before
<1>2. CASE k # 1
  <2>1. k - 1 \in 1..Len(script)
    BY <1>2 DEF ScriptTypes
  <2> QED
    BY <1>2, <2>1, AfterType DEF Before
<1> QED
  BY <1>1, <1>2

LEMMA SegmentBaseType ==
  ASSUME NEW k, NEW d \in Bases
  PROVE  W!SegmentBase(k, d) \in Bases /\ (W!SegmentBase(k, d) = W!Unknown => d = W!Unknown)
  BY StartType DEF W!SegmentBase

LEMMA ResultType ==
  ASSUME ScriptTypes, NEW k \in 1..Len(script), ~W!IsChange(k), NEW d \in Bases
  PROVE  W!Result(k, d) \in ResultRecords(k)
<1>1. W!Command(k) \in W!Files \cup {"sh s", "npm i", "ask", "deny"}
  BY SegmentType DEF W!IsChange
<1>2. W!ClassifySegment(W!Command(k), d) \in [verdict : {"ALLOW", "ASK", "DENY"}, rules : SUBSET {"other", "local-script"}]
  BY <1>1 DEF W!ClassifySegment, W!ClassifyFile, W!Decided, W!Files, W!Cleanups
<1>3. k \in 1..k
  BY DEF ScriptTypes
<1> HIDE DEF Bases
<1> QED
  BY <1>2, <1>3 DEF W!Result, ResultRecords

\* Two traces that agree up to a segment give the same base after it.
LEMMA SameTrace ==
  ASSUME NEW n \in Nat, NEW b, NEW c, \A k \in 1..n : b[k] = c[k]
  PROVE  /\ \A k \in 1..n : After(b, k) = After(c, k)
         /\ \A k \in 1..(n + 1) : Before(b, k) = Before(c, k)
<1>1. \A k \in 1..n : After(b, k) = After(c, k)
  BY DEF After
<1>2. ASSUME NEW k \in 1..(n + 1) PROVE Before(b, k) = Before(c, k)
  <2>1. k = 1 \/ k - 1 \in 1..n
    OBVIOUS
  <2> QED
    BY <1>1, <2>1 DEF Before
<1> QED
  BY <1>1, <1>2

\* What speaks of the script only.
LEMMA SameScript ==
  ASSUME UNCHANGED script, NEW b, NEW m
  PROVE  /\ After(b, m)' = After(b, m) /\ Before(b, m)' = Before(b, m)
         /\ NoSubshell(m)' = NoSubshell(m) /\ NoDollar(m)' = NoDollar(m)
         /\ ScriptTypes' = ScriptTypes /\ Trace(b, m)' = Trace(b, m)
<1>1. \A k : After(b, k)' = After(b, k)
  BY DEF After, W!IsChange, W!Command, W!ResolveCdBase, W!ParsedTarget
<1>2. \A k : Before(b, k)' = Before(b, k)
  BY <1>1 DEF Before
<1>3. \A k : NoSubshell(k)' = NoSubshell(k) /\ NoDollar(k)' = NoDollar(k)
  BY DEF NoSubshell, NoDollar, W!Command
<1>4. \A k, d : W!SegmentBase(k, d)' = W!SegmentBase(k, d)
  BY DEF W!SegmentBase, W!Incoming
<1>5. Trace(b, m)' = Trace(b, m)
  BY <1>2, <1>3, <1>4 DEF Trace
<1>6. ScriptTypes' = ScriptTypes
  BY DEF ScriptTypes, W!Incoming
<1> QED
  BY <1>1, <1>2, <1>3, <1>5, <1>6

\* The step, with what the two walks make of the segment.
LEMMA ClassifyFacts ==
  ASSUME W!ClassifyNext
  PROVE  LET here == W!SegmentBase(segment, base)
             list == W!SegmentBase(segment, listing)
         IN  /\ phase = "classify" /\ segment <= Len(script) /\ segment' = segment + 1
             /\ base' = IF W!IsChange(segment) THEN W!ResolveCdBase(W!ParsedTarget(segment), here) ELSE here
             /\ results' = IF W!IsChange(segment) THEN results ELSE Append(results, W!Result(segment, here))
             /\ listing' = W!ListingAfter(segment, list)
             /\ resolvedIn' = resolvedIn \cup W!ListedFor(segment, list)
             /\ UNCHANGED <<script, risky, phase, outcome, dir, home, ok, running, ran>>
  BY DEF W!ClassifyNext, W!shell

\* The trace, extended by the base of the segment.
Extend(b) == [b EXCEPT ![segment] = W!SegmentBase(segment, base)]

LEMMA ExtendFacts ==
  ASSUME ScriptTypes, NEW b \in [Nat -> Bases], Classifying(b), segment <= Len(script)
  PROVE  /\ segment \in 1..Len(script) /\ segment - 1 \in Nat /\ base \in Bases
         /\ Extend(b) \in [Nat -> Bases]
         /\ Extend(b)[segment] = W!SegmentBase(segment, base)
         /\ \A k \in 1..(segment - 1) : Extend(b)[k] = b[k] /\ After(Extend(b), k) = After(b, k)
         /\ \A k \in 1..segment : Before(Extend(b), k) = Before(b, k)
<1>1. segment \in 1..Len(script) /\ segment - 1 \in Nat /\ segment \in 1..(Len(script) + 1)
  BY DEF Classifying, ScriptTypes
<1>2. base \in Bases
  BY <1>1, BeforeType DEF Classifying
<1>3. Extend(b) \in [Nat -> Bases] /\ Extend(b)[segment] = W!SegmentBase(segment, base)
  BY <1>1, <1>2, SegmentBaseType DEF Extend
<1>4. \A k \in 1..(segment - 1) : b[k] = Extend(b)[k]
  BY <1>1 DEF Extend
<1>5. /\ \A k \in 1..(segment - 1) : After(b, k) = After(Extend(b), k)
      /\ \A k \in 1..((segment - 1) + 1) : Before(b, k) = Before(Extend(b), k)
  BY <1>1, <1>4, SameTrace
<1>6. 1..((segment - 1) + 1) = 1..segment
  BY <1>1
<1> QED
  BY <1>1, <1>2, <1>3, <1>4, <1>5, <1>6

LEMMA TraceStep ==
  ASSUME ScriptTypes, NEW b \in [Nat -> Bases], Classifying(b), segment <= Len(script)
  PROVE  Trace(Extend(b), segment)
<1> DEFINE c == Extend(b)
<1>1. ASSUME NEW k \in 1..segment
      PROVE  c[k] = W!SegmentBase(k, Before(c, k))
  <2>1. CASE k = segment
    BY <2>1, ExtendFacts DEF Classifying
  <2>2. CASE k # segment
    <3>1. k \in 1..(segment - 1)
      BY <2>2, ExtendFacts
    <3>2. b[k] = W!SegmentBase(k, Before(b, k))
      BY <3>1 DEF Classifying, Classified, Trace
    <3> QED
      BY <3>1, <3>2, ExtendFacts
  <2> QED
    BY <2>1, <2>2
<1>2. ASSUME NEW k \in 1..segment, c[k] = W!Unknown
      PROVE  ~NoDollar(k - 1)
  <2>1. CASE k # segment
    <3>1. k \in 1..(segment - 1)
      BY <2>1, ExtendFacts
    <3> QED
      BY <3>1, <1>2, ExtendFacts DEF Classifying, Classified, Trace
  <2>2. CASE k = segment
    <3>1. base = W!Unknown
      BY <1>2, <2>2, ExtendFacts, SegmentBaseType
    <3>2. segment # 1
      BY <3>1, StartType DEF Classifying, Before
    <3>3. segment - 1 \in 1..(segment - 1) /\ segment - 1 \in 1..Len(script)
      BY <3>2, ExtendFacts
    <3>4. After(b, segment - 1) = W!Unknown
      BY <3>1, <3>2 DEF Classifying, Before
    <3>5. CASE W!Command(segment - 1) = "cd $X"
      BY <2>2, <3>3, <3>5 DEF NoDollar
    <3>6. CASE b[segment - 1] = W!Unknown
      <4>1. ~NoDollar(segment - 1 - 1)
        BY <3>3, <3>6 DEF Classifying, Classified, Trace
      <4>2. 1..(segment - 1 - 1) \subseteq 1..(segment - 1)
        BY <3>3
      <4> QED
        BY <2>2, <4>1, <4>2 DEF NoDollar
    <3> QED
      BY <3>3, <3>4, <3>5, <3>6, AfterType
  <2> QED
    BY <2>1, <2>2
<1> QED
  BY <1>1, <1>2, ExtendFacts DEF Trace

LEMMA MoreRecords ==
  ASSUME NEW n \in Nat, n > 0
  PROVE  ResultRecords(n - 1) \subseteq ResultRecords(n)
<1>1. 1..(n - 1) \subseteq 1..n
  OBVIOUS
<1> HIDE DEF Bases
<1> QED
  BY <1>1 DEF ResultRecords

LEMMA ResultsStep ==
  ASSUME ScriptTypes, NEW b \in [Nat -> Bases], Classifying(b), W!ClassifyNext
  PROVE  /\ results' \in Seq(ResultRecords(segment))
         /\ \A i \in DOMAIN results' : ~W!IsChange(results'[i].at) /\ results'[i] = W!Result(results'[i].at, Extend(b)[results'[i].at])
         /\ \A k \in 1..segment : ~W!IsChange(k) => \E i \in DOMAIN results' : results'[i].at = k
<1> DEFINE here == W!SegmentBase(segment, base)
<1>1. segment \in 1..Len(script) /\ segment - 1 \in Nat /\ segment - 1 < segment /\ segment \in Nat
  BY ClassifyFacts, ExtendFacts
<1>2. results \in Seq(ResultRecords(segment - 1)) /\ results \in Seq(ResultRecords(segment))
  BY <1>1, MoreRecords DEF Classifying, Classified, ResultsOf
<1>3. ASSUME NEW i \in DOMAIN results
      PROVE  ~W!IsChange(results[i].at) /\ results[i] = W!Result(results[i].at, Extend(b)[results[i].at])
  <2>1. results[i].at \in 1..(segment - 1)
    <3>1. results[i] \in ResultRecords(segment - 1)
      BY <1>2
    <3> HIDE DEF Bases
    <3> QED
      BY <3>1 DEF ResultRecords
  <2>2. ~W!IsChange(results[i].at) /\ results[i] = W!Result(results[i].at, b[results[i].at])
    BY DEF Classifying, Classified, ResultsOf
  <2>3. Extend(b)[results[i].at] = b[results[i].at]
    BY <2>1, ClassifyFacts, ExtendFacts
  <2> QED
    BY <2>2, <2>3
<1>4. \A k \in 1..(segment - 1) : ~W!IsChange(k) => \E i \in DOMAIN results : results[i].at = k
  BY DEF Classifying, Classified, ResultsOf
<1>5. CASE W!IsChange(segment)
  <2>1. results' = results
    BY <1>5, ClassifyFacts
  <2> QED
    BY <1>1, <1>2, <1>3, <1>4, <1>5, <2>1
<1>6. CASE ~W!IsChange(segment)
  <2>1. results' = Append(results, W!Result(segment, here))
    BY <1>6, ClassifyFacts
  <2>2. W!Result(segment, here) \in ResultRecords(segment)
    BY <1>1, <1>6, ClassifyFacts, ExtendFacts, SegmentBaseType, ResultType
  <2>3. W!Result(segment, here).at = segment /\ Extend(b)[segment] = here
    BY ClassifyFacts, ExtendFacts DEF W!Result
  <2> HIDE DEF here
  <2>4. results' \in Seq(ResultRecords(segment))
    BY <1>2, <2>1, <2>2
  <2>5. /\ DOMAIN results' = 1..(Len(results) + 1) /\ DOMAIN results = 1..Len(results) /\ Len(results) \in Nat
        /\ results'[Len(results) + 1] = W!Result(segment, here)
        /\ \A i \in 1..Len(results) : results'[i] = results[i]
    BY <1>2, <2>1
  <2>6. ASSUME NEW i \in DOMAIN results'
        PROVE  ~W!IsChange(results'[i].at) /\ results'[i] = W!Result(results'[i].at, Extend(b)[results'[i].at])
    <3>1. CASE i \in 1..Len(results)
      BY <3>1, <1>3, <2>5
    <3>2. CASE i = Len(results) + 1
      BY <3>2, <1>6, <2>3, <2>5
    <3> QED
      BY <3>1, <3>2, <2>5
  <2>7. ASSUME NEW k \in 1..segment, ~W!IsChange(k)
        PROVE  \E i \in DOMAIN results' : results'[i].at = k
    <3>1. CASE k = segment
      BY <3>1, <2>3, <2>5
    <3>2. CASE k # segment
      <4>1. k \in 1..(segment - 1)
        BY <1>1, <3>2
      <4> QED
        BY <4>1, <2>5, <2>7, <1>4
    <3> QED
      BY <3>1, <3>2
  <2> QED
    BY <2>4, <2>6, <2>7
<1> QED
  BY <1>5, <1>6

LEMMA ListedStep ==
  ASSUME ScriptTypes, NEW b \in [Nat -> Bases], Classifying(b), W!ClassifyNext
  PROVE  /\ \A k \in 1..segment :
              (W!Command(k) \in W!Cleanups /\ NoSubshell(k - 1) /\ Extend(b)[k] # W!Unknown) => Extend(b)[k] \in resolvedIn'
         /\ NoSubshell(segment) => listing' = base'
<1> DEFINE here == W!SegmentBase(segment, base)
           list == W!SegmentBase(segment, listing)
<1>1. segment \in 1..Len(script) /\ segment - 1 \in Nat /\ segment \in Nat
  BY ClassifyFacts, ExtendFacts
<1>2. NoSubshell(segment - 1) => list = here
  BY DEF Classifying
<1>3. Extend(b)[segment] = here
  BY ClassifyFacts, ExtendFacts
<1>4. resolvedIn' = resolvedIn \cup W!ListedFor(segment, list)
  BY ClassifyFacts
<1>5. ASSUME NEW k \in 1..segment, W!Command(k) \in W!Cleanups, NoSubshell(k - 1), Extend(b)[k] # W!Unknown
      PROVE  Extend(b)[k] \in resolvedIn'
  <2>1. CASE k = segment
    BY <2>1, <1>2, <1>3, <1>4, <1>5 DEF W!ListedFor
  <2>2. CASE k # segment
    <3>1. k \in 1..(segment - 1)
      BY <1>1, <2>2
    <3>2. Extend(b)[k] = b[k]
      BY <3>1, ClassifyFacts, ExtendFacts
    <3> QED
      BY <3>1, <3>2, <1>4, <1>5 DEF Classifying, Classified, Listed
  <2> QED
    BY <2>1, <2>2
<1>6. ASSUME NoSubshell(segment) PROVE listing' = base'
  <2>1. NoSubshell(segment - 1) /\ W!Command(segment) # "(cd w)"
    <3>1. 1..(segment - 1) \subseteq 1..segment /\ segment \in 1..segment
      BY <1>1
    <3> QED
      BY <1>6, <3>1 DEF NoSubshell
  <2>2. listing' = IF W!IsChange(segment) THEN W!ResolveCdBase(W!Target[W!Command(segment)], here) ELSE here
    BY <1>2, <2>1, ClassifyFacts DEF W!ListingAfter
  <2> QED
    BY <1>1, <2>1, <2>2, ClassifyFacts, ParsedType
<1> QED
  BY <1>5, <1>6

LEMMA ClassifyStep ==
  ASSUME ScriptTypes, NEW b \in [Nat -> Bases], Classifying(b), W!ClassifyNext
  PROVE  \E c \in [Nat -> Bases] : Classifying(c)'
<1>1. PICK c \in [Nat -> Bases] : c = Extend(b)
  BY ClassifyFacts, ExtendFacts
<1>2. PICK n \in 1..Len(script) : n = segment
  BY ClassifyFacts, ExtendFacts
<1>3. n \in Nat /\ segment' = n + 1 /\ segment' - 1 = n /\ UNCHANGED script
  BY <1>2, ClassifyFacts DEF ScriptTypes
<1>4. Trace(c, n)'
  BY <1>1, <1>2, <1>3, ClassifyFacts, TraceStep, SameScript
<1>5. ResultsOf(c, n)'
  <2>1. /\ results' \in Seq(ResultRecords(n))
        /\ \A i \in DOMAIN results' : ~W!IsChange(results'[i].at) /\ results'[i] = W!Result(results'[i].at, c[results'[i].at])
        /\ \A k \in 1..n : ~W!IsChange(k) => \E i \in DOMAIN results' : results'[i].at = k
    BY <1>1, <1>2, ResultsStep
  <2>2. \A k, d : W!IsChange(k)' = W!IsChange(k) /\ W!Result(k, d)' = W!Result(k, d)
    BY <1>3 DEF W!IsChange, W!Command, W!Result, W!ClassifySegment
  <2> QED
    BY <2>1, <2>2 DEF ResultsOf
<1>6. Listed(c, n)'
  <2>1. \A k \in 1..n : (W!Command(k) \in W!Cleanups /\ NoSubshell(k - 1) /\ c[k] # W!Unknown) => c[k] \in resolvedIn'
    BY <1>1, <1>2, ListedStep
  <2>2. \A k : W!Command(k)' = W!Command(k) /\ NoSubshell(k)' = NoSubshell(k)
    BY <1>3 DEF W!Command, NoSubshell
  <2> QED
    BY <2>1, <2>2 DEF Listed
<1>7. base' = Before(c, segment)'
  <2>1. base' = After(c, n)
    BY <1>1, <1>2, ClassifyFacts, ExtendFacts DEF After
  <2>2. Before(c, n + 1)' = After(c, n)'
    BY <1>3 DEF Before
  <2> QED
    BY <2>1, <2>2, <1>3, SameScript
<1>8. (NoSubshell(segment - 1) => listing = base)'
  BY <1>2, <1>3, ListedStep, SameScript
<1>9. segment' \in 1..(Len(script)' + 1)
  BY <1>3 DEF ScriptTypes
<1> QED
  BY <1>1, <1>3, <1>4, <1>5, <1>6, <1>7, <1>8, <1>9, ClassifyFacts DEF Classifying, Classified
-----------------------------------------------------------------------------
(* The shell that runs one more segment *)

\* Where the next segment runs, and where its list began.
Here == IF W!StartsList(segment) /\ segment > 1 /\ W!Background(segment - 1) THEN home ELSE dir
Home == IF W!StartsList(segment) THEN Here ELSE home

LEMMA RunFacts ==
  ASSUME W!RunNext
  PROVE  /\ phase = "run" /\ segment <= Len(script) /\ segment' = segment + 1
         /\ home' = Home
         /\ W!Reached(segment) => ran' = ran \cup {[at |-> segment, dir |-> Here]}
         /\ ~W!Reached(segment) => ran' = ran /\ ok' = ok
         /\ dir' # Here =>
              /\ W!Reached(segment) /\ W!IsChange(segment) /\ ok' /\ ~W!InPipeline(segment)
              /\ W!Command(segment) # "(cd w)"
         /\ (W!Reached(segment) /\ W!IsChange(segment) /\ ok' /\ ~W!InPipeline(segment) /\ W!Command(segment) # "(cd w)") =>
              dir' \in W!Arrivals(segment, Here)
         /\ UNCHANGED <<script, risky, phase, base, listing, results, resolvedIn, outcome>>
  BY DEF W!RunNext, W!walk, Here, Home

\* A list is in the background when the next one starts after "&".
LEMMA BackgroundOfList ==
  ASSUME ScriptTypes, NEW n \in 2..Len(script), W!StartsList(n),
         NEW k \in 1..(n - 1), \A j \in (k + 1)..(n - 1) : ~W!StartsList(j)
  PROVE  W!Background(k) <=> W!Incoming(n) = "&"
<1>1. Len(script) \in Nat
  BY DEF ScriptTypes
<1>2. ASSUME W!Incoming(n) = "&" PROVE W!Background(k)
  <2>1. n \in (k + 1)..Len(script)
    BY <1>1
  <2> QED
    BY <1>2, <2>1 DEF W!Background
<1>3. ASSUME W!Background(k) PROVE W!Incoming(n) = "&"
  <2>1. PICK j \in (k + 1)..Len(script) : W!Incoming(j) = "&" /\ \A i \in (k + 1)..(j - 1) : ~W!StartsList(i)
    BY <1>3 DEF W!Background
  <2>2. W!StartsList(j)
    BY <2>1 DEF W!StartsList
  <2>3. j \notin (k + 1)..(n - 1)
    BY <2>2
  <2>4. n \notin (k + 1)..(j - 1)
    BY <2>1
  <2>5. j = n
    BY <1>1, <2>1, <2>3, <2>4
  <2> QED
    BY <2>1, <2>5
<1> QED
  BY <1>2, <1>3

LEMMA OneListStart ==
  ASSUME NEW n \in Nat, NEW s, LastStart(s, n)
  PROVE  W!ListStart(n) = s
<1>1. \A k \in 1..n : (W!StartsList(k) /\ \A j \in (k + 1)..n : ~W!StartsList(j)) => k = s
  <2> SUFFICES ASSUME NEW k \in 1..n, W!StartsList(k), \A j \in (k + 1)..n : ~W!StartsList(j)
               PROVE  k = s
    OBVIOUS
  <2>1. s \in 1..n /\ W!StartsList(s) /\ \A j \in (s + 1)..n : ~W!StartsList(j)
    BY DEF LastStart
  <2>2. k \notin (s + 1)..n /\ s \notin (k + 1)..n
    BY <2>1
  <2> QED
    BY <2>1, <2>2
<1> QED
  BY <1>1 DEF W!ListStart, LastStart

\* What is known of the place the next segment runs in.
HereIn(b, s) ==
  LET n == segment IN
  /\ LastStart(s, n)
  /\ Quiet(s - 1) => Home = W!Start
  /\ (\A k \in s..(n - 1) : W!IsChange(k) => W!InPipeline(k)) => Here = Home
  /\ (Chain(s, n) /\ Quiet(s - 1) /\ W!Reached(n) /\ \A k \in s..(n - 1) : W!Command(k) # "(cd w)") =>
        b[n] \in {Here, W!Unknown}

LEMMA WhereItRuns ==
  ASSUME ScriptTypes, NEW b \in [Nat -> Bases], Trace(b, Len(script)), Running(b), segment <= Len(script)
  PROVE  \E s \in 1..segment : HereIn(b, s)
<1>1. segment \in 1..Len(script) /\ Len(script) \in Nat /\ segment \in Nat
  BY DEF Running, ScriptTypes
<1>2. b[segment] = W!SegmentBase(segment, Before(b, segment))
  BY <1>1 DEF Trace
<1>3. CASE segment = 1
  <2>1. W!StartsList(segment) /\ Here = W!Start /\ Home = W!Start
    BY <1>3 DEF W!StartsList, Here, Home, Running
  <2>2. b[segment] = W!Start
    BY <1>1, <1>2, <1>3, SegmentType DEF W!SegmentBase
  <2>3. LastStart(segment, segment)
    BY <1>1, <2>1 DEF LastStart
  <2>4. HereIn(b, segment)
    BY <2>1, <2>2, <2>3 DEF HereIn
  <2> QED
    BY <1>1, <2>4
<1>4. CASE segment # 1 /\ W!StartsList(segment)
  <2>1. PICK s \in 1..(segment - 1) : InList(b, s)
    BY <1>4 DEF Running
  <2>2. LastStart(s, segment - 1) /\ \A j \in (s + 1)..(segment - 1) : ~W!StartsList(j)
    BY <2>1 DEF InList, LastStart
  <2>3. Home = Here /\ W!Incoming(segment) \in {";", "&"}
    BY <1>4 DEF Home, W!StartsList
  <2>4. ASSUME NEW k \in s..(segment - 1) PROVE W!Background(k) <=> W!Incoming(segment) = "&"
    <3>1. \A j \in (k + 1)..(segment - 1) : ~W!StartsList(j)
      BY <1>1, <2>1, <2>2
    <3> QED
      BY <1>1, <1>4, <2>1, <3>1, BackgroundOfList
  <2>5. ASSUME Quiet(segment - 1) PROVE Here = W!Start
    <3>1. Quiet(s - 1)
      BY <1>1, <2>1, <2>5 DEF Quiet
    <3>2. home = W!Start
      BY <2>1, <3>1 DEF InList
    <3>3. CASE W!Incoming(segment) = "&"
      <4>1. W!Background(segment - 1)
        BY <1>1, <2>1, <2>4, <3>3
      <4> QED
        BY <1>1, <1>4, <3>2, <4>1 DEF Here
    <3>4. CASE W!Incoming(segment) # "&"
      <4>1. \A k \in s..(segment - 1) : W!IsChange(k) => W!InPipeline(k)
        BY <1>1, <2>1, <2>4, <2>5, <3>4 DEF Quiet
      <4>2. dir = home
        BY <2>1, <4>1 DEF InList
      <4> QED
        BY <3>2, <4>2 DEF Here
    <3> QED
      BY <3>3, <3>4
  <2>6. b[segment] = W!Start
    BY <1>2, <2>3 DEF W!SegmentBase
  <2>7. LastStart(segment, segment)
    BY <1>1, <1>4 DEF LastStart
  <2>8. HereIn(b, segment)
    BY <2>3, <2>5, <2>6, <2>7 DEF HereIn
  <2> QED
    BY <1>1, <2>8
<1>5. CASE segment # 1 /\ ~W!StartsList(segment)
  <2>1. PICK s \in 1..(segment - 1) : InList(b, s)
    BY <1>5 DEF Running
  <2>2. Here = dir /\ Home = home
    BY <1>5 DEF Here, Home
  <2>3. LastStart(s, segment)
    <3>1. LastStart(s, segment - 1)
      BY <2>1 DEF InList
    <3>2. \A j \in (s + 1)..segment : j = segment \/ j \in (s + 1)..(segment - 1)
      BY <1>1, <2>1
    <3> QED
      BY <1>1, <1>5, <2>1, <3>1, <3>2 DEF LastStart
  <2>4. ASSUME Chain(s, segment), Quiet(s - 1), W!Reached(segment), \A k \in s..(segment - 1) : W!Command(k) # "(cd w)"
        PROVE  b[segment] \in {Here, W!Unknown}
    <3>1. W!Incoming(segment) = "&&"
      <4>1. segment \in (s + 1)..segment
        BY <1>1, <2>1
      <4> QED
        BY <2>4, <4>1 DEF Chain
    <3>2. ok
      BY <2>4, <3>1 DEF W!Reached
    <3>3. After(b, segment - 1) \in {dir, W!Unknown}
      BY <2>1, <2>4, <3>2 DEF InList
    <3>4. b[segment] = After(b, segment - 1)
      BY <1>2, <1>5, <3>1 DEF W!SegmentBase, Before
    <3> QED
      BY <2>2, <3>3, <3>4
  <2>5. HereIn(b, s)
    BY <2>1, <2>2, <2>3, <2>4 DEF HereIn, InList
  <2> QED
    BY <1>1, <2>1, <2>5
<1> QED
  BY <1>3, <1>4, <1>5

\* A segment that changes the directory leads where the walk took it, when it ran
\* where it was classified.
LEMMA Arrives ==
  ASSUME ScriptTypes, NEW b \in [Nat -> Bases], W!RunNext, segment \in 1..Len(script),
         b[segment] \in {Here, W!Unknown}, W!Reached(segment), ok', ~W!InPipeline(segment), W!Command(segment) # "(cd w)"
  PROVE  After(b, segment) \in {dir', W!Unknown}
<1>1. CASE ~W!IsChange(segment)
  <2>1. dir' = Here
    BY <1>1, RunFacts
  <2> QED
    BY <1>1, <2>1 DEF After
<1>2. CASE W!IsChange(segment)
  <2> DEFINE target == W!Target[W!Command(segment)]
  <2>1. dir' \in W!Arrivals(segment, Here)
    BY <1>2, RunFacts
  <2>2. W!ParsedTarget(segment) = target /\ target \in {"w", "..", "/", "?"}
    BY <1>2, ParsedType
  <2>3. After(b, segment) = W!ResolveCdBase(target, b[segment])
    BY <1>2, <2>2 DEF After
  <2> HIDE DEF target
  <2>4. CASE target = "?" \/ (target # "/" /\ b[segment] = W!Unknown)
    BY <2>3, <2>4 DEF W!ResolveCdBase
  <2>5. CASE target # "?" /\ ~(target # "/" /\ b[segment] = W!Unknown)
    <3>1. After(b, segment) = W!Go(b[segment], target)
      BY <2>3, <2>5 DEF W!ResolveCdBase
    <3>2. dir' = W!Go(Here, target)
      BY <2>1, <2>5 DEF W!Arrivals, target
    <3>3. W!Go(b[segment], target) = W!Go(Here, target)
      BY <2>5 DEF W!Go
    <3> QED
      BY <3>1, <3>2, <3>3
  <2> QED
    BY <2>4, <2>5
<1> QED
  BY <1>1, <1>2

LEMMA RunStep ==
  ASSUME ScriptTypes, NEW b \in [Nat -> Bases], Trace(b, Len(script)), Running(b), W!RunNext
  PROVE  Running(b)'
<1>1. PICK n \in 1..Len(script) : n = segment
  <2>1. segment <= Len(script)
    BY RunFacts
  <2>2. segment \in 1..(Len(script) + 1)
    BY DEF Running
  <2>3. Len(script) \in Nat
    BY DEF ScriptTypes
  <2>4. segment \in 1..Len(script)
    BY <2>1, <2>2, <2>3
  <2> QED
    BY <2>4
<1>2. n \in Nat /\ Len(script) \in Nat /\ segment' = n + 1 /\ segment' - 1 = n /\ UNCHANGED script /\ segment <= Len(script)
  <2>1. Len(script) \in Nat
    BY DEF ScriptTypes
  <2>2. n \in Nat
    BY <1>1, <2>1
  <2>3. segment' = segment + 1 /\ UNCHANGED script /\ segment <= Len(script)
    BY RunFacts
  <2> QED
    BY <1>1, <2>1, <2>2, <2>3
<1>3. PICK s \in 1..n : HereIn(b, s)
  BY <1>1, <1>2, WhereItRuns
<1>4. s..(n - 1) \subseteq s..n /\ n \in s..n
  BY <1>2, <1>3
<1>5. \A k : /\ W!StartsList(k)' = W!StartsList(k) /\ W!IsChange(k)' = W!IsChange(k) /\ W!InPipeline(k)' = W!InPipeline(k)
             /\ W!Incoming(k)' = W!Incoming(k) /\ W!Command(k)' = W!Command(k) /\ W!Background(k)' = W!Background(k)
  BY <1>2 DEF W!StartsList, W!IsChange, W!InPipeline, W!Incoming, W!Command, W!Background
<1>6. \A k : Quiet(k)' = Quiet(k)
  BY <1>5 DEF Quiet
<1>7. LastStart(s, n)'
  BY <1>1, <1>3, <1>5 DEF HereIn, LastStart
<1>8. (Quiet(s - 1) => home = W!Start)'
  BY <1>3, <1>6, RunFacts DEF HereIn, W!Start, W!Worktree
<1>9. ASSUME \A k \in s..n : W!IsChange(k) => W!InPipeline(k)
      PROVE  dir' = home'
  <2>1. \A k \in s..(n - 1) : W!IsChange(k) => W!InPipeline(k)
    BY <1>9, <1>4
  <2>2. Here = Home
    BY <1>1, <1>3, <2>1 DEF HereIn
  <2>3. dir' = Here
    <3>1. W!IsChange(segment) => W!InPipeline(segment)
      BY <1>1, <1>9, <1>4
    <3> QED
      BY <3>1, RunFacts
  <2> QED
    BY <2>2, <2>3, RunFacts
<1>10. ASSUME n + 1 <= Len(script), Chain(s, n + 1), Quiet(s - 1), ok', \A k \in s..n : W!Command(k) # "(cd w)"
      PROVE  After(b, n) \in {dir', W!Unknown}
  <2>1. Chain(s, n) /\ W!Incoming(n + 1) = "&&"
    <3>1. (s + 1)..n \subseteq (s + 1)..(n + 1) /\ n + 1 \in (s + 1)..(n + 1)
      BY <1>2, <1>3
    <3> QED
      BY <1>10, <3>1 DEF Chain
  <2>2. W!Incoming(n) # "|"
    <3>1. CASE s = n
      BY <1>1, <1>3, <3>1, SegmentType DEF HereIn, LastStart, W!StartsList
    <3>2. CASE s # n
      <4>1. n \in (s + 1)..n
        BY <1>2, <1>3, <3>2
      <4> QED
        BY <2>1, <4>1 DEF Chain
    <3> QED
      BY <3>1, <3>2
  <2>3. ~W!InPipeline(n)
    BY <2>1, <2>2 DEF W!InPipeline
  <2>4. W!Reached(n)
    <3>1. CASE ok
      <4>1. CASE s = n
        BY <1>1, <1>3, <4>1, SegmentType DEF HereIn, LastStart, W!StartsList, W!Reached
      <4>2. CASE s # n
        <5>1. n \in (s + 1)..n
          BY <1>2, <1>3, <4>2
        <5> QED
          BY <2>1, <3>1, <5>1 DEF Chain, W!Reached
      <4> QED
        BY <4>1, <4>2
    <3>2. CASE ~ok
      BY <1>1, <1>10, <3>2, RunFacts
    <3> QED
      BY <3>1, <3>2
  <2>5. b[n] \in {Here, W!Unknown}
    <3>1. \A k \in s..(n - 1) : W!Command(k) # "(cd w)"
      BY <1>10, <1>4
    <3> QED
      BY <1>1, <1>3, <1>10, <2>1, <2>4, <3>1 DEF HereIn
  <2>6. W!Command(n) # "(cd w)"
    BY <1>10, <1>4
  <2> QED
    BY <1>1, <1>10, <2>3, <2>4, <2>5, <2>6, Arrives
<1>11. (Chain(s, segment)' <=> Chain(s, n + 1)) /\ UNCHANGED After(b, n)
  BY <1>2, <1>5, SameScript DEF Chain
<1>12. InList(b, s)'
  <2>1. ((\A k \in s..n : W!IsChange(k) => W!InPipeline(k)) => dir = home)'
    BY <1>5, <1>9
  <2>2. ((segment <= Len(script) /\ Chain(s, segment) /\ Quiet(s - 1) /\ ok /\ (\A k \in s..n : W!Command(k) # "(cd w)")) =>
        After(b, n) \in {dir, W!Unknown})'
    BY <1>2, <1>5, <1>6, <1>10, <1>11 DEF W!Unknown
  <2> QED
    BY <1>2, <1>7, <1>8, <2>1, <2>2 DEF InList
<1> QED
  BY <1>2, <1>3, <1>12 DEF Running

LEMMA RanStep ==
  ASSUME ScriptTypes, NEW b \in [Nat -> Bases], Trace(b, Len(script)), Running(b), RanWell(b), W!RunNext
  PROVE  RanWell(b)'
<1>1. segment \in 1..Len(script) /\ segment \in Nat
  <2>1. segment <= Len(script)
    BY RunFacts
  <2>2. segment \in 1..(Len(script) + 1) /\ Len(script) \in Nat
    BY DEF Running, ScriptTypes
  <2> QED
    BY <2>1, <2>2
<1>2. PICK s \in 1..segment : HereIn(b, s)
  BY <1>1, WhereItRuns
<1>3. LastStart(s, segment)
  BY <1>2 DEF HereIn
<1>4. ASSUME W!Tracked(segment), W!Reached(segment) PROVE b[segment] \in {Here, W!Unknown}
  <2>1. W!ListStart(segment) = s
    BY <1>1, <1>3, OneListStart
  <2>2. \A k \in 1..(segment - 1) :
          W!IsChange(k) => W!Command(k) # "(cd w)" /\ (k >= s \/ W!Background(k) \/ W!InPipeline(k))
    BY <1>4, <2>1 DEF W!Tracked
  <2>3. Chain(s, segment)
    BY <1>4, <2>1 DEF W!Tracked, Chain
  <2>4. Quiet(s - 1)
    <3>1. \A k \in 1..(s - 1) : k \in 1..(segment - 1) /\ ~(k >= s)
      BY <1>1, <1>2
    <3> QED
      BY <2>2, <3>1 DEF Quiet
  <2>5. \A k \in s..(segment - 1) : W!Command(k) # "(cd w)"
    <3>1. s..(segment - 1) \subseteq 1..(segment - 1)
      BY <1>1, <1>2
    <3> QED
      BY <2>2, <3>1, TargetFacts DEF W!IsChange
  <2> QED
    BY <1>2, <1>4, <2>3, <2>4, <2>5 DEF HereIn
<1>5. ASSUME \A k \in 1..(segment - 1) : ~W!IsChange(k) PROVE Here = W!Start
  <2>1. 1..(s - 1) \subseteq 1..(segment - 1) /\ s..(segment - 1) \subseteq 1..(segment - 1)
    BY <1>1, <1>2
  <2>2. Quiet(s - 1)
    BY <1>5, <2>1 DEF Quiet
  <2> QED
    BY <1>2, <1>5, <2>1, <2>2 DEF HereIn
<1>6. \A k : W!Tracked(k)' = W!Tracked(k) /\ W!IsChange(k)' = W!IsChange(k)
  <2>1. UNCHANGED script
    BY RunFacts
  <2>2. \A k : /\ W!StartsList(k)' = W!StartsList(k) /\ W!IsChange(k)' = W!IsChange(k) /\ W!InPipeline(k)' = W!InPipeline(k)
               /\ W!Incoming(k)' = W!Incoming(k) /\ W!Command(k)' = W!Command(k) /\ W!Background(k)' = W!Background(k)
    BY <2>1 DEF W!StartsList, W!IsChange, W!InPipeline, W!Incoming, W!Command, W!Background
  <2>3. ASSUME NEW k PROVE W!ListStart(k)' = W!ListStart(k)
    BY <2>1 DEF W!ListStart, W!StartsList, W!Incoming
  <2>4. ASSUME NEW k PROVE W!Tracked(k)' = W!Tracked(k)
    BY <2>2, <2>3 DEF W!Tracked
  <2> QED
    BY <2>2, <2>4
<1>7. ASSUME NEW r \in ran'
      PROVE  /\ r.at \in 1..Len(script)
             /\ W!Tracked(r.at) => b[r.at] \in {r.dir, W!Unknown}
             /\ (\A k \in 1..(r.at - 1) : ~W!IsChange(k)) => r.dir = W!Start
  <2>1. CASE r \in ran
    BY <2>1 DEF RanWell
  <2>2. CASE r \notin ran
    <3>1. W!Reached(segment) /\ r = [at |-> segment, dir |-> Here]
      BY <2>2, RunFacts
    <3>2. r.at = segment /\ r.dir = Here
      BY <3>1
    <3> QED
      BY <1>1, <1>4, <1>5, <3>1, <3>2
  <2> QED
    BY <2>1, <2>2
<1> QED
  BY <1>6, <1>7, RunFacts DEF RanWell, W!Unknown, W!Start, W!Worktree

\* The classification of a script, once it is over, stays what it is.
LEMMA SameClassification ==
  ASSUME UNCHANGED <<script, risky, results, resolvedIn>>, NEW b, NEW m
  PROVE  Classified(b, m)' = Classified(b, m) /\ W!Decision' = W!Decision
<1>1. \A k : W!IsChange(k)' = W!IsChange(k) /\ W!Command(k)' = W!Command(k) /\ NoSubshell(k)' = NoSubshell(k)
  BY DEF W!IsChange, W!Command, NoSubshell
<1>2. \A k, d : W!Result(k, d)' = W!Result(k, d)
  BY DEF W!Command, W!Result, W!ClassifySegment
<1>3. ResultsOf(b, m)' = ResultsOf(b, m)
  BY <1>1, <1>2 DEF ResultsOf
<1>4. Listed(b, m)' = Listed(b, m)
  BY <1>1 DEF Listed
<1>5. Trace(b, m)' = Trace(b, m)
  BY SameScript
<1>6. Classified(b, m)' = Classified(b, m)
  BY <1>3, <1>4, <1>5 DEF Classified
<1>7. W!Decision' = W!Decision
  BY DEF W!Decision, W!Combined, W!WholeCleanup, W!Inspected, W!ScriptRead, W!Command, W!Incoming, W!Verdicts, W!AskRules
<1> QED
  BY <1>6, <1>7

LEMMA DecideStep ==
  ASSUME ScriptTypes, NEW b \in [Nat -> Bases], Classifying(b), W!Decide
  PROVE  WalkFor(b)'
<1>1. /\ phase = "classify" /\ segment > Len(script) /\ outcome' = W!Decision /\ segment' = 1
      /\ phase' \in {"run", "blocked"}
      /\ UNCHANGED <<script, risky, base, listing, results, resolvedIn, dir, home, ok, running, ran>>
  BY DEF W!Decide, W!shell
<1>2. segment - 1 = Len(script) /\ Len(script) \in Nat
  BY <1>1 DEF Classifying, ScriptTypes
<1>3. Classified(b, Len(script))
  BY <1>2 DEF Classifying
<1>4. (Classified(b, Len(script)) /\ outcome = W!Decision)'
  BY <1>1, <1>3, SameClassification
<1>5. Running(b)'
  BY <1>1, <1>2 DEF Running, Classifying, W!Start, W!Worktree
<1>6. RanWell(b)'
  BY <1>1 DEF RanWell, Classifying
<1>7. ScriptTypes'
  BY <1>1, SameScript
<1> QED
  BY <1>1, <1>4, <1>5, <1>6, <1>7 DEF WalkFor

LEMMA WalkStart == W!Init => WalkInv
<1> SUFFICES ASSUME W!Init PROVE WalkInv
  OBVIOUS
<1> DEFINE b == [k \in Nat |-> W!Start]
<1>1. b \in [Nat -> Bases]
  BY StartType
<1>2. ScriptTypes
  BY StartOfWalk
<1>3. Len(script) \in Nat
  BY <1>2 DEF ScriptTypes
<1>4. /\ phase = "classify" /\ segment = 1 /\ base = W!Start /\ listing = W!Start /\ results = <<>> /\ resolvedIn = {}
      /\ outcome.by = "none" /\ dir = W!Start /\ home = W!Start /\ ran = {}
  BY DEF W!Init
<1>5. 1..0 = {}
  OBVIOUS
<1>6. Trace(b, 0)
  BY <1>1, <1>5 DEF Trace
<1>7. ResultsOf(b, 0) /\ Listed(b, 0)
  BY <1>4, <1>5 DEF ResultsOf, Listed
<1>8. Classifying(b)
  BY <1>3, <1>4, <1>6, <1>7 DEF Classifying, Classified, Before
<1> QED
  BY <1>1, <1>2, <1>4, <1>8 DEF WalkInv, WalkFor, RanWell

LEMMA SameRan ==
  ASSUME UNCHANGED <<script, ran>>, NEW b, RanWell(b)
  PROVE  RanWell(b)'
<1>1. \A k : /\ W!StartsList(k)' = W!StartsList(k) /\ W!IsChange(k)' = W!IsChange(k) /\ W!InPipeline(k)' = W!InPipeline(k)
             /\ W!Incoming(k)' = W!Incoming(k) /\ W!Command(k)' = W!Command(k) /\ W!Background(k)' = W!Background(k)
  BY DEF W!StartsList, W!IsChange, W!InPipeline, W!Incoming, W!Command, W!Background
<1>2. ASSUME NEW k PROVE W!ListStart(k)' = W!ListStart(k)
  BY DEF W!ListStart, W!StartsList, W!Incoming
<1>3. ASSUME NEW k PROVE W!Tracked(k)' = W!Tracked(k)
  BY <1>1, <1>2 DEF W!Tracked
<1> QED
  BY <1>1, <1>3 DEF RanWell, W!Unknown, W!Start, W!Worktree

LEMMA RestOfWalk ==
  ASSUME WalkInv, UNCHANGED <<script, risky, phase, segment, base, listing, results, resolvedIn, outcome, dir, home, ok, running, ran>>
  PROVE  WalkInv'
<1>1. PICK b \in [Nat -> Bases] : WalkFor(b)
  BY DEF WalkInv
<1>2. \A k : /\ W!StartsList(k)' = W!StartsList(k) /\ W!IsChange(k)' = W!IsChange(k) /\ W!InPipeline(k)' = W!InPipeline(k)
             /\ W!Incoming(k)' = W!Incoming(k) /\ W!Command(k)' = W!Command(k) /\ W!Background(k)' = W!Background(k)
  BY DEF W!StartsList, W!IsChange, W!InPipeline, W!Incoming, W!Command, W!Background
<1>3. \A k : After(b, k)' = After(b, k) /\ Before(b, k)' = Before(b, k) /\ NoSubshell(k)' = NoSubshell(k)
             /\ ScriptTypes' = ScriptTypes
  BY SameScript
<1>4. \A m : Classified(b, m)' = Classified(b, m) /\ W!Decision' = W!Decision
  BY SameClassification
<1>5. Classifying(b)' = Classifying(b)
  BY <1>3, <1>4 DEF Classifying, W!Start, W!Worktree
<1>6. \A s, m : LastStart(s, m)' = LastStart(s, m) /\ Quiet(m)' = Quiet(m) /\ Chain(s, m)' = Chain(s, m)
  BY <1>2 DEF LastStart, Quiet, Chain
<1>7. ASSUME NEW s PROVE InList(b, s)' <=> InList(b, s)
  <2>1. LastStart(s, segment - 1)' <=> LastStart(s, segment - 1)
    BY <1>6
  <2>2. (Quiet(s - 1) => home = W!Start)' <=> (Quiet(s - 1) => home = W!Start)
    BY <1>6 DEF W!Start, W!Worktree
  <2>3. ((\A k \in s..(segment - 1) : W!IsChange(k) => W!InPipeline(k)) => dir = home)'
          <=> ((\A k \in s..(segment - 1) : W!IsChange(k) => W!InPipeline(k)) => dir = home)
    BY <1>2
  <2>4. ((segment <= Len(script) /\ Chain(s, segment) /\ Quiet(s - 1) /\ ok /\ (\A k \in s..(segment - 1) : W!Command(k) # "(cd w)")) =>
          After(b, segment - 1) \in {dir, W!Unknown})'
          <=> ((segment <= Len(script) /\ Chain(s, segment) /\ Quiet(s - 1) /\ ok /\ (\A k \in s..(segment - 1) : W!Command(k) # "(cd w)")) =>
          After(b, segment - 1) \in {dir, W!Unknown})
    <3>1. (\A k \in s..(segment - 1) : W!Command(k) # "(cd w)")' <=> (\A k \in s..(segment - 1) : W!Command(k) # "(cd w)")
      BY <1>2
    <3>2. Chain(s, segment)' <=> Chain(s, segment)
      BY <1>6
    <3>3. Quiet(s - 1)' <=> Quiet(s - 1)
      BY <1>6
    <3>4. (After(b, segment - 1) \in {dir, W!Unknown})' <=> (After(b, segment - 1) \in {dir, W!Unknown})
      BY <1>3 DEF W!Unknown
    <3>5. (segment <= Len(script))' <=> segment <= Len(script)
      OBVIOUS
    <3> QED
      BY <3>1, <3>2, <3>3, <3>4, <3>5
  <2> QED
    BY <2>1, <2>2, <2>3, <2>4 DEF InList
<1>8. Running(b)' = Running(b)
  BY <1>7 DEF Running, W!Start, W!Worktree
<1>9. RanWell(b)'
  BY <1>1, SameRan DEF WalkFor
<1>10. WalkFor(b)'
  BY <1>1, <1>3, <1>4, <1>5, <1>8, <1>9 DEF WalkFor
<1> QED
  BY <1>10 DEF WalkInv, Bases, W!Unknown

walking == <<script, risky, phase, segment, base, listing, results, resolvedIn, outcome, dir, home, ok, running, ran>>

LEMMA WalkStep == WalkInv /\ (W!Next \/ UNCHANGED walking) => WalkInv'
<1> SUFFICES ASSUME WalkInv, W!Next \/ UNCHANGED walking PROVE WalkInv'
  OBVIOUS
<1>1. PICK b \in [Nat -> Bases] : WalkFor(b)
  BY DEF WalkInv
<1>2. ScriptTypes /\ RanWell(b)
  BY <1>1 DEF WalkFor
<1>3. CASE W!ClassifyNext
  <2>1. Classifying(b)
    BY <1>1, <1>3, ClassifyFacts DEF WalkFor
  <2>2. PICK c \in [Nat -> Bases] : Classifying(c)'
    BY <1>2, <1>3, <2>1, ClassifyStep
  <2>3. phase' = "classify" /\ UNCHANGED script /\ ran' = {}
    BY <1>3, <2>1, ClassifyFacts DEF Classifying
  <2>4. RanWell(c)' /\ ScriptTypes'
    BY <1>2, <2>3, SameScript DEF RanWell
  <2>5. WalkFor(c)'
    BY <2>2, <2>3, <2>4 DEF WalkFor
  <2> QED
    BY <2>5 DEF WalkInv, Bases, W!Unknown
<1>4. CASE W!Decide
  <2>1. Classifying(b)
    BY <1>1, <1>4 DEF WalkFor, W!Decide
  <2>2. WalkFor(b)'
    BY <1>2, <1>4, <2>1, DecideStep
  <2> QED
    BY <2>2 DEF WalkInv, Bases, W!Unknown
<1>5. CASE W!RunNext
  <2>1. phase = "run" /\ phase' = "run" /\ UNCHANGED <<script, risky, results, resolvedIn, outcome>>
    BY <1>5, RunFacts
  <2>2. Running(b) /\ Classified(b, Len(script)) /\ outcome = W!Decision
    BY <1>1, <2>1 DEF WalkFor
  <2>3. Running(b)' /\ RanWell(b)'
    BY <1>2, <1>5, <2>2, RunStep, RanStep DEF Classified
  <2>4. (Classified(b, Len(script)) /\ outcome = W!Decision)' /\ ScriptTypes'
    BY <1>2, <2>1, <2>2, SameClassification, SameScript
  <2>5. WalkFor(b)'
    BY <2>1, <2>3, <2>4 DEF WalkFor
  <2> QED
    BY <2>5 DEF WalkInv, Bases, W!Unknown
<1>6. CASE W!Finish
  <2>1. phase = "run" /\ phase' = "done" /\ UNCHANGED <<script, risky, results, resolvedIn, outcome, ran>>
    BY <1>6 DEF W!Finish, W!walk, W!shell
  <2>2. (Classified(b, Len(script)) /\ outcome = W!Decision)' /\ ScriptTypes'
    BY <1>1, <1>2, <2>1, SameClassification, SameScript DEF WalkFor
  <2>3. RanWell(b)'
    BY <1>2, <2>1, SameRan
  <2>4. WalkFor(b)'
    BY <2>1, <2>2, <2>3 DEF WalkFor
  <2> QED
    BY <2>4 DEF WalkInv, Bases, W!Unknown
<1>7. CASE UNCHANGED walking
  <2>1. UNCHANGED <<script, risky, phase, segment, base, listing, results, resolvedIn, outcome, dir, home, ok, running, ran>>
    BY <1>7 DEF walking
  <2> QED
    BY <2>1, RestOfWalk
<1> QED
  BY <1>3, <1>4, <1>5, <1>6, <1>7 DEF W!Next

LEMMA WalkAlways == UnionSpec => []Walk
<1>1. UnionInit => Walk
  BY WalkStart DEF UnionInit, Walk
<1>2. Walk /\ [UnionNext]_<<part, vars, walk, phase, base, backups, strictness, temp>> => Walk'
  <2> SUFFICES ASSUME Walk, [UnionNext]_<<part, vars, walk, phase, base, backups, strictness, temp>>, part' = "walk"
               PROVE  WalkInv'
    BY DEF Walk
  <2>1. part = "walk"
    BY DEF UnionNext
  <2>2. WalkInv
    BY <2>1 DEF Walk
  <2>3. W!Next \/ UNCHANGED walking
    BY <2>1 DEF UnionNext, walk, walking
  <2> QED
    BY <2>2, <2>3, WalkStep
<1> QED
  BY <1>1, <1>2, PTL DEF UnionSpec

\* What is known once the segments are classified: only then is there a decision, and
\* only then does a segment run.
LEMMA AfterTheDecision ==
  ASSUME WalkInv, outcome.by # "none" \/ ran # {}
  PROVE  \E b \in [Nat -> Bases] :
           ScriptTypes /\ Classified(b, Len(script)) /\ outcome = W!Decision /\ RanWell(b)
  BY DEF WalkInv, WalkFor, Classifying

\* Whatever the commands, the connectors and the length of the script, and whichever
\* segments succeed: in a chain of "&&" each segment is classified against the directory
\* the shell runs it in, or against none (classifySegments, classifier.ts:2001-2006, 3748-3764).
THEOREM ClassifiedWhereItRuns == UnionSpec => []BaseIsWhereItRuns
<1>1. Walk => BaseIsWhereItRuns
  <2> SUFFICES ASSUME WalkInv, NEW r \in ran, NEW i \in DOMAIN results, results[i].at = r.at, W!Tracked(r.at)
               PROVE  results[i].base \in {r.dir, W!Unknown}
    BY DEF Walk, BaseIsWhereItRuns, W!BaseIsWhereItRuns
  <2>1. PICK b \in [Nat -> Bases] : Classified(b, Len(script)) /\ RanWell(b)
    BY AfterTheDecision
  <2>2. b[r.at] \in {r.dir, W!Unknown}
    BY <2>1 DEF RanWell
  <2>3. results[i] = W!Result(r.at, b[r.at])
    BY <2>1 DEF Classified, ResultsOf
  <2>4. results[i].base = b[r.at]
    BY <2>3 DEF W!Result
  <2> QED
    BY <2>2, <2>4
<1> QED
  BY <1>1, WalkAlways, PTL

\* The base of a segment that ran where it was tracked to, with no "cd $X" up to it.
LEMMA TrackedBase ==
  ASSUME NEW m \in Nat, NEW b, Trace(b, m), NEW n \in 1..m, NoDollar(n)
  PROVE  b[n] # W!Unknown
<1>1. 1..(n - 1) \subseteq 1..n
  OBVIOUS
<1>2. NoDollar(n - 1)
  BY <1>1 DEF NoDollar
<1> QED
  BY <1>2 DEF Trace

LEMMA KnownBase ==
  ASSUME ScriptTypes, NEW b \in [Nat -> Bases], Classified(b, Len(script)), RanWell(b), NEW r \in ran, W!Tracked(r.at), NoDollar(r.at)
  PROVE  r.at \in 1..Len(script) /\ b[r.at] = r.dir /\ b[r.at] # W!Unknown
<1>1. r.at \in 1..Len(script) /\ b[r.at] \in {r.dir, W!Unknown}
  BY DEF RanWell
<1>2. Len(script) \in Nat
  BY DEF ScriptTypes
<1>3. b[r.at] # W!Unknown
  BY <1>1, <1>2, TrackedBase DEF Classified
<1> QED
  BY <1>1, <1>3

LEMMA InsideAt ==
  ASSUME NEW m \in Nat, NEW b, ResultsOf(b, m), W!Combined = "ALLOW",
         NEW n \in 1..m, W!Command(n) \in W!Files, b[n] # W!Unknown
  PROVE  W!Inside(b[n])
<1>1. ~W!IsChange(n)
  BY TargetFacts DEF W!IsChange, W!Files, W!Cleanups
<1>2. PICK i \in DOMAIN results : results[i].at = n
  BY <1>1 DEF ResultsOf
<1>3. results[i] = W!Result(n, b[n])
  BY <1>2 DEF ResultsOf
<1>4. results[i].verdict = W!ClassifySegment(W!Command(n), b[n]).verdict
  BY <1>3 DEF W!Result
<1>5. W!ClassifySegment(W!Command(n), b[n]) = W!ClassifyFile(W!Command(n), b[n])
  BY DEF W!ClassifySegment, W!Files, W!Cleanups
<1>6. results[i].verdict \in W!Verdicts
  BY <1>2 DEF W!Verdicts
<1>7. "DENY" \notin W!Verdicts /\ "ASK" \notin W!Verdicts
  BY DEF W!Combined
<1>8. W!ClassifyFile(W!Command(n), b[n]).verdict \notin {"ASK", "DENY"}
  BY <1>4, <1>5, <1>6, <1>7
<1>9. ~W!Inside(b[n]) => W!ClassifyFile(W!Command(n), b[n]).verdict \in {"ASK", "DENY"}
  <2> DEFINE forced == W!Command(n) = "rm -rf out"
  <2> HIDE DEF forced
  <2>1. W!ClassifyFile(W!Command(n), b[n]) =
          W!Decided(IF W!Inside(b[n]) THEN "ALLOW" ELSE IF forced THEN "DENY" ELSE "ASK")
    BY DEF W!ClassifyFile, forced
  <2> QED
    BY <2>1 DEF W!Decided
<1> QED
  BY <1>8, <1>9

LEMMA AllowedBySegments ==
  ASSUME W!Decision = [verdict |-> "ALLOW", by |-> "segments"]
  PROVE  W!Combined = "ALLOW"
<1>1. W!Decision.verdict = "ALLOW" /\ W!Decision.by = "segments"
  OBVIOUS
<1> HIDE DEF W!Combined
<1> QED
  BY <1>1 DEF W!Decision

LEMMA InsideWhenAllowed ==
  ASSUME WalkInv, outcome = [verdict |-> "ALLOW", by |-> "segments"],
         NEW r \in ran, W!Command(r.at) \in W!Files, W!Tracked(r.at), NoDollar(r.at)
  PROVE  W!Inside(r.dir)
<1>1. PICK b \in [Nat -> Bases] : ScriptTypes /\ Classified(b, Len(script)) /\ outcome = W!Decision /\ RanWell(b)
  BY AfterTheDecision
<1>2. r.at \in 1..Len(script) /\ b[r.at] = r.dir /\ b[r.at] # W!Unknown
  BY <1>1, KnownBase
<1>3. W!Combined = "ALLOW"
  BY <1>1, AllowedBySegments
<1>4. Len(script) \in Nat
  BY <1>1 DEF ScriptTypes
<1>5. W!Inside(b[r.at])
  BY <1>1, <1>2, <1>3, <1>4, InsideAt DEF Classified
<1> QED
  BY <1>2, <1>5

\* What is allowed on the verdicts of the segments alone does to files in the worktree
\* only, where the directory was tracked and known; what is allowed on inspection runs,
\* where no cd stands before it, a script the scan found nothing in (combineSegmentDecisions
\* and the end of classifyShellCommand, classifier.ts:3153-3169, 3892, 3982-3993).
THEOREM AllowedStaysInTheWorktree == UnionSpec => []AllowedStaysInside
<1>1. Walk => AllowedStaysInside
  <2> SUFFICES ASSUME WalkInv PROVE W!AllowedStaysInside /\ W!ScriptRunsWhereRead
    BY DEF Walk, AllowedStaysInside
  <2>1. W!AllowedStaysInside
    BY InsideWhenAllowed DEF W!AllowedStaysInside, NoDollar
  <2>2. ASSUME outcome.by = "inspected", NEW r \in ran, \A k \in 1..(r.at - 1) : ~W!IsChange(k)
        PROVE  r.dir \notin risky
    <3>1. PICK b \in [Nat -> Bases] : outcome = W!Decision /\ RanWell(b)
      BY AfterTheDecision
    <3>2. r.dir = W!Start
      BY <2>2, <3>1 DEF RanWell
    <3>3. W!Inspected
      BY <2>2, <3>1 DEF W!Decision
    <3> QED
      BY <3>2, <3>3 DEF W!Inspected
  <2> QED
    BY <2>1, <2>2 DEF W!ScriptRunsWhereRead
<1> QED
  BY <1>1, WalkAlways, PTL

\* The reviewer is shown the directory a tracked removal takes place in: the walk of
\* deletionTargetCandidates, which strips subshells, agrees with that of classifySegments
\* as long as no subshell stands before it (classifier.ts:2859-2900).
THEOREM DeletionsAreListed == UnionSpec => []ListedIsWhatIsDeleted
<1>1. Walk => ListedIsWhatIsDeleted
  <2> SUFFICES ASSUME WalkInv, NEW r \in ran, W!Command(r.at) \in W!Cleanups, W!Tracked(r.at), NoDollar(r.at)
               PROVE  r.dir \in resolvedIn
    BY DEF NoDollar, Walk, ListedIsWhatIsDeleted, W!ListedIsWhatIsDeleted
  <2>1. PICK b \in [Nat -> Bases] : ScriptTypes /\ Classified(b, Len(script)) /\ RanWell(b)
    BY AfterTheDecision
  <2>2. r.at \in 1..Len(script) /\ b[r.at] = r.dir /\ b[r.at] # W!Unknown
    BY <2>1, KnownBase
  <2>3. NoSubshell(r.at - 1)
    BY TargetFacts DEF W!Tracked, NoSubshell, W!IsChange
  <2> QED
    BY <2>1, <2>2, <2>3 DEF Classified, Listed
<1> QED
  BY <1>1, WalkAlways, PTL

-----------------------------------------------------------------------------
(* The backups *)

Forms == {"file", "directory", "empty"}
Ways  == {"cp", "mv", "write", "append", "mkdir", "edit", "found"}

FileStates == [kind : Forms, inode : {"young", "old"}, content : {"young", "old"}, by : Ways]

Disks == [B!FileNames -> FileStates \cup {B!Absent}]

\* A move or a write into the name of a backup is no segment of an allowed command, nor
\* a copy or an edit that makes the backup of a critical file.
ByTheRule(o) ==
  /\ o.op \in {"mv", "write"} => ~B!IsBackup(o.to)
  /\ o.op = "cp" => ~B!IsCriticalBackup(o.to)
  /\ o.op = "edit" => ~B!IsCritical(o.to)

\* What the deletion in a command of one segment is about to delete.
Spared(o) ==
  o.op = "rm" =>
    \A n \in B!ToSet(o.targets) :
      /\ n \in B!FileNames /\ B!IsBackup(n) /\ B!Exists(tree, n) /\ B!Exists(tree, B!Original(n))
      /\ B!Type(tree[n].kind) = B!Type(tree[B!Original(n)].kind)

LastTypes == [verdict : {"none", "ALLOW", "ASK", "DENY"}, alone : BOOLEAN, deleted : SUBSET B!FileNames]

BackupTypes ==
  /\ strictness \in {"LOOSE", "HARD"} /\ directory \in {"known", "unknown"}
  /\ directory = "unknown" => strictness \in UnknownIn
  /\ tree \in Disks
  /\ queue \in Seq(B!Operations)
  /\ last \in LastTypes

BackupInv ==
  /\ BackupTypes
  /\ B!PolicyAsked => \A i \in DOMAIN queue : ByTheRule(queue[i])
  /\ B!PolicyAsked => B!BackupsComeByRule
  /\ last.alone /\ queue # <<>> => Len(queue) = 1 /\ Spared(queue[1])

Backups == part = "backups" => BackupInv

LEMMA BackupConstants ==
  Levels \in Nat /\ Levels > 0 /\ Kinds \subseteq {"file", "directory"} /\ MaxSegments \in Nat
  BY PartAssumption DEF B!BackupAssumption

LEMMA AbsentIsNoFile == B!Absent \notin FileStates
  BY DEF FileStates, B!Absent

LEMMA OriginalType ==
  ASSUME NEW n \in B!FileNames
  PROVE  /\ n.stem \in Stems /\ n.level \in 0..Levels /\ B!At(n, n.level) = n
         /\ \A k \in 0..n.level : /\ B!At(n, k) \in B!FileNames /\ B!At(n, k).level = k
                                  /\ B!IsBackup(B!At(n, k)) => B!Original(B!At(n, k)) = B!At(n, k - 1) /\ k > 0
         /\ B!IsBackup(n) => B!Original(n) \in B!FileNames
<1>1. n.stem \in Stems /\ n.level \in 0..Levels /\ n.level \in Nat
  BY BackupConstants DEF B!FileNames
<1>2. ASSUME NEW k \in 0..n.level
      PROVE  B!At(n, k) \in B!FileNames /\ B!At(n, k).level = k /\ B!At(n, k) = [stem |-> n.stem, level |-> k]
  <2>1. B!At(n, k) = [stem |-> n.stem, level |-> k]
    BY DEF B!FileNames, B!At
  <2>2. k \in 0..Levels
    BY <1>1, BackupConstants
  <2> QED
    BY <1>1, <2>1, <2>2 DEF B!FileNames
<1>3. B!At(n, n.level) = n
  BY DEF B!FileNames, B!At
<1>4. ASSUME NEW k \in 0..n.level, B!IsBackup(B!At(n, k))
      PROVE  B!Original(B!At(n, k)) = B!At(n, k - 1) /\ k > 0
  <2>1. k > 0
    BY <1>2, <1>4 DEF B!IsBackup
  <2>2. B!At(n, k).level = k
    BY <1>2
  <2>3. B!Original(B!At(n, k)) = B!At(B!At(n, k), k - 1)
    BY <2>2 DEF B!Original
  <2>4. B!At(B!At(n, k), k - 1) = B!At(n, k - 1)
    BY DEF B!At, B!FileNames
  <2> QED
    BY <2>1, <2>3, <2>4
<1>5. ASSUME B!IsBackup(n) PROVE B!Original(n) \in B!FileNames
  <2>1. n.level - 1 \in 0..n.level
    BY <1>1, <1>5 DEF B!IsBackup
  <2> QED
    BY <1>2, <2>1 DEF B!Original
<1> QED
  BY <1>1, <1>2, <1>3, <1>4, <1>5

LEMMA OperationType ==
  ASSUME NEW o \in B!Operations
  PROVE  \/ o.op \in {"cp", "mv"} /\ o.from \in B!FileNames /\ o.to \in B!FileNames
         \/ o.op \in {"write", "append", "mkdir"} /\ o.to \in B!FileNames
         \/ o.op = "edit" /\ o.to \in B!FileNames /\ o.to.level < Levels
         \/ o.op = "rm" /\ o.targets \in Seq(B!FileNames)
         \/ o.op = "rmdir" /\ o.targets \in Seq(B!FileNames) /\ o.targets[1] \in B!FileNames
         \/ o.op = "other"
<1> HIDE DEF B!FileNames
<1>1. CASE o \in [op : {"cp", "mv"}, from : B!FileNames, to : B!FileNames]
  BY <1>1
<1>2. CASE o \in [op : {"write", "append", "mkdir"}, to : B!FileNames]
  BY <1>2
<1>3. CASE o \in [op : {"edit"}, to : {n \in B!FileNames : n.level < Levels}]
  BY <1>3
<1>4. CASE o \in [op : {"rm"}, targets : B!SeqOf(B!FileNames, 2) \ {<<>>}]
  <2>1. o.op = "rm" /\ o.targets \in B!SeqOf(B!FileNames, 2)
    BY <1>4
  <2>2. PICK m \in 0..2 : o.targets \in [1..m -> B!FileNames]
    BY <2>1 DEF B!SeqOf
  <2>3. m \in Nat
    BY <2>2
  <2>4. o.targets \in Seq(B!FileNames)
    BY <2>2, <2>3
  <2> QED
    BY <2>1, <2>4
<1>5. CASE o \in [op : {"rmdir"}, targets : {<<n>> : n \in B!FileNames}]
  <2>1. o.op = "rmdir" /\ \E n \in B!FileNames : o.targets = <<n>>
    BY <1>5
  <2> QED
    BY <2>1
<1>6. CASE o \in [op : {"other"}]
  BY <1>6
<1> QED
  BY <1>1, <1>2, <1>3, <1>4, <1>5, <1>6 DEF B!Operations

ByRule(d) == \A n \in B!FileNames : B!IsBackup(n) /\ d[n] # B!Absent => d[n].by \in B!Origins(n)

\* Disk e is d but for n, where there is what was there or something made by op.
Touched(d, e, n, op) ==
  /\ e \in Disks
  /\ \A m \in B!FileNames : m # n => e[m] = d[m]
  /\ e[n] = B!Absent \/ e[n].by = op \/ (d[n] # B!Absent /\ e[n].by = d[n].by)

LEMMA TouchedByRule ==
  ASSUME NEW d, NEW e, NEW n \in B!FileNames, NEW op, Touched(d, e, n, op)
  PROVE  e \in Disks /\ ((B!IsBackup(n) => op \in B!Origins(n)) /\ ByRule(d) => ByRule(e))
<1> HIDE DEF B!FileNames, B!Origins, Disks
<1> QED
  BY DEF Touched, ByRule

\* The disk with f under n.
LEMMA PutType ==
  ASSUME NEW d \in Disks, NEW n \in B!FileNames, NEW f \in FileStates \cup {B!Absent}
  PROVE  /\ [d EXCEPT ![n] = f] \in Disks /\ [d EXCEPT ![n] = f][n] = f
         /\ \A m \in B!FileNames : m # n => [d EXCEPT ![n] = f][m] = d[m]
<1> HIDE DEF B!FileNames, FileStates
<1> QED
  BY DEF Disks

LEMMA PutTouched ==
  ASSUME NEW d \in Disks, NEW n \in B!FileNames, NEW op, NEW f \in FileStates,
         f.by = op \/ (d[n] # B!Absent /\ f.by = d[n].by)
  PROVE  Touched(d, [d EXCEPT ![n] = f], n, op)
<1> HIDE DEF B!FileNames, FileStates, Disks
<1> DEFINE e == [d EXCEPT ![n] = f]
<1>1. e \in Disks /\ e[n] = f /\ \A m \in B!FileNames : m # n => e[m] = d[m]
  BY PutType
<1> HIDE DEF e
<1>2. Touched(d, e, n, op)
  BY <1>1 DEF Touched
<1> QED
  BY <1>2 DEF e

LEMMA WrittenType ==
  ASSUME NEW d \in Disks, NEW n \in B!FileNames, NEW kind \in Forms, NEW op \in {"cp", "write", "append"}
  PROVE  Touched(d, B!Written(d, n, kind, op), n, op)
<1> HIDE DEF B!FileNames
<1>1. CASE d[n] # B!Absent
  <2> DEFINE f == [d[n] EXCEPT !.content = "young"]
  <2>1. d[n] \in FileStates
    BY <1>1 DEF Disks
  <2>2. f \in FileStates /\ f.by = d[n].by
    BY <2>1 DEF FileStates
  <2>3. B!Written(d, n, kind, op) = [d EXCEPT ![n] = f]
    BY <1>1 DEF B!Written, B!Exists
  <2> HIDE DEF f, FileStates
  <2> QED
    BY <1>1, <2>2, <2>3, PutTouched
<1>2. CASE d[n] = B!Absent
  <2> DEFINE f == B!Fresh(kind, op)
  <2>1. f \in FileStates /\ f.by = op
    BY DEF FileStates, Forms, Ways, B!Fresh
  <2>2. B!Written(d, n, kind, op) = [d EXCEPT ![n] = f]
    BY <1>2 DEF B!Written, B!Exists
  <2> HIDE DEF f, FileStates
  <2>3. Touched(d, [d EXCEPT ![n] = f], n, op)
    BY <2>1, PutTouched, Zenon
  <2> QED
    BY <2>2, <2>3
<1> QED
  BY <1>1, <1>2

LEMMA FilledType ==
  ASSUME NEW d \in Disks, NEW n \in B!FileNames, B!IsDirectory(d, n), NEW op
  PROVE  Touched(d, B!Filled(d, n), n, op)
<1> HIDE DEF B!FileNames
<1> DEFINE f == [d[n] EXCEPT !.kind = "directory", !.content = "young"]
<1>1. d[n] # B!Absent /\ d[n] \in FileStates
  BY DEF Disks, B!IsDirectory, B!Exists
<1>2. f \in FileStates /\ f.by = d[n].by
  BY <1>1 DEF FileStates, Forms
<1>3. B!Filled(d, n) = [d EXCEPT ![n] = f]
  BY DEF B!Filled, Disks
<1> HIDE DEF f, FileStates
<1> QED
  BY <1>1, <1>2, <1>3, PutTouched

\* What a segment does to the disk, operation by operation.
LEMMA CopyEffect ==
  ASSUME NEW d \in Disks, NEW o \in B!Operations, o.op = "cp"
  PROVE  B!Effect(d, o) \in Disks /\ (ByTheRule(o) /\ ByRule(d) => ByRule(B!Effect(d, o)))
<1> HIDE DEF B!FileNames
<1> DEFINE e == B!Effect(d, o)
<1>1. o.from \in B!FileNames /\ o.to \in B!FileNames
  BY OperationType
<1>2. CASE B!CanTransfer(d, o) /\ B!IsDirectory(d, o.to)
  <2>1. e = B!Filled(d, o.to)
    BY <1>2 DEF B!Effect, B!Copied
  <2>2. Touched(d, e, o.to, "cp")
    BY <1>1, <1>2, <2>1, FilledType
  <2> QED
    BY <1>1, <2>2, TouchedByRule DEF ByTheRule, B!Origins
<1>3. CASE B!CanTransfer(d, o) /\ ~B!IsDirectory(d, o.to)
  <2>1. e = B!Written(d, o.to, d[o.from].kind, "cp")
    BY <1>3 DEF B!Effect, B!Copied
  <2>2. d[o.from].kind \in Forms
    BY <1>1, <1>3 DEF Disks, FileStates, B!CanTransfer, B!Exists
  <2>3. Touched(d, e, o.to, "cp")
    BY <1>1, <2>1, <2>2, WrittenType
  <2> QED
    BY <1>1, <2>3, TouchedByRule DEF ByTheRule, B!Origins
<1>4. CASE ~B!CanTransfer(d, o)
  <2>1. e = d
    BY <1>4 DEF B!Effect
  <2> QED
    BY <2>1
<1> QED
  BY <1>2, <1>3, <1>4

LEMMA MoveEffect ==
  ASSUME NEW d \in Disks, NEW o \in B!Operations, o.op = "mv"
  PROVE  B!Effect(d, o) \in Disks /\ (ByTheRule(o) /\ ByRule(d) => ByRule(B!Effect(d, o)))
<1> HIDE DEF B!FileNames
<1> DEFINE e == B!Effect(d, o)
<1>1. o.from \in B!FileNames /\ o.to \in B!FileNames
  BY OperationType
<1>2. ASSUME B!CanTransfer(d, o), NEW f \in FileStates, e = [d EXCEPT ![o.to] = f, ![o.from] = B!Absent]
      PROVE  e \in Disks /\ (~B!IsBackup(o.to) /\ ByRule(d) => ByRule(e))
  <2>1. o.from # o.to
    BY <1>2 DEF B!CanTransfer
  <2> HIDE DEF FileStates
  <2>2. e \in Disks /\ e[o.from] = B!Absent /\ \A m \in B!FileNames : m # o.to /\ m # o.from => e[m] = d[m]
    BY <1>1, <1>2, <2>1 DEF Disks
  <2> QED
    BY <1>1, <2>2 DEF ByRule
<1>3. CASE B!CanTransfer(d, o) /\ B!IsDirectory(d, o.to)
  <2> DEFINE f == [d[o.to] EXCEPT !.kind = "directory", !.content = "young"]
  <2>1. d[o.to] \in FileStates
    BY <1>1, <1>3 DEF Disks, B!IsDirectory, B!Exists
  <2>2. f \in FileStates
    BY <2>1 DEF FileStates, Forms
  <2>3. e = [B!Filled(d, o.to) EXCEPT ![o.from] = B!Absent]
    BY <1>3 DEF B!Effect, B!Moved
  <2>4. B!Filled(d, o.to) = [d EXCEPT ![o.to] = f]
    BY <1>1 DEF B!Filled, Disks
  <2> HIDE DEF f
  <2>5. e = [d EXCEPT ![o.to] = f, ![o.from] = B!Absent]
    BY <2>3, <2>4
  <2> QED
    BY <1>2, <1>3, <2>2, <2>5 DEF ByTheRule
<1>4. CASE B!CanTransfer(d, o) /\ ~B!IsDirectory(d, o.to)
  <2> DEFINE f == [d[o.from] EXCEPT !.by = "mv"]
  <2>1. d[o.from] \in FileStates
    BY <1>1, <1>4 DEF Disks, B!CanTransfer, B!Exists
  <2>2. f \in FileStates
    BY <2>1 DEF FileStates, Ways
  <2>3. e = [d EXCEPT ![o.to] = f, ![o.from] = B!Absent]
    BY <1>4 DEF B!Effect, B!Moved
  <2> HIDE DEF f
  <2> QED
    BY <1>2, <1>4, <2>2, <2>3 DEF ByTheRule
<1>5. CASE ~B!CanTransfer(d, o)
  <2>1. e = d
    BY <1>5 DEF B!Effect
  <2> QED
    BY <2>1
<1> QED
  BY <1>3, <1>4, <1>5

LEMMA WriteEffect ==
  ASSUME NEW d \in Disks, NEW o \in B!Operations, o.op \in {"write", "append"}
  PROVE  B!Effect(d, o) \in Disks /\ (ByTheRule(o) /\ ByRule(d) => ByRule(B!Effect(d, o)))
<1> HIDE DEF B!FileNames
<1> DEFINE e == B!Effect(d, o)
<1>1. o.to \in B!FileNames
  BY OperationType
<1>2. CASE ~B!IsDirectory(d, o.to)
  <2>1. e = B!Written(d, o.to, "file", o.op)
    BY <1>2 DEF B!Effect
  <2>2. Touched(d, e, o.to, o.op)
    BY <1>1, <2>1, WrittenType DEF Forms
  <2> QED
    BY <1>1, <2>2, TouchedByRule DEF ByTheRule, B!Origins
<1>3. CASE B!IsDirectory(d, o.to)
  <2>1. e = d
    BY <1>3 DEF B!Effect
  <2> QED
    BY <2>1
<1> QED
  BY <1>2, <1>3

LEMMA MakeEffect ==
  ASSUME NEW d \in Disks, NEW o \in B!Operations, o.op = "mkdir"
  PROVE  B!Effect(d, o) \in Disks /\ (ByRule(d) => ByRule(B!Effect(d, o)))
<1> HIDE DEF B!FileNames
<1> DEFINE e == B!Effect(d, o)
           f == B!Fresh("empty", "mkdir")
<1>1. o.to \in B!FileNames
  BY OperationType
<1>2. CASE ~B!Exists(d, o.to)
  <2>1. e = [d EXCEPT ![o.to] = f]
    BY <1>2 DEF B!Effect
  <2>2. f \in FileStates /\ f.by = "mkdir"
    BY DEF FileStates, Forms, Ways, B!Fresh
  <2> HIDE DEF f, FileStates
  <2>3. Touched(d, [d EXCEPT ![o.to] = f], o.to, "mkdir")
    BY <1>1, <2>2, PutTouched, Zenon
  <2>4. Touched(d, e, o.to, "mkdir")
    BY <2>1, <2>3
  <2> QED
    BY <1>1, <2>4, TouchedByRule DEF B!Origins
<1>3. CASE B!Exists(d, o.to)
  <2>1. e = d
    BY <1>3 DEF B!Effect
  <2> QED
    BY <2>1
<1> QED
  BY <1>2, <1>3

\* The backup an edit makes is that of the file edited.
LEMMA BackupType ==
  ASSUME NEW n \in B!FileNames, n.level < Levels
  PROVE  /\ B!Backup(n) \in B!FileNames /\ B!Backup(n) # n /\ B!IsBackup(B!Backup(n))
         /\ B!IsCriticalBackup(B!Backup(n)) <=> B!IsCritical(n)
<1>1. n.level \in 0..Levels /\ n.level \in Nat /\ n.stem \in Stems /\ n = [stem |-> n.stem, level |-> n.level]
  BY BackupConstants DEF B!FileNames
<1>2. PICK m : m = n.level + 1
  OBVIOUS
<1>3. m \in 0..Levels /\ m > 0 /\ m - 1 = n.level /\ m # n.level
  BY <1>1, <1>2, BackupConstants
<1>4. B!Backup(n) = [stem |-> n.stem, level |-> m]
  BY <1>1, <1>2 DEF B!Backup, B!At
<1>5. B!Backup(n) \in B!FileNames /\ B!Backup(n).level = m /\ B!Backup(n).stem = n.stem
  BY <1>1, <1>3, <1>4 DEF B!FileNames
<1>6. B!Original(B!Backup(n)) = n
  BY <1>1, <1>3, <1>4 DEF B!Original, B!At
<1> QED
  BY <1>3, <1>5, <1>6 DEF B!IsBackup, B!IsCriticalBackup

LEMMA EditEffect ==
  ASSUME NEW d \in Disks, NEW o \in B!Operations, o.op = "edit"
  PROVE  B!Effect(d, o) \in Disks /\ (ByTheRule(o) /\ ByRule(d) => ByRule(B!Effect(d, o)))
<1> HIDE DEF B!FileNames
<1> DEFINE e == B!Effect(d, o)
           b == B!Backup(o.to)
<1>1. o.to \in B!FileNames /\ b \in B!FileNames /\ b # o.to /\ (B!IsCriticalBackup(b) <=> B!IsCritical(o.to))
  BY OperationType, BackupType
<1>2. CASE B!IsFile(d, o.to) /\ ~B!IsDirectory(d, b)
  <2> DEFINE f == [d[o.to] EXCEPT !.by = "edit"]
             g == B!Fresh("file", d[o.to].by)
  <2>1. e = [d EXCEPT ![b] = f, ![o.to] = g]
    BY <1>2 DEF B!Effect, B!Edited
  <2>2. d[o.to] \in FileStates /\ d[o.to] # B!Absent
    BY <1>1, <1>2 DEF Disks, B!IsFile, B!Exists
  <2>3. f \in FileStates /\ f.by = "edit" /\ g \in FileStates /\ g.by = d[o.to].by
    BY <2>2 DEF FileStates, Forms, Ways, B!Fresh
  <2> HIDE DEF f, g, b, FileStates
  <2>4. e \in Disks /\ e[b] = f /\ e[o.to] = g /\ \A m \in B!FileNames : m # b /\ m # o.to => e[m] = d[m]
    BY <1>1, <2>1, <2>3 DEF Disks
  <2>5. ByTheRule(o) => "edit" \in B!Origins(b)
    BY <1>1 DEF B!Origins, ByTheRule
  <2> QED
    BY <1>1, <2>2, <2>3, <2>4, <2>5 DEF ByRule
<1>3. CASE ~(B!IsFile(d, o.to) /\ ~B!IsDirectory(d, b))
  <2>1. e = d
    BY <1>3 DEF B!Effect
  <2> QED
    BY <2>1
<1> QED
  BY <1>2, <1>3

LEMMA DeleteEffect ==
  ASSUME NEW d \in Disks, NEW o \in B!Operations, o.op \in {"rm", "rmdir"}
  PROVE  B!Effect(d, o) \in Disks /\ (ByRule(d) => ByRule(B!Effect(d, o)))
<1> HIDE DEF B!FileNames
<1> DEFINE e == B!Effect(d, o)
<1>1. CASE o.op = "rm"
  <2>1. e = [n \in B!FileNames |-> IF B!Contains(o.targets, n) THEN B!Absent ELSE d[n]]
    BY <1>1 DEF B!Effect
  <2>2. \A n \in B!FileNames : e[n] = B!Absent \/ e[n] = d[n]
    BY <2>1
  <2>3. e \in Disks
    BY <2>1 DEF Disks
  <2> QED
    BY <2>2, <2>3 DEF ByRule
<1>2. CASE o.op = "rmdir"
  <2> DEFINE n == o.targets[1]
  <2>1. n \in B!FileNames
    BY <1>2, OperationType
  <2> HIDE DEF n
  <2>2. e = [d EXCEPT ![n] = B!Absent] \/ e = d
    BY <1>2 DEF B!Effect, n
  <2>3. [d EXCEPT ![n] = B!Absent] \in Disks /\ (ByRule(d) => ByRule([d EXCEPT ![n] = B!Absent]))
    BY <2>1, PutType DEF ByRule
  <2> QED
    BY <2>2, <2>3
<1> QED
  BY <1>1, <1>2

LEMMA EffectType ==
  ASSUME NEW d \in Disks, NEW o \in B!Operations
  PROVE  B!Effect(d, o) \in Disks /\ (ByTheRule(o) /\ ByRule(d) => ByRule(B!Effect(d, o)))
<1>1. CASE o.op = "other"
  <2>1. B!Effect(d, o) = d
    BY <1>1 DEF B!Effect
  <2> QED
    BY <2>1
<1> HIDE DEF ByRule, ByTheRule, Disks
<1> QED
  BY <1>1, OperationType, CopyEffect, MoveEffect, WriteEffect, MakeEffect, EditEffect, DeleteEffect

-----------------------------------------------------------------------------
(* What is allowed *)

LEMMA AllowedSegments ==
  ASSUME NEW command \in Seq(B!Operations), B!CommandVerdict(command) = "ALLOW", NEW i \in DOMAIN command
  PROVE  B!SegmentVerdict(command[i]) \notin {"ASK", "DENY"}
<1> DEFINE verdicts == {B!SegmentVerdict(command[k]) : k \in DOMAIN command}
<1>1. B!SegmentVerdict(command[i]) \in verdicts
  OBVIOUS
<1>2. "DENY" \notin verdicts /\ "ASK" \notin verdicts
  BY DEF B!CommandVerdict
<1> QED
  BY <1>1, <1>2

LEMMA AllowedIsByTheRule ==
  ASSUME B!PolicyAsked, NEW o \in B!Operations, B!SegmentVerdict(o) \notin {"ASK", "DENY"}
  PROVE  ByTheRule(o)
<1>1. ASSUME o.op \in {"mv", "write"}, B!IsBackup(o.to) PROVE FALSE
  <2>1. B!PolicyVerdict(o) = "DENY"
    BY <1>1 DEF B!PolicyVerdict, B!IsDeletion
  <2>2. B!SegmentVerdict(o) = "DENY"
    BY <2>1 DEF B!SegmentVerdict
  <2> QED
    BY <2>2
<1>2. ASSUME o.op = "cp", B!IsCriticalBackup(o.to) PROVE FALSE
  <2>1. B!IsBackup(o.to)
    BY <1>2 DEF B!IsCriticalBackup
  <2>2. B!PolicyVerdict(o) = "DENY"
    BY <1>2, <2>1 DEF B!PolicyVerdict, B!IsDeletion
  <2>3. B!SegmentVerdict(o) = "DENY"
    BY <2>2 DEF B!SegmentVerdict
  <2> QED
    BY <2>3
<1>3. ASSUME o.op = "edit", B!IsCritical(o.to) PROVE FALSE
  <2>1. ~B!IsDeletion(o) /\ B!PolicyVerdict(o) = "none"
    BY <1>3 DEF B!IsDeletion, B!PolicyVerdict
  <2>2. B!SegmentVerdict(o) = B!KnownSafe({o.to})
    BY <1>3, <2>1 DEF B!SegmentVerdict, B!OtherVerdict
  <2>3. B!KnownSafe({o.to}) \in {"ASK", "DENY"}
    BY <1>3 DEF B!KnownSafe, B!SomeCritical
  <2> QED
    BY <2>2, <2>3
<1> QED
  BY <1>1, <1>2, <1>3 DEF ByTheRule

LEMMA AllowedDeletionIsVerified ==
  ASSUME BackupTypes, NEW o \in B!Operations, B!SegmentVerdict(o) \notin {"ASK", "DENY"}
  PROVE  Spared(o)
<1> SUFFICES ASSUME o.op = "rm", NEW n \in B!ToSet(o.targets)
             PROVE  /\ n \in B!FileNames /\ B!IsBackup(n) /\ B!Exists(tree, n) /\ B!Exists(tree, B!Original(n))
                    /\ B!Type(tree[n].kind) = B!Type(tree[B!Original(n)].kind)
  BY DEF Spared
<1>1. o.targets \in Seq(B!FileNames)
  BY OperationType
<1>2. PICK i \in DOMAIN o.targets : n = o.targets[i]
  BY DEF B!ToSet
<1>3. n \in B!FileNames
  BY <1>1, <1>2
<1>4. B!PolicyVerdict(o) = B!DeletionVerdict(o.targets)
  BY DEF B!PolicyVerdict, B!IsDeletion
<1>5. B!OtherVerdict(o) \in {"ASK", "DENY"}
  BY DEF B!OtherVerdict
<1>6. B!DeletionVerdict(o.targets) \notin {"none", "DENY"}
  BY <1>4, <1>5 DEF B!SegmentVerdict
<1>7. \A k \in DOMAIN o.targets : B!IsBackup(o.targets[k]) /\ B!Verified(o.targets[k])
  BY <1>6 DEF B!DeletionVerdict
<1>8. B!IsBackup(n) /\ B!Verified(n)
  BY <1>2, <1>7
<1> QED
  BY <1>3, <1>8 DEF B!Verified

-----------------------------------------------------------------------------
(* The steps *)

LEMMA BackupsStart == BackupsInit => BackupInv
<1> SUFFICES ASSUME BackupsInit PROVE BackupInv
  OBVIOUS
<1>1. /\ strictness \in {"LOOSE", "HARD"} /\ last = B!Idle("none") /\ queue = <<>>
      /\ directory \in {"known"} \cup (IF strictness \in UnknownIn THEN {"unknown"} ELSE {})
      /\ tree \in [B!FileNames -> {B!Absent} \cup {B!Found(kind) : kind \in Kinds}]
  BY DEF BackupsInit, B!Init
<1>2. \A kind \in Kinds : B!Found(kind) \in FileStates /\ B!Found(kind).by = "found"
  BY BackupConstants DEF B!Found, FileStates, Forms, Ways
<1> HIDE DEF B!FileNames, FileStates
<1>3. tree \in Disks
  BY <1>1, <1>2 DEF Disks
<1>4. \A n \in B!FileNames : tree[n] # B!Absent => tree[n].by = "found"
  BY <1>1, <1>2
<1>5. B!BackupsComeByRule
  BY <1>4 DEF B!BackupsComeByRule, B!Exists, B!Origins
<1>6. directory \in {"known", "unknown"} /\ (directory = "unknown" => strictness \in UnknownIn)
  BY <1>1
<1>7. last.alone = FALSE /\ last \in LastTypes
  BY <1>1 DEF B!Idle, LastTypes
<1> QED
  BY <1>1, <1>3, <1>5, <1>6, <1>7 DEF BackupInv, BackupTypes

LEMMA IssueStep ==
  ASSUME BackupInv, NEW command \in Seq(B!Operations), command # <<>>, B!Issue(command)
  PROVE  BackupInv'
<1>1. UNCHANGED <<strictness, directory, tree>>
  BY DEF B!Issue
<1>2. CASE B!CommandVerdict(command) = "ALLOW"
  <2>1. queue' = command /\ last' = [B!Idle("ALLOW") EXCEPT !.alone = Len(command) = 1]
    BY <1>2 DEF B!Issue
  <2>2. /\ last'.alone <=> Len(command) = 1
        /\ last' \in LastTypes
    BY <2>1 DEF B!Idle, LastTypes
  <2>3. \A i \in DOMAIN command : command[i] \in B!Operations /\ B!SegmentVerdict(command[i]) \notin {"ASK", "DENY"}
    BY <1>2, AllowedSegments
  <2>4. \A i \in DOMAIN command : B!PolicyAsked => ByTheRule(command[i])
    BY <2>3, AllowedIsByTheRule
  <2>5. \A i \in DOMAIN command : Spared(command[i])
    BY <2>3, AllowedDeletionIsVerified DEF BackupInv
  <2>6. \A o : Spared(o)' <=> Spared(o)
    BY <1>1 DEF Spared, B!Exists, B!ToSet, B!Type, B!FileNames, B!IsBackup, B!Original, B!At, B!Absent
  <2>7. Len(command) = 1 => 1 \in DOMAIN command
    OBVIOUS
  <2>8. BackupTypes'
    BY <1>1, <2>1, <2>2 DEF BackupInv, BackupTypes, LastTypes, Disks, B!FileNames, B!Absent, B!Operations
  <2> QED
    BY <1>1, <2>1, <2>2, <2>4, <2>5, <2>6, <2>7, <2>8
       DEF BackupInv, B!PolicyAsked, B!BackupsComeByRule, B!Exists, ByTheRule, B!Origins, B!IsCriticalBackup, B!IsCritical, B!Original, B!At, B!FileNames, B!IsBackup, B!Absent
<1>3. CASE B!CommandVerdict(command) # "ALLOW"
  <2>1. /\ UNCHANGED queue /\ ~last'.alone
        /\ last' \in LastTypes
    <3>1. UNCHANGED queue /\ last' = B!Idle(B!CommandVerdict(command))
      BY <1>3 DEF B!Issue
    <3>2. B!CommandVerdict(command) \in {"DENY", "ASK", "ALLOW"}
      BY DEF B!CommandVerdict
    <3> QED
      BY <3>1, <3>2 DEF B!Idle, LastTypes
  <2> QED
    BY <1>1, <2>1
       DEF BackupInv, BackupTypes, LastTypes, Disks, B!Operations, B!PolicyAsked, B!BackupsComeByRule, B!Exists, ByTheRule, B!Origins, B!IsCriticalBackup, B!IsCritical, B!Original, B!At, B!FileNames, B!IsBackup, B!Absent
<1> QED
  BY <1>2, <1>3

LEMMA DeletedType ==
  ASSUME NEW o \in B!Operations
  PROVE  B!Deleted(o) \subseteq B!FileNames
<1>1. CASE o.op = "rm"
  <2>1. o.targets \in Seq(B!FileNames)
    BY <1>1, OperationType
  <2> QED
    BY <1>1, <2>1 DEF B!Deleted, B!ToSet
<1> QED
  BY <1>1 DEF B!Deleted

LEMMA SegmentRuns ==
  ASSUME BackupInv, B!RunSegment
  PROVE  BackupInv'
<1>1. BackupTypes /\ queue \in Seq(B!Operations)
  BY DEF BackupInv, BackupTypes
<1>2. /\ queue # <<>> /\ queue' = Tail(queue) /\ tree' = B!Effect(tree, Head(queue))
      /\ last' = [last EXCEPT !.deleted = B!Deleted(Head(queue))]
      /\ UNCHANGED <<strictness, directory>>
  BY DEF B!RunSegment
<1>3. /\ Head(queue) = queue[1] /\ Head(queue) \in B!Operations /\ 1 \in DOMAIN queue
      /\ queue' \in Seq(B!Operations) /\ Len(queue') = Len(queue) - 1
      /\ \A i \in DOMAIN queue' : i + 1 \in DOMAIN queue /\ queue'[i] = queue[i + 1]
  BY <1>1, <1>2
<1>4. /\ last'.alone = last.alone
      /\ last' \in LastTypes
  BY <1>1, <1>2, <1>3, DeletedType DEF BackupTypes, LastTypes
<1>5. tree' \in Disks
  BY <1>1, <1>2, <1>3, EffectType DEF BackupTypes
<1>6. ASSUME B!PolicyAsked PROVE ByRule(tree') /\ \A i \in DOMAIN queue' : ByTheRule(queue'[i])
  <2>1. ByRule(tree) /\ \A i \in DOMAIN queue : ByTheRule(queue[i])
    BY <1>6 DEF BackupInv, ByRule, B!BackupsComeByRule, B!Exists
  <2>2. ByRule(B!Effect(tree, Head(queue)))
    BY <1>1, <1>3, <2>1, EffectType DEF BackupTypes
  <2> QED
    BY <1>2, <1>3, <2>1, <2>2
<1>7. last.alone => queue' = <<>>
  <2>1. last.alone => Len(queue) = 1
    BY <1>2 DEF BackupInv
  <2>2. Len(queue') = Len(queue) - 1 /\ queue' \in Seq(B!Operations)
    BY <1>3
  <2>3. Len(queue') = 0 => queue' = <<>>
    BY <2>2
  <2> QED
    BY <2>1, <2>2, <2>3
<1>8. BackupTypes'
  BY <1>1, <1>2, <1>3, <1>4, <1>5 DEF BackupTypes, LastTypes, Disks, B!FileNames, B!Absent, B!Operations
<1>9. (B!PolicyAsked => B!BackupsComeByRule /\ \A i \in DOMAIN queue : ByTheRule(queue[i]))'
  BY <1>2, <1>6 DEF B!PolicyAsked, ByRule, B!BackupsComeByRule, B!Exists, ByTheRule, B!Origins, B!IsCriticalBackup, B!IsCritical, B!Original, B!At, B!FileNames, B!IsBackup, B!Absent
<1> QED
  BY <1>2, <1>4, <1>7, <1>8, <1>9 DEF BackupInv

LEMMA WaitStep ==
  ASSUME BackupInv, B!Wait
  PROVE  BackupInv'
<1>1. /\ tree' = [n \in B!FileNames |-> IF B!Exists(tree, n) THEN [tree[n] EXCEPT !.inode = "old", !.content = "old"] ELSE B!Absent]
      /\ last' = [last EXCEPT !.deleted = {}] /\ UNCHANGED <<strictness, directory, queue>>
  BY DEF B!Wait
<1>2. BackupTypes /\ tree \in Disks
  BY DEF BackupInv, BackupTypes
<1>3. /\ last'.alone = last.alone
      /\ last' \in LastTypes
  BY <1>1, <1>2 DEF BackupTypes, LastTypes
<1>4. ASSUME NEW n \in B!FileNames
      PROVE  /\ tree'[n] \in FileStates \cup {B!Absent} /\ (tree'[n] # B!Absent <=> tree[n] # B!Absent)
             /\ tree[n] # B!Absent => tree'[n].kind = tree[n].kind /\ tree'[n].by = tree[n].by
  <2>1. CASE tree[n] = B!Absent
    BY <1>1, <2>1 DEF B!Exists
  <2>2. CASE tree[n] # B!Absent
    <3>1. tree[n] \in FileStates
      BY <1>2, <2>2 DEF Disks
    <3>2. tree'[n] = [tree[n] EXCEPT !.inode = "old", !.content = "old"]
      BY <1>1, <2>2 DEF B!Exists
    <3>3. tree'[n] \in FileStates /\ tree'[n].kind = tree[n].kind /\ tree'[n].by = tree[n].by
      BY <3>1, <3>2 DEF FileStates
    <3> QED
      BY <2>2, <3>3, AbsentIsNoFile
  <2> QED
    BY <2>1, <2>2
<1>5. tree' \in Disks
  BY <1>1, <1>4 DEF Disks
<1>6. ASSUME NEW o, Spared(o) PROVE Spared(o)'
  <2> SUFFICES ASSUME o.op = "rm", NEW n \in B!ToSet(o.targets)
               PROVE  /\ n \in B!FileNames /\ B!IsBackup(n) /\ tree'[n] # B!Absent /\ tree'[B!Original(n)] # B!Absent
                      /\ B!Type(tree'[n].kind) = B!Type(tree'[B!Original(n)].kind)
    BY DEF Spared, B!Exists, B!ToSet, B!Type, B!FileNames, B!IsBackup, B!Original, B!At, B!Absent
  <2>1. /\ n \in B!FileNames /\ B!IsBackup(n) /\ tree[n] # B!Absent /\ tree[B!Original(n)] # B!Absent
        /\ B!Type(tree[n].kind) = B!Type(tree[B!Original(n)].kind)
    BY <1>6 DEF Spared, B!Exists
  <2>2. B!Original(n) \in B!FileNames
    BY <2>1, OriginalType
  <2> QED
    BY <1>4, <2>1, <2>2
<1>7. BackupTypes'
  BY <1>1, <1>2, <1>3, <1>5 DEF BackupTypes, LastTypes, Disks, B!FileNames, B!Absent, B!Operations
<1>8. (B!PolicyAsked => B!BackupsComeByRule /\ \A i \in DOMAIN queue : ByTheRule(queue[i]))'
  <2>1. B!PolicyAsked => ByRule(tree) /\ \A i \in DOMAIN queue : ByTheRule(queue[i])
    BY DEF BackupInv, ByRule, B!BackupsComeByRule, B!Exists
  <2>2. ByRule(tree) => ByRule(tree')
    BY <1>4 DEF ByRule
  <2> QED
    BY <1>1, <2>1, <2>2 DEF B!PolicyAsked, ByRule, B!BackupsComeByRule, B!Exists, ByTheRule, B!Origins, B!IsCriticalBackup, B!IsCritical, B!Original, B!At, B!FileNames, B!IsBackup, B!Absent
<1>9. (last.alone /\ queue # <<>> => Len(queue) = 1 /\ Spared(queue[1]))'
  <2> SUFFICES ASSUME last'.alone, queue' # <<>> PROVE (Len(queue) = 1 /\ Spared(queue[1]))'
    OBVIOUS
  <2>1. Len(queue) = 1 /\ Spared(queue[1])
    BY <1>1, <1>3 DEF BackupInv
  <2>2. PICK o : o = queue[1]
    OBVIOUS
  <2>3. Spared(o)'
    BY <1>6, <2>1, <2>2
  <2> QED
    BY <1>1, <2>1, <2>2, <2>3
<1> QED
  BY <1>7, <1>8, <1>9 DEF BackupInv

\* The commands of the model are sequences of operations.
LEMMA CommandIsSeq ==
  ASSUME NEW command \in B!SeqOf(B!Operations, MaxSegments)
  PROVE  command \in Seq(B!Operations)
<1>1. PICK n \in 0..MaxSegments : command \in [1..n -> B!Operations]
  BY DEF B!SeqOf
<1>2. n \in Nat
  BY <1>1, BackupConstants
<1> QED
  BY <1>1, <1>2

LEMMA RestOfBackups ==
  ASSUME BackupInv, UNCHANGED <<strictness, directory, tree, last, queue>>
  PROVE  BackupInv'
<1>1. BackupTypes'
  BY DEF BackupInv, BackupTypes, LastTypes, Disks, B!Operations, B!FileNames, B!Absent
<1>2. (B!PolicyAsked => B!BackupsComeByRule /\ \A i \in DOMAIN queue : ByTheRule(queue[i]))'
  BY DEF BackupInv, B!PolicyAsked, B!BackupsComeByRule, B!Exists, ByTheRule, B!Origins, B!IsCriticalBackup, B!IsCritical, B!Original, B!At, B!FileNames, B!IsBackup, B!Absent
<1>3. \A o : Spared(o)' <=> Spared(o)
  BY DEF Spared, B!Exists, B!ToSet, B!Type, B!FileNames, B!IsBackup, B!Original, B!At, B!Absent
<1>4. (last.alone /\ queue # <<>> => Len(queue) = 1 /\ Spared(queue[1]))'
  BY <1>3 DEF BackupInv
<1> QED
  BY <1>1, <1>2, <1>4 DEF BackupInv

LEMMA BackupsAlways == UnionSpec => []Backups
<1>1. UnionInit => Backups
  BY BackupsStart DEF UnionInit, Backups
<1>2. Backups /\ [UnionNext]_<<part, vars, walk, phase, base, backups, strictness, temp>> => Backups'
  <2> SUFFICES ASSUME Backups, [UnionNext]_<<part, vars, walk, phase, base, backups, strictness, temp>>, part' = "backups"
               PROVE  BackupInv'
    BY DEF Backups
  <2>1. part = "backups"
    BY DEF UnionNext
  <2>2. BackupInv
    BY <2>1 DEF Backups
  <2>3. B!Next \/ UNCHANGED <<strictness, directory, tree, last, queue>>
    BY <2>1 DEF UnionNext, backups
  <2>4. CASE B!Wait
    BY <2>2, <2>4, WaitStep
  <2>5. CASE B!RunSegment
    BY <2>2, <2>5, SegmentRuns
  <2>6. CASE \E command \in B!SeqOf(B!Operations, MaxSegments) \ {<<>>} : B!Issue(command)
    <3>1. PICK command \in B!SeqOf(B!Operations, MaxSegments) \ {<<>>} : B!Issue(command)
      BY <2>6
    <3>2. command \in Seq(B!Operations) /\ command # <<>>
      BY <3>1, CommandIsSeq
    <3> QED
      BY <2>2, <3>1, <3>2, IssueStep
  <2>7. CASE UNCHANGED <<strictness, directory, tree, last, queue>>
    BY <2>2, <2>7, RestOfBackups
  <2> QED
    BY <2>3, <2>4, <2>5, <2>6, <2>7 DEF B!Next
<1> QED
  BY <1>1, <1>2, PTL DEF UnionSpec

\* Where the literal directory of a segment is always known, whatever commands are
\* issued and however their segments follow each other: nothing under a backup name was
\* moved or written there, and nothing under that of a credential file was copied or
\* edited there (classifyBackupPolicy, classifier.ts:1764-1899).
THEOREM BackupsComeByTheRule ==
  ASSUME "LOOSE" \notin UnknownIn
  PROVE  UnionSpec => []BackupsComeByRule
<1>1. Backups => BackupsComeByRule
  BY DEF Backups, BackupInv, BackupTypes, BackupsComeByRule, B!PolicyAsked
<1> QED
  BY <1>1, BackupsAlways, PTL

LEMMA LeastOf ==
  ASSUME NEW S, S \subseteq Nat, S # {}
  PROVE  \E m \in S : \A k \in S : ~(k < m)
<1>1. \E m \in S : \A k \in S : ~(<<k, m>> \in OpToRel(<, Nat))
  BY NatLessThanWellFounded, WFMin, Zenon
<1> QED
  BY <1>1 DEF OpToRel

\* The names that a deletion on its own takes away leave a name of the stem below them.
LEMMA SomethingIsLeft ==
  ASSUME BackupInv, B!RunSegment, last.alone, NEW n \in last'.deleted
  PROVE  \E k \in 0..(n.level - 1) : tree'[B!At(n, k)] # B!Absent /\ B!Type(tree'[B!At(n, k)].kind) = B!Type(tree[n].kind)
<1> DEFINE o == Head(queue)
<1>1. o \in B!Operations /\ Spared(o) /\ tree' = B!Effect(tree, o) /\ n \in B!Deleted(o) /\ tree \in Disks
  <2>1. queue # <<>> /\ queue \in Seq(B!Operations) /\ tree \in Disks
    BY DEF B!RunSegment, BackupInv, BackupTypes
  <2>2. o = queue[1] /\ o \in B!Operations
    BY <2>1
  <2>3. Spared(queue[1])
    BY <2>1 DEF BackupInv
  <2> QED
    BY <2>1, <2>2, <2>3 DEF B!RunSegment
<1> HIDE DEF o
<1>2. o.op = "rm" /\ n \in B!ToSet(o.targets)
  BY <1>1 DEF B!Deleted
<1>3. o.targets \in Seq(B!FileNames)
  BY <1>1, <1>2, OperationType
<1>4. n \in B!FileNames /\ tree[n] # B!Absent
  BY <1>1, <1>2 DEF Spared, B!Exists
<1>5. \A m \in B!FileNames : m \notin B!ToSet(o.targets) => tree'[m] = tree[m]
  <2>1. tree' = [m \in B!FileNames |-> IF B!Contains(o.targets, m) THEN B!Absent ELSE tree[m]]
    BY <1>1, <1>2 DEF B!Effect
  <2>2. \A m : B!Contains(o.targets, m) => m \in B!ToSet(o.targets)
    BY <1>3 DEF B!Contains, B!ToSet
  <2> QED
    BY <2>1, <2>2
<1> DEFINE S == {k \in 0..n.level : tree[B!At(n, k)] # B!Absent /\ B!Type(tree[B!At(n, k)].kind) = B!Type(tree[n].kind)}
<1>6. n.level \in Nat /\ n.level \in S
  BY <1>4, OriginalType, BackupConstants
<1>7. PICK m \in S : \A k \in S : ~(k < m)
  <2>1. S \subseteq Nat /\ S # {}
    BY <1>6
  <2> HIDE DEF S
  <2> QED
    BY <2>1, LeastOf
<1>8. m \in 0..n.level /\ tree[B!At(n, m)] # B!Absent /\ B!Type(tree[B!At(n, m)].kind) = B!Type(tree[n].kind) /\ B!At(n, m) \in B!FileNames
  BY <1>4, <1>7, OriginalType
<1>9. B!At(n, m) \notin B!ToSet(o.targets)
  <2> SUFFICES ASSUME B!At(n, m) \in B!ToSet(o.targets) PROVE FALSE
    OBVIOUS
  <2> DEFINE p == B!At(n, m)
  <2>1. B!IsBackup(p) /\ tree[B!Original(p)] # B!Absent /\ B!Type(tree[p].kind) = B!Type(tree[B!Original(p)].kind)
    BY <1>1, <1>2 DEF Spared, B!Exists
  <2>2. B!Original(p) = B!At(n, m - 1) /\ m > 0
    BY <1>4, <1>8, <2>1, OriginalType
  <2>3. m - 1 \in S
    BY <1>6, <1>8, <2>1, <2>2
  <2> QED
    BY <1>6, <1>7, <1>8, <2>3
<1>10. m # n.level
  BY <1>2, <1>4, <1>9, OriginalType
<1>11. m \in 0..(n.level - 1)
  BY <1>6, <1>8, <1>10
<1> QED
  BY <1>5, <1>8, <1>9, <1>11

\* A command that only deletes, whatever it lists, leaves under every name it takes away a
\* file of the same kind and stem: the original of the lowest backup of the list
\* (inspectBackupDeletionTarget, classifier.ts:1703-1762, 1855-1885).
THEOREM DeletionLeavesOriginal == UnionSpec => DeletionLeavesTheFile
<1>1. ASSUME Backups, UnionNext, part = "backups" PROVE B!DeletionLeaves
  <2>1. BackupInv /\ B!Next
    BY <1>1 DEF Backups, UnionNext
  <2>2. CASE B!Wait \/ \E command \in B!SeqOf(B!Operations, MaxSegments) \ {<<>>} : B!Issue(command)
    <3>1. last'.deleted = {}
      <4>1. CASE B!Wait
        BY <2>1, <4>1 DEF B!Wait, BackupInv, BackupTypes, LastTypes
      <4>2. ASSUME NEW command, B!Issue(command) PROVE last'.deleted = {}
        BY <4>2 DEF B!Issue, B!Idle
      <4> QED
        BY <2>2, <4>1, <4>2
    <3> QED
      BY <3>1 DEF B!DeletionLeaves
  <2>3. CASE B!RunSegment
    <3>1. last'.alone = last.alone
      BY <2>1, <2>3 DEF B!RunSegment, BackupInv, BackupTypes, LastTypes
    <3> QED
      BY <2>1, <2>3, <3>1, SomethingIsLeft DEF B!DeletionLeaves
  <2> QED
    BY <2>1, <2>2, <2>3 DEF B!Next
<1>2. Backups /\ [UnionNext]_<<part, vars, walk, phase, base, backups, strictness, temp>>
        => [part = "backups" => B!DeletionLeaves]_<<tree, last, queue, commands>>
  BY <1>1 DEF backups
<1> QED
  BY <1>2, BackupsAlways, PTL DEF UnionSpec, DeletionLeavesTheFile

-----------------------------------------------------------------------------
(* The temp policies *)

LEMMA AllNumbers ==
  ASSUME NEW S, 0 \in S, \A k \in Nat : k \in S => k + 1 \in S
  PROVE  Nat \subseteq S
<1> SUFFICES ASSUME Nat \ S # {} PROVE FALSE
  OBVIOUS
<1>1. PICK m \in Nat \ S : \A k \in Nat \ S : ~(k < m)
  BY LeastOf
<1>2. m # 0 /\ m - 1 \in Nat /\ m - 1 < m
  BY <1>1
<1>3. m - 1 \in S
  BY <1>1, <1>2
<1>4. m - 1 + 1 = m
  BY <1>1
<1> QED
  BY <1>1, <1>2, <1>3, <1>4

LEMMA TempConstants == Length \in Nat /\ Depth \in Nat /\ Depth > 0 /\ MaxLinks \in Nat
  BY PartAssumption DEF T!TempAssumption

Paths == Seq(T!Components)

\* What is at the places of the disk.
DiskTypes ==
  /\ DOMAIN entry = T!Places
  /\ \A p \in T!Places : entry[p] \in {T!Absent, T!Present} \cup T!Leads

Walks == [place : Paths, rest : Paths, links : Nat]

LEMMA LexicalIsPath ==
  ASSUME NEW n \in Nat
  PROVE  T!Lexical(n) \subseteq Paths
<1> SUFFICES ASSUME NEW p \in T!Lexical(n) PROVE p \in Paths
  OBVIOUS
<1>1. PICK m \in 0..n : p \in [1..m -> T!Components]
  BY DEF T!Lexical, T!SeqOf
<1>2. m \in Nat
  BY <1>1
<1> QED
  BY <1>1, <1>2 DEF Paths

LEMMA LeadsArePaths == T!Leads \subseteq Paths
<1>1. Depth - 1 \in Nat
  BY TempConstants
<1> QED
  BY <1>1, LexicalIsPath DEF T!Leads

LEMMA PlacesArePaths == T!Places \subseteq Paths
  BY LexicalIsPath, TempConstants DEF T!Places

LEMMA NowhereIsNoPath == T!Nowhere \notin Paths
  BY DEF T!Nowhere, Paths, T!Components

\* The steps of the resolution of a path.
Begun(path) == [place |-> <<>>, rest |-> path, links |-> MaxLinks]
Stages(path, n, f) == f = [k \in 0..n |-> IF k = 0 THEN Begun(path) ELSE T!Follow(f[k - 1])]

LEMMA StagesExist ==
  ASSUME NEW path
  PROVE  \A n \in Nat : \E f : Stages(path, n, f)
<1> DEFINE S == {n \in Nat : \E f : Stages(path, n, f)}
<1>1. 0 \in S
  <2> DEFINE f == [k \in 0..0 |-> Begun(path)]
  <2>1. f = [k \in 0..0 |-> IF k = 0 THEN Begun(path) ELSE T!Follow(f[k - 1])]
    OBVIOUS
  <2> QED
    BY <2>1 DEF Stages
<1>2. ASSUME NEW n \in Nat, n \in S PROVE n + 1 \in S
  <2>1. PICK f : Stages(path, n, f)
    BY <1>2
  <2> DEFINE g == [k \in 0..(n + 1) |-> IF k = n + 1 THEN T!Follow(f[n]) ELSE f[k]]
  <2>2. \A k \in 0..n : f[k] = IF k = 0 THEN Begun(path) ELSE T!Follow(f[k - 1])
    BY <2>1 DEF Stages
  <2>3. \A k \in 0..(n + 1) : g[k] = IF k = 0 THEN Begun(path) ELSE T!Follow(g[k - 1])
    <3> SUFFICES ASSUME NEW k \in 0..(n + 1) PROVE g[k] = IF k = 0 THEN Begun(path) ELSE T!Follow(g[k - 1])
      OBVIOUS
    <3>1. CASE k = n + 1
      BY <3>1
    <3>2. CASE k \in 0..n
      <4>1. g[k] = f[k] /\ (k # 0 => g[k - 1] = f[k - 1])
        BY <3>2
      <4> QED
        BY <2>2, <3>2, <4>1
    <3> QED
      BY <3>1, <3>2
  <2>4. Stages(path, n + 1, g)
    BY <2>3 DEF Stages
  <2> QED
    BY <2>4
<1> HIDE DEF S
<1>3. Nat \subseteq S
  BY <1>1, <1>2, AllNumbers
<1> QED
  BY <1>3 DEF S

\* f leads to where the path is resolved.
Resolution(path, f) ==
  /\ f[0] = Begun(path) /\ \A k \in 1..T!Steps(path) : f[k] = T!Follow(f[k - 1])
  /\ T!Walked(path) = f[T!Steps(path)]

LEMMA StepsAreNumbers ==
  ASSUME NEW path \in Paths
  PROVE  T!Steps(path) \in Nat
<1>1. Len(path) \in Nat /\ Depth - 1 \in Nat /\ MaxLinks \in Nat
  BY TempConstants DEF Paths
<1>2. MaxLinks * (Depth - 1) \in Nat
  BY <1>1
<1> QED
  BY <1>1, <1>2 DEF T!Steps

LEMMA ResolutionExists ==
  ASSUME NEW path \in Paths
  PROVE  \E f : Resolution(path, f)
<1> DEFINE N == T!Steps(path)
           after == CHOOSE f : f = [k \in 0..N |-> IF k = 0 THEN Begun(path) ELSE T!Follow(f[k - 1])]
<1>1. N \in Nat
  BY StepsAreNumbers
<1>2. T!Walked(path) = after[N]
  BY DEF T!Walked, Begun
<1> HIDE DEF N
<1>3. \E f : f = [k \in 0..N |-> IF k = 0 THEN Begun(path) ELSE T!Follow(f[k - 1])]
  BY <1>1, StagesExist DEF Stages
<1>4. after = [k \in 0..N |-> IF k = 0 THEN Begun(path) ELSE T!Follow(after[k - 1])]
  BY <1>3
<1> HIDE DEF after
<1>5. after[0] = Begun(path) /\ \A k \in 1..N : after[k] = T!Follow(after[k - 1])
  BY <1>1, <1>4
<1> QED
  BY <1>2, <1>5 DEF Resolution, N

LEMMA FollowType ==
  ASSUME DiskTypes, NEW w \in Walks
  PROVE  T!Follow(w) \in Walks
<1> DEFINE next == Append(w.place, Head(w.rest))
           stuck == next \notin DOMAIN entry \/ entry[next] = T!Absent
<1>1. CASE w.rest = <<>> \/ stuck
  BY <1>1 DEF T!Follow
<1>2. CASE w.rest # <<>> /\ ~stuck
  <2>1. next \in Paths /\ Tail(w.rest) \in Paths
    BY <1>2 DEF Walks, Paths
  <2>2. CASE ~T!IsLink(next)
    BY <1>2, <2>1, <2>2 DEF T!Follow, Walks
  <2>3. CASE T!IsLink(next) /\ w.links = 0
    BY <1>2, <2>3 DEF T!Follow
  <2>4. CASE T!IsLink(next) /\ w.links # 0
    <3>1. entry[next] \in Paths
      BY <2>4, LeadsArePaths DEF T!IsLink
    <3>2. entry[next] \o Tail(w.rest) \in Paths /\ <<>> \in Paths
      BY <2>1, <3>1 DEF Paths
    <3>3. T!Follow(w) = [place |-> <<>>, rest |-> entry[next] \o Tail(w.rest), links |-> w.links - 1]
      BY <1>2, <2>4 DEF T!Follow
    <3> QED
      BY <2>4, <3>2, <3>3 DEF Walks
  <2> QED
    BY <2>2, <2>3, <2>4
<1> QED
  BY <1>1, <1>2

\* The walk of a path that goes on with the name x.
Further(w, x) == [place |-> w.place, rest |-> Append(w.rest, x), links |-> w.links]

LEMMA FurtherFollows ==
  ASSUME DiskTypes, NEW w \in Walks, NEW x \in T!Components, w.rest # <<>>
  PROVE  T!Follow(Further(w, x)) = Further(T!Follow(w), x)
<1> DEFINE next == Append(w.place, Head(w.rest))
           stuck == next \notin DOMAIN entry \/ entry[next] = T!Absent
           more == Append(w.rest, x)
<1>1. /\ more # <<>> /\ Head(more) = Head(w.rest) /\ Tail(more) = Append(Tail(w.rest), x)
      /\ Tail(w.rest) \in Paths
  BY DEF Walks, Paths
<1>2. Further(w, x).place = w.place /\ Further(w, x).rest = more /\ Further(w, x).links = w.links
  BY DEF Further
<1>3. CASE stuck
  BY <1>1, <1>2, <1>3 DEF T!Follow
<1>4. CASE ~stuck /\ ~T!IsLink(next)
  <2>1. T!Follow(w) = [place |-> next, rest |-> Tail(w.rest), links |-> w.links]
    BY <1>4 DEF T!Follow, Walks
  <2>2. T!Follow(Further(w, x)) = [place |-> next, rest |-> Tail(more), links |-> w.links]
    BY <1>1, <1>4 DEF T!Follow, Further
  <2>3. Further(T!Follow(w), x) = [place |-> next, rest |-> Append(Tail(w.rest), x), links |-> w.links]
    <3> HIDE DEF next
    <3> QED
      BY <2>1 DEF Further
  <2> QED
    BY <1>1, <2>2, <2>3
<1>5. CASE ~stuck /\ T!IsLink(next) /\ w.links = 0
  BY <1>1, <1>2, <1>5 DEF T!Follow
<1>6. CASE ~stuck /\ T!IsLink(next) /\ w.links # 0
  <2>1. entry[next] \in Paths
    BY <1>6, LeadsArePaths DEF T!IsLink
  <2>2. T!Follow(w) = [place |-> <<>>, rest |-> entry[next] \o Tail(w.rest), links |-> w.links - 1]
    BY <1>6 DEF T!Follow
  <2>3. T!Follow(Further(w, x)) = [place |-> <<>>, rest |-> entry[next] \o Tail(more), links |-> w.links - 1]
    BY <1>1, <1>2, <1>6 DEF T!Follow
  <2>4. entry[next] \o Append(Tail(w.rest), x) = Append(entry[next] \o Tail(w.rest), x)
    <3> DEFINE a == entry[next]
               b == Tail(w.rest)
    <3>1. a \in Seq(T!Components) /\ b \in Seq(T!Components)
      BY <1>1, <2>1 DEF Paths
    <3> HIDE DEF a, b
    <3>2. a \o Append(b, x) = Append(a \o b, x)
      BY <3>1
    <3> QED
      BY <3>2 DEF a, b
  <2>5. Further(T!Follow(w), x) = [place |-> <<>>, rest |-> Append(entry[next] \o Tail(w.rest), x), links |-> w.links - 1]
    <3> HIDE DEF next
    <3> QED
      BY <2>2 DEF Further
  <2> QED
    BY <1>1, <2>3, <2>4, <2>5
<1> QED
  BY <1>3, <1>4, <1>5, <1>6

\* Once the directory is reached, the name in it is the last step.
Arrived(w, x) == [place |-> Append(w.place, x), rest |-> <<>>, links |-> w.links]
IsThere(place) == place \in DOMAIN entry /\ entry[place] # T!Absent

\* A walk that goes on.
LEMMA GoneOn ==
  ASSUME NEW a, NEW b, NEW l, NEW next, NEW t
  PROVE  \A w : w = [place |-> a, rest |-> b, links |-> l]
           => [w EXCEPT !.place = next, !.rest = t] = [place |-> next, rest |-> t, links |-> l]
<1> SUFFICES ASSUME NEW w, w = [place |-> a, rest |-> b, links |-> l]
             PROVE  [w EXCEPT !.place = next, !.rest = t] = [place |-> next, rest |-> t, links |-> l]
  OBVIOUS
<1> DEFINE v == [w EXCEPT !.place = next]
<1>1. v = [place |-> next, rest |-> b, links |-> l]
  OBVIOUS
<1>2. [v EXCEPT !.rest = t] = [place |-> next, rest |-> t, links |-> l]
  <2> HIDE DEF v
  <2> QED
    BY <1>1
<1> QED
  BY <1>2

LEMMA FurtherEnds ==
  ASSUME NEW w \in Walks, NEW x \in T!Components, w.rest = <<>>, ~IsThere(Append(w.place, x)) \/ ~T!IsLink(Append(w.place, x))
  PROVE  T!Follow(Further(w, x)) = IF IsThere(Append(w.place, x)) THEN Arrived(w, x) ELSE Further(w, x)
<1>1. Append(w.rest, x) = <<x>> /\ <<x>> # <<>> /\ Head(<<x>>) = x /\ Tail(<<x>>) = <<>>
  OBVIOUS
<1>2. Further(w, x) = [place |-> w.place, rest |-> <<x>>, links |-> w.links]
  BY <1>1 DEF Further
<1> DEFINE next == Append(w.place, x)
<1>3. CASE IsThere(next)
  <2>1. ~T!IsLink(next)
    BY <1>3
  <2>2. T!Follow(Further(w, x)) = [Further(w, x) EXCEPT !.place = next, !.rest = Tail(@)]
    BY <1>1, <1>2, <1>3, <2>1 DEF T!Follow, IsThere
  <2>3. T!Follow(Further(w, x)) = [place |-> next, rest |-> <<>>, links |-> w.links]
    <3>1. Tail(Further(w, x).rest) = <<>>
      BY <1>1, <1>2
    <3>2. Further(w, x).place = w.place /\ Further(w, x).links = w.links
      BY <1>2
    <3> HIDE DEF next
    <3> QED
      BY <1>2, <2>2, <3>1, <3>2, GoneOn, Zenon
  <2> QED
    BY <1>3, <2>3 DEF Arrived
<1>4. CASE ~IsThere(next)
  BY <1>1, <1>2, <1>4 DEF T!Follow, IsThere
<1> QED
  BY <1>3, <1>4

\* The walks of q and of q with one name more, side by side.
Beside(v, w, x) ==
  \/ w = Further(v, x)
  \/ v.rest = <<>> /\ IsThere(Append(v.place, x)) /\ w = Arrived(v, x)

LEMMA FollowBeside ==
  ASSUME DiskTypes, NEW v \in Walks, NEW w, NEW x \in T!Components, Beside(v, w, x),
         v.rest = <<>> /\ IsThere(Append(v.place, x)) => ~T!IsLink(Append(v.place, x))
  PROVE  /\ Beside(T!Follow(v), T!Follow(w), x)
         /\ v.rest = <<>> => T!Follow(v) = v /\ (IsThere(Append(v.place, x)) => T!Follow(w) = Arrived(v, x))
<1>1. CASE v.rest # <<>>
  BY <1>1, FurtherFollows DEF Beside
<1>2. CASE v.rest = <<>>
  <2>1. T!Follow(v) = v
    BY <1>2 DEF T!Follow
  <2>2. CASE w = Further(v, x)
    BY <1>2, <2>1, <2>2, FurtherEnds DEF Beside
  <2>3. CASE IsThere(Append(v.place, x)) /\ w = Arrived(v, x)
    <3>1. T!Follow(w) = w
      BY <2>3 DEF T!Follow, Arrived
    <3> QED
      BY <1>2, <2>1, <2>3, <3>1 DEF Beside
  <2> QED
    BY <1>2, <2>2, <2>3 DEF Beside
<1> QED
  BY <1>1, <1>2

LEMMA StagesAreWalks ==
  ASSUME DiskTypes, NEW path \in Paths, NEW f, Resolution(path, f)
  PROVE  \A k \in 0..T!Steps(path) : f[k] \in Walks
<1> DEFINE N == T!Steps(path)
           S == {k \in Nat : k <= N => f[k] \in Walks}
<1>1. N \in Nat
  BY StepsAreNumbers
<1>2. f[0] = Begun(path) /\ \A k \in 1..N : f[k] = T!Follow(f[k - 1])
  BY DEF Resolution
<1>3. Begun(path) \in Walks
  BY TempConstants DEF Begun, Walks, Paths
<1> HIDE DEF N
<1>4. 0 \in S
  BY <1>2, <1>3
<1>5. ASSUME NEW k \in Nat, k \in S PROVE k + 1 \in S
  <2> SUFFICES ASSUME k + 1 <= N PROVE f[k + 1] \in Walks
    OBVIOUS
  <2>1. k <= N /\ k + 1 \in 1..N /\ k + 1 - 1 = k
    BY <1>1
  <2>2. f[k] \in Walks /\ f[k + 1] = T!Follow(f[k])
    BY <1>2, <1>5, <2>1
  <2> QED
    BY <2>2, FollowType
<1> HIDE DEF S
<1>6. Nat \subseteq S
  BY <1>4, <1>5, AllNumbers
<1> QED
  BY <1>1, <1>6 DEF S, N

\* A path that is resolved stays so.
LEMMA ResolvedStays ==
  ASSUME NEW path \in Paths, NEW f, Resolution(path, f), NEW k \in 0..T!Steps(path), f[k].rest = <<>>
  PROVE  f[T!Steps(path)] = f[k]
<1> DEFINE N == T!Steps(path)
           S == {j \in Nat : k + j <= N => f[k + j] = f[k]}
<1>1. N \in Nat /\ k \in 0..N
  BY StepsAreNumbers
<1>2. \A m \in 1..N : f[m] = T!Follow(f[m - 1])
  BY DEF Resolution
<1>3. T!Follow(f[k]) = f[k]
  BY DEF T!Follow
<1> HIDE DEF N
<1>4. 0 \in S
  BY <1>1
<1>5. ASSUME NEW j \in Nat, j \in S PROVE j + 1 \in S
  <2> SUFFICES ASSUME k + (j + 1) <= N PROVE f[k + (j + 1)] = f[k]
    OBVIOUS
  <2>1. k + j <= N /\ k + (j + 1) \in 1..N /\ k + (j + 1) - 1 = k + j
    BY <1>1
  <2> QED
    BY <1>2, <1>3, <1>5, <2>1
<1> HIDE DEF S
<1>6. Nat \subseteq S
  BY <1>4, <1>5, AllNumbers
<1>7. N - k \in S /\ k + (N - k) = N
  BY <1>1, <1>6
<1>8. f[N] = f[k]
  BY <1>1, <1>7 DEF S
<1> QED
  BY <1>8 DEF N

\* What the name x in a directory that q leads to is resolved to, when it is no link.
LEMMA FurtherResolved ==
  ASSUME DiskTypes, NEW q \in Paths, NEW x \in T!Components,
         T!RealPath(q) # T!Nowhere,
         IsThere(Append(T!RealPath(q), x)) => ~T!IsLink(Append(T!RealPath(q), x))
  PROVE  /\ T!RealPath(q) \in Paths
         /\ T!RealPath(Append(q, x)) =
              IF IsThere(Append(T!RealPath(q), x)) THEN Append(T!RealPath(q), x) ELSE T!Nowhere
<1> DEFINE p == Append(q, x)
           N == T!Steps(q)
           parent == T!RealPath(q)
<1>1. p \in Paths /\ Len(p) = Len(q) + 1 /\ Len(q) \in Nat
  BY DEF Paths
<1>2. N \in Nat /\ T!Steps(p) \in Nat /\ T!Steps(p) = N + 1
  <2>1. N \in Nat /\ T!Steps(p) \in Nat
    BY <1>1, StepsAreNumbers
  <2>2. MaxLinks * (Depth - 1) \in Nat
    BY TempConstants
  <2> DEFINE more == MaxLinks * (Depth - 1)
  <2>3. N = Len(q) + more /\ T!Steps(p) = Len(p) + more
    BY DEF T!Steps
  <2> HIDE DEF more, p, N
  <2> QED
    BY <1>1, <2>1, <2>2, <2>3 DEF more
<1>3. PICK f : Resolution(q, f)
  BY ResolutionExists
<1>4. PICK g : Resolution(p, g)
  BY <1>1, ResolutionExists
<1>5. \A k \in 0..N : f[k] \in Walks
  BY <1>3, StagesAreWalks
<1>6. f[N] \in Walks /\ f[N].rest = <<>> /\ parent = f[N].place /\ parent \in Paths
  <2>1. T!Walked(q) = f[N]
    BY <1>3 DEF Resolution
  <2>2. f[N].rest = <<>> /\ parent = f[N].place
    BY <2>1 DEF T!RealPath
  <2> QED
    BY <1>2, <1>5, <2>2 DEF Walks
<1>7. \A k \in 0..N : f[k].rest = <<>> => f[k] = f[N]
  BY <1>3, ResolvedStays
<1>8. \A k \in 0..N : f[k].rest = <<>> /\ IsThere(Append(f[k].place, x)) => ~T!IsLink(Append(f[k].place, x))
  BY <1>6, <1>7
<1> DEFINE S == {k \in Nat : k <= N => Beside(f[k], g[k], x)}
<1>9. 0 \in S
  BY <1>3, <1>4 DEF Resolution, Begun, Beside, Further
<1>10. /\ \A k \in 1..N : f[k] = T!Follow(f[k - 1])
       /\ \A k \in 1..(N + 1) : g[k] = T!Follow(g[k - 1])
  BY <1>2, <1>3, <1>4 DEF Resolution
<1>11. T!Walked(p) = g[N + 1]
  BY <1>2, <1>4 DEF Resolution
<1> HIDE DEF p, N, parent
<1>12. ASSUME NEW k \in Nat, k \in S PROVE k + 1 \in S
  <2> SUFFICES ASSUME k + 1 <= N PROVE Beside(f[k + 1], g[k + 1], x)
    OBVIOUS
  <2>1. k \in 0..N /\ k + 1 \in 1..N /\ k + 1 \in 1..(N + 1) /\ k + 1 - 1 = k
    BY <1>2
  <2>2. f[k + 1] = T!Follow(f[k]) /\ g[k + 1] = T!Follow(g[k])
    BY <1>10, <2>1
  <2>3. Beside(f[k], g[k], x) /\ f[k] \in Walks
    BY <1>5, <1>12, <2>1
  <2> QED
    BY <1>8, <2>1, <2>2, <2>3, FollowBeside
<1> HIDE DEF S
<1>13. Nat \subseteq S
  BY <1>9, <1>12, AllNumbers
<1>14. Beside(f[N], g[N], x)
  BY <1>2, <1>13 DEF S
<1>15. g[N + 1] = T!Follow(g[N])
  <2>1. \A k \in Nat : k = N + 1 => k \in 1..(N + 1) /\ k - 1 = N
    BY <1>2
  <2>2. \A k \in Nat : k = N + 1 => g[k] = T!Follow(g[N])
    BY <1>10, <2>1
  <2> QED
    BY <1>2, <2>2
<1>16. CASE IsThere(Append(parent, x))
  <2>1. g[N + 1] = Arrived(f[N], x)
    <3>1. N \in 0..N
      BY <1>2
    <3> QED
      BY <1>6, <1>8, <1>14, <1>15, <1>16, <3>1, FollowBeside
  <2>2. T!RealPath(p) = Append(parent, x)
    BY <1>6, <1>11, <2>1 DEF T!RealPath, Arrived
  <2> QED
    BY <1>6, <1>16, <2>2 DEF p, parent
<1>17. CASE ~IsThere(Append(parent, x))
  <2>1. g[N] = Further(f[N], x)
    BY <1>6, <1>14, <1>17 DEF Beside
  <2>2. g[N + 1] = Further(f[N], x)
    BY <1>6, <1>15, <1>17, <2>1, FurtherEnds
  <2>3. Further(f[N], x).rest # <<>>
    BY <1>6 DEF Further
  <2>4. T!RealPath(p) = T!Nowhere
    BY <1>11, <2>2, <2>3 DEF T!RealPath
  <2> QED
    BY <1>6, <1>17, <2>4 DEF p, parent
<1> QED
  BY <1>16, <1>17

LEMMA ExistingIs ==
  ASSUME NEW path \in Paths, NEW m \in 0..Len(path), T!RealPath(SubSeq(path, 1, m)) # T!Nowhere,
         \A k \in (m + 1)..Len(path) : T!RealPath(SubSeq(path, 1, k)) = T!Nowhere
  PROVE  T!Existing(path) = m
<1> DEFINE S == {k \in 0..Len(path) : T!RealPath(SubSeq(path, 1, k)) # T!Nowhere}
<1>1. Len(path) \in Nat
  BY DEF Paths
<1>2. m \in S /\ S \subseteq Nat /\ \A k \in S : k <= m
  <2>1. ASSUME NEW k \in S PROVE k <= m
    BY <1>1
  <2> QED
    BY <1>1, <2>1
<1>3. T!Existing(path) = T!Max(S)
  BY DEF T!Existing
<1> HIDE DEF S
<1>4. \E k \in S : \A j \in S : k >= j
  BY <1>2
<1>5. T!Max(S) \in S /\ \A j \in S : T!Max(S) >= j
  BY <1>4 DEF T!Max
<1> DEFINE most == T!Max(S)
<1>6. most \in Nat /\ most <= m /\ most >= m /\ m \in Nat
  BY <1>1, <1>2, <1>5
<1>7. most = m
  <2> HIDE DEF most
  <2> QED
    BY <1>6
<1> QED
  BY <1>3, <1>7

\* A path and its parts.
LEMMA PathParts ==
  ASSUME NEW path \in Paths, path # <<>>
  PROVE  /\ Len(path) \in Nat /\ Len(path) > 0
         /\ T!Front(path) \in Paths /\ T!Last(path) \in T!Components
         /\ path = Append(T!Front(path), T!Last(path))
         /\ T!Front(path) = SubSeq(path, 1, Len(path) - 1)
         /\ SubSeq(path, 1, Len(path)) = path /\ SubSeq(path, Len(path) + 1, Len(path)) = <<>>
         /\ SubSeq(path, Len(path), Len(path)) = <<T!Last(path)>>
<1> DEFINE C == T!Components
<1>1. path \in Seq(C) /\ Len(path) \in Nat /\ Len(path) > 0
  BY DEF Paths
<1>2. T!Front(path) = SubSeq(path, 1, Len(path) - 1) /\ T!Last(path) = path[Len(path)]
  BY DEF T!Front, T!Last
<1> HIDE DEF C
<1>3. SubSeq(path, 1, Len(path) - 1) \in Seq(C) /\ path[Len(path)] \in C
  BY <1>1
<1>4. path = Append(SubSeq(path, 1, Len(path) - 1), path[Len(path)])
  BY <1>1
<1>5. SubSeq(path, 1, Len(path)) = path /\ SubSeq(path, Len(path) + 1, Len(path)) = <<>>
  BY <1>1
<1>6. SubSeq(path, Len(path), Len(path)) = <<path[Len(path)]>>
  <2>1. Len(path) \in 1..Len(path) /\ Len(path) \in Len(path)..Len(path)
    BY <1>1
  <2>2. SubSeq(path, Len(path), Len(path)) = <<path[Len(path)]>> \o SubSeq(path, Len(path) + 1, Len(path))
    BY <1>1, <2>1, SubSeqRecursiveFirst
  <2>3. <<path[Len(path)]>> \o <<>> = <<path[Len(path)]>>
    OBVIOUS
  <2> QED
    BY <1>5, <2>2, <2>3
<1> QED
  BY <1>1, <1>2, <1>3, <1>4, <1>5, <1>6 DEF C, Paths

\* Where an operation takes a name that is no link, and what the policies resolve it to.
LEMMA ResolvedName ==
  ASSUME DiskTypes, NEW path \in Paths, path # <<>>,
         T!Removes(path) # T!Nowhere, ~T!IsLink(T!Removes(path))
  PROVE  LET name == T!Removes(path)  anchor == T!CanonicalExistingAnchor(path)
         IN  /\ T!CanonicalProjectedPath(path) = name
             /\ anchor = name \/ (anchor \in Paths /\ \E x \in T!Components : name = Append(anchor, x))
<1> DEFINE q == T!Front(path)
           x == T!Last(path)
           n == Len(path)
           parent == T!RealPath(q)
           name == Append(parent, x)
<1>1. /\ n \in Nat /\ n > 0 /\ q \in Paths /\ x \in T!Components /\ path = Append(q, x)
      /\ q = SubSeq(path, 1, n - 1) /\ SubSeq(path, 1, n) = path /\ SubSeq(path, n + 1, n) = <<>>
      /\ SubSeq(path, n, n) = <<x>>
  BY PathParts
<1>2. parent # T!Nowhere /\ name \in DOMAIN entry /\ T!Removes(path) = name
  BY DEF T!Removes
<1>3. ~T!IsLink(name)
  BY <1>2
<1>4. parent \in Paths /\ T!RealPath(path) = IF IsThere(name) THEN name ELSE T!Nowhere
  <2> HIDE DEF q, x
  <2> QED
    BY <1>1, <1>2, <1>3, FurtherResolved
<1>5. name \in Paths
  BY <1>1, <1>4 DEF Paths
<1>6. CASE IsThere(name)
  <2>1. T!RealPath(SubSeq(path, 1, n)) = name /\ name # T!Nowhere
    BY <1>1, <1>4, <1>5, <1>6, NowhereIsNoPath
  <2>2. T!Existing(path) = n
    <3> HIDE DEF name
    <3> QED
      BY <1>1, <2>1, ExistingIs
  <2>3. T!CanonicalProjectedPath(path) = name \o <<>> /\ T!CanonicalExistingAnchor(path) = name
    BY <1>1, <2>1, <2>2 DEF T!CanonicalProjectedPath, T!CanonicalExistingAnchor
  <2>4. name \o <<>> = name
    <3> HIDE DEF name
    <3> QED
      BY <1>5 DEF Paths
  <2> QED
    BY <1>2, <2>3, <2>4
<1>7. CASE ~IsThere(name)
  <2>1. T!RealPath(SubSeq(path, 1, n - 1)) = parent
    BY <1>1
  <2>2. \A k \in ((n - 1) + 1)..n : T!RealPath(SubSeq(path, 1, k)) = T!Nowhere
    <3> SUFFICES ASSUME NEW k \in ((n - 1) + 1)..n PROVE T!RealPath(SubSeq(path, 1, k)) = T!Nowhere
      OBVIOUS
    <3>1. k = n
      BY <1>1
    <3> QED
      BY <1>1, <1>4, <1>7, <3>1
  <2>3. T!Existing(path) = n - 1
    <3>1. n - 1 \in 0..n
      BY <1>1
    <3> HIDE DEF parent
    <3> QED
      BY <1>2, <2>1, <2>2, <3>1, ExistingIs
  <2>4. T!CanonicalProjectedPath(path) = parent \o SubSeq(path, (n - 1) + 1, n) /\ T!CanonicalExistingAnchor(path) = parent
    BY <2>1, <2>3 DEF T!CanonicalProjectedPath, T!CanonicalExistingAnchor
  <2>5. (n - 1) + 1 = n
    BY <1>1
  <2>6. parent \o <<x>> = Append(parent, x)
    <3> HIDE DEF parent, x
    <3> QED
      BY <1>1, <1>4 DEF Paths
  <2>7. T!CanonicalProjectedPath(path) = name
    BY <1>1, <2>4, <2>5, <2>6
  <2> QED
    BY <1>1, <1>2, <1>4, <2>4, <2>7
<1> QED
  BY <1>6, <1>7

LEMMA RealPathType ==
  ASSUME DiskTypes, NEW path \in Paths
  PROVE  T!RealPath(path) \in Paths \cup {T!Nowhere}
<1>1. PICK f : Resolution(path, f)
  BY ResolutionExists
<1>2. T!Steps(path) \in 0..T!Steps(path)
  BY StepsAreNumbers
<1>3. T!Walked(path) \in Walks
  BY <1>1, <1>2, StagesAreWalks DEF Resolution
<1> QED
  BY <1>3 DEF T!RealPath, Walks

\* The anchor of a path that exists is what it is resolved to.
LEMMA AnchorOfExisting ==
  ASSUME NEW path \in Paths, path # <<>>, T!RealPath(path) # T!Nowhere
  PROVE  T!CanonicalExistingAnchor(path) = T!RealPath(path)
<1> DEFINE n == Len(path)
<1>1. n \in 0..n /\ SubSeq(path, 1, n) = path /\ \A k \in (n + 1)..n : FALSE
  BY PathParts
<1>2. T!RealPath(SubSeq(path, 1, n)) # T!Nowhere
  BY <1>1
<1>3. T!Existing(path) = n
  BY <1>1, <1>2, ExistingIs
<1> QED
  BY <1>1, <1>3 DEF T!CanonicalExistingAnchor

LEMMA FurtherBelow ==
  ASSUME NEW r \in Paths, NEW a \in Paths, NEW x \in T!Components, T!IsPrefix(r, a)
  PROVE  T!IsPrefix(r, Append(a, x))
<1> DEFINE C == T!Components
           b == Append(a, x)
<1>1. r \in Seq(C) /\ a \in Seq(C) /\ x \in C
  BY DEF Paths
<1> HIDE DEF C
<1>2. Len(r) \in Nat /\ Len(a) \in Nat /\ Len(r) <= Len(a) /\ SubSeq(r, 1, Len(r)) = SubSeq(a, 1, Len(r))
  BY <1>1 DEF T!IsPrefix
<1>3. b \in Seq(C) /\ Len(b) = Len(a) + 1 /\ \A k \in 1..Len(a) : b[k] = a[k]
  BY <1>1
<1> HIDE DEF b
<1>4. SubSeq(b, 1, Len(r)) = SubSeq(a, 1, Len(r))
  BY <1>1, <1>2, <1>3
<1>5. Len(r) <= Len(b)
  BY <1>2, <1>3
<1> QED
  BY <1>2, <1>4, <1>5 DEF T!IsPrefix, b

TempTypes ==
  /\ DiskTypes
  /\ root \in Paths /\ base \in Paths
  /\ operation.op \in {"rm", "mv", "cp"}
  /\ \A i \in DOMAIN operation.targets : operation.targets[i] \in Paths \ {<<>>}

LEMMA PathOfTarget ==
  ASSUME TempTypes, NEW i \in DOMAIN T!Targets
  PROVE  base \o T!Targets[i] \in Paths \ {<<>>}
<1> DEFINE C == T!Components
           t == T!Targets[i]
<1>1. base \in Seq(C) /\ t \in Seq(C) /\ t # <<>>
  BY DEF TempTypes, Paths, T!Targets
<1> HIDE DEF C, t
<1>2. base \o t \in Seq(C) /\ Len(base \o t) = Len(base) + Len(t) /\ Len(t) > 0 /\ Len(base) \in Nat
  BY <1>1, ConcatProperties
<1>3. base \o t # <<>>
  <2>1. Len(base \o t) # 0
    BY <1>1, <1>2
  <2> QED
    BY <2>1
<1> QED
  BY <1>2, <1>3 DEF t, C, Paths

\* A name below Temp is written there, whatever the path to it leads through.
LEMMA TrustedStays ==
  ASSUME TempTypes, T!Plain, NEW i \in DOMAIN T!Targets, T!IsTrustedTempPath(T!Targets[i]),
         T!Touches(i) # T!Nowhere
  PROVE  T!IsPrefix(T!TrustedRoot, T!Touches(i))
<1> DEFINE path == base \o T!Targets[i]
           anchor == T!CanonicalExistingAnchor(path)
<1>1. path \in Paths /\ path # <<>>
  BY PathOfTarget
<1>2. T!TrustedRoot # T!Nowhere /\ T!IsPrefix(T!TrustedRoot, anchor)
  BY DEF T!IsTrustedTempPath
<1>3. T!TrustedRoot \in Paths
  BY <1>2, RealPathType DEF T!TrustedRoot, TempTypes
<1> DEFINE name == T!Removes(path)
<1>4. CASE name # T!Nowhere /\ T!Touches(i) = name
  <2>1. ~T!IsLink(name)
    BY <1>4 DEF T!Plain
  <2>2. anchor = name \/ (anchor \in Paths /\ \E x \in T!Components : name = Append(anchor, x))
    <3> HIDE DEF path
    <3> QED
      BY <1>1, <1>4, <2>1, ResolvedName DEF TempTypes
  <2> HIDE DEF anchor, name
  <2> QED
    BY <1>2, <1>3, <1>4, <2>2, FurtherBelow
<1>5. CASE T!Touches(i) = T!RealPath(path)
  <2>1. anchor = T!RealPath(path)
    <3> HIDE DEF path
    <3> QED
      BY <1>1, <1>5, AnchorOfExisting
  <2> QED
    BY <1>2, <1>5, <2>1
<1>6. T!Touches(i) = T!RealPath(path) \/ (name # T!Nowhere /\ T!Touches(i) = name)
  BY DEF T!Touches, T!Writes
<1> QED
  BY <1>4, <1>5, <1>6

LEMMA NamedStays ==
  ASSUME TempTypes, T!Plain, NEW i \in DOMAIN T!Targets, T!IsNamedTempTargetResolved(T!Targets[i]),
         operation.op = "rm", T!Touches(i) # T!Nowhere
  PROVE  T!HasNamedTempPathSegment(T!Touches(i))
<1> DEFINE path == base \o T!Targets[i]
           name == T!Removes(path)
<1>1. path \in Paths /\ path # <<>>
  BY PathOfTarget
<1>2. T!Touches(i) = name
  BY DEF T!Touches
<1>3. ~T!IsLink(name)
  BY <1>2 DEF T!Plain
<1>4. T!CanonicalProjectedPath(path) = name
  <2> HIDE DEF path
  <2> QED
    BY <1>1, <1>2, <1>3, ResolvedName DEF TempTypes
<1>5. T!HasNamedTempPathSegment(T!CanonicalProjectedPath(path))
  BY DEF T!IsNamedTempTargetResolved
<1> QED
  BY <1>2, <1>4, <1>5

LEMMA SameDisk ==
  ASSUME UNCHANGED entry, NEW p
  PROVE  T!RealPath(p)' = T!RealPath(p)
<1>1. \A w : T!Follow(w)' = T!Follow(w)
  BY DEF T!Follow, T!IsLink
<1> DEFINE N == T!Steps(p)
           Now(f) == [k \in 0..N |-> IF k = 0 THEN Begun(p) ELSE T!Follow(f[k - 1])]
           Later(f) == [k \in 0..N |-> IF k = 0 THEN Begun(p) ELSE T!Follow(f[k - 1])']
<1>2. T!Walked(p) = (CHOOSE f : f = Now(f))[N] /\ T!Walked(p)' = (CHOOSE f : f = Later(f))[N]
  BY DEF T!Walked, Begun, T!Steps
<1>3. \A f : Now(f) = Later(f)
  BY <1>1
<1> HIDE DEF Now, Later, N
<1>4. (CHOOSE f : f = Now(f)) = (CHOOSE f : f = Later(f))
  BY <1>3
<1>5. T!Walked(p)' = T!Walked(p)
  BY <1>2, <1>4
<1> QED
  BY <1>5 DEF T!RealPath

\* What speaks of the disk and the operation only.
LEMMA SameOperation ==
  ASSUME UNCHANGED <<entry, root, base, operation>>
  PROVE  /\ TempTypes' = TempTypes /\ T!Plain' = T!Plain /\ T!TrustedRoot' = T!TrustedRoot
         /\ T!NamedTempDeletion' = T!NamedTempDeletion /\ T!LocalTempOperation' = T!LocalTempOperation
         /\ T!Targets' = T!Targets /\ \A i : T!Touches(i)' = T!Touches(i)
<1>1. \A p : T!RealPath(p)' = T!RealPath(p)
  BY SameDisk
<1>2. T!Targets' = T!Targets /\ T!TrustedRoot' = T!TrustedRoot
  BY <1>1 DEF T!Targets, T!TrustedRoot
<1>3. \A p : T!Removes(p)' = T!Removes(p)
  BY <1>1 DEF T!Removes
<1>4. \A p : T!Writes(p)' = T!Writes(p)
  BY <1>1, <1>3 DEF T!Writes
<1>5. \A i : T!Touches(i)' = T!Touches(i)
  BY <1>2, <1>3, <1>4 DEF T!Touches
<1>6. T!Plain' = T!Plain
  BY <1>2, <1>3 DEF T!Plain, T!IsLink
<1>7. TempTypes' = TempTypes
  BY DEF TempTypes, DiskTypes
<1>8. \A p : T!Existing(p)' = T!Existing(p)
  BY <1>1 DEF T!Existing
<1>9. \A p : /\ T!CanonicalProjectedPath(p)' = T!CanonicalProjectedPath(p)
             /\ T!CanonicalExistingAnchor(p)' = T!CanonicalExistingAnchor(p)
  BY <1>1, <1>8 DEF T!CanonicalProjectedPath, T!CanonicalExistingAnchor
<1>10. \A t : T!IsNamedTempTargetResolved(t)' = T!IsNamedTempTargetResolved(t)
  BY <1>9 DEF T!IsNamedTempTargetResolved
<1>11. \A t : T!IsTrustedTempPath(t)' = T!IsTrustedTempPath(t)
  BY <1>2, <1>9 DEF T!IsTrustedTempPath
<1>12. T!NamedTempDeletion' = T!NamedTempDeletion /\ T!LocalTempOperation' = T!LocalTempOperation
  BY <1>2, <1>10, <1>11 DEF T!NamedTempDeletion, T!LocalTempOperation
<1> QED
  BY <1>2, <1>5, <1>6, <1>7, <1>12

TempInv ==
  /\ TempTypes
  /\ phase \in {"classify", "local", "run", "blocked", "done"}
  /\ phase \in {"run", "done"} => T!NamedTempDeletion \/ T!LocalTempOperation
  /\ phase = "done" =>
       gone = {T!Touches(i) : i \in {j \in DOMAIN T!Targets : operation.op = "cp" => j = 2}} \ {T!Nowhere}

Temp == part = "temp" => TempInv

LEMMA TempStart == T!Init => TempInv
<1> SUFFICES ASSUME T!Init PROVE TempInv
  OBVIOUS
<1>1. DiskTypes
  BY DEF T!Init, DiskTypes
<1>2. root \in Paths /\ base \in Paths
  <2>1. <<>> \in Paths /\ <<"tmp">> \in Paths /\ <<"d", "tmp">> \in Paths
    BY DEF Paths, T!Components
  <2>2. root \in {<<"tmp">>, <<"d", "tmp">>} /\ base \in {<<>>, <<"tmp">>}
    BY DEF T!Init, T!Bases
  <2> QED
    BY <2>1, <2>2
<1>3. \A t \in T!Lexical(Length) \ {<<>>} : t \in Paths \ {<<>>}
  BY TempConstants, LexicalIsPath
<1>4. operation.op \in {"rm", "mv", "cp"} /\ \A i \in DOMAIN operation.targets : operation.targets[i] \in Paths \ {<<>>}
  <2> DEFINE L == T!Lexical(Length) \ {<<>>}
  <2>1. operation \in [op : {"rm"}, targets : {<<t>> : t \in L}]
                        \cup [op : {"rm", "mv", "cp"}, targets : {<<t, u>> : t, u \in L}]
    BY DEF T!Init
  <2> HIDE DEF L
  <2>2. operation.op \in {"rm", "mv", "cp"}
    BY <2>1
  <2>3. (\E t \in L : operation.targets = <<t>>) \/ (\E t, u \in L : operation.targets = <<t, u>>)
    BY <2>1
  <2>4. ASSUME NEW t \in L, operation.targets = <<t>>
        PROVE  \A i \in DOMAIN operation.targets : operation.targets[i] \in L
    BY <2>4
  <2>5. ASSUME NEW t \in L, NEW u \in L, operation.targets = <<t, u>>
        PROVE  \A i \in DOMAIN operation.targets : operation.targets[i] \in L
    BY <2>5
  <2> QED
    BY <1>3, <2>2, <2>3, <2>4, <2>5 DEF L
<1> QED
  BY <1>1, <1>2, <1>4 DEF TempInv, TempTypes, T!Init

LEMMA TempStep ==
  ASSUME TempInv, T!Next \/ UNCHANGED <<phase, base, strictness, temp>>
  PROVE  TempInv'
<1>1. UNCHANGED <<entry, root, base, operation>>
  BY DEF T!Next, T!NamedTempPolicy, T!LocalTempPolicy, T!HardDeletionPolicy, T!Judge, T!Run, temp
<1>2. /\ TempTypes' /\ T!Targets' = T!Targets /\ \A i : T!Touches(i)' = T!Touches(i)
      /\ T!NamedTempDeletion' = T!NamedTempDeletion /\ T!LocalTempOperation' = T!LocalTempOperation
  BY <1>1, SameOperation DEF TempInv
<1>3. CASE T!NamedTempPolicy
  BY <1>2, <1>3 DEF TempInv, T!NamedTempPolicy, T!Judge
<1>4. CASE T!LocalTempPolicy
  BY <1>2, <1>4 DEF TempInv, T!LocalTempPolicy, T!Judge
<1>5. CASE T!HardDeletionPolicy
  BY <1>2, <1>5 DEF TempInv, T!HardDeletionPolicy, T!Judge
<1>6. CASE T!Run
  <2>1. gone' = {T!Touches(i)' : i \in {j \in DOMAIN T!Targets' : operation'.op = "cp" => j = 2}} \ {T!Nowhere}
    BY <1>1, <1>2, <1>6 DEF T!Run
  <2> QED
    BY <1>2, <1>6, <2>1 DEF TempInv, T!Run
<1>7. CASE UNCHANGED <<phase, base, strictness, temp>>
  <2>1. gone' = gone /\ phase' = phase /\ operation' = operation
    BY <1>7 DEF temp
  <2> QED
    BY <1>2, <2>1 DEF TempInv
<1> QED
  BY <1>3, <1>4, <1>5, <1>6, <1>7 DEF T!Next

LEMMA TempAlways == UnionSpec => []Temp
<1>1. UnionInit => Temp
  BY TempStart DEF UnionInit, TempInit, Temp
<1>2. Temp /\ [UnionNext]_<<part, vars, walk, phase, base, backups, strictness, temp>> => Temp'
  <2> SUFFICES ASSUME Temp, [UnionNext]_<<part, vars, walk, phase, base, backups, strictness, temp>>, part' = "temp"
               PROVE  TempInv'
    BY DEF Temp
  <2>1. part = "temp" /\ (T!Next \/ UNCHANGED <<phase, base, strictness, temp>>)
    BY DEF UnionNext
  <2> QED
    BY <2>1, TempStep DEF Temp
<1> QED
  BY <1>1, <1>2, PTL DEF UnionSpec

LEMMA InTemp ==
  ASSUME TempInv, phase = "done", T!Plain, NEW name \in gone
  PROVE  /\ T!HasNamedTempPathSegment(name) \/ T!IsPrefix(T!TrustedRoot, name)
         /\ operation.op \in {"mv", "cp"} => T!IsPrefix(T!TrustedRoot, name)
<1>1. PICK i \in DOMAIN T!Targets : (operation.op = "cp" => i = 2) /\ name = T!Touches(i) /\ name # T!Nowhere
  BY DEF TempInv
<1>2. CASE T!NamedTempDeletion
  <2>1. operation.op = "rm" /\ T!IsNamedTempTargetResolved(T!Targets[i])
    BY <1>2 DEF T!NamedTempDeletion
  <2>2. T!HasNamedTempPathSegment(name)
    BY <1>1, <2>1, NamedStays DEF TempInv
  <2> QED
    BY <2>1, <2>2
<1>3. CASE T!LocalTempOperation
  <2>1. T!IsTrustedTempPath(T!Targets[i])
    BY <1>1, <1>3 DEF T!LocalTempOperation
  <2> QED
    BY <1>1, <2>1, TrustedStays DEF TempInv
<1> QED
  BY <1>2, <1>3 DEF TempInv

\* On every disk, however deep and with whatever links, and for targets of every length:
\* an allowed deletion stays in a directory named temp or tmp or in the user's Temp
\* directory, an allowed move or copy in the latter (classifyNamedTempDeletionPolicy,
\* classifyUserLocalTempSegment, classifier.ts:222-247, 1376-1436).
THEOREM AllowedStaysInATemp == UnionSpec => []AllowedStaysInTemp
<1>1. Temp => AllowedStaysInTemp
  BY InTemp DEF Temp, AllowedStaysInTemp, T!StaysInTemp, T!TransfersStayInRoot
<1> QED
  BY <1>1, TempAlways, PTL
=============================================================================

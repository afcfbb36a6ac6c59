-------------------------- MODULE AuditorLoop_proofs --------------------------
(***************************************************************************)
(* What a review keeps for any files, any budgets and any model: the types *)
(* of AuditorLoop, its budgets, and the inspection that an ALLOW under     *)
(* HARD rests on.                                                          *)
(***************************************************************************)
EXTENDS AuditorLoop, TLAPS

\* A round is begun only by a reply to a request that offered tools.
Offered == phase = "waiting" /\ offered => rounds < MaxRounds

\* What no longer has to be inspected has been shown.
Owed == Scripts \cup Targets \subseteq required \cup whole
Settled == Strict /\ verdict = "ALLOW" => required = {}

Kept == TypeOK /\ BudgetsKept /\ Offered /\ Owed /\ Settled

USE ObjectsAssumption, BudgetsAssumption

\* What is shown of a file is within what is left of the budget.
LEMMA ShownFits ==
  ASSUME TypeOK, bytes <= MaxReadBudget, NEW path \in Files
  PROVE  /\ Shown(path) \in Nat /\ bytes + Shown(path) <= MaxReadBudget
         /\ ~Cut(path) => Shown(path) = size[path]
<1>1. size[path] \in Nat /\ bytes \in Nat
  BY DEF TypeOK, Objects
<1> QED
  BY <1>1 DEF Shown, Limit, Cut, Smaller

\* A shown object leaves what is owed and enters what was shown.
LEMMA OwedShrinks ==
  ASSUME TypeOK, Owed, Settled, NEW path, NEW shown \in BOOLEAN, NEW cut \in BOOLEAN,
         path \in Objects, ~cut => shown, UNCHANGED verdict,
         required' = IF cut THEN required ELSE required \ {path},
         whole' = IF shown THEN whole \cup {path} ELSE whole
  PROVE  /\ Owed' /\ Settled'
         /\ required' \subseteq Scripts \cup Targets /\ whole' \subseteq Objects
<1>1. CASE cut
  BY <1>1 DEF TypeOK, Owed, Settled, Objects
<1>2. CASE ~cut
  BY <1>2 DEF TypeOK, Owed, Settled, Objects
<1> QED
  BY <1>1, <1>2

LEMMA KeptInitially == Init => Kept
<1> SUFFICES ASSUME Init PROVE Kept
  OBVIOUS
<1>1. queue \in Seq(Calls)
  BY DEF Init
<1>2. /\ required \subseteq Scripts \cup Targets /\ whole \subseteq Objects
      /\ Owed /\ Settled
  BY DEF Init, Owed, Settled
<1>3. BudgetsKept /\ Offered
  BY DEF Init, BudgetsKept, Offered
<1>4. TypeOK
  <2>1. /\ phase \in {"start", "ask", "waiting", "tools", "done"}
        /\ rounds \in Nat /\ used \in Nat /\ bytes \in Nat
        /\ throttled \in 0..2 /\ failed \in 0..1
    BY DEF Init
  <2>0. offered \in BOOLEAN
    BY DEF Init
  <2>2. /\ exit \in {0} \cup 2..7 \cup {Running} /\ verdict \in {"none", "ALLOW", "DENY"}
        /\ size \in [Objects -> 0..MaxSize] /\ changes \in 0..Changes
    BY DEF Init
  <2> QED
    BY <1>1, <1>2, <2>0, <2>1, <2>2 DEF TypeOK
<1> QED
  BY <1>2, <1>3, <1>4 DEF Kept

LEMMA KeptByStart == Kept /\ Start => Kept'
BY DEF Kept, TypeOK, BudgetsKept, Offered, Owed, Settled, Start, Exit, budgets, disk,
       Running

LEMMA KeptByAsk == Kept /\ Ask => Kept'
BY DEF Kept, TypeOK, BudgetsKept, Offered, Owed, Settled, Ask, Offers, budgets, disk

LEMMA KeptByPost ==
  ASSUME Kept, Post
  PROVE  Kept'
<1> USE DEF Kept, TypeOK, BudgetsKept, Offered, Owed, Settled, budgets, disk
<1>1. CASE Throttle
  BY <1>1 DEF Throttle, MayRetry, Other
<1>2. CASE ServerFails
  BY <1>2 DEF ServerFails, MayRetry, Other
<1>3. CASE PostFails
  BY <1>3 DEF PostFails, Exit, Answered
<1>4. CASE Answer
  BY <1>4 DEF Answer, Exit, Answered, Inspected
<1>5. CASE CallTools
  <2>1. queue' \in Seq(Calls)
    BY <1>5 DEF CallTools
  <2> QED
    BY <1>5, <2>1 DEF CallTools, Exit, Answered
<1> QED
  BY <1>1, <1>2, <1>3, <1>4, <1>5 DEF Post

LEMMA KeptByTool ==
  ASSUME Kept, Tool
  PROVE  Kept'
<1> USE DEF budgets, disk
<1>0. TypeOK /\ BudgetsKept /\ Offered /\ Owed /\ Settled
  BY DEF Kept
<1>1. CASE RefuseCall
  BY <1>1 DEF RefuseCall, Kept, TypeOK, BudgetsKept, Offered, Owed, Settled
<1>2. CASE ToolFails
  BY <1>2 DEF ToolFails, Exhausted, Kept, TypeOK, BudgetsKept, Offered, Owed, Settled
<1>3. CASE ToolRaises
  BY <1>3 DEF ToolRaises, Exit, Kept, TypeOK, BudgetsKept, Offered, Owed, Settled
<1>4. CASE ReadFile
  <2> DEFINE path == Head(queue).path
  <2>1. path \in Files /\ path \in Objects
    BY <1>4 DEF ReadFile, Objects
  <2>2. /\ Shown(path) \in Nat /\ bytes + Shown(path) <= MaxReadBudget
        /\ ~Cut(path) => Shown(path) = size[path]
    BY <1>0, <2>1, ShownFits DEF BudgetsKept
  <2>3. /\ Owed' /\ Settled'
        /\ required' \subseteq Scripts \cup Targets /\ whole' \subseteq Objects
    <3> DEFINE cut == Cut(path)
               shown == Shown(path) = size[path]
    <3>1. cut \in BOOLEAN /\ shown \in BOOLEAN /\ (~cut => shown)
      BY <2>2 DEF Cut
    <3>2. /\ required' = IF cut THEN required ELSE required \ {path}
          /\ whole' = IF shown THEN whole \cup {path} ELSE whole
          /\ UNCHANGED verdict
      BY <1>4 DEF ReadFile
    <3> HIDE DEF cut, shown, path
    <3> QED
      BY <1>0, <2>1, <3>1, <3>2, OwedShrinks
  <2>4. used' = used + 1 /\ used' <= MaxToolCalls /\ bytes' = bytes + Shown(path)
    BY <1>0, <1>4 DEF ReadFile, Exhausted, TypeOK
  <2>5. /\ UNCHANGED <<phase, rounds, offered, throttled, failed, exit, verdict, size, changes>>
        /\ phase = "tools" /\ queue' = Tail(queue) /\ queue # <<>>
    BY <1>4 DEF ReadFile
  <2> HIDE DEF path
  <2>6. TypeOK'
    BY <1>0, <2>2, <2>3, <2>4, <2>5 DEF TypeOK
  <2>7. BudgetsKept' /\ Offered'
    BY <1>0, <2>2, <2>4, <2>5 DEF BudgetsKept, Offered
  <2> QED
    BY <2>3, <2>6, <2>7 DEF Kept
<1>5. CASE ListDirectory
  <2> DEFINE path == Head(queue).path
  <2>1. path \in Objects
    BY <1>5 DEF ListDirectory, Objects
  <2>2. /\ Owed' /\ Settled'
        /\ required' \subseteq Scripts \cup Targets /\ whole' \subseteq Objects
    <3> DEFINE cut == ListCut(path)
               shown == size[path] <= MaxListEntries
    <3>1. cut \in BOOLEAN /\ shown \in BOOLEAN /\ (~cut => shown)
      BY <1>0, <2>1 DEF ListCut, TypeOK
    <3>2. /\ required' = IF cut THEN required ELSE required \ {path}
          /\ whole' = IF shown THEN whole \cup {path} ELSE whole
          /\ UNCHANGED verdict
      BY <1>5 DEF ListDirectory
    <3> HIDE DEF cut, shown, path
    <3> QED
      BY <1>0, <2>1, <3>1, <3>2, OwedShrinks
  <2>3. used' = used + 1 /\ used' <= MaxToolCalls
    BY <1>0, <1>5 DEF ListDirectory, Exhausted, TypeOK
  <2>4. /\ UNCHANGED <<phase, rounds, bytes, offered, throttled, failed, exit, verdict,
                       size, changes>>
        /\ phase = "tools" /\ queue' = Tail(queue) /\ queue # <<>>
    BY <1>5 DEF ListDirectory
  <2> HIDE DEF path
  <2>5. TypeOK'
    BY <1>0, <2>2, <2>3, <2>4 DEF TypeOK
  <2>6. BudgetsKept' /\ Offered'
    BY <1>0, <2>3, <2>4 DEF BudgetsKept, Offered
  <2> QED
    BY <2>2, <2>5, <2>6 DEF Kept
<1>6. CASE RoundEnds
  BY <1>6 DEF RoundEnds, Kept, TypeOK, BudgetsKept, Offered, Owed, Settled
<1> QED
  BY <1>1, <1>2, <1>3, <1>4, <1>5, <1>6 DEF Tool

LEMMA KeptByDisk == Kept /\ DiskChanges => Kept'
<1> SUFFICES ASSUME Kept, DiskChanges PROVE Kept'
  OBVIOUS
<1>1. size' \in [Objects -> 0..MaxSize] /\ changes' \in 0..Changes
  BY DEF Kept, TypeOK, DiskChanges
<1> QED
  BY <1>1 DEF Kept, TypeOK, BudgetsKept, Offered, Owed, Settled, DiskChanges, budgets

LEMMA KeptAlways == Spec => []Kept
<1>1. Init => Kept
  BY KeptInitially
<1>2. Kept /\ [Next]_vars => Kept'
  <2> SUFFICES ASSUME Kept, [Next]_vars PROVE Kept'
    OBVIOUS
  <2>1. CASE UNCHANGED vars
    BY <2>1 DEF Kept, TypeOK, BudgetsKept, Offered, Owed, Settled, vars
  <2> QED
    BY <2>1, KeptByStart, KeptByAsk, KeptByPost, KeptByTool, KeptByDisk DEF Next
<1> QED
  BY <1>1, <1>2, PTL DEF Spec

\* TypeOK: the counts, the queue and the set of what is still to be inspected
\* (_run_review) keep their types.
THEOREM ReviewTypeCorrect == Spec => []TypeOK
<1>1. Kept => TypeOK
  BY DEF Kept
<1> QED
  BY <1>1, KeptAlways, PTL

\* BudgetsKept: no reply makes _run_review exceed MAX_ROUNDS, MAX_TOOL_CALLS or
\* MAX_READ_BUDGET_BYTES.
THEOREM BudgetsAreKept == Spec => []BudgetsKept
<1>1. Kept => BudgetsKept
  BY DEF Kept
<1> QED
  BY <1>1, KeptAlways, PTL

\* InspectedBeforeAllow: an ALLOW under HARD rests on every required script and
\* directory having been shown from end to end.
THEOREM AllowRestsOnInspection == Spec => []InspectedBeforeAllow
<1>1. Kept => InspectedBeforeAllow
  BY DEF Kept, Owed, Settled, InspectedBeforeAllow
<1> QED
  BY <1>1, KeptAlways, PTL
=============================================================================

------------------------ MODULE ReviewerProcess_proofs ------------------------
(***************************************************************************)
(* The safety of one review for any number of interpreters, any answers    *)
(* and any limit of the output: the types, AnswerIsWhole,                  *)
(* NothingLeftRunning, OneAuditor and AllWereTried.                        *)
(***************************************************************************)
EXTENDS ReviewerProcess, FiniteSetTheorems, TLAPS

-----------------------------------------------------------------------------
(* The inductive invariant *)

Settled(r) == r.promise \notin {"none", "pending"}

\* What an answer rests on.
Whole(r, p) ==
  /\ p.life = "gone" /\ p.says = r.promise /\ p.code = 0
  /\ r.read = p.size /\ p.size <= MaxStdout /\ ~r.timedOut

\* The locals of one runCandidate and the process it started.
Sane(r, p) ==
  /\ r \in Running /\ p \in Process
  /\ r.promise = "none" => r = NotRun /\ p = NoProcess
  /\ r.timer = "armed" => r.promise = "pending"
  /\ r.promise = "pending" => r.read <= MaxStdout
  /\ r.read <= p.written /\ p.written <= p.size
  /\ r.promise \in Answers => Whole(r, p)
  /\ Settled(r) /\ p.life = "running" => p.killed \/ p.stdinBroke

\* The loop: what is before its interpreter was missing, what is after not begun.
LoopInv ==
  /\ \A i \in Tries : i < trial => run[i].promise = "ENOENT"
  /\ \A i \in Tries : i > trial => run[i].promise = "none"
  /\ outcome # "pending" => outcome \in Results /\ outcome = run[trial].promise
  /\ outcome = "ENOENT" => trial = Interpreters

ReviewInv ==
  /\ trial \in Tries /\ signal \in {"quiet", "aborted"}
  /\ run \in [Tries -> Running] /\ child \in [Tries -> Process]
  /\ \A i \in Tries : Sane(run[i], child[i])
  /\ LoopInv

-----------------------------------------------------------------------------
(* The operators *)

LEMMA Apart ==
  /\ "none" \notin Results /\ "pending" \notin Results /\ "noise" \notin Answers
  /\ Errors \cap Answers = {}
  BY AnswersAssumption DEF Results, Errors

LEMMA Fields ==
  ASSUME NEW r \in Running
  PROVE  /\ r.promise \in {"none", "pending"} \cup Results /\ r.timer \in {"off", "armed"}
         /\ r.timedOut \in BOOLEAN /\ r.heard \in BOOLEAN /\ r.read \in 0..(MaxStdout + 1)
         /\ r.read \in Nat
  BY LimitAssumption DEF Running

LEMMA ProcessFields ==
  ASSUME NEW p \in Process
  PROVE  /\ p.size \in 0..(MaxStdout + 1) /\ p.says \in Answers \cup {"noise"}
         /\ p.written \in 0..(MaxStdout + 1) /\ p.code \in {0, 1}
         /\ p.life \in {"none", "running", "missing", "denied", "exited", "gone"}
         /\ p.killed \in BOOLEAN /\ p.stdinBroke \in BOOLEAN
         /\ p.size \in Nat /\ p.written \in Nat
  BY LimitAssumption DEF Process

LEMMA Blank == NotRun \in Running /\ NoProcess \in Process
  BY LimitAssumption DEF NotRun, NoProcess, Running, Process

LEMMA FinishType ==
  ASSUME NEW r \in Running, NEW result \in Results
  PROVE  /\ Finish(r, result) \in Running
         /\ r.promise # "pending" => Finish(r, result) = r
         /\ r.promise = "pending" => /\ Finish(r, result).promise = result
                                     /\ Finish(r, result).timer = "off"
         /\ Finish(r, result).timedOut = r.timedOut /\ Finish(r, result).heard = r.heard
         /\ Finish(r, result).read = r.read
  BY DEF Finish, Running

LEMMA KillType ==
  ASSUME NEW p \in Process
  PROVE  /\ Kill(p) \in Process
         /\ Kill(p).life = p.life /\ Kill(p).size = p.size /\ Kill(p).says = p.says
         /\ Kill(p).written = p.written /\ Kill(p).code = p.code
         /\ Kill(p).stdinBroke = p.stdinBroke
         /\ Kill(p).killed = (p.killed \/ p.life = "running")
  BY DEF Kill, Process

\* A process that is killed is no less sane for it.
LEMMA KillKeeps ==
  ASSUME NEW r \in Running, NEW p \in Process, Sane(r, p), r.promise # "none"
  PROVE  Sane(r, Kill(p))
  BY KillType DEF Sane, Whole

\* An error settles a promise whose process is gone, killed or without input.
LEMMA FinishKeeps ==
  ASSUME NEW r \in Running, NEW p \in Process, Sane(r, p), NEW error \in Errors,
         p.life = "running" => p.killed \/ p.stdinBroke
  PROVE  Sane(Finish(r, error), p)
<1>1. CASE r.promise # "pending"
  BY <1>1, FinishType DEF Sane, Results
<1>2. CASE r.promise = "pending"
  <2> DEFINE f == Finish(r, error)
  <2>1. f \in Running /\ f.promise = error /\ f.timer = "off" /\ f.read = r.read
    BY <1>2, FinishType DEF Results
  <2>2. error \notin Answers /\ error \notin {"none", "pending"}
    BY Apart DEF Results
  <2> HIDE DEF f
  <2>3. p \in Process /\ r.read <= p.written /\ p.written <= p.size
    BY DEF Sane
  <2>4. f.timer # "armed" /\ f.promise # "none" /\ f.promise # "pending" /\ f.promise \notin Answers
    BY <2>1, <2>2
  <2>5. Sane(f, p)
    BY <2>1, <2>3, <2>4 DEF Sane
  <2> QED
    BY <2>5 DEF f
<1> QED
  BY <1>1, <1>2

\* Sane processes and a loop in order make the invariant; one interpreter up to
\* trial may move if a settled promise stays.
LEMMA OneMoves ==
  ASSUME ReviewInv, NEW i \in Tries, i <= trial,
         NEW r, NEW p, Sane(r, p), Settled(run[i]) => r.promise = run[i].promise,
         run' = [run EXCEPT ![i] = r], child' = [child EXCEPT ![i] = p],
         trial' = trial, outcome' = outcome, signal' = signal
  PROVE  ReviewInv'
<1>1. r \in Running /\ p \in Process
  BY DEF Sane
<1>2. /\ run' \in [Tries -> Running] /\ child' \in [Tries -> Process]
      /\ \A j \in Tries : /\ run'[j] = IF j = i THEN r ELSE run[j]
                          /\ child'[j] = IF j = i THEN p ELSE child[j]
  BY <1>1 DEF ReviewInv
<1>3. \A j \in Tries : Sane(run'[j], child'[j])
  BY <1>2 DEF ReviewInv
<1>4. trial \in Nat /\ i \in Nat /\ trial \in Tries
  BY InterpretersAssumption DEF ReviewInv, Tries
<1>5. \A j \in Tries : Settled(run[j]) => run'[j].promise = run[j].promise
  BY <1>2
<1>6. LoopInv'
  <2>1. \A j \in Tries : j < trial' => run'[j].promise = "ENOENT"
    BY <1>5 DEF ReviewInv, LoopInv, Settled
  <2>2. \A j \in Tries : j > trial' => run'[j].promise = "none"
    BY <1>2, <1>4 DEF ReviewInv, LoopInv, Tries
  <2>3. outcome' # "pending" => outcome' \in Results /\ outcome' = run'[trial'].promise
    BY <1>4, <1>5, Apart DEF ReviewInv, LoopInv, Settled
  <2> QED
    BY <2>1, <2>2, <2>3 DEF ReviewInv, LoopInv
<1> QED
  BY <1>2, <1>3, <1>6 DEF ReviewInv

\* Whoever has begun is not after the loop's interpreter.
LEMMA Begun ==
  ASSUME ReviewInv, NEW i \in Tries, run[i].promise # "none"
  PROVE  i <= trial
  BY InterpretersAssumption DEF ReviewInv, LoopInv, Tries

-----------------------------------------------------------------------------
(* Preservation *)

LEMMA InvInit == Init => ReviewInv
<1> SUFFICES ASSUME Init PROVE ReviewInv
  OBVIOUS
<1>1. trial \in Tries /\ trial = 1 /\ outcome = "pending" /\ signal \in {"quiet", "aborted"}
  BY InterpretersAssumption DEF Init, Tries
<1>2. /\ run \in [Tries -> Running] /\ child \in [Tries -> Process]
      /\ \A i \in Tries : run[i] = NotRun /\ child[i] = NoProcess
  BY Blank DEF Init
<1>3. Sane(NotRun, NoProcess)
  BY Blank, Apart, LimitAssumption DEF Sane, NotRun, NoProcess, Settled, Results
<1>4. NotRun.promise = "none"
  BY DEF NotRun
<1>5. \A i \in Tries : ~(i < trial)
  BY <1>1, InterpretersAssumption DEF Tries
<1> QED
  BY <1>1, <1>2, <1>3, <1>4, <1>5 DEF ReviewInv, LoopInv

LEMMA InvSpawn == ReviewInv /\ Spawn => ReviewInv'
<1> SUFFICES ASSUME ReviewInv, Spawn PROVE ReviewInv'
  OBVIOUS
<1>1. trial \in Tries /\ trial \in Nat /\ trial <= trial /\ ~Settled(run[trial])
  BY InterpretersAssumption DEF ReviewInv, Spawn, Settled, Tries
<1>2. PICK life \in {"running", "missing", "denied"} : \E p \in Started(life) :
        IF signal = "aborted"
          THEN child' = [child EXCEPT ![trial] = Kill(p)] /\ run' = [run EXCEPT ![trial] = AbortedAtOnce]
          ELSE child' = [child EXCEPT ![trial] = p] /\ run' = [run EXCEPT ![trial] = Armed]
  BY DEF Spawn
<1>3. PICK p \in Started(life) :
        IF signal = "aborted"
          THEN child' = [child EXCEPT ![trial] = Kill(p)] /\ run' = [run EXCEPT ![trial] = AbortedAtOnce]
          ELSE child' = [child EXCEPT ![trial] = p] /\ run' = [run EXCEPT ![trial] = Armed]
  BY <1>2
<1>4. p \in Process /\ p.written = 0 /\ p.life = life /\ p.life # "none"
  <2>1. /\ p.life = life /\ p.size \in 0..(MaxStdout + 1) /\ p.says \in Answers \cup {"noise"}
        /\ p.written = 0 /\ p.code = 0 /\ p.killed = FALSE /\ p.stdinBroke = FALSE
        /\ p = [life |-> p.life, size |-> p.size, says |-> p.says, written |-> p.written,
                code |-> p.code, killed |-> p.killed, stdinBroke |-> p.stdinBroke]
    BY <1>3 DEF Started
  <2>2. 0 \in 0..(MaxStdout + 1)
    BY LimitAssumption
  <2> QED
    BY <1>2, <2>1, <2>2 DEF Process
<1>5. /\ Armed \in Running /\ Armed.promise = "pending" /\ Armed.read = 0
      /\ [Armed EXCEPT !.heard = FALSE] \in Running
      /\ [Armed EXCEPT !.heard = FALSE].promise = "pending"
      /\ [Armed EXCEPT !.heard = FALSE].read = 0
  <2>1. Armed \in Running
    BY Blank DEF Armed, Running
  <2>2. Armed.promise = "pending" /\ Armed.read = 0
    BY Blank DEF Armed, NotRun
  <2>3. \A r \in Running : /\ [r EXCEPT !.heard = FALSE] \in Running
                           /\ [r EXCEPT !.heard = FALSE].promise = r.promise
                           /\ [r EXCEPT !.heard = FALSE].read = r.read
    BY DEF Running
  <2> QED
    BY <2>1, <2>2, <2>3
<1>6. Sane(Armed, p) /\ Sane([Armed EXCEPT !.heard = FALSE], p)
  <2>1. \A r \in Running : r.promise = "pending" /\ r.read = 0 => Sane(r, p)
    BY <1>4, ProcessFields, Apart, LimitAssumption DEF Sane, Settled, Results
  <2> QED
    BY <1>5, <2>1
<1>7. Sane(AbortedAtOnce, Kill(p))
  <2>1. Sane([Armed EXCEPT !.heard = FALSE], Kill(p)) /\ Kill(p) \in Process
    BY <1>4, <1>5, <1>6, KillKeeps, KillType
  <2>2. Kill(p).life = "running" => Kill(p).killed
    BY <1>4, KillType
  <2> QED
    BY <1>5, <2>1, <2>2, FinishKeeps DEF AbortedAtOnce, Errors
<1>8. UNCHANGED <<trial, signal, outcome>>
  BY DEF Spawn
<1>9. CASE signal = "aborted"
  BY <1>1, <1>3, <1>7, <1>8, <1>9, OneMoves
<1>10. CASE signal # "aborted"
  BY <1>1, <1>3, <1>6, <1>8, <1>10, OneMoves
<1> QED
  BY <1>9, <1>10

LEMMA InvSpawnThrows == ReviewInv /\ SpawnThrows => ReviewInv'
<1> SUFFICES ASSUME ReviewInv, SpawnThrows PROVE ReviewInv'
  OBVIOUS
<1>1. trial \in Tries /\ trial \in Nat /\ trial <= trial /\ ~Settled(run[trial])
  BY InterpretersAssumption DEF ReviewInv, SpawnThrows, Settled, Tries
<1>2. run[trial] = NotRun /\ child[trial] = NoProcess
  BY <1>1 DEF ReviewInv, SpawnThrows, Sane
<1>3. PICK error \in {"ENOENT", "spawn"} : run' = [run EXCEPT ![trial].promise = error]
  BY DEF SpawnThrows
<1> DEFINE r == [NotRun EXCEPT !.promise = error]
<1>4. r \in Running /\ r.promise = error /\ r.timer = "off" /\ r.read = 0
  BY Blank DEF NotRun, Running, Results, Errors
<1>5. error \notin Answers /\ error \notin {"none", "pending"}
  BY Apart DEF Results, Errors
<1>6. run' = [run EXCEPT ![trial] = r]
  BY <1>2, <1>3
<1>7. child' = [child EXCEPT ![trial] = NoProcess]
  BY <1>1, <1>2 DEF SpawnThrows, ReviewInv
<1> HIDE DEF r
<1>8. Sane(r, NoProcess)
  BY <1>4, <1>5, Blank DEF Sane, NoProcess
<1> QED
  BY <1>1, <1>6, <1>7, <1>8, OneMoves DEF SpawnThrows

\* A step of one process and the callbacks that hear of it.
LEMMA InvProcess ==
  ASSUME ReviewInv, NEW i \in Tries, Callback(i) \/ ChildWrites(i) \/ ChildExits(i)
  PROVE  ReviewInv'
<1> DEFINE r == run[i]
           p == child[i]
<1>1. r \in Running /\ p \in Process /\ Sane(r, p)
  BY DEF ReviewInv
<1>2. r.promise # "none"
  <2> SUFFICES ASSUME r.promise = "none" PROVE FALSE
    OBVIOUS
  <2>1. r = NotRun /\ p = NoProcess
    BY <1>1 DEF Sane
  <2>2. ~r.heard /\ r.timer = "off" /\ p.life = "none"
    BY <2>1 DEF NotRun, NoProcess
  <2> QED
    BY <2>2 DEF Callback, SpawnError, Data, StdinError, TimerFires, Close, ChildWrites, ChildExits
<1>3. i <= trial
  BY <1>2, Begun
<1>4. UNCHANGED <<trial, signal, outcome>>
  BY DEF Callback, SpawnError, Data, StdinError, TimerFires, Close, ChildWrites, ChildExits
<1>5. /\ run = [run EXCEPT ![i] = r] /\ child = [child EXCEPT ![i] = p]
  BY DEF ReviewInv
<1>6. CASE SpawnError(i)
  <2> DEFINE error == IF p.life = "missing" THEN "ENOENT" ELSE "spawn"
             q == [p EXCEPT !.life = "gone"]
  <2>1. run' = [run EXCEPT ![i] = Finish(r, error)] /\ child' = [child EXCEPT ![i] = q]
    BY <1>6 DEF SpawnError
  <2>2. error \in Errors
    BY DEF Errors
  <2>3. q \in Process /\ q.life = "gone" /\ q.says = p.says /\ q.code = p.code /\ q.size = p.size
        /\ q.written = p.written
    BY <1>1 DEF Process
  <2>4. Sane(r, q)
    <3> HIDE DEF q
    <3> QED
      BY <1>1, <1>2, <2>3 DEF Sane, Whole
  <2>5. Sane(Finish(r, error), q)
    BY <1>1, <2>2, <2>3, <2>4, FinishKeeps
  <2>6. Settled(r) => Finish(r, error).promise = r.promise
    BY <1>1, <2>2, FinishType DEF Settled, Results
  <2> QED
    BY <1>3, <1>4, <2>1, <2>5, <2>6, OneMoves
<1>7. CASE Data(i)
  <2> DEFINE got == [r EXCEPT !.read = @ + 1]
  <2>1. r.read < p.written /\ r.read \in Nat /\ p.written \in Nat /\ p.written <= MaxStdout + 1
        /\ p.size \in Nat
    <3>1. r.read < p.written
      BY <1>7 DEF Data
    <3>2. p.written \in 0..(MaxStdout + 1) /\ p.size \in Nat /\ r.read \in Nat
      BY <1>1, Fields, ProcessFields
    <3> QED
      BY <3>1, <3>2, LimitAssumption
  <2>2. got \in Running /\ got.read = r.read + 1 /\ got.promise = r.promise /\ got.timer = r.timer
        /\ got.timedOut = r.timedOut
    BY <1>1, <2>1, LimitAssumption DEF Running
  <2>3. IF got.read > MaxStdout
          THEN /\ run' = [run EXCEPT ![i] = Finish(got, "too much")]
               /\ child' = [child EXCEPT ![i] = Kill(p)]
          ELSE run' = [run EXCEPT ![i] = got] /\ child' = [child EXCEPT ![i] = p]
    BY <1>7 DEF Data
  <2>4. r.promise \notin Answers
    BY <1>1, <2>1, ProcessFields DEF Sane, Whole
  <2> HIDE DEF got
  <2>5. CASE got.read > MaxStdout
    <3>1. "too much" \in Results /\ "too much" \in Errors
      BY DEF Results, Errors
    <3>2. /\ Finish(got, "too much") \in Running /\ Finish(got, "too much").read = got.read
          /\ r.promise = "pending" => /\ Finish(got, "too much").promise = "too much"
                                      /\ Finish(got, "too much").timer = "off"
          /\ r.promise # "pending" => Finish(got, "too much") = got
      BY <2>2, <3>1, FinishType
    <3>3. Sane(Finish(got, "too much"), Kill(p))
      <4>1. Finish(got, "too much").promise \notin Answers \cup {"none", "pending"}
        BY <1>2, <2>2, <2>4, <3>1, <3>2, Apart
      <4>2. Finish(got, "too much").timer # "armed"
        BY <1>1, <2>2, <3>2 DEF Sane, Running
      <4>3. /\ Kill(p) \in Process /\ Kill(p).written = p.written /\ Kill(p).size = p.size
            /\ Kill(p).life = "running" => Kill(p).killed
        BY <1>1, KillType
      <4>4. got.read <= p.written /\ p.written <= p.size
        BY <1>1, <2>1, <2>2 DEF Sane
      <4> QED
        BY <3>2, <4>1, <4>2, <4>3, <4>4 DEF Sane
    <3>4. Settled(r) => Finish(got, "too much").promise = r.promise
      BY <2>2, <3>2 DEF Settled
    <3> QED
      BY <1>3, <1>4, <2>3, <2>5, <3>3, <3>4, OneMoves
  <2>6. CASE ~(got.read > MaxStdout)
    <3>1. Sane(got, p)
      BY <1>1, <1>2, <2>1, <2>2, <2>4, <2>6, LimitAssumption DEF Sane, Settled
    <3> QED
      BY <1>3, <1>4, <2>2, <2>3, <2>6, <3>1, OneMoves
  <2> QED
    BY <2>5, <2>6
<1>8. CASE StdinError(i)
  <2> DEFINE q == [p EXCEPT !.stdinBroke = TRUE]
  <2>1. run' = [run EXCEPT ![i] = Finish(r, "stdin")] /\ child' = [child EXCEPT ![i] = q]
    BY <1>8 DEF StdinError
  <2>2. "stdin" \in Errors /\ "stdin" \in Results
    BY DEF Errors, Results
  <2>3. q \in Process /\ q.stdinBroke /\ q.life = p.life /\ q.says = p.says /\ q.code = p.code
        /\ q.size = p.size /\ q.written = p.written
    BY <1>1 DEF Process
  <2>4. Sane(r, q)
    <3> HIDE DEF q
    <3> QED
      BY <1>1, <1>2, <2>3 DEF Sane, Whole
  <2>5. Sane(Finish(r, "stdin"), q)
    BY <1>1, <2>2, <2>3, <2>4, FinishKeeps
  <2>6. Settled(r) => Finish(r, "stdin").promise = r.promise
    BY <1>1, <2>2, FinishType DEF Settled
  <2> QED
    BY <1>3, <1>4, <2>1, <2>5, <2>6, OneMoves
<1>9. CASE TimerFires(i)
  <2> DEFINE s == [r EXCEPT !.timer = "off", !.timedOut = TRUE]
  <2>1. run' = [run EXCEPT ![i] = s] /\ child' = [child EXCEPT ![i] = Kill(p)]
    BY <1>9 DEF TimerFires
  <2>2. r.promise = "pending"
    BY <1>1, <1>9 DEF Sane, TimerFires
  <2>3. s \in Running /\ s.promise = r.promise /\ s.timer = "off" /\ s.read = r.read
    BY <1>1 DEF Running
  <2>4. Sane(r, Kill(p))
    BY <1>1, <1>2, KillKeeps
  <2> HIDE DEF s
  <2>5. Sane(s, Kill(p))
    BY <2>2, <2>3, <2>4, Apart DEF Sane, Settled, Results
  <2> QED
    BY <1>3, <1>4, <2>1, <2>3, <2>5, OneMoves
<1>10. CASE Close(i)
  <2> DEFINE q == [p EXCEPT !.life = "gone"]
             result == Closed(r, p)
  <2>1. run' = [run EXCEPT ![i] = Finish(r, result)] /\ child' = [child EXCEPT ![i] = q]
    BY <1>10 DEF Close
  <2>2. q \in Process /\ q.life = "gone" /\ q.says = p.says /\ q.code = p.code /\ q.size = p.size
        /\ q.written = p.written
    BY <1>1 DEF Process
  <2>3. result \in Results
    BY <1>1, ProcessFields DEF Closed, Parsed, Results, Errors
  <2>4. Sane(r, q)
    <3> HIDE DEF q
    <3> QED
      BY <1>1, <1>2, <2>2 DEF Sane, Whole
  <2>5. Sane(Finish(r, result), q)
    <3>1. CASE result \in Errors
      BY <1>1, <2>2, <2>4, <3>1, FinishKeeps
    <3>2. CASE result \notin Errors /\ r.promise = "pending"
      <4>1. ~r.timedOut /\ p.code = 0 /\ r.read = p.size /\ result = p.says
        BY <1>1, <3>2, ProcessFields DEF Closed, Parsed, Errors
      <4>2. r.read <= MaxStdout
        BY <1>1, <3>2 DEF Sane
      <4>3. /\ Finish(r, result) \in Running /\ Finish(r, result).promise = result
            /\ Finish(r, result).timer = "off" /\ Finish(r, result).read = r.read
            /\ Finish(r, result).timedOut = r.timedOut
        BY <1>1, <2>3, <3>2, FinishType
      <4>4. result \notin {"none", "pending"}
        BY <2>3, Apart
      <4> HIDE DEF q, result
      <4> QED
        BY <2>2, <2>4, <4>1, <4>2, <4>3, <4>4 DEF Sane, Whole
    <3>3. CASE r.promise # "pending"
      BY <1>1, <2>3, <2>4, <3>3, FinishType
    <3> QED
      BY <3>1, <3>2, <3>3
  <2>6. Settled(r) => Finish(r, result).promise = r.promise
    BY <1>1, <2>3, FinishType DEF Settled
  <2> QED
    BY <1>3, <1>4, <2>1, <2>5, <2>6, OneMoves
<1>11. CASE ChildWrites(i)
  <2> DEFINE q == [p EXCEPT !.written = @ + 1]
  <2>1. child' = [child EXCEPT ![i] = q] /\ run' = run /\ p.life = "running" /\ p.written < p.size
    BY <1>11 DEF ChildWrites
  <2>2. p.written \in Nat /\ p.size \in Nat /\ p.size <= MaxStdout + 1
    BY <1>1, ProcessFields, LimitAssumption
  <2>3. q \in Process /\ q.written = p.written + 1 /\ q.life = p.life /\ q.size = p.size
        /\ q.killed = p.killed /\ q.stdinBroke = p.stdinBroke
    BY <1>1, <2>1, <2>2, LimitAssumption DEF Process
  <2> HIDE DEF q
  <2>4. Sane(r, q)
    BY <1>1, <1>2, <2>1, <2>2, <2>3, Fields DEF Sane, Whole
  <2> QED
    BY <1>3, <1>4, <1>5, <2>1, <2>4, OneMoves
<1>12. CASE ChildExits(i)
  <2>1. PICK code \in {0, 1} : child' = [child EXCEPT ![i].life = "exited", ![i].code = code]
    BY <1>12 DEF ChildExits
  <2> DEFINE q == [p EXCEPT !.life = "exited", !.code = code]
  <2>2. child' = [child EXCEPT ![i] = q] /\ run' = run /\ p.life = "running"
    BY <1>12, <2>1 DEF ChildExits
  <2>3. q \in Process /\ q.life = "exited" /\ q.written = p.written /\ q.size = p.size
    BY <1>1 DEF Process
  <2> HIDE DEF q
  <2>4. Sane(r, q)
    BY <1>1, <1>2, <2>2, <2>3 DEF Sane, Whole
  <2> QED
    BY <1>3, <1>4, <1>5, <2>2, <2>4, OneMoves
<1> QED
  BY <1>6, <1>7, <1>8, <1>9, <1>10, <1>11, <1>12 DEF Callback

LEMMA InvAbort == ReviewInv /\ Abort => ReviewInv'
<1> SUFFICES ASSUME ReviewInv, Abort PROVE ReviewInv'
  OBVIOUS
<1> DEFINE pending(i) == run[i].promise = "pending"
<1>1. /\ \A i \in Tries : /\ run'[i] = IF pending(i) THEN Finish(run[i], "aborted") ELSE run[i]
                          /\ child'[i] = IF pending(i) THEN Kill(child[i]) ELSE child[i]
      /\ run' = [i \in Tries |-> run'[i]] /\ child' = [i \in Tries |-> child'[i]]
  BY DEF Abort
<1>2. "aborted" \in Results /\ "aborted" \in Errors
  BY DEF Results, Errors
<1>3. ASSUME NEW i \in Tries
      PROVE  /\ Sane(run'[i], child'[i])
             /\ ~pending(i) => run'[i] = run[i]
  <2>1. run[i] \in Running /\ child[i] \in Process /\ Sane(run[i], child[i])
    BY DEF ReviewInv
  <2>2. CASE pending(i)
    <3>1. Sane(run[i], Kill(child[i])) /\ Kill(child[i]) \in Process
      BY <2>1, <2>2, KillKeeps, KillType
    <3>2. Kill(child[i]).life = "running" => Kill(child[i]).killed
      BY <2>1, KillType
    <3> QED
      BY <1>1, <1>2, <2>1, <2>2, <3>1, <3>2, FinishKeeps
  <2>3. CASE ~pending(i)
    BY <1>1, <2>1, <2>3
  <2> QED
    BY <2>2, <2>3
<1>4. \A i \in Tries : run'[i] \in Running /\ child'[i] \in Process
  BY <1>3 DEF Sane
<1>5. run' \in [Tries -> Running] /\ child' \in [Tries -> Process]
  BY <1>1, <1>4
<1>6. signal' \in {"quiet", "aborted"} /\ outcome' = "pending" /\ outcome = "pending" /\ trial' = trial
  BY DEF Abort
<1>7. LoopInv'
  BY <1>3, <1>6 DEF ReviewInv, LoopInv
<1> QED
  BY <1>3, <1>5, <1>6, <1>7 DEF ReviewInv

LEMMA InvLoop == ReviewInv /\ (Returns \/ TriesNext \/ Throws) => ReviewInv'
<1> SUFFICES ASSUME ReviewInv, Returns \/ TriesNext \/ Throws PROVE ReviewInv'
  OBVIOUS
<1>1. UNCHANGED <<run, child, signal>>
  BY DEF Returns, TriesNext, Throws
<1>2. trial \in Nat /\ Interpreters \in Nat /\ 1 <= trial /\ trial <= Interpreters
  BY InterpretersAssumption DEF ReviewInv, Tries
<1>3. CASE Returns
  <2>1. outcome' = run[trial].promise /\ outcome' \in Answers /\ trial' = trial
    BY <1>3 DEF Returns
  <2>2. outcome' \in Results /\ outcome' # "ENOENT"
    BY <2>1, Apart DEF Results, Errors
  <2> QED
    BY <1>1, <2>1, <2>2 DEF ReviewInv, LoopInv
<1>4. CASE Throws
  <2>1. outcome' = run[trial].promise /\ outcome' \in Errors /\ trial' = trial
        /\ ~(Retryable(outcome') /\ MoreToTry)
    BY <1>4 DEF Throws
  <2>2. outcome' \in Results
    BY <2>1 DEF Results
  <2>3. outcome' = "ENOENT" => trial = Interpreters
    BY <1>2, <2>1, InterpretersAssumption DEF Retryable, MoreToTry
  <2> QED
    BY <1>1, <2>1, <2>2, <2>3 DEF ReviewInv, LoopInv
<1>5. CASE TriesNext
  <2>1. trial' = trial + 1 /\ trial < Interpreters /\ run[trial].promise = "ENOENT"
        /\ outcome = "pending" /\ outcome' = "pending"
    BY <1>5 DEF TriesNext, Retryable, MoreToTry
  <2>2. trial' \in Tries
    BY <1>2, <2>1 DEF Tries
  <2>3. \A i \in Tries : i < trial' => run'[i].promise = "ENOENT"
    <3> SUFFICES ASSUME NEW i \in Tries, i < trial' PROVE run[i].promise = "ENOENT"
      BY <1>1
    <3>1. i \in Nat /\ (i < trial \/ i = trial)
      BY <1>2, <2>1 DEF Tries
    <3> QED
      BY <2>1, <3>1 DEF ReviewInv, LoopInv
  <2>4. \A i \in Tries : i > trial' => run'[i].promise = "none"
    <3> SUFFICES ASSUME NEW i \in Tries, i > trial' PROVE run[i].promise = "none"
      BY <1>1
    <3>1. i > trial
      BY <1>2, <2>1 DEF Tries
    <3> QED
      BY <3>1 DEF ReviewInv, LoopInv
  <2> QED
    BY <1>1, <2>1, <2>2, <2>3, <2>4 DEF ReviewInv, LoopInv
<1> QED
  BY <1>3, <1>4, <1>5

LEMMA InvStep == ReviewInv /\ [Next]_vars => ReviewInv'
<1> SUFFICES ASSUME ReviewInv, [Next]_vars PROVE ReviewInv'
  OBVIOUS
<1>1. CASE Loop
  BY <1>1, InvSpawn, InvSpawnThrows, InvLoop DEF Loop
<1>2. CASE Abort
  BY <1>2, InvAbort
<1>3. CASE \E i \in Tries : Callback(i) \/ ChildWrites(i) \/ ChildExits(i)
  BY <1>3, InvProcess
<1>4. CASE UNCHANGED vars
  BY <1>4 DEF vars, ReviewInv, LoopInv
<1> QED
  BY <1>1, <1>2, <1>3, <1>4 DEF Next

LEMMA InvAlways == Spec => []ReviewInv
  BY InvInit, InvStep, PTL DEF Spec

-----------------------------------------------------------------------------
(* Theorems *)

\* The locals of runCandidate and the outcome keep their types.
THEOREM ReviewTypes == Spec => []TypeOK
<1>1. ReviewInv => TypeOK
  BY DEF ReviewInv, LoopInv, TypeOK, Results
<1> QED
  BY <1>1, InvAlways, PTL

\* An answer is the whole output of a process that ended well, in time and within
\* the limit (reviewer.ts:323-393).
THEOREM WholeAnswers == Spec => []AnswerIsWhole
<1>1. ReviewInv => AnswerIsWhole
  <2> SUFFICES ASSUME ReviewInv, outcome \in Answers
               PROVE  LET r == run[trial]
                          p == child[trial]
                      IN /\ p.says = outcome /\ p.code = 0 /\ p.life = "gone"
                         /\ r.read = p.size /\ p.size <= MaxStdout /\ ~r.timedOut
    BY DEF AnswerIsWhole
  <2>1. outcome # "pending"
    BY Apart DEF Results
  <2>2. outcome = run[trial].promise /\ trial \in Tries
    BY <2>1 DEF ReviewInv, LoopInv
  <2> QED
    BY <2>2 DEF ReviewInv, Sane, Whole
<1> QED
  BY <1>1, InvAlways, PTL

\* A review that is over keeps no timer, and no process it did not tell to stop or
\* take the input from.
THEOREM NothingStays == Spec => []NothingLeftRunning
<1>1. ReviewInv => NothingLeftRunning
  <2> SUFFICES ASSUME ReviewInv, outcome # "pending", NEW i \in Tries
               PROVE  /\ run[i].timer = "off"
                      /\ child[i].life = "running" => child[i].killed \/ child[i].stdinBroke
    BY DEF NothingLeftRunning
  <2>1. Sane(run[i], child[i]) /\ run[i] \in Running
    BY DEF ReviewInv
  <2>2. run[i].promise # "pending"
    <3>1. i \in Nat /\ trial \in Nat
      BY InterpretersAssumption DEF ReviewInv, Tries
    <3>2. i < trial \/ i = trial \/ i > trial
      BY <3>1
    <3> QED
      BY <3>2, Apart DEF ReviewInv, LoopInv
  <2>3. CASE run[i].promise = "none"
    BY <2>1, <2>3 DEF Sane, NotRun, NoProcess
  <2>4. CASE run[i].promise # "none"
    BY <2>1, <2>2, <2>4, Fields DEF Sane, Settled
  <2> QED
    BY <2>3, <2>4
<1> QED
  BY <1>1, InvAlways, PTL

\* No second interpreter runs a review.
THEOREM NoSecondAuditor == Spec => []OneAuditor
<1>1. ReviewInv => OneAuditor
  <2> SUFFICES ASSUME ReviewInv PROVE OneAuditor
    OBVIOUS
  <2> DEFINE auditors == {i \in Tries : child[i].life \in {"running", "exited", "gone"}
                                        /\ run[i].promise # "ENOENT"}
  <2>1. auditors \subseteq {trial}
    <3> SUFFICES ASSUME NEW i \in auditors, i # trial PROVE FALSE
      OBVIOUS
    <3>1. i \in Nat /\ trial \in Nat
      BY InterpretersAssumption DEF ReviewInv, Tries
    <3>2. i > trial
      BY <3>1 DEF ReviewInv, LoopInv
    <3>3. child[i] = NoProcess
      BY <3>2 DEF ReviewInv, LoopInv, Sane
    <3> QED
      BY <3>3 DEF NoProcess
  <2> HIDE DEF auditors
  <2>2. IsFiniteSet({trial}) /\ Cardinality({trial}) = 1
    BY FS_Singleton, Zenon
  <2>3. Cardinality(auditors) <= Cardinality({trial})
    BY <2>1, <2>2, FS_Subset, Zenon
  <2>4. Cardinality(auditors) <= 1
    BY <2>2, <2>3, Zenon
  <2> QED
    BY <2>4 DEF OneAuditor, auditors
<1> QED
  BY <1>1, InvAlways, PTL

\* "No interpreter" is the result only when each of them is missing.
THEOREM EachWasTried == Spec => []AllWereTried
<1>1. ReviewInv => AllWereTried
  <2> SUFFICES ASSUME ReviewInv, outcome = "ENOENT", NEW i \in Tries
               PROVE  run[i].promise = "ENOENT"
    BY DEF AllWereTried
  <2>1. trial = Interpreters /\ run[trial].promise = "ENOENT"
    BY DEF ReviewInv, LoopInv
  <2>2. i < trial \/ i = trial
    BY <2>1, InterpretersAssumption DEF Tries
  <2> QED
    BY <2>1, <2>2 DEF ReviewInv, LoopInv
<1> QED
  BY <1>1, InvAlways, PTL

\* The interpreters are tried one after the other and all of them (reviewer.ts:464-476).
THEOREM InterpretersInTurn == Spec => []TriedInTurn
  BY NoSecondAuditor, EachWasTried, PTL DEF TriedInTurn
=============================================================================

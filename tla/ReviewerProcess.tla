---------------------------- MODULE ReviewerProcess ----------------------------
(***************************************************************************)
(* One review as src/src/security/reviewer.ts performs it: the loop over   *)
(* the interpreters in reviewCommandWithAuditor and, for each of them,     *)
(* runCandidate: a child process, a timer, the pipes and a promise that    *)
(* the first event to arrive settles. run[i] is what the closures of       *)
(* runCandidate keep, child[i] what the operating system keeps.            *)
(***************************************************************************)
EXTENDS Naturals, FiniteSets

CONSTANTS
  Interpreters,   \* how many interpreters pythonCandidates returns
  Configured,     \* options.python is given: the only interpreter
  HasSignal,      \* the caller gave an AbortSignal
  Answers,        \* the results that parseReviewResult accepts
  MaxStdout       \* MAX_STDOUT_CHARS, counted in chunks

ASSUME InterpretersAssumption ==
  /\ Interpreters \in Nat \ {0}
  /\ Configured \in BOOLEAN /\ (Configured => Interpreters = 1)
ASSUME LimitAssumption == MaxStdout \in Nat /\ HasSignal \in BOOLEAN

VARIABLES
  trial,    \* the interpreter the loop is at
  run,      \* per interpreter, the state of its runCandidate
  child,    \* per interpreter, its process
  signal,   \* the AbortSignal
  outcome   \* what reviewCommandWithAuditor returns or throws

vars == <<trial, run, child, signal, outcome>>

Tries == 1..Interpreters
Errors == {"ENOENT", "spawn", "stdin", "aborted", "too much", "timeout", "exit", "parse"}
ASSUME AnswersAssumption == Answers \cap (Errors \cup {"none", "pending", "noise"}) = {}

Results == Answers \cup Errors

\* A process that writes size chunks, which together are the text says.
Process ==
  [life : {"none", "running", "missing", "denied", "exited", "gone"},
   size : 0..(MaxStdout + 1), says : Answers \cup {"noise"},
   written : 0..(MaxStdout + 1), code : {0, 1},
   killed : BOOLEAN, stdinBroke : BOOLEAN]

NoProcess == [life |-> "none", size |-> 0, says |-> "noise", written |-> 0,
              code |-> 0, killed |-> FALSE, stdinBroke |-> FALSE]

\* The locals of runCandidate. heard: the listeners of the child are attached.
Running ==
  [promise : {"none", "pending"} \cup Results, timer : {"off", "armed"},
   timedOut : BOOLEAN, heard : BOOLEAN, read : 0..(MaxStdout + 1)]

NotRun == [promise |-> "none", timer |-> "off", timedOut |-> FALSE,
           heard |-> FALSE, read |-> 0]

Init ==
  /\ trial = 1
  /\ run = [i \in Tries |-> NotRun]
  /\ child = [i \in Tries |-> NoProcess]
  /\ signal \in (IF HasSignal THEN {"quiet", "aborted"} ELSE {"quiet"})
  /\ outcome = "pending"

-----------------------------------------------------------------------------
(* What runCandidate does on an event *)

Finish_keepsTimer(r, result) ==
  IF r.promise # "pending" THEN r ELSE [r EXCEPT !.promise = result]

\* finish: the first result counts; it takes the timer away.
Finish(r, result) ==
  IF r.promise # "pending" THEN r
  ELSE [r EXCEPT !.promise = result, !.timer = "off"]

Kill_never(p) == p

\* child.kill(): no effect on a process that is not there.
Kill(p) == [p EXCEPT !.killed = @ \/ p.life = "running"]

\* runCandidate up to the last listener.
Armed == [NotRun EXCEPT !.promise = "pending", !.timer = "armed", !.heard = TRUE]
\* The same when the signal was aborted before: abort() and return, no listener.
AbortedAtOnce == Finish([Armed EXCEPT !.heard = FALSE], "aborted")

\* A new process is any text in any number of chunks; a whole answer has one.
Started(life) ==
  {p \in [life : {life}, size : 0..(MaxStdout + 1), says : Answers \cup {"noise"},
          written : {0}, code : {0}, killed : {FALSE}, stdinBroke : {FALSE}] :
     p.size = 0 => p.says = "noise"}

\* parseReviewResult on what was read: part of an answer is not an answer.
Parsed(r, p) == IF r.read = p.size /\ p.says \in Answers THEN p.says ELSE "parse"

Closed_late(r, p) == IF p.code # 0 THEN "exit" ELSE Parsed(r, p)

\* The result a close event settles the promise with.
Closed(r, p) ==
  IF r.timedOut THEN "timeout"
  ELSE IF p.code # 0 THEN "exit"
  ELSE Parsed(r, p)

-----------------------------------------------------------------------------
(* Events of the host: each is one callback of the event loop *)

\* spawn, the timer and the listeners; spawn may also throw.
Spawn ==
  /\ outcome = "pending" /\ run[trial].promise = "none"
  /\ \E life \in {"running", "missing", "denied"} : \E p \in Started(life) :
       IF signal = "aborted"
         THEN /\ child' = [child EXCEPT ![trial] = Kill(p)]
              /\ run' = [run EXCEPT ![trial] = AbortedAtOnce]
         ELSE /\ child' = [child EXCEPT ![trial] = p]
              /\ run' = [run EXCEPT ![trial] = Armed]
  /\ UNCHANGED <<trial, signal, outcome>>

SpawnThrows ==
  /\ outcome = "pending" /\ run[trial].promise = "none"
  /\ \E error \in {"ENOENT", "spawn"} :
       run' = [run EXCEPT ![trial].promise = error]
  /\ UNCHANGED <<trial, child, signal, outcome>>

\* The child's error event: there was nothing to run.
SpawnError(i) ==
  /\ child[i].life \in {"missing", "denied"} /\ run[i].heard
  /\ run' = [run EXCEPT ![i] =
               Finish(@, IF child[i].life = "missing" THEN "ENOENT" ELSE "spawn")]
  /\ child' = [child EXCEPT ![i].life = "gone"]
  /\ UNCHANGED <<trial, signal, outcome>>

\* A chunk of stdout; beyond the limit the child is killed and the review fails.
Data(i) ==
  /\ run[i].heard /\ run[i].read < child[i].written
  /\ LET got == [run[i] EXCEPT !.read = @ + 1]
         over == got.read > MaxStdout
     IN /\ run' = [run EXCEPT ![i] = IF over THEN Finish(got, "too much") ELSE got]
        /\ child' = [child EXCEPT ![i] = IF over THEN Kill(@) ELSE @]
  /\ UNCHANGED <<trial, signal, outcome>>

\* An error of stdin other than EPIPE: the review fails, the child is left to
\* notice that its input is gone.
StdinError(i) ==
  /\ child[i].life \notin {"none", "gone"} /\ run[i].heard /\ ~child[i].stdinBroke
  /\ run' = [run EXCEPT ![i] = Finish(@, "stdin")]
  /\ child' = [child EXCEPT ![i].stdinBroke = TRUE]
  /\ UNCHANGED <<trial, signal, outcome>>

\* The timer only marks and kills; the close event settles.
TimerFires(i) ==
  /\ run[i].timer = "armed"
  /\ run' = [run EXCEPT ![i].timer = "off", ![i].timedOut = TRUE]
  /\ child' = [child EXCEPT ![i] = Kill(@)]
  /\ UNCHANGED <<trial, signal, outcome>>

\* The abort listener, which finish removes.
Abort ==
  /\ HasSignal /\ signal = "quiet" /\ outcome = "pending"
  /\ signal' = "aborted"
  /\ LET listening == {i \in Tries : run[i].promise = "pending"}
     IN /\ run' = [i \in Tries |-> IF i \in listening THEN Finish(run[i], "aborted") ELSE run[i]]
        /\ child' = [i \in Tries |-> IF i \in listening THEN Kill(child[i]) ELSE child[i]]
  /\ UNCHANGED <<trial, outcome>>

\* The process is over and its pipes are drained.
Drained(i) == child[i].life = "exited" /\ run[i].read = child[i].written

Close(i) ==
  /\ run[i].heard /\ Drained(i)
  /\ run' = [run EXCEPT ![i] = Finish(@, Closed(run[i], child[i]))]
  /\ child' = [child EXCEPT ![i].life = "gone"]
  /\ UNCHANGED <<trial, signal, outcome>>

-----------------------------------------------------------------------------
(* The loop of reviewCommandWithAuditor goes on *)

Retryable_any(result) == ~Configured

\* Only a missing interpreter lets the loop go on, and only if none is configured.
Retryable(result) == ~Configured /\ result = "ENOENT"

MoreToTry == trial < Interpreters

Returns ==
  /\ outcome = "pending" /\ run[trial].promise \in Answers
  /\ outcome' = run[trial].promise
  /\ UNCHANGED <<trial, run, child, signal>>

TriesNext ==
  /\ outcome = "pending" /\ run[trial].promise \in Errors
  /\ Retryable(run[trial].promise) /\ MoreToTry
  /\ trial' = trial + 1
  /\ UNCHANGED <<run, child, signal, outcome>>

Throws ==
  /\ outcome = "pending" /\ run[trial].promise \in Errors
  /\ ~(Retryable(run[trial].promise) /\ MoreToTry)
  /\ outcome' = run[trial].promise
  /\ UNCHANGED <<trial, run, child, signal>>

-----------------------------------------------------------------------------
(* The process, which the program does not control *)

ChildWrites(i) ==
  /\ child[i].life = "running" /\ child[i].written < child[i].size
  /\ child' = [child EXCEPT ![i].written = @ + 1]
  /\ UNCHANGED <<trial, run, signal, outcome>>

\* It may end at any time, with any code, whole or not.
ChildExits(i) ==
  /\ child[i].life = "running"
  /\ \E code \in {0, 1} :
       child' = [child EXCEPT ![i].life = "exited", ![i].code = code]
  /\ UNCHANGED <<trial, run, signal, outcome>>

Callback(i) ==
  SpawnError(i) \/ Data(i) \/ StdinError(i) \/ TimerFires(i) \/ Close(i)

Loop == Spawn \/ SpawnThrows \/ Returns \/ TriesNext \/ Throws

Next ==
  \/ Loop \/ Abort
  \/ \E i \in Tries : Callback(i) \/ ChildWrites(i) \/ ChildExits(i)

Spec == Init /\ [][Next]_vars

\* The event loop delivers what is due, the timer goes off, and a process that
\* was killed ends. A process that was not killed may run for ever, silent.
Fairness ==
  /\ WF_vars(Loop)
  /\ \A i \in Tries :
       /\ WF_vars(SpawnError(i)) /\ WF_vars(TimerFires(i))
       /\ WF_vars(Data(i)) /\ WF_vars(Close(i))
       /\ WF_vars(child[i].killed /\ ChildExits(i))

FairSpec == Spec /\ Fairness

-----------------------------------------------------------------------------
(* Properties *)

TypeOK ==
  /\ trial \in Tries
  /\ run \in [Tries -> Running]
  /\ child \in [Tries -> Process]
  /\ signal \in {"quiet", "aborted"}
  /\ outcome \in {"pending"} \cup Results

\* An answer is what a process that ended well, in time and within the limit
\* wrote from the first chunk to the last: nothing is parsed before close.
AnswerIsWhole ==
  outcome \in Answers =>
    LET r == run[trial]
        p == child[trial]
    IN /\ p.says = outcome /\ p.code = 0 /\ p.life = "gone"
       /\ r.read = p.size /\ p.size <= MaxStdout
       /\ ~r.timedOut

\* When the review is over no timer is left to keep the host awake, and no
\* process to run on, unless it was told to stop or has lost the input it is
\* waiting for (reviewer.ts:338-352).
NothingLeftRunning ==
  outcome # "pending" =>
    \A i \in Tries :
      /\ run[i].timer = "off"
      /\ child[i].life = "running" => child[i].killed \/ child[i].stdinBroke

\* At most one auditor works on a review: another interpreter is tried only
\* when the one before it never started.
OneAuditor == Cardinality({i \in Tries : child[i].life \in {"running", "exited", "gone"}
                                         /\ run[i].promise # "ENOENT"}) <= 1

\* The review gives up for want of an interpreter only when each was missing.
AllWereTried ==
  outcome = "ENOENT" => \A i \in Tries : run[i].promise = "ENOENT"

\* The interpreters are tried one after the other, and all of them before the review
\* gives up (reviewer.ts:464-476).
TriedInTurn == OneAuditor /\ AllWereTried

\* A review ends whatever its process does, as long as a kill works.
ReviewSettles == <>(outcome # "pending")
=============================================================================

---------------------------- MODULE MCHost_proofs ----------------------------
(***************************************************************************)
(* The safety of what lies around the verdict, for all values of the       *)
(* constants: of one run of the supervisor, for any capacity of the pipes  *)
(* and any amount of output, whichever system call fails; of the hooks     *)
(* that put it in place, for any shells and calls; of the options; and of  *)
(* the rewriting of a detached start, for commands of any length.          *)
(***************************************************************************)
EXTENDS MCHost, Integers, SequenceTheorems, WellFoundedInduction, TLAPS


-----------------------------------------------------------------------------
(* The inductive invariant *)

\* The system calls before there is a bash, before the relays, and after bash.
Early == {"create_job", "limit_job", "stdout", "stderr", "nul", "attributes", "create"}
Unrelayed == Early \cup {"assign", "resume", "relay"}
Guarded == {"wait", "exit_code", "release_job", "close_job"}
After == {"exit_code", "release_job", "close_job", "drain", "done"}

\* Whether the relays have been started.
Relaying == \A p \in Pipes : relay[p] # "none"
NoRelays == \A p \in Pipes : relay[p] = "none"

\* What is open while the main thread is before each of its system calls.
HandleInv ==
  /\ reclosed = FALSE
  /\ pc \in {"create_job", "gone"} => open = {}
  /\ pc \in {"limit_job", "stdout"} => open = {"job"}
  /\ pc = "stderr" => open = {"job", "stdout_read", "stdout_write"}
  /\ pc = "nul" => open = Ends \cup {"job"}
  /\ pc \in {"attributes", "create"} => open = Ends \cup {"job", "nul"}
  /\ pc \in {"assign", "resume", "relay"} => open = Rest
  /\ pc \in Guarded => {"process", "thread", "job"} \subseteq open /\ open \subseteq Rest
  /\ pc \in {"drain", "done"} => open \subseteq {"stdout_read", "stderr_read"}
  /\ pc = "failed" => \/ NoRelays /\ open = {}
                      \/ Relaying /\ {"process", "thread", "job"} \subseteq open /\ open \subseteq Rest
  /\ pc \in Unrelayed => NoRelays
  /\ pc \in Guarded \cup {"drain", "done"} => Relaying
  /\ pc # "gone" => \A p \in Pipes : relay[p] \in {"reading", "writing", "done"} =>
                      (Read[p] \in open <=> relay[p] # "done")

\* The processes, the limit that guards them and the codes.
TreeInv ==
  /\ pc \in Early => bash = "none" /\ ~inJob
  /\ pc = "assign" => bash = "suspended" /\ ~inJob
  /\ pc = "resume" => bash = "suspended" /\ inJob
  /\ pc \in {"relay", "wait"} => bash \in {"running", "exited"} /\ inJob
  /\ pc \in After => bash = "exited" /\ inJob
  /\ pc = "failed" => \/ NoRelays /\ bash \in {"none", "killed"} /\ child = "none"
                      \/ Relaying /\ inJob /\ killOnClose
  /\ pc = "gone" => bash # "running" /\ (bash = "suspended" => exit = None /\ ~inJob)
  /\ bash \in {"none", "suspended"} => child = "none"
  /\ bash = "exited" => code \in Codes
  /\ pc \in {"create_job", "limit_job"} => ~killOnClose
  /\ pc \in (Unrelayed \cup {"wait", "exit_code", "release_job"}) \ {"create_job", "limit_job"} =>
       killOnClose
  /\ released => pc \in {"close_job", "drain", "done", "gone"} /\ ~killOnClose /\ child # "killed"
  /\ pc = "close_job" /\ ~released => killOnClose
  /\ pc \in {"relay"} \cup Guarded => child # "killed"
  /\ pc \in {"drain", "done", "gone"} /\ ~released => child # "running"
  /\ drain # "none" => pc \in {"done", "gone"} /\ exit \in {code, 125} /\ code \in Codes
  /\ pc \in After \ {"exit_code"} => exit \in {code, 125}

\* Pipes whose relay has met no failure, and still runs or has seen the end.
Intact(p) == p \notin lost /\ (pc = "gone" => relay[p] = "done")

\* What was written is delivered, carried or in the pipe, as long as nothing was given up.
PipeInv ==
  /\ \A p \in Pipes :
       /\ relay[p] # "writing" => carry[p] = 0
       /\ delivered[p] + carry[p] + buffer[p] <= written[p]
       /\ Intact(p) => delivered[p] + carry[p] + buffer[p] = written[p]
       /\ relay[p] = "done" => buffer[p] = 0 /\ (p \notin lost => ~Holders(p))
  /\ drain = "complete" => Drained

RunInv == TypeOK /\ HandleInv /\ TreeInv /\ PipeInv

-----------------------------------------------------------------------------
(* The names of the handles *)

\* The two ends of the two pipes.
LEMMA Names ==
  /\ Read["stdout"] = "stdout_read" /\ Read["stderr"] = "stderr_read"
  /\ Write["stdout"] = "stdout_write" /\ Write["stderr"] = "stderr_write"
  /\ \A p \in Pipes : p = "stdout" \/ p = "stderr"
  /\ "stdout" \in Pipes /\ "stderr" \in Pipes
  BY DEF Read, Write, Pipes

LEMMA Sets ==
  /\ Ends = {"stdout_read", "stderr_read", "stdout_write", "stderr_write"}
  /\ Rest = {"process", "thread", "stdout_read", "stderr_read", "job"}
  /\ ChildEnds = {"nul", "stdout_write", "stderr_write"}
  /\ Handles = {"stdout_read", "stderr_read", "stdout_write", "stderr_write",
                "job", "nul", "process", "thread"}
<1>1. Ends = {Read["stdout"], Read["stderr"], Write["stdout"], Write["stderr"]}
  BY DEF Ends, Pipes
<1> QED
  BY <1>1, Names DEF Rest, ChildEnds, Handles

-----------------------------------------------------------------------------
(* Steps that most of the state sits out *)

\* A system call before there is a bash leaves nothing behind it but handles.
LEMMA EarlyStep ==
  ASSUME RunInv, CreateJob \/ LimitJob \/ CreateStdout \/ CreateStderr \/ OpenNul \/ Attributes
                 \/ CreateBash
  PROVE  /\ pc \in Early
         /\ UNCHANGED <<child, holds, code, inJob, buffer, relay, carry, written, delivered, reader, lost, released, drain, exit>>
         /\ \/ killOnClose' = killOnClose /\ ~(pc = "limit_job" /\ pc' = "stdout")
            \/ killOnClose' = TRUE /\ pc = "limit_job" /\ pc' = "stdout"
         /\ \/ /\ pc' \in Early \ {"create_job"} /\ bash' = bash
               /\ pc' = "limit_job" => pc = "create_job"
            \/ pc' = "failed" /\ bash' = bash
            \/ pc = "create" /\ pc' = "assign" /\ bash' = "suspended"
<1>1. pc \in Early
  BY DEF CreateJob, LimitJob, CreateStdout, CreateStderr, OpenNul, Attributes, CreateBash, Early
<1>2. ~inJob
  BY <1>1 DEF RunInv, TreeInv
<1>3. \A handles : Refuse(handles) => pc' = "failed" /\ UNCHANGED <<bash, killOnClose, child, holds, code, inJob, buffer, relay, carry, written, delivered, reader, lost, released, drain, exit>>
  BY <1>2 DEF Refuse, JobGoes, job, pipes, ended
<1>4. CASE CreateJob
  BY <1>1, <1>3, <1>4 DEF CreateJob, Early, Goes, Opens, job, tree, pipes, ended
<1>5. CASE LimitJob
  BY <1>1, <1>3, <1>5 DEF LimitJob, Early, Goes, Opens, job, tree, pipes, ended, Limit
<1>6. CASE CreateStdout
  BY <1>1, <1>3, <1>6 DEF CreateStdout, Early, Goes, Opens, job, tree, pipes, ended
<1>7. CASE CreateStderr
  BY <1>1, <1>3, <1>7 DEF CreateStderr, Early, Goes, Opens, job, tree, pipes, ended
<1>8. CASE OpenNul
  BY <1>1, <1>3, <1>8 DEF OpenNul, Early, Goes, Opens, job, tree, pipes, ended
<1>9. CASE Attributes
  BY <1>1, <1>3, <1>9 DEF Attributes, Early, Goes, Opens, job, tree, pipes, ended
<1>10. CASE CreateBash
  BY <1>1, <1>3, <1>10 DEF CreateBash, Early, Goes, Opens, job, tree, pipes, ended
<1> QED
  BY <1>4, <1>5, <1>6, <1>7, <1>8, <1>9, <1>10

\* What a relay has finished stays finished when nobody new can write.
LEMMA PipesRest ==
  ASSUME PipeInv, UNCHANGED <<buffer, relay, carry, written, delivered, reader, lost>>,
         drain' = "complete" => drain = "complete" \/ Drained,
         pc # "gone" \/ pc' = "gone",
         \A p \in Pipes : relay[p] = "done" => (Holders(p)' => Holders(p))
  PROVE  PipeInv'
<1>1. \A p \in Pipes : relay[p] = "done" /\ p \notin lost => ~Holders(p)'
  BY DEF PipeInv
<1>2. \A p \in Pipes : Intact(p)' => Intact(p)
  BY DEF Intact
<1> QED
  BY <1>1, <1>2 DEF PipeInv, Drained

\* The limit is the second thing to be set up.
LEMMA EarlyOrder ==
  ASSUME RunInv, CreateJob \/ LimitJob \/ CreateStdout \/ CreateStderr \/ OpenNul \/ Attributes
                 \/ CreateBash,
         pc' \in Early, pc \in {"create_job", "limit_job"}, pc' # "limit_job"
  PROVE  killOnClose' = TRUE
<1>1. pc = "create_job" => CreateJob
  BY DEF CreateJob, LimitJob, CreateStdout, CreateStderr, OpenNul, Attributes, CreateBash
<1>2. pc = "limit_job" => LimitJob
  BY DEF CreateJob, LimitJob, CreateStdout, CreateStderr, OpenNul, Attributes, CreateBash
<1>3. pc' # "failed"
  BY DEF Early
<1> QED
  BY <1>1, <1>2, <1>3 DEF CreateJob, LimitJob, Goes, Refuse, Limit

LEMMA EarlyTree ==
  ASSUME RunInv, CreateJob \/ LimitJob \/ CreateStdout \/ CreateStderr \/ OpenNul \/ Attributes
                 \/ CreateBash
  PROVE  TreeInv'
<1>1. pc \in Early /\ NoRelays
  BY EarlyStep DEF RunInv, HandleInv, Unrelayed
<1>2. UNCHANGED relay
  BY EarlyStep
<1>3. NoRelays'
  BY <1>1, <1>2 DEF NoRelays
<1>4. bash = "none" /\ ~inJob /\ child = "none" /\ released = FALSE /\ drain = "none"
      /\ (pc \notin {"create_job", "limit_job"} => killOnClose)
      /\ (pc \in {"create_job", "limit_job"} => ~killOnClose)
  BY <1>1 DEF RunInv, TypeOK, TreeInv, Early, Unrelayed
<1>5. CASE pc' = "failed"
  BY <1>3, <1>4, <1>5, EarlyStep DEF TreeInv, Early, Unrelayed, Guarded, After
<1>6. CASE pc' = "assign"
  BY <1>1, <1>4, <1>6, EarlyStep DEF TreeInv, Early, Unrelayed, Guarded, After
<1>7. CASE pc' \in Early \ {"create_job"}
  <2>1. UNCHANGED <<bash, child, inJob, released, drain>>
        /\ (pc' = "limit_job" => pc = "create_job") /\ pc' # "create_job"
    BY <1>7, EarlyStep DEF Early
  <2>2. /\ pc' \notin {"create_job", "limit_job"} => killOnClose'
        /\ pc' \in {"create_job", "limit_job"} => ~killOnClose'
    <3>1. CASE pc' = "limit_job"
      BY <1>4, <2>1, <3>1, EarlyStep
    <3>2. CASE pc' # "limit_job" /\ pc \in {"create_job", "limit_job"}
      BY <1>1, <1>7, <2>1, <3>2, EarlyOrder
    <3>3. CASE pc \notin {"create_job", "limit_job"}
      BY <1>4, <2>1, <3>3, EarlyStep
    <3> QED
      BY <2>1, <3>1, <3>2, <3>3
  <2> QED
    BY <1>4, <1>7, <2>1, <2>2 DEF TreeInv, Early, Unrelayed, Guarded, After
<1> QED
  BY <1>5, <1>6, <1>7, EarlyStep

LEMMA EarlyPipe ==
  ASSUME RunInv, CreateJob \/ LimitJob \/ CreateStdout \/ CreateStderr \/ OpenNul \/ Attributes
                 \/ CreateBash
  PROVE  PipeInv'
<1>1. NoRelays
  BY EarlyStep DEF RunInv, HandleInv, Unrelayed
<1>2. \A p \in Pipes : relay[p] # "done"
  BY <1>1 DEF NoRelays
<1> QED
  BY <1>2, EarlyStep, PipesRest DEF RunInv, Early

\* A relay that writes goes on writing or reads again.
LEMMA TwoPhases ==
  ASSUME NEW p \in Pipes, RelayWrites(p) \/ WriteFails(p)
  PROVE  relay' \in {[relay EXCEPT ![p] = "reading"], [relay EXCEPT ![p] = "writing"]}
<1>1. CASE RelayWrites(p)
  <2>1. relay[p] = "writing" /\ relay' = [relay EXCEPT ![p] = IF carry'[p] = 0 THEN "reading" ELSE @]
    BY <1>1 DEF RelayWrites
  <2> QED
    BY <2>1
<1>2. CASE WriteFails(p)
  BY <1>2 DEF WriteFails
<1> QED
  BY <1>1, <1>2

\* One relay moving on does not undo that all of them were started, or that none was.
LEMMA StaysRelaying ==
  ASSUME RunInv, NEW p \in Pipes, relay[p] # "none",
         \E phase \in {"reading", "writing", "done"} : relay' = [relay EXCEPT ![p] = phase]
  PROVE  /\ ~NoRelays /\ (Relaying => Relaying')
         /\ \A q \in Pipes : q # p => relay'[q] = relay[q]
         /\ relay'[p] \in {"reading", "writing", "done"}
  BY DEF RunInv, TypeOK, NoRelays, Relaying

\* Every step opens and closes what HandleInv says.
LEMMA HandleStep == RunInv /\ Next => HandleInv'
<1> SUFFICES ASSUME RunInv, Next PROVE HandleInv'
  OBVIOUS
<1>1. CASE CreateJob
  <2>1. pc = "create_job" /\ open = {} /\ reclosed = FALSE /\ NoRelays
    BY <1>1 DEF RunInv, HandleInv, CreateJob, Unrelayed, Early
  <2>2. UNCHANGED relay
    BY <1>1 DEF CreateJob, Goes, Refuse, pipes
  <2>3. NoRelays'
    BY <2>1, <2>2 DEF NoRelays
  <2>4. \/ pc' = "limit_job" /\ open' = {"job"} /\ reclosed' = FALSE
        \/ pc' = "failed" /\ open' = {} /\ reclosed' = FALSE
    BY <1>1, <2>1 DEF CreateJob, Goes, Opens, Refuse, Closes
  <2> QED
    BY <2>3, <2>4 DEF HandleInv, NoRelays, Guarded, Early
<1>2. CASE LimitJob
  BY <1>2 DEF LimitJob, RunInv, HandleInv, NoRelays, Early, Unrelayed, Guarded, Goes, Refuse, Closes,
     pipes
<1>3. CASE CreateStdout
  BY <1>3, Names DEF CreateStdout, RunInv, HandleInv, NoRelays, Early, Unrelayed, Guarded, Goes,
     Opens, Refuse, Closes, pipes
<1>4. CASE CreateStderr
  BY <1>4, Names, Sets DEF CreateStderr, RunInv, HandleInv, NoRelays, Early, Unrelayed, Guarded, Goes,
     Opens, Refuse, Closes, pipes
<1>5. CASE OpenNul
  BY <1>5 DEF OpenNul, RunInv, HandleInv, NoRelays, Early, Unrelayed, Guarded, Goes, Opens, Refuse,
     Closes, pipes
<1>6. CASE Attributes
  BY <1>6 DEF Attributes, RunInv, HandleInv, NoRelays, Early, Unrelayed, Guarded, Goes, Refuse,
     Closes, pipes
<1>7. CASE CreateBash
  <2>1. pc = "create" /\ open = Ends \cup {"job", "nul"} /\ reclosed = FALSE /\ NoRelays
    BY <1>7 DEF RunInv, HandleInv, CreateBash, Unrelayed, Early
  <2>2. UNCHANGED relay
    BY <1>7 DEF CreateBash, Refuse, pipes
  <2>3. NoRelays'
    BY <2>1, <2>2 DEF NoRelays
  <2>4. \/ pc' = "assign" /\ open' = (open \ ChildEnds) \cup {"process", "thread"} /\ reclosed' = FALSE
        \/ Refuse(ChildEnds \cup {Read.stdout, Read.stderr, "job"})
    BY <1>7, <2>1 DEF CreateBash
  <2>5. CASE pc' = "assign" /\ open' = (open \ ChildEnds) \cup {"process", "thread"} /\ reclosed' = FALSE
    <3>1. open' = Rest
      BY <2>1, <2>5, Sets
    <3> QED
      BY <2>3, <2>5, <3>1 DEF HandleInv, NoRelays, Guarded, Early, Unrelayed
  <2>6. CASE Refuse(ChildEnds \cup {Read.stdout, Read.stderr, "job"})
    <3>1. pc' = "failed" /\ open' = {} /\ reclosed' = FALSE
      BY <2>1, <2>6, Names, Sets DEF Refuse, Closes
    <3> QED
      BY <2>3, <3>1 DEF HandleInv, NoRelays, Guarded, Early
  <2> QED
    BY <2>4, <2>5, <2>6
<1>8. CASE Assign
  BY <1>8 DEF Assign, RunInv, HandleInv, NoRelays, Unrelayed, Guarded, Goes, Closes, pipes
<1>9. CASE Resume
  BY <1>9 DEF Resume, RunInv, HandleInv, NoRelays, Unrelayed, Guarded, pipes, Refuse, Closes
<1>10. CASE StartRelays
  BY <1>10, Names, Sets DEF StartRelays, RunInv, HandleInv, Relaying, Early, Unrelayed, Started
<1>11. CASE WaitForBash \/ WaitFails
  <2>1. pc = "wait" /\ pc' \in {"exit_code", "failed"} /\ UNCHANGED <<open, reclosed, relay>>
    BY <1>11 DEF WaitForBash, WaitFails, Goes, pipes
  <2>2. {"process", "thread", "job"} \subseteq open /\ open \subseteq Rest /\ Relaying
        /\ reclosed = FALSE
    BY <2>1 DEF RunInv, HandleInv, Guarded
  <2>3. \A p \in Pipes : relay[p] \in {"reading", "writing", "done"} =>
          (Read[p] \in open <=> relay[p] # "done")
    BY <2>1 DEF RunInv, HandleInv
  <2> QED
    BY <2>1, <2>2, <2>3 DEF HandleInv, Relaying, NoRelays, Guarded, Unrelayed, Early
<1>12. CASE ExitCode
  BY <1>12 DEF ExitCode, RunInv, HandleInv, Relaying, Early, Unrelayed, Guarded, pipes
<1>13. CASE ReleaseJob
  BY <1>13 DEF ReleaseJob, RunInv, HandleInv, Relaying, Early, Unrelayed, Guarded, pipes
<1>14. CASE CloseJob
  BY <1>14, Names, Sets DEF CloseJob, RunInv, HandleInv, Relaying, Early, Unrelayed, Guarded, Closes,
     pipes
<1>15. CASE Drain
  BY <1>15 DEF Drain, RunInv, HandleInv, Relaying, Early, Unrelayed, Guarded, pipes
<1>16. CASE Deadline
  BY <1>16 DEF Deadline, RunInv, HandleInv, Relaying, Early, Unrelayed, Guarded, pipes
<1>17. CASE Exit
  BY <1>17 DEF Exit, RunInv, HandleInv, Early, Unrelayed, Guarded, Vanish
<1>18. CASE Kill
  BY <1>18 DEF Kill, RunInv, HandleInv, Early, Unrelayed, Guarded, Vanish
<1>19. ASSUME NEW p \in Pipes, RelayReads(p) PROVE HandleInv'
  BY <1>19 DEF RelayReads, RunInv, HandleInv, Relaying, NoRelays, Frozen
<1>20. ASSUME NEW p \in Pipes, RelayEnds(p) \/ ReadFails(p) PROVE HandleInv'
  <2>1. /\ pc # "gone" /\ relay[p] = "reading" /\ relay' = [relay EXCEPT ![p] = "done"]
        /\ open' = open \ {Read[p]} /\ pc' = pc
        /\ reclosed' = (reclosed \/ ~({Read[p]} \subseteq open))
    BY <1>20 DEF RelayEnds, ReadFails, Closes, Frozen
  <2>2. Read[p] \in open /\ reclosed = FALSE
    BY <2>1 DEF RunInv, HandleInv
  <2>3. reclosed' = FALSE
    BY <2>1, <2>2
  <2>4. \A q \in Pipes : relay'[q] = IF q = p THEN "done" ELSE relay[q]
    BY <2>1 DEF RunInv, TypeOK
  <2>5. ~NoRelays /\ pc \notin Unrelayed
    BY <2>1 DEF NoRelays, RunInv, HandleInv
  <2>6. \A q \in Pipes : relay'[q] \in {"reading", "writing", "done"} =>
          (Read[q] \in open' <=> relay'[q] # "done")
    <3>1. \A q \in Pipes : q # p => Read[q] # Read[p]
      BY Names
    <3> QED
      BY <2>1, <2>4, <3>1 DEF RunInv, HandleInv
  <2>7. Relaying => Relaying'
    BY <2>4 DEF Relaying
  <2>8. Read[p] \in {"stdout_read", "stderr_read"}
    BY Names
  <2> QED
    BY <2>1, <2>3, <2>5, <2>6, <2>7, <2>8 DEF RunInv, HandleInv, Unrelayed, Early, Guarded
<1>21. ASSUME NEW p \in Pipes, RelayWrites(p) \/ WriteFails(p) PROVE HandleInv'
  <2>1. /\ relay[p] = "writing" /\ UNCHANGED <<pc, open, reclosed>>
        /\ \E phase \in {"reading", "writing"} : relay' = [relay EXCEPT ![p] = phase]
    BY <1>21, TwoPhases DEF RelayWrites, WriteFails, Frozen
  <2>2. /\ ~NoRelays /\ (Relaying => Relaying')
        /\ \A q \in Pipes : q # p => relay'[q] = relay[q]
        /\ relay'[p] \in {"reading", "writing", "done"}
    BY <2>1, StaysRelaying
  <2>3. relay'[p] # "done"
    BY <2>1 DEF RunInv, TypeOK
  <2>4. pc # "gone" => \A q \in Pipes : relay'[q] \in {"reading", "writing", "done"} =>
          (Read[q] \in open <=> relay'[q] # "done")
    BY <2>1, <2>2, <2>3 DEF RunInv, HandleInv
  <2> QED
    BY <2>1, <2>2, <2>4 DEF RunInv, HandleInv
<1>22. ASSUME NEW p \in Pipes, Writes(p) PROVE HandleInv'
  BY <1>22 DEF Writes, RunInv, HandleInv, Relaying, NoRelays, Outside
<1>23. CASE Spawns
  BY <1>23 DEF Spawns, RunInv, HandleInv, Relaying, NoRelays, pipes, Outside
<1>24. CASE BashEnds
  BY <1>24 DEF BashEnds, RunInv, HandleInv, Relaying, NoRelays, pipes, Outside
<1>25. CASE ChildEndsItself
  BY <1>25 DEF ChildEndsItself, RunInv, HandleInv, Relaying, NoRelays, pipes, Outside
<1>26. CASE ReaderCloses
  BY <1>26 DEF ReaderCloses, RunInv, HandleInv, Relaying, NoRelays, Outside
<1> QED
  BY <1>1, <1>2, <1>3, <1>4, <1>5, <1>6, <1>7, <1>8, <1>9, <1>10, <1>11, <1>12, <1>13, <1>14, <1>15,
     <1>16, <1>17, <1>18, <1>19, <1>20, <1>21, <1>22, <1>23, <1>24, <1>25, <1>26 DEF Next, Main, Relay

\* Every step leaves the processes and the limit as the next system call expects them.
LEMMA TreeStep == RunInv /\ Next => TreeInv'
<1> SUFFICES ASSUME RunInv, Next PROVE TreeInv'
  OBVIOUS
<1>1. CASE CreateJob
  BY <1>1, EarlyTree
<1>2. CASE LimitJob
  BY <1>2, EarlyTree
<1>3. CASE CreateStdout
  BY <1>3, EarlyTree
<1>4. CASE CreateStderr
  BY <1>4, EarlyTree
<1>5. CASE OpenNul
  BY <1>5, EarlyTree
<1>6. CASE Attributes
  BY <1>6, EarlyTree
<1>7. CASE CreateBash
  BY <1>7, EarlyTree
<1>8. CASE Assign
  <2>1. /\ pc = "assign" /\ bash = "suspended" /\ ~inJob /\ child = "none" /\ NoRelays
        /\ killOnClose /\ released = FALSE /\ drain = "none"
    BY <1>8 DEF RunInv, TypeOK, HandleInv, TreeInv, Assign, Early, Unrelayed
  <2>2. /\ UNCHANGED <<killOnClose, child, code, relay, released, drain, exit>>
        /\ \/ pc' = "resume" /\ inJob' = TRUE /\ bash' = bash
           \/ pc' = "failed" /\ inJob' = inJob /\ bash' = "killed"
    BY <1>8, <2>1 DEF Assign, Goes, Terminated, Killed, Alive, job, tree, pipes, ended
  <2>3. NoRelays'
    BY <2>1, <2>2 DEF NoRelays
  <2> QED
    BY <2>1, <2>2, <2>3 DEF TreeInv, Early, Unrelayed, Guarded, After
<1>9. CASE Resume
  <2>1. /\ pc = "resume" /\ bash = "suspended" /\ inJob /\ child = "none" /\ NoRelays
        /\ killOnClose /\ released = FALSE /\ drain = "none" /\ "job" \in Rest
    BY <1>9, Sets DEF RunInv, TypeOK, HandleInv, TreeInv, Resume, Early, Unrelayed
  <2>2. /\ UNCHANGED <<killOnClose, inJob, code, relay, released, drain, exit>> /\ child' = "none"
        /\ \/ pc' = "relay" /\ bash' = "running"
           \/ pc' = "failed" /\ bash' = "killed"
    BY <1>9, <2>1 DEF Resume, Refuse, JobGoes, Killed, Alive, job, tree, pipes, ended
  <2>3. NoRelays'
    BY <2>1, <2>2 DEF NoRelays
  <2> QED
    BY <2>1, <2>2, <2>3 DEF TreeInv, Early, Unrelayed, Guarded, After
<1>10. CASE StartRelays
  <2>1. /\ pc = "relay" /\ bash \in {"running", "exited"} /\ inJob /\ killOnClose
        /\ released = FALSE /\ drain = "none" /\ child # "killed"
    BY <1>10 DEF RunInv, TypeOK, TreeInv, StartRelays, Early, Unrelayed
  <2>2. pc' = "wait" /\ UNCHANGED <<bash, inJob, killOnClose, child, code, released, drain, exit>>
    BY <1>10 DEF StartRelays, job, tree, ended
  <2> QED
    BY <2>1, <2>2 DEF RunInv, TreeInv, Early, Unrelayed, Guarded, After
<1>11. CASE WaitForBash \/ WaitFails
  <2>1. /\ pc = "wait" /\ bash \in {"running", "exited"} /\ inJob /\ killOnClose
        /\ released = FALSE /\ drain = "none" /\ child # "killed" /\ Relaying
        /\ (bash = "exited" => code \in Codes)
    BY <1>11 DEF RunInv, TypeOK, HandleInv, TreeInv, WaitForBash, WaitFails, Early, Unrelayed, Guarded
  <2>2. UNCHANGED <<inJob, killOnClose, relay, code, released, drain, exit>>
    BY <1>11 DEF WaitForBash, WaitFails, Goes, job, tree, pipes, ended
  <2>3. \/ pc' = "exit_code" /\ bash = "exited" /\ UNCHANGED <<bash, child>>
        \/ pc' = "failed" /\ bash' \in {bash, "killed"} /\ bash' # "none"
    BY <1>11, <2>1 DEF WaitForBash, WaitFails, Goes, Signaled, Killed, tree
  <2>4. Relaying'
    BY <2>1, <2>2 DEF Relaying
  <2> QED
    BY <2>1, <2>2, <2>3, <2>4 DEF TreeInv, Early, Unrelayed, Guarded, After
<1>12. CASE ExitCode
  BY <1>12 DEF ExitCode, RunInv, TreeInv, Early, Guarded, After, job, tree, ended
<1>13. CASE ReleaseJob
  <2>1. /\ pc = "release_job" /\ bash = "exited" /\ inJob /\ killOnClose /\ child # "killed"
        /\ drain = "none" /\ code \in Codes /\ exit \in {code, 125} /\ released = FALSE
    BY <1>13 DEF RunInv, TypeOK, TreeInv, ReleaseJob, Guarded, After
  <2>2. /\ pc' = "close_job" /\ UNCHANGED <<bash, inJob, child, code, drain, exit>>
        /\ \/ killOnClose' = FALSE /\ released' = TRUE
           \/ UNCHANGED <<killOnClose, released>>
    BY <1>13 DEF ReleaseJob, tree
  <2> QED
    BY <2>1, <2>2 DEF TreeInv, Early, Unrelayed, Guarded, After
<1>14. CASE CloseJob
  BY <1>14 DEF CloseJob, RunInv, TreeInv, Early, Unrelayed, Guarded, After, job, JobGoes, ended,
     Killed, Alive
<1>15. CASE Drain
  BY <1>15 DEF Drain, RunInv, TreeInv, Early, Unrelayed, Guarded, After, job, tree
<1>16. CASE Deadline
  BY <1>16 DEF Deadline, RunInv, TreeInv, Early, Unrelayed, Guarded, After, job, tree
<1>17. CASE Exit
  BY <1>17, Names DEF Exit, RunInv, TreeInv, HandleInv, Relaying, NoRelays, Early, Unrelayed, Guarded,
     After, Vanish, job, JobGoes, ended, Killed, Alive
<1>18. CASE Kill
  BY <1>18, Sets DEF Kill, RunInv, TreeInv, TypeOK, HandleInv, Early, Unrelayed, Guarded, After,
     Vanish, job, JobGoes, ended, Killed, Alive
<1>19. ASSUME NEW p \in Pipes, RelayReads(p) PROVE TreeInv'
  BY <1>19 DEF RelayReads, RunInv, TreeInv, Relaying, NoRelays, Frozen, job, tree, ended
<1>20. ASSUME NEW p \in Pipes, RelayEnds(p) \/ ReadFails(p) PROVE TreeInv'
  <2>1. /\ relay[p] # "none" /\ relay' = [relay EXCEPT ![p] = "done"]
        /\ UNCHANGED <<pc, killOnClose, inJob, bash, child, code, released, drain, exit>>
    BY <1>20 DEF RelayEnds, ReadFails, Frozen, job, tree, ended
  <2>2. ~NoRelays /\ (Relaying => Relaying')
    BY <2>1, StaysRelaying
  <2> QED
    BY <2>1, <2>2 DEF RunInv, TreeInv
<1>21. ASSUME NEW p \in Pipes, RelayWrites(p) \/ WriteFails(p) PROVE TreeInv'
  <2>1. /\ relay[p] # "none"
        /\ \E phase \in {"reading", "writing"} : relay' = [relay EXCEPT ![p] = phase]
        /\ UNCHANGED <<pc, killOnClose, inJob, bash, child, code, released, drain, exit>>
    BY <1>21, TwoPhases DEF RelayWrites, WriteFails, Frozen, job, tree, ended
  <2>2. ~NoRelays /\ (Relaying => Relaying')
    BY <2>1, StaysRelaying
  <2> QED
    BY <2>1, <2>2 DEF RunInv, TreeInv
<1>22. ASSUME NEW p \in Pipes, Writes(p) PROVE TreeInv'
  BY <1>22 DEF Writes, RunInv, TreeInv, Relaying, tree, Outside, job, ended
<1>23. CASE Spawns
  BY <1>23 DEF Spawns, RunInv, TreeInv, Relaying, After, pipes, Outside, job, ended
<1>24. CASE BashEnds
  BY <1>24 DEF BashEnds, RunInv, TreeInv, Relaying, After, pipes, Outside, job, ended
<1>25. CASE ChildEndsItself
  BY <1>25 DEF ChildEndsItself, RunInv, TreeInv, Relaying, pipes, Outside, job, ended
<1>26. CASE ReaderCloses
  BY <1>26 DEF ReaderCloses, RunInv, TreeInv, Relaying, NoRelays, tree, Outside, job, ended
<1> QED
  BY <1>1, <1>2, <1>3, <1>4, <1>5, <1>6, <1>7, <1>8, <1>9, <1>10, <1>11, <1>12, <1>13, <1>14, <1>15,
     <1>16, <1>17, <1>18, <1>19, <1>20, <1>21, <1>22, <1>23, <1>24, <1>25, <1>26 DEF Next, Main, Relay

\* No step loses a chunk, and nothing is written to a pipe whose relay is done.
LEMMA PipeStep == RunInv /\ Next => PipeInv'
<1> SUFFICES ASSUME RunInv, Next PROVE PipeInv'
  OBVIOUS
<1>1. CASE CreateJob
  BY <1>1, EarlyPipe
<1>2. CASE LimitJob
  BY <1>2, EarlyPipe
<1>3. CASE CreateStdout
  BY <1>3, EarlyPipe
<1>4. CASE CreateStderr
  BY <1>4, EarlyPipe
<1>5. CASE OpenNul
  BY <1>5, EarlyPipe
<1>6. CASE Attributes
  BY <1>6, EarlyPipe
<1>7. CASE CreateBash
  BY <1>7, EarlyPipe
<1>8. CASE Assign
  <2>1. \A p \in Pipes : relay[p] # "done"
    BY <1>8 DEF RunInv, HandleInv, NoRelays, Unrelayed, Assign
  <2>2. UNCHANGED <<buffer, relay, carry, written, delivered, reader, lost, drain>>
    BY <1>8 DEF Assign, Goes, Refuse, pipes, ended
  <2> QED
    BY <1>8, <2>1, <2>2, PipesRest DEF RunInv, Assign
<1>9. CASE Resume
  <2>1. \A p \in Pipes : relay[p] # "done"
    BY <1>9 DEF RunInv, HandleInv, NoRelays, Unrelayed, Resume
  <2>2. UNCHANGED <<buffer, relay, carry, written, delivered, reader, lost, drain>>
    BY <1>9 DEF Resume, Goes, Refuse, pipes, ended
  <2> QED
    BY <1>9, <2>1, <2>2, PipesRest DEF RunInv, Resume
<1>10. CASE StartRelays
  BY <1>10 DEF StartRelays, RunInv, PipeInv, Intact, HandleInv, TreeInv, Started, ended, NoRelays, Unrelayed
<1>11. CASE WaitForBash \/ WaitFails
  <2>1. UNCHANGED <<open, buffer, relay, carry, written, delivered, reader, lost, drain, holds>>
    BY <1>11 DEF WaitForBash, WaitFails, Goes, tree, pipes, ended
  <2>2. bash' \in {bash, "killed"} /\ child' \in {child, "killed"}
    BY <1>11 DEF WaitForBash, WaitFails, Goes, Killed, tree
  <2>3. \A p \in Pipes : Holders(p)' => Holders(p)
    BY <2>1, <2>2 DEF Holders
  <2> QED
    BY <1>11, <2>1, <2>3, PipesRest DEF RunInv, WaitForBash, WaitFails
<1>12. CASE ExitCode
  BY <1>12 DEF ExitCode, RunInv, PipeInv, Intact, TreeInv, Holders, tree, pipes, ended
<1>13. CASE ReleaseJob
  BY <1>13 DEF ReleaseJob, RunInv, PipeInv, Intact, TreeInv, Holders, tree, pipes
<1>14. CASE CloseJob
  BY <1>14 DEF CloseJob, RunInv, PipeInv, Intact, TreeInv, Holders, Closes, JobGoes, pipes, ended, Killed
<1>15. CASE Drain
  BY <1>15 DEF Drain, RunInv, PipeInv, Intact, Holders, Drained, tree, pipes
<1>16. CASE Deadline
  BY <1>16 DEF Deadline, RunInv, PipeInv, Intact, Holders, tree, pipes
<1>17. CASE Exit
  BY <1>17 DEF Exit, RunInv, PipeInv, Intact, Holders, Drained, Vanish, JobGoes, pipes, ended, Killed
<1>18. CASE Kill
  BY <1>18 DEF Kill, RunInv, PipeInv, Intact, TreeInv, Holders, Vanish, JobGoes, pipes, ended, Killed
<1>19. ASSUME NEW p \in Pipes, RelayReads(p) PROVE PipeInv'
  BY <1>19 DEF RelayReads, RunInv, PipeInv, Intact, TypeOK, Holders, Drained, Frozen, tree, ended
<1>20. ASSUME NEW p \in Pipes, RelayEnds(p) \/ ReadFails(p) PROVE PipeInv'
  <2>1. CASE RelayEnds(p)
    BY <2>1 DEF RelayEnds, RunInv, PipeInv, Intact, TypeOK, Holders, Eof, Drained, Frozen, tree, ended
  <2>2. CASE ReadFails(p)
    <3>1. UNCHANGED <<pc, bash, child, holds, drain, carry, written, delivered>>
      BY <2>2 DEF ReadFails, Frozen, tree, ended
    <3>2. /\ relay[p] = "reading" /\ relay' = [relay EXCEPT ![p] = "done"]
          /\ buffer' = [buffer EXCEPT ![p] = 0] /\ lost' = lost \cup {p} /\ pc # "gone"
      BY <2>2 DEF ReadFails
    <3>3. \A q \in Pipes : Holders(q)' <=> Holders(q)
      BY <3>1 DEF Holders
    <3>4. ASSUME NEW q \in Pipes, q # p
          PROVE  /\ relay'[q] = relay[q] /\ buffer'[q] = buffer[q]
                 /\ (Intact(q)' => Intact(q)) /\ (q \notin lost' => q \notin lost)
      BY <3>1, <3>2, <3>4 DEF RunInv, TypeOK, Intact
    <3>5. relay'[p] = "done" /\ buffer'[p] = 0 /\ ~Intact(p)' /\ p \in lost'
      BY <3>2 DEF RunInv, TypeOK, Intact
    <3>6. carry[p] \in Nat /\ buffer[p] \in Nat /\ written[p] \in Nat /\ delivered[p] \in Nat
      BY BoundsAssumption DEF RunInv, TypeOK
    <3>7. carry'[p] = 0 /\ delivered'[p] + carry'[p] + buffer'[p] <= written'[p]
      BY <3>1, <3>2, <3>5, <3>6 DEF RunInv, PipeInv
    <3>8. drain' = "complete" => Drained'
      BY <3>1, <3>2, <3>4, <3>5 DEF RunInv, PipeInv, Drained
    <3> QED
      BY <3>1, <3>3, <3>4, <3>5, <3>7, <3>8 DEF RunInv, PipeInv
  <2> QED
    BY <1>20, <2>1, <2>2
<1>21. ASSUME NEW p \in Pipes, RelayWrites(p) \/ WriteFails(p) PROVE PipeInv'
  BY <1>21 DEF RelayWrites, WriteFails, RunInv, PipeInv, Intact, TypeOK, Holders, Drained, Left, Frozen, tree, ended
<1>22. ASSUME NEW p \in Pipes, Writes(p) PROVE PipeInv'
  <2>1. UNCHANGED <<pc, bash, child, holds, drain, carry, relay, delivered, lost>>
    BY <1>22 DEF Writes, Outside, tree, ended
  <2>2. /\ written' = [written EXCEPT ![p] = @ + 1]
        /\ buffer' = [buffer EXCEPT ![p] = @ + 1]
        /\ relay[p] # "done"
    BY <1>22 DEF Writes, Broken
  <2>3. \A q \in Pipes : (Holders(q)' <=> Holders(q)) /\ (Intact(q)' <=> Intact(q))
    BY <2>1 DEF Holders, Intact
  <2>4. \A q \in Pipes : /\ carry[q] \in Nat /\ buffer[q] \in Nat
                          /\ written[q] \in Nat /\ delivered[q] \in Nat
    BY BoundsAssumption DEF RunInv, TypeOK
  <2>5. \A q \in Pipes : q # p => written'[q] = written[q] /\ buffer'[q] = buffer[q]
    BY <2>2 DEF RunInv, TypeOK
  <2>6. written'[p] = written[p] + 1 /\ buffer'[p] = buffer[p] + 1
    BY <2>2 DEF RunInv, TypeOK
  <2>7. /\ delivered[p] + carry[p] + buffer'[p] <= written'[p]
        /\ Intact(p) => delivered[p] + carry[p] + buffer'[p] = written'[p]
    BY <2>4, <2>6 DEF RunInv, PipeInv
  <2> QED
    BY <2>1, <2>2, <2>3, <2>5, <2>6, <2>7 DEF RunInv, PipeInv, Drained
<1>23. CASE Spawns
  BY <1>23 DEF Spawns, RunInv, PipeInv, Intact, Holders, Drained, pipes, Outside, ended
<1>24. CASE BashEnds
  BY <1>24 DEF BashEnds, RunInv, PipeInv, Intact, Holders, Drained, pipes, Outside, ended
<1>25. CASE ChildEndsItself
  BY <1>25 DEF ChildEndsItself, RunInv, PipeInv, Intact, Holders, Drained, pipes, Outside, ended
<1>26. CASE ReaderCloses
  BY <1>26 DEF ReaderCloses, RunInv, PipeInv, Intact, Holders, Drained, tree, Outside, ended
<1> QED
  BY <1>1, <1>2, <1>3, <1>4, <1>5, <1>6, <1>7, <1>8, <1>9, <1>10, <1>11, <1>12, <1>13, <1>14, <1>15,
     <1>16, <1>17, <1>18, <1>19, <1>20, <1>21, <1>22, <1>23, <1>24, <1>25, <1>26 DEF Next, Main, Relay

-----------------------------------------------------------------------------
(* Types *)

Flags == {reclosed, killOnClose, inJob, reader, released} \subseteq BOOLEAN
Chunks ==
  /\ buffer \in [Pipes -> 0..Capacity] /\ carry \in [Pipes -> 0..Capacity]
  /\ relay \in [Pipes -> {"none", "reading", "writing", "done"}]
  /\ written \in [Pipes -> 0..Output] /\ delivered \in [Pipes -> 0..Output]
  /\ lost \subseteq Pipes
Rests ==
  /\ pc \in {"create_job", "limit_job", "stdout", "stderr", "nul", "attributes", "create",
             "assign", "resume", "relay", "wait", "exit_code", "release_job", "close_job",
             "drain", "done", "failed", "gone"}
  /\ bash \in {"none", "suspended", "running", "exited", "killed"}
  /\ child \in {"none", "running", "exited", "killed"} /\ holds \subseteq Pipes
  /\ drain \in {"none", "complete", "cut"}
  /\ code \in Codes \cup {None} /\ exit \in Codes \cup {None, 125}

Opened == open \subseteq Handles

LEMMA TypeParts == TypeOK <=> Flags /\ Chunks /\ Rests /\ Opened
  BY DEF TypeOK, Flags, Chunks, Rests, Opened

\* The flags stay flags.
LEMMA FlagsStep == Flags /\ Next => Flags'
<1> SUFFICES ASSUME Flags, Next PROVE Flags'
  OBVIOUS
<1>1. CASE CreateJob
  BY <1>1 DEF CreateJob, Flags, Goes, Opens, job, Refuse, Closes, pipes, ended
<1>2. CASE LimitJob
  BY <1>2 DEF LimitJob, Flags, Limit, Goes, Refuse, job, Closes, pipes, ended
<1>3. CASE CreateStdout
  BY <1>3 DEF CreateStdout, Flags, Goes, Opens, job, Refuse, Closes, pipes, ended
<1>4. CASE CreateStderr
  BY <1>4 DEF CreateStderr, Flags, Goes, Opens, job, Refuse, Closes, pipes, ended
<1>5. CASE OpenNul
  BY <1>5 DEF OpenNul, Flags, Goes, Opens, job, Refuse, Closes, pipes, ended
<1>6. CASE Attributes
  BY <1>6 DEF Attributes, Flags, Goes, job, Refuse, Closes, pipes, ended
<1>7. CASE CreateBash
  BY <1>7 DEF CreateBash, Flags, job, pipes, ended, Refuse, Closes
<1>8. CASE Assign
  BY <1>8 DEF Assign, Flags, Goes, Closes, job, pipes, ended
<1>9. CASE Resume
  BY <1>9 DEF Resume, Flags, job, pipes, ended, Refuse, Closes
<1>10. CASE StartRelays
  BY <1>10 DEF StartRelays, Flags, job, ended
<1>11. CASE WaitForBash \/ WaitFails
  BY <1>11 DEF WaitForBash, WaitFails, Flags, Goes, job, pipes, ended
<1>12. CASE ExitCode
  BY <1>12 DEF ExitCode, Flags, job, pipes, ended
<1>13. CASE ReleaseJob
  BY <1>13 DEF ReleaseJob, Flags, pipes
<1>14. CASE CloseJob
  BY <1>14 DEF CloseJob, Flags, Closes, job, pipes, ended
<1>15. CASE Drain
  BY <1>15 DEF Drain, Flags, job, pipes
<1>16. CASE Deadline
  BY <1>16 DEF Deadline, Flags, job, pipes
<1>17. CASE Exit
  BY <1>17 DEF Exit, Flags, Vanish, job, pipes, ended
<1>18. CASE Kill
  BY <1>18 DEF Kill, Flags, Vanish, job, pipes, ended
<1>19. ASSUME NEW p \in Pipes, RelayReads(p) PROVE Flags'
  BY <1>19 DEF RelayReads, Flags, Frozen, job, ended
<1>20. ASSUME NEW p \in Pipes, RelayEnds(p) \/ ReadFails(p) PROVE Flags'
  BY <1>20 DEF RelayEnds, ReadFails, Flags, Closes, Frozen, job, ended
<1>21. ASSUME NEW p \in Pipes, RelayWrites(p) \/ WriteFails(p) PROVE Flags'
  BY <1>21 DEF RelayWrites, WriteFails, Flags, Frozen, job, ended
<1>22. ASSUME NEW p \in Pipes, Writes(p) PROVE Flags'
  BY <1>22 DEF Writes, Flags, Outside, job, ended
<1>23. CASE Spawns
  BY <1>23 DEF Spawns, Flags, pipes, Outside, job, ended
<1>24. CASE BashEnds
  BY <1>24 DEF BashEnds, Flags, pipes, Outside, job, ended
<1>25. CASE ChildEndsItself
  BY <1>25 DEF ChildEndsItself, Flags, pipes, Outside, job, ended
<1>26. CASE ReaderCloses
  BY <1>26 DEF ReaderCloses, Flags, Outside, job, ended
<1> QED
  BY <1>1, <1>2, <1>3, <1>4, <1>5, <1>6, <1>7, <1>8, <1>9, <1>10, <1>11, <1>12, <1>13, <1>14, <1>15,
     <1>16, <1>17, <1>18, <1>19, <1>20, <1>21, <1>22, <1>23, <1>24, <1>25, <1>26 DEF Next, Main, Relay

\* What is carried was in the pipe, and what is delivered was written.
LEMMA ChunksStep == RunInv /\ Next => Chunks'
<1> SUFFICES ASSUME RunInv, Next PROVE Chunks'
  OBVIOUS
<1>1. CASE CreateJob
  BY <1>1 DEF CreateJob, RunInv, Chunks, TypeOK, Goes, Refuse, pipes
<1>2. CASE LimitJob
  BY <1>2 DEF LimitJob, RunInv, Chunks, TypeOK, Goes, Refuse, pipes
<1>3. CASE CreateStdout
  BY <1>3 DEF CreateStdout, RunInv, Chunks, TypeOK, Goes, Refuse, pipes
<1>4. CASE CreateStderr
  BY <1>4 DEF CreateStderr, RunInv, Chunks, TypeOK, Goes, Refuse, pipes
<1>5. CASE OpenNul
  BY <1>5 DEF OpenNul, RunInv, Chunks, TypeOK, Goes, Refuse, pipes
<1>6. CASE Attributes
  BY <1>6 DEF Attributes, RunInv, Chunks, TypeOK, Goes, Refuse, pipes
<1>7. CASE CreateBash
  BY <1>7 DEF CreateBash, RunInv, Chunks, TypeOK, pipes, Refuse
<1>8. CASE Assign
  BY <1>8 DEF Assign, RunInv, Chunks, TypeOK, Goes, pipes
<1>9. CASE Resume
  BY <1>9 DEF Resume, RunInv, Chunks, TypeOK, pipes, Refuse
<1>10. CASE StartRelays
  BY <1>10 DEF StartRelays, RunInv, Chunks, TypeOK, Started
<1>11. CASE WaitForBash \/ WaitFails
  BY <1>11 DEF WaitForBash, WaitFails, RunInv, Chunks, TypeOK, Goes, pipes
<1>12. CASE ExitCode
  BY <1>12 DEF ExitCode, RunInv, Chunks, TypeOK, pipes
<1>13. CASE ReleaseJob
  BY <1>13 DEF ReleaseJob, RunInv, Chunks, TypeOK, pipes
<1>14. CASE CloseJob
  BY <1>14 DEF CloseJob, RunInv, Chunks, TypeOK, pipes
<1>15. CASE Drain
  BY <1>15 DEF Drain, RunInv, Chunks, TypeOK, pipes
<1>16. CASE Deadline
  BY <1>16 DEF Deadline, RunInv, Chunks, TypeOK, pipes
<1>17. CASE Exit
  BY <1>17 DEF Exit, RunInv, Chunks, TypeOK, Vanish, pipes
<1>18. CASE Kill
  BY <1>18 DEF Kill, RunInv, Chunks, TypeOK, Vanish, pipes
<1>19. ASSUME NEW p \in Pipes, RelayReads(p) PROVE Chunks'
  BY <1>19, BoundsAssumption DEF RelayReads, RunInv, Chunks, TypeOK
<1>20. ASSUME NEW p \in Pipes, RelayEnds(p) \/ ReadFails(p) PROVE Chunks'
  BY <1>20, BoundsAssumption DEF RelayEnds, ReadFails, RunInv, Chunks, TypeOK
<1>21. ASSUME NEW p \in Pipes, RelayWrites(p) \/ WriteFails(p) PROVE Chunks'
  BY <1>21, BoundsAssumption DEF RelayWrites, WriteFails, RunInv, Chunks, TypeOK, PipeInv, Left
<1>22. ASSUME NEW p \in Pipes, Writes(p) PROVE Chunks'
  BY <1>22, BoundsAssumption DEF Writes, RunInv, Chunks, TypeOK
<1>23. CASE Spawns
  BY <1>23 DEF Spawns, RunInv, Chunks, TypeOK, pipes
<1>24. CASE BashEnds
  BY <1>24 DEF BashEnds, RunInv, Chunks, TypeOK, pipes
<1>25. CASE ChildEndsItself
  BY <1>25 DEF ChildEndsItself, RunInv, Chunks, TypeOK, pipes
<1>26. CASE ReaderCloses
  BY <1>26 DEF ReaderCloses, RunInv, Chunks, TypeOK
<1> QED
  BY <1>1, <1>2, <1>3, <1>4, <1>5, <1>6, <1>7, <1>8, <1>9, <1>10, <1>11, <1>12, <1>13, <1>14, <1>15,
     <1>16, <1>17, <1>18, <1>19, <1>20, <1>21, <1>22, <1>23, <1>24, <1>25, <1>26 DEF Next, Main, Relay

\* The other variables keep their types.
LEMMA RestsStep == Rests /\ Next => Rests'
<1> SUFFICES ASSUME Rests, Next PROVE Rests'
  OBVIOUS
<1>1. CASE CreateJob
  BY <1>1 DEF CreateJob, Rests, Goes, Refuse, ended, tree
<1>2. CASE LimitJob
  BY <1>2 DEF LimitJob, Rests, Goes, Refuse, JobGoes, ended, Killed, tree
<1>3. CASE CreateStdout
  BY <1>3 DEF CreateStdout, Rests, Goes, Refuse, JobGoes, ended, Killed, tree
<1>4. CASE CreateStderr
  BY <1>4 DEF CreateStderr, Rests, Goes, Refuse, JobGoes, ended, Killed, tree
<1>5. CASE OpenNul
  BY <1>5 DEF OpenNul, Rests, Goes, Refuse, JobGoes, ended, Killed, tree
<1>6. CASE Attributes
  BY <1>6 DEF Attributes, Rests, Goes, Refuse, JobGoes, ended, Killed, tree
<1>7. CASE CreateBash
  BY <1>7 DEF CreateBash, Rests, ended, Refuse, JobGoes, Killed
<1>8. CASE Assign
  BY <1>8 DEF Assign, Rests, Terminated, Goes, ended, Killed, tree
<1>9. CASE Resume
  BY <1>9 DEF Resume, Rests, ended, Refuse, JobGoes, Killed
<1>10. CASE StartRelays
  BY <1>10 DEF StartRelays, Rests, tree, ended
<1>11. CASE WaitForBash \/ WaitFails
  BY <1>11 DEF WaitForBash, WaitFails, Rests, Goes, Killed, ended, tree
<1>12. CASE ExitCode
  BY <1>12 DEF ExitCode, Rests, tree, ended
<1>13. CASE ReleaseJob
  BY <1>13 DEF ReleaseJob, Rests, tree
<1>14. CASE CloseJob
  BY <1>14 DEF CloseJob, Rests, JobGoes, ended, Killed
<1>15. CASE Drain
  BY <1>15 DEF Drain, Rests, tree
<1>16. CASE Deadline
  BY <1>16 DEF Deadline, Rests, tree
<1>17. CASE Exit
  BY <1>17 DEF Exit, Rests, Vanish, JobGoes, ended, Killed
<1>18. CASE Kill
  BY <1>18 DEF Kill, Rests, Vanish, JobGoes, ended, Killed
<1>19. ASSUME NEW p \in Pipes, RelayReads(p) PROVE Rests'
  BY <1>19 DEF RelayReads, Rests, Frozen, tree, ended
<1>20. ASSUME NEW p \in Pipes, RelayEnds(p) \/ ReadFails(p) PROVE Rests'
  BY <1>20 DEF RelayEnds, ReadFails, Rests, Frozen, tree, ended
<1>21. ASSUME NEW p \in Pipes, RelayWrites(p) \/ WriteFails(p) PROVE Rests'
  BY <1>21 DEF RelayWrites, WriteFails, Rests, Frozen, tree, ended
<1>22. ASSUME NEW p \in Pipes, Writes(p) PROVE Rests'
  BY <1>22 DEF Writes, Rests, tree, Outside, ended
<1>23. CASE Spawns
  BY <1>23 DEF Spawns, Rests, Outside, ended
<1>24. CASE BashEnds
  BY <1>24 DEF BashEnds, Rests, Outside, ended
<1>25. CASE ChildEndsItself
  BY <1>25 DEF ChildEndsItself, Rests, Outside, ended
<1>26. CASE ReaderCloses
  BY <1>26 DEF ReaderCloses, Rests, tree, Outside, ended
<1> QED
  BY <1>1, <1>2, <1>3, <1>4, <1>5, <1>6, <1>7, <1>8, <1>9, <1>10, <1>11, <1>12, <1>13, <1>14, <1>15,
     <1>16, <1>17, <1>18, <1>19, <1>20, <1>21, <1>22, <1>23, <1>24, <1>25, <1>26 DEF Next, Main, Relay

\* Only named handles are opened.
LEMMA OpenedStep == Opened /\ Next => Opened'
<1> SUFFICES ASSUME Opened, Next PROVE Opened'
  OBVIOUS
<1>1. CASE CreateJob
  BY <1>1, Sets DEF CreateJob, Opened, Opens, Refuse, Closes
<1>2. CASE LimitJob
  BY <1>2 DEF LimitJob, Opened, Refuse, Closes
<1>3. CASE CreateStdout
  BY <1>3, Names, Sets DEF CreateStdout, Opened, Opens, Refuse, Closes
<1>4. CASE CreateStderr
  BY <1>4, Names, Sets DEF CreateStderr, Opened, Opens, Refuse, Closes
<1>5. CASE OpenNul
  BY <1>5, Sets DEF OpenNul, Opened, Opens, Refuse, Closes
<1>6. CASE Attributes
  BY <1>6 DEF Attributes, Opened, Refuse, Closes
<1>7. CASE CreateBash
  BY <1>7, Sets DEF CreateBash, Opened, Refuse, Closes
<1>8. CASE Assign
  BY <1>8 DEF Assign, Opened, Closes
<1>9. CASE Resume
  BY <1>9 DEF Resume, Opened, Refuse, Closes
<1>10. CASE StartRelays
  BY <1>10 DEF StartRelays, Opened
<1>11. CASE WaitForBash \/ WaitFails
  BY <1>11 DEF WaitForBash, WaitFails, Opened
<1>12. CASE ExitCode
  BY <1>12 DEF ExitCode, Opened
<1>13. CASE ReleaseJob
  BY <1>13 DEF ReleaseJob, Opened
<1>14. CASE CloseJob
  BY <1>14 DEF CloseJob, Opened, Closes
<1>15. CASE Drain
  BY <1>15 DEF Drain, Opened
<1>16. CASE Deadline
  BY <1>16 DEF Deadline, Opened
<1>17. CASE Exit
  BY <1>17 DEF Exit, Opened, Vanish
<1>18. CASE Kill
  BY <1>18 DEF Kill, Opened, Vanish
<1>19. ASSUME NEW p \in Pipes, RelayReads(p) PROVE Opened'
  BY <1>19 DEF RelayReads, Opened
<1>20. ASSUME NEW p \in Pipes, RelayEnds(p) \/ ReadFails(p) PROVE Opened'
  BY <1>20 DEF RelayEnds, ReadFails, Opened, Closes
<1>21. ASSUME NEW p \in Pipes, RelayWrites(p) \/ WriteFails(p) PROVE Opened'
  BY <1>21 DEF RelayWrites, WriteFails, Opened
<1>22. ASSUME NEW p \in Pipes, Writes(p) PROVE Opened'
  BY <1>22 DEF Writes, Opened, Outside
<1>23. CASE Spawns
  BY <1>23 DEF Spawns, Opened, Outside
<1>24. CASE BashEnds
  BY <1>24 DEF BashEnds, Opened, Outside
<1>25. CASE ChildEndsItself
  BY <1>25 DEF ChildEndsItself, Opened, Outside
<1>26. CASE ReaderCloses
  BY <1>26 DEF ReaderCloses, Opened, Outside
<1> QED
  BY <1>1, <1>2, <1>3, <1>4, <1>5, <1>6, <1>7, <1>8, <1>9, <1>10, <1>11, <1>12, <1>13, <1>14, <1>15,
     <1>16, <1>17, <1>18, <1>19, <1>20, <1>21, <1>22, <1>23, <1>24, <1>25, <1>26 DEF Next, Main, Relay

\* The supervisor starts with nothing.
LEMMA RunInit == Init => RunInv
<1> SUFFICES ASSUME Init PROVE RunInv
  OBVIOUS
<1>1. TypeOK
  <2>1. Flags
    BY DEF Init, Flags
  <2>2. Chunks
    BY BoundsAssumption DEF Init, Chunks
  <2>3. Rests /\ Opened
    BY DEF Init, Rests, Opened, None
  <2> QED
    BY <2>1, <2>2, <2>3, TypeParts
<1>2. HandleInv
  BY DEF Init, HandleInv, NoRelays, Unrelayed, Early, Guarded
<1>3. TreeInv
  BY DEF Init, TreeInv, NoRelays, Unrelayed, Early, Guarded, After, None
<1>4. PipeInv
  BY DEF Init, PipeInv
<1> QED
  BY <1>1, <1>2, <1>3, <1>4 DEF RunInv

\* All parts together.
LEMMA RunStep == RunInv /\ [Next]_vars => RunInv'
<1> SUFFICES ASSUME RunInv, [Next]_vars PROVE RunInv'
  OBVIOUS
<1>1. CASE Next
  <2>1. HandleInv' /\ TreeInv' /\ PipeInv' /\ Chunks'
    BY <1>1, HandleStep, TreeStep, PipeStep, ChunksStep
  <2>2. Flags' /\ Rests' /\ Opened'
    BY <1>1, FlagsStep, RestsStep, OpenedStep, TypeParts DEF RunInv
  <2>3. TypeOK'
    BY <2>1, <2>2 DEF TypeOK, Flags, Chunks, Rests, Opened
  <2> QED
    BY <2>1, <2>3 DEF RunInv
<1>2. CASE UNCHANGED vars
  <2>1. UNCHANGED <<pc, open, reclosed, killOnClose, inJob, bash, child, holds, code, buffer, relay,
                    carry, written, delivered, reader, lost, released, drain, exit>>
    BY <1>2 DEF vars, job, tree, pipes, ended
  <2>2. TypeOK' /\ HandleInv'
    BY <2>1 DEF RunInv, TypeOK, HandleInv, Relaying, NoRelays
  <2>3. TreeInv'
    BY <2>1 DEF RunInv, TreeInv, Relaying, NoRelays
  <2>4. PipeInv'
    BY <2>1, PipesRest DEF RunInv, Holders
  <2> QED
    BY <2>2, <2>3, <2>4 DEF RunInv
<1> QED
  BY <1>1, <1>2

LEMMA RunAlways == Spec => []RunInv
  BY RunInit, RunStep, PTL DEF Spec

-----------------------------------------------------------------------------
(* Theorems *)

\* The handles, the processes and the pipes keep their types.
THEOREM SupervisorTypes == Spec => []TypeOK
<1>1. RunInv => TypeOK
  BY DEF RunInv
<1> QED
  BY <1>1, RunAlways, PTL

\* Whatever call of run() fails, no handle is closed twice and none is left open.
THEOREM HandlesOnce == Spec => []HandlesAreClosedOnce
<1>1. RunInv => HandlesAreClosedOnce
  <2> SUFFICES ASSUME RunInv PROVE HandlesAreClosedOnce
    OBVIOUS
  <2>1. reclosed = FALSE /\ (pc = "failed" /\ relay["stdout"] = "none" => open = {})
    BY Names DEF RunInv, HandleInv, Relaying
  <2>2. ASSUME pc = "done"
        PROVE  open \subseteq {Read[p] : p \in {q \in Pipes : relay[q] # "done"}}
    <3>1. open \subseteq {"stdout_read", "stderr_read"} /\ Relaying
      BY <2>2 DEF RunInv, HandleInv
    <3>2. \A p \in Pipes : Read[p] \in open => relay[p] # "done"
      BY <2>2, <3>1 DEF RunInv, HandleInv, TypeOK, Relaying
    <3>3. \A h \in open : \E p \in Pipes : h = Read[p] /\ relay[p] # "done"
      BY <3>1, <3>2, Names
    <3> QED
      BY <3>3
  <2> QED
    BY <2>1, <2>2 DEF HandlesAreClosedOnce
<1> QED
  BY <1>1, RunAlways, PTL

\* A supervisor that is gone left no bash behind, but for the moment before the job
\* takes it (main.rs:546-607).
THEOREM BashIsNotStray == Spec => []NoStrayBash
<1>1. RunInv => NoStrayBash
  BY DEF RunInv, TreeInv, NoStrayBash, Alive
<1> QED
  BY <1>1, RunAlways, PTL

\* Descendants outlive the command when the limit was cleared, and never a
\* supervisor that is killed before.
THEOREM DescendantsAsReleased == Spec => []DescendantsFate
<1>1. RunInv => DescendantsFate
  BY DEF RunInv, TreeInv, DescendantsFate
<1> QED
  BY <1>1, RunAlways, PTL

\* The exit code of a command that was waited for is that of bash, or 125.
THEOREM ExitCodes == Spec => []CodeComesThrough
<1>1. RunInv => CodeComesThrough
  <2> SUFFICES ASSUME RunInv, drain # "none" PROVE exit \in {code, 125} /\ code # None
    BY DEF CodeComesThrough
  <2>1. exit \in {code, 125} /\ code \in Codes
    BY DEF RunInv, TreeInv
  <2> QED
    BY <2>1 DEF Codes, None
<1> QED
  BY <1>1, RunAlways, PTL

\* When the relays are done every chunk was delivered of a pipe whose relay met no failed
\* call, whatever short writes there were and whatever failed on the other pipe.
THEOREM AllIsDelivered == Spec => []NothingIsLost
<1>1. RunInv => NothingIsLost
  <2> SUFFICES ASSUME RunInv, drain = "complete", NEW p \in Pipes \ lost
               PROVE  delivered[p] = written[p]
    BY DEF NothingIsLost
  <2>1. relay[p] = "done" /\ carry[p] = 0 /\ buffer[p] = 0
    BY DEF RunInv, PipeInv, Drained
  <2>2. delivered[p] + carry[p] + buffer[p] = written[p]
    BY <2>1 DEF RunInv, PipeInv, Intact
  <2>3. delivered[p] \in 0..Output /\ written[p] \in 0..Output
    BY DEF RunInv, TypeOK
  <2> QED
    BY <2>1, <2>2, <2>3, BoundsAssumption
<1> QED
  BY <1>1, RunAlways, PTL

\* No way to end leaves a bash or a descendant that should be gone, or takes one that
\* should stay (main.rs).
THEOREM NothingIsStray == Spec => []NothingStray
  BY BashIsNotStray, DescendantsAsReleased, PTL DEF NothingStray

\* The exit code and the output get to OpenCode, but for what a failed call of a relay
\* gives up (main.rs:349-394, 613-625).
THEOREM OutcomeArrives == Spec => []OutcomeIsDelivered
  BY ExitCodes, AllIsDelivered, PTL DEF OutcomeIsDelivered


-----------------------------------------------------------------------------
(* The hooks and the shells *)

uvars == <<part, vars, hooks, fields, start>>

Spellings == Shells \cup {"", "none"}

Answers == Spellings \cup {SupervisorShell, "fallback", "exit 125"}

CallRecords ==
  [stage : {"new", "classified", "checked", "ran"}, kind : {"plain", "download", "start"},
   timeout : {"none", "own", "unusable", "default"}, told : Answers, isolated : BOOLEAN, runs : Answers]

HookTypes ==
  /\ hookOptions \in [supervisorEnabled : BOOLEAN, hardTimeout : BOOLEAN, isolation : BOOLEAN, shell : ShellOptions]
  /\ installed \subseteq Shells /\ envShell \in Shells \ Aliases
  /\ configShell \in Spellings \cup {SupervisorShell}
  /\ configuredShell \in Spellings \cup {SupervisorShell}
  /\ hook \in {"none", "waiting", "done"}
  /\ supervisorActive \in BOOLEAN /\ built \in BOOLEAN
  /\ calls \in [Calls -> CallRecords]

\* The supervisor is in place, or about to be, with a shell of its own to run; nobody
\* but the config hook names it to the host.
SupervisorInPlace ==
  /\ hook = "waiting" \/ supervisorActive => ~H!Falsy(configuredShell) /\ configuredShell # SupervisorShell
  /\ supervisorActive <=> configShell = SupervisorShell
  /\ supervisorActive => built

\* Where no option names a shell, the hook has kept the one of the host.
HostsOwn ==
  H!Falsy(hookOptions.shell) =>
    /\ configuredShell # SupervisorShell
    /\ hook = "none" => ~supervisorActive /\ H!Falsy(configuredShell)
    /\ hook # "none" /\ ~supervisorActive =>
         configuredShell = configShell \/ (H!Falsy(configuredShell) /\ H!Falsy(configShell))

CallHolds(call) ==
  /\ call.stage # "new" =>
        hook # "none" /\ (H!Falsy(hookOptions.shell) => call.told = H!ResolveClassifierShell(configuredShell))
  /\ (call.stage = "ran" /\ H!Falsy(hookOptions.shell) /\ call.told \in installed /\ call.runs \in installed) =>
        call.runs = call.told
  /\ (call.stage \in {"checked", "ran"} /\ call.kind = "start" /\ hookOptions.isolation) =>
        call.isolated \/ configShell = SupervisorShell

CallsInv == \A c \in Calls : CallHolds(calls[c])

HooksInv == HookTypes /\ SupervisorInPlace /\ HostsOwn /\ CallsInv

Hooks == part = "hooks" => HooksInv

LEMMA ShellNames == H!HostAssumption
  BY PartAssumption

\* Where no option names a shell, a call that is run now is run in the shell that a
\* call looked at now is told.
LEMMA RunsInTold ==
  ASSUME HooksInv, H!Falsy(hookOptions.shell), hook # "none", H!RunsIn \in installed,
         H!ResolveClassifierShell(configuredShell) \in installed
  PROVE  H!RunsIn = H!ResolveClassifierShell(configuredShell)
<1> USE ShellNames DEF H!HostAssumption, HooksInv, HookTypes, SupervisorInPlace, HostsOwn
<1>1. CASE supervisorActive
  <2>1. configShell = SupervisorShell /\ built /\ ~H!Falsy(configuredShell)
    BY <1>1
  <2>2. H!HostShell = SupervisorShell
    BY <2>1 DEF H!HostShell, H!Usable, H!OnPath, H!Falsy
  <2>3. H!RunsIn = configuredShell
    BY <1>1, <2>1, <2>2, Zenon DEF H!RunsIn, H!IsSupervisor, H!RealBash, H!Falsy
  <2> QED
    BY <2>1, <2>3 DEF H!ResolveClassifierShell, H!Usable, H!OnPath
<1>2. CASE ~supervisorActive
  <2>1. H!RealBash = "none"
    BY <1>2 DEF H!RealBash
  <2>2. H!RunsIn = H!HostShell
    BY <2>1 DEF H!RunsIn
  <2> QED
    BY <1>2, <2>2 DEF H!ResolveClassifierShell, H!HostShell, H!Usable, H!OnPath, H!Falsy
<1> QED
  BY <1>1, <1>2

LEMMA HooksStart == H!Init => HooksInv
<1> SUFFICES ASSUME H!Init PROVE HooksInv
  OBVIOUS
<1> USE ShellNames DEF H!HostAssumption
<1>1. HookTypes
  BY DEF H!Init, HookTypes, Spellings, H!NewCall, CallRecords, Answers
<1>2. SupervisorInPlace
  BY DEF H!Init, SupervisorInPlace
<1>3. HostsOwn
  BY DEF H!Init, HostsOwn, H!Falsy
<1>4. CallsInv
  BY DEF H!Init, CallsInv, CallHolds, H!NewCall
<1> QED
  BY <1>1, <1>2, <1>3, <1>4 DEF HooksInv

\* What a run of the config hook leaves of the shells.
LEMMA ConfigStep ==
  ASSUME HooksInv, H!ConfigHook
  PROVE  HookTypes' /\ SupervisorInPlace' /\ HostsOwn'
<1> USE ShellNames DEF H!HostAssumption
<1>1. HookTypes'
  BY DEF HooksInv, HookTypes, H!ConfigHook, H!ConfiguredFrom, Spellings
<1>2. SupervisorInPlace'
  BY DEF HooksInv, HookTypes, SupervisorInPlace, H!ConfigHook, H!ConfiguredFrom, H!Falsy, Spellings
<1>3. HostsOwn'
  BY DEF HooksInv, HookTypes, SupervisorInPlace, HostsOwn, H!ConfigHook, H!ConfiguredFrom, H!Falsy, Spellings
<1> QED
  BY <1>1, <1>2, <1>3

\* A step that changes one call.
LEMMA OneCall ==
  ASSUME HooksInv, NEW c \in Calls, NEW call \in CallRecords, calls' = [calls EXCEPT ![c] = call], CallHolds(call),
         UNCHANGED <<hookOptions, built, installed, envShell, configShell, configuredShell, supervisorActive, hook>>
  PROVE  HooksInv'
<1>1. HookTypes'
  BY DEF HooksInv, HookTypes
<1>2. SupervisorInPlace' /\ HostsOwn'
  BY DEF HooksInv, SupervisorInPlace, HostsOwn, H!Falsy
<1>3. H!ResolveClassifierShell(configuredShell)' = H!ResolveClassifierShell(configuredShell)
  BY DEF H!ResolveClassifierShell, H!Usable, H!Falsy, H!OnPath
<1>4. ASSUME NEW other, CallHolds(other)
      PROVE  /\ other.stage # "new" =>
                   hook' # "none" /\ (H!Falsy(hookOptions.shell)' => other.told = H!ResolveClassifierShell(configuredShell)')
             /\ (other.stage = "ran" /\ H!Falsy(hookOptions.shell)' /\ other.told \in installed' /\ other.runs \in installed') =>
                   other.runs = other.told
             /\ (other.stage \in {"checked", "ran"} /\ other.kind = "start" /\ hookOptions'.isolation) =>
                   other.isolated \/ configShell' = SupervisorShell
  BY <1>4, <1>3 DEF CallHolds, H!Falsy
<1>5. ASSUME NEW d \in Calls PROVE CallHolds(calls[d])'
  <2>1. calls'[d] = call \/ calls'[d] = calls[d]
    BY DEF HooksInv, HookTypes
  <2>2. CallHolds(calls[d])
    BY DEF HooksInv, CallsInv
  <2> QED
    BY <2>1, <2>2, <1>4 DEF CallHolds
<1> QED
  BY <1>1, <1>2, <1>5 DEF HooksInv, CallsInv

LEMMA HooksSame == HooksInv /\ UNCHANGED hooks => HooksInv'
<1> SUFFICES ASSUME HooksInv, UNCHANGED hooks PROVE HooksInv'
  OBVIOUS
<1>1. H!ResolveClassifierShell(configuredShell)' = H!ResolveClassifierShell(configuredShell)
  BY DEF hooks, H!ResolveClassifierShell, H!Usable, H!Falsy, H!OnPath
<1> QED
  BY <1>1 DEF hooks, HooksInv, HookTypes, SupervisorInPlace, HostsOwn, CallsInv, CallHolds, H!Falsy

LEMMA HooksStep == HooksInv /\ H!Next => HooksInv'
<1> SUFFICES ASSUME HooksInv, H!Next PROVE HooksInv'
  OBVIOUS
<1> USE ShellNames DEF H!HostAssumption
<1>1. CASE H!ConfigHook
  <2>1. HookTypes' /\ SupervisorInPlace' /\ HostsOwn'
    BY <1>1, ConfigStep
  <2>2. CallsInv'
    BY <1>1, <2>1 DEF CallsInv, CallHolds, HooksInv, HookTypes, HostsOwn, SupervisorInPlace, H!ConfigHook, H!ConfiguredFrom, H!Falsy,
         H!ResolveClassifierShell, H!Usable, H!OnPath, Spellings
  <2> QED
    BY <2>1, <2>2 DEF HooksInv
<1>2. CASE H!ConfigHookReturns
  <2>1. HookTypes' /\ SupervisorInPlace' /\ HostsOwn'
    BY <1>2 DEF HooksInv, HookTypes, HostsOwn, SupervisorInPlace, H!ConfigHookReturns, H!Falsy, Spellings
  <2>2. CallsInv'
    BY <1>2, <2>1 DEF CallsInv, CallHolds, HooksInv, HookTypes, HostsOwn, SupervisorInPlace, H!ConfigHookReturns, H!Falsy,
         H!ResolveClassifierShell, H!Usable, H!OnPath, Spellings
  <2> QED
    BY <2>1, <2>2 DEF HooksInv
<1>3. CASE H!Build
  <2>1. HookTypes' /\ SupervisorInPlace' /\ HostsOwn'
    BY <1>3 DEF HooksInv, HookTypes, HostsOwn, SupervisorInPlace, H!Build, H!Falsy, Spellings
  <2>2. CallsInv'
    BY <1>3, <2>1 DEF CallsInv, CallHolds, HooksInv, HookTypes, HostsOwn, SupervisorInPlace, H!Build, H!Falsy,
         H!ResolveClassifierShell, H!Usable, H!OnPath, Spellings
  <2> QED
    BY <2>1, <2>2 DEF HooksInv
<1>4. ASSUME NEW c \in Calls, H!PostChecks(c)
      PROVE  HooksInv'
  <2>1. UNCHANGED <<hookOptions, built, installed, envShell, configShell, configuredShell, supervisorActive, hook>>
    BY <1>4 DEF H!PostChecks
  <2>2. calls[c] \in CallRecords /\ calls[c].stage = "classified" /\ CallHolds(calls[c])
    BY <1>4 DEF H!PostChecks, HooksInv, HookTypes, CallsInv
  <2> DEFINE call == [calls[c] EXCEPT !.stage = "checked", !.timeout = H!Timeout(calls[c].kind, calls[c].timeout),
                                      !.isolated = H!Isolates(calls[c].kind)]
  <2>3. calls' = [calls EXCEPT ![c] = call]
    BY <1>4 DEF H!PostChecks, HooksInv, HookTypes, CallRecords
  <2>4. H!Timeout(calls[c].kind, calls[c].timeout) \in {"none", "own", "unusable", "default"}
        /\ H!Isolates(calls[c].kind) \in BOOLEAN
    BY <2>2 DEF H!Timeout, H!Isolates, CallRecords
  <2>5. call \in CallRecords
    BY <2>2, <2>4 DEF CallRecords
  <2>6. CallHolds(call)
    BY <2>2 DEF CallHolds, CallRecords, H!Isolates, HooksInv, SupervisorInPlace
  <2> QED
    BY <2>1, <2>3, <2>5, <2>6, OneCall
<1>5. ASSUME NEW c \in Calls, H!Run(c)
      PROVE  HooksInv'
  <2>1. UNCHANGED <<hookOptions, built, installed, envShell, configShell, configuredShell, supervisorActive, hook>>
    BY <1>5 DEF H!Run
  <2>2. calls[c] \in CallRecords /\ calls[c].stage = "checked" /\ CallHolds(calls[c])
    BY <1>5 DEF H!Run, HooksInv, HookTypes, CallsInv
  <2> DEFINE call == [calls[c] EXCEPT !.stage = "ran", !.runs = H!RunsIn]
  <2>3. calls' = [calls EXCEPT ![c] = call]
    BY <1>5 DEF H!Run, HooksInv, HookTypes, CallRecords
  <2>4. H!RunsIn \in Answers
    BY DEF HooksInv, HookTypes, Answers, Spellings, H!RunsIn, H!RealBash, H!HostShell
  <2>5. call \in CallRecords
    BY <2>2, <2>4 DEF CallRecords
  <2>6. ASSUME H!Falsy(hookOptions.shell), calls[c].told \in installed, H!RunsIn \in installed
        PROVE  H!RunsIn = calls[c].told
    BY <2>2, <2>6, RunsInTold DEF CallHolds
  <2>7. CallHolds(call)
    BY <2>2, <2>6 DEF CallHolds, CallRecords
  <2> QED
    BY <2>1, <2>3, <2>5, <2>7, OneCall
<1>6. ASSUME NEW c \in Calls, NEW kind \in {"plain", "download", "start"}, NEW explicit \in {"none", "own", "unusable"},
             H!Classify(c, kind, explicit)
      PROVE  HooksInv'
  <2>1. UNCHANGED <<hookOptions, built, installed, envShell, configShell, configuredShell, supervisorActive, hook>>
    BY <1>6 DEF H!Classify, H!Hook
  <2> DEFINE call == [H!NewCall EXCEPT !.stage = "classified", !.kind = kind, !.timeout = explicit,
                                       !.told = H!ResolveClassifierShell(configuredShell)]
  <2>2. hook # "none" /\ calls' = [calls EXCEPT ![c] = call]
    BY <1>6 DEF H!Classify, H!Hook
  <2>3. H!ResolveClassifierShell(configuredShell) \in Answers
    BY DEF HooksInv, HookTypes, Answers, Spellings, H!ResolveClassifierShell
  <2>4. call \in CallRecords
    BY <2>3 DEF CallRecords, H!NewCall, Answers, Spellings
  <2>5. CallHolds(call)
    BY <2>2 DEF CallHolds, H!NewCall
  <2> QED
    BY <2>1, <2>2, <2>4, <2>5, OneCall
<1> QED
  BY <1>1, <1>2, <1>3, <1>4, <1>5, <1>6 DEF H!Next

-----------------------------------------------------------------------------
(* The parts in the union *)

LEMMA HooksAlways == UnionFairSpec => []Hooks
<1>1. UnionInit => Hooks
  BY HooksStart DEF UnionInit, Hooks
<1>2. Hooks /\ UnionNext => Hooks'
  BY HooksStep DEF UnionNext, Hooks
<1>3. Hooks /\ UNCHANGED uvars => Hooks'
  <2> SUFFICES ASSUME Hooks, UNCHANGED uvars PROVE Hooks'
    OBVIOUS
  <2>1. UNCHANGED <<part, hookOptions, built, installed, envShell, configShell, configuredShell, supervisorActive, hook, calls>>
    BY DEF uvars, hooks
  <2> QED
    BY <2>1, HooksSame DEF Hooks, hooks
<1> QED
  BY <1>1, <1>2, <1>3, PTL DEF UnionFairSpec, uvars

\* However often the config hook runs, over the host's object it already wrote to, the
\* shell that shell.env gives is not the supervisor, as long as path.resolve tells its
\* spelling from all others; and the supervisor is never in place without the shell it
\* is to run (index.ts:391-411).
THEOREM RealBashIsNoSupervisor ==
  ASSUME Aliases = {}
  PROVE  UnionFairSpec => []RealBashIsAShell
<1>1. Hooks => RealBashIsAShell
  BY ShellNames DEF Hooks, HooksInv, HookTypes, SupervisorInPlace, RealBashIsAShell, H!RealBashIsAShell, H!SupervisorIsFed,
     H!IsSupervisor, H!RealBash, H!Falsy, H!HostAssumption, Spellings
<1> QED
  BY <1>1, HooksAlways, PTL

\* Where no option names a shell, a command runs in the shell whose dialect it was
\* classified in, whether the supervisor came in between or not (index.ts:448-455,
\* shell-dialect.ts:28-41).
THEOREM DialectIsTheShells == UnionFairSpec => []RunsAsClassified
<1>1. Hooks => RunsAsClassified
  BY DEF Hooks, HooksInv, CallsInv, CallHolds, RunsAsClassified, H!RunsAsClassified
<1> QED
  BY <1>1, HooksAlways, PTL

\* A detached start that was let through is isolated or runs under the supervisor,
\* also if the config hook was still waiting when it was checked (index.ts:379-384).
THEOREM StartsAreDetached == UnionFairSpec => []StartHoldsNoPipe
<1>1. Hooks => StartHoldsNoPipe
  BY DEF Hooks, HooksInv, CallsInv, CallHolds, StartHoldsNoPipe, H!StartHoldsNoPipe
<1> QED
  BY <1>1, HooksAlways, PTL

-----------------------------------------------------------------------------
(* The options *)

\* What a field of the block may hold, and an option.
FieldValues(f) == C!DynamicValues[f] \cup {C!Block[f]}
OptionValues(f) == C!TopValues[f] \cup {IF f = "dynamicReview" THEN "object" ELSE "absent"}

FieldTypes ==
  /\ DOMAIN options = DOMAIN C!TopValues /\ \A f \in DOMAIN C!TopValues : options[f] \in OptionValues(f)
  /\ DOMAIN dynamic = DOMAIN C!DynamicValues /\ \A f \in DOMAIN C!DynamicValues : dynamic[f] \in FieldValues(f)
  /\ secret \in Texts \cup {"newline"}

\* The configuration is resolved once, from the options as they stay, and the review
\* goes by it.
ResolvedInv ==
  /\ resolved \in {C!Pending, C!ResolvePluginConfig}
  /\ review # "none" => resolved # C!Pending /\ ~resolved.threw /\ review = C!ReviewEnds(resolved)

Options == part = "options" => FieldTypes /\ ResolvedInv

LEMMA SameConfig ==
  ASSUME UNCHANGED <<options, dynamic, secret>>
  PROVE  C!ResolvePluginConfig' = C!ResolvePluginConfig
  BY DEF C!ResolvePluginConfig, C!TopLevelThrows, C!ResolveDynamicReview, C!Strictness, C!Reviewer, C!DynamicFails,
     C!KeyFails, C!Key

LEMMA SameReview ==
  ASSUME UNCHANGED <<dynamic, secret, resolved>>
  PROVE  C!ReviewEnds(resolved)' = C!ReviewEnds(resolved)
  BY DEF C!ReviewEnds, C!ReviewerRefuses, C!SpawnThrows, C!AuditorRefuses, C!Key

LEMMA BlockFields == DOMAIN C!Block = DOMAIN C!DynamicValues
  BY DEF C!Block

LEMMA OptionsStart == C!Init => FieldTypes /\ ResolvedInv
<1> SUFFICES ASSUME C!Init PROVE FieldTypes /\ ResolvedInv
  OBVIOUS
<1>1. FieldTypes
  BY BlockFields DEF C!Init, FieldTypes, FieldValues, OptionValues
<1>2. ResolvedInv
  BY DEF C!Init, ResolvedInv
<1> QED
  BY <1>1, <1>2

LEMMA OptionsStep == FieldTypes /\ ResolvedInv /\ C!Next => FieldTypes' /\ ResolvedInv'
<1> SUFFICES ASSUME FieldTypes, ResolvedInv, C!Next PROVE FieldTypes' /\ ResolvedInv'
  OBVIOUS
<1>1. CASE C!GiveOption
  <2>1. FieldTypes'
    BY <1>1 DEF C!GiveOption, C!Unresolved, FieldTypes, FieldValues, OptionValues
  <2>2. ResolvedInv'
    BY <1>1 DEF C!GiveOption, C!Unresolved, ResolvedInv
  <2> QED
    BY <2>1, <2>2
<1>2. CASE C!GiveField
  <2>1. FieldTypes'
    BY <1>2 DEF C!GiveField, C!Unresolved, FieldTypes, FieldValues
  <2>2. ResolvedInv'
    BY <1>2 DEF C!GiveField, C!Unresolved, ResolvedInv
  <2> QED
    BY <2>1, <2>2
<1>3. CASE C!Load
  <2>1. FieldTypes'
    BY <1>3 DEF C!Load, FieldTypes, FieldValues, OptionValues
  <2>2. C!ResolvePluginConfig' = C!ResolvePluginConfig
    BY <1>3, SameConfig DEF C!Load
  <2>3. ResolvedInv'
    BY <1>3, <2>2 DEF C!Load, ResolvedInv
  <2> QED
    BY <2>1, <2>3
<1>4. CASE C!Review
  <2>1. FieldTypes'
    BY <1>4 DEF C!Review, FieldTypes, FieldValues, OptionValues
  <2>2. C!ResolvePluginConfig' = C!ResolvePluginConfig
    BY <1>4, SameConfig DEF C!Review
  <2>3. C!ReviewEnds(resolved)' = C!ReviewEnds(resolved)
    BY <1>4, SameReview DEF C!Review
  <2>4. ResolvedInv'
    BY <1>4, <2>2, <2>3 DEF C!Review, ResolvedInv
  <2> QED
    BY <2>1, <2>4
<1> QED
  BY <1>1, <1>2, <1>3, <1>4 DEF C!Next

LEMMA OptionsAlways == UnionFairSpec => []Options
<1>1. UnionInit => Options
  BY OptionsStart DEF UnionInit, Options
<1>2. Options /\ UnionNext => Options'
  BY OptionsStep DEF UnionNext, Options
<1>3. Options /\ UNCHANGED uvars => Options'
  <2> SUFFICES ASSUME Options, UNCHANGED uvars PROVE Options'
    OBVIOUS
  <2>1. UNCHANGED <<part, options, dynamic, secret, resolved, review>>
    BY DEF uvars, fields
  <2>2. C!ResolvePluginConfig' = C!ResolvePluginConfig /\ C!ReviewEnds(resolved)' = C!ReviewEnds(resolved)
    BY <2>1, SameConfig, SameReview
  <2> QED
    BY <2>1, <2>2 DEF Options, FieldTypes, ResolvedInv, FieldValues, OptionValues
<1> QED
  BY <1>1, <1>2, <1>3, PTL DEF UnionFairSpec, uvars

LEMMA FieldFacts ==
  ASSUME FieldTypes
  PROVE  /\ options.strictness \in {"wrong", "LOOSE", "HARD", "absent"}
         /\ dynamic.maxRounds \in Int /\ dynamic.timeoutMs \in Int
         /\ dynamic.model \in Texts \cup {"absent", "long", "plain"}
         /\ dynamic.apiKey \in Texts \cup {"absent", "wrong", "newline", "plain"}
         /\ dynamic.pythonPath \in Texts \cup {"path", "no file", "bare"}
<1>1. {"maxRounds", "timeoutMs", "model", "apiKey", "pythonPath"} \subseteq DOMAIN C!DynamicValues
      /\ "strictness" \in DOMAIN C!TopValues
  BY DEF C!DynamicValues, C!TopValues
<1>2. /\ C!Block.maxRounds = -2 /\ C!Block.timeoutMs = -2 /\ C!Block.model = "plain" /\ C!Block.apiKey = "plain"
      /\ C!Block.pythonPath = "bare"
  BY <1>1 DEF C!Block, C!NotGiven
<1>3. /\ C!DynamicValues.maxRounds \subseteq Int /\ C!DynamicValues.timeoutMs \subseteq Int
      /\ C!DynamicValues.model = Texts \cup {"absent", "long"}
      /\ C!DynamicValues.apiKey = Texts \cup {"absent", "wrong", "newline"}
      /\ C!DynamicValues.pythonPath = Texts \cup {"path", "no file"}
  BY DEF C!DynamicValues, C!NotInteger
<1>4. C!TopValues.strictness = {"wrong", "LOOSE", "HARD"}
  BY DEF C!TopValues
<1>5. options.strictness \in {"wrong", "LOOSE", "HARD", "absent"}
  BY <1>1, <1>4 DEF FieldTypes, OptionValues
<1>6. /\ dynamic.maxRounds \in C!DynamicValues.maxRounds \cup {C!Block.maxRounds}
      /\ dynamic.timeoutMs \in C!DynamicValues.timeoutMs \cup {C!Block.timeoutMs}
      /\ dynamic.model \in C!DynamicValues.model \cup {C!Block.model}
      /\ dynamic.apiKey \in C!DynamicValues.apiKey \cup {C!Block.apiKey}
      /\ dynamic.pythonPath \in C!DynamicValues.pythonPath \cup {C!Block.pythonPath}
  BY <1>1 DEF FieldTypes, FieldValues
<1>7. dynamic.maxRounds \in Int /\ dynamic.timeoutMs \in Int
  <2>1. -2 \in Int
    OBVIOUS
  <2>2. dynamic.maxRounds \in C!DynamicValues.maxRounds \/ dynamic.maxRounds = -2
    BY <1>2, <1>6
  <2>3. dynamic.timeoutMs \in C!DynamicValues.timeoutMs \/ dynamic.timeoutMs = -2
    BY <1>2, <1>6
  <2> QED
    BY <1>3, <2>1, <2>2, <2>3
<1>8. /\ dynamic.model \in Texts \cup {"absent", "long", "plain"}
      /\ dynamic.apiKey \in Texts \cup {"absent", "wrong", "newline", "plain"}
      /\ dynamic.pythonPath \in Texts \cup {"path", "no file", "bare"}
  BY <1>2, <1>3, <1>6
<1> QED
  BY <1>5, <1>7, <1>8

\* What resolvePluginConfig makes of the options when it does not throw.
LEMMA ResolvedFacts ==
  ASSUME FieldTypes, ResolvedInv, resolved # C!Pending, ~resolved.threw
  PROVE  /\ C!Strictness \in {"LOOSE", "HARD"} /\ resolved.strictness = C!Strictness
         /\ resolved.dynamic = C!ResolveDynamicReview(dynamic, C!Strictness)
         /\ resolved.reviewer = C!Reviewer(resolved.dynamic)
<1>1. resolved = C!ResolvePluginConfig
  BY DEF ResolvedInv
<1>2. ~C!TopLevelThrows
  BY <1>1 DEF C!ResolvePluginConfig
<1>3. "strictness" \in DOMAIN options \ {"dynamicReview"}
  BY DEF FieldTypes, C!TopValues
<1>4. options.strictness # "wrong"
  BY <1>2, <1>3 DEF C!TopLevelThrows
<1>5. C!Strictness \in {"LOOSE", "HARD"}
  BY <1>4, FieldFacts DEF C!Strictness, C!Or
<1> QED
  BY <1>1, <1>2, <1>5 DEF C!ResolvePluginConfig

\* What a block that is read gives.
LEMMA BlockFacts ==
  ASSUME NEW d, NEW s,
         C!ResolveDynamicReview(d, s).available \/ C!ResolveDynamicReview(d, s).fullRead
  PROVE  /\ options.dynamicReview = "object" /\ d.unknown = "absent" /\ ~C!DynamicFails(d, s)
         /\ C!ResolveDynamicReview(d, s).fullRead => d.allowFullReadAccess = "true"
         /\ C!ResolveDynamicReview(d, s).maxRounds = C!ResolveMaxRounds(d.maxRounds, s)
         /\ C!ResolveDynamicReview(d, s).timeoutMs = C!ResolveTimeoutMs(d.timeoutMs)
<1> DEFINE block == C!ResolveDynamicReview(d, s)
           read == options.dynamicReview = "object" /\ d.unknown = "absent"
<1>1. block.available = (read /\ ~C!DynamicFails(d, s))
  BY DEF C!ResolveDynamicReview
<1>2. block.fullRead = ((read /\ ~C!DynamicFails(d, s)) /\ d.allowFullReadAccess = "true")
  BY DEF C!ResolveDynamicReview
<1>3. /\ block.maxRounds = IF read THEN C!ResolveMaxRounds(d.maxRounds, s) ELSE C!DefaultRounds(s)
      /\ block.timeoutMs = IF read THEN C!ResolveTimeoutMs(d.timeoutMs) ELSE 30000
  BY DEF C!ResolveDynamicReview
<1> HIDE DEF block
<1>4. read /\ ~C!DynamicFails(d, s) /\ (block.fullRead => d.allowFullReadAccess = "true")
  BY <1>1, <1>2, Zenon DEF block
<1> QED
  BY <1>3, <1>4 DEF block

\* What the auditor is available with.
LEMMA AvailableFacts ==
  ASSUME FieldTypes, ResolvedInv, resolved # C!Pending, ~resolved.threw, resolved.reviewer = "auditor"
  PROVE  /\ ~C!DynamicFails(dynamic, C!Strictness)
         /\ resolved.dynamic.maxRounds = C!ResolveMaxRounds(dynamic.maxRounds, C!Strictness)
         /\ resolved.dynamic.timeoutMs = C!ResolveTimeoutMs(dynamic.timeoutMs)
<1>1. resolved.dynamic.available
  BY ResolvedFacts DEF C!Reviewer
<1> QED
  BY <1>1, ResolvedFacts, BlockFacts

LEMMA UsableHolds ==
  ASSUME FieldTypes, ResolvedInv, Texts \cap {"pyblank", "nul"} = {}
  PROVE  C!AvailableIsUsable
<1> SUFFICES ASSUME resolved # C!Pending, ~resolved.threw, resolved.reviewer = "auditor", review # "none"
             PROVE  review = "asked"
  BY DEF C!AvailableIsUsable
<1>1. ~C!ModelFails(dynamic.model) /\ ~C!KeyFails(dynamic) /\ ~C!Rejects(dynamic.maxRounds, 1, C!RoundsLimit(C!Strictness))
      /\ ~C!PathFails(dynamic.pythonPath)
  BY AvailableFacts DEF C!DynamicFails
<1>2. C!Strictness \in {"LOOSE", "HARD"} /\ resolved.strictness = C!Strictness
  BY ResolvedFacts
<1>6. /\ 1 <= resolved.dynamic.maxRounds
      /\ resolved.dynamic.maxRounds <= IF C!Strictness = "LOOSE" THEN 3 ELSE 5
  <2>1. resolved.dynamic.maxRounds = C!ResolveMaxRounds(dynamic.maxRounds, C!Strictness)
    BY AvailableFacts
  <2>2. CASE dynamic.maxRounds = C!NotGiven
    BY <2>1, <2>2 DEF C!ResolveMaxRounds, C!DefaultRounds
  <2>3. CASE dynamic.maxRounds # C!NotGiven
    BY <2>1, <2>3, <1>1, FieldFacts DEF C!ResolveMaxRounds, C!Rejects, C!InRange, C!RoundsLimit
  <2> QED
    BY <2>2, <2>3
<1>3. ~C!ReviewerRefuses(resolved)
  BY <1>2, <1>6 DEF C!ReviewerRefuses, C!InRange
<1>4. ~C!SpawnThrows
  BY <1>1, FieldFacts DEF C!SpawnThrows, C!KeyFails
<1>5. ~C!AuditorRefuses(resolved)
  <2>1. ~C!PyBlank(dynamic.model)
    BY <1>1, FieldFacts DEF C!PyBlank, C!ModelFails, C!JsBlank
  <2>2. C!Key(dynamic) \in Texts \cup {"absent", "wrong", "newline", "plain"}
    BY FieldFacts DEF C!Key, FieldTypes
  <2>3. ~C!PyBlank(C!Key(dynamic))
    BY <1>1, <2>2 DEF C!PyBlank, C!KeyFails, C!JsBlank
  <2>4. C!InRange(resolved.dynamic.maxRounds, 1, IF resolved.strictness = "HARD" THEN 5 ELSE 3)
    BY <1>2, <1>6 DEF C!InRange
  <2> QED
    BY <2>1, <2>3, <2>4 DEF C!AuditorRefuses
<1> QED
  BY <1>3, <1>4, <1>5 DEF ResolvedInv, C!ReviewEnds

LEMMA NumbersHold ==
  ASSUME FieldTypes, ResolvedInv
  PROVE  C!NumbersAreTheUsers
<1> SUFFICES ASSUME review = "asked"
             PROVE  /\ dynamic.maxRounds # C!NotGiven => resolved.dynamic.maxRounds = dynamic.maxRounds
                    /\ dynamic.timeoutMs # C!NotGiven => resolved.dynamic.timeoutMs = dynamic.timeoutMs
  BY DEF C!NumbersAreTheUsers
<1>1. resolved # C!Pending /\ ~resolved.threw /\ review = C!ReviewEnds(resolved)
  BY DEF ResolvedInv
<1>2. resolved.reviewer = "auditor"
  BY <1>1, ResolvedFacts DEF C!ReviewEnds, C!Reviewer
<1>3. ~C!Rejects(dynamic.maxRounds, 1, C!RoundsLimit(C!Strictness)) /\ ~C!Rejects(dynamic.timeoutMs, 1, 120000)
  BY <1>1, <1>2, AvailableFacts DEF C!DynamicFails
<1> QED
  BY <1>1, <1>2, <1>3, AvailableFacts DEF C!ResolveMaxRounds, C!ResolveTimeoutMs

LEMMA GrantHolds ==
  ASSUME FieldTypes, ResolvedInv
  PROVE  C!FullReadIsGranted
  BY ResolvedFacts, BlockFacts DEF C!FullReadIsGranted

\* What config.ts takes for a configuration of the auditor is taken by the reviewer,
\* the operating system and the auditor as well, as long as no text holds what the
\* languages do not agree on; a number the user set is the one the auditor works
\* with; nobody reads outside the worktree unless a valid block says so
\* (config.ts:131-159, 333-365, 461; reviewer.ts:433-451; auditor.py:194-227).
THEOREM ConfigurationIsKept ==
  ASSUME Texts \cap {"pyblank", "nul"} = {}
  PROVE  UnionFairSpec => []ConfigIsKept
<1>1. Options => ConfigIsKept
  BY UsableHolds, NumbersHold, GrantHolds DEF Options, ConfigIsKept
<1> QED
  BY <1>1, OptionsAlways, PTL

-----------------------------------------------------------------------------
(* The rewriting of a detached start *)

\* Induction over the natural numbers, with the set of those for which the claim holds.
LEMMA AllNumbers ==
  ASSUME NEW S, 0 \in S, \A k \in Nat : k \in S => k + 1 \in S
  PROVE  Nat \subseteq S
<1> SUFFICES ASSUME Nat \ S # {} PROVE FALSE
  OBVIOUS
<1>1. \E m \in Nat \ S : \A k \in Nat \ S : ~(<<k, m>> \in OpToRel(<, Nat))
  BY NatLessThanWellFounded, WFMin, Zenon
<1>2. PICK m \in Nat \ S : \A k \in Nat \ S : ~(k < m)
  BY <1>1 DEF OpToRel
<1>3. m # 0 /\ m - 1 \in Nat /\ m - 1 < m
  BY <1>2
<1>4. m - 1 \in S
  BY <1>2, <1>3
<1>5. m - 1 + 1 = m
  BY <1>2
<1> QED
  BY <1>2, <1>3, <1>4, <1>5

\* The states of the shell that reads c, up to token n.
Begin == [quoted |-> FALSE, list |-> <<D!Blank>>]
States(c, n, f) == f = [k \in 0..n |-> IF k = 0 THEN Begin ELSE D!Read(f[k - 1], c[k])]

LEMMA StatesExist ==
  ASSUME NEW c
  PROVE  \A n \in Nat : \E f : States(c, n, f)
<1> DEFINE S == {n \in Nat : \E f : States(c, n, f)}
<1>1. 0 \in S
  <2> DEFINE f == [k \in 0..0 |-> Begin]
  <2>1. f = [k \in 0..0 |-> IF k = 0 THEN Begin ELSE D!Read(f[k - 1], c[k])]
    OBVIOUS
  <2> QED
    BY <2>1 DEF States
<1>2. ASSUME NEW n \in Nat, n \in S PROVE n + 1 \in S
  <2>1. PICK f : States(c, n, f)
    BY <1>2
  <2> DEFINE g == [k \in 0..(n + 1) |-> IF k = n + 1 THEN D!Read(f[n], c[n + 1]) ELSE f[k]]
  <2>2. \A k \in 0..n : f[k] = IF k = 0 THEN Begin ELSE D!Read(f[k - 1], c[k])
    BY <2>1 DEF States
  <2>3. \A k \in 0..(n + 1) : g[k] = IF k = 0 THEN Begin ELSE D!Read(g[k - 1], c[k])
    <3> SUFFICES ASSUME NEW k \in 0..(n + 1) PROVE g[k] = IF k = 0 THEN Begin ELSE D!Read(g[k - 1], c[k])
      OBVIOUS
    <3>1. CASE k = n + 1
      BY <3>1
    <3>2. CASE k \in 0..n
      <4>1. g[k] = f[k] /\ (k # 0 => g[k - 1] = f[k - 1])
        BY <3>2
      <4> QED
        BY <2>2, <3>2, <4>1
    <3> QED
      BY <3>1, <3>2
  <2>4. States(c, n + 1, g)
    BY <2>3 DEF States
  <2> QED
    BY <2>4
<1> HIDE DEF S
<1>3. Nat \subseteq S
  BY <1>1, <1>2, AllNumbers
<1> QED
  BY <1>3 DEF S

LEMMA ReadingIs ==
  ASSUME NEW c, Len(c) \in Nat
  PROVE  \E f : /\ f[0] = Begin /\ \A k \in 1..Len(c) : f[k] = D!Read(f[k - 1], c[k])
                /\ D!Reading(c) = f[Len(c)]
<1> DEFINE after == CHOOSE f : f = [k \in 0..Len(c) |-> IF k = 0 THEN Begin ELSE D!Read(f[k - 1], c[k])]
<1>1. \E f : f = [k \in 0..Len(c) |-> IF k = 0 THEN Begin ELSE D!Read(f[k - 1], c[k])]
  BY StatesExist DEF States
<1>2. after = [k \in 0..Len(c) |-> IF k = 0 THEN Begin ELSE D!Read(after[k - 1], c[k])]
  BY <1>1
<1>3. D!Reading(c) = after[Len(c)]
  BY DEF D!Reading, Begin
<1> HIDE DEF after
<1>4. after[0] = Begin /\ \A k \in 1..Len(c) : after[k] = D!Read(after[k - 1], c[k])
  BY <1>2
<1> QED
  BY <1>3, <1>4

\* The tokens, by what the shell does with them outside of quotes.
Words == {"start", "word"}
Files == {"> f", "&> f", "> null"}
Joins == {"&&", "||", ";", "|", "newline", "&", "|&"}
Input == "< f"
Quote == "quote"
Null  == "> null"
All == Words \cup Files \cup Joins \cup {Input, Quote}

Items == [words : Seq(All), output : {"pipe", "next"} \cup Files, join : Joins \cup {"end"}]

LEMMA Kinds ==
  /\ \A t \in Files : t \notin Words /\ t \notin Joins /\ t # Input /\ t # Quote /\ t # "newline" /\ t # "pipe" /\ t # "next"
  /\ \A t \in Joins : t \notin Words /\ t \notin Files /\ t # Input /\ t # Quote
  /\ \A t \in Words : t \notin Files /\ t \notin Joins /\ t # Input /\ t # Quote /\ t # "newline"
  /\ Input \notin Words /\ Input \notin Files /\ Input \notin Joins /\ Input # Quote /\ Input # "newline"
  /\ Quote \notin Words /\ Quote \notin Files /\ Quote \notin Joins /\ Quote # "newline"
  /\ Null \in Files /\ "newline" \in Joins /\ "start" \in Words
<1>1. \A t \in Files : t \notin Words /\ t \notin Joins /\ t # Input /\ t # Quote /\ t # "newline" /\ t # "pipe" /\ t # "next"
  BY DEF Words, Files, Joins, Input, Quote
<1>2. \A t \in Joins : t \notin Words /\ t \notin Files /\ t # Input /\ t # Quote
  BY DEF Words, Files, Joins, Input, Quote
<1>3. \A t \in Words : t \notin Files /\ t \notin Joins /\ t # Input /\ t # Quote /\ t # "newline"
  BY DEF Words, Files, Joins, Input, Quote
<1>4. Input \notin Words /\ Input \notin Files /\ Input \notin Joins /\ Input # Quote /\ Input # "newline"
  BY DEF Words, Files, Joins, Input, Quote
<1>5. Quote \notin Words /\ Quote \notin Files /\ Quote \notin Joins /\ Quote # "newline"
  BY DEF Words, Files, Joins, Quote
<1>6. Null \in Files /\ "newline" \in Joins /\ "start" \in Words
  BY DEF Null, Files, Joins, Words
<1> QED
  BY <1>1, <1>2, <1>3, <1>4, <1>5, <1>6

\* The marks that the rewriting looks for.
LEMMA Marks ==
  /\ \A t \in D!Ends : t \in Joins \/ t = "&> f"
  /\ \A t \in D!Separators : t \in D!Ends /\ t \in Joins
  /\ \A t \in All : t \notin D!Ends /\ t \notin D!Angles => t \in Words \cup {Quote}
  /\ \A t \in Words : t \notin D!Ends /\ t \notin D!Angles
  /\ Quote \notin D!Ends /\ Quote \notin D!Angles
  /\ Null \notin D!Ends /\ Null \in D!Angles
<1>1. \A t \in D!Ends : t \in Joins \/ t = "&> f"
  BY DEF D!Ends, Joins
<1>2. \A t \in D!Separators : t \in D!Ends /\ t \in Joins
  BY DEF D!Ends, D!Separators, Joins
<1>3. \A t \in All : t \notin D!Ends /\ t \notin D!Angles => t \in Words \cup {Quote}
  BY DEF All, Words, Quote, Files, Joins, Input, D!Ends, D!Angles
<1>4. \A t \in Words : t \notin D!Ends /\ t \notin D!Angles
  BY DEF Words, D!Ends, D!Angles
<1>5. Quote \notin D!Ends /\ Quote \notin D!Angles
  BY DEF Quote, D!Ends, D!Angles
<1>6. Null \notin D!Ends /\ Null \in D!Angles
  BY DEF Null, D!Ends, D!Angles
<1> QED
  BY <1>1, <1>2, <1>3, <1>4, <1>5, <1>6

LEMMA BlankType == D!Blank \in Items /\ D!Blank.words = <<>> /\ D!Blank.output = "pipe"
  BY DEF D!Blank, Items

\* Where the output of a command goes when t joins the next one to it.
Onward(o, t) == IF t \in D!Pipes /\ o = "pipe" THEN "next" ELSE o

LEMMA JoinedIs ==
  ASSUME NEW w, NEW o, NEW j, NEW t, NEW x, x = [words |-> w, output |-> o, join |-> j]
  PROVE  D!Joined(x, t) = [words |-> w, output |-> Onward(o, t), join |-> t]
<1> DEFINE y == [x EXCEPT !.join = t]  n == Onward(o, t)
<1>1. y = [words |-> w, output |-> o, join |-> t] /\ y.output = o
  OBVIOUS
<1> HIDE DEF y
<1>2. D!Joined(x, t) = [y EXCEPT !.output = n]
  BY <1>1, Zenon DEF D!Joined, Onward, y
<1> HIDE DEF n
<1>3. [y EXCEPT !.output = n] = [words |-> w, output |-> n, join |-> t]
  BY <1>1
<1> QED
  BY <1>2, <1>3 DEF n

LEMMA ItemChanges ==
  ASSUME NEW x \in Items
  PROVE  /\ \A t \in All : /\ D!Worded(x, t) \in Items /\ D!Worded(x, t).words = Append(x.words, t)
                           /\ D!Worded(x, t).words # <<>>
                           /\ D!Worded(x, t).output = x.output /\ D!Worded(x, t).join = x.join
         /\ \A t \in Files : /\ D!Routed(x, t) \in Items /\ D!Routed(x, t).words = x.words
                             /\ D!Routed(x, t).output = t /\ D!Routed(x, t).join = x.join
         /\ \A t \in Joins : /\ D!Joined(x, t) \in Items /\ D!Joined(x, t).words = x.words
                             /\ D!Joined(x, t).output = Onward(x.output, t) /\ D!Joined(x, t).join = t
<1>1. /\ x.words \in Seq(All) /\ x.output \in {"pipe", "next"} \cup Files /\ x.join \in Joins \cup {"end"}
      /\ x = [words |-> x.words, output |-> x.output, join |-> x.join]
  BY DEF Items
<1> DEFINE w == x.words  o == x.output  j == x.join
<1>2. \A t \in All : D!Worded(x, t) = [words |-> Append(w, t), output |-> o, join |-> j]
  BY <1>1 DEF D!Worded
<1>3. \A t \in Files : D!Routed(x, t) = [words |-> w, output |-> t, join |-> j]
  BY <1>1 DEF D!Routed
<1>4. \A t \in Joins : D!Joined(x, t) = [words |-> w, output |-> Onward(o, t), join |-> t]
  BY <1>1, JoinedIs
<1>5. \A t \in All : Append(w, t) \in Seq(All) /\ Append(w, t) # <<>>
  BY <1>1
<1>6. \A t : Onward(o, t) \in {"pipe", "next"} \cup Files
  BY <1>1 DEF Onward
<1> HIDE DEF w, o, j
<1>7. w \in Seq(All) /\ o \in {"pipe", "next"} \cup Files /\ j \in Joins \cup {"end"}
  BY <1>1 DEF w, o, j
<1>8. ASSUME NEW v \in Seq(All), NEW e \in {"pipe", "next"} \cup Files, NEW g \in Joins \cup {"end"}, NEW y,
             y = [words |-> v, output |-> e, join |-> g]
      PROVE  y \in Items /\ y.words = v /\ y.output = e /\ y.join = g
  BY <1>8 DEF Items
<1>9. \A t \in All : /\ D!Worded(x, t) \in Items /\ D!Worded(x, t).words = Append(w, t)
                     /\ D!Worded(x, t).words # <<>> /\ D!Worded(x, t).output = o /\ D!Worded(x, t).join = j
  <2> SUFFICES ASSUME NEW t \in All
               PROVE  /\ D!Worded(x, t) \in Items /\ D!Worded(x, t).words = Append(w, t)
                      /\ D!Worded(x, t).words # <<>> /\ D!Worded(x, t).output = o /\ D!Worded(x, t).join = j
    OBVIOUS
  <2> DEFINE v == Append(w, t)  y == D!Worded(x, t)
  <2>1. v \in Seq(All) /\ v # <<>> /\ y = [words |-> v, output |-> o, join |-> j]
    BY <1>2, <1>5
  <2> HIDE DEF v, y
  <2>2. y \in Items /\ y.words = v /\ y.output = o /\ y.join = j
    BY <1>7, <1>8, <2>1
  <2> QED
    BY <2>1, <2>2 DEF v, y
<1>10. \A t \in Files : /\ D!Routed(x, t) \in Items /\ D!Routed(x, t).words = w
                        /\ D!Routed(x, t).output = t /\ D!Routed(x, t).join = j
  <2> SUFFICES ASSUME NEW t \in Files
               PROVE  /\ D!Routed(x, t) \in Items /\ D!Routed(x, t).words = w
                      /\ D!Routed(x, t).output = t /\ D!Routed(x, t).join = j
    OBVIOUS
  <2> DEFINE y == D!Routed(x, t)
  <2>1. y = [words |-> w, output |-> t, join |-> j] /\ t \in {"pipe", "next"} \cup Files
    BY <1>3
  <2> HIDE DEF y
  <2>2. y \in Items /\ y.words = w /\ y.output = t /\ y.join = j
    BY <1>7, <1>8, <2>1
  <2> QED
    BY <2>2 DEF y
<1>11. \A t \in Joins : /\ D!Joined(x, t) \in Items /\ D!Joined(x, t).words = w
                        /\ D!Joined(x, t).output = Onward(o, t) /\ D!Joined(x, t).join = t
  <2> SUFFICES ASSUME NEW t \in Joins
               PROVE  /\ D!Joined(x, t) \in Items /\ D!Joined(x, t).words = w
                      /\ D!Joined(x, t).output = Onward(o, t) /\ D!Joined(x, t).join = t
    OBVIOUS
  <2> DEFINE y == D!Joined(x, t)  e == Onward(o, t)
  <2>1. y = [words |-> w, output |-> e, join |-> t] /\ e \in {"pipe", "next"} \cup Files /\ t \in Joins \cup {"end"}
    BY <1>4, <1>6
  <2> HIDE DEF y, e
  <2>2. y \in Items /\ y.words = w /\ y.output = e /\ y.join = t
    BY <1>7, <1>8, <2>1
  <2> QED
    BY <2>2 DEF y, e
<1> QED
  BY <1>9, <1>10, <1>11 DEF w, o, j

\* The list of commands after one more token, by the kind of the token.
LEMMA MoreIs ==
  ASSUME NEW l \in Seq(Items), l # <<>>, NEW q \in BOOLEAN, NEW t \in All, NEW x, x = l[Len(l)]
  PROVE  /\ (t = Quote \/ q \/ t \in Words) => D!More(l, q, t) = D!OneMore(l, D!Worded(x, t))
         /\ ~q /\ t \in Files => D!More(l, q, t) = D!OneMore(l, D!Routed(x, t))
         /\ ~q /\ (t = Input \/ (t = "newline" /\ x.words = <<>>)) => D!More(l, q, t) = l
         /\ ~q /\ t \in Joins /\ ~(t = "newline" /\ x.words = <<>>) =>
              D!More(l, q, t) = Append(D!OneMore(l, D!Joined(x, t)), D!Blank)
<1>1. D!More(l, q, t) =
        IF t = Quote \/ q \/ t \in Words THEN D!OneMore(l, D!Worded(x, t))
        ELSE IF t \in Files THEN D!OneMore(l, D!Routed(x, t))
        ELSE IF t = Input \/ (t = "newline" /\ x.words = <<>>) THEN l
        ELSE Append(D!OneMore(l, D!Joined(x, t)), D!Blank)
  BY Zenon DEF D!More, D!Last, Quote, Words, Files, Input
<1>2. (t = Quote \/ q \/ t \in Words) => D!More(l, q, t) = D!OneMore(l, D!Worded(x, t))
  BY <1>1, Zenon
<1>3. ~q /\ t \in Files => D!More(l, q, t) = D!OneMore(l, D!Routed(x, t))
  BY <1>1, Kinds, Zenon
<1>4. ~q /\ (t = Input \/ (t = "newline" /\ x.words = <<>>)) => D!More(l, q, t) = l
  BY <1>1, Kinds, Zenon
<1>5. ~q /\ t \in Joins /\ ~(t = "newline" /\ x.words = <<>>) =>
        D!More(l, q, t) = Append(D!OneMore(l, D!Joined(x, t)), D!Blank)
  BY <1>1, Kinds, Zenon
<1> QED
  BY <1>2, <1>3, <1>4, <1>5, Zenon

LEMMA OneMoreIs ==
  ASSUME NEW l \in Seq(Items), l # <<>>, NEW y \in Items
  PROVE  /\ D!OneMore(l, y) \in Seq(Items) /\ D!OneMore(l, y) # <<>> /\ Len(D!OneMore(l, y)) = Len(l)
         /\ D!OneMore(l, y)[Len(l)] = y /\ \A k \in 1..(Len(l) - 1) : D!OneMore(l, y)[k] = l[k]
  BY DEF D!OneMore

LEMMA NotEmpty ==
  ASSUME NEW T, NEW y \in Seq(T), Len(y) >= 1
  PROVE  y # <<>>
  OBVIOUS

LEMMA AppendIs ==
  ASSUME NEW m \in Seq(Items), NEW y \in Items
  PROVE  /\ Append(m, y) \in Seq(Items) /\ Append(m, y) # <<>> /\ Len(Append(m, y)) = Len(m) + 1
         /\ Append(m, y)[Len(m) + 1] = y /\ \A k \in 1..Len(m) : Append(m, y)[k] = m[k]
  OBVIOUS

\* One more token changes the last command, changes it and begins another, or does nothing.
LEMMA MoreType ==
  ASSUME NEW l \in Seq(Items), l # <<>>, NEW q \in BOOLEAN, NEW t \in All
  PROVE  /\ D!More(l, q, t) \in Seq(Items) /\ D!More(l, q, t) # <<>> /\ Len(D!More(l, q, t)) >= Len(l)
         /\ \A k \in 1..(Len(l) - 1) : D!More(l, q, t)[k] = l[k]
<1> DEFINE x == l[Len(l)]  z == D!More(l, q, t)
<1>1. x \in Items /\ Len(l) \in Nat /\ Len(l) > 0
  OBVIOUS
<1>2. /\ (t = Quote \/ q \/ t \in Words) => z = D!OneMore(l, D!Worded(x, t))
      /\ ~q /\ t \in Files => z = D!OneMore(l, D!Routed(x, t))
      /\ ~q /\ (t = Input \/ (t = "newline" /\ x.words = <<>>)) => z = l
      /\ ~q /\ t \in Joins /\ ~(t = "newline" /\ x.words = <<>>) =>
           z = Append(D!OneMore(l, D!Joined(x, t)), D!Blank)
  BY MoreIs
<1>3. /\ D!Worded(x, t) \in Items
      /\ t \in Files => D!Routed(x, t) \in Items
      /\ t \in Joins => D!Joined(x, t) \in Items
  BY <1>1, ItemChanges
<1> HIDE DEF x, z
<1>4. ASSUME NEW y \in Items, z = D!OneMore(l, y)
      PROVE  z \in Seq(Items) /\ z # <<>> /\ Len(z) >= Len(l) /\ \A k \in 1..(Len(l) - 1) : z[k] = l[k]
  <2> DEFINE m == D!OneMore(l, y)
  <2>1. m \in Seq(Items) /\ m # <<>> /\ Len(m) = Len(l) /\ \A k \in 1..(Len(l) - 1) : m[k] = l[k]
    BY OneMoreIs
  <2>2. z = m
    BY <1>4
  <2> HIDE DEF m
  <2> QED
    BY <1>1, <2>1, <2>2
<1>5. ASSUME NEW y \in Items, z = Append(D!OneMore(l, y), D!Blank)
      PROVE  z \in Seq(Items) /\ z # <<>> /\ Len(z) >= Len(l) /\ \A k \in 1..(Len(l) - 1) : z[k] = l[k]
  <2> DEFINE m == D!OneMore(l, y)
  <2>1. m \in Seq(Items) /\ Len(m) = Len(l) /\ \A k \in 1..(Len(l) - 1) : m[k] = l[k]
    BY OneMoreIs
  <2>2. z = Append(m, D!Blank) /\ D!Blank \in Items
    BY <1>5, BlankType
  <2> HIDE DEF m
  <2>3. z \in Seq(Items) /\ z # <<>> /\ Len(z) = Len(m) + 1 /\ \A k \in 1..Len(m) : z[k] = m[k]
    BY <2>1, <2>2, AppendIs
  <2> QED
    BY <1>1, <2>1, <2>3
<1>6. CASE t = Quote \/ q \/ t \in Words
  BY <1>2, <1>3, <1>4, <1>6 DEF z
<1>7. CASE ~q /\ t \in Files
  BY <1>2, <1>3, <1>4, <1>7 DEF z
<1>8. CASE ~q /\ (t = Input \/ (t = "newline" /\ x.words = <<>>))
  BY <1>1, <1>2, <1>8 DEF z
<1>9. CASE ~q /\ t \in Joins /\ ~(t = "newline" /\ x.words = <<>>)
  BY <1>2, <1>3, <1>5, <1>9 DEF z
<1>10. t = Quote \/ t \in Words \/ t \in Files \/ t = Input \/ t \in Joins
  BY DEF All
<1> QED
  BY <1>6, <1>7, <1>8, <1>9, <1>10

\* A redirection to nowhere, outside of quotes.
LEMMA NullIs ==
  ASSUME NEW l \in Seq(Items), l # <<>>, NEW x, x = l[Len(l)]
  PROVE  D!More(l, FALSE, Null) = D!OneMore(l, D!Routed(x, Null))
<1>1. Null \in Files /\ Null \notin Words /\ Null # Quote
  BY Kinds
<1>2. D!More(l, FALSE, Null) =
        IF Null = Quote \/ FALSE \/ Null \in Words THEN D!OneMore(l, D!Worded(x, Null))
        ELSE IF Null \in Files THEN D!OneMore(l, D!Routed(x, Null))
        ELSE IF Null = Input \/ (Null = "newline" /\ x.words = <<>>) THEN l
        ELSE Append(D!OneMore(l, D!Joined(x, Null)), D!Blank)
  BY Zenon DEF D!More, D!Last, Quote, Words, Files, Input
<1> QED
  BY <1>1, <1>2, Zenon

\* Two lists of the same commands, but for where the output of number i goes.
SameItem(a, b) == a.words = b.words /\ a.join = b.join

Alike(a, b, i) ==
  /\ Len(a) = Len(b)
  /\ \A k \in 1..Len(b) : SameItem(a[k], b[k]) /\ (k # i => a[k].output = b[k].output)

LEMMA OneMoreAlike ==
  ASSUME NEW a \in Seq(Items), a # <<>>, NEW b \in Seq(Items), b # <<>>, NEW i, Alike(a, b, i),
         NEW u \in Items, NEW v \in Items, SameItem(u, v), Len(b) # i => u.output = v.output
  PROVE  Alike(D!OneMore(a, u), D!OneMore(b, v), i)
<1> DEFINE e == D!OneMore(a, u)  f == D!OneMore(b, v)
<1>1. Len(a) = Len(b) /\ Len(b) \in Nat /\ Len(b) >= 1
  BY DEF Alike
<1>2. Len(e) = Len(a) /\ e[Len(a)] = u /\ \A k \in 1..(Len(a) - 1) : e[k] = a[k]
  BY OneMoreIs
<1>3. Len(f) = Len(b) /\ f[Len(b)] = v /\ \A k \in 1..(Len(b) - 1) : f[k] = b[k]
  BY OneMoreIs
<1> HIDE DEF e, f
<1>4. ASSUME NEW k \in 1..Len(f) PROVE SameItem(e[k], f[k]) /\ (k # i => e[k].output = f[k].output)
  <2>1. CASE k = Len(b)
    BY <1>1, <1>2, <1>3, <2>1
  <2>2. CASE k # Len(b)
    <3>1. k \in 1..(Len(b) - 1) /\ k \in 1..Len(b)
      BY <1>1, <1>3, <2>2
    <3>2. e[k] = a[k] /\ f[k] = b[k]
      BY <1>1, <1>2, <1>3, <3>1
    <3>3. SameItem(a[k], b[k]) /\ (k # i => a[k].output = b[k].output)
      BY <3>1 DEF Alike
    <3> QED
      BY <3>2, <3>3
  <2> QED
    BY <2>1, <2>2
<1> QED
  BY <1>1, <1>2, <1>3, <1>4 DEF Alike, e, f

LEMMA AppendAlike ==
  ASSUME NEW a \in Seq(Items), NEW b \in Seq(Items), NEW i, Alike(a, b, i), NEW y \in Items
  PROVE  Alike(Append(a, y), Append(b, y), i)
<1> DEFINE e == Append(a, y)  f == Append(b, y)
<1>1. Len(a) = Len(b) /\ Len(b) \in Nat
  BY DEF Alike
<1>2. Len(e) = Len(a) + 1 /\ e[Len(a) + 1] = y /\ \A k \in 1..Len(a) : e[k] = a[k]
  BY AppendIs
<1>3. Len(f) = Len(b) + 1 /\ f[Len(b) + 1] = y /\ \A k \in 1..Len(b) : f[k] = b[k]
  BY AppendIs
<1> HIDE DEF e, f
<1>4. ASSUME NEW k \in 1..Len(f) PROVE SameItem(e[k], f[k]) /\ (k # i => e[k].output = f[k].output)
  <2>1. CASE k = Len(b) + 1
    BY <1>1, <1>2, <1>3, <2>1 DEF SameItem
  <2>2. CASE k # Len(b) + 1
    <3>1. k \in 1..Len(b)
      BY <1>1, <1>3, <2>2
    <3>2. e[k] = a[k] /\ f[k] = b[k]
      BY <1>1, <1>2, <1>3, <3>1
    <3>3. SameItem(a[k], b[k]) /\ (k # i => a[k].output = b[k].output)
      BY <3>1 DEF Alike
    <3> QED
      BY <3>2, <3>3
  <2> QED
    BY <2>1, <2>2
<1> QED
  BY <1>1, <1>2, <1>3, <1>4 DEF Alike, e, f

\* One more token keeps them alike.
LEMMA MoreAlike ==
  ASSUME NEW a \in Seq(Items), a # <<>>, NEW b \in Seq(Items), b # <<>>, NEW i, Alike(a, b, i),
         NEW q \in BOOLEAN, NEW t \in All
  PROVE  Alike(D!More(a, q, t), D!More(b, q, t), i)
<1> DEFINE x == a[Len(a)]  y == b[Len(b)]  e == D!More(a, q, t)  f == D!More(b, q, t)
<1>1. x \in Items /\ y \in Items /\ Len(b) \in 1..Len(b)
  OBVIOUS
<1>2. SameItem(x, y) /\ (Len(b) # i => x.output = y.output)
  BY <1>1 DEF Alike
<1>3. /\ (t = Quote \/ q \/ t \in Words) => e = D!OneMore(a, D!Worded(x, t))
      /\ ~q /\ t \in Files => e = D!OneMore(a, D!Routed(x, t))
      /\ ~q /\ (t = Input \/ (t = "newline" /\ x.words = <<>>)) => e = a
      /\ ~q /\ t \in Joins /\ ~(t = "newline" /\ x.words = <<>>) =>
           e = Append(D!OneMore(a, D!Joined(x, t)), D!Blank)
  BY MoreIs
<1>4. /\ (t = Quote \/ q \/ t \in Words) => f = D!OneMore(b, D!Worded(y, t))
      /\ ~q /\ t \in Files => f = D!OneMore(b, D!Routed(y, t))
      /\ ~q /\ (t = Input \/ (t = "newline" /\ y.words = <<>>)) => f = b
      /\ ~q /\ t \in Joins /\ ~(t = "newline" /\ y.words = <<>>) =>
           f = Append(D!OneMore(b, D!Joined(y, t)), D!Blank)
  BY MoreIs
<1>5. \A z \in Items :
        /\ D!Worded(z, t) \in Items /\ D!Worded(z, t).words = Append(z.words, t)
        /\ D!Worded(z, t).output = z.output /\ D!Worded(z, t).join = z.join
        /\ t \in Files => /\ D!Routed(z, t) \in Items /\ D!Routed(z, t).words = z.words
                          /\ D!Routed(z, t).output = t /\ D!Routed(z, t).join = z.join
        /\ t \in Joins => /\ D!Joined(z, t) \in Items /\ D!Joined(z, t).words = z.words
                          /\ D!Joined(z, t).output = Onward(z.output, t) /\ D!Joined(z, t).join = t
  BY ItemChanges
<1> HIDE DEF x, y, e, f
<1>6. CASE t = Quote \/ q \/ t \in Words
  <2> DEFINE u == D!Worded(x, t)  v == D!Worded(y, t)
  <2>1. u \in Items /\ v \in Items /\ SameItem(u, v) /\ (Len(b) # i => u.output = v.output)
    <3>1. u \in Items /\ u.words = Append(x.words, t) /\ u.output = x.output /\ u.join = x.join
      BY <1>1, <1>5, Zenon
    <3>2. v \in Items /\ v.words = Append(y.words, t) /\ v.output = y.output /\ v.join = y.join
      BY <1>1, <1>5, Zenon
    <3> HIDE DEF u, v
    <3> QED
      BY <1>2, <3>1, <3>2 DEF SameItem
  <2>2. e = D!OneMore(a, u) /\ f = D!OneMore(b, v)
    BY <1>3, <1>4, <1>6
  <2> HIDE DEF u, v
  <2>3. Alike(D!OneMore(a, u), D!OneMore(b, v), i)
    BY <2>1, OneMoreAlike
  <2> QED
    BY <2>2, <2>3 DEF e, f
<1>7. CASE ~q /\ t \in Files
  <2> DEFINE u == D!Routed(x, t)  v == D!Routed(y, t)
  <2>1. u \in Items /\ v \in Items /\ SameItem(u, v) /\ (Len(b) # i => u.output = v.output)
    BY <1>1, <1>2, <1>5, <1>7 DEF SameItem
  <2>2. e = D!OneMore(a, u) /\ f = D!OneMore(b, v)
    BY <1>3, <1>4, <1>7
  <2> HIDE DEF u, v
  <2>3. Alike(D!OneMore(a, u), D!OneMore(b, v), i)
    BY <2>1, OneMoreAlike
  <2> QED
    BY <2>2, <2>3 DEF e, f
<1>8. CASE ~q /\ (t = Input \/ (t = "newline" /\ x.words = <<>>))
  BY <1>2, <1>3, <1>4, <1>8 DEF e, f, SameItem
<1>9. CASE ~q /\ t \in Joins /\ ~(t = "newline" /\ x.words = <<>>)
  <2> DEFINE u == D!Joined(x, t)  v == D!Joined(y, t)
  <2>1. u \in Items /\ v \in Items /\ SameItem(u, v)
    BY <1>1, <1>2, <1>5, <1>9 DEF SameItem
  <2>2. u.output = Onward(x.output, t) /\ v.output = Onward(y.output, t)
    BY <1>1, <1>5, <1>9
  <2>3. e = Append(D!OneMore(a, u), D!Blank) /\ f = Append(D!OneMore(b, v), D!Blank)
    BY <1>2, <1>3, <1>4, <1>9 DEF SameItem
  <2> HIDE DEF u, v
  <2>4. Alike(D!OneMore(a, u), D!OneMore(b, v), i)
    BY <1>2, <2>1, <2>2, OneMoreAlike
  <2>5. D!OneMore(a, u) \in Seq(Items) /\ D!OneMore(b, v) \in Seq(Items)
    BY <2>1, OneMoreIs
  <2>6. Alike(Append(D!OneMore(a, u), D!Blank), Append(D!OneMore(b, v), D!Blank), i)
    BY <2>4, <2>5, BlankType, AppendAlike
  <2> QED
    BY <2>3, <2>6 DEF e, f
<1>10. t = Quote \/ t \in Words \/ t \in Files \/ t = Input \/ t \in Joins
  BY DEF All
<1> QED
  BY <1>6, <1>7, <1>8, <1>9, <1>10

\* The commands that the shell has read, and whether it is in a quote, token by token.
Lists(c, l, q) ==
  /\ l[0] = <<D!Blank>> /\ q[0] = FALSE
  /\ \A k \in 1..Len(c) : l[k] = D!More(l[k - 1], q[k - 1], c[k]) /\ q[k] = D!Turned(q[k - 1], c[k])
  /\ \A k \in 0..Len(c) : l[k] \in Seq(Items) /\ l[k] # <<>> /\ q[k] \in BOOLEAN

LEMMA MeaningIs ==
  ASSUME NEW c \in Seq(All)
  PROVE  \E l, q : Lists(c, l, q) /\ D!Meaning(c) = l[Len(c)] /\ D!Reading(c).quoted = q[Len(c)]
<1>1. Len(c) \in Nat
  OBVIOUS
<1>2. PICK f : /\ f[0] = Begin /\ \A k \in 1..Len(c) : f[k] = D!Read(f[k - 1], c[k])
               /\ D!Reading(c) = f[Len(c)]
  BY <1>1, ReadingIs
<1> DEFINE l == [k \in 0..Len(c) |-> f[k].list]
           q == [k \in 0..Len(c) |-> f[k].quoted]
<1>3. l[0] = <<D!Blank>> /\ q[0] = FALSE
  BY <1>1, <1>2 DEF Begin
<1>4. \A k \in 1..Len(c) : l[k] = D!More(l[k - 1], q[k - 1], c[k]) /\ q[k] = D!Turned(q[k - 1], c[k])
  <2> SUFFICES ASSUME NEW k \in 1..Len(c)
               PROVE  l[k] = D!More(l[k - 1], q[k - 1], c[k]) /\ q[k] = D!Turned(q[k - 1], c[k])
    OBVIOUS
  <2>1. k \in 0..Len(c) /\ k - 1 \in 0..Len(c)
    BY <1>1
  <2>2. f[k] = [quoted |-> D!Turned(f[k - 1].quoted, c[k]), list |-> D!More(f[k - 1].list, f[k - 1].quoted, c[k])]
    BY <1>2 DEF D!Read
  <2> QED
    BY <2>1, <2>2
<1>5. D!Meaning(c) = l[Len(c)] /\ D!Reading(c).quoted = q[Len(c)]
  BY <1>1, <1>2 DEF D!Meaning
<1> HIDE DEF l, q
<1> DEFINE Good(k) == l[k] \in Seq(Items) /\ l[k] # <<>> /\ q[k] \in BOOLEAN
           S == {k \in Nat : k <= Len(c) => Good(k)}
<1>6. 0 \in S
  <2>1. <<D!Blank>> \in Seq(Items) /\ <<D!Blank>> # <<>>
    BY BlankType
  <2> QED
    BY <1>3, <2>1
<1>7. ASSUME NEW k \in Nat, k \in S PROVE k + 1 \in S
  <2> SUFFICES ASSUME k + 1 <= Len(c) PROVE Good(k + 1)
    OBVIOUS
  <2>1. Good(k) /\ k + 1 \in 1..Len(c) /\ k + 1 - 1 = k
    BY <1>1, <1>7
  <2>2. c[k + 1] \in All
    BY <2>1
  <2>3. l[k + 1] = D!More(l[k], q[k], c[k + 1]) /\ q[k + 1] = D!Turned(q[k], c[k + 1])
    BY <1>4, <2>1
  <2>4. q[k + 1] \in BOOLEAN
    BY <2>1, <2>3 DEF D!Turned
  <2> QED
    BY <2>1, <2>2, <2>3, <2>4, MoreType
<1> HIDE DEF S
<1>8. Nat \subseteq S
  BY <1>6, <1>7, AllNumbers
<1>9. \A k \in 0..Len(c) : Good(k)
  BY <1>1, <1>8 DEF S
<1> QED
  BY <1>3, <1>4, <1>5, <1>9 DEF Lists

\* The same tokens at the front are read the same way.
SameTokens(c, w, n) == n <= Len(c) /\ n <= Len(w) /\ \A k \in 1..n : w[k] = c[k]

LEMMA SameFront ==
  ASSUME NEW c \in Seq(All), NEW l, NEW q, Lists(c, l, q), NEW w \in Seq(All), NEW m, NEW r, Lists(w, m, r),
         NEW n \in Nat, SameTokens(c, w, n)
  PROVE  \A k \in 0..n : m[k] = l[k] /\ r[k] = q[k]
<1> USE DEF SameTokens
<1>1. Len(c) \in Nat /\ Len(w) \in Nat
  OBVIOUS
<1> DEFINE S == {k \in Nat : k <= n => m[k] = l[k] /\ r[k] = q[k]}
<1>2. 0 \in S
  BY DEF Lists
<1>3. ASSUME NEW k \in Nat, k \in S PROVE k + 1 \in S
  <2> SUFFICES ASSUME k + 1 <= n PROVE m[k + 1] = l[k + 1] /\ r[k + 1] = q[k + 1]
    OBVIOUS
  <2>1. k + 1 \in 1..Len(c) /\ k + 1 \in 1..Len(w) /\ k + 1 - 1 = k /\ k + 1 \in 1..n
    BY <1>1
  <2>2. m[k] = l[k] /\ r[k] = q[k] /\ w[k + 1] = c[k + 1]
    BY <1>3, <2>1
  <2>3. l[k + 1] = D!More(l[k], q[k], c[k + 1]) /\ q[k + 1] = D!Turned(q[k], c[k + 1])
    BY <2>1 DEF Lists
  <2>4. m[k + 1] = D!More(m[k], r[k], w[k + 1]) /\ r[k + 1] = D!Turned(r[k], w[k + 1])
    BY <2>1 DEF Lists
  <2> QED
    BY <2>2, <2>3, <2>4
<1> HIDE DEF S
<1>4. Nat \subseteq S
  BY <1>2, <1>3, AllNumbers
<1> QED
  BY <1>4 DEF S

\* The same tokens one place further keep lists alike that are.
Shifted(c, w, n) == Len(w) = Len(c) + 1 /\ \A k \in (n + 1)..Len(c) : w[k + 1] = c[k]
AlikeAt(l, q, m, r, i, k) == Alike(m[k + 1], l[k], i) /\ r[k + 1] = q[k]

LEMMA SameBack ==
  ASSUME NEW c \in Seq(All), NEW l, NEW q, Lists(c, l, q), NEW w \in Seq(All), NEW m, NEW r, Lists(w, m, r),
         NEW i, NEW n \in 0..Len(c), Shifted(c, w, n), AlikeAt(l, q, m, r, i, n)
  PROVE  \A k \in n..Len(c) : AlikeAt(l, q, m, r, i, k)
<1> USE DEF Shifted, AlikeAt
<1>1. Len(c) \in Nat /\ n \in Nat
  OBVIOUS
<1> DEFINE S == {k \in Nat : k \in n..Len(c) => Alike(m[k + 1], l[k], i) /\ r[k + 1] = q[k]}
<1>2. 0 \in S
  OBVIOUS
<1>3. ASSUME NEW k \in Nat, k \in S PROVE k + 1 \in S
  <2> SUFFICES ASSUME k + 1 \in n..Len(c) PROVE Alike(m[k + 1 + 1], l[k + 1], i) /\ r[k + 1 + 1] = q[k + 1]
    OBVIOUS
  <2>1. CASE k + 1 = n
    BY <2>1
  <2>2. CASE k + 1 # n
    <3>1. /\ k \in n..Len(c) /\ k + 1 \in (n + 1)..Len(c) /\ k + 1 \in 1..Len(c) /\ k + 1 + 1 \in 1..Len(w)
          /\ k + 1 - 1 = k /\ k + 1 + 1 - 1 = k + 1 /\ k \in 0..Len(c) /\ k + 1 \in 0..Len(w)
      BY <1>1, <2>2
    <3>2. Alike(m[k + 1], l[k], i) /\ r[k + 1] = q[k] /\ w[k + 1 + 1] = c[k + 1] /\ c[k + 1] \in All
      BY <1>3, <3>1
    <3>3. l[k + 1] = D!More(l[k], q[k], c[k + 1]) /\ q[k + 1] = D!Turned(q[k], c[k + 1])
      BY <3>1 DEF Lists
    <3>4. m[k + 1 + 1] = D!More(m[k + 1], r[k + 1], w[k + 1 + 1]) /\ r[k + 1 + 1] = D!Turned(r[k + 1], w[k + 1 + 1])
      BY <3>1 DEF Lists
    <3>5. /\ l[k] \in Seq(Items) /\ l[k] # <<>> /\ q[k] \in BOOLEAN
          /\ m[k + 1] \in Seq(Items) /\ m[k + 1] # <<>>
      BY <3>1 DEF Lists
    <3> QED
      BY <3>2, <3>3, <3>4, <3>5, MoreAlike
  <2> QED
    BY <2>1, <2>2
<1> HIDE DEF S
<1>4. Nat \subseteq S
  BY <1>2, <1>3, AllNumbers
<1>5. \A k \in n..Len(c) : k \in Nat
  BY <1>1
<1> QED
  BY <1>4, <1>5 DEF S

\* A command that another one follows stays as it is.
LEMMA FirstStays ==
  ASSUME NEW c \in Seq(All), NEW l, NEW q, Lists(c, l, q), NEW n \in 0..Len(c), Len(l[n]) >= 2
  PROVE  \A k \in n..Len(c) : Len(l[k]) >= 2 /\ l[k][1] = l[n][1]
<1>1. Len(c) \in Nat /\ n \in Nat
  OBVIOUS
<1> DEFINE S == {k \in Nat : k \in n..Len(c) => Len(l[k]) >= 2 /\ l[k][1] = l[n][1]}
<1>2. 0 \in S
  OBVIOUS
<1>3. ASSUME NEW k \in Nat, k \in S PROVE k + 1 \in S
  <2> SUFFICES ASSUME k + 1 \in n..Len(c) PROVE Len(l[k + 1]) >= 2 /\ l[k + 1][1] = l[n][1]
    OBVIOUS
  <2>1. CASE k + 1 = n
    BY <2>1
  <2>2. CASE k + 1 # n
    <3> DEFINE y == l[k]  t == c[k + 1]  z == l[k + 1]
    <3>1. k \in n..Len(c) /\ k + 1 \in 1..Len(c) /\ k + 1 - 1 = k /\ k \in 0..Len(c)
      BY <1>1, <2>2
    <3>2. Len(y) >= 2 /\ y[1] = l[n][1]
      BY <1>3, <3>1
    <3>3. z = D!More(y, q[k], t) /\ y \in Seq(Items) /\ y # <<>> /\ q[k] \in BOOLEAN /\ t \in All
      BY <3>1 DEF Lists
    <3> HIDE DEF y, t, z
    <3>4. z \in Seq(Items) /\ Len(z) >= Len(y) /\ \A i \in 1..(Len(y) - 1) : z[i] = y[i]
      BY <3>3, MoreType
    <3>5. Len(y) \in Nat /\ Len(z) \in Nat
      BY <3>3, <3>4
    <3>6. Len(z) >= 2 /\ z[1] = l[n][1]
      BY <3>2, <3>4, <3>5
    <3> QED
      BY <3>6 DEF z
  <2> QED
    BY <2>1, <2>2
<1> HIDE DEF S
<1>4. Nat \subseteq S
  BY <1>2, <1>3, AllNumbers
<1>5. \A k \in n..Len(c) : k \in Nat
  BY <1>1
<1> QED
  BY <1>4, <1>5 DEF S

\* While its arguments go on the start is the only command, and writes to the pipe.
LEMMA OnlyStart ==
  ASSUME NEW c \in Seq(All), NEW l, NEW q, Lists(c, l, q), NEW n \in 1..Len(c),
         c[1] = "start", \A k \in 1..n : c[k] \in Words \cup {Quote}
  PROVE  Len(l[n]) = 1 /\ l[n][1].words # <<>> /\ l[n][1].output = "pipe"
<1>1. Len(c) \in Nat /\ n \in Nat
  OBVIOUS
<1> DEFINE S == {k \in Nat : k <= n => Len(l[k]) = 1 /\ l[k][1].output = "pipe" /\ (k > 0 => l[k][1].words # <<>>)}
<1>2. 0 \in S
  <2>1. l[0] = <<D!Blank>>
    BY DEF Lists
  <2>2. Len(<<D!Blank>>) = 1 /\ <<D!Blank>>[1] = D!Blank
    OBVIOUS
  <2>3. Len(l[0]) = 1 /\ l[0][1].output = "pipe"
    BY <2>1, <2>2, BlankType
  <2> QED
    BY <2>3
<1>3. ASSUME NEW k \in Nat, k \in S PROVE k + 1 \in S
  <2> SUFFICES ASSUME k + 1 <= n PROVE Len(l[k + 1]) = 1 /\ l[k + 1][1].output = "pipe" /\ l[k + 1][1].words # <<>>
    OBVIOUS
  <2> DEFINE y == l[k]  t == c[k + 1]  z == l[k + 1]  x == y[Len(y)]
  <2>1. k + 1 \in 1..n /\ k + 1 \in 1..Len(c) /\ k + 1 - 1 = k /\ k \in 0..Len(c)
    BY <1>1
  <2>2. Len(y) = 1 /\ y[1].output = "pipe"
    BY <1>3, <2>1
  <2>3. z = D!More(y, q[k], t) /\ y \in Seq(Items) /\ y # <<>> /\ q[k] \in BOOLEAN /\ t \in All /\ t \in Words \cup {Quote}
    BY <2>1 DEF Lists
  <2>4. x \in Items /\ x = y[1]
    BY <2>2, <2>3
  <2> HIDE DEF y, t, z, x
  <2>5. z = D!OneMore(y, D!Worded(x, t))
    BY <2>3, MoreIs DEF x
  <2>6. D!Worded(x, t) \in Items /\ D!Worded(x, t).words # <<>> /\ D!Worded(x, t).output = x.output
    BY <2>3, <2>4, ItemChanges
  <2> DEFINE v == D!Worded(x, t)
  <2>7. v \in Items /\ v.words # <<>> /\ v.output = x.output /\ z = D!OneMore(y, v)
    BY <2>5, <2>6
  <2> HIDE DEF v
  <2>8. Len(z) = Len(y) /\ z[Len(y)] = v
    BY <2>3, <2>7, OneMoreIs
  <2>9. Len(z) = 1 /\ z[1] = v
    BY <2>2, <2>8
  <2>10. v.output = "pipe"
    BY <2>2, <2>4, <2>7
  <2> QED
    BY <2>7, <2>9, <2>10 DEF z
<1> HIDE DEF S
<1>4. Nat \subseteq S
  BY <1>2, <1>3, AllNumbers
<1>5. n \in S /\ n > 0
  BY <1>1, <1>4
<1> QED
  BY <1>5 DEF S

LEMMA LeastIs ==
  ASSUME NEW S \in SUBSET Nat, S # {}
  PROVE  D!Min(S) \in S /\ \A i \in S : D!Min(S) <= i
<1>1. \E m \in S : \A k \in S : m <= k
  <2> SUFFICES ASSUME \A m \in S : \E k \in S : k < m PROVE FALSE
    OBVIOUS
  <2> DEFINE T == {n \in Nat : \A i \in 0..n : i \notin S}
  <2>1. 0 \in T
    <3>1. 0 \notin S
      OBVIOUS
    <3> QED
      BY <3>1
  <2>2. ASSUME NEW n \in Nat, n \in T PROVE n + 1 \in T
    <3>1. n + 1 \notin S
      <4> SUFFICES ASSUME n + 1 \in S PROVE FALSE
        OBVIOUS
      <4>1. PICK k \in S : k < n + 1
        OBVIOUS
      <4>2. k \in 0..n
        BY <4>1
      <4> QED
        BY <2>2, <4>1, <4>2
    <3>2. \A i \in 0..(n + 1) : i \in 0..n \/ i = n + 1
      OBVIOUS
    <3> QED
      BY <2>2, <3>1, <3>2
  <2> HIDE DEF T
  <2>3. Nat \subseteq T
    BY <2>1, <2>2, AllNumbers
  <2>4. \A n \in Nat : n \in 0..n
    OBVIOUS
  <2> QED
    BY <2>3, <2>4 DEF T
<1> QED
  BY <1>1 DEF D!Min

\* Where the first of some tokens is.
LEMMA FirstIs ==
  ASSUME NEW T, NEW c \in Seq(T), NEW marks
  PROVE  /\ D!FirstOf(c, marks) \in 1..(Len(c) + 1)
         /\ \A k \in 1..(D!FirstOf(c, marks) - 1) : c[k] \notin marks
         /\ D!FirstOf(c, marks) <= Len(c) => c[D!FirstOf(c, marks)] \in marks
<1> DEFINE S == {i \in DOMAIN c : c[i] \in marks} \cup {Len(c) + 1}
           p == D!FirstOf(c, marks)
<1>1. Len(c) \in Nat /\ DOMAIN c = 1..Len(c)
  OBVIOUS
<1>2. S \in SUBSET Nat /\ S # {} /\ Len(c) + 1 \in S
  BY <1>1
<1>3. p = D!Min(S)
  BY DEF D!FirstOf
<1>4. p \in S /\ \A i \in S : p <= i
  BY <1>2, <1>3, LeastIs
<1> HIDE DEF p
<1>5. p \in 1..(Len(c) + 1) /\ (p <= Len(c) => c[p] \in marks)
  BY <1>1, <1>4
<1>6. ASSUME NEW k \in 1..(p - 1), c[k] \in marks PROVE FALSE
  <2>1. k \in DOMAIN c /\ k < p
    BY <1>1, <1>5, <1>6
  <2>2. k \in S
    BY <1>6, <2>1
  <2> QED
    BY <1>4, <1>5, <2>1, <2>2
<1> QED
  BY <1>5, <1>6 DEF p

LEMMA FirstIsThere ==
  ASSUME NEW T, NEW c \in Seq(T), NEW marks, NEW q \in 1..(Len(c) + 1),
         \A k \in 1..(q - 1) : c[k] \notin marks, q <= Len(c) => c[q] \in marks
  PROVE  D!FirstOf(c, marks) = q
<1> DEFINE p == D!FirstOf(c, marks)
<1>1. /\ p \in 1..(Len(c) + 1)
      /\ \A k \in 1..(p - 1) : c[k] \notin marks
      /\ p <= Len(c) => c[p] \in marks
  BY FirstIs
<1> HIDE DEF p
<1>2. Len(c) \in Nat
  OBVIOUS
<1>3. ~(p < q)
  BY <1>1, <1>2
<1>4. ~(q < p)
  BY <1>1, <1>2
<1> QED
  BY <1>1, <1>2, <1>3, <1>4 DEF p

LEMMA SameItems ==
  ASSUME NEW T, NEW a \in Seq(T), NEW b \in Seq(T), Len(a) = Len(b), \A k \in 1..Len(a) : a[k] = b[k]
  PROVE  a = b
  OBVIOUS

\* The tokens with the redirection put in at p.
Redirected(c, p) == SubSeq(c, 1, p - 1) \o D!Redirect \o SubSeq(c, p, Len(c))

LEMMA RedirectedIs ==
  ASSUME NEW c \in Seq(All), NEW p \in 1..(Len(c) + 1)
  PROVE  /\ Redirected(c, p) \in Seq(All) /\ Len(Redirected(c, p)) = Len(c) + 1
         /\ \A k \in 1..(p - 1) : Redirected(c, p)[k] = c[k]
         /\ Redirected(c, p)[p] = Null
         /\ \A k \in p..Len(c) : Redirected(c, p)[k + 1] = c[k]
<1> DEFINE T == All  a == SubSeq(c, 1, p - 1)  b == SubSeq(c, p, Len(c))  n == <<Null>>
<1>1. Len(c) \in Nat /\ p \in Nat /\ c \in Seq(T)
  OBVIOUS
<1> HIDE DEF T
<1>2. a \in Seq(T) /\ Len(a) = p - 1 /\ \A k \in 1..(p - 1) : a[k] = c[k]
  BY <1>1
<1>3. b \in Seq(T) /\ Len(b) = Len(c) - p + 1 /\ \A k \in 1..(Len(c) - p + 1) : b[k] = c[p + k - 1]
  BY <1>1
<1>4. n \in Seq(T) /\ Len(n) = 1 /\ n[1] = Null
  <2>1. Null \in T
    BY Kinds DEF T, All
  <2> QED
    BY <2>1
<1>5. Redirected(c, p) = a \o n \o b
  BY DEF Redirected, D!Redirect, Null
<1> HIDE DEF a, b, n
<1> DEFINE d == a \o n
<1>6. d \in Seq(T) /\ Len(d) = p /\ d[p] = Null /\ \A k \in 1..(p - 1) : d[k] = a[k]
  <2>1. d \in Seq(T) /\ Len(d) = Len(a) + Len(n)
        /\ \A i \in 1..(Len(a) + Len(n)) : d[i] = IF i <= Len(a) THEN a[i] ELSE n[i - Len(a)]
    BY <1>2, <1>4, ConcatProperties
  <2> HIDE DEF d
  <2>2. p \in 1..p /\ p - (p - 1) = 1
    BY <1>1
  <2> QED
    BY <1>1, <1>2, <1>4, <2>1, <2>2
<1> HIDE DEF d
<1> DEFINE w == d \o b
<1>7. w \in Seq(T) /\ Len(w) = Len(d) + Len(b)
      /\ \A i \in 1..(Len(d) + Len(b)) : w[i] = IF i <= Len(d) THEN d[i] ELSE b[i - Len(d)]
  BY <1>3, <1>6, ConcatProperties
<1>8. \A i \in 1..Len(b) : w[Len(d) + i] = b[i]
  <2> HIDE DEF w
  <2> SUFFICES ASSUME NEW i \in 1..Len(b) PROVE w[Len(d) + i] = b[i]
    OBVIOUS
  <2>1. Len(d) \in Nat /\ Len(b) \in Nat
    BY <1>3, <1>6
  <2>2. Len(d) + i \in 1..(Len(d) + Len(b)) /\ ~(Len(d) + i <= Len(d)) /\ Len(d) + i - Len(d) = i
    BY <2>1
  <2> QED
    BY <1>7, <2>2
<1>9. Redirected(c, p) = w
  BY <1>5 DEF d
<1> HIDE DEF w
<1>10. w \in Seq(T) /\ Len(w) = Len(c) + 1 /\ w[p] = Null /\ \A k \in 1..(p - 1) : w[k] = c[k]
  BY <1>1, <1>2, <1>3, <1>6, <1>7
<1>11. ASSUME NEW k \in p..Len(c) PROVE w[k + 1] = c[k]
  <2>1. k + 1 - p \in 1..Len(b) /\ Len(d) + (k + 1 - p) = k + 1 /\ p + (k + 1 - p) - 1 = k
    BY <1>1, <1>3, <1>6
  <2>2. w[Len(d) + (k + 1 - p)] = b[k + 1 - p]
    BY <1>8, <2>1
  <2>3. b[k + 1 - p] = c[p + (k + 1 - p) - 1]
    BY <1>3, <2>1
  <2> QED
    BY <2>1, <2>2, <2>3
<1> QED
  BY <1>9, <1>10, <1>11 DEF T

\* The tokens of the start and what follows it.
Cut(c) == D!FirstOf(c, D!Ends)

LEMMA PartsAre ==
  ASSUME NEW c \in Seq(All), c # <<>>, NEW p, p = Cut(c)
  PROVE  /\ p \in 1..(Len(c) + 1)
         /\ \A k \in 1..(p - 1) : c[k] \notin D!Ends
         /\ p <= Len(c) => c[p] \in D!Ends
         /\ D!First(c) \in Seq(All) /\ Len(D!First(c)) = p - 1 /\ \A k \in 1..(p - 1) : D!First(c)[k] = c[k]
         /\ D!ToSet(D!First(c)) \cap D!Angles = {} <=> \A k \in 1..(p - 1) : c[k] \notin D!Angles
         /\ D!Rest(c) = <<>> <=> p > Len(c)
         /\ p <= Len(c) => Head(D!Rest(c)) = c[p]
         /\ Head(c) = c[1]
<1> DEFINE first == SubSeq(c, 1, p - 1)  rest == SubSeq(c, p, Len(c))
<1>1. Len(c) \in Nat /\ Len(c) >= 1 /\ Head(c) = c[1]
  OBVIOUS
<1>2. p \in 1..(Len(c) + 1) /\ (\A k \in 1..(p - 1) : c[k] \notin D!Ends) /\ (p <= Len(c) => c[p] \in D!Ends)
  BY FirstIs DEF Cut
<1>3. D!First(c) = first /\ D!Rest(c) = rest
  BY DEF D!First, D!Rest, Cut
<1>4. first \in Seq(All) /\ Len(first) = p - 1 /\ DOMAIN first = 1..(p - 1) /\ \A k \in 1..(p - 1) : first[k] = c[k]
  BY <1>1, <1>2
<1>5. rest \in Seq(All) /\ Len(rest) = Len(c) - p + 1 /\ (p <= Len(c) => rest[1] = c[p])
  BY <1>1, <1>2
<1> HIDE DEF first, rest
<1>6. D!ToSet(first) = {c[k] : k \in 1..(p - 1)}
  BY <1>4 DEF D!ToSet
<1>7. D!ToSet(first) \cap D!Angles = {} <=> \A k \in 1..(p - 1) : c[k] \notin D!Angles
  BY <1>6
<1>8. rest = <<>> <=> p > Len(c)
  BY <1>1, <1>2, <1>5
<1>9. p <= Len(c) => Head(rest) = c[p]
  BY <1>1, <1>2, <1>5
<1> QED
  BY <1>1, <1>2, <1>3, <1>4, <1>7, <1>8, <1>9

\* The rewriting does something, and where.
Moves(c) == Head(c) = "start" /\ D!ToSet(D!First(c)) \cap D!Angles = {}
Within(c) == D!Rest(c) = <<>> \/ (Head(D!Rest(c)) \in D!Separators /\ Head(D!Rest(c)) # "|&")
Beyond(c) == D!Rest(c) # <<>> /\ Head(D!Rest(c)) \notin D!Separators

LEMMA IsolateIs ==
  ASSUME NEW c \in Seq(All), c # <<>>
  PROVE  /\ ~Moves(c) => D!Isolate(c) = c
         /\ Moves(c) /\ Within(c) => D!Isolate(c) = Redirected(c, Cut(c))
         /\ Moves(c) /\ Beyond(c) => D!Isolate(c) = c \o D!Redirect
<1> DEFINE p == Cut(c)
<1>1. ~Moves(c) => D!Isolate(c) = c
  BY Zenon DEF Moves, D!Isolate
<1>2. Moves(c) /\ Beyond(c) => D!Isolate(c) = c \o D!Redirect
  BY Zenon DEF Moves, Beyond, D!Isolate
<1>3. ASSUME Moves(c), Within(c) PROVE D!Isolate(c) = Redirected(c, p)
  <2>1. CASE D!Rest(c) = <<>>
    <3>1. D!Isolate(c) = c \o D!Redirect
      BY <1>3, <2>1, Zenon DEF Moves, D!Isolate
    <3>2. p = Len(c) + 1 /\ Len(c) \in Nat
      BY <2>1, PartsAre
    <3>3. SubSeq(c, 1, p - 1) = c /\ SubSeq(c, p, Len(c)) = <<>>
      BY <3>2
    <3>4. c \o D!Redirect \o <<>> = c \o D!Redirect
      <4>1. D!Redirect = <<Null>>
        BY DEF D!Redirect, Null
      <4>2. \A n : c \o <<n>> \o <<>> = c \o <<n>>
        OBVIOUS
      <4> QED
        BY <4>1, <4>2
    <3> QED
      BY <3>1, <3>3, <3>4, Zenon DEF Redirected
  <2>2. CASE D!Rest(c) # <<>>
    <3>1. D!Isolate(c) = D!First(c) \o D!Redirect \o D!Rest(c)
      BY <1>3, <2>2, Zenon DEF Moves, Within, D!Isolate
    <3> QED
      BY <3>1, Zenon DEF Redirected, D!First, D!Rest, Cut
  <2> QED
    BY <2>1, <2>2
<1> QED
  BY <1>1, <1>2, <1>3

\* The tokens of a start that is moved are words, in quotes or not, and the shell is in
\* no quote after them if it is in none after them alone.
LEMMA StartIs ==
  ASSUME NEW c \in Seq(All), c # <<>>, Moves(c), NEW p, p = Cut(c), NEW l, NEW q, Lists(c, l, q)
  PROVE  /\ p \in 2..(Len(c) + 1) /\ c[1] = "start"
         /\ Len(l[p - 1]) = 1 /\ l[p - 1][1].words # <<>> /\ l[p - 1][1].output = "pipe"
         /\ D!Unquoted(c) => q[p - 1] = FALSE
<1> DEFINE first == D!First(c)
<1>1. /\ p \in 1..(Len(c) + 1)
      /\ \A k \in 1..(p - 1) : c[k] \notin D!Ends
      /\ p <= Len(c) => c[p] \in D!Ends
      /\ first \in Seq(All) /\ Len(first) = p - 1 /\ \A k \in 1..(p - 1) : first[k] = c[k]
      /\ \A k \in 1..(p - 1) : c[k] \notin D!Angles
      /\ c[1] = "start"
  BY PartsAre DEF Moves
<1> HIDE DEF first
<1>2. Len(c) \in Nat /\ Len(c) >= 1
  OBVIOUS
<1>3. p # 1
  BY <1>1, <1>2, Kinds, Marks
<1>4. p - 1 \in 1..Len(c) /\ p - 1 \in Nat
  BY <1>1, <1>2, <1>3
<1>5. \A k \in 1..(p - 1) : c[k] \in Words \cup {Quote}
  <2>1. \A k \in 1..(p - 1) : c[k] \in All
    BY <1>1, <1>2
  <2> QED
    BY <1>1, <2>1, Marks
<1> DEFINE n == p - 1
<1>8. n \in 1..Len(c) /\ n \in Nat /\ \A k \in 1..n : c[k] \in Words \cup {Quote}
  BY <1>4, <1>5
<1>9. Len(first) = n /\ n \in 0..n /\ SameTokens(c, first, n)
  BY <1>1, <1>4 DEF SameTokens
<1> HIDE DEF n
<1>6. Len(l[n]) = 1 /\ l[n][1].words # <<>> /\ l[n][1].output = "pipe"
  <2>1. c[1] = "start"
    BY <1>1
  <2> QED
    BY <1>8, <2>1, OnlyStart, Zenon
<1>7. ASSUME D!Unquoted(c) PROVE q[n] = FALSE
  <2>1. PICK e, f : Lists(first, e, f) /\ D!Reading(first).quoted = f[Len(first)]
    BY <1>1, MeaningIs
  <2>2. first \in Seq(All)
    BY <1>1
  <2>3. \A k \in 0..n : e[k] = l[k] /\ f[k] = q[k]
    BY <1>8, <1>9, <2>1, <2>2, SameFront
  <2>4. f[n] = q[n] /\ f[n] = D!Reading(first).quoted
    BY <1>9, <2>1, <2>3
  <2>5. q[n] \in BOOLEAN
    <3>1. n \in 0..Len(c)
      BY <1>2, <1>8
    <3> QED
      BY <3>1 DEF Lists
  <2>6. ~D!Reading(first).quoted
    BY <1>7 DEF D!Unquoted, first
  <2> QED
    BY <2>4, <2>5, <2>6
<1>10. p \in 2..(Len(c) + 1) /\ c[1] = "start"
  BY <1>1, <1>2, <1>3
<1>11. n = p - 1
  BY DEF n
<1> QED
  BY <1>6, <1>7, <1>10, <1>11, Zenon

\* A join after the only command begins the second one.
LEMMA JoinedFirst ==
  ASSUME NEW y \in Seq(Items), Len(y) = 1, y[1].words # <<>>, NEW t \in Joins
  PROVE  Len(D!More(y, FALSE, t)) = 2 /\ D!More(y, FALSE, t)[1].output = Onward(y[1].output, t)
<1> DEFINE x == y[1]  v == D!Joined(x, t)  m == D!OneMore(y, v)
<1>1. y # <<>> /\ x = y[Len(y)] /\ x \in Items
  <2>1. Len(y) >= 1
    OBVIOUS
  <2>2. y # <<>>
    BY <2>1, NotEmpty
  <2> QED
    BY <2>2
<1>2. v \in Items /\ v.output = Onward(x.output, t)
  BY <1>1, ItemChanges
<1>3. t \in All
  BY DEF All
<1>4. D!More(y, FALSE, t) = Append(m, D!Blank)
  <2>1. ~(t = "newline" /\ y[Len(y)].words = <<>>)
    OBVIOUS
  <2>2. D!More(y, FALSE, t) = Append(D!OneMore(y, D!Joined(y[Len(y)], t)), D!Blank)
    BY <1>1, <1>3, <2>1, MoreIs, Zenon
  <2> QED
    BY <1>1, <2>2, Zenon
<1> HIDE DEF v
<1>5. m \in Seq(Items) /\ Len(m) = 1 /\ m[1] = v
  <2>1. y # <<>> /\ v \in Items
    BY <1>1, <1>2
  <2>2. D!OneMore(y, v) \in Seq(Items) /\ Len(D!OneMore(y, v)) = Len(y) /\ D!OneMore(y, v)[Len(y)] = v
    BY <2>1, OneMoreIs
  <2> QED
    BY <2>2
<1> HIDE DEF m, x
<1>6. Len(Append(m, D!Blank)) = Len(m) + 1 /\ \A k \in 1..Len(m) : Append(m, D!Blank)[k] = m[k]
  BY <1>5, BlankType, AppendIs
<1>7. Len(Append(m, D!Blank)) = 2 /\ Append(m, D!Blank)[1] = v
  BY <1>5, <1>6
<1> QED
  BY <1>2, <1>4, <1>7 DEF x

\* With the redirection at the end of the start the shell reads the same commands. If
\* nothing is to read its output, only its output has changed.
LEMMA OnlyTheOutput ==
  ASSUME NEW c \in Seq(All), c # <<>>, Moves(c), D!Unquoted(c), NEW p, p = Cut(c),
         NEW l, NEW q, Lists(c, l, q), NEW m, NEW r, Lists(Redirected(c, p), m, r)
  PROVE  /\ Alike(m[Len(c) + 1], l[Len(c)], 1)
         /\ (p <= Len(c) => c[p] \in Joins /\ c[p] \notin D!Pipes) =>
              m[Len(c) + 1][1].output = Null /\ l[Len(c)][1].output = "pipe"
<1> DEFINE w == Redirected(c, p)  n == p - 1  y == l[n]  z == m[p]
<1>1. /\ p \in 2..(Len(c) + 1) /\ c[1] = "start" /\ Len(y) = 1 /\ y[1].words # <<>> /\ y[1].output = "pipe"
      /\ q[n] = FALSE
  BY StartIs
<1>2. Len(c) \in Nat /\ p \in Nat
  BY <1>1
<1>3. /\ w \in Seq(All) /\ Len(w) = Len(c) + 1
      /\ \A k \in 1..(p - 1) : w[k] = c[k]
      /\ w[p] = Null
      /\ \A k \in p..Len(c) : w[k + 1] = c[k]
  BY <1>1, <1>2, RedirectedIs
<1> HIDE DEF w
<1>4. n \in 0..Len(c) /\ p \in 1..Len(w) /\ n \in Nat /\ n <= Len(c) /\ n <= Len(w) /\ n + 1 = p
      /\ n \in 0..n /\ p - 1 = n
  BY <1>1, <1>2, <1>3
<1> HIDE DEF n
<1>5. m[n] = y /\ r[n] = FALSE
  <2>1. Lists(w, m, r) /\ SameTokens(c, w, n)
    BY <1>3, <1>4 DEF w, SameTokens
  <2>2. \A k \in 0..n : m[k] = l[k] /\ r[k] = q[k]
    BY <1>3, <1>4, <2>1, SameFront
  <2> QED
    BY <1>1, <1>4, <2>2
<1>6. z = D!More(y, FALSE, Null) /\ r[p] = FALSE
  <2>1. m[p] = D!More(m[n], r[n], w[p]) /\ r[p] = D!Turned(r[n], w[p])
    BY <1>4 DEF Lists, w
  <2> QED
    BY <1>3, <1>5, <2>1, Kinds DEF D!Turned, Quote
<1>7. y \in Seq(Items) /\ y # <<>>
  BY <1>4 DEF Lists
<1> DEFINE x == y[1]  v == D!Routed(x, Null)
<1>8. x \in Items /\ x = y[Len(y)] /\ x.words # <<>> /\ x.output = "pipe"
  BY <1>1, <1>7
<1>9. v \in Items /\ v.words = x.words /\ v.join = x.join /\ v.output = Null
  <2> HIDE DEF x
  <2>1. Null \in Files
    BY Kinds
  <2> QED
    BY <1>8, <2>1, ItemChanges, Zenon
<1>10. z = D!OneMore(y, v)
  <2>1. x = y[Len(y)] /\ y \in Seq(Items) /\ y # <<>>
    BY <1>7, <1>8
  <2> HIDE DEF x, y
  <2>2. D!More(y, FALSE, Null) = D!OneMore(y, D!Routed(x, Null))
    BY <2>1, NullIs, Zenon
  <2> QED
    BY <1>6, <2>2
<1> HIDE DEF y, z, v
<1>11. z \in Seq(Items) /\ Len(z) = 1 /\ z[1] = v
  <2>1. D!OneMore(y, v) \in Seq(Items) /\ Len(D!OneMore(y, v)) = Len(y) /\ D!OneMore(y, v)[Len(y)] = v
    BY <1>7, <1>9, OneMoreIs
  <2> QED
    BY <1>1, <1>10, <2>1 DEF y
<1>12. Len(y) = 1
  BY <1>1 DEF y
<1>13. Alike(z, y, 1)
  BY <1>8, <1>9, <1>11, <1>12 DEF Alike, SameItem
<1>14. Alike(m[Len(c) + 1], l[Len(c)], 1)
  <2>1. Shifted(c, w, n)
    BY <1>3, <1>4 DEF Shifted
  <2>2. AlikeAt(l, q, m, r, 1, n)
    BY <1>1, <1>4, <1>6, <1>13 DEF z, y, AlikeAt
  <2>3. Lists(w, m, r) /\ w \in Seq(All) /\ n \in 0..Len(c)
    BY <1>3, <1>4 DEF w
  <2>4. \A k \in n..Len(c) : AlikeAt(l, q, m, r, 1, k)
    BY <2>1, <2>2, <2>3, SameBack, Zenon
  <2>5. Len(c) \in n..Len(c)
    BY <1>2, <1>4
  <2> QED
    BY <2>4, <2>5 DEF AlikeAt
<1>15. ASSUME p <= Len(c), c[p] \in Joins, c[p] \notin D!Pipes
       PROVE  m[Len(c) + 1][1].output = Null /\ l[Len(c)][1].output = "pipe"
  <2> DEFINE t == c[p]  a == l[p]  b == m[p + 1]
  <2>1. /\ p \in 1..Len(c) /\ p + 1 \in 1..Len(w) /\ p + 1 - 1 = p /\ p \in 0..Len(c) /\ p + 1 \in 0..Len(w)
        /\ p \in p..Len(c) /\ Len(c) \in p..Len(c) /\ Len(w) \in (p + 1)..Len(w)
    BY <1>1, <1>2, <1>3, <1>15
  <2>2. a = D!More(y, FALSE, t)
    BY <1>1, <1>4, <2>1 DEF Lists, y
  <2>3. b = D!More(z, FALSE, t)
    <3>1. m[p + 1] = D!More(m[p], r[p], w[p + 1])
      BY <2>1 DEF Lists, w
    <3>2. w[p + 1] = t
      BY <1>3, <2>1
    <3> QED
      BY <1>6, <3>1, <3>2 DEF z
  <2>4. \A o : Onward(o, t) = o
    BY <1>15 DEF Onward
  <2>5. z[1].words # <<>>
    BY <1>8, <1>9, <1>11
  <2> HIDE DEF a, b, t
  <2>6. t \in Joins
    BY <1>15 DEF t
  <2>7. Len(a) = 2 /\ a[1].output = "pipe"
    BY <1>7, <1>8, <1>12, <2>2, <2>4, <2>6, JoinedFirst
  <2>8. Len(b) = 2 /\ b[1].output = Null
    BY <1>9, <1>11, <2>3, <2>4, <2>5, <2>6, JoinedFirst
  <2>9. l[Len(c)][1] = a[1]
    <3>1. Len(l[p]) >= 2
      BY <2>7 DEF a
    <3>2. \A k \in p..Len(c) : Len(l[k]) >= 2 /\ l[k][1] = l[p][1]
      BY <2>1, <3>1, FirstStays, Zenon
    <3> QED
      BY <2>1, <3>2, Zenon DEF a
  <2>10. m[Len(w)][1] = b[1]
    <3> DEFINE g == p + 1
    <3>1. Len(m[g]) >= 2 /\ g \in 0..Len(w) /\ Len(w) \in g..Len(w)
      BY <2>1, <2>8 DEF b
    <3>2. Lists(w, m, r) /\ w \in Seq(All)
      BY <1>3 DEF w
    <3>3. b = m[g]
      BY DEF b
    <3> HIDE DEF g
    <3>4. \A k \in g..Len(w) : Len(m[k]) >= 2 /\ m[k][1] = m[g][1]
      BY <3>1, <3>2, FirstStays, Zenon
    <3> QED
      BY <3>1, <3>3, <3>4, Zenon
  <2> QED
    BY <1>3, <2>7, <2>8, <2>9, <2>10
<1>16. ASSUME ~(p <= Len(c)) PROVE m[Len(c) + 1][1].output = Null /\ l[Len(c)][1].output = "pipe"
  <2>1. Len(c) = n /\ Len(c) + 1 = p
    BY <1>1, <1>2, <1>4, <1>16
  <2> QED
    BY <1>8, <1>9, <1>11, <2>1 DEF z, y
<1> QED
  BY <1>14, <1>15, <1>16

\* Alike lists, the first command's output apart, which is the pipe in one of them.
LEMMA AlikeIsolated ==
  ASSUME NEW a \in Seq(Items), NEW b \in Seq(Items), b # <<>>, Alike(a, b, 1),
         a[1].output = Null, b[1].output = "pipe"
  PROVE  a = D!Isolated(b) /\ Head(a) = a[1]
<1> DEFINE x == b[1]  v == D!Routed(x, Null)
<1>1. Len(a) = Len(b) /\ Len(b) \in Nat /\ Len(b) >= 1 /\ Head(b) = x /\ Head(a) = a[1] /\ x \in Items
  BY DEF Alike
<1>2. v \in Items /\ v.words = x.words /\ v.join = x.join /\ v.output = Null
  <2> HIDE DEF x
  <2>1. Null \in Files
    BY Kinds
  <2> QED
    BY <1>1, <2>1, ItemChanges, Zenon
<1>3. D!Isolated(b) = [b EXCEPT ![1] = v]
  BY <1>1, Zenon DEF D!Isolated, D!Routed, Null
<1> HIDE DEF v, x
<1>4. ASSUME NEW y \in Items, NEW z \in Items, SameItem(y, z), y.output = z.output
      PROVE  y = z
  <2>1. \A i \in Items : i = [words |-> i.words, output |-> i.output, join |-> i.join]
    BY DEF Items
  <2>2. y.words = z.words /\ y.output = z.output /\ y.join = z.join
    BY <1>4 DEF SameItem
  <2>3. y = [words |-> y.words, output |-> y.output, join |-> y.join]
        /\ z = [words |-> z.words, output |-> z.output, join |-> z.join]
    BY <2>1
  <2> QED
    BY <2>2, <2>3, Zenon
<1> DEFINE e == [b EXCEPT ![1] = v]
<1>5. e \in Seq(Items) /\ Len(e) = Len(b) /\ e[1] = v /\ \A k \in 2..Len(b) : e[k] = b[k]
  BY <1>1, <1>2
<1> HIDE DEF e
<1>6. ASSUME NEW k \in 1..Len(a) PROVE a[k] = e[k]
  <2>1. k \in 1..Len(b) /\ 1 \in 1..Len(b) /\ a[k] \in Items
    BY <1>1, <1>6
  <2>2. SameItem(a[k], b[k]) /\ (k # 1 => a[k].output = b[k].output)
    BY <2>1 DEF Alike
  <2>3. CASE k = 1
    <3>1. SameItem(a[1], v) /\ a[1].output = v.output
      BY <1>2, <2>2, <2>3 DEF SameItem, x
    <3> QED
      BY <1>2, <1>4, <1>5, <2>1, <2>3, <3>1
  <2>4. CASE k # 1
    <3>1. e[k] = b[k] /\ b[k] \in Items
      BY <1>1, <1>5, <2>1, <2>4
    <3> QED
      BY <1>4, <2>1, <2>2, <2>4, <3>1
  <2> QED
    BY <2>3, <2>4
<1>7. a = e
  BY <1>1, <1>5, <1>6, SameItems
<1> QED
  BY <1>1, <1>3, <1>7 DEF e

\* The start with the redirection at its end: what the shell makes of it.
LEMMA WithinReads ==
  ASSUME NEW c \in Seq(All), c # <<>>, Moves(c), Within(c), D!Unquoted(c),
         NEW w, w = Redirected(c, Cut(c))
  PROVE  /\ Alike(D!Meaning(w), D!Meaning(c), 1)
         /\ D!Clear(c) => D!Meaning(w) = D!Isolated(D!Meaning(c)) /\ Head(D!Meaning(w)).output # "pipe"
<1> DEFINE p == Cut(c)
<1>1. p \in 1..(Len(c) + 1) /\ Len(c) \in Nat
  BY PartsAre
<1>2. w \in Seq(All) /\ Len(w) = Len(c) + 1
  BY <1>1, RedirectedIs
<1>3. PICK l, q : Lists(c, l, q) /\ D!Meaning(c) = l[Len(c)]
  BY MeaningIs
<1>4. PICK m, r : Lists(w, m, r) /\ D!Meaning(w) = m[Len(w)]
  BY <1>2, MeaningIs
<1> HIDE DEF p
<1>5. p = Cut(c)
  BY DEF p
<1>6. /\ Alike(m[Len(c) + 1], l[Len(c)], 1)
      /\ (p <= Len(c) => c[p] \in Joins /\ c[p] \notin D!Pipes) =>
           m[Len(c) + 1][1].output = Null /\ l[Len(c)][1].output = "pipe"
  <2>1. Lists(Redirected(c, p), m, r)
    BY <1>4, <1>5
  <2> QED
    BY <1>3, <1>5, <2>1, OnlyTheOutput, Zenon
<1> DEFINE a == D!Meaning(w)  b == D!Meaning(c)
<1>7. Alike(a, b, 1)
  BY <1>2, <1>3, <1>4, <1>6
<1>8. a \in Seq(Items) /\ b \in Seq(Items) /\ b # <<>>
  BY <1>1, <1>2, <1>3, <1>4 DEF Lists
<1>9. ASSUME D!Clear(c) PROVE p <= Len(c) => c[p] \in Joins /\ c[p] \notin D!Pipes
  <2> SUFFICES ASSUME p <= Len(c) PROVE c[p] \in Joins /\ c[p] \notin D!Pipes
    OBVIOUS
  <2>1. D!Rest(c) # <<>> /\ Head(D!Rest(c)) = c[p]
    BY <1>1, <1>5, PartsAre
  <2>2. c[p] \in {"&&", "||", ";", "newline"}
    BY <1>9, <2>1, Zenon DEF D!Clear
  <2>3. \A t \in {"&&", "||", ";", "newline"} : t \in Joins /\ t \notin D!Pipes
    BY DEF Joins, D!Pipes
  <2> QED
    BY <2>2, <2>3, Zenon
<1>10. ASSUME D!Clear(c) PROVE a[1].output = Null /\ b[1].output = "pipe"
  BY <1>2, <1>3, <1>4, <1>6, <1>9, <1>10
<1> HIDE DEF a, b
<1>11. ASSUME D!Clear(c) PROVE a = D!Isolated(b) /\ Head(a).output # "pipe"
  <2>1. a = D!Isolated(b) /\ Head(a) = a[1]
    BY <1>7, <1>8, <1>10, <1>11, AlikeIsolated
  <2>2. Null # "pipe"
    BY Kinds
  <2> QED
    BY <1>10, <1>11, <2>1, <2>2
<1> QED
  BY <1>7, <1>11 DEF a, b

\* The hook finds its own redirection when it looks again.
LEMMA WithinStays ==
  ASSUME NEW c \in Seq(All), c # <<>>, Moves(c), NEW w, w = Redirected(c, Cut(c))
  PROVE  D!Isolate(w) = w
<1> DEFINE p == Cut(c)
<1>1. p \in 1..(Len(c) + 1) /\ Len(c) \in Nat /\ \A k \in 1..(p - 1) : c[k] \notin D!Ends
  BY PartsAre
<1>2. /\ w \in Seq(All) /\ Len(w) = Len(c) + 1 /\ w[p] = Null
      /\ \A k \in 1..(p - 1) : w[k] = c[k]
  BY <1>1, RedirectedIs
<1> HIDE DEF p
<1>3. w # <<>>
  <2>1. Len(w) >= 1
    BY <1>1, <1>2
  <2> QED
    BY <1>2, <2>1, NotEmpty
<1> DEFINE g == Cut(w)
<1>4. /\ g \in 1..(Len(w) + 1) /\ (g <= Len(w) => w[g] \in D!Ends)
      /\ D!ToSet(D!First(w)) \cap D!Angles = {} <=> \A k \in 1..(g - 1) : w[k] \notin D!Angles
  BY <1>2, <1>3, PartsAre
<1> HIDE DEF g
<1>5. \A k \in 1..p : w[k] \notin D!Ends
  <2> SUFFICES ASSUME NEW k \in 1..p PROVE w[k] \notin D!Ends
    OBVIOUS
  <2>1. CASE k = p
    BY <1>2, <2>1, Marks
  <2>2. CASE k # p
    BY <1>1, <1>2, <2>2
  <2> QED
    BY <2>1, <2>2
<1>6. p \in 1..(g - 1)
  <2>1. ~(g <= p)
    BY <1>1, <1>2, <1>4, <1>5
  <2> QED
    BY <1>1, <1>2, <1>4, <2>1
<1>7. ~Moves(w)
  BY <1>2, <1>4, <1>6, Marks DEF Moves
<1> QED
  BY <1>2, <1>3, <1>7, IsolateIs

\* A redirection after everything changes the output of the last command.
LEMMA RedirectIs ==
  ASSUME NEW w \in Seq(All)
  PROVE  /\ w \o D!Redirect \in Seq(All) /\ Len(w \o D!Redirect) = Len(w) + 1
         /\ (w \o D!Redirect)[Len(w) + 1] = Null /\ \A k \in 1..Len(w) : (w \o D!Redirect)[k] = w[k]
<1>1. Null \in All
  BY Kinds DEF All
<1>2. w \o D!Redirect = Append(w, Null)
  <2>1. w \o D!Redirect = w \o <<Null>>
    BY DEF D!Redirect, Null
  <2> QED
    BY <1>1, <2>1
<1> QED
  BY <1>1, <1>2

LEMMA NullAtEnd ==
  ASSUME NEW w \in Seq(All), ~D!Reading(w).quoted, NEW v \in Seq(All), Len(v) = Len(w) + 1,
         v[Len(w) + 1] = Null, \A k \in 1..Len(w) : v[k] = w[k],
         NEW b \in Seq(Items), b # <<>>, Alike(D!Meaning(w), b, Len(b))
  PROVE  ~D!Reading(v).quoted /\ Alike(D!Meaning(v), b, Len(b))
<1> DEFINE n == Len(w)
<1>1. n \in Nat
  OBVIOUS
<1>3. v \in Seq(All) /\ Len(v) = n + 1 /\ v[n + 1] = Null /\ \A k \in 1..n : v[k] = w[k]
  OBVIOUS
<1>4. PICK l, q : Lists(w, l, q) /\ D!Meaning(w) = l[n] /\ D!Reading(w).quoted = q[n]
  BY MeaningIs
<1>5. PICK m, r : Lists(v, m, r) /\ D!Meaning(v) = m[Len(v)] /\ D!Reading(v).quoted = r[Len(v)]
  BY <1>3, MeaningIs
<1>6. n <= Len(w) /\ n <= Len(v) /\ n \in 0..n /\ n \in 0..Len(w) /\ n + 1 \in 1..Len(v) /\ n + 1 - 1 = n
  BY <1>1, <1>3
<1>7. m[n] = l[n] /\ r[n] = q[n]
  <2>1. n \in Nat /\ n \in 0..n
    BY <1>1, <1>6
  <2>2. v \in Seq(All) /\ SameTokens(w, v, n)
    BY <1>3, <1>6 DEF SameTokens
  <2>3. Lists(w, l, q) /\ Lists(v, m, r)
    BY <1>4, <1>5
  <2> HIDE DEF n
  <2>5. ASSUME NEW i \in Nat, SameTokens(w, v, i)
        PROVE  \A k \in 0..i : m[k] = l[k] /\ r[k] = q[k]
    BY <2>2, <2>3, <2>5, SameFront
  <2>4. \A k \in 0..n : m[k] = l[k] /\ r[k] = q[k]
    BY <2>1, <2>2, <2>5
  <2> QED
    BY <2>1, <2>4
<1> DEFINE y == l[n]  x == y[Len(y)]  u == D!Routed(x, Null)
<1>8. y \in Seq(Items) /\ y # <<>> /\ q[n] = FALSE
  BY <1>4, <1>6 DEF Lists
<1>9. m[n + 1] = D!More(y, FALSE, Null) /\ r[n + 1] = FALSE
  <2>1. m[n + 1] = D!More(m[n], r[n], v[n + 1]) /\ r[n + 1] = D!Turned(r[n], v[n + 1])
    <3> DEFINE g == n + 1
    <3>1. g \in 1..Len(v) /\ g - 1 = n /\ Lists(v, m, r)
      BY <1>5, <1>6
    <3> HIDE DEF g, n
    <3>2. m[g] = D!More(m[g - 1], r[g - 1], v[g]) /\ r[g] = D!Turned(r[g - 1], v[g])
      BY <3>1 DEF Lists
    <3>3. m[g] = D!More(m[n], r[n], v[g]) /\ r[g] = D!Turned(r[n], v[g])
      BY <3>1, <3>2
    <3> QED
      BY <3>3 DEF g
  <2> QED
    BY <1>3, <1>7, <1>8, <2>1, Kinds DEF D!Turned, Quote
<1>10. x \in Items /\ x = y[Len(y)] /\ Len(y) \in Nat /\ Len(y) >= 1
  BY <1>8
<1> HIDE DEF n
<1>11. Alike(y, b, Len(b))
  BY <1>4
<1> HIDE DEF y, x
<1>12. u \in Items /\ u.words = x.words /\ u.join = x.join
  <2>1. x \in Items
    BY <1>10
  <2>2. Null \in Files
    BY Kinds
  <2>3. \A t \in Files : D!Routed(x, t) \in Items /\ D!Routed(x, t).words = x.words /\ D!Routed(x, t).join = x.join
    BY <2>1, ItemChanges
  <2> QED
    BY <2>2, <2>3
<1>13. m[n + 1] = D!OneMore(y, u)
  <2>1. D!More(y, FALSE, Null) = D!OneMore(y, u)
    <3>1. x = y[Len(y)] /\ y \in Seq(Items) /\ y # <<>>
      BY <1>8, <1>10
    <3> QED
      BY <3>1, NullIs, Zenon
  <2> QED
    BY <1>9, <2>1
<1> HIDE DEF u
<1> DEFINE z == D!OneMore(y, u)
<1>14. Len(z) = Len(y) /\ z[Len(y)] = u /\ \A k \in 1..(Len(y) - 1) : z[k] = y[k]
  BY <1>8, <1>12, OneMoreIs
<1> HIDE DEF z
<1>15. Len(y) = Len(b)
  BY <1>11 DEF Alike
<1>16. ASSUME NEW k \in 1..Len(b) PROVE SameItem(z[k], b[k]) /\ (k # Len(b) => z[k].output = b[k].output)
  <2>1. SameItem(y[k], b[k]) /\ (k # Len(b) => y[k].output = b[k].output)
    BY <1>11 DEF Alike
  <2>2. CASE k = Len(b)
    BY <1>10, <1>12, <1>14, <1>15, <2>1, <2>2 DEF SameItem
  <2>3. CASE k # Len(b)
    <3>1. k \in 1..(Len(y) - 1)
      BY <1>10, <1>15, <2>3
    <3> QED
      BY <1>14, <2>1, <3>1
  <2> QED
    BY <2>2, <2>3
<1>17. Alike(z, b, Len(b))
  BY <1>14, <1>15, <1>16 DEF Alike
<1>18. D!Meaning(v) = z /\ D!Reading(v).quoted = FALSE
  BY <1>3, <1>5, <1>9, <1>13 DEF z
<1> QED
  BY <1>3, <1>17, <1>18 DEF n

\* The command as it was given up to what ends the start, and the same commands beyond.
Trailing(w, c) ==
  /\ w \in Seq(All) /\ ~D!Reading(w).quoted /\ Alike(D!Meaning(w), D!Meaning(c), Len(D!Meaning(c)))
  /\ Cut(c) <= Len(w) /\ \A k \in 1..Cut(c) : w[k] = c[k]

LEMMA TrailingStays ==
  ASSUME NEW c \in Seq(All), c # <<>>, Moves(c), Beyond(c), NEW w, Trailing(w, c)
  PROVE  Trailing(D!Isolate(w), c)
<1> DEFINE p == Cut(c)
<1>1. /\ p \in 1..(Len(c) + 1) /\ Len(c) \in Nat
      /\ \A k \in 1..(p - 1) : c[k] \notin D!Ends
      /\ p <= Len(c) => c[p] \in D!Ends /\ Head(D!Rest(c)) = c[p]
      /\ \A k \in 1..(p - 1) : c[k] \notin D!Angles
      /\ p <= Len(c) /\ c[1] = "start"
  <2>1. /\ p \in 1..(Len(c) + 1) /\ Len(c) \in Nat
        /\ \A k \in 1..(p - 1) : c[k] \notin D!Ends
        /\ p <= Len(c) => c[p] \in D!Ends
        /\ p <= Len(c) => Head(D!Rest(c)) = c[p]
        /\ D!ToSet(D!First(c)) \cap D!Angles = {} <=> \A k \in 1..(p - 1) : c[k] \notin D!Angles
        /\ D!Rest(c) = <<>> <=> p > Len(c)
        /\ Head(c) = c[1]
    BY PartsAre
  <2> HIDE DEF p
  <2>2. Head(c) = "start" /\ D!ToSet(D!First(c)) \cap D!Angles = {} /\ D!Rest(c) # <<>>
    BY DEF Moves, Beyond
  <2> QED
    BY <2>1, <2>2
<1>2. w \in Seq(All) /\ ~D!Reading(w).quoted /\ p <= Len(w) /\ (\A k \in 1..p : w[k] = c[k]) /\ Len(w) \in Nat
  BY DEF Trailing
<1> HIDE DEF p
<1>3. w # <<>> /\ w[1] = "start" /\ w[p] = c[p] /\ 1 \in 1..p /\ p \in 1..Len(w)
  <2>1. Len(w) >= 1
    BY <1>1, <1>2
  <2>2. w # <<>>
    BY <1>2, <2>1, NotEmpty
  <2>3. 1 \in 1..p /\ p \in 1..p
    BY <1>1
  <2> QED
    BY <1>1, <1>2, <2>2, <2>3
<1>4. Cut(w) = p
  <2>1. p \in 1..(Len(w) + 1)
    BY <1>2, <1>3
  <2>2. \A k \in 1..(p - 1) : w[k] \notin D!Ends
    BY <1>1, <1>2
  <2>3. p <= Len(w) => w[p] \in D!Ends
    BY <1>1, <1>3
  <2> QED
    BY <1>2, <2>1, <2>2, <2>3, FirstIsThere DEF Cut
<1>5. /\ D!ToSet(D!First(w)) \cap D!Angles = {} <=> \A k \in 1..(p - 1) : w[k] \notin D!Angles
      /\ D!Rest(w) = <<>> <=> p > Len(w)
      /\ p <= Len(w) => Head(D!Rest(w)) = w[p]
      /\ Head(w) = w[1]
  BY <1>2, <1>3, <1>4, PartsAre
<1>6. Moves(w)
  <2>1. \A k \in 1..(p - 1) : w[k] \notin D!Angles
    BY <1>1, <1>2
  <2> QED
    BY <1>3, <1>5, <2>1 DEF Moves
<1>7. Beyond(w)
  <2>1. c[p] \notin D!Separators
    BY <1>1 DEF Beyond
  <2>2. ~(p > Len(w))
    BY <1>2, <1>3
  <2> QED
    BY <1>2, <1>3, <1>5, <2>1, <2>2 DEF Beyond
<1> DEFINE v == D!Isolate(w)  b == D!Meaning(c)
<1>8. v = w \o D!Redirect
  BY <1>2, <1>3, <1>6, <1>7, IsolateIs
<1>9. b \in Seq(Items) /\ b # <<>>
  <2>1. PICK l, q : Lists(c, l, q) /\ D!Meaning(c) = l[Len(c)]
    BY MeaningIs
  <2> QED
    BY <1>1, <2>1 DEF Lists
<1>10. Alike(D!Meaning(w), b, Len(b))
  BY DEF Trailing
<1> HIDE DEF v, b
<1>11. /\ v \in Seq(All) /\ Len(v) = Len(w) + 1 /\ \A k \in 1..Len(w) : v[k] = w[k]
       /\ ~D!Reading(v).quoted /\ Alike(D!Meaning(v), b, Len(b))
  <2>1. v \in Seq(All) /\ Len(v) = Len(w) + 1 /\ v[Len(w) + 1] = Null /\ \A k \in 1..Len(w) : v[k] = w[k]
    BY <1>2, <1>8, RedirectIs
  <2> QED
    BY <1>2, <1>9, <1>10, <2>1, NullAtEnd
<1>12. p <= Len(v) /\ \A k \in 1..p : v[k] = c[k]
  BY <1>1, <1>2, <1>3, <1>11
<1> QED
  BY <1>11, <1>12 DEF Trailing, v, b, p

\* What is written once the hook has looked at it n times.
Looked(c, w, n) ==
  /\ c \in Seq(All) /\ c # <<>> /\ ~D!Reading(c).quoted /\ n \in Nat
  /\ n = 0 \/ ~Moves(c) => w = c
  /\ n > 0 /\ Moves(c) /\ Within(c) => w = Redirected(c, Cut(c))
  /\ Moves(c) /\ Beyond(c) => Trailing(w, c)

LEMMA LookedAgain ==
  ASSUME NEW c, NEW w, NEW n, Looked(c, w, n)
  PROVE  Looked(c, D!Isolate(w), n + 1)
<1>1. c \in Seq(All) /\ c # <<>> /\ ~D!Reading(c).quoted /\ n \in Nat
  BY DEF Looked
<1>2. ~Moves(c) => D!Isolate(w) = c
  BY <1>1, IsolateIs DEF Looked
<1>3. ASSUME Moves(c), Within(c) PROVE D!Isolate(w) = Redirected(c, Cut(c))
  <2>1. CASE n = 0
    BY <1>1, <1>3, <2>1, IsolateIs DEF Looked
  <2>2. CASE n > 0
    BY <1>1, <1>3, <2>2, WithinStays DEF Looked
  <2> QED
    BY <1>1, <2>1, <2>2
<1>4. Moves(c) /\ Beyond(c) => Trailing(D!Isolate(w), c)
  BY <1>1, TrailingStays DEF Looked
<1>5. n + 1 \in Nat /\ n + 1 # 0
  BY <1>1
<1> QED
  BY <1>1, <1>2, <1>3, <1>4, <1>5 DEF Looked

\* What the hook has written keeps the commands, and of a clear start the meaning.
LEMMA LookedKeeps ==
  ASSUME NEW c, NEW w, NEW n, Looked(c, w, n), n > 0
  PROVE  /\ D!Clear(c) => D!Meaning(w) \in {D!Meaning(c), D!Isolated(D!Meaning(c))}
         /\ D!Unquoted(c) /\ ~(D!Rest(c) # <<>> /\ Head(D!Rest(c)) = "|&") =>
              \E i : Alike(D!Meaning(w), D!Meaning(c), i)
         /\ Head(c) = "start" /\ D!Clear(c) /\ D!ToSet(D!First(c)) \cap D!Angles = {} =>
              Head(D!Meaning(w)).output # "pipe"
<1>1. c \in Seq(All) /\ c # <<>> /\ n \in Nat
  BY DEF Looked
<1>2. D!Clear(c) => D!Unquoted(c) /\ Within(c)
  <2>1. \A t \in {"&&", "||", ";", "newline"} : t \in D!Separators /\ t # "|&"
    BY DEF D!Separators
  <2> QED
    BY <2>1, Zenon DEF D!Clear, Within
<1>3. CASE ~Moves(c)
  <2>1. w = c
    BY <1>3 DEF Looked
  <2>2. Alike(D!Meaning(c), D!Meaning(c), 1)
    BY DEF Alike, SameItem
  <2> QED
    BY <1>3, <2>1, <2>2 DEF Moves
<1>4. CASE Moves(c) /\ Within(c)
  <2>1. w = Redirected(c, Cut(c))
    BY <1>4 DEF Looked
  <2>2. D!Unquoted(c) => Alike(D!Meaning(w), D!Meaning(c), 1)
    BY <1>1, <1>4, <2>1, WithinReads
  <2>3. D!Clear(c) => D!Meaning(w) = D!Isolated(D!Meaning(c)) /\ Head(D!Meaning(w)).output # "pipe"
    BY <1>1, <1>2, <1>4, <2>1, WithinReads
  <2> QED
    BY <2>2, <2>3
<1>5. CASE Moves(c) /\ Beyond(c)
  <2>1. ~D!Clear(c)
    BY <1>2, <1>5 DEF Within, Beyond
  <2>2. Alike(D!Meaning(w), D!Meaning(c), Len(D!Meaning(c)))
    BY <1>5 DEF Looked, Trailing
  <2> QED
    BY <2>1, <2>2
<1>6. CASE ~Within(c) /\ ~Beyond(c)
  <2>1. D!Rest(c) # <<>> /\ Head(D!Rest(c)) = "|&"
    BY <1>6 DEF Within, Beyond
  <2> QED
    BY <1>2, <1>6, <2>1
<1> QED
  BY <1>3, <1>4, <1>5, <1>6

Rewritten == part = "start" => Looked(command, rewritten, checks)

LEMMA RewrittenInit ==
  ASSUME UnionInit
  PROVE  Rewritten
<1> SUFFICES ASSUME part = "start" PROVE Looked(command, rewritten, checks)
  BY DEF Rewritten
<1>1. D!Init
  BY DEF UnionInit
<1>2. command \in D!SeqOf(Tokens \cup {"start"}, MaxLen) /\ D!IsProgram(command) /\ rewritten = command /\ checks = 0
  BY <1>1 DEF D!Init
<1>3. command # <<>> /\ ~D!Reading(command).quoted
  BY <1>2, Zenon DEF D!IsProgram
<1>4. Tokens \cup {"start"} \subseteq All
  <2>1. Tokens \subseteq {"word", "> f", "< f", "&&", "||", ";", "|", "newline", "&", "|&", "&> f", "quote"}
    BY PartAssumption DEF D!StartAssumption
  <2>2. {"word", "> f", "< f", "&&", "||", ";", "|", "newline", "&", "|&", "&> f", "quote"} \cup {"start"} \subseteq All
    BY DEF All, Words, Files, Joins, Input, Quote
  <2> QED
    BY <2>1, <2>2
<1>5. MaxLen \in Nat
  BY PartAssumption DEF D!StartAssumption
<1>6. PICK m \in 0..MaxLen : command \in [1..m -> Tokens \cup {"start"}]
  BY <1>2 DEF D!SeqOf
<1>7. command \in [1..m -> All] /\ m \in Nat
  BY <1>4, <1>5, <1>6
<1>8. command \in Seq(All)
  BY <1>7
<1>9. Moves(command) /\ Beyond(command) => Trailing(command, command)
  <2> SUFFICES ASSUME Beyond(command) PROVE Trailing(command, command)
    OBVIOUS
  <2>1. Cut(command) <= Len(command)
    BY <1>3, <1>8, PartsAre DEF Beyond
  <2> QED
    BY <1>3, <1>8, <2>1 DEF Trailing, Alike, SameItem
<1> QED
  BY <1>2, <1>3, <1>8, <1>9 DEF Looked

LEMMA RewrittenStep ==
  ASSUME Rewritten, [UnionNext]_<<part, vars, hooks, fields, start>>
  PROVE  Rewritten'
<1> SUFFICES ASSUME part' = "start" PROVE Looked(command', rewritten', checks')
  BY DEF Rewritten, Looked, Moves, Within, Beyond, Trailing, Alike, SameItem
<1>1. CASE UNCHANGED <<part, start>>
  <2>1. UNCHANGED <<part, command, rewritten, checks>>
    BY <1>1 DEF start
  <2> QED
    BY <2>1 DEF Rewritten
<1>2. CASE part = "start" /\ D!Next /\ UNCHANGED part
  <2>1. checks' = checks + 1 /\ rewritten' = D!Isolate(rewritten) /\ command' = command
    BY <1>2 DEF D!Next, D!Rewrite
  <2>2. Looked(command, rewritten, checks)
    BY <1>2 DEF Rewritten
  <2> QED
    BY <2>1, <2>2, LookedAgain
<1> QED
  BY <1>1, <1>2 DEF UnionNext, start

\* Whatever a command is, of any length: what the hook writes in its place is read by
\* the shell as the same words joined in the same way, unless the arguments of the start
\* end in a quote or with |&; and where they end with the command or with && || ; or a
\* line, only the output of the start is elsewhere, not in the pipe of the tool if it
\* had no redirection of its own, and the hook is done with after the first time
\* (README.md:28, classifier.ts:3809-3831).
THEOREM RewritingKeepsTheMeaning == UnionFairSpec => []MeaningKept
<1>1. UnionInit => Rewritten
  BY RewrittenInit
<1>2. Rewritten /\ [UnionNext]_<<part, vars, hooks, fields, start>> => Rewritten'
  BY RewrittenStep
<1>3. Rewritten => MeaningKept
  <2> SUFFICES ASSUME Rewritten, part = "start", checks > 0 PROVE D!MeaningKept /\ D!CommandsKept /\ D!StartIsDetached
    BY DEF MeaningKept, D!MeaningKept, D!CommandsKept, D!StartIsDetached
  <2> DEFINE a == D!Meaning(rewritten)  b == D!Meaning(command)
  <2>1. /\ D!Clear(command) => a \in {b, D!Isolated(b)}
        /\ D!Unquoted(command) /\ ~(D!Rest(command) # <<>> /\ Head(D!Rest(command)) = "|&") => \E i : Alike(a, b, i)
        /\ Head(command) = "start" /\ D!Clear(command) /\ D!ToSet(D!First(command)) \cap D!Angles = {} =>
             Head(a).output # "pipe"
    BY LookedKeeps DEF Rewritten
  <2>2. D!MeaningKept
    BY <2>1, Zenon DEF D!MeaningKept
  <2>3. D!StartIsDetached
    BY <2>1, Zenon DEF D!StartIsDetached
  <2>4. b \in Seq(Items)
    <3>1. command \in Seq(All)
      BY DEF Rewritten, Looked
    <3>2. PICK l, q : Lists(command, l, q) /\ D!Meaning(command) = l[Len(command)]
      BY <3>1, MeaningIs
    <3>3. Len(command) \in 0..Len(command)
      BY <3>1
    <3> QED
      BY <3>2, <3>3 DEF Lists
  <2>5. DOMAIN b = 1..Len(b)
    BY <2>4
  <2> HIDE DEF a, b
  <2>6. (\E i : Alike(a, b, i)) => Len(a) = Len(b) /\ \A k \in DOMAIN b : a[k].words = b[k].words /\ a[k].join = b[k].join
    BY <2>5 DEF Alike, SameItem
  <2>7. D!CommandsKept
    BY <2>1, <2>6, Zenon DEF D!CommandsKept, a, b
  <2> QED
    BY <2>2, <2>3, <2>7
<1> QED
  BY <1>1, <1>2, <1>3, PTL DEF UnionFairSpec
=============================================================================

------------------------------ MODULE Supervisor ------------------------------
(***************************************************************************)
(* One run of the Windows supervisor (main.rs): the system calls of its    *)
(* main thread, each of which may fail, its two relay threads, the real    *)
(* bash and a descendant that bash leaves in the background. Someone may   *)
(* kill the supervisor between any two steps.                              *)
(***************************************************************************)
EXTENDS Naturals, FiniteSets

CONSTANTS
  Capacity,   \* chunks a pipe holds
  Output,     \* bound: chunks written to one pipe
  Background, \* whether bash may leave a descendant running
  Forced      \* whether the supervisor may be killed

ASSUME BoundsAssumption ==
  /\ Capacity \in Nat \ {0} /\ Output \in Nat
  /\ Background \in BOOLEAN /\ Forced \in BOOLEAN

VARIABLES
  pc,          \* the next system call of run(); "gone" when the process is
  open,        \* handles of the supervisor that are open
  reclosed,    \* history: a handle was closed that was not open
  killOnClose, \* JOB_OBJECT_LIMIT_KILL_ON_JOB_CLOSE
  inJob,       \* bash and what it starts belong to the job
  bash, child, \* the two processes
  holds,       \* pipes the child inherited
  buffer,      \* chunks in each pipe
  relay,       \* phase of each relay thread
  carry,       \* chunks it has read and not yet written
  written, delivered, \* chunks written to each pipe, chunks OpenCode got
  reader,      \* whether OpenCode still reads
  lost,        \* history: pipes on which a relay gave something up
  released,    \* history: the limit was cleared
  drain,       \* how the wait for the relays ended
  code, exit   \* exit codes of bash and of the supervisor

job == <<killOnClose, inJob>>
tree == <<bash, child, holds, code>>
pipes == <<buffer, relay, carry, written, delivered, reader, lost>>
ended == <<released, drain>>
vars == <<pc, open, reclosed, job, tree, pipes, ended, exit>>

Pipes == {"stdout", "stderr"}
Read == [stdout |-> "stdout_read", stderr |-> "stderr_read"]
Write == [stdout |-> "stdout_write", stderr |-> "stderr_write"]
Ends == {Read[p] : p \in Pipes} \cup {Write[p] : p \in Pipes}
Handles == Ends \cup {"job", "nul", "process", "thread"}

Alive(process) == process \in {"suspended", "running"}
None == 0 - 1   \* no exit code yet
Codes == {0, 1}

Init ==
  /\ pc = "create_job" /\ open = {} /\ reclosed = FALSE
  /\ killOnClose = FALSE /\ inJob = FALSE
  /\ bash = "none" /\ child = "none" /\ holds = {} /\ code = None
  /\ buffer = [p \in Pipes |-> 0] /\ relay = [p \in Pipes |-> "none"]
  /\ carry = [p \in Pipes |-> 0]
  /\ written = [p \in Pipes |-> 0] /\ delivered = [p \in Pipes |-> 0]
  /\ reader = TRUE /\ lost = {} /\ released = FALSE /\ drain = "none" /\ exit = None

-----------------------------------------------------------------------------
(* Handles *)

Opens(handles) == open' = open \cup handles /\ UNCHANGED reclosed

Closes(handles) ==
  /\ open' = open \ handles
  /\ reclosed' = (reclosed \/ ~(handles \subseteq open))

Killed(process) == IF Alive(process) THEN "killed" ELSE process

\* What becomes of the tree when the last handle of the job goes.
JobGoes ==
  IF killOnClose /\ inJob
    THEN bash' = Killed(bash) /\ child' = Killed(child)
    ELSE UNCHANGED <<bash, child>>

\* run() returns an error after closing some handles.
Refuse(handles) ==
  /\ pc' = "failed" /\ Closes(handles)
  /\ IF "job" \in handles THEN JobGoes ELSE UNCHANGED <<bash, child>>
  /\ UNCHANGED <<job, holds, code, pipes, ended, exit>>

-----------------------------------------------------------------------------
(* run() up to the child *)

Goes(next) == pc' = next /\ UNCHANGED <<tree, pipes, ended, exit>>

CreateJob ==
  /\ pc = "create_job"
  /\ \/ Goes("limit_job") /\ Opens({"job"}) /\ UNCHANGED job
     \/ Refuse({})

\* set_job_kill_on_close(job, true)
Limit == TRUE

LimitJob ==
  /\ pc = "limit_job"
  /\ \/ Goes("stdout") /\ killOnClose' = Limit /\ UNCHANGED <<open, reclosed, inJob>>
     \/ Refuse({"job"})

\* create_private_pipe closes both ends itself if it cannot finish the pipe.
CreateStdout ==
  /\ pc = "stdout"
  /\ \/ Goes("stderr") /\ Opens({Read.stdout, Write.stdout}) /\ UNCHANGED job
     \/ Refuse({"job"})

CreateStderr ==
  /\ pc = "stderr"
  /\ \/ Goes("nul") /\ Opens({Read.stderr, Write.stderr}) /\ UNCHANGED job
     \/ Refuse({"job", Read.stdout, Write.stdout})

OpenNul ==
  /\ pc = "nul"
  /\ \/ Goes("attributes") /\ Opens({"nul"}) /\ UNCHANGED job
     \/ Refuse(Ends \cup {"job"})

\* The three calls that build the attribute list fail alike.
Attributes ==
  /\ pc = "attributes"
  /\ \/ Goes("create") /\ UNCHANGED <<open, reclosed, job>>
     \/ Refuse(Ends \cup {"nul", "job"})

\* The handles bash inherits; the supervisor's own copies go at once.
ChildEnds == {"nul", Write.stdout, Write.stderr}

CreateBash ==
  /\ pc = "create"
  /\ \/ /\ pc' = "assign" /\ bash' = "suspended"
        /\ open' = (open \ ChildEnds) \cup {"process", "thread"}
        /\ UNCHANGED <<reclosed, job, child, holds, code, pipes, ended, exit>>
     \/ Refuse(ChildEnds \cup {Read.stdout, Read.stderr, "job"})

Rest_again == {"process", "thread", Read.stdout, Read.stderr, "nul", "job"}

Rest == {"process", "thread", Read.stdout, Read.stderr, "job"}

Terminated_not == UNCHANGED bash

\* Without the job only TerminateProcess reaches the suspended bash.
Terminated == bash' = Killed(bash)

Assign ==
  /\ pc = "assign"
  /\ \/ Goes("resume") /\ inJob' = TRUE /\ UNCHANGED <<open, reclosed, killOnClose>>
     \/ /\ pc' = "failed" /\ Closes(Rest) /\ Terminated
        /\ UNCHANGED <<job, child, holds, code, pipes, ended, exit>>

\* TerminateJobObject may fail as well: closing the job does its work.
Resume ==
  /\ pc = "resume"
  /\ \/ /\ pc' = "relay" /\ bash' = "running"
        /\ UNCHANGED <<open, reclosed, job, child, holds, code, pipes, ended, exit>>
     \/ Refuse(Rest)

\* Each pipe has a thread of its own.
Started == [p \in Pipes |-> "reading"]

StartRelays ==
  /\ pc = "relay" /\ pc' = "wait"
  /\ relay' = Started
  /\ UNCHANGED <<open, reclosed, job, tree, buffer, carry, written, delivered, reader,
                 lost, ended, exit>>

-----------------------------------------------------------------------------
(* run() after the child *)

Signaled == bash \in {"exited", "killed"}

WaitForBash ==
  /\ pc = "wait" /\ Signaled
  /\ Goes("exit_code") /\ UNCHANGED <<open, reclosed, job>>

\* The job is terminated at once or by the exit of the supervisor; the relays
\* keep their handles until then.
WaitFails ==
  /\ pc = "wait" /\ pc' = "failed"
  /\ \/ UNCHANGED <<bash, child>>
     \/ bash' = Killed(bash) /\ child' = Killed(child)
  /\ UNCHANGED <<open, reclosed, job, holds, code, pipes, ended, exit>>

ExitCode ==
  /\ pc = "exit_code" /\ pc' = "release_job"
  /\ exit' \in {code, 125}
  /\ UNCHANGED <<open, reclosed, job, tree, pipes, ended>>

\* Clearing the limit may fail, which is ignored.
ReleaseJob ==
  /\ pc = "release_job" /\ pc' = "close_job"
  /\ \/ killOnClose' = FALSE /\ released' = TRUE
     \/ UNCHANGED <<killOnClose, released>>
  /\ UNCHANGED <<open, reclosed, inJob, tree, pipes, drain, exit>>

CloseJob ==
  /\ pc = "close_job" /\ pc' = "drain"
  /\ Closes({"thread", "process", "job"}) /\ JobGoes
  /\ UNCHANGED <<job, holds, code, pipes, ended, exit>>

Drained == \A p \in Pipes : relay[p] = "done"

Drain ==
  /\ pc = "drain" /\ Drained
  /\ pc' = "done" /\ drain' = "complete"
  /\ UNCHANGED <<open, reclosed, job, tree, pipes, released, exit>>

GraceEnds_never == FALSE

\* DRAIN_GRACE counts from the end of bash, whatever still comes.
GraceEnds == pc = "drain"

Deadline ==
  /\ pc = "drain" /\ GraceEnds /\ ~Drained
  /\ pc' = "done" /\ drain' = "cut"
  /\ UNCHANGED <<open, reclosed, job, tree, pipes, released, exit>>

\* The system closes what is open, and the threads are no more.
Vanish(status) ==
  /\ pc' = "gone" /\ exit' = status
  /\ open' = {} /\ UNCHANGED reclosed
  /\ IF "job" \in open THEN JobGoes ELSE UNCHANGED <<bash, child>>
  /\ UNCHANGED <<job, holds, code, pipes, ended>>

Exit == \/ pc = "done" /\ Vanish(exit)
        \/ pc = "failed" /\ Vanish(125)

-----------------------------------------------------------------------------
(* The relay threads *)

Frozen == UNCHANGED <<pc, job, tree, ended, exit>>

Holders(p) == bash \in {"suspended", "running"} \/ (child = "running" /\ p \in holds)
Eof(p) == buffer[p] = 0 /\ ~Holders(p) /\ Write[p] \notin open

RelayReads(p) ==
  /\ pc # "gone" /\ relay[p] = "reading" /\ buffer[p] > 0
  /\ carry' = [carry EXCEPT ![p] = buffer[p]]
  /\ buffer' = [buffer EXCEPT ![p] = 0]
  /\ relay' = [relay EXCEPT ![p] = "writing"]
  /\ UNCHANGED <<open, reclosed, written, delivered, reader, lost>> /\ Frozen

RelayEnds(p) ==
  /\ pc # "gone" /\ relay[p] = "reading" /\ Eof(p)
  /\ relay' = [relay EXCEPT ![p] = "done"]
  /\ Closes({Read[p]})
  /\ UNCHANGED <<buffer, carry, written, delivered, reader, lost>> /\ Frozen

\* ReadFile fails, or finds a message of no bytes, while there is more to come: the
\* relay ends as it does at the end of the pipe, and what is in the pipe goes with it.
ReadFails(p) ==
  /\ pc # "gone" /\ relay[p] = "reading" /\ ~Eof(p)
  /\ relay' = [relay EXCEPT ![p] = "done"]
  /\ Closes({Read[p]})
  /\ buffer' = [buffer EXCEPT ![p] = 0] /\ lost' = lost \cup {p}
  /\ UNCHANGED <<carry, written, delivered, reader>> /\ Frozen

Left_dropped(n, k) == 0

\* What a short write leaves is written next.
Left(n, k) == n - k

RelayWrites(p) ==
  /\ pc # "gone" /\ relay[p] = "writing" /\ reader
  /\ \E k \in 1..carry[p] :
       /\ delivered' = [delivered EXCEPT ![p] = @ + k]
       /\ carry' = [carry EXCEPT ![p] = Left(@, k)]
  /\ relay' = [relay EXCEPT ![p] = IF carry'[p] = 0 THEN "reading" ELSE @]
  /\ UNCHANGED <<open, reclosed, buffer, written, reader, lost>> /\ Frozen

\* WriteFile fails, or writes nothing, whether OpenCode still reads or not: the rest of
\* what was read is dropped, and the relay goes on reading.
WriteFails(p) ==
  /\ pc # "gone" /\ relay[p] = "writing"
  /\ carry' = [carry EXCEPT ![p] = 0] /\ lost' = lost \cup {p}
  /\ relay' = [relay EXCEPT ![p] = "reading"]
  /\ UNCHANGED <<open, reclosed, buffer, written, delivered, reader>> /\ Frozen

-----------------------------------------------------------------------------
(* bash, its child, OpenCode *)

Outside == UNCHANGED <<pc, open, reclosed, job, ended, exit>>

\* Nobody has the reading end any more: a write fails.
Broken(p) == relay[p] = "done" \/ pc = "gone"

\* A write waits for room in the pipe; one that fails leaves nothing.
Writes(p) ==
  /\ bash = "running" \/ (child = "running" /\ p \in holds)
  /\ ~Broken(p) /\ written[p] < Output /\ buffer[p] < Capacity
  /\ buffer' = [buffer EXCEPT ![p] = @ + 1]
  /\ written' = [written EXCEPT ![p] = @ + 1]
  /\ UNCHANGED <<tree, relay, carry, delivered, reader, lost>> /\ Outside

Spawns ==
  /\ Background /\ bash = "running" /\ child = "none"
  /\ child' = "running" /\ holds' \in SUBSET Pipes
  /\ UNCHANGED <<bash, code, pipes>> /\ Outside

\* bash writes all it has to before it ends, unless a broken pipe ends it.
BashEnds ==
  /\ bash = "running" /\ \A p \in Pipes : written[p] = Output \/ Broken(p)
  /\ bash' = "exited" /\ code' \in Codes
  /\ UNCHANGED <<child, holds, pipes>> /\ Outside

ChildEndsItself ==
  /\ child = "running" /\ child' = "exited"
  /\ UNCHANGED <<bash, holds, code, pipes>> /\ Outside

ReaderCloses ==
  /\ reader /\ reader' = FALSE
  /\ UNCHANGED <<tree, buffer, relay, carry, written, delivered, lost>> /\ Outside

\* The supervisor is terminated; its own handles go.
Kill == Forced /\ pc \notin {"gone", "done", "failed"} /\ Vanish(None)

Main == CreateJob \/ LimitJob \/ CreateStdout \/ CreateStderr \/ OpenNul \/ Attributes
        \/ CreateBash \/ Assign \/ Resume \/ StartRelays \/ WaitForBash \/ ExitCode
        \/ ReleaseJob \/ CloseJob \/ Drain \/ Exit

Relay(p) == RelayReads(p) \/ RelayEnds(p) \/ RelayWrites(p) \/ WriteFails(p)

Next == \/ Main \/ Deadline \/ (\E p \in Pipes : Relay(p) \/ Writes(p))
        \/ WaitFails \/ (\E p \in Pipes : ReadFails(p))
        \/ Spawns \/ BashEnds \/ ChildEndsItself \/ ReaderCloses \/ Kill

Spec == Init /\ [][Next]_vars

\* What goes on while it can: the threads, bash until it ends, what writes, and the
\* grace period; a child may run on. A call that waits does not fail to oblige.
GoesOn == Main \/ Deadline \/ BashEnds \/ \E p \in Pipes : Relay(p) \/ Writes(p)

\* Each of these uses something up for good, so it is enough that none of them stands
\* still while it could go on.
FairSpec == Spec /\ WF_vars(GoesOn)

-----------------------------------------------------------------------------
(* Properties *)

TypeOK ==
  /\ pc \in {"create_job", "limit_job", "stdout", "stderr", "nul", "attributes", "create",
             "assign", "resume", "relay", "wait", "exit_code", "release_job", "close_job",
             "drain", "done", "failed", "gone"}
  /\ open \subseteq Handles /\ reclosed \in BOOLEAN
  /\ killOnClose \in BOOLEAN /\ inJob \in BOOLEAN
  /\ bash \in {"none", "suspended", "running", "exited", "killed"}
  /\ child \in {"none", "running", "exited", "killed"} /\ holds \subseteq Pipes
  /\ buffer \in [Pipes -> 0..Capacity] /\ carry \in [Pipes -> 0..Capacity]
  /\ relay \in [Pipes -> {"none", "reading", "writing", "done"}]
  /\ written \in [Pipes -> 0..Output] /\ delivered \in [Pipes -> 0..Output]
  /\ reader \in BOOLEAN /\ lost \subseteq Pipes /\ released \in BOOLEAN /\ drain \in {"none", "complete", "cut"}
  /\ code \in Codes \cup {None} /\ exit \in Codes \cup {None, 125}

\* Whatever call fails, each handle is closed once and none is left, except for
\* those the relays and a failed wait leave to the exit.
HandlesAreClosedOnce ==
  /\ ~reclosed
  /\ pc = "failed" /\ relay["stdout"] = "none" => open = {}
  /\ pc = "done" => open \subseteq {Read[p] : p \in {q \in Pipes : relay[q] # "done"}}

\* A supervisor that is gone, by whatever way, leaves no bash behind that it
\* started: killed in the moment between creation and assignment it cannot help it.
NoStrayBash == pc = "gone" /\ Alive(bash) => exit = None /\ ~inJob

\* A descendant survives the end of the command unless the limit of the job could
\* not be cleared; it does not survive the death of the supervisor before that.
DescendantsFate ==
  /\ drain # "none" /\ released => child # "killed"
  /\ pc = "gone" /\ ~released => child # "running"

\* Whatever kills or fails the supervisor, bash and what it left in the background are
\* alive afterwards only when they should be (main.rs).
NothingStray == NoStrayBash /\ DescendantsFate

\* The command's exit code comes through, or 125.
CodeComesThrough == pc = "gone" /\ drain # "none" => exit \in {code, 125} /\ code # None

\* A complete drain has delivered every chunk of a pipe to an OpenCode that reads, unless
\* a call of that pipe's own relay failed; a failure on one pipe costs the other nothing.
NothingIsLost ==
  drain = "complete" /\ reader => \A p \in Pipes \ lost : delivered[p] = written[p]

\* Not so in the code: a complete drain means that all of the output has arrived
\* (native/windows-bash-supervisor/README.md:28, "exit-code/output passthrough").
CompleteMeansAll == drain = "complete" /\ reader => delivered = written

\* OpenCode gets the exit code or 125, and all of the output of every pipe whose relay
\* met no failed call (main.rs:349-394, 613-625).
OutcomeIsDelivered == CodeComesThrough /\ NothingIsLost

\* The supervisor ends once bash does, whoever holds the pipes.
SupervisorEnds == <>(pc = "gone")
=============================================================================

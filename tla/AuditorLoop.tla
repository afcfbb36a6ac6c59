------------------------------ MODULE AuditorLoop ------------------------------
(***************************************************************************)
(* One run of src/src/security/auditor.py: requests to the endpoint with   *)
(* their retries, the rounds in which the model calls the two file tools,  *)
(* the budgets they share, and the exit code. A reply of the endpoint is   *)
(* an oracle; the files and directories change under the tools.            *)
(***************************************************************************)
EXTENDS Naturals, Sequences, FiniteSets

CONSTANTS
  Files, Dirs,             \* what the tools may be asked for
  Scripts, Targets,        \* uninspectedLocalScripts, uninspectedTargetDirectories:
                           \* those whose path resolves (_inspection_key)
  Strict,                  \* POLICY = "HARD"
  MaxRounds,               \* MAX_ROUNDS
  MaxToolCalls,            \* MAX_TOOL_CALLS
  MaxReadBytes, MaxReadBudget, MaxListEntries,
  MaxCalls,                \* bound: tool calls in one message
  MaxSize,                 \* bound: size of a file, entries of a directory
  Changes                  \* bound: how often files change during a review

ASSUME ObjectsAssumption ==
  Files \cap Dirs = {} /\ Scripts \subseteq Files /\ Targets \subseteq Dirs
ASSUME BudgetsAssumption ==
  /\ MaxRounds \in Nat \ {0} /\ MaxToolCalls \in Nat
  /\ MaxReadBytes \in Nat /\ MaxReadBudget \in Nat /\ MaxListEntries \in Nat
  /\ MaxCalls \in Nat \ {0} /\ MaxSize \in Nat /\ Changes \in Nat
  /\ Strict \in BOOLEAN

VARIABLES
  phase,       \* "start", "ask", "waiting", "tools" or "done"
  rounds,      \* tool_rounds_used
  used,        \* tool_calls_used
  bytes,       \* read_budget
  required,    \* required_scripts and required_directories
  offered,     \* include_tools of the request under way
  throttled,   \* throttled_retries
  failed,      \* server_retries
  queue,       \* the validated calls still to run
  exit,        \* the exit code
  verdict,     \* the decision printed
  size,        \* the file system: size of each file, entries of each directory
  changes,     \* how often it changed
  whole        \* history: objects the model was shown from end to end

vars == <<phase, rounds, used, bytes, required, offered, throttled, failed, queue,
          exit, verdict, size, changes, whole>>
budgets == <<rounds, used, bytes, required>>
disk == <<size, changes>>

Objects == Files \cup Dirs
Calls == [name : {"read_file", "list_directory"}, path : Objects]
Running == 100   \* no exit code yet

Init ==
  /\ phase = "start" /\ rounds = 0 /\ used = 0 /\ bytes = 0
  /\ required = Scripts \cup Targets
  /\ offered = FALSE /\ throttled = 0 /\ failed = 0 /\ queue = <<>>
  /\ exit = Running /\ verdict = "none"
  /\ size \in [Objects -> 0..MaxSize] /\ changes = 0
  /\ whole = {}

-----------------------------------------------------------------------------
(* main *)

Exit(code) == phase' = "done" /\ exit' = code

\* _load_config (exit 3) and _read_review_input (exit 2) may refuse.
Start ==
  /\ phase = "start"
  /\ \/ phase' = "ask" /\ exit' = exit
     \/ \E code \in {2, 3} : Exit(code)
  /\ UNCHANGED <<budgets, offered, throttled, failed, queue, verdict, disk, whole>>

-----------------------------------------------------------------------------
(* _post_chat *)

Offers == rounds < MaxRounds /\ used < MaxToolCalls

Ask ==
  /\ phase = "ask"
  /\ phase' = "waiting" /\ offered' = Offers
  /\ UNCHANGED <<budgets, throttled, failed, queue, exit, verdict, disk, whole>>

Other_restarts(n) == 0

\* A retry for one reason leaves the count of the other alone.
Other(n) == n

\* The counts of retries end with the request.
Answered == throttled' = 0 /\ failed' = 0

MayRetry(n, limit) == n < limit

\* HTTP 429 and 5xx: the same request again, after a pause, a few times.
Throttle ==
  /\ phase = "waiting" /\ MayRetry(throttled, 2)
  /\ throttled' = throttled + 1 /\ failed' = Other(failed)
  /\ UNCHANGED <<phase, budgets, offered, queue, exit, verdict, disk, whole>>

ServerFails ==
  /\ phase = "waiting" /\ MayRetry(failed, 1)
  /\ failed' = failed + 1 /\ throttled' = Other(throttled)
  /\ UNCHANGED <<phase, budgets, offered, queue, exit, verdict, disk, whole>>

\* An HTTP error that is not retried (4), no connection (5), a timeout or a
\* reply that is too long or ill-formed (6), anything else (7).
PostFails ==
  /\ phase = "waiting"
  /\ \E code \in 4..7 : Exit(code)
  /\ Answered
  /\ UNCHANGED <<budgets, offered, queue, verdict, disk, whole>>

-----------------------------------------------------------------------------
(* _run_review *)

Inspected == ~Strict \/ required = {}

\* A message without tool calls is the final answer, well formed or not.
Answer ==
  /\ phase = "waiting"
  /\ \/ \E decision \in {"ALLOW", "DENY"} :
          /\ decision = "ALLOW" => Inspected
          /\ verdict' = decision /\ Exit(0)
     \/ Exit(6) /\ UNCHANGED verdict
  /\ Answered
  /\ UNCHANGED <<budgets, offered, queue, disk, whole>>

\* A message with well-formed tool calls starts a round, unless no tools were
\* offered; an ill-formed one ends the review (PostFails).
CallTools ==
  /\ phase = "waiting"
  /\ IF ~offered
       THEN Exit(6) /\ UNCHANGED <<rounds, queue>>
       ELSE /\ phase' = "tools" /\ exit' = exit
            /\ rounds' = rounds + 1
            /\ \E n \in 1..MaxCalls : queue' \in [1..n -> Calls]
  /\ Answered
  /\ UNCHANGED <<used, bytes, required, offered, verdict, disk, whole>>

Smaller(m, n) == IF m <= n THEN m ELSE n

Limit_each == Smaller(MaxReadBytes, MaxReadBudget)

\* _tool_read_file: what is left of the budget also cuts a file short.
Limit == Smaller(MaxReadBytes, MaxReadBudget - bytes)
Cut_ofFile(path) == size[path] > MaxReadBytes

Cut(path) == size[path] > Limit
ListCut(path) == size[path] > MaxListEntries
Shown(path) == Smaller(size[path], Limit)

Exhausted == used >= MaxToolCalls

\* A call beyond the budget is answered with an error and not counted.
RefuseCall ==
  /\ phase = "tools" /\ queue # <<>> /\ Exhausted
  /\ queue' = Tail(queue)
  /\ UNCHANGED <<phase, budgets, offered, throttled, failed, exit, verdict, disk, whole>>

\* The tools answer with an error for what is not there, not of the right kind,
\* out of bounds or sensitive, and when the read budget is gone.
ToolFails ==
  /\ phase = "tools" /\ queue # <<>> /\ ~Exhausted
  /\ queue' = Tail(queue) /\ used' = used + 1
  /\ UNCHANGED <<phase, rounds, bytes, required, offered, throttled, failed, exit,
                 verdict, disk, whole>>

\* A path that no path function takes, a loop of links.
ToolRaises ==
  /\ phase = "tools" /\ queue # <<>> /\ ~Exhausted
  /\ \E code \in {6, 7} : Exit(code)
  /\ UNCHANGED <<budgets, offered, throttled, failed, queue, verdict, disk, whole>>

ReadFile ==
  /\ phase = "tools" /\ queue # <<>> /\ ~Exhausted
  /\ Head(queue).name = "read_file" /\ bytes < MaxReadBudget
  /\ LET path == Head(queue).path
     IN /\ path \in Files
        /\ bytes' = bytes + Shown(path)
        /\ required' = IF Cut(path) THEN required ELSE required \ {path}
        /\ whole' = IF Shown(path) = size[path] THEN whole \cup {path} ELSE whole
  /\ queue' = Tail(queue) /\ used' = used + 1
  /\ UNCHANGED <<phase, rounds, offered, throttled, failed, exit, verdict, disk>>

ListDirectory ==
  /\ phase = "tools" /\ queue # <<>> /\ ~Exhausted
  /\ Head(queue).name = "list_directory"
  /\ LET path == Head(queue).path
     IN /\ path \in Dirs
        /\ required' = IF ListCut(path) THEN required ELSE required \ {path}
        /\ whole' = IF size[path] <= MaxListEntries THEN whole \cup {path} ELSE whole
  /\ queue' = Tail(queue) /\ used' = used + 1
  /\ UNCHANGED <<phase, rounds, bytes, offered, throttled, failed, exit, verdict, disk>>

RoundEnds ==
  /\ phase = "tools" /\ queue = <<>>
  /\ phase' = "ask"
  /\ UNCHANGED <<budgets, offered, throttled, failed, queue, exit, verdict, disk, whole>>

\* Someone writes to a file or a directory.
DiskChanges ==
  /\ phase # "done" /\ changes < Changes
  /\ \E path \in Objects : \E n \in 0..MaxSize : size' = [size EXCEPT ![path] = n]
  /\ changes' = changes + 1
  /\ UNCHANGED <<phase, budgets, offered, throttled, failed, queue, exit, verdict, whole>>

Post == Throttle \/ ServerFails \/ PostFails \/ Answer \/ CallTools
Tool == RefuseCall \/ ToolFails \/ ToolRaises \/ ReadFile \/ ListDirectory \/ RoundEnds

Next == Start \/ Ask \/ Post \/ Tool \/ DiskChanges

Spec == Init /\ [][Next]_vars

\* The endpoint answers, refuses or times out; the tools return.
FairSpec == Spec /\ WF_vars(Start \/ Ask \/ Post \/ Tool)

-----------------------------------------------------------------------------
(* Properties *)

TypeOK ==
  /\ phase \in {"start", "ask", "waiting", "tools", "done"}
  /\ rounds \in Nat /\ used \in Nat /\ bytes \in Nat
  /\ required \subseteq Scripts \cup Targets
  /\ offered \in BOOLEAN /\ throttled \in 0..2 /\ failed \in 0..1
  /\ queue \in Seq(Calls)
  /\ exit \in {0} \cup 2..7 \cup {Running} /\ verdict \in {"none", "ALLOW", "DENY"}
  /\ size \in [Objects -> 0..MaxSize] /\ changes \in 0..Changes
  /\ whole \subseteq Objects

\* Under HARD an ALLOW means that the model was shown every script and every
\* directory it had to inspect from end to end, whatever budget was left for it.
InspectedBeforeAllow ==
  Strict /\ verdict = "ALLOW" => Scripts \cup Targets \subseteq whole

\* No message, however many calls it holds, gets past the budgets.
BudgetsKept ==
  rounds <= MaxRounds /\ used <= MaxToolCalls /\ bytes <= MaxReadBudget

\* A review ends: by an answer, an error or the end of its budgets.
ReviewEnds == <>(phase = "done")
=============================================================================

# A formal model of opencode-bash-classifier

The plugin stands between an agent and its shell: each bash command is
classified statically, may be handed to a dynamic reviewer, and is let through
or blocked. These modules model the program as it is in `src/`; TLC checks them
on small instances and TLAPS proves theorems about them for every value of
their constants.

## Inventory

| part | state | operations | interacts with |
|---|---|---|---|
| hooks of the bash tool (`src/src/index.ts` 413-666) | the locals of each call in flight | `tool.execute.before`, `tool.execute.after` | session store, classifier, reviewer, client (`session.abort`) |
| confirmation tool (`index.ts` 680-778) | the locals of each confirmation | `bash_classifier_confirm` | session store, user (`context.ask`) |
| session store (`index.ts` 260-331) | `sessions`, the `SessionState` objects | get, prune, evict, delete, clear | shared by every hook |
| allow-cache (`index.ts` 160-243) | `dynamicAllowCache` | look up, add, purge, evict | LOOSE reviews; cleared with sessions |
| host integration (`index.ts` 362-429) | `configuredShell`, `supervisorActive` | `config`, `shell.env`, `apply_patch` block, rewrites of the arguments | host, supervisor |
| reviewer process (`src/src/security/reviewer.ts`) | one child, one timer, two buffers per review | choose an interpreter, spawn, collect, settle once | hooks, auditor |
| auditor (`src/src/security/auditor.py`) | messages, rounds and byte budgets of one review | request to the endpoint, file tools, final answer | reviewer process, endpoint, file system |
| Windows supervisor (`src/native/windows-bash-supervisor/src/main.rs`) | job object, pipes, reader threads | spawn, wait, drain, report the exit code | host, operating system |
| configuration (`src/src/config.ts`) | none | options to resolved configuration | all |
| static classifier (`src/src/security/classifier.ts`, `paths.ts`, `shell-dialect.ts`) | none between calls | script to verdict, fingerprints and review context | hooks, file system |

The hardest behaviour is in the first four. JavaScript runs one callback at a
time, but every hook waits several times, holds a `SessionState` object across
its waits, and shares it with every other hook of the session, while any hook
of any session may prune, evict or delete it. A test runs one order of all
this.

The others are hard in their own ways: the reviewer process is a race of six
event sources for one promise; the auditor runs an untrusted conversation under
three budgets; a review passes one object through three programs in two
languages, each with its own checks; the classifier reads files that other
processes write, and guesses at a text what a shell, in which every segment may
fail, and a file system with links will make of it; the config hook waits while
commands are classified, checked and run; and the supervisor is a sequence of system calls, any of which
may fail, with two threads and a process tree beside it.

What makes each part correct:

- hooks: what is refused is on record before the hook ends; with a refusal or a
  failure on record, nothing passes unreviewed; a record is removed only by
  what answers it; every call comes to an end.
- confirmation: an approval lets the very command the user saw through, once;
  a denial stands.
- store and cache: bounded; the idlest goes first; a session finds the state its
  hooks left; a cached answer was given for the same thing and has not expired.
- reviewer process: a review settles once, in bounded time, and leaves no child
  and no timer behind; what it returns is a whole answer or an error.
- auditor: ends within its rounds and budgets; its ALLOW rests on what it was
  told to inspect.
- the chain of checkers: an ALLOW is one the model gave; a DENY is not lost; what
  is recorded of a review the next one can read.
- script inspection: what runs is what was read; what was not read is declared.
- walk over the segments: a segment is judged for the directory it runs in, and no
  segment is carried by another.
- backup and temp policies: a deletion of backups leaves the file they are of, and no
  sequence of allowed commands moves or writes something under the name of a backup;
  what is allowed in a temp directory happens there, wherever links lead.
- configuration: what is called available is usable by the programs that get it;
  a number or a permission is the user's.
- host integration: a command runs in the shell it was classified for; a detached
  start keeps no pipe, and the command that is rewritten for it keeps its meaning.
- supervisor: the exit code is bash's; the output of a pipe arrives whole unless its
  own relay met a failed call; every handle is closed on every path; no
  bash is left without its supervisor; a descendant lives on only after the job
  was released on purpose.

## Modules

| module | what it is |
|---|---|
| `InsertionOrder` | the iteration order of a JavaScript Map, as eviction relies on it |
| `SessionStore` | the two maps and the heap of `SessionState` objects |
| `StoreAlone`, `StoreAlone_proofs` | the store under any caller, to reach fuller maps than the hooks do |
| `SessionGate` | the hooks, the confirmation tool, `session.deleted` and `dispose` |
| `SessionGate_proofs` | `SessionGate`: types, every safety and action property, and the refinement |
| `ApprovalLedger` | abstract specification: what becomes of a request for approval |
| `GateLedger` | the refinement: `SessionGate` implements `ApprovalLedger` |
| `ReviewerProcess`, `ReviewerProcess_proofs` | one review in the host: interpreters, child, timer, pipes, signal |
| `AuditorLoop`, `AuditorLoop_proofs` | one review in `auditor.py`: rounds, tools, budgets, retries |
| `ReviewContract`, `ReviewContract_proofs` | the data of a review through hook, `reviewer.ts`, `auditor.py` and model, and back |
| `ScriptInspection`, `ScriptInspection_proofs` | the scripts of a command, read for the verdict and again before the run |
| `SegmentWalk` | the segments of a command, classified one by one and then run by a shell |
| `BackupPolicy` | copies, moves, writes, edits and deletions of files and their backups, one command after the other |
| `TempPolicy` | the two temp policies and the HARD rule, on a file system with links |
| `DetachedStart` | the rewriting of a detached start, and what the shell reads before and after |
| `HostIntegration` | the hooks `config` and `shell.env`, `applyPostChecks`, the dialect, and the host |
| `PluginConfig` | the options, their resolution and what the reviewer and the auditor make of it |
| `Supervisor` | the Windows supervisor, its threads and the process tree |
| `MCClassifier`, `MCClassifier_proofs` | `ScriptInspection`, `SegmentWalk`, `BackupPolicy` and `TempPolicy` in one run |
| `MCHost`, `MCHost_proofs` | `Supervisor`, `HostIntegration`, `PluginConfig` and `DetachedStart` in one run |
| other `MC...` | instances for TLC |

`MCClassifier` and `MCHost` are unions: TLC starts from the initial states of
every part and takes its steps, while the variables of the others rest, so that
one run asks the questions of all parts. Nothing is shared but a variable that two
parts both need and never at once.

How they relate: `SessionGate` uses the classifier, the reviewer and the check of
the fingerprints as oracles that may answer anything, throw or fail, at any time.
`ScriptInspection`, `ReviewerProcess`, `AuditorLoop` and `ReviewContract` are what
is behind these oracles, each on its own; none of them relies on the hooks beyond
the order of its calls. `SegmentWalk`, `BackupPolicy` and `TempPolicy` are the
classifier between the lexers and the verdict: the first gives each segment its
base and combines the verdicts, the other two are rules for one segment, followed
to the disk. `HostIntegration` is where the configuration of `PluginConfig`, the
rewriting of `DetachedStart` and the supervisor meet. `Supervisor` runs the commands and shares no state with
the rest.

### How SessionGate corresponds to the code

An action is the code between two awaits. `call[c].pc` says which await a call
is at: `classify` (the working directory and the classifier), `review`
(`performDynamicReview`), `abort` (`session.abort`), `verify` (the fingerprints
in `applyPostChecks`). `Begin` is the code up to the first await; `StaticDeny`,
`UseApproval`, `StaticAllow`, `CachedAllow` and `StartReview` are the branches
after the classifier answers, `ClassifierThrows` its rejection; `ReviewBypass`,
`ReviewDeny`, `ReviewAllow` and `ReviewFails` the branches after the review;
`Fallback` the switch over `failPolicy`; `Finish` is `tool.execute.after`. The
confirmation tool is split at `context.ask`.

State objects have addresses (`Objs`), because a waiting hook keeps the object
after the map has dropped it and the session may get another one. An address is
used again when nothing refers to it any more. An optional field is a set of at
most one element.

Abstracted: a command stands for the script with its canonical directory, which
is what `commandFingerprint` hashes; a view stands for the fingerprints,
directories and rules that go into a cache key; texts of messages are left out.
`via`, `grant`, `owner`, `reviewed` and the `ask` of an answered confirmation are
history, read by properties only.

### The other modules

`ReviewerProcess`: an action is one callback of the event loop, or a step of the
process, which the program does not control. `run[i]` is what the closures of the
i-th `runCandidate` keep, so that events of an earlier child may still come.
An answer is a number of chunks; a part of it is not an answer.

`AuditorLoop`: an action is one HTTP attempt or one tool call. Files have sizes
that others change; `required` is what the code still has to see, `whole` is
history: what the model was really shown from end to end.

`ReviewContract`: a text is a class of strings on which the programs differ
(blank to one of them only, half a surrogate pair, outside a legacy code page).
`reply` is what the model said; `answer` is that reply as the program at this
stage holds it.

`ScriptInspection`: an action is the code between two awaits of
`fingerprintLocalScript`, `inspectTargetDirectory` and `verifyScriptFingerprints`.
A name leads through a link, or through a linked directory, to a file; other
processes write files, put times back and relink names between any two steps.
`settled` is history: whether anyone wrote since the inspection, and since the
verification, began. The lexers and rule tables are an oracle: which scripts a
command runs, and what its segments come to.

`SegmentWalk`: the first half of a behaviour is `classifySegments` with
`deletionTargetCandidates`, one segment a step, and the rules of
`classifyShellCommand` for the whole command; the second half is the shell, which
runs the segments in order, skips what `&&` and `||` skip, runs pipelines and
background lists in processes of their own, and may fail at every segment. A
directory is the list of names that leads to it; the target of `cd $X` may be
anywhere.

`BackupPolicy`: a name is a stem with a number of suffixes. `Issue` classifies a
command with `SegmentVerdict` and puts its segments, if it is allowed, into `queue`;
`RunSegment` applies them to the disk one by one, so that two minutes may pass
between them (`Wait`). A file has the age of its inode and that of its content, and
the operation that made it (`by`). `PolicyVerdict` has the holes of the code: `mkdir` is
exempt (1675), the expression for redirections does not match `>>` (1691), and
`sed -i.bak` is not on its list (1676); the rules behind it find all three safe.
A plain `rmdir` is known to be safe as well, and takes only what is empty.

`TempPolicy`: paths over two names, and a disk of `Depth` levels on which a place may
be absent, something, or a link to any directory. `RealPath` resolves a path as
`realpath` does, name by name (`Follow`), until nothing is left, something is missing
or `MaxLinks` links were followed; it takes no more than `Steps` steps.
`CanonicalProjectedPath` and `CanonicalExistingAnchor` are what the code makes of a
path that does not exist yet. `gone` is what the operation really touched. Targets
with a wildcard are not in the model: `isTrustedTempPath` checks the directory they
are in (1324-1332, 1391) and not what they match, so that a link among the matches of
`cp f T/*` is not looked at.

`DetachedStart`: a command is a sequence of tokens, quotes among them. `Isolate` is what
the regular expressions do to it, `First` and `Rest` what they take for the start with
its arguments and for what follows. `Meaning` is what the shell has read when it is
through (`Reading`): commands with their words, where the output of each goes, and
what joins it to the next. A command that is not a program to the shell
(`IsProgram`) is left out. The hook may look at a command twice.

`HostIntegration`: the config hook is split at its await of `stat`. A call goes
through `Classify`, `PostChecks` and `Run` while the config hook may run again and
the supervisor is built. A shell is a spelling of a path.

`PluginConfig`: an option is the class of values that the checks tell apart, in
TypeScript, at the spawn and in Python; options are set one by one, then resolved,
then a review is started with the result.

`Supervisor`: an action is one system call with its success and its failure, a
read or a write of a relay, or a step of bash, of its descendant or of OpenCode.
A relay may be cut off at every call: `ReadFails` ends it with output to come, and
breaks the pipe under bash; `WriteFails` drops what is left of a read, whether OpenCode
still reads or not, or has no output at all (370); `RelayWrites` is a write that
succeeds, of all or of less. `lost` is history: the pipes on which that happened.
The Windows objects (job, pipes, inherited handles) are modelled from how
`main.rs` uses them.

## Runs

| run | what it shows | distinct states |
|---|---|---|
| `hard` | HARD, fail_ask: three calls, two confirmations and deletions of one session in every order keep every promise about rejections, failures and approvals | 0.3 M |
| `ledger` | the hooks implement the ledger, while requests and sessions expire under their holders | 0.3 M |
| `loose` | LOOSE, fail_close: every call ends; what the cache lets through was reviewed for the same thing | 0.2 M |
| `store_alone` | three sessions, room for two, any order of calls: what is evicted, expires and is kept | 0.06 M |
| `reviewer_process` | two interpreters and a signal, the events in every order | 0.2 M |
| `auditor_loop` | two scripts and a directory, room for three tool calls, files that change | 0.4 M |
| `contract_hard` | every reply of the model through the three checkers, and the records into the next review | 0.2 M |
| `supervisor` | the supervisor: every system call may fail, those of the relays too, OpenCode may stop reading or kill it; the hooks: any options, shells and order; the options: any three changed; the start: every command of five tokens with quotes, redirections and all joins | 1.7 M |
| `scripts` | scripts: two of them, one through a linked directory, two changes of the disk at any await; the walk: every command of three segments; backups: two commands over two stems; temp: one or two paths on every small disk | 3.4 M |
| `orphan_cache`, `torn_context`, `many_scripts` | violations: statements the code does not keep to (see Findings) | |

`NothingForgotten`, `BlockRecorded`, `ForcedReview`, `CacheHonest`,
`ContextHeals`, `DeletionLeavesTheFile` and the properties of `StoreAlone` say what
a step may never do. `CallSettles`, `ReviewSettles`, `ReviewEnds` and
`SupervisorEnds` are liveness. Each property has a mutant: a plausible slip in the
code under which TLC finds it violated. A property that joins two (`ApprovalBinds`,
`NothingForgotten`, `RoomIsMade`, `TriedInTurn`, `VerdictStands`, `ContextHeals`,
`NothingStray`, `OutcomeIsDelivered`, and those of the unions) is their
conjunction, and each conjunct is a definition with a comment of its own.

Bounds. Gate: three calls are the least that show one call blocked and two racing
to retry it; two confirmations the least that race for one request; two commands,
the approved one and another; two objects suffice to have an orphan and its
successor. `MaxTime` bounds the clock; it is 0 in `hard`, whose questions do not
involve time, and 2 in `ledger`, where a request expires after 1 and a session
after 2. `ledger` has no reviewer, so that each unclear command raises a request.
`loose` has commands that share a normal form and a view that is not inspected.
Calls, confirmations and objects are symmetric where the run makes them all of
one session, and commands where each has a normal form of its own; no run with a liveness property uses symmetry. Store: three sessions
and two slots are the least where the order of use decides who goes. What a hook
leaves in an object is a count (`MaxVersion`) beside the time it was touched. The
view `Seen` shows the object each session has in the map, whatever its address, and
no object that the map does not refer to: nobody reads that, as the next session to
use the address overwrites it.
Reviewer: two interpreters, so that one may be missing and the next tried; two
chunks, so that an answer may be whole, cut or too long. Auditor: three tool
calls for three objects, calls in messages of up to two, a read budget of three
and files of up to three, so that each budget can run out in the middle of a
message. Scripts: two scripts that each may fill the attachment limit of 2;
Changes = 2 lets one process write during the inspection and another between
inspection and verification, or write and put back; in this run a command with
deletion targets has no scripts, whose lists are inspected one after the other.
Walk: three segments are a cd, a connector that skips or forks, and a command
behind it; all connectors are in. Backups: two levels of suffixes, so that there is
a backup of a backup; two commands, so that the second relies on what the first
did; `key` stands for credential files, which are no directories in this run. Temp:
two levels, with links to the top or to a directory below it, so that a link may be
the target, above it, lead out of Temp, or in a circle; the system gives up after four
(`MaxLinks`), which a few paths that come to an end also exceed; `Length` 2, and 1 for
the first of two targets, of which each is judged on its own; LOOSE only, since HARD
allows nothing there. Start: five tokens hold a join between two commands with
arguments, a quoted text with a separator, or a redirection before or behind a join. Hooks: one call, since calls share nothing but
what the config hook writes; two shells and the supervisor. Options: three changes
at once are more than any check looks at together. Supervisor: three chunks per
pipe with room for two (`Capacity` < `Output`), so that a short write leaves something
and bash has to wait for the relay.

Fairness. `SessionGate`: each await of the before hook comes back: `realpath`, the
classifier and the fingerprint check are file reads, the reviewer has a timeout,
`abortSession` catches every error. Nothing is assumed of the user, the client or
the clock, but that `session.abort` answers, which the plugin does not bound by a
timeout of its own. `ReviewerProcess`: the event loop delivers what is due, the
timer goes off, and a process that was killed ends; one that was not may run for
ever. `AuditorLoop`: an HTTP attempt answers, fails or times out; a tool returns.
`Supervisor`: its threads run, bash writes while its pipes have room and then
ends, the grace period ends; a descendant may run for ever, and neither a kill nor
the failure of a call that waits is assumed to come. Each of these steps uses
something up for good, so one condition for all of them is enough: they do not all
stand still while one can go on. `CallSettles` is run in LOOSE,
where the plugin calls no `session.abort`; that a hook in HARD throws after an abort
that failed is in the model (`AbortReturns`) and in `BlockRecorded`, but its liveness
is not run.

## Findings

- `many_scripts`: at most eight scripts are read, and unlike the deletion targets
  and referenced paths the list of scripts does not say that it was cut. A ninth
  script is neither read nor declared uninspected, and the command may be allowed
  with the reason that its script "was fully read and fingerprinted". (The run
  uses a cap of one and two scripts.)
- `orphan_cache`: a review that returns after its session was deleted adds an
  entry of that session to the cache; it stays until it expires.
- `torn_context`: texts are cut by UTF-16 units and may end or begin with half a
  surrogate pair; the auditor takes such a context and fails to encode it.

Other statements the code does not keep to, each modelled as the code does it. The
cfg in brackets, run on the module named, gives the counterexample:

- A request "expires after **5 minutes**" (`README.md:231`), but the clock is
  compared before the user is asked and not when the answer comes
  (`index.ts:712`). [`gate_late_answer.cfg`, `MCSessionGate`, `ApprovalInTime`]
- Fingerprints close "the symlink-swap window" (`README.md:15`), but a link above a
  script has no identity in its fingerprint (`classifier.ts:3077`).
  [`scripts_linked.cfg`, `ScriptInspection`, `SwapWindowClosed`]
- The base directory is propagated "only through consecutive success-required `&&`
  chains" (`README.md:106`), but a `cd` behind `||` that is skipped still gives the
  segment after it its base (`classifier.ts:2418`). [`walk_propagated.cfg`,
  `SegmentWalk`, `PropagatedIsWhereItRuns`]
- A script that is allowed on inspection was "fully read" (`README.md:118`), but
  after a `cd` the one of the call's directory was (`classifier.ts:3892`).
  [`walk_script.cfg`, `SegmentWalk`, `InspectedScriptRuns`]
- The removal of an "in-worktree disposable directory" is allowed
  (`README.md:123`), but after a `cd` to a place that is not known it is judged for
  the call's directory (`classifier.ts:3766`). [`walk_unknown.cfg`, `SegmentWalk`,
  `CleanupInWorktree`]
- A target is resolved against the changed directory (`README.md:106`), but the
  exception for cleanups cuts the leading `cd` off first (`classifier.ts:3945`).
  [`walk_cleanup.cfg`, `SegmentWalk`, `CleanupWhereItResolves`]
- "A backup name may be created only by copying" (`README.md:114`), but
  `mkdir a.bak` is exempt from the rule (`classifier.ts:1675`), `echo x >> a.bak` is not
  matched by its expression (1691) and `sed -i.bak s/x/y/ a` is not on its list (1676);
  all three are known to be safe (2498-2615). [`backups_copies.cfg`, `BackupPolicy`,
  `BackupsAreCopies`]
- A backup is deleted only "standalone" (`README.md:114`), but the rule sees one
  segment of the command at a time (`classifier.ts:1812`); and only if it "is older
  than two minutes", but its birth time outlives its content (`classifier.ts:1753`).
  [`backups_deletion.cfg` with `-continue`, `BackupPolicy`, `StandaloneOnly`,
  `BackupIsOld`]
- "moving/renaming into a backup name is denied" (`README.md:114`), but in LOOSE the
  policy is not asked after a `cd` to a place that is not known
  (`classifier.ts:3402-3435`). [`backups_unknown.cfg`, `BackupPolicy`,
  `BackupsComeByRule`]
- In HARD "deleting any named temp [...] target is denied" (`README.md:124`), but
  the name is looked for in the target as written, without its base
  (`classifier.ts:3235`). [`temp_hard.cfg`, `TempPolicy`, `HardDeniesTemp`]
- Moves and deletions "strictly below" the user's Temp directory are allowed, with
  escapes through links rejected (`README.md:113`), but a path below it that a link
  leads to Temp itself is taken for one below (`classifier.ts:1396-1399`).
  [`temp_root.cfg`, `TempPolicy`, `StrictlyInRoot`]
- Invalid configuration "makes the reviewer unavailable" (`README.md:178`), but a
  text with a NUL, or one that only Python finds blank, is available and fails in
  every review (`config.ts:200`). [`config_texts.cfg`, `PluginConfig`,
  `AvailableIsUsable`]
- The isolation never changes "the meaning of the command" (`README.md:28`), but the
  expressions know neither quotes nor all of what ends the arguments
  (`classifier.ts:3819-3826`): `start a & b` becomes `start a & b >/dev/null 2>&1`, which
  silences `b` and not the start; `start a &> f` becomes `start a &> f >/dev/null 2>&1`,
  and nothing gets to `f`; `start a | b` takes from `b` what it reads; `start a |& b` becomes
  `start a >/dev/null 2>&1 | & b`, which the shell refuses; a separator in a quoted argument
  is cut as one of the shell's. [`start_every.cfg`, `DetachedStart`, `EveryMeaningKept`]
- It is for starts that "inherit the bash tool's stdout/stderr pipe"
  (`classifier.ts:3809`), but one with `&` behind it, or with a redirection of its input
  or a quoted `<` or `>` (3822), keeps the pipe. [`start_every.cfg` with `-continue`,
  `DetachedStart`, `EveryStartIsDetached`]
- The supervisor is tested for "exit-code/output passthrough"
  (`native/windows-bash-supervisor/README.md:28`), but a failed `ReadFile` or `WriteFile`,
  or one of no bytes, loses output (`main.rs:367`, `main.rs:385`) and the exit code is
  still that of bash. [`supervisor_lost.cfg`, `MCHost`, `CompleteMeansAll`]
- "the supervisor never silently targets the wrong shell" (`README.md:297`), but
  paths are compared as text, and a spelling that differs in case is taken for
  another shell (`index.ts:397`). [`host_alias.cfg`, `HostIntegration`,
  `RealBashIsAShell`]
- The option `shell` is a "real-shell override" (`README.md:273`), but without the
  supervisor it changes the classifier's dialect only. [`host_override.cfg`,
  `HostIntegration`, `RealShellOverride`]

Also seen: a rejection of a blank command is attached to the next review, which the
auditor refuses (`index.ts:437`), and under `fail_open` a record it refuses stays
attached until another replaces it; a file that disappears between `realpath` and
`stat` rejects the hook without a record (`classifier.ts:3068`). Outside the
models: `python -I` ignores `PYTHONIOENCODING` and `PYTHONUTF8`; a chunk of stdout
is decoded on its own, which can split a character; after an abort that came before
the spawn, the child has no `error` listener.

## Proofs

Theorems hold for every value of the constants that satisfies the named
assumptions of the modules, which TLC evaluates on each run.

- `SessionGate_proofs!TypeCorrect`: `TypeOK`. Not inductive alone: an action
  writes `heap[call[c].obj]`, which is of the right type only if a call in flight
  holds an object. `Typed` adds `Held`, which says so, and that a call in flight
  has a command that is not blank. One lemma per operation on a state object says
  what it returns, one per operation on the maps; one per group of actions shows
  that it keeps `Typed`.
- In the same module: `ApprovalIsExact`, `ApprovalIsSpentOnce`,
  `DenialIsFinal`. A request has the identity of the call that raised it. `Safe`
  says that each holder of an object holds one of its session (`Owned`), that
  requests, approvals and questions agree with the blocked call they stand for
  (`AllRaised`), that an identity is in one place (`InOnePlace`) and in none once
  it has let a call through or was denied (`GrantsSpent`, `DenialsStand`).
- `GenerationsAreIdentities`: `Generations` adds that in one
  object no generation is later than the object's own, and what carries that of
  the rejection is about its command (`Distinct`), and that the snapshot of a
  review agrees with the object of its call (`SnapshotsHold`). A rejection that is
  new has a generation that is new (`Onward`), which every operation is shown to
  respect.
- `NothingIsForgotten`: each operation keeps the rejection and the failure
  (`Retains`) unless it is the one that answers them, and a failure that is in
  somebody's charge is in that of a call that is or was under review, or was
  handed to the fail policy (`Charged`).
- `ReviewIsForced`, `RefusalsAreRecorded`: one call moves in a step (`OnlyOneMoves`),
  and `PassesBy` and `RefusalStands` go through the ways a call can move.
- `CacheIsHonest`: `Grounded` says which review each cached key rests on, and since
  when; the key a call under review holds is of its own session, form and view
  (`OwnKey`).
- `HooksKeepTheLedger`: the refinement, step by step. Under `Safe`, and with
  `Ungranted` (a call holds no approval before the hook looked for one), where a
  request stands is a function of the objects and the calls, so each action comes
  down to one of the ledger's: a call that goes on or is refused (`CallGoesOn`), an
  approval used (`UseApprovalLedger`) or given (`ConfirmApprovedLedger`), requests
  lost (`CallsStayLedger`).
- `StoreAlone_proofs`: `RoomIsAlwaysMade`, `StateIsKept`, `DroppedIsForgotten`. An
  insertion order is a strict total order in which every part has a first element
  (`IsOrder`): the last would follow by induction for a finite set, and is kept by
  each operation without one. `UsedInOrder` relates the order of the map to the
  times of use, which is what makes the first entry the idlest.
- `AuditorLoop_proofs`: types, `BudgetsAreKept`, `AllowRestsOnInspection`. `Kept`
  relates what is still owed to what was shown: a required object that is off the
  list was shown whole, whatever its size became later.
- `ScriptInspection_proofs`: `Types`, `WhatRunsWasRead`, `QuietDisk`,
  `NothingDropped`, each from an invariant of its own on top of `Typed`:
  `Progress` (the disk agrees with the fingerprints already verified),
  `Quiet` (every fingerprint is what the disk gives now) and `Accounted` (the
  candidates behind are the attached and the declared ones).
- `ReviewContract_proofs`: types, `ContractAgrees`, `AllowIsTheModels`,
  `DenialIsTheHooks`, `RecordsStayReadable`, `RefusedContextHeals`. `Chain` says
  what the program at each stage holds as a function of the model's reply, so that
  the checkers are compared by lemmas on one reply: `SoundParses`, `ParsesValid`,
  `DenialPasses`. `RefusedContextHeals` assumes that the fail policy is not
  `fail_open`.
- `ReviewerProcess_proofs`: types, `WholeAnswers`, `NothingStays`,
  `NoSecondAuditor`, `EachWasTried`. `Sane` relates the locals of one
  `runCandidate` to its process, `LoopInv` the interpreters before and after the
  one the loop is at; a callback moves one of them (`OneMoves`).
- `MCHost_proofs`, the supervisor: types, `HandlesOnce`, `BashIsNotStray`,
  `DescendantsAsReleased`, `ExitCodes`, `AllIsDelivered`. `HandleInv` lists what is
  open at each system call, `TreeInv` what bash, its descendant and the job are
  then, `PipeInv` balances the chunks written against those delivered, carried and
  in the pipe; one lemma each for all steps. A step of another part leaves them alone.
- The hooks, in the same module: `RealBashIsNoSupervisor`, `DialectIsTheShells`,
  `StartsAreDetached`. `HooksInv` relates what the config hook has written, at each of
  its stages, to the options and to what each call was told and checked for
  (`CallHolds`). The first assumes `Aliases = {}`: with two spellings of one path it is
  false, which `host_alias.cfg` shows.
- The options: `ConfigurationIsKept`, on texts other than those with a NUL or blank to
  Python only, for which `config_texts.cfg` shows that it fails. The resolution is
  compared class by class with what the spawn and the auditor accept.
- The start: `RewritingKeepsTheMeaning`, for commands of any length over all tokens.
  `MeaningKept` has three parts: for a start that is clear (its arguments end outside a
  quote, with the command or with `&&`, `||`, `;` or a newline) the meaning is kept and
  the pipe is free; for every start whose arguments end outside a quote, and not with
  `|&`, the words and joins are kept. `start_every.cfg` shows what happens without.
  The shell's reading goes from left to right, so the proof compares the two readings
  token by token: up to the end of the arguments they agree, there the redirection
  changes the output of the last command read, and behind it they stay alike.
- `MCClassifier_proofs`, the walk: `ClassifiedWhereItRuns`,
  `AllowedStaysInTheWorktree`, `DeletionsAreListed`. Classification leaves a trace,
  the base of every segment (`Trace`), of which the results and the list of deletion
  targets are functions (`ResultsOf`, `Listed`). Of the shell, `InList` says
  where it is in the list it is at: along a chain of `&&` from its start (`Chain`), with
  no cd before it that stays (`Quiet`), in the directory of the trace, unless that is
  unknown.
- The backups: `BackupsComeByTheRule` and `DeletionLeavesOriginal`. `BackupInv` holds
  that what is in the queue was allowed, so that no segment of it is
  against the rule (`ByTheRule`) and each of a deletion that stands alone finds its
  original (`Spared`); the lowest backup of a list therefore leaves its original. What
  an operation makes is under one name and bears the operation (`Touched`). The first assumes that the directory of a segment is always known
  (`"LOOSE" \notin UnknownIn`); otherwise `backups_unknown.cfg` shows it violated.
- The temp policies: `AllowedStaysInATemp`. The resolution of a path and of its
  directory are two walks that stay side by side (`Beside`) until the directory is
  reached, so that a name that is no link is resolved to where the operation takes it
  (`FurtherResolved`, `ResolvedName`), and a part that does not exist yet hangs off what
  the code calls the anchor.

Recursive definitions (what the shell reads, where a path leads) are recursive
functions. A function of this kind is shown to exist, and what its values have in
common is shown, by an induction over the natural numbers that needs no operator as a
parameter: a set of numbers that holds 0 and with each its successor leaves no least
number out (`AllNumbers`).

Where a run checks a conjunction, the theorem about it (`ApprovalIsBound`,
`InterpretersInTurn`, `VerdictIsTheModels`, `ContextIsHealed`, `NothingIsStray`,
`OutcomeArrives`, `NothingIsForgotten`, `RoomIsAlwaysMade`) follows from those
about its conjuncts. Types are proved and not
run: they tell nothing that the other properties leave open.

Only model-checked: the four liveness properties, which rest on fairness and ENABLED,
as the prover does neither. Every safety and action property of a passing run is a
theorem, each under the assumptions named above. The runs take `CacheHonest` through
calls of one session; the theorem is about any.

## Not modelled

Path analysis (`paths.ts`), the lexers and the tables of names of the classifier
are pure functions on strings without state or order; the models take their results
as given: which words are commands, paths, credentials, temp or backup names, and
which directories a path is in. The block of `apply_patch` is one guard. The
interactive mode of the supervisor starts bash and waits for it. The published
declarations repeat types.

## Plan

1. The nesting of commands: subshells, substitutions and `sh -c`, whose verdicts
   are combined with those of the segment around them, and the caps of referenced
   paths.
2. Two sessions at the gate, with one evicted under a call that holds its state.
3. Proofs: pipes and quotes in `RewritingKeepsTheMeaning`, up to the counterexamples.

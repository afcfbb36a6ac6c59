-------------------------- MODULE HostIntegration ---------------------------
(***************************************************************************)
(* The hooks config and shell.env, the shell the classifier is told        *)
(* (resolveClassifierShell), and applyPostChecks (src/src/index.ts,        *)
(* shell-dialect.ts), with the host that runs the commands: the config     *)
(* hook waits for the file system while commands come in.                  *)
(*                                                                         *)
(* A shell is a spelling of a path; two of them may name one file. "" is   *)
(* the empty string and "none" no value.                                   *)
(***************************************************************************)
EXTENDS Naturals, FiniteSets

CONSTANTS
  Shells,        \* spellings of shells
  Supervisor,    \* the spelling in resolved.supervisorPath
  Aliases,       \* other spellings of that file, which path.resolve leaves apart
  ShellOptions,  \* the values of the option shell
  Calls          \* bash calls

HostAssumption ==
  /\ Aliases \subseteq Shells /\ Supervisor \notin Shells
  /\ (Shells \cup {Supervisor}) \cap {"", "none", "fallback", "exit 125"} = {}
  /\ ShellOptions \subseteq Shells \cup {Supervisor, "", "none"}

VARIABLES
  options,       \* what of the resolved configuration the hooks use
  built,         \* whether the supervisor is there
  installed,     \* the shells that are on the machine
  envShell,      \* $SHELL of the host
  configShell,   \* config.shell, the host's object that the hook may write
  configuredShell,
  supervisorActive,
  hook,          \* of the config hook: "none", "waiting", "done"
  calls          \* each call: what the hook made of it and which shell runs it

vars == <<options, built, installed, envShell, configShell, configuredShell, supervisorActive, hook, calls>>

IsSupervisor(shell) == shell = Supervisor \/ shell \in Aliases

\* A value that counts as none in a condition of the code.
Falsy(shell) == shell \in {"", "none"}

-----------------------------------------------------------------------------
(* shell-dialect.ts *)

\* executableOnPath: a candidate that exists.
OnPath(shell) == shell \in installed \/ (shell = Supervisor /\ built)

Usable(shell) == ~Falsy(shell) /\ OnPath(shell)

\* The first candidate that is there, the last of them always.
ResolveClassifierShell(configured) ==
  IF Usable(configured) THEN configured ELSE IF Usable(envShell) THEN envShell ELSE "fallback"

-----------------------------------------------------------------------------
(* The hooks *)

ConfiguredFrom_host(host) == IF Falsy(host) THEN configuredShell ELSE host

ConfiguredFrom_option(host) == configuredShell

\* Only what no option set is taken from the host; it may be the empty string.
ConfiguredFrom(host) == IF Falsy(configuredShell) /\ host # "none" THEN host ELSE configuredShell

ConfigHook ==
  /\ hook # "waiting"
  /\ configuredShell' = ConfiguredFrom(configShell)
  /\ hook' = IF ~options.supervisorEnabled \/ Falsy(configuredShell') \/ configuredShell' = Supervisor
               THEN "done" ELSE "waiting"
  /\ UNCHANGED <<options, built, installed, envShell, configShell, supervisorActive, calls>>

ConfigHookReturns ==
  /\ hook = "waiting" /\ hook' = "done"
  /\ IF built THEN configShell' = Supervisor /\ supervisorActive' = TRUE ELSE UNCHANGED <<configShell, supervisorActive>>
  /\ UNCHANGED <<options, built, installed, envShell, configuredShell, calls>>

\* shell.env: OPENCODE_REAL_BASH for the next process.
RealBash == IF supervisorActive /\ ~Falsy(configuredShell) THEN configuredShell ELSE "none"

NewCall ==
  [stage |-> "new", kind |-> "plain", timeout |-> "none", told |-> "none", isolated |-> FALSE,
   runs |-> "none"]

Hook(c, call) ==
  /\ calls[c].stage = "new" /\ hook # "none"
  /\ calls' = [calls EXCEPT ![c] = call]
  /\ UNCHANGED <<options, built, installed, envShell, configShell, configuredShell, supervisorActive, hook>>

\* A finite positive timeout of the call stands; downloads and builds get none.
Timeout(kind, explicit) ==
  IF options.hardTimeout /\ kind # "download" /\ explicit # "own" THEN "default" ELSE explicit

Isolates_done(kind) == kind = "start" /\ options.isolation /\ hook = "done" /\ ~supervisorActive

Isolates(kind) == kind = "start" /\ options.isolation /\ ~supervisorActive

\* tool.execute.before with a command that is allowed: the shell is resolved, and
\* after the verdict applyPostChecks writes to the arguments.
Classify(c, kind, explicit) ==
  Hook(c, [NewCall EXCEPT !.stage = "classified", !.kind = kind, !.timeout = explicit,
                          !.told = ResolveClassifierShell(configuredShell)])

PostChecks(c) ==
  /\ calls[c].stage = "classified"
  /\ calls' = [calls EXCEPT ![c].stage = "checked", ![c].timeout = Timeout(calls[c].kind, @),
                            ![c].isolated = Isolates(calls[c].kind)]
  /\ UNCHANGED <<options, built, installed, envShell, configShell, configuredShell, supervisorActive, hook>>

-----------------------------------------------------------------------------
(* The host *)

\* OpenCode runs its configured shell if it is there; the supervisor runs the shell
\* it is given, and ends with 125 if there is none.
HostShell == IF Usable(configShell) THEN configShell ELSE IF OnPath(envShell) THEN envShell ELSE "fallback"

RunsIn == IF ~IsSupervisor(HostShell) THEN HostShell ELSE IF RealBash = "none" THEN "exit 125" ELSE RealBash

Run(c) ==
  /\ calls[c].stage = "checked"
  /\ calls' = [calls EXCEPT ![c].stage = "ran", ![c].runs = RunsIn]
  /\ UNCHANGED <<options, built, installed, envShell, configShell, configuredShell, supervisorActive, hook>>

\* The supervisor is built while the host runs.
Build ==
  /\ ~built /\ built' = TRUE
  /\ UNCHANGED <<options, installed, envShell, configShell, configuredShell, supervisorActive, hook, calls>>

-----------------------------------------------------------------------------
Init ==
  /\ options \in [supervisorEnabled : BOOLEAN, hardTimeout : BOOLEAN, isolation : BOOLEAN, shell : ShellOptions]
  /\ built \in BOOLEAN /\ installed \in SUBSET Shells /\ envShell \in Shells \ Aliases
  /\ configShell \in Shells \cup {"", "none"}
  /\ configuredShell = options.shell /\ supervisorActive = FALSE /\ hook = "none"
  /\ calls = [c \in Calls |-> NewCall]

Next ==
  \/ ConfigHook \/ ConfigHookReturns \/ Build
  \/ \E c \in Calls : PostChecks(c) \/ Run(c)
  \/ \E c \in Calls, kind \in {"plain", "download", "start"}, explicit \in {"none", "own", "unusable"} :
       Classify(c, kind, explicit)

Spec == Init /\ [][Next]_vars

-----------------------------------------------------------------------------
(* Properties *)

\* "the supervisor never silently targets the wrong shell" (README.md:297): however
\* often the config hook runs, over the host's object it already wrote to, the shell
\* that shell.env gives is not the supervisor itself (index.ts:391-407).
RealBashIsAShell == ~IsSupervisor(RealBash)

\* A shell the plugin put into the host's configuration is one that runs commands: the
\* supervisor is never in place without the shell it is to run (index.ts:406-411).
SupervisorIsFed == configShell = Supervisor => ~Falsy(RealBash)

\* While no option names another shell, a command runs in the shell whose dialect it
\* was classified in, whether the supervisor came in between or not, if the host's
\* shell is on the machine (index.ts:448-455, shell-dialect.ts:28-41).
RunsAsClassified ==
  \A c \in Calls :
    (calls[c].stage = "ran" /\ Falsy(options.shell) /\ calls[c].told \in installed /\ calls[c].runs \in installed) =>
      calls[c].runs = calls[c].told

\* A detached start that was let through is isolated or runs under the supervisor,
\* also if the config hook was still waiting when it was checked (index.ts:379-384).
StartHoldsNoPipe ==
  \A c \in Calls :
    (calls[c].stage = "ran" /\ calls[c].kind = "start" /\ options.isolation) =>
      calls[c].isolated \/ configShell = Supervisor

\* The option shell is a "real-shell override" (README.md:273): a command runs in it.
RealShellOverride ==
  \A c \in Calls :
    (calls[c].stage = "ran" /\ options.shell \in installed) => calls[c].runs = options.shell
=============================================================================

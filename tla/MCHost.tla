------------------------------- MODULE MCHost -------------------------------
(***************************************************************************)
(* What lies around the verdict, checked in one run: the Windows           *)
(* supervisor, the hooks that put it in place (HostIntegration), the       *)
(* options they go by (PluginConfig) and the command that is rewritten     *)
(* where there is none (DetachedStart).  The models share nothing; a       *)
(* behaviour is one of one part, in which the variables of the others      *)
(* rest.                                                                   *)
(***************************************************************************)
EXTENDS Supervisor

CONSTANTS
  Shells, SupervisorShell, Aliases, ShellOptions, Calls,   \* of the hooks
  Texts, MaxGiven,                                         \* of the options
  Tokens, MaxLen                                           \* of the start

VARIABLES
  part,
  hookOptions, built, installed, envShell, configShell, configuredShell, supervisorActive, hook, calls,
  options, dynamic, given, secret, resolved, review,
  command, rewritten, checks

H == INSTANCE HostIntegration WITH options <- hookOptions, Supervisor <- SupervisorShell
C == INSTANCE PluginConfig
D == INSTANCE DetachedStart WITH written <- rewritten

ASSUME PartAssumption == H!HostAssumption /\ C!ConfigAssumption /\ D!StartAssumption

hooks == <<hookOptions, built, installed, envShell, configShell, configuredShell, supervisorActive, hook, calls>>
fields == <<options, dynamic, given, secret, resolved, review>>
start == <<command, rewritten, checks>>

SupervisorRests ==
  /\ pc = "gone" /\ open = {} /\ reclosed = FALSE /\ killOnClose = FALSE /\ inJob = FALSE
  /\ bash = "none" /\ child = "none" /\ holds = {} /\ code = None
  /\ buffer = [p \in Pipes |-> 0] /\ relay = [p \in Pipes |-> "none"] /\ carry = [p \in Pipes |-> 0]
  /\ written = [p \in Pipes |-> 0] /\ delivered = [p \in Pipes |-> 0]
  /\ reader = FALSE /\ lost = {} /\ released = FALSE /\ drain = "none" /\ exit = None

HooksRest ==
  /\ hookOptions = <<>> /\ built = FALSE /\ installed = {} /\ envShell = "" /\ configShell = ""
  /\ configuredShell = "" /\ supervisorActive = FALSE /\ hook = "rest" /\ calls = <<>>

OptionsRest == options = <<>> /\ dynamic = <<>> /\ given = 0 /\ secret = "" /\ resolved = <<>> /\ review = "rest"

StartRests == command = <<>> /\ rewritten = <<>> /\ checks = 0

UnionInit ==
  \/ part = "supervisor" /\ Init   /\ HooksRest /\ OptionsRest /\ StartRests
  \/ part = "hooks"      /\ H!Init /\ SupervisorRests /\ OptionsRest /\ StartRests
  \/ part = "options"    /\ C!Init /\ SupervisorRests /\ HooksRest /\ StartRests
  \/ part = "start"      /\ D!Init /\ SupervisorRests /\ HooksRest /\ OptionsRest

UnionNext ==
  \/ part = "supervisor" /\ Next   /\ UNCHANGED <<part, hooks, fields, start>>
  \/ part = "hooks"      /\ H!Next /\ UNCHANGED <<part, vars, fields, start>>
  \/ part = "options"    /\ C!Next /\ UNCHANGED <<part, vars, hooks, start>>
  \/ part = "start"      /\ D!Next /\ UNCHANGED <<part, vars, hooks, fields>>

\* A step of the supervisor.
Alone(A) == A /\ UNCHANGED <<part, hooks, fields, start>>

\* The fairness is that of Supervisor, which has ended where it rests.
UnionFairSpec ==
  /\ UnionInit /\ [][UnionNext]_<<part, vars, hooks, fields, start>>
  /\ WF_vars(Alone(GoesOn))

-----------------------------------------------------------------------------
(* Properties of the parts; those of Supervisor are checked as they are *)

\* However often the config hook runs, the shell that shell.env gives is not the
\* supervisor itself, and the supervisor is never in place without the shell it is to
\* run (README.md:297, index.ts:391-411).
RealBashIsAShell == part = "hooks" => H!RealBashIsAShell /\ H!SupervisorIsFed

\* While no option names another shell, a command runs in the shell whose dialect it was
\* classified in, whether the supervisor came in between or not (index.ts:448-455,
\* shell-dialect.ts:28-41).
RunsAsClassified == part = "hooks" => H!RunsAsClassified

\* A detached start that was let through is isolated or runs under the supervisor, also
\* if the config hook was still waiting when it was checked (index.ts:379-384).
StartHoldsNoPipe == part = "hooks" => H!StartHoldsNoPipe

\* What config.ts takes for a configuration of the auditor is taken by all that follows;
\* a number the user set is the one the auditor works with; nobody reads outside the
\* worktree unless a valid block says so (config.ts:131-159, 333-365, 461).
ConfigIsKept == part = "options" => C!AvailableIsUsable /\ C!NumbersAreTheUsers /\ C!FullReadIsGranted

\* The rewriting leaves the shell the commands that were classified; where the start is
\* clear it also joins them as before, takes the output of the start alone out of the
\* pipe, and is done with after the first time (README.md:28, classifier.ts:3809-3831).
MeaningKept == part = "start" => D!MeaningKept /\ D!CommandsKept /\ D!StartIsDetached
=============================================================================

---------------------------- MODULE PluginConfig ----------------------------
(***************************************************************************)
(* resolvePluginConfig (src/src/config.ts) and what its result has to get  *)
(* through before the auditor works with it: reviewCommandWithAuditor and  *)
(* reviewerEnvironment (reviewer.ts), the spawn, and _load_config of       *)
(* auditor.py, which each check the same values again and in another       *)
(* language.                                                               *)
(*                                                                         *)
(* A value is the class of values the checks tell apart; numbers are       *)
(* numbers.                                                                *)
(***************************************************************************)
EXTENDS Integers, FiniteSets

CONSTANTS
  Texts,         \* the texts a model, a key or the name of a program may be
  MaxGiven       \* bound on the options that are not left as they were

ConfigAssumption ==
  /\ Texts \subseteq {"plain", "blank", "jsblank", "pyblank", "nul"}
  /\ MaxGiven \in Nat

\* A number that is left out, and a value that is no integer.
NotGiven   == -2
NotInteger == -1

TopValues ==
  [unknown |-> {"given"}, shell |-> {"wrong", "text"}, securityEnabled |-> {"wrong", "false"},
   hardTimeoutMs |-> {"wrong", "negative", "zero", "number"}, detachedStartIsolation |-> {"wrong", "false"},
   supervisorEnabled |-> {"wrong", "false", "true"}, supervisorPath |-> {"wrong", "text"},
   strictness |-> {"wrong", "LOOSE", "HARD"}, failPolicy |-> {"wrong", "fail_ask", "fail_open", "fail_close"},
   reviewCommand |-> {"wrong", "function"}, dynamicReview |-> {"wrong", "absent"}]

DynamicValues ==
  [unknown |-> {"given"},
   baseURL |-> {"absent", "blank", "control", "no URL", "ftp", "http", "loopback", "https", "userinfo", "fragment"},
   model |-> Texts \cup {"absent", "long"}, apiKey |-> Texts \cup {"absent", "wrong", "newline"},
   apiKeyEnv |-> {"wrong", "bad name", "unset", "variable"},
   timeoutMs |-> {NotInteger, 0, 1, 120000, 120001}, maxRounds |-> {NotInteger} \cup 0..6,
   allowFullReadAccess |-> {"wrong", "true", "false"},
   pythonPath |-> Texts \cup {"path", "no file"}, auditorPath |-> {"blank", "path", "no file"}]

VARIABLES
  options,       \* the options of the plugin, top level
  dynamic,       \* the fields of the dynamicReview block
  given,         \* how many of them were set
  secret,        \* what the environment variable named by apiKeyEnv holds
  resolved,      \* the resolved configuration
  review         \* where a review ends that is started with it

vars == <<options, dynamic, given, secret, resolved, review>>

-----------------------------------------------------------------------------
(* config.ts *)

JsBlank(text) == text \in {"blank", "jsblank"}
PyBlank(text) == text \in {"blank", "pyblank"}

InRange(n, low, high) == low <= n /\ n <= high

Rejects(raw, low, high) == raw # NotGiven /\ ~InRange(raw, low, high)

ResolveTimeoutMs(raw) == IF raw = NotGiven \/ Rejects(raw, 1, 120000) THEN 30000 ELSE raw

DefaultRounds(strictness) == IF strictness = "LOOSE" THEN 1 ELSE 2
RoundsLimit_default(strictness) == IF strictness = "HARD" THEN 3 ELSE 5
RoundsLimit(strictness) == IF strictness = "LOOSE" THEN 3 ELSE 5

ResolveMaxRounds(raw, strictness) ==
  IF raw = NotGiven \/ Rejects(raw, 1, RoundsLimit(strictness)) THEN DefaultRounds(strictness) ELSE raw

EndpointFails(url) == url \notin {"https", "loopback"}

ModelFails(text) == text \in {"absent", "long"} \/ JsBlank(text)

\* Exactly one of apiKey and apiKeyEnv, and a key that fits into a header line.
Key(d) == IF d.apiKey # "absent" THEN d.apiKey ELSE secret
KeyFails(d) ==
  \/ (d.apiKey # "absent") = (d.apiKeyEnv # "absent")
  \/ d.apiKeyEnv \notin {"absent", "variable"}
  \/ Key(d) \in {"wrong", "newline", "nul"} \/ JsBlank(Key(d))

\* A bare name is left to the PATH, anything else is a regular file there is.
PathFails(text) == text = "no file" \/ JsBlank(text)

DynamicFails(d, strictness) ==
  \/ d.unknown # "absent"
  \/ EndpointFails(d.baseURL) \/ ModelFails(d.model) \/ KeyFails(d)
  \/ Rejects(d.timeoutMs, 1, 120000) \/ Rejects(d.maxRounds, 1, RoundsLimit(strictness))
  \/ PathFails(d.auditorPath) \/ PathFails(d.pythonPath)
  \/ d.allowFullReadAccess = "wrong"

\* Nothing of a block that is missing, no object, or with an unknown field is used;
\* one that fails otherwise keeps its numbers.
ResolveDynamicReview(d, strictness) ==
  LET read == options.dynamicReview = "object" /\ d.unknown = "absent"
      available == read /\ ~DynamicFails(d, strictness)
  IN  [available |-> available,
       timeoutMs |-> IF read THEN ResolveTimeoutMs(d.timeoutMs) ELSE 30000,
       maxRounds |-> IF read THEN ResolveMaxRounds(d.maxRounds, strictness) ELSE DefaultRounds(strictness),
       fullRead  |-> available /\ d.allowFullReadAccess = "true"]

TopLevelThrows ==
  \/ options.unknown # "absent"
  \/ \E field \in DOMAIN options \ {"dynamicReview"} : options[field] = "wrong"
  \/ options.hardTimeoutMs = "negative"

Or(value, default) == IF value = "absent" THEN default ELSE value

Strictness == Or(options.strictness, "LOOSE")

\* A command given by the host replaces the auditor and needs no block; the policy and
\* the access are set over whatever the caller passes.
Reviewer(block) ==
  IF options.reviewCommand = "function" THEN "custom" ELSE IF block.available THEN "auditor" ELSE "none"

ResolvePluginConfig ==
  IF TopLevelThrows THEN [threw |-> TRUE]
  ELSE LET block == ResolveDynamicReview(dynamic, Strictness)
       IN  [threw |-> FALSE, strictness |-> Strictness, failPolicy |-> Or(options.failPolicy, "fail_open"),
            dynamic |-> block, reviewer |-> Reviewer(block)]

-----------------------------------------------------------------------------
(* The way of the configuration to the auditor *)

\* reviewCommandWithAuditor: what config.ts trimmed is not empty, the rounds fit.
ReviewerRefuses(config) == ~InRange(config.dynamic.maxRounds, 1, IF config.strictness = "LOOSE" THEN 3 ELSE 5)

\* The environment and the arguments of a process take no NUL.
SpawnThrows == "nul" \in {dynamic.model, dynamic.pythonPath, Key(dynamic)}

\* _load_config: strip() and int(), with the limits of the policy it is given.
AuditorRefuses(config) ==
  \/ PyBlank(dynamic.model) \/ PyBlank(Key(dynamic))
  \/ ~InRange(config.dynamic.maxRounds, 1, IF config.strictness = "HARD" THEN 5 ELSE 3)

ReviewEnds(config) ==
  CASE config.reviewer = "none"   -> "not configured"
    [] config.reviewer = "custom" -> "custom"
    [] OTHER -> IF ReviewerRefuses(config) THEN "refused"
                ELSE IF SpawnThrows THEN "spawn"
                ELSE IF AuditorRefuses(config) THEN "exit 3" ELSE "asked"

-----------------------------------------------------------------------------
Absent(fields) == [f \in fields |-> "absent"]

\* A block that works.
Block == [[f \in DOMAIN DynamicValues |-> "absent"] EXCEPT
            !.baseURL = "https", !.model = "plain", !.apiKey = "plain", !.timeoutMs = NotGiven, !.maxRounds = NotGiven,
            !.pythonPath = "bare", !.auditorPath = "bundled"]

Pending == [threw |-> FALSE]

Init ==
  /\ options = [f \in DOMAIN TopValues |-> IF f = "dynamicReview" THEN "object" ELSE "absent"]
  /\ dynamic = Block /\ given = 0 /\ secret \in Texts \cup {"newline"}
  /\ resolved = Pending /\ review = "none"

Unresolved == resolved = Pending /\ given < MaxGiven /\ given' = given + 1 /\ UNCHANGED <<secret, resolved, review>>

GiveOption ==
  /\ Unresolved /\ UNCHANGED dynamic
  /\ \E f \in DOMAIN options : \E v \in TopValues[f] : options' = [options EXCEPT ![f] = v]

GiveField ==
  /\ Unresolved /\ UNCHANGED options
  /\ \E f \in DOMAIN dynamic : \E v \in DynamicValues[f] : dynamic' = [dynamic EXCEPT ![f] = v]

Load ==
  /\ resolved = Pending /\ resolved' = ResolvePluginConfig
  /\ UNCHANGED <<options, dynamic, given, secret, review>>

Review ==
  /\ ~resolved.threw /\ resolved # Pending /\ review = "none"
  /\ review' = ReviewEnds(resolved)
  /\ UNCHANGED <<options, dynamic, given, secret, resolved>>

Next == GiveOption \/ GiveField \/ Load \/ Review

Spec == Init /\ [][Next]_vars

-----------------------------------------------------------------------------
(* Properties *)

\* "Missing or invalid dynamic configuration makes the reviewer unavailable"
\* (README.md:178): what config.ts takes for a configuration of the auditor, the
\* reviewer, the operating system and the auditor take as well (config.ts:333-345,
\* reviewer.ts:433-451, auditor.py:194-227).
AvailableIsUsable ==
  (resolved # Pending /\ ~resolved.threw /\ resolved.reviewer = "auditor") => review \in {"none", "asked"}

\* A number the user set is the one the auditor works with, or the reviewer is
\* unavailable: none is replaced by a default in silence (config.ts:131-159, 333-345).
NumbersAreTheUsers ==
  review = "asked" =>
    /\ dynamic.maxRounds # NotGiven => resolved.dynamic.maxRounds = dynamic.maxRounds
    /\ dynamic.timeoutMs # NotGiven => resolved.dynamic.timeoutMs = dynamic.timeoutMs

\* No reviewer, the host's own included, reads outside the worktree unless the user
\* said so in a block of which everything is valid (config.ts:346-365, 461).
FullReadIsGranted ==
  (resolved # Pending /\ ~resolved.threw /\ resolved.dynamic.fullRead) =>
    /\ options.dynamicReview = "object" /\ dynamic.allowFullReadAccess = "true"
    /\ ~DynamicFails(dynamic, resolved.strictness)
=============================================================================

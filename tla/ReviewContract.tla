---------------------------- MODULE ReviewContract ----------------------------
(***************************************************************************)
(* The data that crosses the three programs of a dynamic review: what the  *)
(* hook sends, what auditor.py takes, what the model replies, and what     *)
(* auditor.py, reviewer.ts and the hook in turn make of the reply; then    *)
(* what the hook records of it for the next review of the session.         *)
(* A text is the class of strings the three programs tell apart.           *)
(***************************************************************************)
EXTENDS Naturals, FiniteSets

CONSTANTS
  Policy,      \* resolved.strictness
  FailPolicy,  \* resolved.failPolicy
  Commands,    \* texts of the commands: "plain", and "" for a blank one
  Utf8Child    \* whether the child's standard output takes any character

ASSUME PolicyAssumption ==
  /\ Policy \in {"LOOSE", "HARD"} /\ FailPolicy \in {"fail_open", "fail_close", "fail_ask"}
  /\ "plain" \in Commands /\ Commands \subseteq {"plain", ""} /\ Utf8Child \in BOOLEAN

VARIABLES
  stage,     \* how far the review is; "idle" between reviews
  rejected,  \* lastRejected, as a set of at most one record
  failed,    \* lastFailed, likewise
  context,   \* previousRejectedCommand and previousFailedCommand of the request
  reply,     \* what the model said
  answer,    \* the reply as the program at this stage holds it
  outcome    \* what became of the last command

vars == <<stage, rejected, failed, context, reply, answer, outcome>>
session == <<rejected, failed>>

-----------------------------------------------------------------------------
(* Texts *)

\* "" is empty, "blank" is blank; "bom" (U+FEFF) is blank to JavaScript only and
\* "ctrl" (U+001C) to Python only; "wide" is outside a legacy code page; "pair"
\* has a surrogate pair across the cut and "torn" is half of one.
Texts == {"", "blank", "bom", "ctrl", "plain", "wide", "pair", "torn"}

\* str.strip() and String.prototype.trim() leave nothing.
PyBlank(t) == t \in {"", "blank", "ctrl"}
JsBlank(t) == t \in {"", "blank", "bom"}

\* slice cuts by UTF-16 units.
Slice(t) == IF t = "pair" THEN "torn" ELSE t

\* What json.dumps(..., ensure_ascii=False) can be written as.
Encodes(t) == t # "torn"
Prints(t) == Encodes(t) /\ (t = "wide" => Utf8Child)

-----------------------------------------------------------------------------
(* Replies *)

Expected == {"decision", "reason"} \cup (IF Policy = "HARD" THEN {"bypassing"} ELSE {})

\* A reply that is no JSON, one with a key twice, or an object; any decision; a
\* reason or a flag of another type is "odd".
Replies ==
  [shape : {"text", "twice", "object"},
   fields : {{"decision", "reason"}, {"decision", "reason", "bypassing"},
             {"decision", "reason", "bypassing", "more"}},
   decision : {"ALLOW", "DENY", "allow", "deny", "ALLOWED"},
   reason : Texts \cup {"odd"},
   bypassing : {"true", "false", "odd"}]
NoReply == [shape |-> "none"]

Upper_prefix(decision) == IF decision \in {"ALLOW", "allow", "ALLOWED"} THEN "ALLOW"
                          ELSE IF decision \in {"DENY", "deny"} THEN "DENY" ELSE decision

\* str.upper
Upper(decision) == CASE decision = "allow" -> "ALLOW" [] decision = "deny" -> "DENY"
                     [] OTHER -> decision

\* The reason a checker lets through with a decision, given whether it finds that blank.
Fits(decision, reason, blank) ==
  reason # "odd" /\ IF decision = "ALLOW" THEN reason = "" ELSE ~blank

\* _parse_strict_json and _validated_result
Sound(r) ==
  /\ r.shape = "object" /\ r.fields = Expected
  /\ Upper(r.decision) \in {"ALLOW", "DENY"}
  /\ Fits(Upper(r.decision), r.reason, PyBlank(r.reason))
  /\ Policy = "HARD" => /\ r.bypassing # "odd"
                        /\ Upper(r.decision) = "ALLOW" => r.bypassing = "false"

Printed_raw(r) == r

\* The object _validated_result builds and main prints: decision in capitals,
\* reason in one line and at most 80 code points.
Printed(r) == [r EXCEPT !.decision = Upper(@)]

\* parseReviewResult
Parses(r) ==
  /\ r.shape = "object" /\ r.fields = Expected
  /\ r.decision \in {"ALLOW", "DENY"}
  /\ Fits(r.decision, r.reason, JsBlank(r.reason))
  /\ Policy = "HARD" => r.bypassing # "odd"

\* The result it returns: reason in one line and at most 80 UTF-16 units.
Result(r) == [r EXCEPT !.reason = Slice(@)]

\* isValidReviewResult
Valid(r) ==
  /\ r.fields = Expected /\ r.decision \in {"ALLOW", "DENY"} /\ r.reason # "odd"
  /\ Policy = "HARD" => r.bypassing # "odd"

-----------------------------------------------------------------------------
(* Records of earlier commands *)

Rejection == [command : Commands, reason : Texts]
Failure == [command : Commands, outputTail : Texts]

\* _validate_previous_rejected and _validate_previous_failed
TakesRejection(r) == ~PyBlank(r.command) /\ ~PyBlank(r.reason)
TakesFailure(f) == ~PyBlank(f.command)

\* _build_system_prompt puts the records into the payload of _post_chat.
Sendable ==
  /\ \A r \in context.rejected : Encodes(r.reason)
  /\ \A f \in context.failed : Encodes(f.outputTail)

\* recordRejection: LOOSE keeps none.
Recorded(old, command, reason) ==
  IF Policy = "HARD" THEN {[command |-> command, reason |-> reason]} ELSE old

-----------------------------------------------------------------------------
Init ==
  /\ stage = "idle" /\ rejected = {} /\ failed = {}
  /\ context = [rejected |-> {}, failed |-> {}]
  /\ reply = NoReply /\ answer = NoReply /\ outcome = "none"

\* A static DENY, or a blank command: recorded, not reviewed.
StaticDeny ==
  /\ stage = "idle"
  /\ \E command \in Commands : rejected' = Recorded(rejected, command, "plain")
  /\ UNCHANGED <<stage, failed, context, reply, answer, outcome>>

\* tool.execute.after with a non-zero exit; sanitizeOutputTail cuts the output.
CommandFails ==
  /\ stage = "idle" /\ Policy = "HARD"
  /\ \E output \in {"", "plain", "wide", "pair"} :
       failed' = {[command |-> "plain", outputTail |-> Slice(output)]}
  /\ UNCHANGED <<stage, rejected, context, reply, answer, outcome>>

\* The request takes the failure in charge; lastFailed is not attached again.
SendRequest ==
  /\ stage = "idle"
  /\ stage' = "sent"
  /\ context' = [rejected |-> rejected, failed |-> failed]
  /\ failed' = {}
  /\ reply' = NoReply /\ answer' = NoReply /\ outcome' = "none"
  /\ UNCHANGED rejected

Fails(why) == stage' = why /\ UNCHANGED <<session, context, reply, answer, outcome>>

\* The request is over MAX_REVIEW_INPUT_BYTES, or the review never gets going.
RequestFails == stage = "sent" /\ Fails("failed")

AuditorReads ==
  /\ stage = "sent"
  /\ IF /\ \A r \in context.rejected : TakesRejection(r)
        /\ \A f \in context.failed : TakesFailure(f)
       THEN stage' = "read"
       ELSE stage' = "refused"
  /\ UNCHANGED <<session, context, reply, answer, outcome>>

AuditorAsks ==
  /\ stage = "read"
  /\ stage' = IF Sendable THEN "asked" ELSE "refused"
  /\ UNCHANGED <<session, context, reply, answer, outcome>>

\* The endpoint fails, or time runs out.
AuditorFails == stage = "asked" /\ Fails("failed")

ModelReplies ==
  /\ stage = "asked" /\ stage' = "replied"
  /\ reply' \in Replies /\ answer' = reply'
  /\ UNCHANGED <<session, context, outcome>>

Validate ==
  /\ stage = "replied"
  /\ IF Sound(answer) /\ Prints(answer.reason)
       THEN stage' = "printed" /\ answer' = Printed(answer)
       ELSE stage' = "failed" /\ UNCHANGED answer
  /\ UNCHANGED <<session, context, reply, outcome>>

Parse ==
  /\ stage = "printed"
  /\ IF Parses(answer)
       THEN stage' = "parsed" /\ answer' = Result(answer)
       ELSE stage' = "failed" /\ UNCHANGED answer
  /\ UNCHANGED <<session, context, reply, outcome>>

Bypassing == Policy = "HARD" /\ answer.bypassing = "true"

\* The hook's part after the await of the review. No other call of the session
\* is under way here: the rejection an ALLOW clears is the one it was sent.
Decide ==
  /\ stage = "parsed"
  /\ IF ~Valid(answer)
       THEN stage' = "failed" /\ UNCHANGED <<rejected, outcome>>
       ELSE /\ stage' = "idle"
            /\ IF Bypassing \/ answer.decision = "DENY"
                 THEN /\ rejected' = Recorded(rejected, "plain",
                           IF answer.decision = "DENY" THEN answer.reason ELSE "plain")
                      /\ outcome' = "blocked"
                 ELSE rejected' = {} /\ outcome' = "allowed"
  /\ UNCHANGED <<failed, context, reply, answer>>

FailureRecord_none(text) == rejected

FailureRecord(text) == Recorded(rejected, "plain", text)

\* The fail policy; the message quotes at most 500 units of what went wrong.
FailPolicyActs ==
  /\ stage \in {"failed", "refused"} /\ stage' = "idle"
  /\ IF FailPolicy = "fail_open"
       THEN outcome' = "open" /\ UNCHANGED rejected
       ELSE /\ outcome' = "policy"
            /\ \E text \in (IF stage = "refused" THEN {"plain"} ELSE {"plain", "pair"}) :
                 rejected' = FailureRecord(Slice(text))
  /\ UNCHANGED <<failed, context, reply, answer>>

Next == \/ StaticDeny \/ CommandFails \/ SendRequest \/ RequestFails \/ AuditorReads
        \/ AuditorAsks \/ AuditorFails \/ ModelReplies \/ Validate \/ Parse \/ Decide
        \/ FailPolicyActs

Spec == Init /\ [][Next]_vars

-----------------------------------------------------------------------------
(* Properties *)

\* The three checkers agree: what auditor.py prints reviewer.ts parses, but for a
\* reason only JavaScript finds blank, and what it parses the hook takes.
CheckersAgree ==
  /\ stage = "printed" /\ answer.reason # "bom" => Parses(answer)
  /\ stage = "parsed" => Valid(answer)

\* Nothing but a plain ALLOW of the model comes out of the chain as one: whole,
\* without a reason, and under HARD with no bypass.
AllowIsUnturned ==
  outcome = "allowed" =>
    /\ reply.shape = "object" /\ reply.fields = Expected
    /\ reply.decision \in {"ALLOW", "allow"} /\ reply.reason = ""
    /\ Policy = "HARD" => reply.bypassing = "false"

\* A denial never gets lost in the chain: a DENY with a reason all of them can
\* read and write is what the hook blocks with.
DenialStands ==
  stage = "idle" /\ outcome \in {"open", "policy"} /\ reply # NoReply =>
    ~ /\ reply.shape = "object" /\ reply.fields = Expected
      /\ reply.decision \in {"DENY", "deny"} /\ reply.reason # "odd"
      /\ ~PyBlank(reply.reason) /\ ~JsBlank(reply.reason) /\ Prints(reply.reason)
      /\ reply.bypassing # "odd"

\* The verdict of the model, whichever it is, is the verdict the hook acts on.
VerdictStands == AllowIsUnturned /\ DenialStands

\* What a review or the fail policy records the next auditor reads.
RecordsAreReadable ==
  \A r \in rejected : r.command = "plain" => TakesRejection(r)

\* Under fail_close and fail_ask a record the auditor does not take costs one
\* review: none of it is attached to the next.
BadContextHeals ==
  [][stage = "refused" /\ stage' = "idle" =>
       \A r \in rejected' : TakesRejection(r) /\ Encodes(r.reason)]_vars

\* A record is taken by the next auditor, or costs one review.
ContextHeals == []RecordsAreReadable /\ BadContextHeals

\* The context of an earlier command gets to the model (src/README.md, "Rejection /
\* failure escalation").
ContextReachesModel == stage # "refused"

TypeOK ==
  /\ stage \in {"idle", "sent", "read", "refused", "asked", "replied", "printed",
                "parsed", "failed"}
  /\ rejected \subseteq Rejection /\ Cardinality(rejected) <= 1
  /\ failed \subseteq Failure /\ Cardinality(failed) <= 1
  /\ context.rejected \subseteq Rejection /\ context.failed \subseteq Failure
  /\ reply \in Replies \cup {NoReply} /\ answer \in Replies \cup {NoReply}
  /\ outcome \in {"none", "allowed", "blocked", "open", "policy"}
=============================================================================

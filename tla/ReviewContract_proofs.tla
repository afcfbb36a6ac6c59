------------------------- MODULE ReviewContract_proofs -------------------------
(***************************************************************************)
(* What a review's reply and its records keep on their way through the     *)
(* three programs, for any policy, any commands and any console: the       *)
(* types, CheckersAgree, AllowIsUnturned, DenialStands, RecordsAreReadable *)
(* and BadContextHeals.                                                    *)
(***************************************************************************)
EXTENDS ReviewContract, FiniteSetTheorems, TLAPS


-----------------------------------------------------------------------------
(* The inductive invariant *)

\* Before the model replies there is no reply; after it the program at each stage
\* holds what the one before made of it.
Chain ==
  /\ stage \in {"sent", "read", "asked", "refused"} => reply = NoReply
  /\ stage \in {"replied", "printed", "parsed"} => reply \in Replies
  /\ stage = "replied" => answer = reply
  /\ stage \in {"printed", "parsed"} => Sound(reply)
  /\ stage = "printed" => answer = Printed(reply)
  /\ stage = "parsed" => Parses(Printed(reply)) /\ answer = Result(Printed(reply))

\* The outcome is that of the last command that went through.
Outcomes ==
  /\ stage # "idle" => outcome = "none"
  /\ AllowIsUnturned

\* A reply that denies with a reason every program can read and write.
Denial(r) ==
  /\ r.shape = "object" /\ r.fields = Expected
  /\ r.decision \in {"DENY", "deny"} /\ r.reason # "odd"
  /\ ~PyBlank(r.reason) /\ ~JsBlank(r.reason) /\ Prints(r.reason)
  /\ r.bypassing # "odd"

\* A review that failed was not such a denial.
Denials ==
  /\ stage = "failed" /\ reply # NoReply => ~Denial(reply)
  /\ stage = "idle" /\ outcome \in {"open", "policy"} /\ reply # NoReply => ~Denial(reply)

Records ==
  /\ RecordsAreReadable
  /\ Policy = "LOOSE" => rejected = {}

Whole == TypeOK /\ Chain /\ Outcomes /\ Denials /\ Records

-----------------------------------------------------------------------------
(* The operators *)

LEMMA SliceType ==
  \A t \in Texts : /\ Slice(t) \in Texts /\ (PyBlank(Slice(t)) <=> PyBlank(t))
                   /\ (JsBlank(Slice(t)) <=> JsBlank(t))
  BY DEF Slice, Texts, PyBlank, JsBlank

LEMMA UpperType ==
  \A d \in {"ALLOW", "DENY", "allow", "deny", "ALLOWED"} :
    /\ Upper(d) \in {"ALLOW", "DENY", "ALLOWED"}
    /\ Upper(d) = "ALLOW" <=> d \in {"ALLOW", "allow"}
    /\ Upper(d) = "DENY" <=> d \in {"DENY", "deny"}
  BY DEF Upper

LEMMA PrintedType ==
  ASSUME NEW r \in Replies
  PROVE  /\ Printed(r) \in Replies
         /\ Printed(r).shape = r.shape /\ Printed(r).fields = r.fields
         /\ Printed(r).decision = Upper(r.decision)
         /\ Printed(r).reason = r.reason /\ Printed(r).bypassing = r.bypassing
  BY UpperType DEF Printed, Replies

LEMMA ResultType ==
  ASSUME NEW r \in Replies, r.reason # "odd"
  PROVE  /\ Result(r) \in Replies
         /\ Result(r).shape = r.shape /\ Result(r).fields = r.fields
         /\ Result(r).decision = r.decision
         /\ Result(r).reason = Slice(r.reason) /\ Result(r).bypassing = r.bypassing
         /\ Result(r).reason \in Texts
  BY SliceType DEF Result, Replies

LEMMA NoReplyIsNone == NoReply \notin Replies
  BY DEF NoReply, Replies

LEMMA SmallSet ==
  ASSUME NEW S, S = {} \/ \E x : S = {x}
  PROVE  Cardinality(S) <= 1
<1>1. CASE S = {}
  <2>1. Cardinality(S) = 0
    BY <1>1, FS_EmptySet, Zenon
  <2>2. 0 <= 1
    OBVIOUS
  <2> QED
    BY <2>1, <2>2, Zenon
<1>2. CASE \E x : S = {x}
  <2>1. Cardinality(S) = 1
    BY <1>2, FS_Singleton, Zenon
  <2>2. 1 <= 1
    OBVIOUS
  <2> QED
    BY <2>1, <2>2, Zenon
<1> QED
  BY <1>1, <1>2

\* One record replaces the other, and under LOOSE there is none.
LEMMA RecordedType ==
  ASSUME NEW old \in SUBSET Rejection, Cardinality(old) <= 1,
         NEW command \in Commands, NEW reason \in Texts
  PROVE  /\ Recorded(old, command, reason) \subseteq Rejection
         /\ Cardinality(Recorded(old, command, reason)) <= 1
         /\ Policy = "LOOSE" => Recorded(old, command, reason) = old
         /\ \A r \in Recorded(old, command, reason) :
              r \in old \/ r = [command |-> command, reason |-> reason]
<1>1. CASE Policy = "HARD"
  <2>1. Recorded(old, command, reason) = {[command |-> command, reason |-> reason]}
    BY <1>1 DEF Recorded
  <2>2. Cardinality(Recorded(old, command, reason)) <= 1
    BY <2>1, SmallSet, Zenon
  <2> QED
    BY <1>1, <2>1, <2>2 DEF Rejection
<1>2. CASE Policy # "HARD"
  BY <1>2 DEF Recorded
<1> QED
  BY <1>1, <1>2

\* What is recorded with a reason that is not blank the auditor takes.
LEMMA RecordedReadable ==
  ASSUME RecordsAreReadable, NEW command, NEW reason, ~PyBlank(reason),
         \A r \in rejected' : r \in rejected \/ r = [command |-> command, reason |-> reason]
  PROVE  RecordsAreReadable'
<1> SUFFICES ASSUME NEW r \in rejected', r.command = "plain"
             PROVE  TakesRejection(r)
  BY DEF RecordsAreReadable, TakesRejection
<1>1. CASE r \in rejected
  BY <1>1 DEF RecordsAreReadable
<1>2. CASE r = [command |-> command, reason |-> reason]
  <2>1. r.reason = reason
    BY <1>2
  <2>2. ~PyBlank(r.command)
    BY DEF PyBlank
  <2> QED
    BY <2>1, <2>2 DEF TakesRejection
<1> QED
  BY <1>1, <1>2

-----------------------------------------------------------------------------
(* The checkers *)

\* What auditor.py finds sound and prints, reviewer.ts takes, unless JavaScript
\* alone finds its reason blank.
LEMMA SoundParses ==
  ASSUME NEW r \in Replies, Sound(r), r.reason # "bom"
  PROVE  Parses(Printed(r))
  BY PrintedType DEF Sound, Parses, Fits, PyBlank, JsBlank

\* What it returns of that, the hook takes.
LEMMA ParsesValid ==
  ASSUME NEW r \in Replies, Parses(r)
  PROVE  Valid(Result(r)) /\ r.reason # "odd"
<1>1. r.reason # "odd"
  BY DEF Parses, Fits
<1> QED
  BY <1>1, ResultType DEF Parses, Valid, Texts

\* A denial every program can read and write passes all three.
LEMMA DenialPasses ==
  ASSUME NEW r \in Replies, Denial(r)
  PROVE  Sound(r) /\ Prints(r.reason) /\ Parses(Printed(r))
<1>1. Upper(r.decision) = "DENY"
  BY DEF Denial, Upper
<1>2. Sound(r)
  BY <1>1 DEF Denial, Sound, Fits
<1>3. r.reason # "bom"
  BY DEF Denial, JsBlank
<1> QED
  BY <1>2, <1>3, SoundParses DEF Denial

-----------------------------------------------------------------------------
(* Preservation *)

LEMMA WholeInit == Init => Whole
<1>1. Cardinality({}) <= 1
  BY SmallSet, Zenon
<1> QED
  BY <1>1, NoReplyIsNone
  DEF Init, Whole, TypeOK, Chain, Outcomes, Denials, Records, AllowIsUnturned, RecordsAreReadable,
      Rejection, Failure, NoReply

LEMMA WholeStep == Whole /\ [Next]_vars => Whole'
<1> SUFFICES ASSUME Whole, [Next]_vars PROVE Whole'
  OBVIOUS
<1>t. /\ rejected \in SUBSET Rejection /\ Cardinality(rejected) <= 1
      /\ failed \subseteq Failure /\ Cardinality(failed) <= 1
      /\ context.rejected \subseteq Rejection /\ context.failed \subseteq Failure
      /\ reply \in Replies \cup {NoReply} /\ answer \in Replies \cup {NoReply}
      /\ outcome \in {"none", "allowed", "blocked", "open", "policy"}
  BY DEF Whole, TypeOK
<1>p. {"plain", "torn"} \subseteq Texts /\ "plain" \in Commands
      /\ ~PyBlank("plain") /\ ~PyBlank("torn")
  BY PolicyAssumption DEF Texts, PyBlank, PolicyAssumption
<1>1. CASE StaticDeny
  <2>1. PICK command \in Commands : rejected' = Recorded(rejected, command, "plain")
    BY <1>1 DEF StaticDeny
  <2>2. /\ rejected' \subseteq Rejection /\ Cardinality(rejected') <= 1
        /\ Policy = "LOOSE" => rejected' = rejected
        /\ \A r \in rejected' : r \in rejected \/ r = [command |-> command, reason |-> "plain"]
    BY <1>t, <1>p, <2>1, RecordedType
  <2>3. RecordsAreReadable'
    BY <1>p, <2>2, RecordedReadable DEF Whole, Records
  <2>4. UNCHANGED <<stage, failed, context, reply, answer, outcome>>
    BY <1>1 DEF StaticDeny
  <2> QED
    BY <2>2, <2>3, <2>4 DEF Whole, TypeOK, Chain, Outcomes, Denials, Records, AllowIsUnturned
<1>2. CASE CommandFails
  <2>1. PICK output \in {"", "plain", "wide", "pair"} :
          failed' = {[command |-> "plain", outputTail |-> Slice(output)]}
    BY <1>2 DEF CommandFails
  <2>2. failed' \subseteq Failure /\ Cardinality(failed') <= 1
    <3>1. Slice(output) \in Texts
      BY SliceType DEF Texts
    <3>2. Cardinality(failed') <= 1
      BY <2>1, SmallSet, Zenon
    <3>3. [command |-> "plain", outputTail |-> Slice(output)] \in Failure
      BY <1>p, <3>1 DEF Failure
    <3> QED
      BY <2>1, <3>2, <3>3, Zenon
  <2>3. UNCHANGED <<stage, rejected, context, reply, answer, outcome>>
    BY <1>2 DEF CommandFails
  <2> QED
    BY <2>2, <2>3 DEF Whole, TypeOK, Chain, Outcomes, Denials, Records, AllowIsUnturned, RecordsAreReadable
<1>3. CASE SendRequest
  <2>1. /\ stage' = "sent" /\ reply' = NoReply /\ answer' = NoReply /\ outcome' = "none"
        /\ failed' = {} /\ UNCHANGED rejected
        /\ context'.rejected = rejected /\ context'.failed = failed
    BY <1>3 DEF SendRequest
  <2>2. Cardinality(failed') <= 1
    BY <2>1, SmallSet, Zenon
  <2> QED
    BY <1>t, <2>1, <2>2
    DEF Whole, TypeOK, Chain, Outcomes, Denials, Records, AllowIsUnturned, RecordsAreReadable
<1>4. CASE RequestFails \/ AuditorReads \/ AuditorAsks \/ AuditorFails
  <2>1. /\ UNCHANGED <<rejected, failed, context, reply, answer, outcome>> /\ reply = NoReply
        /\ stage # "idle" /\ stage' \in {"failed", "read", "refused", "asked"}
    BY <1>4 DEF RequestFails, AuditorReads, AuditorAsks, AuditorFails, Fails, session, Whole, Chain
  <2> QED
    BY <1>t, <2>1 DEF Whole, TypeOK, Chain, Outcomes, Denials, Records, AllowIsUnturned, RecordsAreReadable
<1>5. CASE ModelReplies
  <2>1. /\ UNCHANGED <<rejected, failed, context, outcome>> /\ reply' \in Replies /\ answer' = reply'
        /\ stage = "asked" /\ stage' = "replied"
    BY <1>5 DEF ModelReplies, session
  <2> QED
    BY <1>t, <2>1 DEF Whole, TypeOK, Chain, Outcomes, Denials, Records, AllowIsUnturned, RecordsAreReadable
<1>6. CASE Validate
  <2>1. /\ UNCHANGED <<rejected, failed, context, reply, outcome>> /\ stage = "replied"
        /\ reply \in Replies /\ answer = reply
    BY <1>6 DEF Validate, session, Whole, Chain
  <2>2. CASE Sound(answer) /\ Prints(answer.reason)
    <3>1. stage' = "printed" /\ answer' = Printed(reply) /\ Sound(reply)
      BY <1>6, <2>1, <2>2 DEF Validate
    <3>2. answer' \in Replies
      BY <2>1, <3>1, PrintedType
    <3> QED
      BY <1>t, <2>1, <3>1, <3>2
      DEF Whole, TypeOK, Chain, Outcomes, Denials, Records, AllowIsUnturned, RecordsAreReadable
  <2>3. CASE ~(Sound(answer) /\ Prints(answer.reason))
    <3>1. stage' = "failed" /\ UNCHANGED answer
      BY <1>6, <2>3 DEF Validate
    <3>2. ~Denial(reply)
      BY <2>1, <2>3, DenialPasses
    <3> QED
      BY <1>t, <2>1, <3>1, <3>2
      DEF Whole, TypeOK, Chain, Outcomes, Denials, Records, AllowIsUnturned, RecordsAreReadable
  <2> QED
    BY <2>2, <2>3
<1>7. CASE Parse
  <2>1. /\ UNCHANGED <<rejected, failed, context, reply, outcome>> /\ stage = "printed"
        /\ reply \in Replies /\ answer = Printed(reply) /\ Sound(reply)
    BY <1>7 DEF Parse, session, Whole, Chain
  <2>2. Printed(reply) \in Replies
    BY <2>1, PrintedType
  <2>3. CASE Parses(answer)
    <3>1. stage' = "parsed" /\ answer' = Result(Printed(reply)) /\ Parses(Printed(reply))
      BY <1>7, <2>1, <2>3 DEF Parse
    <3>2. answer' \in Replies
      BY <2>2, <3>1, ParsesValid, ResultType
    <3> QED
      BY <1>t, <2>1, <3>1, <3>2
      DEF Whole, TypeOK, Chain, Outcomes, Denials, Records, AllowIsUnturned, RecordsAreReadable
  <2>4. CASE ~Parses(answer)
    <3>1. stage' = "failed" /\ UNCHANGED answer
      BY <1>7, <2>4 DEF Parse
    <3>2. ~Denial(reply)
      BY <2>1, <2>4, DenialPasses
    <3> QED
      BY <1>t, <2>1, <3>1, <3>2
      DEF Whole, TypeOK, Chain, Outcomes, Denials, Records, AllowIsUnturned, RecordsAreReadable
  <2> QED
    BY <2>3, <2>4
<1>8. CASE Decide
  <2>1. /\ UNCHANGED <<failed, context, reply, answer>> /\ stage = "parsed"
        /\ reply \in Replies /\ Sound(reply) /\ Parses(Printed(reply)) /\ answer = Result(Printed(reply))
    BY <1>8 DEF Decide, Whole, Chain
  <2>2. /\ Printed(reply) \in Replies /\ Printed(reply).reason = reply.reason
        /\ Printed(reply).decision = Upper(reply.decision) /\ reply.reason # "odd"
    BY <2>1, PrintedType, ParsesValid
  <2>3. /\ Valid(answer) /\ answer.decision = Upper(reply.decision) /\ answer.reason = Slice(reply.reason)
        /\ answer.bypassing = reply.bypassing /\ answer.reason \in Texts
    <3>1. Valid(answer) /\ Printed(reply).reason # "odd"
      BY <2>1, <2>2, ParsesValid
    <3>2. /\ answer.decision = Printed(reply).decision /\ answer.reason = Slice(Printed(reply).reason)
          /\ answer.bypassing = Printed(reply).bypassing /\ answer.reason \in Texts
      BY <2>1, <2>2, <3>1, ResultType
    <3>3. Printed(reply).bypassing = reply.bypassing
      BY <2>1, PrintedType
    <3> QED
      BY <2>2, <3>1, <3>2, <3>3
  <2>4. stage' = "idle"
    BY <1>8, <2>3 DEF Decide
  <2>5. CASE Bypassing \/ answer.decision = "DENY"
    <3> DEFINE reason == IF answer.decision = "DENY" THEN answer.reason ELSE "plain"
    <3>1. rejected' = Recorded(rejected, "plain", reason) /\ outcome' = "blocked"
      BY <1>8, <2>3, <2>5 DEF Decide
    <3>2. reason \in Texts
      BY <1>p, <2>3
    <3>3. answer.decision = "DENY" => ~PyBlank(answer.reason)
      <4>1. answer.decision = "DENY" => ~PyBlank(reply.reason)
        BY <2>1, <2>3 DEF Sound, Fits
      <4>2. reply.reason \in Texts
        BY <2>1, <2>2 DEF Replies
      <4> QED
        BY <2>3, <4>1, <4>2, SliceType
    <3>4. ~PyBlank(reason)
      BY <1>p, <3>3
    <3> HIDE DEF reason
    <3>5. /\ rejected' \subseteq Rejection /\ Cardinality(rejected') <= 1
          /\ Policy = "LOOSE" => rejected' = rejected
          /\ \A r \in rejected' : r \in rejected \/ r = [command |-> "plain", reason |-> reason]
      BY <1>t, <1>p, <3>1, <3>2, RecordedType
    <3>6. RecordsAreReadable'
      BY <3>4, <3>5, RecordedReadable DEF Whole, Records
    <3> QED
      BY <1>t, <2>1, <2>4, <3>1, <3>5, <3>6
      DEF Whole, TypeOK, Chain, Outcomes, Denials, Records, AllowIsUnturned
  <2>6. CASE ~(Bypassing \/ answer.decision = "DENY")
    <3>1. rejected' = {} /\ outcome' = "allowed"
      BY <1>8, <2>3, <2>6 DEF Decide
    <3>2. Upper(reply.decision) = "ALLOW" /\ reply.decision \in {"ALLOW", "allow"}
      BY <2>1, <2>3, <2>6, UpperType DEF Valid, Replies
    <3>3. /\ reply.shape = "object" /\ reply.fields = Expected /\ reply.reason = ""
          /\ Policy = "HARD" => reply.bypassing = "false"
      BY <2>1, <3>2 DEF Sound, Fits
    <3>4. AllowIsUnturned'
      BY <2>1, <3>2, <3>3 DEF AllowIsUnturned
    <3>5. Cardinality(rejected') <= 1
      BY <3>1, SmallSet, Zenon
    <3> QED
      BY <1>t, <2>1, <2>4, <3>1, <3>4, <3>5
      DEF Whole, TypeOK, Chain, Outcomes, Denials, Records, RecordsAreReadable
  <2> QED
    BY <2>5, <2>6
<1>9. CASE FailPolicyActs
  <2>1. /\ UNCHANGED <<failed, context, reply, answer>> /\ stage \in {"failed", "refused"} /\ stage' = "idle"
        /\ outcome' \in {"open", "policy"}
    BY <1>9 DEF FailPolicyActs
  <2>2. reply # NoReply => ~Denial(reply)
    BY <2>1 DEF Whole, Denials, Chain
  <2>3. /\ rejected' \subseteq Rejection /\ Cardinality(rejected') <= 1
        /\ Policy = "LOOSE" => rejected' = rejected
        /\ RecordsAreReadable'
    <3>1. CASE UNCHANGED rejected
      BY <1>t, <3>1 DEF Whole, Records, RecordsAreReadable
    <3>2. CASE \E text \in {"plain", "pair"} : rejected' = FailureRecord(Slice(text))
      <4>1. PICK text \in {"plain", "pair"} : rejected' = Recorded(rejected, "plain", Slice(text))
        BY <3>2 DEF FailureRecord
      <4>2. Slice(text) \in {"plain", "torn"}
        BY <4>1 DEF Slice
      <4>3. Slice(text) \in Texts /\ ~PyBlank(Slice(text))
        BY <1>p, <4>2
      <4>4. /\ rejected' \subseteq Rejection /\ Cardinality(rejected') <= 1
            /\ Policy = "LOOSE" => rejected' = rejected
            /\ \A r \in rejected' : r \in rejected \/ r = [command |-> "plain", reason |-> Slice(text)]
        BY <1>t, <1>p, <4>1, <4>3, RecordedType
      <4> QED
        BY <4>3, <4>4, RecordedReadable DEF Whole, Records
    <3> QED
      BY <1>9, <3>1, <3>2 DEF FailPolicyActs
  <2> QED
    BY <1>t, <2>1, <2>2, <2>3 DEF Whole, TypeOK, Chain, Outcomes, Denials, Records, AllowIsUnturned
<1>10. CASE UNCHANGED vars
  BY <1>10 DEF vars, Whole, TypeOK, Chain, Outcomes, Denials, Records, AllowIsUnturned, RecordsAreReadable
<1> QED
  BY <1>1, <1>2, <1>3, <1>4, <1>5, <1>6, <1>7, <1>8, <1>9, <1>10 DEF Next

LEMMA WholeAlways == Spec => []Whole
  BY WholeInit, WholeStep, PTL DEF Spec

-----------------------------------------------------------------------------
(* Theorems *)

\* One rejection and one failure at most, each of a form the request can hold; the
\* reply is one the model may give (index.ts:38-46, auditor.py:250-282).
THEOREM ContractTypes == Spec => []TypeOK
<1>1. Whole => TypeOK
  BY DEF Whole
<1> QED
  BY <1>1, WholeAlways, PTL

\* reviewer.ts parses what auditor.py prints, and the hook takes what that returns,
\* for any policy (auditor.py:909-943, reviewer.ts:269-306, index.ts:245-254).
THEOREM ContractAgrees == Spec => []CheckersAgree
<1>1. Whole => CheckersAgree
  <2> SUFFICES ASSUME Whole PROVE CheckersAgree
    OBVIOUS
  <2>1. stage = "printed" /\ answer.reason # "bom" => Parses(answer)
    BY SoundParses, PrintedType DEF Whole, Chain
  <2>2. stage = "parsed" => Valid(answer)
    BY PrintedType, ParsesValid DEF Whole, Chain
  <2> QED
    BY <2>1, <2>2 DEF CheckersAgree
<1> QED
  BY <1>1, WholeAlways, PTL

\* No step of the chain turns anything into an ALLOW (index.ts:544-592).
THEOREM AllowIsTheModels == Spec => []AllowIsUnturned
<1>1. Whole => AllowIsUnturned
  BY DEF Whole, Outcomes
<1> QED
  BY <1>1, WholeAlways, PTL

\* A denial that every program can read and write is not lost to an error.
THEOREM DenialIsTheHooks == Spec => []DenialStands
<1>1. Whole => DenialStands
  BY DEF Whole, Denials, Denial, DenialStands
<1> QED
  BY <1>1, WholeAlways, PTL

\* The auditor takes every rejection a review or the fail policy leaves.
THEOREM RecordsStayReadable == Spec => []RecordsAreReadable
<1>1. Whole => RecordsAreReadable
  BY DEF Whole, Records
<1> QED
  BY <1>1, WholeAlways, PTL

\* Unless the fail policy is fail_open, a context the auditor refuses is replaced by
\* one it takes (index.ts:599-634).
THEOREM RefusedContextHeals ==
  ASSUME FailPolicy # "fail_open"
  PROVE  Spec => BadContextHeals
<1>1. Whole /\ [Next]_vars =>
        [stage = "refused" /\ stage' = "idle" => \A r \in rejected' : TakesRejection(r) /\ Encodes(r.reason)]_vars
  <2> SUFFICES ASSUME Whole, Next, stage = "refused", stage' = "idle", NEW r \in rejected'
               PROVE  TakesRejection(r) /\ Encodes(r.reason)
    OBVIOUS
  <2>1. FailPolicyActs
    BY DEF Next, StaticDeny, CommandFails, SendRequest, RequestFails, AuditorReads, AuditorAsks, AuditorFails,
           ModelReplies, Validate, Parse, Decide, Fails
  <2>2. rejected' = Recorded(rejected, "plain", "plain")
    BY <2>1 DEF FailPolicyActs, FailureRecord, Slice
  <2>3. r = [command |-> "plain", reason |-> "plain"]
    BY <2>2, PolicyAssumption DEF Recorded, Whole, Records, PolicyAssumption
  <2> QED
    BY <2>3 DEF TakesRejection, Encodes, PyBlank
<1> QED
  BY <1>1, WholeAlways, PTL DEF Spec, BadContextHeals

\* The model's verdict is the hook's, whichever it is (index.ts:544-634).
THEOREM VerdictIsTheModels == Spec => []VerdictStands
  BY AllowIsTheModels, DenialIsTheHooks, PTL DEF VerdictStands

\* Unless the fail policy is fail_open, what is recorded is read by the next auditor or
\* costs one review (index.ts:599-634).
THEOREM ContextIsHealed ==
  ASSUME FailPolicy # "fail_open"
  PROVE  Spec => ContextHeals
  BY RecordsStayReadable, RefusedContextHeals, PTL DEF ContextHeals
=============================================================================

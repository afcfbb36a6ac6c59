------------------------------ MODULE SessionGate ------------------------------
(***************************************************************************)
(* The hooks of the plugin (src/src/index.ts): tool.execute.before and     *)
(* tool.execute.after of the bash tool, the bash_classifier_confirm tool,  *)
(* the session.deleted event and dispose, over the maps of SessionStore.   *)
(*                                                                         *)
(* JavaScript runs one callback at a time: an action is the code between   *)
(* two awaits, and calls interleave only there.  Generation 0 is never     *)
(* issued (++version) and stands for undefined.                            *)
(***************************************************************************)
EXTENDS SessionStore

CONSTANTS
  Nameless,        \* the calls whose hooks get no callID
  Confirms,        \* invocations of the confirm tool
  SessionOf,       \* the session each call and each confirmation comes from
  Blank,           \* the empty script, which Commands may hold
  NormalForm,      \* normalizeCacheKeyScript
  Uninspected,     \* the views with something uninspected or truncated: no cache key
  Strict,          \* strictness = HARD
  FailPolicy,      \* fail_open, fail_close or fail_ask
  HasReviewer,     \* resolved.reviewCommand is set
  PendingTTL,
  MaxTime          \* bound on the clock, for TLC

ASSUME InputAssumption ==
  /\ Nameless \subseteq Calls
  /\ SessionOf \in [Calls \cup Confirms -> Sessions]
  /\ NormalForm \in [Commands -> Commands]
  /\ Uninspected \subseteq Views
  /\ PendingTTL \in Nat \ {0}

ASSUME OptionAssumption ==
  /\ Strict \in BOOLEAN
  /\ FailPolicy \in {"fail_open", "fail_close", "fail_ask"}
  /\ HasReviewer \in BOOLEAN

VARIABLES
  call,         \* the bash calls: where each one is, and its locals
  confirm,      \* the confirmations
  reviewed      \* history: what the reviewer allowed, and when

vars == <<heap, maps, call, confirm, now, reviewed>>

-------------------------------------------------------------------------------
(* Types *)

InFlight == {"classify", "review", "abort", "verify"}
Settled  == {"allowed", "blocked", "thrown", "done"}
Ways     == {"none", "static", "approval", "cache", "review", "open"}

\* rej, fail, view and key are the locals rejectionAtStart, failureAtStart,
\* staticDecision and cacheKey.  via and grant are history: on what ground the
\* call was let through, and the request whose approval it used.
CallState ==
  [pc : {"idle"} \cup InFlight \cup Settled, obj : Objs \cup {NoObj}, cmd : Commands \cup {Blank},
   rej : SUBSET Rejection, fail : SUBSET Failure, view : SUBSET Views, key : SUBSET Keys,
   via : Ways, grant : SUBSET Calls]

\* ask is the request the user was asked about, kept with a recorded answer.
ConfirmState ==
  [pc : {"idle", "asking", "approved", "denied", "done"},
   obj : Objs \cup {NoObj}, ask : SUBSET Request]

\* A review that came back with ALLOW.
Reviewed == [sid : Sessions, cmd : Commands, view : Views, at : Nat]

TypeOK ==
  /\ StoreTypeOK
  /\ call \in [Calls -> CallState]
  /\ confirm \in [Confirms -> ConfirmState]
  /\ reviewed \subseteq Reviewed

\* Addresses something still refers to.
Reachable ==
  {sessions[s] : s \in Sessions} \cup {call[c].obj : c \in Calls}
    \cup {confirm[f].obj : f \in Confirms}

-------------------------------------------------------------------------------
(* What the handlers do to a state object *)

NextGeneration_stuck(st) == [st EXCEPT !.touchedAt = now]

NextGeneration(st) == [st EXCEPT !.version = @ + 1, !.touchedAt = now]

RecordRejection_first(st, cmd) ==
  IF Strict /\ st.rejected = {}
    THEN [NextGeneration(st) EXCEPT !.rejected = {[cmd |-> cmd, gen |-> st.version + 1]}]
    ELSE st

\* recordRejection; rejectStatic is this and a throw.
RecordRejection(st, cmd) ==
  IF Strict
    THEN [NextGeneration(st) EXCEPT !.rejected = {[cmd |-> cmd, gen |-> st.version + 1]}]
    ELSE st

\* The fail_ask block: a rejection, or just a generation, and a request that
\* replaces whatever was pending.
RaiseRequest(st, c) ==
  LET blocked == IF Strict THEN RecordRejection(st, call[c].cmd) ELSE NextGeneration(st)
  IN  [blocked EXCEPT !.pending =
         {[id |-> c, gen |-> blocked.version, cmd |-> call[c].cmd, expiresAt |-> now + PendingTTL]}]

Approves_any(st, c) == st.approved # {}

\* An approval for exactly this command is at hand.
Approves(st, c) == \E a \in st.approved : a.cmd = call[c].cmd

Spend_keeps(st) == [st EXCEPT !.rejected = {r \in @ : \A a \in st.approved : a.gen # r.gen}]

\* Using it takes it away, and the rejection the request was raised with.
Spend(st) ==
  [st EXCEPT !.approved = {},
             !.rejected = {r \in @ : \A a \in st.approved : a.gen # r.gen}]

\* A bash command other than the approved one loses the approval.
Discard(st) == [st EXCEPT !.approved = {}]

RejectionAtStart(st) == IF Strict THEN st.rejected ELSE {}
FailureAtStart(st)   == IF Strict THEN {f \in st.failed : f.by = {}} ELSE {}
Forced_rejection(st) == RejectionAtStart(st) # {}
Forced(st)           == RejectionAtStart(st) # {} \/ FailureAtStart(st) # {}

\* The review of c takes charge of the failure it starts with.
Consume(st, c) ==
  [st EXCEPT !.failed = {IF f \in FailureAtStart(st) THEN [f EXCEPT !.by = {c}] ELSE f : f \in @}]

\* An ALLOW answers the rejection the review was shown, not a newer one.
ClearAnswered(st, c) ==
  [st EXCEPT !.rejected = {r \in @ : \A seen \in call[c].rej : seen.gen # r.gen}]

ClearSucceeded_any(st, c) == [st EXCEPT !.failed = {}]

\* A success clears the failure its own review was shown.
ClearSucceeded(st, c) ==
  [st EXCEPT !.failed = {f \in @ : f.by # {c} \/ c \in Nameless}]

RecordFailure(st) ==
  [NextGeneration(st) EXCEPT !.failed = {[gen |-> st.version + 1, by |-> {}]}]

-------------------------------------------------------------------------------
(* tool.execute.before *)

Mine(c) == heap[call[c].obj]

\* The record of a call: given its command, holding an object, seeing a view of
\* its files, under review, let through, and with its locals out of scope.
At(x, pc)         == [x EXCEPT !.pc = pc]
Given(x, cmd)     == [x EXCEPT !.cmd = cmd]
Started(x, o)     == [x EXCEPT !.pc = "classify", !.obj = o]
Seeing(x, view)   == [x EXCEPT !.view = {view}]
Reviewing(x, rej, fail, key) ==
  [x EXCEPT !.pc = "review", !.rej = rej, !.fail = fail, !.key = key]
LocalsGone(x)     == [x EXCEPT !.rej = {}, !.fail = {}, !.view = {}, !.key = {}]
Over(x)           == [LocalsGone(x) EXCEPT !.obj = NoObj]
Blocked(x)        == At(Over(x), "blocked")
Passing(x, way)   == [LocalsGone(x) EXCEPT !.pc = "verify", !.via = way]
Granted(x, ids)   == [Passing(x, "approval") EXCEPT !.grant = ids]

Write(c, st) == heap' = [heap EXCEPT ![call[c].obj] = st]

\* The hook throws: the command does not run.
Block(c) ==
  call' = [call EXCEPT ![c] = Blocked(@)]

\* On to applyPostChecks, the last step before the hook returns.
LetThrough(c, way) ==
  call' = [call EXCEPT ![c] = Passing(@, way)]

\* index.ts, up to the first await: realpath of the cwd, then the classifier.
Begin(c, cmd) ==
  LET s == SessionOf[c]
  IN  /\ call[c].pc = "idle"
      /\ \E o \in Objs :
           /\ GetSession(s, o, Reachable)
           /\ IF cmd = Blank
                THEN /\ heap' = [heap EXCEPT ![o] = RecordRejection(Obtained(s, o), cmd)]
                     /\ call' = [call EXCEPT ![c] = Blocked(Given(@, cmd))]
                ELSE /\ heap' = [heap EXCEPT ![o] = Obtained(s, o)]
                     /\ call' = [call EXCEPT ![c] = Started(Given(@, cmd), o)]
      /\ UNCHANGED <<confirm, now, reviewed>>

CacheKey_viewless(c, view) ==
  IF Strict \/ view \in Uninspected
    THEN {}
    ELSE {[sid |-> SessionOf[c], form |-> NormalForm[call[c].cmd],
           view |-> CHOOSE v \in Views : TRUE]}

\* The cache key of a call: none in HARD, none for an uninspected context.
CacheKey(c, view) ==
  IF Strict \/ view \in Uninspected
    THEN {}
    ELSE {[sid |-> SessionOf[c], form |-> NormalForm[call[c].cmd], view |-> view]}

\* The classifier is an oracle here: it returns some verdict and some view.
Verdicts == {"ALLOW", "ASK", "DENY"}

\* A script that goes away while it is read rejects the hook with the error of
\* the file system: the command does not run, and nothing is recorded.
ClassifierThrows(c) ==
  /\ call[c].pc = "classify"
  /\ call' = [call EXCEPT ![c] = At(Over(@), "thrown")]
  /\ UNCHANGED <<heap, maps, confirm, now, reviewed>>

\* A static DENY comes before any approval and leaves it alone.
StaticDeny(c, verdict) ==
  /\ call[c].pc = "classify"
  /\ verdict = "DENY"
  /\ Write(c, RecordRejection(Mine(c), call[c].cmd))
  /\ Block(c)
  /\ UNCHANGED <<maps, confirm, now, reviewed>>

UseApproval(c, verdict) ==
  /\ call[c].pc = "classify"
  /\ verdict # "DENY"
  /\ Approves(Mine(c), c)
  /\ Write(c, Spend(Mine(c)))
  /\ call' = [call EXCEPT ![c] = Granted(@, {a.id : a \in Mine(c).approved})]
  /\ UNCHANGED <<maps, confirm, now, reviewed>>

StaticAllow(c, verdict) ==
  /\ call[c].pc = "classify"
  /\ verdict = "ALLOW"
  /\ ~Approves(Mine(c), c)
  /\ ~Forced(Mine(c))
  /\ Write(c, Discard(Mine(c)))
  /\ LetThrough(c, "static")
  /\ UNCHANGED <<maps, confirm, now, reviewed>>

\* The verdict asks for a review, or something before it does.
NeedsReview(c, verdict) ==
  /\ call[c].pc = "classify"
  /\ ~Approves(Mine(c), c)
  /\ verdict = "ASK" \/ (verdict = "ALLOW" /\ Forced(Mine(c)))

CachedAllow(c, verdict, view) ==
  /\ NeedsReview(c, verdict)
  /\ Hit(CacheKey(c, view))
  /\ Write(c, Discard(Mine(c)))
  /\ call' = [call EXCEPT ![c] = Seeing(Passing(@, "cache"), view)]
  /\ UNCHANGED <<maps, confirm, now, reviewed>>

\* The fail policy, when there is no usable review.
Fallback(c, st) ==
  \/ /\ FailPolicy = "fail_open"
     /\ Write(c, st)
     /\ LetThrough(c, "open")
  \/ /\ FailPolicy = "fail_close"
     /\ Write(c, RecordRejection(st, call[c].cmd))
     /\ Block(c)
  \/ /\ FailPolicy = "fail_ask"
     /\ Write(c, RaiseRequest(st, c))
     /\ Block(c)

\* Everything between the classifier's answer and the await of the review; an
\* unconfigured reviewer is an error at once.
StartReview(c, verdict, view) ==
  LET st  == Discard(Mine(c))
      key == CacheKey(c, view)
  IN  /\ NeedsReview(c, verdict)
      /\ ~Hit(key)
      /\ DropExpired(key)
      /\ \/ /\ HasReviewer
            /\ Write(c, Consume(st, c))
            /\ call' = [call EXCEPT ![c] =
                 Reviewing(Seeing(@, view), RejectionAtStart(st), FailureAtStart(st), key)]
         \/ /\ ~HasReviewer
            /\ Fallback(c, Consume(st, c))
      /\ UNCHANGED <<sessions, recency, confirm, now, reviewed>>

\* What the reviewer may answer; "absent" is a reply without bypassing, and
\* Failure stands for a throw, a timeout and a reply of another shape.
Replies == [decision : {"ALLOW", "DENY"}, bypassing : {"yes", "no", "absent"}]
             \cup [decision : {"error"}, bypassing : {"absent"}]

\* isValidReviewResult
Valid(reply) == /\ reply.decision \in {"ALLOW", "DENY"}
                /\ Strict <=> reply.bypassing # "absent"

\* The rejection is recorded before the session is aborted.
ReviewBypass(c, reply) ==
  /\ call[c].pc = "review"
  /\ Valid(reply) /\ reply.bypassing = "yes"
  /\ Write(c, RecordRejection(Mine(c), call[c].cmd))
  /\ call' = [call EXCEPT ![c] = At(@, "abort")]
  /\ UNCHANGED <<maps, confirm, now, reviewed>>

\* session.abort resolves or rejects: both end in the throw.
AbortReturns(c) ==
  /\ call[c].pc = "abort"
  /\ Block(c)
  /\ UNCHANGED <<heap, maps, confirm, now, reviewed>>

ReviewDeny(c, reply) ==
  /\ call[c].pc = "review"
  /\ Valid(reply) /\ reply.bypassing # "yes" /\ reply.decision = "DENY"
  /\ Write(c, RecordRejection(Mine(c), call[c].cmd))
  /\ Block(c)
  /\ UNCHANGED <<maps, confirm, now, reviewed>>

ReviewAllow(c, reply) ==
  /\ call[c].pc = "review"
  /\ Valid(reply) /\ reply.bypassing # "yes" /\ reply.decision = "ALLOW"
  /\ Write(c, ClearAnswered(Mine(c), c))
  /\ IF call[c].key = {}
       THEN UNCHANGED <<cache, cacheOrder>>
       ELSE \E k \in call[c].key : CacheAllow(k)
  /\ LetThrough(c, "review")
  /\ reviewed' = IF Strict THEN reviewed ELSE reviewed \cup
       {[sid |-> SessionOf[c], cmd |-> call[c].cmd, view |-> v, at |-> now] : v \in call[c].view}
  /\ UNCHANGED <<sessions, recency, confirm, now>>

ReviewFails(c, reply) ==
  /\ call[c].pc = "review"
  /\ ~Valid(reply)
  /\ Fallback(c, Mine(c))
  /\ UNCHANGED <<maps, confirm, now, reviewed>>

\* verifyScriptFingerprints: the scripts are as they were classified, or not.
VerifyPasses(c) ==
  /\ call[c].pc = "verify"
  /\ call' = [call EXCEPT ![c] = At(Over(@), "allowed")]
  /\ UNCHANGED <<heap, maps, confirm, now, reviewed>>

VerifyFails_retries(c) ==
  /\ call[c].pc = "verify"
  /\ call' = [call EXCEPT ![c] = [Started(@, @.obj) EXCEPT !.view = {}, !.via = "none"]]
  /\ UNCHANGED <<heap, maps, confirm, now, reviewed>>

VerifyFails(c) ==
  /\ call[c].pc = "verify"
  /\ Write(c, RecordRejection(Mine(c), call[c].cmd))
  /\ Block(c)
  /\ UNCHANGED <<maps, confirm, now, reviewed>>

-------------------------------------------------------------------------------
(* tool.execute.after *)

\* "none": no numeric exit code in the result's metadata.
Exits == {"none", "zero", "nonzero"}

\* What the result of the command does to the state object.
Reported(st, c, exit) ==
  IF exit = "zero" THEN ClearSucceeded(st, c)
  ELSE IF exit = "nonzero" /\ Strict THEN RecordFailure(st) ELSE st

Finish(c, exit) ==
  LET s == SessionOf[c]
  IN  /\ call[c].pc = "allowed"
      /\ \E o \in Objs :
           /\ GetSession(s, o, Reachable)
           /\ heap' = [heap EXCEPT ![o] = Reported(Obtained(s, o), c, exit)]
      /\ call' = [call EXCEPT ![c] = At(@, "done")]
      /\ UNCHANGED <<confirm, now, reviewed>>

-------------------------------------------------------------------------------
(* bash_classifier_confirm *)

\* sessions.get after pruneSessionStates
Surviving(s) == IF s \in Stale THEN NoObj ELSE sessions[s]

\* The pending request of the session, when it is the one asked about.
Asked(f, id) ==
  LET o == Surviving(SessionOf[f])
  IN  IF o = NoObj THEN {} ELSE {p \in heap[o].pending : p.id = id}

Withdrawn(st) == [st EXCEPT !.pending = {}]

InTime(p) == now <= p.expiresAt

\* No pending request, or another one.
ConfirmRefused(f, id) ==
  /\ confirm[f].pc = "idle"
  /\ Asked(f, id) = {}
  /\ DropSessions(Stale)
  /\ confirm' = [confirm EXCEPT ![f].pc = "done"]
  /\ UNCHANGED <<heap, call, now, reviewed>>

ConfirmExpired(f, id) ==
  /\ confirm[f].pc = "idle"
  /\ \E p \in Asked(f, id) : ~InTime(p)
  /\ DropSessions(Stale)
  /\ heap' = [heap EXCEPT ![Surviving(SessionOf[f])] = Withdrawn(@)]
  /\ confirm' = [confirm EXCEPT ![f].pc = "done"]
  /\ UNCHANGED <<call, now, reviewed>>

\* context.ask: the user is asked about the request pending now.
ConfirmAsk(f, id) ==
  /\ confirm[f].pc = "idle"
  /\ \E p \in Asked(f, id) :
       /\ InTime(p)
       /\ confirm' = [confirm EXCEPT ![f] = [pc |-> "asking", obj |-> Surviving(SessionOf[f]),
                                             ask |-> {p}]]
  /\ DropSessions(Stale)
  /\ UNCHANGED <<heap, call, now, reviewed>>

StillPending_object(f) == sessions[SessionOf[f]] = confirm[f].obj

\* After the answer: the object is still the session's, and the request asked
\* about is still the pending one.
StillPending(f) ==
  /\ sessions[SessionOf[f]] = confirm[f].obj
  /\ \E p \in heap[confirm[f].obj].pending, q \in confirm[f].ask : p.id = q.id /\ p.gen = q.gen

Answered(f, pc, ask) == confirm' = [confirm EXCEPT ![f] = [pc |-> pc, obj |-> NoObj, ask |-> ask]]

\* The user's yes turns the request into an approval; a no just ends it.
ApprovalOf(q) == [id |-> q.id, gen |-> IF Strict THEN q.gen ELSE 0, cmd |-> q.cmd]

WithConsent(st, asked) ==
  [st EXCEPT !.approved = {ApprovalOf(q) : q \in asked}, !.pending = {}]

ConfirmApproved(f) ==
  /\ confirm[f].pc = "asking"
  /\ StillPending(f)
  /\ heap' = [heap EXCEPT ![confirm[f].obj] = WithConsent(@, confirm[f].ask)]
  /\ Answered(f, "approved", confirm[f].ask)
  /\ UNCHANGED <<maps, call, now, reviewed>>

ConfirmDenied(f) ==
  /\ confirm[f].pc = "asking"
  /\ StillPending(f)
  /\ heap' = [heap EXCEPT ![confirm[f].obj] = Withdrawn(@)]
  /\ Answered(f, "denied", confirm[f].ask)
  /\ UNCHANGED <<maps, call, now, reviewed>>

\* Whatever the user said, the request is gone.
ConfirmSuperseded(f) ==
  /\ confirm[f].pc = "asking"
  /\ ~StillPending(f)
  /\ Answered(f, "done", {})
  /\ UNCHANGED <<heap, maps, call, now, reviewed>>

-------------------------------------------------------------------------------
(* Events *)

SessionDeleted(s) ==
  /\ DropSessions({s})
  /\ UNCHANGED <<heap, call, confirm, now, reviewed>>

Dispose ==
  /\ Clear
  /\ UNCHANGED <<heap, call, confirm, now, reviewed>>

Tick ==
  /\ now < MaxTime
  /\ now' = now + 1
  /\ UNCHANGED <<heap, maps, call, confirm, reviewed>>

-------------------------------------------------------------------------------
Init ==
  /\ StoreInit
  /\ call = [c \in Calls |-> [pc |-> "idle", obj |-> NoObj, cmd |-> Blank, rej |-> {}, fail |-> {},
                              view |-> {}, key |-> {}, via |-> "none", grant |-> {}]]
  /\ confirm = [f \in Confirms |-> [pc |-> "idle", obj |-> NoObj, ask |-> {}]]
  /\ reviewed = {}

Decide(c) ==
  \E verdict \in Verdicts :
    \/ StaticDeny(c, verdict)
    \/ UseApproval(c, verdict)
    \/ StaticAllow(c, verdict)
    \/ \E view \in Views : CachedAllow(c, verdict, view) \/ StartReview(c, verdict, view)

ReviewReturns(c) ==
  \E reply \in Replies :
    \/ ReviewBypass(c, reply)
    \/ ReviewDeny(c, reply)
    \/ ReviewAllow(c, reply)
    \/ ReviewFails(c, reply)

Verify(c) == VerifyPasses(c) \/ VerifyFails(c)

\* The steps of the before hook that follow an await.
Resume(c) ==
  Decide(c) \/ ClassifierThrows(c) \/ ReviewReturns(c) \/ AbortReturns(c) \/ Verify(c)

Next ==
  \/ \E c \in Calls : \/ \E cmd \in Commands : Begin(c, cmd)
                      \/ Resume(c)
                      \/ \E exit \in Exits : Finish(c, exit)
  \/ \E f \in Confirms : \/ \E id \in Calls : \/ ConfirmRefused(f, id)
                                              \/ ConfirmExpired(f, id)
                                              \/ ConfirmAsk(f, id)
                         \/ ConfirmApproved(f)
                         \/ ConfirmDenied(f)
                         \/ ConfirmSuperseded(f)
  \/ \E s \in Sessions : SessionDeleted(s)
  \/ Dispose
  \/ Tick

Spec == Init /\ [][Next]_vars

\* Every await of the before hook comes back: realpath, the classifier and the
\* fingerprints are file reads, the reviewer has a timeout, and abortSession
\* catches everything.  Nothing is assumed of clients, users and time.
FairSpec == Spec /\ \A c \in Calls : WF_vars(Resume(c))

-------------------------------------------------------------------------------
(* Safety *)

\* The requests the user was asked about and approved, or denied.
Answers(pc) ==
  {i \in Calls : \E f \in Confirms : confirm[f].pc = pc /\ \E q \in confirm[f].ask : q.id = i}
Consented == Answers("approved")
Refused   == Answers("denied")

\* A command let through on an approval is the very command the user was asked
\* about, in the same session, and the user said yes: whatever was blocked,
\* asked, replaced, dropped or retried in between (index.ts:463-478, 726-753).
ApprovalExact ==
  \A c \in Calls : \A i \in call[c].grant :
    /\ i \in Consented
    /\ call[i].cmd = call[c].cmd
    /\ SessionOf[i] = SessionOf[c]

\* One approval lets one command through, however many retries race for it and
\* however many confirmations of the same request are open (index.ts:466, 752).
ApprovalSpentOnce ==
  \A c, d \in Calls : call[c].grant \cap call[d].grant # {} => c = d

\* What the user approved is what is let through, once.
ApprovalBinds == ApprovalExact /\ ApprovalSpentOnce

\* A request the user denied never lets a command through, not even through a
\* second confirmation that was asked about it at the same time
\* (index.ts:758-770).
DeniedNeverRuns ==
  /\ \A c \in Calls : call[c].grant \cap Refused = {}
  /\ \A o \in Objs : \A a \in heap[o].approved : a.id \notin Refused

\* The generation checks tell rejections apart: a snapshot, a request and an
\* approval that carry the generation of a session's rejection are about that
\* rejection, not another one of the same object (index.ts:468, 588).
GenerationsIdentify ==
  /\ \A o \in Objs : \A r \in heap[o].rejected :
       /\ \A p \in heap[o].pending : p.gen = r.gen => p.cmd = r.cmd
       /\ \A a \in heap[o].approved : a.gen = r.gen => a.cmd = r.cmd
  /\ \A c \in Calls : \A x \in call[c].rej : \A r \in Mine(c).rejected :
       x.gen = r.gen => x = r

-------------------------------------------------------------------------------
(* What a step may not do *)

\* A call moves on to its post-checks, in this step.
Passes(c, way) == call[c].pc # "verify" /\ call'[c].pc = "verify" /\ call'[c].via = way

\* A rejection goes only when a newer one takes its place, when a review that
\* was shown this rejection allows its command, when the user's approval of the
\* rejected command is used, or with the object (index.ts:467-472, 586-591).
RejectionAnswered ==
  [][\A o \in Objs : \A r \in heap[o].rejected :
       o \in Reachable /\ heap'[o].rejected = {} =>
         \/ \E c \in Calls : call[c].obj = o /\ r \in call[c].rej /\ Passes(c, "review")
         \/ \E c \in Calls : call[c].obj = o /\ r.cmd = call[c].cmd /\ Passes(c, "approval")]_vars

\* A failure goes only when a newer one takes its place, or when the command
\* whose own forced review took it in charge has succeeded; never on another
\* command's success (index.ts:647-653).
FailureAnswered ==
  [][\A o \in Objs : \A x \in heap[o].failed :
       o \in Reachable /\ heap'[o].failed = {} =>
         \E c \in Calls : /\ x.by = {c}
                          /\ call[c].pc = "allowed" /\ call'[c].pc = "done"
                          /\ call[c].via \in {"review", "open"}]_vars

\* Nothing of what a session was refused, or failed with, is forgotten unanswered,
\* whichever calls are in flight (index.ts:467-472, 586-591, 647-653).
NothingForgotten == RejectionAnswered /\ FailureAnswered

\* HARD: with a rejection or a failure outstanding, no command is let through
\* on the static verdict or the cache alone (index.ts:480-494).
ForcedReview ==
  [][Strict => \A c \in Calls :
       Passes(c, "static") \/ Passes(c, "cache") =>
         /\ Mine(c).rejected = {}
         /\ \A x \in Mine(c).failed : x.by # {}]_vars

\* HARD: every way of refusing a command leaves the refusal as the newest
\* rejection of its session object, before the hook throws or aborts
\* (index.ts:323-331, 566, 572, 606, 617).
BlockRecorded ==
  [][Strict => \A c \in Calls :
       call[c].pc \notin {"blocked", "abort"} /\ call'[c].pc \in {"blocked", "abort"} =>
         \E o \in Objs :
           /\ heap'[o].owner = SessionOf[c]
           /\ heap'[o].rejected = {[cmd |-> call'[c].cmd, gen |-> heap'[o].version]}
           /\ heap'[o].version > (IF o \in Reachable THEN heap[o].version ELSE 0)]_vars

\* A command let through from the cache was allowed by the reviewer less than
\* CacheTTL ago, for the same session, the same normal form and the same,
\* fully inspected, view of its files (index.ts:179-243).
CacheHonest ==
  [][\A c \in Calls : Passes(c, "cache") =>
       \E r \in reviewed :
         /\ r.sid = SessionOf[c]
         /\ NormalForm[r.cmd] = NormalForm[call[c].cmd]
         /\ call'[c].view = {r.view} /\ r.view \notin Uninspected
         /\ now < r.at + CacheTTL]_vars

-------------------------------------------------------------------------------
(* Liveness *)

\* Every command the client sends is let through or blocked: no hook waits for
\* another call, the user or a lock.
CallSettles == \A c \in Calls : call[c].pc \in InFlight ~> call[c].pc \in Settled

-------------------------------------------------------------------------------
(* What the documentation says of the gate, and the code does not keep to *)

\* The allow-cache of a session "is discarded immediately when the session is
\* deleted".
CacheOfLiveSessions == \A k \in Cached : k.sid \in Live

\* "The pending request expires after 5 minutes" (README.md:231): an approval is
\* recorded in time.
ApprovalInTime ==
  [][\A f \in Confirms : confirm[f].pc = "asking" /\ confirm'[f].pc = "approved" =>
       \A p \in confirm[f].ask : InTime(p)]_vars
===============================================================================
